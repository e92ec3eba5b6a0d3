-------------------------- MODULE PreparationProofs --------------------------
(***************************************************************************)
(* Theorems about the preparation: columns, cases and cells are accounted  *)
(* for, the accountant and run_prep agree, and the checks of the result    *)
(* fail for what they are about.                                           *)
(***************************************************************************)
EXTENDS Preparation, FiniteSetTheorems, FunctionTheorems, SequenceTheorems, TLAPS

-----------------------------------------------------------------------------
(* Entries chosen by their positions (module Selection).                   *)

(* Choosing entries of a sequence by their positions: the position that is *)
(* the n-th of a finite set is found for each n there can be.              *)
RankIn(positions, k) == Cardinality({j \in positions : j <= k})

LEMMA RankType ==
  ASSUME NEW positions \in SUBSET Nat, IsFiniteSet(positions), NEW k \in positions
  PROVE  RankIn(positions, k) \in 1..Cardinality(positions)
<1>1. {j \in positions : j <= k} \subseteq positions /\ k \in {j \in positions : j <= k}
  OBVIOUS
<1>2. /\ IsFiniteSet({j \in positions : j <= k})
      /\ RankIn(positions, k) <= Cardinality(positions)
  BY <1>1, FS_Subset DEF RankIn
<1>3. RankIn(positions, k) # 0
  BY <1>1, <1>2, FS_EmptySet DEF RankIn
<1>4. RankIn(positions, k) \in Nat /\ Cardinality(positions) \in Nat
  BY <1>2, FS_CardinalityType DEF RankIn
<1> QED
  BY <1>2, <1>3, <1>4

LEMMA RankGrows ==
  ASSUME NEW positions \in SUBSET Nat, IsFiniteSet(positions),
         NEW k \in positions, NEW l \in positions, k < l
  PROVE  RankIn(positions, k) < RankIn(positions, l)
<1> DEFINE K == {j \in positions : j <= k}
           L == {j \in positions : j <= l}
<1>1. K \subseteq L /\ l \in L /\ l \notin K
  <2>1. k \in Nat /\ l \in Nat
    OBVIOUS
  <2>2. ASSUME NEW j \in K PROVE j \in L
    <3>1. j \in positions /\ j \in Nat /\ j <= k
      OBVIOUS
    <3>2. j <= l
      BY <2>1, <3>1
    <3> QED
      BY <3>1, <3>2
  <2>3. l <= l /\ ~(l <= k)
    BY <2>1
  <2> QED
    BY <2>2, <2>3
<1>2. IsFiniteSet(L)
  BY FS_Subset
<1>3. IsFiniteSet(K) /\ Cardinality(K) <= Cardinality(L) /\ Cardinality(K) # Cardinality(L)
  BY <1>1, <1>2, FS_Subset
<1>4. Cardinality(K) \in Nat /\ Cardinality(L) \in Nat
  BY <1>2, <1>3, FS_CardinalityType
<1> QED
  BY <1>3, <1>4 DEF RankIn

LEMMA RankInjective ==
  ASSUME NEW positions \in SUBSET Nat, IsFiniteSet(positions),
         NEW k \in positions, NEW l \in positions,
         RankIn(positions, k) = RankIn(positions, l)
  PROVE  k = l
<1>1. RankIn(positions, k) \in Int /\ RankIn(positions, l) \in Int
  BY RankType
<1>2. CASE k < l
  BY <1>1, <1>2, RankGrows
<1>3. CASE l < k
  BY <1>1, <1>3, RankGrows
<1> QED
  BY <1>2, <1>3

LEMMA RankSurjective ==
  ASSUME NEW positions \in SUBSET Nat, IsFiniteSet(positions),
         NEW n \in 1..Cardinality(positions)
  PROVE  \E k \in positions : RankIn(positions, k) = n
<1> DEFINE T == 1..Cardinality(positions)
           f == [k \in positions |-> RankIn(positions, k)]
<1>1. Cardinality(positions) \in Nat
  BY FS_CardinalityType
<1>2. f \in [positions -> T]
  BY RankType
<1>3. \A j, k \in positions : f[j] = f[k] => j = k
  BY RankInjective
<1>4. f \in Injection(positions, T)
  BY <1>2, <1>3, Fun_IsInj
<1>5. IsFiniteSet(T) /\ Cardinality(T) = Cardinality(positions)
  BY <1>1, FS_Interval
<1>6. f \in Surjection(positions, T)
  BY <1>4, <1>5, FS_Injection
<1>7. \A t \in T : \E k \in positions : f[k] = t
  <2> HIDE DEF T, f
  <2> QED
    BY <1>6, Fun_SurjectionProperties
<1> QED
  BY <1>7

(* Of some positions there is a first.                                     *)
LEMMA FirstPosition ==
  ASSUME NEW positions \in SUBSET Nat, IsFiniteSet(positions), positions # {}
  PROVE  /\ \E k \in positions : \A j \in positions : k <= j
         /\ Min(positions) \in positions /\ \A k \in positions : Min(positions) <= k
<1>1. 1 \in 1..Cardinality(positions)
  BY FS_CardinalityType, FS_EmptySet
<1>2. PICK k \in positions : RankIn(positions, k) = 1
  BY <1>1, RankSurjective
<1>3. ASSUME NEW j \in positions, j < k PROVE FALSE
  BY <1>2, <1>3, RankGrows, RankType, FS_CardinalityType
<1>4. \E i \in positions : \A j \in positions : i <= j
  BY <1>3
<1> QED
  BY <1>4 DEF Min

(* The entries at some positions are a sequence of just those entries.     *)
LEMMA EntriesAtPositions ==
  ASSUME NEW S, NEW s \in Seq(S), NEW positions \in SUBSET DOMAIN s
  PROVE  /\ EntriesAt(s, positions) \in Seq(S)
         /\ Named(EntriesAt(s, positions)) = {s[k] : k \in positions}
<1> DEFINE nth(n) == CHOOSE k \in positions : Cardinality({j \in positions : j <= k}) = n
           e == [n \in 1..Cardinality(positions) |-> s[nth(n)]]
<1>1. e = EntriesAt(s, positions)
  BY DEF EntriesAt
<1>2. DOMAIN s = 1..Len(s) /\ Len(s) \in Nat /\ \A k \in DOMAIN s : s[k] \in S
  BY LenProperties
<1>3. IsFiniteSet(positions) /\ positions \in SUBSET Nat
  <2>1. IsFiniteSet(1..Len(s))
    BY <1>2, FS_Interval
  <2>2. positions \in SUBSET (1..Len(s))
    BY <1>2
  <2>3. IsFiniteSet(positions)
    BY <2>1, <2>2, FS_Subset
  <2> QED
    BY <1>2, <2>2, <2>3
<1>4. Cardinality(positions) \in Nat
  BY <1>3, FS_CardinalityType
<1>5. \A n \in 1..Cardinality(positions) :
        nth(n) \in positions /\ Cardinality({j \in positions : j <= nth(n)}) = n
  BY <1>3, RankSurjective DEF RankIn
<1>6. \A k \in positions : \E n \in 1..Cardinality(positions) : nth(n) = k
  <2> SUFFICES ASSUME NEW k \in positions
               PROVE  \E n \in 1..Cardinality(positions) : nth(n) = k
    OBVIOUS
  <2>1. RankIn(positions, k) \in 1..Cardinality(positions)
    BY <1>3, RankType
  <2>2. nth(RankIn(positions, k)) = k
    BY <1>3, <1>5, <2>1, RankInjective DEF RankIn
  <2> QED
    BY <2>1, <2>2
<1> HIDE DEF nth
<1>7. e \in Seq(S)
  <2>1. \A n \in 1..Cardinality(positions) : s[nth(n)] \in S
    BY <1>2, <1>5
  <2>2. e \in [1..Cardinality(positions) -> S]
    BY <2>1
  <2> HIDE DEF e
  <2> QED
    BY <1>4, <2>2
<1>8. Named(e) = {s[k] : k \in positions}
  BY <1>5, <1>6 DEF Named
<1> QED
  BY <1>1, <1>7, <1>8

(* Entries that differ at the chosen positions are chosen once.            *)
LEMMA EntriesDiffer ==
  ASSUME NEW S, NEW s \in Seq(S), NEW positions \in SUBSET DOMAIN s,
         \A k, l \in positions : s[k] = s[l] => k = l
  PROVE  Different(EntriesAt(s, positions))
<1> DEFINE nth(n) == CHOOSE k \in positions : Cardinality({j \in positions : j <= k}) = n
           e == [n \in 1..Cardinality(positions) |-> s[nth(n)]]
<1>1. e = EntriesAt(s, positions)
  BY DEF EntriesAt
<1>2. IsFiniteSet(positions) /\ positions \in SUBSET Nat
  <2>1. DOMAIN s = 1..Len(s) /\ Len(s) \in Nat
    OBVIOUS
  <2>2. IsFiniteSet(1..Len(s))
    BY <2>1, FS_Interval
  <2>3. IsFiniteSet(positions)
    BY <2>1, <2>2, FS_Subset
  <2> QED
    BY <2>1, <2>3
<1>3. \A n \in 1..Cardinality(positions) :
        nth(n) \in positions /\ Cardinality({j \in positions : j <= nth(n)}) = n
  BY <1>2, RankSurjective DEF RankIn
<1> HIDE DEF nth
<1>4. ASSUME NEW m \in 1..Cardinality(positions), NEW n \in 1..Cardinality(positions),
             s[nth(m)] = s[nth(n)]
      PROVE  m = n
  <2>1. nth(m) = nth(n)
    BY <1>3, <1>4
  <2> QED
    BY <1>3, <2>1
<1>5. Different(e)
  BY <1>4 DEF Different
<1> QED
  BY <1>1, <1>5

(* All entries, each once.                                                 *)
LEMMA EachOnceFacts ==
  ASSUME NEW S, NEW s \in Seq(S)
  PROVE  /\ EachOnce(s) \in Seq(S)
         /\ Different(EachOnce(s))
         /\ s # <<>> => EachOnce(s) # <<>>
<1> DEFINE firsts == {k \in DOMAIN s : \A j \in 1..(k - 1) : s[j] # s[k]}
<1>1. firsts \in SUBSET DOMAIN s /\ DOMAIN s = 1..Len(s) /\ Len(s) \in Nat
  OBVIOUS
<1>2. EachOnce(s) \in Seq(S) /\ Named(EachOnce(s)) = {s[k] : k \in firsts}
  BY <1>1, EntriesAtPositions DEF EachOnce
<1>3. ASSUME NEW k \in firsts, NEW l \in firsts, s[k] = s[l] PROVE k = l
  <2>1. k \in Nat /\ l \in Nat /\ k >= 1 /\ l >= 1
    BY <1>1
  <2>2. ~(k < l) /\ ~(l < k)
    BY <1>3, <2>1
  <2> QED
    BY <2>1, <2>2
<1>4. Different(EachOnce(s))
  BY <1>1, <1>3, EntriesDiffer DEF EachOnce
<1>5. ASSUME s # <<>>, EachOnce(s) = <<>> PROVE FALSE
  <2>1. 1 \in firsts
    BY <1>1, <1>5
  <2>2. s[1] \in Named(EachOnce(s))
    BY <1>2, <2>1
  <2> QED
    BY <1>5, <2>2 DEF Named
<1> QED
  BY <1>2, <1>4, <1>5

-----------------------------------------------------------------------------
(* Cases of a list.  A list of cases is increasing, as the rows are read   *)
(* in their order, and so is what is kept of it; two such lists with the   *)
(* same cases are the same.                                                *)

LEMMA ListFacts ==
  ASSUME NEW X, NEW s \in Seq(X)
  PROVE  /\ DOMAIN s = 1..Len(s) /\ Len(s) \in Nat
         /\ IsFiniteSet(DOMAIN s) /\ Cardinality(DOMAIN s) = Len(s)
         /\ IsFiniteSet(Named(s)) /\ Named(s) \subseteq X
         /\ Cardinality(Named(s)) <= Len(s)
         /\ s \in Seq(Named(s))
<1>1. DOMAIN s = 1..Len(s) /\ Len(s) \in Nat /\ \A k \in DOMAIN s : s[k] \in X
  BY LenProperties
<1>2. IsFiniteSet(DOMAIN s) /\ Cardinality(DOMAIN s) = Len(s)
  BY <1>1, FS_Interval, SMTT(30)
<1>3. s \in Surjection(DOMAIN s, Named(s))
  BY <1>1, Fun_IsSurj DEF Named
<1>4. IsFiniteSet(Named(s)) /\ Cardinality(Named(s)) <= Len(s)
  BY <1>2, <1>3, FS_Surjection
<1>5. s \in Seq(Named(s))
  BY <1>1 DEF Named
<1> QED
  BY <1>1, <1>2, <1>4, <1>5 DEF Named

LEMMA DifferentCount ==
  ASSUME NEW X, NEW s \in Seq(X), Different(s)
  PROVE  Cardinality(Named(s)) = Len(s)
<1>1. s \in Injection(DOMAIN s, Named(s)) /\ s \in Surjection(DOMAIN s, Named(s))
  BY ListFacts, Fun_IsSurj, Fun_IsInj DEF Named, Different
<1> QED
  BY <1>1, ListFacts, FS_Surjection

LEMMA FromFacts ==
  ASSUME NEW X, NEW s \in Seq(X), NEW S
  PROVE  /\ From(s, S) \in Seq(X)
         /\ Named(From(s, S)) = Named(s) \cap S
         /\ Different(s) => Different(From(s, S))
<1> DEFINE ps == {n \in DOMAIN s : s[n] \in S}
<1>1. ps \in SUBSET DOMAIN s
  OBVIOUS
<1>2. From(s, S) \in Seq(X) /\ Named(From(s, S)) = {s[k] : k \in ps}
  BY <1>1, EntriesAtPositions DEF From
<1>3. {s[k] : k \in ps} = Named(s) \cap S
  BY DEF Named
<1>4. ASSUME Different(s) PROVE Different(From(s, S))
  BY <1>1, <1>4, EntriesDiffer DEF Different, From
<1> QED
  BY <1>2, <1>3, <1>4

LEMMA WithoutFacts ==
  ASSUME NEW X, NEW s \in Seq(X), NEW S
  PROVE  /\ Without(s, S) \in Seq(X)
         /\ Named(Without(s, S)) = Named(s) \ S
         /\ Different(s) => Different(Without(s, S))
         /\ Different(s) => Len(Without(s, S)) = Len(s) - Cardinality(Named(s) \cap S)
<1>1. /\ Without(s, S) \in Seq(X)
      /\ Named(Without(s, S)) = Named(s) \ S
      /\ Different(s) => Different(Without(s, S))
  BY FromFacts DEF Without
<1>2. ASSUME Different(s)
      PROVE  Len(Without(s, S)) = Len(s) - Cardinality(Named(s) \cap S)
  <2>1. Cardinality(Named(s)) = Len(s) /\ IsFiniteSet(Named(s))
    BY <1>2, DifferentCount, ListFacts
  <2>2. Cardinality(Named(Without(s, S))) = Len(Without(s, S))
    BY <1>1, <1>2, DifferentCount
  <2> QED
    BY <1>1, <2>1, <2>2, FS_Difference
<1> QED
  BY <1>1, <1>2

Increasing(s) == \A m, n \in DOMAIN s : m < n => s[m] < s[n]

LEMMA IncreasingDiffers ==
  ASSUME NEW s \in Seq(Nat), Increasing(s)
  PROVE  Different(s)
<1> SUFFICES ASSUME NEW m \in DOMAIN s, NEW n \in DOMAIN s, s[m] = s[n]
             PROVE  m = n
  BY DEF Different
<1>1. m \in Nat /\ n \in Nat /\ s[m] \in Nat
  OBVIOUS
<1>2. ~(m < n) /\ ~(n < m)
  BY <1>1 DEF Increasing
<1> QED
  BY <1>1, <1>2

(* The entries of an increasing list at some positions increase.           *)
LEMMA EntriesIncrease ==
  ASSUME NEW s \in Seq(Nat), Increasing(s), NEW positions \in SUBSET DOMAIN s
  PROVE  Increasing(EntriesAt(s, positions))
<1> DEFINE nth(n) == CHOOSE k \in positions : Cardinality({j \in positions : j <= k}) = n
           e == [n \in 1..Cardinality(positions) |-> s[nth(n)]]
<1>1. e = EntriesAt(s, positions)
  BY DEF EntriesAt
<1>2. IsFiniteSet(positions) /\ positions \in SUBSET Nat
  BY ListFacts, FS_Subset
<1>3. \A n \in 1..Cardinality(positions) :
        nth(n) \in positions /\ RankIn(positions, nth(n)) = n
  BY <1>2, RankSurjective DEF RankIn
<1> HIDE DEF nth
<1>4. ASSUME NEW m \in 1..Cardinality(positions), NEW n \in 1..Cardinality(positions), m < n
      PROVE  s[nth(m)] < s[nth(n)]
  <2>1. nth(m) \in positions /\ nth(n) \in positions /\ nth(m) \in Nat /\ nth(n) \in Nat
    BY <1>2, <1>3
  <2>2. ~(nth(n) < nth(m))
    BY <1>2, <1>3, <1>4, <2>1, RankGrows
  <2>3. nth(m) # nth(n)
    BY <1>3, <1>4
  <2> QED
    BY <2>1, <2>2, <2>3 DEF Increasing
<1>5. Increasing(e)
  BY <1>4 DEF Increasing
<1> QED
  BY <1>1, <1>5

(* Each entry of an increasing list has as many up to it as its position.  *)
LEMMA RankOfEntry ==
  ASSUME NEW s \in Seq(Nat), Increasing(s), NEW n \in DOMAIN s
  PROVE  RankIn(Named(s), s[n]) = n
<1> DEFINE T == {j \in Named(s) : j <= s[n]}
           f == [m \in 1..n |-> s[m]]
<1>1. DOMAIN s = 1..Len(s) /\ Len(s) \in Nat /\ n \in Nat /\ 1..n \subseteq DOMAIN s
  BY ListFacts
<1>2. \A m \in DOMAIN s : s[m] \in Nat /\ (s[m] <= s[n] <=> m <= n)
  <2> SUFFICES ASSUME NEW m \in DOMAIN s
               PROVE  s[m] \in Nat /\ (s[m] <= s[n] <=> m <= n)
    OBVIOUS
  <2>1. s[m] \in Nat /\ s[n] \in Nat /\ m \in Nat
    BY <1>1
  <2>2. (m < n => s[m] < s[n]) /\ (n < m => s[n] < s[m])
    BY DEF Increasing
  <2> QED
    BY <1>1, <2>1, <2>2
<1>3. T = {s[m] : m \in 1..n}
  BY <1>1, <1>2 DEF Named
<1>4. f \in Injection(1..n, T)
  <2>1. f \in [1..n -> T]
    BY <1>3
  <2>2. \A a, b \in 1..n : f[a] = f[b] => a = b
    BY <1>1, IncreasingDiffers DEF Different
  <2> QED
    BY <2>1, <2>2, Fun_IsInj
<1>5. f \in Surjection(1..n, T)
  BY <1>3, Fun_IsSurj
<1>6. IsFiniteSet(1..n) /\ Cardinality(1..n) = n
  BY <1>1, FS_Interval
<1> QED
  BY <1>4, <1>5, <1>6, FS_Surjection DEF RankIn

LEMMA IncreasingEqual ==
  ASSUME NEW s \in Seq(Nat), NEW t \in Seq(Nat), Increasing(s), Increasing(t),
         Named(s) = Named(t)
  PROVE  s = t
<1>1. Len(s) = Len(t)
  BY IncreasingDiffers, DifferentCount
<1>2. ASSUME NEW n \in DOMAIN s PROVE s[n] = t[n]
  <2>1. n \in DOMAIN t
    BY <1>1, ListFacts
  <2>2. RankIn(Named(s), s[n]) = RankIn(Named(s), t[n])
    BY <2>1, RankOfEntry
  <2>3. s[n] \in Named(s) /\ t[n] \in Named(s)
    BY <2>1 DEF Named
  <2>4. IsFiniteSet(Named(s)) /\ Named(s) \in SUBSET Nat
    BY ListFacts
  <2> QED
    BY <2>2, <2>3, <2>4, RankInjective
<1>3. \A n \in 1..Len(s) : s[n] = t[n]
  BY <1>2, ListFacts
<1> QED
  BY <1>1, <1>3, SeqEqual

LEMMA SubsetsIncrease ==
  ASSUME NEW s \in Seq(Nat), Increasing(s), NEW S
  PROVE  Increasing(From(s, S)) /\ Increasing(Without(s, S))
BY EntriesIncrease DEF From, Without

(* Dropping twice is dropping both at once.                                *)
LEMMA WithoutTwice ==
  ASSUME NEW s \in Seq(Nat), Increasing(s), NEW S, NEW T
  PROVE  Without(Without(s, S), T) = Without(s, S \cup T)
<1>1. /\ Without(s, S) \in Seq(Nat) /\ Increasing(Without(s, S))
      /\ Named(Without(s, S)) = Named(s) \ S
  BY WithoutFacts, SubsetsIncrease
<1>2. /\ Without(Without(s, S), T) \in Seq(Nat) /\ Increasing(Without(Without(s, S), T))
      /\ Named(Without(Without(s, S), T)) = (Named(s) \ S) \ T
  <2>1. PICK t : t = Without(s, S)
    OBVIOUS
  <2>2. t \in Seq(Nat) /\ Increasing(t) /\ Named(t) = Named(s) \ S
    BY <1>1, <2>1
  <2>3. Without(t, T) \in Seq(Nat) /\ Named(Without(t, T)) = Named(t) \ T
    BY <2>2, WithoutFacts, ZenonT(60)
  <2>4. Increasing(Without(t, T))
    BY <2>2, SubsetsIncrease
  <2> QED
    BY <2>1, <2>2, <2>3, <2>4
<1>3. /\ Without(s, S \cup T) \in Seq(Nat) /\ Increasing(Without(s, S \cup T))
      /\ Named(Without(s, S \cup T)) = Named(s) \ (S \cup T)
  BY WithoutFacts, SubsetsIncrease
<1>4. (Named(s) \ S) \ T = Named(s) \ (S \cup T)
  OBVIOUS
<1> QED
  BY <1>2, <1>3, <1>4, IncreasingEqual

-----------------------------------------------------------------------------
(* What the assumption says of the study at hand.                          *)

LEMMA StudyFacts ==
  ASSUME study \in Studies
  PROVE  /\ SchemaHolds(Con)
         /\ ItemOrder \in Seq(Named(ItemOrder)) /\ Named(ItemOrder) = Instrument(Con)
         /\ Columns \in Seq(Named(Columns)) /\ Rows \in Seq(RowsOf(study))
         /\ Data.checks \in Seq(Named(Data.checks))
         /\ Data.demographics \in Seq(Named(Data.demographics))
         /\ Data.others \in Seq(Named(Data.others))
         /\ Data.header_rows \in 0..3
BY PreparationAssumption DEF Con, ItemOrder, Columns, Rows, Export, Data, IsSequence

LEMMA RowFacts ==
  ASSUME study \in Studies
  PROVE  /\ DOMAIN Rows = 1..Len(Rows) /\ Len(Rows) \in Nat /\ DOMAIN Rows \in SUBSET Nat
         /\ \A k \in DOMAIN Rows :
              /\ Rows[k].id \in Seq(Nat) /\ Rows[k].consent \in BOOLEAN
              /\ Rows[k].width \in {"full", "short", "empty"}
              /\ Rows[k].width = "empty" \/ Rows[k].id # <<>>
              /\ Rows[k].passes \in [DOMAIN Data.checks -> BOOLEAN]
              /\ Rows[k].cells \in [DOMAIN ItemOrder -> Values]
<1>1. DOMAIN Rows = 1..Len(Rows) /\ Len(Rows) \in Nat /\ \A k \in DOMAIN Rows : Rows[k] \in RowsOf(study)
  BY StudyFacts, LenProperties
<1>2. \A r \in RowsOf(study) :
        /\ r.id \in Seq(Nat) /\ r.consent \in BOOLEAN
        /\ r.width \in {"full", "short", "empty"}
        /\ r.width = "empty" \/ r.id # <<>>
        /\ r.passes \in [DOMAIN Data.checks -> BOOLEAN]
        /\ r.cells \in [DOMAIN ItemOrder -> Values]
  BY DEF RowsOf, Data, ItemOrder
<1>3. DOMAIN Rows \in SUBSET Nat
  BY <1>1
<1> QED
  BY <1>1, <1>2, <1>3

LEMMA RawFacts ==
  ASSUME study \in Studies
  PROVE  /\ RawCases \in Seq(DOMAIN Rows) /\ RawCases \in Seq(Nat)
         /\ Increasing(RawCases) /\ Named(RawCases) = DOMAIN Rows
<1>1. RawCases \in [1..Len(Rows) -> DOMAIN Rows] /\ Len(Rows) \in Nat
  BY RowFacts DEF RawCases
<1>2. RawCases \in Seq(DOMAIN Rows)
  BY <1>1
<1>3. Increasing(RawCases)
  BY RowFacts DEF RawCases, Increasing
<1>4. Named(RawCases) = DOMAIN Rows
  BY DEF RawCases, Named
<1>5. RawCases \in Seq(Nat)
  BY <1>1, RowFacts
<1> QED
  BY <1>2, <1>3, <1>4, <1>5

LEMMA CellFacts ==
  ASSUME study \in Studies, NEW k \in DOMAIN Rows
  PROVE  /\ \A i \in Named(ItemOrder) : CellOf(k, i) \in Values
         /\ \A n \in Blanks(k) : ItemOrder[n] \in Named(ItemOrder) /\ n \in DOMAIN ItemOrder
         /\ Different(ItemOrder) => \A n \in DOMAIN ItemOrder :
              n \in Blanks(k) <=> CellOf(k, ItemOrder[n]) = "blank"
<1>1. Rows[k].cells \in [DOMAIN ItemOrder -> Values]
  BY RowFacts
<1>2. ASSUME NEW i \in Named(ItemOrder) PROVE CellOf(k, i) \in Values
  <2>1. \E n \in DOMAIN ItemOrder : ItemOrder[n] = i
    BY DEF Named
  <2>2. (CHOOSE n \in DOMAIN ItemOrder : ItemOrder[n] = i) \in DOMAIN ItemOrder
    BY <2>1
  <2> QED
    BY <1>1, <2>2 DEF CellOf
<1>3. ASSUME Different(ItemOrder), NEW n \in DOMAIN ItemOrder
      PROVE  n \in Blanks(k) <=> CellOf(k, ItemOrder[n]) = "blank"
  <2>1. (CHOOSE m \in DOMAIN ItemOrder : ItemOrder[m] = ItemOrder[n]) = n
    BY <1>3 DEF Different
  <2> QED
    BY <2>1 DEF CellOf, Blanks
<1> QED
  BY <1>2, <1>3 DEF Blanks, Named

LEMMA TypedFacts ==
  ASSUME NEW i, NEW cell \in Values
  PROVE  /\ Typed(i, cell) \in Cells
         /\ Typed(i, cell) = "missing" <=> cell \in {"blank", "nan"} \/ Corrupt(cell)
BY DEF Typed, Turned, Corrupt, Values, Cells

(* Nothing but the study decides on these.                                 *)
LEMMA StudyStays ==
  ASSUME study' = study
  PROVE  /\ Con' = Con /\ Data' = Data /\ Columns' = Columns /\ Rows' = Rows
         /\ ItemOrder' = ItemOrder /\ RawCases' = RawCases
         /\ \A k : (Refuses(k)' <=> Refuses(k)) /\ Blanks(k)' = Blanks(k)
                   /\ Completion(k)' = Completion(k)
         /\ \A j, k : (SameId(j, k)' <=> SameId(j, k)) /\ (SameAnswers(j, k)' <=> SameAnswers(j, k))
         /\ \A k, i : CellOf(k, i)' = CellOf(k, i)
         /\ \A i : Siblings(i)' = Siblings(i)
         /\ \A i, c : Typed(i, c)' = Typed(i, c)
<1>1. /\ Con' = Con /\ Data' = Data /\ Columns' = Columns /\ Rows' = Rows
      /\ ItemOrder' = ItemOrder
  BY DEF Con, Data, Columns, Rows, Export, ItemOrder
<1>2. RawCases' = RawCases
  BY <1>1 DEF RawCases
<1>3. \A k : Refuses(k)' <=> Refuses(k)
  BY <1>1 DEF Refuses
<1>4. \A k : Blanks(k)' = Blanks(k)
  BY <1>1 DEF Blanks
<1>5. \A k : Completion(k)' = Completion(k)
  BY <1>1, <1>4 DEF Completion
<1>6. \A j, k : (SameId(j, k)' <=> SameId(j, k)) /\ (SameAnswers(j, k)' <=> SameAnswers(j, k))
  BY <1>1 DEF SameId, SameAnswers
<1>7. \A k, i : CellOf(k, i)' = CellOf(k, i)
  BY <1>1 DEF CellOf
<1>8. \A i : Siblings(i)' = Siblings(i)
  BY <1>1 DEF Siblings, Prepared
<1>9. \A i, c : Typed(i, c)' = Typed(i, c)
  BY <1>1 DEF Typed
<1> QED
  BY <1>1, <1>2, <1>3, <1>4, <1>5, <1>6, <1>7, <1>8, <1>9

(* The reasons, one by one.                                                *)
LEMMA Reasons ==
  ASSUME NEW k
  PROVE  /\ Reason("consent", k) <=> Refuses(k)
         /\ Reason("duplicates", k) <=>
              \E j \in 1..(k - 1) : ~Refuses(j) /\ (SameId(j, k) \/ SameAnswers(j, k))
         /\ Reason("attention_checks", k) <=> FALSE \in Named(Rows[k].passes)
         /\ Reason("straight_liners", k) <=> StraightLined(Rows[k].cells)
         /\ Reason("partial_recovery", k) <=> Completion(k) < Threshold
         /\ Reason("outlier_policy", k) <=> k \in flagged
BY DEF Reason

Screens == <<"consent", "duplicates", "attention_checks", "straight_liners",
             "partial_recovery", "outlier_policy">>

LEMMA ReasonsStay ==
  ASSUME study' = study, NEW name \in Named(Screens), NEW k,
         flagged' = flagged \/ name # "outlier_policy"
  PROVE  Reason(name, k)' <=> Reason(name, k)
<1>1. name \in {"consent", "duplicates", "attention_checks", "straight_liners",
                "partial_recovery", "outlier_policy"}
  BY DEF Named, Screens
<1>2. CASE name = "consent"
  BY <1>2, StudyStays DEF Reason
<1>3. CASE name = "duplicates"
  BY <1>3, StudyStays DEF Reason
<1>4. CASE name = "attention_checks"
  BY <1>4, StudyStays DEF Reason
<1>5. CASE name = "straight_liners"
  BY <1>5, StudyStays DEF Reason
<1>6. CASE name = "partial_recovery"
  BY <1>6, StudyStays DEF Reason
<1>7. CASE name = "outlier_policy"
  BY <1>7 DEF Reason
<1> QED
  BY <1>1, <1>2, <1>3, <1>4, <1>5, <1>6, <1>7

-----------------------------------------------------------------------------
(* The invariant.                                                          *)

Early == {"load", "header", "match", "account", "keys"}

(* How many links the chain has when this is the next step.                *)
ChainAt ==
  [consent |-> 0, duplicates |-> 1, attention |-> 2, liners |-> 3, partials |-> 4,
   frame |-> 5, missing |-> 5, outliers |-> 5, finalize |-> 6, prepared |-> 6,
   asserted |-> 6, reconciled |-> 6]

Framed == {"missing", "outliers", "finalize", "prepared", "asserted", "reconciled"}

LinkType ==
  [name : Named(Screens), entering : Nat, leaving : Nat,
   dropped : Seq(DOMAIN Rows), recovered : Seq(DOMAIN Rows)]

(* Where the work is, and what a link is made of.                          *)
TypeInv ==
  /\ study \in Studies /\ policy \in Policies
  /\ pc \in Early \cup DOMAIN ChainAt \cup {"halted"}
  /\ header \in 0..3
  /\ \A r \in roles : r[1] \in DOMAIN Columns
  /\ current \in Seq(DOMAIN Rows) /\ accounted \in Seq(DOMAIN Rows)
  /\ links \in Seq(LinkType)
  /\ \A n \in DOMAIN links : links[n].entering - links[n].leaving = Len(links[n].dropped)
  /\ DOMAIN screening = DOMAIN NoScreening
  /\ DOMAIN frame \subseteq DOMAIN Rows
  /\ \A k \in DOMAIN frame : frame[k] \in [Named(ItemOrder) -> Cells]
  /\ flips \subseteq Con.reverse_coded /\ flagged \subseteq DOMAIN Rows
  /\ missingness \in {"none", "mcar_not_rejected", "mcar_rejected"}

(* The columns: those of the items first, then each one.                   *)
RoleInv ==
  /\ pc \in {"load", "header", "match"} => roles = {}
  /\ pc \in {"account", "keys"} \cup DOMAIN ChainAt => Different(ItemOrder)
  /\ pc = "account" => roles = {<<ColumnOf(i), "model_item">> : i \in Named(ItemOrder)}
  /\ pc \in {"keys"} \cup DOMAIN ChainAt =>
       \A k \in DOMAIN Columns : Cardinality({r \in roles : r[1] = k}) = 1

(* The chain so far: run_prep and the accountant have the same cases left, *)
(* those that no link has dropped.                                         *)
LinksHold ==
  /\ Len(links) = ChainAt[pc]
  /\ \A n \in DOMAIN links : links[n].name = Screens[n]
  /\ accounted = Without(RawCases, DroppedBefore)

ChainInv ==
  /\ pc \in Early => links = <<>>
  /\ pc \in DOMAIN ChainAt => LinksHold /\ (Len(links) < 6 => current = accounted)

DropInv ==
  pc \in DOMAIN ChainAt =>
    /\ \A m, n \in DOMAIN links :
         m # n => Named(links[m].dropped) \cap Named(links[n].dropped) = {}
    /\ \A n \in DOMAIN links : \A k \in Named(links[n].dropped) : Reason(links[n].name, k)

(* The cases that are left have passed the screens.                        *)
PassInv ==
  /\ pc \in DOMAIN ChainAt \ {"consent"} => \A k \in Named(accounted) : ~Refuses(k)
  /\ pc \in DOMAIN ChainAt \ {"consent", "duplicates"} =>
       \A j, k \in Named(accounted) :
         j < k => /\ "response_id" \in policy.duplicates => ~SameId(j, k)
                  /\ "identical_model_vector" \in policy.duplicates => ~SameAnswers(j, k)

(* The census has every blank cell of a case that is left, and no other    *)
(* cells; the frame has the cases that are left.                           *)
CensusInv ==
  pc \in {"frame"} \cup Framed =>
    /\ \A c \in screening.census : \E k \in DOMAIN Rows : \E n \in Blanks(k) : c = <<k, ItemOrder[n]>>
    /\ \A k \in Named(accounted) : \A n \in Blanks(k) : <<k, ItemOrder[n]>> \in screening.census

FrameInv ==
  pc \in Framed =>
    /\ DOMAIN frame = Named(accounted)
    /\ From(current, DOMAIN frame) = accounted
    /\ \A k \in DOMAIN frame, i \in Named(ItemOrder) :
         /\ frame[k][i] = Typed(i, CellOf(k, i))
         /\ Corrupt(CellOf(k, i)) => <<k, i>> \in screening.out_of_range
    /\ \A c \in screening.out_of_range :
         \E k \in DOMAIN Rows, i \in Named(ItemOrder) : c = <<k, i>> /\ Corrupt(CellOf(k, i))

(* Which items flip is known until outliers leave.                         *)
SignInv ==
  pc \in Framed =>
    \/ screening.violations = {i \in flips : Siblings(i) # {}}
    \/ Len(links) = 6 /\ links[6].dropped # <<>>

(* A step on the way to the end.                                           *)
Going == RoleInv /\ ChainInv /\ DropInv /\ PassInv /\ CensusInv /\ FrameInv /\ SignInv

Verdicts == FailuresExplained /\ ChecksAreExact

PrepInv ==
  /\ TypeInv /\ Verdicts /\ Going
  /\ pc # "halted" => failure = "none"

LEMMA Places ==
  /\ DOMAIN ChainAt = {"consent", "duplicates", "attention", "liners", "partials", "frame",
                       "missing", "outliers", "finalize", "prepared", "asserted", "reconciled"}
  /\ ChainAt["consent"] = 0 /\ ChainAt["duplicates"] = 1 /\ ChainAt["attention"] = 2
  /\ ChainAt["liners"] = 3 /\ ChainAt["partials"] = 4 /\ ChainAt["frame"] = 5
  /\ ChainAt["missing"] = 5 /\ ChainAt["outliers"] = 5 /\ ChainAt["finalize"] = 6
  /\ ChainAt["prepared"] = 6 /\ ChainAt["asserted"] = 6 /\ ChainAt["reconciled"] = 6
  /\ DOMAIN Screens = 1..6 /\ Named(Screens) = {Screens[n] : n \in 1..6}
  /\ Screens[1] = "consent" /\ Screens[2] = "duplicates" /\ Screens[3] = "attention_checks"
  /\ Screens[4] = "straight_liners" /\ Screens[5] = "partial_recovery"
  /\ Screens[6] = "outlier_policy"
  /\ DOMAIN NoScreening = {"census", "out_of_range", "violations"}
BY DEF ChainAt, Screens, Named, NoScreening

LEMMA LinkFacts ==
  ASSUME TypeInv
  PROVE  /\ DOMAIN links = 1..Len(links) /\ Len(links) \in Nat
         /\ \A n \in DOMAIN links :
              /\ links[n].dropped \in Seq(DOMAIN Rows)
              /\ Named(links[n].dropped) \subseteq DOMAIN Rows
         /\ DroppedBefore \subseteq DOMAIN Rows
<1>1. DOMAIN links = 1..Len(links) /\ Len(links) \in Nat
  BY DEF TypeInv
<1>2. \A n \in DOMAIN links : links[n].dropped \in Seq(DOMAIN Rows)
  <2>1. links \in Seq(LinkType)
    BY DEF TypeInv
  <2>2. \A r \in LinkType : r.dropped \in Seq(DOMAIN Rows)
    BY DEF LinkType
  <2> QED
    BY <2>1, <2>2, LenProperties
<1>3. ASSUME NEW n \in DOMAIN links PROVE Named(links[n].dropped) \subseteq DOMAIN Rows
  BY <1>2, ListFacts
<1> QED
  BY <1>1, <1>2, <1>3 DEF DroppedBefore

(* What the accountant has left, when it agrees with its links.            *)
LEMMA LeftFacts ==
  ASSUME TypeInv, accounted = Without(RawCases, DroppedBefore)
  PROVE  /\ accounted \in Seq(Nat) /\ Increasing(accounted) /\ Different(accounted)
         /\ Named(accounted) = DOMAIN Rows \ DroppedBefore
         /\ Named(accounted) \subseteq DOMAIN Rows
<1>1. RawCases \in Seq(Nat) /\ Increasing(RawCases) /\ Named(RawCases) = DOMAIN Rows
  BY RawFacts DEF TypeInv
<1>2. accounted \in Seq(Nat) /\ Named(accounted) = DOMAIN Rows \ DroppedBefore
  <2>1. PICK raw, gone : raw = RawCases /\ gone = DroppedBefore
    OBVIOUS
  <2>2. Without(raw, gone) \in Seq(Nat) /\ Named(Without(raw, gone)) = Named(raw) \ gone
    BY <1>1, <2>1, WithoutFacts
  <2> QED
    BY <1>1, <2>1, <2>2
<1>3. Increasing(accounted)
  BY <1>1, SubsetsIncrease
<1> QED
  BY <1>2, <1>3, IncreasingDiffers

-----------------------------------------------------------------------------
(* One link of the chain: the accountant finds nothing wrong with it.      *)
LEMMA LinkWorks ==
  ASSUME TypeInv, ChainInv, DropInv, pc \in DOMAIN ChainAt, Len(links) < 6,
         NEW dropped \in Seq(DOMAIN Rows), NEW recovered \in Seq(DOMAIN Rows), NEW rest,
         NEW step \in DOMAIN ChainAt, ChainAt[step] = Len(links) + 1,
         Different(dropped), Different(recovered),
         Named(dropped) \subseteq Named(accounted),
         Named(recovered) \subseteq Named(accounted) \ Named(dropped),
         NEW name, name = Screens[Len(links) + 1],
         Link(name, dropped, recovered, rest, step),
         \A k \in Named(dropped) : Reason(name, k)',
         study' = study, flagged' = flagged \/ Len(links) = 5
  PROVE  /\ pc' = step /\ failure' = failure /\ current' = rest
         /\ Len(links') = Len(links) + 1 /\ links'[Len(links) + 1].dropped = dropped
         /\ links' \in Seq(LinkType')
         /\ \A n \in DOMAIN links' :
              links'[n].entering - links'[n].leaving = Len(links'[n].dropped)
         /\ accounted' \in Seq(DOMAIN Rows)
         /\ accounted' = Without(accounted, Named(dropped))
         /\ Named(accounted') = Named(accounted) \ Named(dropped)
         /\ LinksHold' /\ DropInv'
<1> DEFINE link == [name |-> name, entering |-> Len(accounted), dropped |-> dropped,
                    recovered |-> recovered,
                    leaving |-> Len(Without(accounted, Named(dropped)))]
<1>0. links \in Seq(LinkType) /\ Len(links) \in Nat
  BY LinkFacts DEF TypeInv
<1>1. PICK N : N = Len(links) /\ N \in 0..5 /\ links \in Seq(LinkType)
  BY <1>0
<1>2. /\ LinksHold /\ accounted \in Seq(DOMAIN Rows) /\ Different(accounted)
      /\ accounted \in Seq(Nat) /\ Named(accounted) = DOMAIN Rows \ DroppedBefore
  BY LeftFacts DEF ChainInv, LinksHold, TypeInv
<1>3. LinkHolds(dropped, recovered)
  BY <1>2 DEF LinkHolds
<1>4. /\ links' = Append(links, link) /\ accounted' = Without(accounted, Named(dropped))
      /\ current' = rest /\ pc' = step /\ failure' = failure
  BY <1>3 DEF Link, Goto
<1>5. /\ accounted' \in Seq(DOMAIN Rows)
      /\ Named(accounted') = Named(accounted) \ Named(dropped)
      /\ Len(accounted') = Len(accounted) - Cardinality(Named(accounted) \cap Named(dropped))
  <2>1. PICK list, gone : list = accounted /\ gone = Named(dropped)
    OBVIOUS
  <2>2. /\ Without(list, gone) \in Seq(DOMAIN Rows)
        /\ Named(Without(list, gone)) = Named(list) \ gone
        /\ Len(Without(list, gone)) = Len(list) - Cardinality(Named(list) \cap gone)
    BY <1>2, <2>1, WithoutFacts, SMTT(30)
  <2> QED
    BY <1>4, <2>1, <2>2
<1>6. Len(accounted') = Len(accounted) - Len(dropped)
  <2>1. Named(accounted) \cap Named(dropped) = Named(dropped)
    OBVIOUS
  <2> QED
    BY <1>5, <2>1, DifferentCount
<1>7. LinkType' = LinkType
  BY StudyStays DEF LinkType
<1>8. link \in LinkType
  <2>1. name \in Named(Screens)
    BY <1>1, Places
  <2>2. Len(accounted) \in Nat /\ Len(Without(accounted, Named(dropped))) \in Nat
    BY <1>2, <1>4, <1>5
  <2> QED
    BY <2>1, <2>2 DEF LinkType
<1>9. /\ link.dropped = dropped /\ link.name = name
      /\ link.entering - link.leaving = Len(dropped)
  BY <1>2, <1>4, <1>5, <1>6, ListFacts
<1> HIDE DEF link
<1>10. /\ links' \in Seq(LinkType) /\ Len(links') = N + 1 /\ DOMAIN links' = 1..(N + 1)
       /\ \A n \in 1..N : links'[n] = links[n]
       /\ links'[N + 1] = link /\ DOMAIN links = 1..N
  BY <1>1, <1>4, <1>8, AppendProperties
<1>11. \A n \in DOMAIN links' : n \in DOMAIN links \/ n = N + 1
  BY <1>1, <1>10
<1>12. \A n \in DOMAIN links' : links'[n].entering - links'[n].leaving = Len(links'[n].dropped)
  BY <1>9, <1>10, <1>11 DEF TypeInv
<1>13. DroppedBefore' = DroppedBefore \cup Named(dropped)
  <2>1. \A n \in DOMAIN links : n \in DOMAIN links' /\ links'[n] = links[n]
    BY <1>1, <1>10
  <2>2. N + 1 \in DOMAIN links' /\ links'[N + 1].dropped = dropped
    BY <1>1, <1>9, <1>10
  <2>3. DroppedBefore' = UNION {Named(links'[n].dropped) : n \in DOMAIN links'}
    BY DEF DroppedBefore
  <2>4. \A k \in DroppedBefore : k \in DroppedBefore'
    BY <2>1, <2>3 DEF DroppedBefore
  <2>5. \A k \in Named(dropped) : k \in DroppedBefore'
    BY <2>2, <2>3
  <2>6. ASSUME NEW k \in DroppedBefore', k \notin Named(dropped) PROVE k \in DroppedBefore
    <3>1. PICK n \in DOMAIN links' : k \in Named(links'[n].dropped)
      BY <2>3, <2>6
    <3>2. n \in DOMAIN links
      BY <1>11, <2>2, <2>6, <3>1
    <3> QED
      BY <2>1, <3>1, <3>2 DEF DroppedBefore
  <2> QED
    BY <2>4, <2>5, <2>6
<1>14. LinksHold'
  <2>1. Len(links') = ChainAt'[pc']
    BY <1>1, <1>4, <1>10 DEF ChainAt
  <2>2. \A n \in DOMAIN links' : links'[n].name = Screens'[n]
    BY <1>1, <1>2, <1>9, <1>10, <1>11 DEF LinksHold, Screens
  <2>3. accounted' = Without(RawCases, DroppedBefore \cup Named(dropped))
    <3>1. PICK raw, gone, more : raw = RawCases /\ gone = DroppedBefore /\ more = Named(dropped)
      OBVIOUS
    <3>2. raw \in Seq(Nat) /\ Increasing(raw)
      BY <3>1, RawFacts DEF TypeInv
    <3>3. Without(Without(raw, gone), more) = Without(raw, gone \cup more)
      BY <3>2, WithoutTwice
    <3> QED
      BY <1>2, <1>4, <3>1, <3>3 DEF LinksHold
  <2>4. RawCases' = RawCases
    BY StudyStays
  <2> QED
    BY <1>13, <2>1, <2>2, <2>3, <2>4 DEF LinksHold
<1>15. DropInv'
  <2>1. ASSUME NEW n \in DOMAIN links
        PROVE  Named(links[n].dropped) \cap Named(dropped) = {}
    BY <1>2, <2>1 DEF DroppedBefore
  <2>2. \A m, n \in DOMAIN links : m # n => Named(links[m].dropped) \cap Named(links[n].dropped) = {}
    BY DEF DropInv
  <2>3. ASSUME NEW m \in DOMAIN links', NEW n \in DOMAIN links', m # n
        PROVE  Named(links'[m].dropped) \cap Named(links'[n].dropped) = {}
    <3>1. CASE m = N + 1
      BY <1>1, <1>9, <1>10, <1>11, <2>1, <2>3, <3>1
    <3>2. CASE n = N + 1
      BY <1>1, <1>9, <1>10, <1>11, <2>1, <2>3, <3>2
    <3>3. CASE m # N + 1 /\ n # N + 1
      BY <1>1, <1>10, <1>11, <2>2, <2>3, <3>3
    <3> QED
      BY <3>1, <3>2, <3>3
  <2>4. ASSUME NEW n \in DOMAIN links', NEW k \in Named(links'[n].dropped),
               NEW nm, nm = links'[n].name
        PROVE  Reason(nm, k)'
    <3>1. CASE n = N + 1
      <4>1. nm = name /\ k \in Named(dropped)
        BY <1>9, <1>10, <2>4, <3>1
      <4> QED
        BY <4>1
    <3>2. CASE n # N + 1
      <4>1. n \in 1..N /\ n \in DOMAIN links /\ links'[n] = links[n]
        BY <1>1, <1>10, <1>11, <3>2
      <4>2. Reason(nm, k)
        BY <2>4, <4>1 DEF DropInv
      <4>3. nm = Screens[n] /\ nm \in Named(Screens)
        BY <1>1, <1>2, <2>4, <4>1, Places, SMTT(30) DEF LinksHold
      <4>4. flagged' = flagged \/ nm # "outlier_policy"
        BY <1>1, <4>1, <4>3, Places
      <4>5. Reason(nm, k)' <=> Reason(nm, k)
        BY <4>3, <4>4, ReasonsStay
      <4> QED
        BY <4>2, <4>5
    <3> QED
      BY <3>1, <3>2
  <2>5. (\A n \in DOMAIN links : \A k \in Named(links[n].dropped) : Reason(links[n].name, k))'
    BY <2>4
  <2> QED
    BY <2>3, <2>5 DEF DropInv
<1> QED
  BY <1>1, <1>4, <1>5, <1>7, <1>9, <1>10, <1>12, <1>14, <1>15

-----------------------------------------------------------------------------
(* The screens.                                                            *)

LEMMA Quiet ==
  ASSUME failure' = "none", pc' # "reconciled"
  PROVE  Verdicts'
BY DEF Verdicts, FailuresExplained, ChecksAreExact

LEMMA EmptyList ==
  ASSUME NEW X
  PROVE  <<>> \in Seq(X) /\ Named(<<>>) = {} /\ Different(<<>>)
BY DEF Named, Different

LEMMA ScreenWorks ==
  ASSUME PrepInv, pc \in {"consent", "duplicates", "attention", "liners", "partials"},
         NEW dropped \in Seq(DOMAIN Rows), NEW recovered \in Seq(DOMAIN Rows),
         NEW step \in {"duplicates", "attention", "liners", "partials", "frame"},
         ChainAt[step] = ChainAt[pc] + 1,
         Different(dropped), Different(recovered),
         Named(dropped) \subseteq Named(current),
         Named(recovered) \subseteq Named(current) \ Named(dropped),
         NEW name, name = Screens[ChainAt[pc] + 1],
         Link(name, dropped, recovered, Without(current, Named(dropped)), step),
         \A k \in Named(dropped) : Reason(name, k)',
         UNCHANGED <<study, policy, crosswalk, frame, flips, missingness, flagged>>,
         DOMAIN screening' = DOMAIN screening
  PROVE  /\ TypeInv' /\ RoleInv' /\ ChainInv' /\ DropInv' /\ Verdicts'
         /\ pc' = step /\ failure' = "none"
         /\ Named(accounted') = Named(accounted) \ Named(dropped)
<1>1. /\ TypeInv /\ ChainInv /\ DropInv /\ RoleInv /\ LinksHold /\ failure = "none"
      /\ pc \in DOMAIN ChainAt /\ step \in DOMAIN ChainAt
  BY Places DEF PrepInv, Going, ChainInv
<1>2. Len(links) = ChainAt[pc] /\ ChainAt[pc] \in 0..4
  BY <1>1, Places DEF LinksHold
<1>3. Len(links) < 6 /\ ChainAt[step] = Len(links) + 1 /\ current = accounted
  BY <1>1, <1>2 DEF ChainInv
<1>4. study' = study /\ flagged' = flagged
  OBVIOUS
<1>5. /\ pc' = step /\ failure' = failure /\ current' = Without(current, Named(dropped))
      /\ Len(links') = Len(links) + 1
      /\ links' \in Seq(LinkType')
      /\ \A n \in DOMAIN links' :
           links'[n].entering - links'[n].leaving = Len(links'[n].dropped)
      /\ accounted' \in Seq(DOMAIN Rows)
      /\ accounted' = Without(accounted, Named(dropped))
      /\ Named(accounted') = Named(accounted) \ Named(dropped)
      /\ LinksHold' /\ DropInv'
  <2>1. Named(dropped) \subseteq Named(accounted)
    BY <1>3
  <2>2. Named(recovered) \subseteq Named(accounted) \ Named(dropped)
    BY <1>3
  <2>3. name = Screens[Len(links) + 1]
    BY <1>2
  <2>4. PICK rest : rest = Without(current, Named(dropped)) /\ Link(name, dropped, recovered, rest, step)
    OBVIOUS
  <2> QED
    BY <1>1, <1>3, <1>4, <2>1, <2>2, <2>3, <2>4, LinkWorks
<1>6. /\ Rows' = Rows /\ Columns' = Columns /\ ItemOrder' = ItemOrder /\ Con' = Con
      /\ header' = header /\ roles' = roles
  BY <1>4, StudyStays DEF crosswalk
<1>7. TypeInv'
  BY <1>1, <1>3, <1>5, <1>6, Places DEF TypeInv, Cells, NoScreening
<1>8. RoleInv'
  <2>1. Different(ItemOrder) /\ \A k \in DOMAIN Columns : Cardinality({r \in roles : r[1] = k}) = 1
    BY <1>1 DEF RoleInv
  <2> QED
    BY <1>5, <1>6, <2>1 DEF RoleInv
<1>9. ChainInv'
  BY <1>3, <1>5 DEF ChainInv, Early
<1> QED
  BY <1>1, <1>5, <1>7, <1>8, <1>9, Quiet

LEMMA ConsentKeeps == PrepInv /\ Consent => PrepInv'
<1> SUFFICES ASSUME PrepInv, Consent PROVE PrepInv'
  OBVIOUS
<1>1. PICK S : S = {k \in Named(current) : Refuses(k)}
  OBVIOUS
<1>2. PICK refused : refused = From(current, S)
  OBVIOUS
<1>3. /\ pc = "consent"
      /\ Link("consent", refused, <<>>, Without(current, Named(refused)), "duplicates")
      /\ UNCHANGED <<study, policy, crosswalk, prepared>>
  BY <1>1, <1>2 DEF Consent, Rest
<1>4. /\ TypeInv /\ ChainInv /\ PassInv /\ LinksHold /\ current = accounted
      /\ current \in Seq(DOMAIN Rows) /\ Different(current) /\ study' = study
  BY <1>3, Places, LeftFacts DEF PrepInv, Going, ChainInv, LinksHold, TypeInv
<1>5. refused \in Seq(DOMAIN Rows) /\ Named(refused) = Named(current) \cap S /\ Different(refused)
  BY <1>2, <1>4, FromFacts
<1>6. <<>> \in Seq(DOMAIN Rows) /\ Named(<<>>) = {} /\ Different(<<>>)
  BY EmptyList
<1>7. ASSUME NEW k \in Named(refused) PROVE Reason("consent", k)'
  <2>1. Refuses(k)'
    BY <1>1, <1>4, <1>5, StudyStays
  <2> QED
    BY <2>1 DEF Reason
<1>8. ChainAt["duplicates"] = ChainAt[pc] + 1 /\ "consent" = Screens[ChainAt[pc] + 1]
  BY <1>3, Places
<1>9. /\ UNCHANGED <<study, policy, crosswalk, frame, flips, missingness, flagged>>
      /\ screening' = screening
  BY <1>3 DEF prepared
<1>10. /\ TypeInv' /\ RoleInv' /\ ChainInv' /\ DropInv' /\ Verdicts'
       /\ pc' = "duplicates" /\ failure' = "none"
       /\ Named(accounted') = Named(accounted) \ Named(refused)
  BY <1>3, <1>5, <1>6, <1>7, <1>8, <1>9, ScreenWorks
<1>11. PassInv'
  <2>1. \A k \in Named(accounted') : ~Refuses(k)'
    BY <1>1, <1>4, <1>5, <1>10, StudyStays
  <2> QED
    BY <1>10, <2>1 DEF PassInv
<1>12. CensusInv' /\ FrameInv' /\ SignInv'
  BY <1>10 DEF CensusInv, FrameInv, SignInv, Framed
<1> QED
  BY <1>10, <1>11, <1>12 DEF PrepInv, Going

LEMMA ConcatFacts ==
  ASSUME NEW X, NEW s \in Seq(X), NEW t \in Seq(X)
  PROVE  /\ s \o t \in Seq(X) /\ Named(s \o t) = Named(s) \cup Named(t)
         /\ Different(s) /\ Different(t) /\ Named(s) \cap Named(t) = {} => Different(s \o t)
<1>1. PICK m, n : m = Len(s) /\ n = Len(t)
  OBVIOUS
<1>2. m \in Nat /\ n \in Nat /\ DOMAIN s = 1..m /\ DOMAIN t = 1..n
  BY <1>1, ListFacts
<1>3. /\ s \o t \in Seq(X) /\ DOMAIN (s \o t) = 1..(m + n)
      /\ \A k \in 1..(m + n) : (s \o t)[k] = IF k <= m THEN s[k] ELSE t[k - m]
  BY <1>1, <1>2, ConcatProperties
<1>4. Named(s \o t) \subseteq Named(s) \cup Named(t)
  <2> SUFFICES ASSUME NEW k \in 1..(m + n)
               PROVE  (s \o t)[k] \in Named(s) \cup Named(t)
    BY <1>3 DEF Named
  <2>1. CASE k <= m
    BY <1>2, <1>3, <2>1 DEF Named
  <2>2. CASE ~(k <= m)
    <3>1. k - m \in DOMAIN t /\ (s \o t)[k] = t[k - m]
      BY <1>2, <1>3, <2>2
    <3> QED
      BY <3>1 DEF Named
  <2> QED
    BY <2>1, <2>2
<1>5. Named(s) \subseteq Named(s \o t)
  <2> SUFFICES ASSUME NEW k \in DOMAIN s PROVE s[k] \in Named(s \o t)
    BY DEF Named
  <2>1. k \in 1..(m + n) /\ (s \o t)[k] = s[k]
    BY <1>2, <1>3
  <2> QED
    BY <1>3, <2>1 DEF Named
<1>6. Named(t) \subseteq Named(s \o t)
  <2> SUFFICES ASSUME NEW k \in DOMAIN t PROVE t[k] \in Named(s \o t)
    BY DEF Named
  <2>1. m + k \in 1..(m + n) /\ (s \o t)[m + k] = t[k]
    BY <1>2, <1>3
  <2> QED
    BY <1>3, <2>1 DEF Named
<1>7. ASSUME Different(s), Different(t), Named(s) \cap Named(t) = {},
             NEW j \in 1..(m + n), NEW k \in 1..(m + n), (s \o t)[j] = (s \o t)[k]
      PROVE  j = k
  <2>1. \A i \in 1..(m + n) : i <= m => i \in DOMAIN s /\ (s \o t)[i] = s[i]
    BY <1>2, <1>3
  <2>2. \A i \in 1..(m + n) : ~(i <= m) => i - m \in DOMAIN t /\ (s \o t)[i] = t[i - m]
    BY <1>2, <1>3
  <2>3. CASE j <= m /\ k <= m
    BY <1>7, <2>1, <2>3 DEF Different
  <2>4. CASE ~(j <= m) /\ ~(k <= m)
    <3>1. j - m = k - m
      BY <1>7, <2>2, <2>4 DEF Different
    <3> QED
      BY <1>2, <3>1
  <2>5. CASE j <= m /\ ~(k <= m)
    <3>1. s[j] \in Named(s) /\ t[k - m] \in Named(t) /\ s[j] = t[k - m]
      BY <1>7, <2>1, <2>2, <2>5 DEF Named
    <3> QED
      BY <1>7, <3>1
  <2>6. CASE ~(j <= m) /\ k <= m
    <3>1. s[k] \in Named(s) /\ t[j - m] \in Named(t) /\ s[k] = t[j - m]
      BY <1>7, <2>1, <2>2, <2>6 DEF Named
    <3> QED
      BY <1>7, <3>1
  <2> QED
    BY <2>3, <2>4, <2>5, <2>6
<1>8. Different(s) /\ Different(t) /\ Named(s) \cap Named(t) = {} => Different(s \o t)
  BY <1>3, <1>7 DEF Different
<1> QED
  BY <1>3, <1>4, <1>5, <1>6, <1>8

(* Where a screen begins.                                                  *)
LEMMA ScreenFacts ==
  ASSUME PrepInv, pc \in {"consent", "duplicates", "attention", "liners", "partials"}
  PROVE  /\ TypeInv /\ PassInv /\ LinksHold /\ current = accounted
         /\ current \in Seq(DOMAIN Rows) /\ Different(current) /\ Increasing(current)
         /\ Named(current) \subseteq DOMAIN Rows
         /\ \A k \in Named(current) : k \in DOMAIN Rows /\ k \in Nat /\ k >= 1
         /\ pc # "consent" => \A k \in Named(current) : ~Refuses(k)
         /\ study \in Studies /\ policy \in Policies
<1>1. /\ TypeInv /\ PassInv /\ LinksHold /\ study \in Studies /\ policy \in Policies
      /\ current = accounted
  <2>1. pc \in DOMAIN ChainAt /\ ChainAt[pc] < 6
    BY Places
  <2>2. LinksHold /\ (Len(links) < 6 => current = accounted)
    BY <2>1 DEF PrepInv, Going, ChainInv
  <2>3. Len(links) < 6
    BY <2>1, <2>2 DEF LinksHold
  <2>4. TypeInv /\ PassInv
    BY DEF PrepInv, Going
  <2>5. study \in Studies /\ policy \in Policies
    BY <2>4 DEF TypeInv
  <2> QED
    BY <2>2, <2>3, <2>4, <2>5
<1>2. Increasing(current) /\ Different(current) /\ Named(current) \subseteq DOMAIN Rows
  BY <1>1, LeftFacts DEF LinksHold
<1>3. current \in Seq(DOMAIN Rows)
  BY <1>1 DEF TypeInv
<1>4. \A k \in Named(current) : k \in DOMAIN Rows /\ k \in Nat /\ k >= 1
  <2>1. DOMAIN Rows = 1..Len(Rows) /\ Len(Rows) \in Nat
    BY <1>1, RowFacts
  <2> QED
    BY <1>2, <2>1
<1>5. pc # "consent" => \A k \in Named(current) : ~Refuses(k)
  BY <1>1, Places DEF PassInv
<1> QED
  BY <1>1, <1>2, <1>3, <1>4, <1>5

(* What a list is when its key counts, and when it does not.               *)
LEMMA UnderFacts ==
  ASSUME NEW X, NEW s \in Seq(X), Different(s), NEW key
  PROVE  /\ Under(key, s) \in Seq(X) /\ Different(Under(key, s))
         /\ Named(Under(key, s)) = IF key \in policy.duplicates THEN Named(s) ELSE {}
BY EmptyList DEF Under

(* The cases that are dropped as duplicates are those that come after one  *)
(* with the same id, and of the others, those after one with the same      *)
(* answers.                                                                *)
LEMMA TwiceFacts ==
  ASSUME NEW X, current \in Seq(X), Different(current)
  PROVE  /\ IdTwice \in Seq(X) /\ Different(IdTwice)
         /\ Named(IdTwice) = {k \in Named(current) :
              "response_id" \in policy.duplicates /\ SameIdBefore(current, k)}
         /\ AnswersTwice \in Seq(X) /\ Different(AnswersTwice)
         /\ Named(AnswersTwice) = {k \in Named(current) \ Named(IdTwice) :
              /\ "identical_model_vector" \in policy.duplicates
              /\ \E j \in Named(current) \ Named(IdTwice) : j < k /\ SameAnswers(j, k)}
<1>1. PICK S : S = {k \in Named(current) : SameIdBefore(current, k)}
  OBVIOUS
<1>2. PICK u : u = Under("response_id", current)
  OBVIOUS
<1>3. /\ u \in Seq(X) /\ Different(u)
      /\ Named(u) = IF "response_id" \in policy.duplicates THEN Named(current) ELSE {}
  BY <1>2, UnderFacts
<1>4. IdTwice = From(u, S)
  BY <1>1, <1>2 DEF IdTwice
<1>5. From(u, S) \in Seq(X) /\ Named(From(u, S)) = Named(u) \cap S /\ Different(From(u, S))
  BY <1>3, FromFacts
<1>6. PICK G : G = Named(IdTwice)
  OBVIOUS
<1>7. PICK others : others = Without(current, G)
  OBVIOUS
<1>8. others \in Seq(X) /\ Named(others) = Named(current) \ G /\ Different(others)
  BY <1>7, WithoutFacts
<1>9. PICK T : T = {k \in Named(others) : SameAnswersBefore(others, k)}
  OBVIOUS
<1>10. PICK v : v = Under("identical_model_vector", others)
  OBVIOUS
<1>11. /\ v \in Seq(X) /\ Different(v)
       /\ Named(v) = IF "identical_model_vector" \in policy.duplicates THEN Named(others) ELSE {}
  BY <1>8, <1>10, UnderFacts
<1>12. AnswersTwice = From(v, T)
  BY <1>6, <1>7, <1>9, <1>10 DEF AnswersTwice
<1>13. From(v, T) \in Seq(X) /\ Named(From(v, T)) = Named(v) \cap T /\ Different(From(v, T))
  BY <1>11, FromFacts
<1>14. Named(IdTwice) = {k \in Named(current) :
         "response_id" \in policy.duplicates /\ SameIdBefore(current, k)}
  BY <1>1, <1>3, <1>4, <1>5
<1>15. Named(AnswersTwice) = {k \in Named(current) \ Named(IdTwice) :
         /\ "identical_model_vector" \in policy.duplicates
         /\ \E j \in Named(current) \ Named(IdTwice) : j < k /\ SameAnswers(j, k)}
  BY <1>6, <1>8, <1>9, <1>11, <1>12, <1>13 DEF SameAnswersBefore
<1> QED
  BY <1>4, <1>5, <1>12, <1>13, <1>14, <1>15

LEMMA DuplicatesKeeps == PrepInv /\ Duplicates => PrepInv'
<1> SUFFICES ASSUME PrepInv, Duplicates PROVE PrepInv'
  OBVIOUS
<1>1. PICK twice : twice = IdTwice \o AnswersTwice
  OBVIOUS
<1>2. /\ pc = "duplicates"
      /\ Link("duplicates", twice, <<>>, Without(current, Named(twice)), "attention")
      /\ UNCHANGED <<study, policy, crosswalk, prepared>>
  BY <1>1 DEF Duplicates, Rest
<1>3. /\ current = accounted /\ current \in Seq(DOMAIN Rows) /\ Different(current)
      /\ study' = study /\ policy' = policy
  BY <1>2, ScreenFacts
<1>4. /\ IdTwice \in Seq(DOMAIN Rows) /\ Different(IdTwice)
      /\ Named(IdTwice) = {k \in Named(current) :
           "response_id" \in policy.duplicates /\ SameIdBefore(current, k)}
      /\ AnswersTwice \in Seq(DOMAIN Rows) /\ Different(AnswersTwice)
      /\ Named(AnswersTwice) = {k \in Named(current) \ Named(IdTwice) :
           /\ "identical_model_vector" \in policy.duplicates
           /\ \E j \in Named(current) \ Named(IdTwice) : j < k /\ SameAnswers(j, k)}
  BY <1>3, TwiceFacts
<1>5. Named(IdTwice) \cap Named(AnswersTwice) = {}
  BY <1>4
<1>6. /\ twice \in Seq(DOMAIN Rows) /\ Different(twice)
      /\ Named(twice) = Named(IdTwice) \cup Named(AnswersTwice)
  <2>1. PICK s, t : s = IdTwice /\ t = AnswersTwice
    OBVIOUS
  <2>2. s \in Seq(DOMAIN Rows) /\ t \in Seq(DOMAIN Rows) /\ Different(s) /\ Different(t)
        /\ Named(s) \cap Named(t) = {}
    BY <1>4, <1>5, <2>1
  <2>3. /\ s \o t \in Seq(DOMAIN Rows) /\ Different(s \o t)
        /\ Named(s \o t) = Named(s) \cup Named(t)
    BY <2>2, ConcatFacts
  <2> QED
    BY <1>1, <2>1, <2>3
<1>7. Named(twice) \subseteq Named(current)
  BY <1>4, <1>6
<1>8. <<>> \in Seq(DOMAIN Rows) /\ Named(<<>>) = {} /\ Different(<<>>)
  BY EmptyList
<1>9. \A k \in Named(current) : ~Refuses(k) /\ k \in DOMAIN Rows /\ k \in Nat /\ k >= 1
  BY <1>2, ScreenFacts
<1>10. ASSUME NEW k \in Named(twice) PROVE Reason("duplicates", k)'
  <2>1. \E j \in Named(current) : j < k /\ (SameId(j, k) \/ SameAnswers(j, k))
    BY <1>4, <1>6 DEF SameIdBefore
  <2>2. PICK j \in Named(current) : j < k /\ (SameId(j, k) \/ SameAnswers(j, k))
    BY <2>1
  <2>3. j \in 1..(k - 1) /\ ~Refuses(j)
    BY <1>7, <1>9, <2>2
  <2>4. ~Refuses(j)' /\ (SameId(j, k)' \/ SameAnswers(j, k)')
    BY <1>3, <2>2, <2>3, StudyStays
  <2> QED
    BY <2>3, <2>4 DEF Reason
<1>11. ChainAt["attention"] = ChainAt[pc] + 1 /\ "duplicates" = Screens[ChainAt[pc] + 1]
  BY <1>2, Places
<1>12. /\ UNCHANGED <<study, policy, crosswalk, frame, flips, missingness, flagged>>
       /\ screening' = screening
  BY <1>2 DEF prepared
<1>13. /\ TypeInv' /\ RoleInv' /\ ChainInv' /\ DropInv' /\ Verdicts'
       /\ pc' = "attention" /\ failure' = "none"
       /\ Named(accounted') = Named(accounted) \ Named(twice)
  BY <1>2, <1>6, <1>7, <1>8, <1>10, <1>11, <1>12, ScreenWorks
<1>14. PassInv'
  <2>1. \A k \in Named(accounted') : ~Refuses(k)'
    BY <1>3, <1>9, <1>13, StudyStays
  <2>2. ASSUME NEW j \in Named(accounted'), NEW k \in Named(accounted'), j < k
        PROVE  /\ "response_id" \in policy'.duplicates => ~SameId(j, k)'
               /\ "identical_model_vector" \in policy'.duplicates => ~SameAnswers(j, k)'
    <3>1. /\ j \in Named(current) \ Named(IdTwice) /\ j \notin Named(AnswersTwice)
          /\ k \in Named(current) \ Named(IdTwice) /\ k \notin Named(AnswersTwice)
      BY <1>3, <1>6, <1>13
    <3>2. "response_id" \in policy.duplicates => ~SameId(j, k)
      BY <1>4, <2>2, <3>1 DEF SameIdBefore
    <3>3. "identical_model_vector" \in policy.duplicates => ~SameAnswers(j, k)
      BY <1>4, <2>2, <3>1
    <3> QED
      BY <1>3, <3>2, <3>3, StudyStays
  <2> QED
    BY <2>1, <2>2 DEF PassInv
<1>15. CensusInv' /\ FrameInv' /\ SignInv'
  BY <1>13 DEF CensusInv, FrameInv, SignInv, Framed
<1> QED
  BY <1>13, <1>14, <1>15 DEF PrepInv, Going

(* The cases that fail a check: the visits are to each check and each      *)
(* case.                                                                   *)
LEMMA VisitFacts ==
  ASSUME NEW C \in Nat, NEW L \in Nat, NEW n \in 1..(C * L)
  PROVE  ((n - 1) \div L) + 1 \in 1..C /\ ((n - 1) % L) + 1 \in 1..L
<1>1. C * L \in Nat
  OBVIOUS
<1>2. L > 0
  <2>1. L = 0 => C * L = 0
    OBVIOUS
  <2> QED
    BY <1>1, <2>1
<1>3. PICK q, r : q = (n - 1) \div L /\ r = (n - 1) % L
  OBVIOUS
<1>4. q \in Int /\ r \in 0..(L - 1) /\ n - 1 = L * q + r
  BY <1>2, <1>3
<1>5. n - 1 >= 0 /\ n - 1 < C * L
  BY <1>1
<1>6. q >= 0
  <2>1. ASSUME q <= -1 PROVE FALSE
    <3>1. L * (q + 1) <= 0
      BY <1>2, <1>4, <2>1
    <3>2. L * (q + 1) = L * q + L
      BY <1>4
    <3>3. L * q \in Int
      BY <1>4
    <3> QED
      BY <1>4, <1>5, <3>1, <3>2, <3>3
  <2> QED
    BY <1>4, <2>1
<1>7. q < C
  <2>1. ASSUME q >= C PROVE FALSE
    <3>1. L * (q - C) >= 0
      BY <1>2, <1>4, <2>1
    <3>2. L * (q - C) = L * q - C * L
      BY <1>4
    <3>3. L * q \in Int /\ C * L \in Int
      BY <1>4
    <3> QED
      BY <1>4, <1>5, <3>1, <3>2, <3>3
  <2> QED
    BY <1>4, <2>1
<1> QED
  BY <1>2, <1>3, <1>4, <1>6, <1>7

LEMMA InattentiveFacts ==
  ASSUME study \in Studies, current \in Seq(DOMAIN Rows)
  PROVE  /\ Inattentive \in Seq(Named(current)) /\ Different(Inattentive)
         /\ \A k \in Named(Inattentive) :
              k \in Named(current) /\ FALSE \in Named(Rows[k].passes)
<1> DEFINE V == 1..(Len(Data.checks) * Len(current))
           visits == [n \in V |-> CaseAt(n)]
           failing == {n \in DOMAIN visits : ~Rows[CaseAt(n)].passes[CheckAt(n)]}
<1>1. PICK C, L : C = Len(Data.checks) /\ L = Len(current)
  OBVIOUS
<1>2. /\ C \in Nat /\ L \in Nat /\ DOMAIN Data.checks = 1..C /\ DOMAIN current = 1..L
      /\ \A m \in DOMAIN current : current[m] \in Named(current) /\ current[m] \in DOMAIN Rows
  BY <1>1, StudyFacts, ListFacts DEF Named
<1>3. \A n \in V : CheckAt(n) \in DOMAIN Data.checks /\ CaseAt(n) \in Named(current)
                   /\ CaseAt(n) \in DOMAIN Rows
  <2> SUFFICES ASSUME NEW n \in V
               PROVE  /\ CheckAt(n) \in DOMAIN Data.checks /\ CaseAt(n) \in Named(current)
                      /\ CaseAt(n) \in DOMAIN Rows
    OBVIOUS
  <2>1. ((n - 1) \div L) + 1 \in 1..C /\ ((n - 1) % L) + 1 \in 1..L
    BY <1>1, <1>2, VisitFacts
  <2>2. PICK m : m = ((n - 1) % L) + 1
    OBVIOUS
  <2>3. CaseAt(n) = current[m] /\ m \in DOMAIN current
    BY <1>1, <1>2, <2>1, <2>2 DEF CaseAt
  <2>4. CheckAt(n) \in DOMAIN Data.checks
    BY <1>1, <1>2, <2>1 DEF CheckAt
  <2> QED
    BY <1>2, <2>3, <2>4
<1>4. C * L \in Nat /\ V = 1..(C * L)
  BY <1>1, <1>2
<1>5. visits \in Seq(Named(current)) /\ DOMAIN visits = V
  BY <1>3, <1>4
<1>6. failing \in SUBSET DOMAIN visits
  OBVIOUS
<1>7. PICK w, e : w = visits /\ e = EntriesAt(w, failing)
  OBVIOUS
<1>8. e \in Seq(Named(current)) /\ Named(e) = {w[n] : n \in failing}
  <2>1. PICK F : F = failing
    OBVIOUS
  <2>2. w \in Seq(Named(current)) /\ F \in SUBSET DOMAIN w /\ e = EntriesAt(w, F)
    BY <1>5, <1>6, <1>7, <2>1
  <2>3. e \in Seq(Named(current)) /\ Named(e) = {w[n] : n \in F}
    BY <2>2, EntriesAtPositions
  <2> QED
    BY <2>1, <2>3
<1>9. Inattentive = EachOnce(e)
  BY <1>7 DEF Inattentive
<1>10. EachOnce(e) \in Seq(Named(current)) /\ Different(EachOnce(e))
  BY <1>8, EachOnceFacts
<1>11. Named(EachOnce(e)) \subseteq Named(e)
  <2>1. e \in Seq(Named(e))
    BY <1>8, ListFacts
  <2>2. EachOnce(e) \in Seq(Named(e))
    BY <2>1, EachOnceFacts
  <2> QED
    BY <2>2, ListFacts
<1>12. ASSUME NEW k \in Named(Inattentive)
       PROVE  k \in Named(current) /\ FALSE \in Named(Rows[k].passes)
  <2>1. PICK n \in failing : k = w[n]
    BY <1>8, <1>9, <1>11, <1>12
  <2>2. n \in V /\ k = CaseAt(n) /\ ~Rows[k].passes[CheckAt(n)]
    BY <1>5, <1>7, <2>1
  <2>3. Rows[k].passes \in [DOMAIN Data.checks -> BOOLEAN] /\ CheckAt(n) \in DOMAIN Data.checks
        /\ k \in Named(current)
    BY <1>3, <2>2, RowFacts
  <2>4. Rows[k].passes[CheckAt(n)] = FALSE
    BY <2>2, <2>3
  <2> QED
    BY <2>3, <2>4 DEF Named
<1> QED
  BY <1>9, <1>10, <1>12

LEMMA ActingFacts ==
  ASSUME NEW X, NEW s \in Seq(X), Different(s), NEW action
  PROVE  /\ Acting(action, s) \in Seq(X) /\ Different(Acting(action, s))
         /\ Named(Acting(action, s)) \subseteq Named(s)
BY EmptyList DEF Acting

(* A case that is left has passed what it had to pass before.              *)
LEMMA PassesStay ==
  ASSUME PassInv, study' = study, policy' = policy,
         pc \in DOMAIN ChainAt \ {"consent", "duplicates"},
         Named(accounted') \subseteq Named(accounted)
  PROVE  PassInv'
<1>1. \A k \in Named(accounted) : ~Refuses(k)
  BY Places DEF PassInv
<1>2. \A j, k \in Named(accounted) :
        j < k => /\ "response_id" \in policy.duplicates => ~SameId(j, k)
                 /\ "identical_model_vector" \in policy.duplicates => ~SameAnswers(j, k)
  BY Places DEF PassInv
<1>3. \A k \in Named(accounted') : ~Refuses(k)'
  BY <1>1, StudyStays
<1>4. ASSUME NEW j \in Named(accounted'), NEW k \in Named(accounted'), j < k
      PROVE  /\ "response_id" \in policy'.duplicates => ~SameId(j, k)'
             /\ "identical_model_vector" \in policy'.duplicates => ~SameAnswers(j, k)'
  BY <1>2, <1>4, StudyStays
<1> QED
  BY <1>3, <1>4 DEF PassInv

LEMMA AttentionKeeps == PrepInv /\ Attention => PrepInv'
<1> SUFFICES ASSUME PrepInv, Attention PROVE PrepInv'
  OBVIOUS
<1>1. PICK list : list = Inattentive
  OBVIOUS
<1>2. PICK dropped : dropped = Acting(policy.attention, list)
  OBVIOUS
<1>3. /\ pc = "attention"
      /\ Link("attention_checks", dropped, <<>>, Without(current, Named(dropped)), "liners")
      /\ UNCHANGED <<study, policy, crosswalk, prepared>>
  BY <1>1, <1>2 DEF Attention, Rest
<1>4. /\ study \in Studies /\ current \in Seq(DOMAIN Rows) /\ Named(current) \subseteq DOMAIN Rows
      /\ study' = study /\ policy' = policy
  BY <1>3, ScreenFacts
<1>5. /\ list \in Seq(Named(current)) /\ Different(list)
      /\ \A k \in Named(list) : FALSE \in Named(Rows[k].passes)
  BY <1>1, <1>4, InattentiveFacts
<1>6. dropped \in Seq(Named(current)) /\ Different(dropped) /\ Named(dropped) \subseteq Named(list)
  BY <1>2, <1>5, ActingFacts
<1>7. Named(dropped) \subseteq Named(current) /\ dropped \in Seq(DOMAIN Rows)
  <2>1. Named(dropped) \subseteq Named(current)
    BY <1>6, ListFacts
  <2>2. dropped \in Seq(Named(dropped))
    BY <1>6, ListFacts
  <2> QED
    BY <1>4, <1>6, <2>1
<1>8. <<>> \in Seq(DOMAIN Rows) /\ Named(<<>>) = {} /\ Different(<<>>)
  BY EmptyList
<1>9. ASSUME NEW k \in Named(dropped) PROVE Reason("attention_checks", k)'
  <2>1. FALSE \in Named(Rows[k].passes)
    BY <1>5, <1>6
  <2>2. (FALSE \in Named(Rows[k].passes))'
    BY <1>4, <2>1, StudyStays
  <2> QED
    BY <2>2 DEF Reason
<1>10. ChainAt["liners"] = ChainAt[pc] + 1 /\ "attention_checks" = Screens[ChainAt[pc] + 1]
  BY <1>3, Places
<1>11. /\ UNCHANGED <<study, policy, crosswalk, frame, flips, missingness, flagged>>
       /\ screening' = screening
  BY <1>3 DEF prepared
<1>12. /\ TypeInv' /\ RoleInv' /\ ChainInv' /\ DropInv' /\ Verdicts'
       /\ pc' = "liners" /\ failure' = "none"
       /\ Named(accounted') = Named(accounted) \ Named(dropped)
  BY <1>3, <1>6, <1>7, <1>8, <1>9, <1>10, <1>11, ScreenWorks
<1>13. PassInv'
  BY <1>3, <1>4, <1>12, Places, PassesStay DEF PrepInv, Going
<1>14. CensusInv' /\ FrameInv' /\ SignInv'
  BY <1>12 DEF CensusInv, FrameInv, SignInv, Framed
<1> QED
  BY <1>12, <1>13, <1>14 DEF PrepInv, Going

LEMMA LinersKeeps == PrepInv /\ StraightLiners => PrepInv'
<1> SUFFICES ASSUME PrepInv, StraightLiners PROVE PrepInv'
  OBVIOUS
<1>1. PICK S : S = {k \in Named(current) : StraightLined(Rows[k].cells)}
  OBVIOUS
<1>2. PICK list, dropped : list = From(current, S) /\ dropped = Acting(policy.liners, list)
  OBVIOUS
<1>3. /\ pc = "liners"
      /\ Link("straight_liners", dropped, <<>>, Without(current, Named(dropped)), "partials")
      /\ UNCHANGED <<study, policy, crosswalk, prepared>>
  BY <1>1, <1>2 DEF StraightLiners, Rest
<1>4. /\ study \in Studies /\ current \in Seq(DOMAIN Rows) /\ Different(current)
      /\ study' = study /\ policy' = policy
  BY <1>3, ScreenFacts
<1>5. list \in Seq(DOMAIN Rows) /\ Different(list) /\ Named(list) = Named(current) \cap S
  BY <1>2, <1>4, FromFacts
<1>6. dropped \in Seq(DOMAIN Rows) /\ Different(dropped) /\ Named(dropped) \subseteq Named(list)
  BY <1>2, <1>5, ActingFacts
<1>7. Named(dropped) \subseteq Named(current)
  BY <1>5, <1>6
<1>8. <<>> \in Seq(DOMAIN Rows) /\ Named(<<>>) = {} /\ Different(<<>>)
  BY EmptyList
<1>9. ASSUME NEW k \in Named(dropped) PROVE Reason("straight_liners", k)'
  <2>1. StraightLined(Rows[k].cells)
    BY <1>1, <1>5, <1>6
  <2>2. StraightLined(Rows[k].cells)'
    BY <1>4, <2>1, StudyStays DEF StraightLined
  <2> QED
    BY <2>2 DEF Reason
<1>10. ChainAt["partials"] = ChainAt[pc] + 1 /\ "straight_liners" = Screens[ChainAt[pc] + 1]
  BY <1>3, Places
<1>11. /\ UNCHANGED <<study, policy, crosswalk, frame, flips, missingness, flagged>>
       /\ screening' = screening
  BY <1>3 DEF prepared
<1>12. /\ TypeInv' /\ RoleInv' /\ ChainInv' /\ DropInv' /\ Verdicts'
       /\ pc' = "partials" /\ failure' = "none"
       /\ Named(accounted') = Named(accounted) \ Named(dropped)
  BY <1>3, <1>6, <1>7, <1>8, <1>9, <1>10, <1>11, ScreenWorks
<1>13. PassInv'
  BY <1>3, <1>4, <1>12, Places, PassesStay DEF PrepInv, Going
<1>14. CensusInv' /\ FrameInv' /\ SignInv'
  BY <1>12 DEF CensusInv, FrameInv, SignInv, Framed
<1> QED
  BY <1>12, <1>13, <1>14 DEF PrepInv, Going

LEMMA PartialsKeeps == PrepInv /\ Partials => PrepInv'
<1> SUFFICES ASSUME PrepInv, Partials PROVE PrepInv'
  OBVIOUS
<1> DEFINE cells == UNION {{<<k, ItemOrder[n]>> : n \in Blanks(k)} : k \in Named(current)}
<1>1. PICK S, T : /\ S = {k \in Named(current) : Blanks(k) # {}}
                  /\ T = {k \in Named(From(current, S)) : Completion(k) < Threshold}
  OBVIOUS
<1>2. PICK partial : partial = From(current, S)
  OBVIOUS
<1>3. PICK dropped : dropped = From(partial, T)
  OBVIOUS
<1>4. PICK gone : gone = Named(dropped)
  OBVIOUS
<1>5. PICK recovered : recovered = Without(partial, gone)
  OBVIOUS
<1>6. /\ pc = "partials"
      /\ Link("partial_recovery", dropped, recovered, Without(current, Named(dropped)), "frame")
      /\ UNCHANGED <<study, policy, crosswalk, frame, flips, missingness, flagged>>
      /\ screening' = [screening EXCEPT !.census = cells]
  BY <1>1, <1>2, <1>3, <1>4, <1>5 DEF Partials
<1>7. /\ study \in Studies /\ current \in Seq(DOMAIN Rows) /\ Different(current)
      /\ current = accounted /\ Named(current) \subseteq DOMAIN Rows
      /\ study' = study /\ policy' = policy /\ TypeInv
  BY <1>6, ScreenFacts
<1>8. partial \in Seq(DOMAIN Rows) /\ Different(partial) /\ Named(partial) = Named(current) \cap S
  BY <1>2, <1>7, FromFacts
<1>9. dropped \in Seq(DOMAIN Rows) /\ Different(dropped) /\ Named(dropped) = Named(partial) \cap T
  BY <1>3, <1>8, FromFacts
<1>10. /\ recovered \in Seq(DOMAIN Rows) /\ Different(recovered)
       /\ Named(recovered) = Named(partial) \ gone
  BY <1>5, <1>8, WithoutFacts
<1>11. /\ Named(dropped) \subseteq Named(current)
       /\ Named(recovered) \subseteq Named(current) \ Named(dropped)
  BY <1>4, <1>8, <1>9, <1>10
<1>12. ASSUME NEW k \in Named(dropped) PROVE Reason("partial_recovery", k)'
  <2>1. Completion(k) < Threshold
    BY <1>1, <1>9
  <2>2. Completion(k)' < Threshold
    BY <1>7, <2>1, StudyStays
  <2> QED
    BY <2>2 DEF Reason
<1>13. ChainAt["frame"] = ChainAt[pc] + 1 /\ "partial_recovery" = Screens[ChainAt[pc] + 1]
  BY <1>6, Places
<1>14. DOMAIN screening' = DOMAIN screening /\ screening'.census = cells
  BY <1>6, <1>7, Places DEF TypeInv
<1>15. /\ TypeInv' /\ RoleInv' /\ ChainInv' /\ DropInv' /\ Verdicts'
       /\ pc' = "frame" /\ failure' = "none"
       /\ Named(accounted') = Named(accounted) \ Named(dropped)
  BY <1>6, <1>9, <1>10, <1>11, <1>12, <1>13, <1>14, ScreenWorks
<1>16. PassInv'
  BY <1>6, <1>7, <1>15, Places, PassesStay DEF PrepInv, Going
<1>17. CensusInv'
  <2>1. \A k : Blanks(k)' = Blanks(k)
    BY <1>7, StudyStays
  <2>2. ItemOrder' = ItemOrder /\ Rows' = Rows
    BY <1>7, StudyStays
  <2>3. \A c \in screening'.census :
          \E k \in DOMAIN Rows' : \E n \in Blanks(k)' : c = <<k, ItemOrder'[n]>>
    BY <1>7, <1>14, <2>1, <2>2
  <2>4. \A k \in Named(accounted') : \A n \in Blanks(k)' : <<k, ItemOrder'[n]>> \in screening'.census
    BY <1>7, <1>14, <1>15, <2>1, <2>2
  <2> QED
    BY <2>3, <2>4 DEF CensusInv
<1>18. FrameInv' /\ SignInv'
  BY <1>15 DEF FrameInv, SignInv, Framed
<1> QED
  BY <1>15, <1>16, <1>17, <1>18 DEF PrepInv, Going

-----------------------------------------------------------------------------
(* The crosswalk.                                                          *)

(* Before the chain is opened there is not much to keep.                   *)
LEMMA EarlySteps ==
  ASSUME PrepInv, pc \in Early, pc' \in Early,
         UNCHANGED <<study, policy, failure, chain, prepared>>,
         header' \in 0..3, \A r \in roles' : r[1] \in DOMAIN Columns, RoleInv'
  PROVE  PrepInv'
<1>1. TypeInv /\ ChainInv /\ failure = "none"
  <2>1. pc # "halted"
    BY DEF Early
  <2> QED
    BY <2>1 DEF PrepInv, Going
<1>2. /\ Rows' = Rows /\ Columns' = Columns /\ ItemOrder' = ItemOrder /\ Con' = Con
      /\ study' = study /\ policy' = policy /\ failure' = "none"
      /\ current' = current /\ accounted' = accounted /\ links' = links
      /\ screening' = screening /\ frame' = frame /\ flips' = flips
      /\ missingness' = missingness /\ flagged' = flagged
  BY <1>1, StudyStays DEF chain, prepared
<1>3. LinkType' = LinkType
  BY <1>2 DEF LinkType
<1>4. TypeInv'
  BY <1>1, <1>2, <1>3 DEF TypeInv, Cells, NoScreening
<1>5. pc' \notin DOMAIN ChainAt /\ pc' \notin Framed /\ pc' # "frame" /\ pc' # "reconciled"
      /\ pc' # "halted"
  BY Places DEF Early, Framed
<1>6. ChainInv' /\ DropInv' /\ PassInv' /\ CensusInv' /\ FrameInv' /\ SignInv'
  <2>1. DOMAIN ChainAt' = DOMAIN ChainAt /\ Framed' = Framed
    BY DEF ChainAt, Framed
  <2>2. ChainInv'
    BY <1>1, <1>2, <1>5, <2>1 DEF ChainInv, Early
  <2>3. DropInv'
    BY <1>5, <2>1 DEF DropInv
  <2>4. PassInv'
    BY <1>5, <2>1 DEF PassInv
  <2>5. CensusInv' /\ FrameInv' /\ SignInv'
    BY <1>5, <2>1 DEF CensusInv, FrameInv, SignInv
  <2> QED
    BY <2>2, <2>3, <2>4, <2>5
<1>7. Verdicts'
  BY <1>2, <1>5, Quiet
<1> QED
  BY <1>2, <1>4, <1>6, <1>7 DEF PrepInv, Going

LEMMA LoadKeeps == PrepInv /\ LoadRaw => PrepInv'
<1> SUFFICES ASSUME PrepInv, LoadRaw PROVE PrepInv'
  OBVIOUS
<1>1. /\ pc = "load" /\ pc' = "header" /\ pc \in Early /\ pc' \in Early
      /\ UNCHANGED <<study, policy, failure, chain, prepared>>
      /\ header' = header /\ roles' = roles
  BY DEF LoadRaw, Goto, Early, crosswalk
<1>2. TypeInv /\ RoleInv
  BY DEF PrepInv, Going
<1>3. header' \in 0..3 /\ \A r \in roles' : r[1] \in DOMAIN Columns
  BY <1>1, <1>2 DEF TypeInv
<1>4. RoleInv'
  BY <1>1, <1>2, Places DEF RoleInv
<1> QED
  BY <1>1, <1>3, <1>4, EarlySteps

LEMMA HeaderKeeps == PrepInv /\ ResolveHeader => PrepInv'
<1> SUFFICES ASSUME PrepInv, ResolveHeader PROVE PrepInv'
  OBVIOUS
<1>1. /\ pc = "header" /\ pc' = "match" /\ pc \in Early /\ pc' \in Early
      /\ UNCHANGED <<study, policy, failure, chain, prepared>>
      /\ header' = HeaderRows /\ roles' = roles
  BY DEF ResolveHeader, Goto, Early
<1>2. TypeInv /\ RoleInv
  BY DEF PrepInv, Going
<1>3. HeaderRows \in 0..3
  <2>1. Data.header_rows \in 0..3
    BY <1>2, StudyFacts DEF TypeInv
  <2> QED
    BY <2>1 DEF HeaderRows
<1>4. \A r \in roles' : r[1] \in DOMAIN Columns
  BY <1>1, <1>2 DEF TypeInv
<1>5. RoleInv'
  BY <1>1, <1>2, Places DEF RoleInv
<1> QED
  BY <1>1, <1>3, <1>4, <1>5, EarlySteps

LEMMA ColumnOfItem ==
  ASSUME Matches, NEW i \in Named(ItemOrder)
  PROVE  ColumnOf(i) \in DOMAIN Columns /\ i \in Texts(ColumnOf(i))
<1>1. Cardinality(ColumnsOf(i)) = 1
  BY DEF Matches
<1>2. ColumnsOf(i) # {}
  BY <1>1, FS_EmptySet
<1> QED
  BY <1>2 DEF ColumnsOf, ColumnOf

LEMMA MatchKeeps == PrepInv /\ MatchItems => PrepInv'
<1> SUFFICES ASSUME PrepInv, MatchItems PROVE PrepInv'
  OBVIOUS
<1>1. /\ pc = "match" /\ pc' = "account" /\ pc \in Early /\ pc' \in Early /\ Matches
      /\ UNCHANGED <<study, policy, failure, chain, prepared>>
      /\ header' = header
      /\ roles' = {<<ColumnOf(i), "model_item">> : i \in Named(ItemOrder)}
  BY DEF MatchItems, Goto, Early
<1>2. TypeInv /\ study' = study
  BY <1>1 DEF PrepInv
<1>3. header' \in 0..3
  BY <1>1, <1>2 DEF TypeInv
<1>4. \A r \in roles' : r[1] \in DOMAIN Columns
  BY <1>1, ColumnOfItem
<1>5. ItemOrder' = ItemOrder /\ Columns' = Columns
  BY <1>2, StudyStays
<1>6. \A i : ColumnOf(i)' = ColumnOf(i)
  BY <1>1, <1>5 DEF ColumnOf, Texts
<1>7. RoleInv'
  <2>1. Different(ItemOrder')
    BY <1>1, <1>5 DEF Matches
  <2>2. roles' = {<<ColumnOf(i)', "model_item">> : i \in Named(ItemOrder')}
    BY <1>1, <1>5, <1>6
  <2> QED
    BY <1>1, <2>1, <2>2, Places DEF RoleInv, ChainAt
<1> QED
  BY <1>1, <1>3, <1>4, <1>7, EarlySteps

(* As many values of a function as arguments, at the most.                 *)
LEMMA ImageCount ==
  ASSUME NEW S, IsFiniteSet(S), NEW f, DOMAIN f = S, f = [x \in S |-> f[x]]
  PROVE  IsFiniteSet(Named(f)) /\ Cardinality(Named(f)) <= Cardinality(S)
<1>1. f \in Surjection(S, Named(f))
  BY Fun_IsSurj DEF Named
<1> QED
  BY <1>1, FS_Surjection

LEMMA UnionCount ==
  ASSUME NEW S, IsFiniteSet(S), NEW T, IsFiniteSet(T)
  PROVE  /\ IsFiniteSet(S \cup T)
         /\ Cardinality(S \cup T) <= Cardinality(S) + Cardinality(T)
<1>1. IsFiniteSet(S \cup T) /\ IsFiniteSet(S \cap T)
  BY FS_Union, FS_Subset
<1>2. Cardinality(S \cup T) = Cardinality(S) + Cardinality(T) - Cardinality(S \cap T)
  BY FS_Union
<1>3. /\ Cardinality(S) \in Nat /\ Cardinality(T) \in Nat
      /\ Cardinality(S \cup T) \in Nat /\ Cardinality(S \cap T) \in Nat
  BY <1>1, FS_CardinalityType
<1> QED
  BY <1>1, <1>2, <1>3

LEMMA OptionalFacts ==
  ASSUME NEW token, NEW role
  PROVE  Optional(token, role) \in Seq(Named(Optional(token, role)))
<1>1. CASE token = "none"
  BY <1>1 DEF Optional
<1>2. CASE token # "none"
  <2>1. PICK pair : pair = <<token, role>>
    OBVIOUS
  <2>2. Optional(token, role) = <<pair>>
    BY <1>2, <2>1 DEF Optional
  <2>3. <<pair>> \in Seq({pair}) /\ pair \in Named(<<pair>>)
    BY DEF Named
  <2>4. <<pair>> \in Seq(Named(<<pair>>))
    BY <2>3, ListFacts
  <2> QED
    BY <2>2, <2>4
<1> QED
  BY <1>1, <1>2

LEMMA DeclarationFacts ==
  ASSUME study \in Studies
  PROVE  /\ DOMAIN Declarations = 1..Len(Declarations) /\ Len(Declarations) \in Nat
         /\ IsFiniteSet(DOMAIN Declarations)
         /\ Cardinality(DOMAIN Declarations) = Len(Declarations)
<1> DEFINE checks == [k \in DOMAIN Data.checks |-> <<Data.checks[k], "attention_check">>]
           ids == Optional(Data.id, "id")
           consents == Optional(Data.consent, "consent")
           X == Named(ids) \cup Named(consents) \cup Named(checks) \cup Named(Data.others)
<1>1. Data.others \in Seq(X)
  BY StudyFacts, ListFacts DEF Named
<1>2. checks \in Seq(X)
  <2>1. PICK n \in Nat : DOMAIN Data.checks = 1..n
    BY StudyFacts, ListFacts
  <2>2. checks \in [1..n -> Named(checks)]
    BY <2>1 DEF Named
  <2> QED
    BY <2>1, <2>2
<1>3. ids \in Seq(Named(ids)) /\ consents \in Seq(Named(consents))
  BY OptionalFacts
<1>4. ids \in Seq(X) /\ consents \in Seq(X)
  <2>1. Named(ids) \subseteq X /\ Named(consents) \subseteq X
    OBVIOUS
  <2> HIDE DEF X, ids, consents
  <2> QED
    BY <1>3, <2>1
<1>5. Declarations = ids \o consents \o checks \o Data.others
  BY DEF Declarations
<1> HIDE DEF X, ids, consents, checks
<1>6. ids \o consents \in Seq(X)
  BY <1>4
<1>7. ids \o consents \o checks \in Seq(X)
  BY <1>2, <1>6
<1>8. Declarations \in Seq(X)
  BY <1>1, <1>5, <1>7
<1> QED
  BY <1>8, ListFacts

(* No more claims than the roles that are declared, so that, with as many  *)
(* columns as claims, no column has two of them.                           *)
LEMMA ClaimsCounted ==
  ASSUME study \in Studies
  PROVE  /\ IsFiniteSet(ResolvedRoles) /\ ClaimCount \in Nat
         /\ Cardinality(ResolvedRoles) <= ClaimCount
<1> DEFINE f == [n \in DOMAIN Declarations |->
                   <<TheOne(Resolved(Declarations[n][1])), Declarations[n][2]>>]
           T == Named(Data.demographics)
           g == [t \in T |-> <<TheOne(Bases(t)), "demographic">>]
           K == UNION {Sidecars(TheOne(Bases(t))) : t \in T}
           h == [k \in K |-> <<k, "ignored_item">>]
<1>1. /\ IsFiniteSet(DOMAIN Declarations) /\ Len(Declarations) \in Nat
      /\ Cardinality(DOMAIN Declarations) = Len(Declarations)
  BY DeclarationFacts
<1>2. /\ IsFiniteSet(T) /\ Cardinality(T) <= Len(Data.demographics)
      /\ Len(Data.demographics) \in Nat
  BY StudyFacts, ListFacts
<1>3. IsFiniteSet(K)
  <2>1. K \subseteq DOMAIN Columns
    BY DEF Sidecars
  <2>2. IsFiniteSet(DOMAIN Columns)
    BY StudyFacts, ListFacts
  <2> QED
    BY <2>1, <2>2, FS_Subset
<1>4. ResolvedRoles = Named(f) \cup (Named(g) \cup Named(h))
  <2>1. Named(f) = {<<TheOne(Resolved(Declarations[n][1])), Declarations[n][2]>> :
                      n \in DOMAIN Declarations}
    BY DEF Named
  <2>2. Named(g) = {<<TheOne(Bases(t)), "demographic">> : t \in T}
    BY DEF Named
  <2>3. Named(h) = {<<k, "ignored_item">> : k \in K}
    BY DEF Named
  <2>4. UNION {{<<TheOne(Bases(t)), "demographic">>} \cup
               {<<k, "ignored_item">> : k \in Sidecars(TheOne(Bases(t)))} : t \in T}
        = Named(g) \cup Named(h)
    BY <2>2, <2>3
  <2> QED
    BY <2>1, <2>4 DEF ResolvedRoles
<1>5. IsFiniteSet(Named(f)) /\ Cardinality(Named(f)) <= Len(Declarations)
  <2>1. PICK S, F : S = DOMAIN Declarations /\ F = f
    OBVIOUS
  <2>2. IsFiniteSet(Named(F)) /\ Cardinality(Named(F)) <= Cardinality(S)
    BY <1>1, <2>1, ImageCount
  <2> QED
    BY <1>1, <2>1, <2>2
<1>6. IsFiniteSet(Named(g)) /\ Cardinality(Named(g)) <= Cardinality(T)
  <2>1. PICK S, F : S = T /\ F = g
    OBVIOUS
  <2>2. IsFiniteSet(Named(F)) /\ Cardinality(Named(F)) <= Cardinality(S)
    BY <1>2, <2>1, ImageCount
  <2> QED
    BY <2>1, <2>2
<1>7. IsFiniteSet(Named(h)) /\ Cardinality(Named(h)) <= Cardinality(K)
  <2>1. PICK S, F : S = K /\ F = h
    OBVIOUS
  <2>2. IsFiniteSet(Named(F)) /\ Cardinality(Named(F)) <= Cardinality(S)
    BY <1>3, <2>1, ImageCount
  <2> QED
    BY <2>1, <2>2
<1>8. ClaimCount = Len(Declarations) + Len(Data.demographics) + Cardinality(K)
  BY DEF ClaimCount
<1> HIDE DEF f, g, h, T, K
<1>9. /\ IsFiniteSet(Named(g) \cup Named(h))
      /\ Cardinality(Named(g) \cup Named(h)) <= Cardinality(Named(g)) + Cardinality(Named(h))
  BY <1>6, <1>7, UnionCount
<1>10. /\ IsFiniteSet(ResolvedRoles)
       /\ Cardinality(ResolvedRoles) <= Cardinality(Named(f)) + Cardinality(Named(g) \cup Named(h))
  BY <1>4, <1>5, <1>9, UnionCount
<1>11. /\ Cardinality(Named(f)) \in Nat /\ Cardinality(Named(g)) \in Nat
       /\ Cardinality(Named(h)) \in Nat /\ Cardinality(T) \in Nat /\ Cardinality(K) \in Nat
       /\ Cardinality(Named(g) \cup Named(h)) \in Nat /\ Cardinality(ResolvedRoles) \in Nat
  BY <1>2, <1>3, <1>5, <1>6, <1>7, <1>9, <1>10, FS_CardinalityType
<1> QED
  BY <1>1, <1>2, <1>5, <1>6, <1>7, <1>8, <1>9, <1>10, <1>11, SMTT(30)

LEMMA OneRoleEach ==
  ASSUME study \in Studies, Accounts,
         roles = {<<ColumnOf(i), "model_item">> : i \in Named(ItemOrder)}
  PROVE  \A k \in DOMAIN Columns :
           Cardinality({r \in roles \cup ResolvedRoles : r[1] = k}) = 1
<1> DEFINE all == roles \cup ResolvedRoles
           m == [i \in Named(ItemOrder) |-> <<ColumnOf(i), "model_item">>]
           p == [r \in all |-> r[1]]
<1>1. /\ {r[1] : r \in all} = DOMAIN Columns
      /\ Len(ItemOrder) + ClaimCount = Cardinality(DOMAIN Columns)
  BY DEF Accounts
<1>2. /\ IsFiniteSet(Named(ItemOrder)) /\ Cardinality(Named(ItemOrder)) <= Len(ItemOrder)
      /\ Len(ItemOrder) \in Nat /\ IsFiniteSet(DOMAIN Columns)
      /\ Cardinality(DOMAIN Columns) \in Nat
  BY StudyFacts, ListFacts
<1>3. IsFiniteSet(roles) /\ Cardinality(roles) <= Cardinality(Named(ItemOrder))
  <2>1. PICK S, F : S = Named(ItemOrder) /\ F = m
    OBVIOUS
  <2>2. IsFiniteSet(Named(F)) /\ Cardinality(Named(F)) <= Cardinality(S)
    BY <1>2, <2>1, ImageCount
  <2>3. Named(F) = roles
    BY <2>1 DEF Named
  <2> QED
    BY <2>1, <2>2, <2>3
<1>4. /\ IsFiniteSet(ResolvedRoles) /\ ClaimCount \in Nat
      /\ Cardinality(ResolvedRoles) <= ClaimCount
  BY ClaimsCounted
<1>5. IsFiniteSet(all) /\ Cardinality(all) <= Cardinality(roles) + Cardinality(ResolvedRoles)
  BY <1>3, <1>4, UnionCount
<1>6. Cardinality(all) <= Cardinality(DOMAIN Columns)
  <2>1. /\ Cardinality(all) \in Nat /\ Cardinality(roles) \in Nat
        /\ Cardinality(ResolvedRoles) \in Nat /\ Cardinality(Named(ItemOrder)) \in Nat
    BY <1>2, <1>3, <1>4, <1>5, FS_CardinalityType
  <2> HIDE DEF all
  <2> QED
    BY <1>1, <1>2, <1>3, <1>4, <1>5, <2>1
<1>7. p \in Surjection(all, DOMAIN Columns)
  BY <1>1, Fun_IsSurj
<1>8. p \in Injection(all, DOMAIN Columns)
  <2>1. PICK S, f : S = all /\ f = p
    OBVIOUS
  <2>2. f \in Surjection(S, DOMAIN Columns) /\ IsFiniteSet(S)
        /\ Cardinality(S) <= Cardinality(DOMAIN Columns)
    BY <1>5, <1>6, <1>7, <2>1
  <2>3. Cardinality(DOMAIN Columns) <= Cardinality(S)
    BY <2>2, FS_Surjection
  <2>4. Cardinality(S) \in Nat
    BY <2>2, FS_CardinalityType
  <2>5. Cardinality(DOMAIN Columns) = Cardinality(S)
    BY <1>2, <2>2, <2>3, <2>4
  <2>6. f \in Injection(S, DOMAIN Columns)
    BY <2>2, <2>5, FS_Surjection
  <2> QED
    BY <2>1, <2>6
<1>9. ASSUME NEW k \in DOMAIN Columns
      PROVE  Cardinality({r \in all : r[1] = k}) = 1
  <2>1. PICK r \in all : r[1] = k
    BY <1>1
  <2>2. \A q \in all : q[1] = k => q = r
    <3>1. \A a, b \in all : p[a] = p[b] => a = b
      BY <1>8 DEF Injection, IsInjective
    <3> QED
      BY <2>1, <3>1
  <2>3. {q \in all : q[1] = k} = {r}
    BY <2>1, <2>2
  <2> QED
    BY <2>3, FS_Singleton
<1> QED
  BY <1>9

LEMMA AccountKeeps == PrepInv /\ AccountRoles => PrepInv'
<1> SUFFICES ASSUME PrepInv, AccountRoles PROVE PrepInv'
  OBVIOUS
<1>1. /\ pc = "account" /\ pc' = "keys" /\ pc \in Early /\ pc' \in Early /\ Accounts
      /\ UNCHANGED <<study, policy, failure, chain, prepared>>
      /\ header' = header /\ roles' = roles \cup ResolvedRoles
  BY DEF AccountRoles, Goto, Early
<1>2. /\ TypeInv /\ RoleInv /\ study \in Studies /\ study' = study
      /\ roles = {<<ColumnOf(i), "model_item">> : i \in Named(ItemOrder)}
      /\ Different(ItemOrder)
  BY <1>1 DEF PrepInv, Going, TypeInv, RoleInv
<1>3. header' \in 0..3
  BY <1>1, <1>2 DEF TypeInv
<1>4. \A r \in roles' : r[1] \in DOMAIN Columns
  <2>1. {r[1] : r \in roles \cup ResolvedRoles} = DOMAIN Columns
    BY <1>1 DEF Accounts
  <2> QED
    BY <1>1, <2>1
<1>5. \A k \in DOMAIN Columns : Cardinality({r \in roles' : r[1] = k}) = 1
  BY <1>1, <1>2, OneRoleEach
<1>6. RoleInv'
  <2>1. ItemOrder' = ItemOrder /\ Columns' = Columns
    BY <1>2, StudyStays
  <2> QED
    BY <1>1, <1>2, <1>5, <2>1, Places DEF RoleInv
<1> QED
  BY <1>1, <1>3, <1>4, <1>6, EarlySteps

LEMMA OpenKeeps == PrepInv /\ OpenChain => PrepInv'
<1> SUFFICES ASSUME PrepInv, OpenChain PROVE PrepInv'
  OBVIOUS
<1>1. /\ pc = "keys" /\ pc' = "consent" /\ current' = RawCases /\ accounted' = RawCases
      /\ links' = links /\ UNCHANGED <<study, policy, failure, crosswalk, prepared>>
  BY DEF OpenChain, Goto
<1>2. TypeInv /\ RoleInv /\ ChainInv /\ study \in Studies /\ failure = "none" /\ links = <<>>
  BY <1>1 DEF PrepInv, Going, TypeInv, ChainInv, Early
<1>3. /\ Rows' = Rows /\ Columns' = Columns /\ ItemOrder' = ItemOrder /\ Con' = Con
      /\ RawCases' = RawCases /\ study' = study /\ policy' = policy /\ failure' = "none"
      /\ header' = header /\ roles' = roles
      /\ screening' = screening /\ frame' = frame /\ flips' = flips
      /\ missingness' = missingness /\ flagged' = flagged
  BY <1>1, <1>2, StudyStays DEF crosswalk, prepared
<1>4. RawCases \in Seq(DOMAIN Rows) /\ RawCases \in Seq(Nat) /\ Increasing(RawCases)
  BY <1>2, RawFacts
<1>5. LinkType' = LinkType
  BY <1>3 DEF LinkType
<1>6. TypeInv'
  BY <1>1, <1>2, <1>3, <1>4, <1>5, Places DEF TypeInv, Cells, NoScreening
<1>7. DroppedBefore' = {}
  BY <1>1, <1>2 DEF DroppedBefore
<1>8. RawCases = Without(RawCases, {})
  <2>1. PICK raw : raw = RawCases
    OBVIOUS
  <2>2. PICK rest : rest = Without(raw, {})
    OBVIOUS
  <2>3. raw \in Seq(Nat) /\ Increasing(raw)
    BY <1>4, <2>1
  <2>4. rest \in Seq(Nat) /\ Named(rest) = Named(raw) \ {}
    BY <2>2, <2>3, WithoutFacts
  <2>5. Increasing(rest)
    BY <2>2, <2>3, SubsetsIncrease
  <2>6. raw = rest
    BY <2>3, <2>4, <2>5, IncreasingEqual
  <2> QED
    BY <2>1, <2>2, <2>6
<1>9. LinksHold'
  <2>1. Len(links') = ChainAt'[pc'] /\ DOMAIN links' = {}
    BY <1>1, <1>2 DEF ChainAt
  <2> QED
    BY <1>1, <1>3, <1>7, <1>8, <2>1 DEF LinksHold
<1>10. ChainInv'
  BY <1>1, <1>9 DEF ChainInv, Early
<1>11. DropInv'
  BY <1>1, <1>2 DEF DropInv
<1>12. PassInv' /\ CensusInv' /\ FrameInv' /\ SignInv'
  BY <1>1 DEF PassInv, CensusInv, FrameInv, SignInv, Framed
<1>13. RoleInv'
  BY <1>1, <1>2, <1>3 DEF RoleInv
<1>14. Verdicts'
  BY <1>1, <1>3, Quiet
<1> QED
  BY <1>3, <1>6, <1>10, <1>11, <1>12, <1>13, <1>14 DEF PrepInv, Going

-----------------------------------------------------------------------------
(* The halts.                                                              *)

LEMMA StopWorks ==
  ASSUME PrepInv, pc' = "halted", Verdicts',
         UNCHANGED <<study, policy, crosswalk, chain, screening, frame, flips, missingness, flagged>>
  PROVE  PrepInv'
<1>1. TypeInv
  BY DEF PrepInv
<1>2. /\ Rows' = Rows /\ Columns' = Columns /\ ItemOrder' = ItemOrder /\ Con' = Con
      /\ study' = study /\ policy' = policy /\ header' = header /\ roles' = roles
      /\ current' = current /\ accounted' = accounted /\ links' = links
      /\ screening' = screening /\ frame' = frame /\ flips' = flips
      /\ missingness' = missingness /\ flagged' = flagged
  BY <1>1, StudyStays DEF crosswalk, chain
<1>3. LinkType' = LinkType
  BY <1>2 DEF LinkType
<1>4. TypeInv'
  BY <1>1, <1>2, <1>3 DEF TypeInv, Cells, NoScreening
<1>5. Going'
  <2>1. pc' \notin Early' /\ pc' \notin DOMAIN ChainAt' /\ pc' \notin Framed'
    BY DEF Early, ChainAt, Framed
  <2>2. RoleInv'
    BY <2>1 DEF RoleInv
  <2>3. ChainInv' /\ DropInv'
    BY <2>1 DEF ChainInv, DropInv
  <2>4. PassInv'
    BY <2>1 DEF PassInv
  <2>5. CensusInv'
    BY <2>1 DEF CensusInv
  <2>6. FrameInv' /\ SignInv'
    BY <2>1 DEF FrameInv, SignInv
  <2> QED
    BY <2>2, <2>3, <2>4, <2>5, <2>6 DEF Going
<1> QED
  BY <1>4, <1>5 DEF PrepInv

LEMMA HaltWorks ==
  ASSUME PrepInv, NEW why, Halt(why), Verdicts'
  PROVE  PrepInv'
BY StopWorks DEF Halt, prepared

LEMMA PlainHalt ==
  ASSUME PrepInv, pc # "halted",
         NEW why \in {"FR-101", "FR-104", "FR-103", "V6", "id column", "method", "column hint"},
         Halt(why)
  PROVE  PrepInv'
<1>1. Verdicts'
  BY DEF Verdicts, FailuresExplained, ChecksAreExact, Halt
<1> QED
  BY <1>1, HaltWorks

LEMMA ErrorHalt ==
  ASSUME PrepInv, pc # "halted", Halt("unclassified"),
         \/ \E k \in DOMAIN Rows : Rows[k].width # "full"
         \/ \E t \in ({Data.consent} \ {"none"}) \cup Named(Data.checks) : ~ByName(t)
  PROVE  PrepInv'
<1>1. pc' = "halted" /\ failure' = "unclassified" /\ study' = study
  BY DEF Halt
<1>2. Rows' = Rows /\ Data' = Data /\ Columns' = Columns
  BY <1>1, StudyStays
<1>3. \/ \E k \in DOMAIN Rows' : Rows'[k].width # "full"
      \/ \E t \in ({Data'.consent} \ {"none"}) \cup Named(Data'.checks) : ~ByName(t)'
  BY <1>2 DEF ByName
<1>4. Verdicts'
  BY <1>1, <1>3 DEF Verdicts, FailuresExplained, ChecksAreExact
<1> QED
  BY <1>4, HaltWorks

LEMMA AppendApart ==
  ASSUME NEW s \in Seq(Nat), NEW d \in Nat
  PROVE  /\ Len(s) = 1 => Len(Append(s, d)) = 2
         /\ \A t \in Seq(Nat), e \in Nat : Append(s, d) = Append(t, e) => s = t /\ d = e
<1>1. Len(s) = 1 => Len(Append(s, d)) = 2
  <2>1. Len(Append(s, d)) = Len(s) + 1
    BY AppendProperties
  <2> QED
    BY <2>1
<1>2. ASSUME NEW t \in Seq(Nat), NEW e \in Nat, Append(s, d) = Append(t, e)
      PROVE  s = t /\ d = e
  BY <1>2, AppendInjective
<1> QED
  BY <1>1, <1>2

(* Two rows have one key only if an id is spelled like the key of another  *)
(* that came twice.                                                        *)
LEMMA KeysClash ==
  ASSUME study \in Studies, Ids, ~KeysDistinct
  PROVE  \E k \in DOMAIN Rows : Len(Rows[k].id) > 1
<1> SUFFICES ASSUME \A k \in DOMAIN Rows : ~(Len(Rows[k].id) > 1) PROVE FALSE
  OBVIOUS
<1> DEFINE upto(k) == {j \in 1..k : Rows[j].id = Rows[k].id}
           count(k) == Cardinality(upto(k))
<1>1. \A k \in DOMAIN Rows : Rows[k].id \in Seq(Nat) /\ Len(Rows[k].id) = 1
  <2> SUFFICES ASSUME NEW k \in DOMAIN Rows
               PROVE  Rows[k].id \in Seq(Nat) /\ Len(Rows[k].id) = 1
    OBVIOUS
  <2>1. PICK id : id = Rows[k].id
    OBVIOUS
  <2>2. id \in Seq(Nat) /\ id # <<>> /\ ~(Len(id) > 1)
    BY <2>1, RowFacts DEF Ids
  <2>3. Len(id) # 0
    BY <2>2
  <2>4. PICK n \in Nat : n = Len(id)
    BY <2>2
  <2>5. n = 1
    BY <2>2, <2>3, <2>4
  <2> QED
    BY <2>1, <2>2, <2>4, <2>5
<1>2. \A k \in DOMAIN Rows : k \in Nat /\ k >= 1 /\ 1..k \subseteq DOMAIN Rows
  BY RowFacts
<1>3. \A k \in DOMAIN Rows : IsFiniteSet(upto(k)) /\ count(k) \in Nat
  <2> SUFFICES ASSUME NEW k \in DOMAIN Rows
               PROVE  IsFiniteSet(upto(k)) /\ count(k) \in Nat
    OBVIOUS
  <2>1. IsFiniteSet(1..k)
    BY <1>2, FS_Interval
  <2> QED
    BY <2>1, FS_Subset, FS_CardinalityType
<1>4. ASSUME NEW j \in DOMAIN Rows, NEW k \in DOMAIN Rows, j < k, Rows[j].id = Rows[k].id
      PROVE  count(j) < count(k) /\ count(k) # 1
  <2>1. upto(j) \subseteq upto(k) /\ k \in upto(k) /\ k \notin upto(j) /\ j \in upto(j)
    BY <1>2, <1>4
  <2>2. count(j) <= count(k) /\ (count(j) = count(k) => upto(j) = upto(k))
    BY <1>3, <2>1, FS_Subset
  <2>3. count(j) # 0
    BY <1>3, <2>1, FS_EmptySet
  <2>4. upto(j) # upto(k)
    BY <2>1
  <2>5. PICK m \in Nat, n \in Nat : m = count(j) /\ n = count(k)
    BY <1>3
  <2>6. m < n /\ n # 1
    BY <2>2, <2>3, <2>4, <2>5
  <2> QED
    BY <2>5, <2>6
<1>5. \A k \in DOMAIN Rows :
        CaseKey(k) = IF count(k) = 1 THEN Rows[k].id ELSE Append(Rows[k].id, count(k))
  BY DEF CaseKey
<1> HIDE DEF upto, count
<1>6. PICK a \in DOMAIN Rows, b \in DOMAIN Rows : CaseKey(a) = CaseKey(b) /\ a # b
  BY DEF KeysDistinct
<1>7. PICK j \in DOMAIN Rows, k \in DOMAIN Rows : CaseKey(j) = CaseKey(k) /\ j < k
  <2>1. a \in Nat /\ b \in Nat
    BY <1>2
  <2>2. a < b \/ b < a
    BY <1>6, <2>1
  <2> QED
    BY <1>6, <2>2
<1>8. PICK p, q, m, n : p = Rows[j].id /\ q = Rows[k].id /\ m = count(j) /\ n = count(k)
  OBVIOUS
<1>9. /\ p \in Seq(Nat) /\ q \in Seq(Nat) /\ Len(p) = 1 /\ Len(q) = 1 /\ m \in Nat /\ n \in Nat
      /\ CaseKey(j) = (IF m = 1 THEN p ELSE Append(p, m))
      /\ CaseKey(k) = (IF n = 1 THEN q ELSE Append(q, n))
      /\ (p = q => m < n /\ n # 1)
  BY <1>1, <1>3, <1>4, <1>5, <1>7, <1>8
<1>10. Len(Append(p, m)) = 2 /\ Len(Append(q, n)) = 2
  <2>1. ASSUME NEW s \in Seq(Nat), Len(s) = 1, NEW d \in Nat PROVE Len(Append(s, d)) = 2
    BY <2>1, AppendApart
  <2> QED
    BY <1>9, <2>1
<1> HIDE DEF CaseKey
<1>11. CASE m = 1 /\ n = 1
  BY <1>7, <1>9, <1>11
<1>12. CASE m = 1 /\ n # 1
  <2>1. p = Append(q, n)
    BY <1>7, <1>9, <1>12
  <2> QED
    BY <1>9, <1>10, <2>1
<1>13. CASE m # 1 /\ n = 1
  <2>1. Append(p, m) = q
    BY <1>7, <1>9, <1>13
  <2> QED
    BY <1>9, <1>10, <2>1
<1>14. CASE m # 1 /\ n # 1
  <2>1. Append(p, m) = Append(q, n)
    BY <1>7, <1>9, <1>14
  <2>2. p \in Seq(Nat) /\ q \in Seq(Nat) /\ m \in Nat /\ n \in Nat
    BY <1>9
  <2>3. p = q /\ m = n
    BY <2>1, <2>2, AppendApart
  <2> QED
    BY <1>9, <2>3
<1> QED
  BY <1>11, <1>12, <1>13, <1>14

LEMMA HaltsKeep ==
  PrepInv /\ (\/ Unreadable \/ HeaderRefused \/ Unmatched \/ Unaccounted
              \/ NoIdColumn \/ NoId \/ SameKeys \/ NoConsentColumn \/ DuplicatesFail
              \/ NoCheckColumn \/ LinersFail \/ NoHint) => PrepInv'
<1> SUFFICES ASSUME PrepInv,
                    \/ Unreadable \/ HeaderRefused \/ Unmatched \/ Unaccounted
                    \/ NoIdColumn \/ NoId \/ SameKeys \/ NoConsentColumn \/ DuplicatesFail
                    \/ NoCheckColumn \/ LinersFail \/ NoHint
             PROVE  PrepInv'
  OBVIOUS
<1>0. study \in Studies
  BY DEF PrepInv, TypeInv
<1>1. CASE Unreadable \/ HeaderRefused \/ Unmatched \/ Unaccounted \/ NoIdColumn \/ NoHint
  <2>1. pc # "halted"
    BY <1>1 DEF Unreadable, HeaderRefused, Unmatched, Unaccounted, NoIdColumn, NoHint
  <2>2. \E why \in {"FR-101", "FR-104", "FR-103", "V6", "id column", "method", "column hint"} :
          Halt(why)
    BY <1>1 DEF Unreadable, HeaderRefused, Unmatched, Unaccounted, NoIdColumn, NoHint
  <2> QED
    BY <2>1, <2>2, PlainHalt
<1>2. CASE NoId
  <2>1. pc # "halted" /\ Halt("unclassified") /\ ~Ids
    BY <1>2 DEF NoId
  <2>2. \E k \in DOMAIN Rows : Rows[k].width # "full"
    BY <2>1 DEF Ids
  <2> QED
    BY <2>1, <2>2, ErrorHalt
<1>3. CASE SameKeys
  <2>1. pc # "halted" /\ Halt("same keys") /\ Ids /\ ~KeysDistinct
    BY <1>3 DEF SameKeys
  <2>2. \E k \in DOMAIN Rows : Len(Rows[k].id) > 1
    BY <1>0, <2>1, KeysClash
  <2>3. Rows' = Rows /\ failure' = "same keys" /\ pc' = "halted"
    BY <2>1, StudyStays DEF Halt
  <2>4. Verdicts'
    BY <2>2, <2>3 DEF Verdicts, FailuresExplained, ChecksAreExact
  <2> QED
    BY <2>1, <2>4, HaltWorks
<1>4. CASE NoConsentColumn
  <2>1. pc # "halted" /\ Halt("unclassified") /\ Data.consent # "none" /\ ~ByName(Data.consent)
    BY <1>4 DEF NoConsentColumn
  <2>2. \E t \in ({Data.consent} \ {"none"}) \cup Named(Data.checks) : ~ByName(t)
    BY <2>1
  <2> QED
    BY <2>1, <2>2, ErrorHalt
<1>5. CASE DuplicatesFail
  <2>1. pc = "duplicates" /\ pc # "halted" /\ Halt("unclassified") /\ ~VectorsReadable
    BY <1>5 DEF DuplicatesFail
  <2>2. PICK twice : twice = Named(IdTwice)
    OBVIOUS
  <2>3. PICK k \in Named(Without(current, twice)) : Rows[k].width # "full"
    BY <2>1, <2>2 DEF VectorsReadable, ReadsShort
  <2>4. current \in Seq(DOMAIN Rows) /\ Named(current) \subseteq DOMAIN Rows
    BY <2>1, ScreenFacts
  <2>5. Named(Without(current, twice)) = Named(current) \ twice
    BY <2>4, WithoutFacts
  <2>6. \E c \in DOMAIN Rows : Rows[c].width # "full"
    BY <2>3, <2>4, <2>5
  <2> QED
    BY <2>1, <2>6, ErrorHalt
<1>6. CASE NoCheckColumn
  <2>1. /\ pc # "halted" /\ Halt("unclassified")
        /\ \E c \in DOMAIN Data.checks : ~ByName(Data.checks[c])
    BY <1>6 DEF NoCheckColumn
  <2>2. \E t \in ({Data.consent} \ {"none"}) \cup Named(Data.checks) : ~ByName(t)
    BY <2>1 DEF Named
  <2> QED
    BY <2>1, <2>2, ErrorHalt
<1>7. CASE LinersFail
  <2>1. pc = "liners" /\ pc # "halted"
    BY <1>7 DEF LinersFail
  <2>2. CASE policy.method # "zero_variance_within_block"
    <3>1. Halt("method")
      BY <1>7, <2>2 DEF LinersFail
    <3> QED
      BY <2>1, <3>1, PlainHalt
  <2>3. CASE policy.method = "zero_variance_within_block"
    <3>1. Halt("unclassified") /\ ReadsShort(current)
      BY <1>7, <2>3 DEF LinersFail
    <3>2. Named(current) \subseteq DOMAIN Rows
      BY <2>1, ScreenFacts
    <3>3. \E k \in DOMAIN Rows : Rows[k].width # "full"
      BY <3>1, <3>2 DEF ReadsShort
    <3> QED
      BY <2>1, <3>1, <3>3, ErrorHalt
  <2> QED
    BY <2>2, <2>3
<1> QED
  BY <1>1, <1>2, <1>3, <1>4, <1>5, <1>6, <1>7

-----------------------------------------------------------------------------
(* The frame and what is done with it.                                     *)

LEMMA DropStays ==
  ASSUME TypeInv, ChainInv, DropInv, pc \in DOMAIN ChainAt,
         study' = study, links' = links, flagged' = flagged
  PROVE  DropInv'
<1>1. ASSUME NEW n \in DOMAIN links', NEW k \in Named(links'[n].dropped),
             NEW nm, nm = links'[n].name
      PROVE  Reason(nm, k)'
  <2>1. Reason(nm, k)
    BY <1>1 DEF DropInv
  <2>2. nm \in Named(Screens)
    <3>1. nm = Screens[n] /\ n \in 1..Len(links) /\ Len(links) = ChainAt[pc]
      BY <1>1, LinkFacts DEF ChainInv, LinksHold
    <3>2. ChainAt[pc] \in 0..6
      BY Places
    <3> QED
      BY <3>1, <3>2, Places
  <2> QED
    BY <2>1, <2>2, ReasonsStay
<1>2. (\A n \in DOMAIN links : \A k \in Named(links[n].dropped) : Reason(links[n].name, k))'
  BY <1>1
<1> QED
  BY <1>2 DEF DropInv

(* A step that leaves the columns, the chain and the frame alone.          *)
LEMMA FrameStays ==
  ASSUME PrepInv, pc \in Framed, pc' \in Framed, ChainAt[pc'] = ChainAt[pc],
         UNCHANGED <<study, policy, failure, crosswalk, chain, screening, frame, flips, flagged>>,
         missingness' \in {"none", "mcar_not_rejected", "mcar_rejected"}, Verdicts'
  PROVE  PrepInv'
<1>1. /\ pc \in DOMAIN ChainAt \ {"consent", "duplicates"} /\ pc # "halted"
      /\ pc' \in DOMAIN ChainAt \ {"consent", "duplicates"} /\ pc' # "halted"
      /\ pc' \notin Early /\ pc \notin Early
  BY Places DEF Framed, Early
<1>2. /\ TypeInv /\ RoleInv /\ ChainInv /\ DropInv /\ PassInv /\ CensusInv /\ FrameInv /\ SignInv
      /\ failure = "none"
  BY <1>1 DEF PrepInv, Going
<1>3. /\ Rows' = Rows /\ Columns' = Columns /\ ItemOrder' = ItemOrder /\ Con' = Con
      /\ RawCases' = RawCases
      /\ study' = study /\ policy' = policy /\ header' = header /\ roles' = roles
      /\ current' = current /\ accounted' = accounted /\ links' = links
      /\ screening' = screening /\ frame' = frame /\ flips' = flips /\ flagged' = flagged
  BY StudyStays DEF crosswalk, chain
<1>4. LinkType' = LinkType
  BY <1>3 DEF LinkType
<1>5. TypeInv'
  BY <1>1, <1>2, <1>3, <1>4 DEF TypeInv, Cells, NoScreening
<1>6. Early' = Early /\ ChainAt' = ChainAt /\ Framed' = Framed /\ Screens' = Screens
  BY DEF Early, ChainAt, Framed, Screens
<1>7. RoleInv'
  <2>1. Different(ItemOrder) /\ \A k \in DOMAIN Columns : Cardinality({r \in roles : r[1] = k}) = 1
    BY <1>1, <1>2 DEF RoleInv
  <2>2. pc' \notin {"load", "header", "match", "account"}
    BY <1>1 DEF Early
  <2> QED
    BY <1>3, <2>1, <2>2 DEF RoleInv
<1>8. ChainInv'
  <2>1. LinksHold /\ (Len(links) < 6 => current = accounted)
    BY <1>1, <1>2 DEF ChainInv
  <2>2. DroppedBefore' = DroppedBefore
    BY <1>3 DEF DroppedBefore
  <2>3. LinksHold'
    BY <1>3, <1>6, <2>1, <2>2 DEF LinksHold
  <2> QED
    BY <1>1, <1>3, <1>6, <2>1, <2>3 DEF ChainInv
<1>9. DropInv'
  BY <1>1, <1>2, <1>3, DropStays
<1>10. PassInv'
  BY <1>1, <1>2, <1>3, PassesStay
<1>11. CensusInv'
  <2>1. /\ \A c \in screening.census : \E k \in DOMAIN Rows : \E n \in Blanks(k) : c = <<k, ItemOrder[n]>>
        /\ \A k \in Named(accounted) : \A n \in Blanks(k) : <<k, ItemOrder[n]>> \in screening.census
    BY <1>2 DEF CensusInv
  <2>2. \A k : Blanks(k)' = Blanks(k)
    BY <1>3, StudyStays
  <2> QED
    BY <1>3, <2>1, <2>2 DEF CensusInv
<1>12. FrameInv'
  <2>1. \A k, i : CellOf(k, i)' = CellOf(k, i)
    BY <1>3, StudyStays
  <2>2. \A i, c : Typed(i, c)' = Typed(i, c)
    BY <1>3, StudyStays
  <2>3. \A k, i : Typed(i, CellOf(k, i))' = Typed(i, CellOf(k, i))
    BY <1>3, <2>1 DEF Typed
  <2> QED
    BY <1>2, <1>3, <1>6, <2>1, <2>3 DEF FrameInv
<1>13. SignInv'
  <2>1. \A i : Siblings(i)' = Siblings(i)
    BY <1>3, StudyStays
  <2> QED
    BY <1>2, <1>3, <1>6, <2>1 DEF SignInv
<1> QED
  BY <1>1, <1>2, <1>5, <1>7, <1>8, <1>9, <1>10, <1>11, <1>12, <1>13 DEF PrepInv, Going

LEMMA MissingKeeps == PrepInv /\ AssessMissingness => PrepInv'
<1> SUFFICES ASSUME PrepInv, AssessMissingness PROVE PrepInv'
  OBVIOUS
<1>1. /\ pc = "missing" /\ pc' = "outliers"
      /\ UNCHANGED <<study, policy, failure, crosswalk, chain, screening, frame, flips, flagged>>
      /\ missingness' \in {"none", "mcar_not_rejected", "mcar_rejected"}
  BY DEF AssessMissingness, Goto
<1>2. failure' = "none"
  BY <1>1 DEF PrepInv
<1>3. Verdicts'
  BY <1>1, <1>2, Quiet
<1>4. pc \in Framed /\ pc' \in Framed /\ ChainAt[pc'] = ChainAt[pc]
  BY <1>1, Places DEF Framed
<1> QED
  BY <1>1, <1>3, <1>4, FrameStays

LEMMA FinalizeKeeps == PrepInv /\ Finalize => PrepInv'
<1> SUFFICES ASSUME PrepInv, Finalize PROVE PrepInv'
  OBVIOUS
<1>1. /\ pc = "finalize" /\ UNCHANGED <<study, policy, crosswalk, chain, prepared>>
      /\ pc' = (IF ChainAgrees THEN "prepared" ELSE "halted")
      /\ failure' = (IF ChainAgrees THEN failure ELSE "N chain")
  BY DEF Finalize
<1>2. ChainAgrees
  BY <1>1, Places DEF PrepInv, Going, ChainInv, LinksHold, FrameInv, Framed, ChainAgrees
<1>3. /\ pc' = "prepared" /\ failure' = "none" /\ failure' = failure
      /\ UNCHANGED <<study, policy, crosswalk, chain, screening, frame, flips, missingness, flagged>>
      /\ missingness \in {"none", "mcar_not_rejected", "mcar_rejected"}
  BY <1>1, <1>2 DEF PrepInv, TypeInv, prepared
<1>4. Verdicts'
  BY <1>3, Quiet
<1>5. pc \in Framed /\ pc' \in Framed /\ ChainAt[pc'] = ChainAt[pc]
  BY <1>1, <1>3, Places DEF Framed
<1> QED
  BY <1>3, <1>4, <1>5, FrameStays

LEMMA BuildKeeps == PrepInv /\ BuildFrame => PrepInv'
<1> SUFFICES ASSUME PrepInv, BuildFrame PROVE PrepInv'
  OBVIOUS
<1>1. /\ pc = "frame" /\ pc' = "missing"
      /\ frame' = [k \in Named(current) |-> [i \in Named(ItemOrder) |-> Typed(i, CellOf(k, i))]]
      /\ flips' \in Correlations(frame')
      /\ screening' = [screening EXCEPT
           !.out_of_range = {c \in Named(current) \X Named(ItemOrder) : Corrupt(CellOf(c[1], c[2]))},
           !.violations = {i \in flips' : Siblings(i) # {}}]
      /\ UNCHANGED <<study, policy, failure, crosswalk, chain, missingness, flagged, parity>>
  BY DEF BuildFrame, Goto
<1>2. /\ TypeInv /\ RoleInv /\ ChainInv /\ DropInv /\ PassInv /\ CensusInv
      /\ failure = "none" /\ pc \in DOMAIN ChainAt \ {"consent", "duplicates"}
      /\ study \in Studies /\ ChainAt[pc] = 5 /\ ChainAt[pc'] = 5
  BY <1>1, Places DEF PrepInv, Going, TypeInv
<1>3. LinksHold /\ Len(links) = 5 /\ current = accounted
  <2>1. LinksHold /\ (Len(links) < 6 => current = accounted)
    BY <1>2 DEF ChainInv
  <2>2. Len(links) = 5
    BY <1>2, <2>1 DEF LinksHold
  <2> QED
    BY <2>1, <2>2
<1>4. /\ accounted \in Seq(Nat) /\ Increasing(accounted) /\ Named(accounted) \subseteq DOMAIN Rows
  BY <1>2, <1>3, LeftFacts DEF LinksHold
<1>5. /\ Rows' = Rows /\ Columns' = Columns /\ ItemOrder' = ItemOrder /\ Con' = Con
      /\ RawCases' = RawCases
      /\ study' = study /\ policy' = policy /\ header' = header /\ roles' = roles
      /\ current' = current /\ accounted' = accounted /\ links' = links
      /\ missingness' = missingness /\ flagged' = flagged /\ failure' = "none"
  BY <1>1, <1>2, StudyStays DEF crosswalk, chain
<1>6. /\ DOMAIN screening' = DOMAIN screening /\ screening'.census = screening.census
      /\ screening'.out_of_range =
           {c \in Named(current) \X Named(ItemOrder) : Corrupt(CellOf(c[1], c[2]))}
      /\ screening'.violations = {i \in flips' : Siblings(i) # {}}
  BY <1>1, <1>2, Places DEF TypeInv
<1>7. flips' \subseteq Con.reverse_coded
  BY <1>1 DEF Correlations
<1>8. \A k \in Named(current), i \in Named(ItemOrder) : Typed(i, CellOf(k, i)) \in Cells
  <2> SUFFICES ASSUME NEW k \in Named(current), NEW i \in Named(ItemOrder)
               PROVE  Typed(i, CellOf(k, i)) \in Cells
    OBVIOUS
  <2>1. CellOf(k, i) \in Values
    BY <1>2, <1>3, <1>4, CellFacts
  <2> QED
    BY <2>1, TypedFacts
<1>9. /\ DOMAIN frame' = Named(accounted)
      /\ \A k \in DOMAIN frame' : frame'[k] \in [Named(ItemOrder) -> Cells]
  BY <1>1, <1>3, <1>8
<1>10. LinkType' = LinkType
  BY <1>5 DEF LinkType
<1>11. TypeInv'
  <2>1. DOMAIN frame' \subseteq DOMAIN Rows'
    BY <1>4, <1>5, <1>9
  <2>2. \A k \in DOMAIN frame' : frame'[k] \in [Named(ItemOrder') -> Cells']
    BY <1>5, <1>9 DEF Cells
  <2>3. DOMAIN screening' = DOMAIN NoScreening'
    BY <1>2, <1>6 DEF TypeInv, NoScreening
  <2>4. pc' \in Early' \cup DOMAIN ChainAt' \cup {"halted"}
    BY <1>1 DEF ChainAt
  <2> QED
    BY <1>2, <1>5, <1>7, <1>10, <2>1, <2>2, <2>3, <2>4 DEF TypeInv
<1>12. Early' = Early /\ ChainAt' = ChainAt /\ Framed' = Framed /\ Screens' = Screens
  BY DEF Early, ChainAt, Framed, Screens
<1>13. pc' \in DOMAIN ChainAt \ {"consent", "duplicates"} /\ pc' \notin Early
  BY <1>1, Places DEF Early
<1>14. RoleInv'
  <2>1. Different(ItemOrder) /\ \A k \in DOMAIN Columns : Cardinality({r \in roles : r[1] = k}) = 1
    BY <1>1, <1>2 DEF RoleInv
  <2> QED
    BY <1>1, <1>5, <2>1 DEF RoleInv
<1>15. ChainInv'
  <2>1. DroppedBefore' = DroppedBefore
    BY <1>5 DEF DroppedBefore
  <2>2. LinksHold'
    BY <1>2, <1>3, <1>5, <1>12, <2>1 DEF LinksHold
  <2> QED
    BY <1>3, <1>5, <1>12, <1>13, <2>2 DEF ChainInv
<1>16. DropInv'
  BY <1>2, <1>5, DropStays
<1>17. PassInv'
  BY <1>2, <1>5, PassesStay
<1>18. CensusInv'
  <2>1. /\ \A c \in screening.census : \E k \in DOMAIN Rows : \E n \in Blanks(k) : c = <<k, ItemOrder[n]>>
        /\ \A k \in Named(accounted) : \A n \in Blanks(k) : <<k, ItemOrder[n]>> \in screening.census
    BY <1>1, <1>2 DEF CensusInv
  <2>2. \A k : Blanks(k)' = Blanks(k)
    BY <1>5, StudyStays
  <2> QED
    BY <1>5, <1>6, <2>1, <2>2 DEF CensusInv
<1>19. FrameInv'
  <2>1. \A k, i : CellOf(k, i)' = CellOf(k, i)
    BY <1>5, StudyStays
  <2>2. \A k, i : Typed(i, CellOf(k, i))' = Typed(i, CellOf(k, i))
    BY <1>5, <2>1 DEF Typed
  <2>3. From(current', DOMAIN frame') = accounted'
    <3>1. PICK list, S : list = accounted /\ S = Named(accounted)
      OBVIOUS
    <3>2. PICK rest : rest = From(list, S)
      OBVIOUS
    <3>3. list \in Seq(Nat) /\ Increasing(list)
      BY <1>4, <3>1
    <3>4. rest \in Seq(Nat) /\ Named(rest) = Named(list) \cap S
      BY <3>2, <3>3, FromFacts
    <3>5. Increasing(rest)
      BY <3>2, <3>3, SubsetsIncrease
    <3>6. rest = list
      BY <3>1, <3>3, <3>4, <3>5, IncreasingEqual
    <3> QED
      BY <1>3, <1>5, <1>9, <3>1, <3>2, <3>6
  <2>4. ASSUME NEW k \in DOMAIN frame', NEW i \in Named(ItemOrder)
        PROVE  /\ frame'[k][i] = Typed(i, CellOf(k, i))
               /\ Corrupt(CellOf(k, i)) => <<k, i>> \in screening'.out_of_range
    BY <1>1, <1>3, <1>6, <1>9
  <2>5. \A c \in screening'.out_of_range :
          \E k \in DOMAIN Rows, i \in Named(ItemOrder) : c = <<k, i>> /\ Corrupt(CellOf(k, i))
    BY <1>3, <1>4, <1>6
  <2> QED
    BY <1>5, <1>9, <2>1, <2>2, <2>3, <2>4, <2>5 DEF FrameInv
<1>20. SignInv'
  <2>1. \A i : Siblings(i)' = Siblings(i)
    BY <1>5, StudyStays
  <2> QED
    BY <1>6, <2>1 DEF SignInv
<1>21. Verdicts'
  BY <1>1, <1>5, Quiet
<1> QED
  BY <1>5, <1>11, <1>14, <1>15, <1>16, <1>17, <1>18, <1>19, <1>20, <1>21 DEF PrepInv, Going

LEMMA OutliersKeeps == PrepInv /\ Outliers => PrepInv'
<1> SUFFICES ASSUME PrepInv, Outliers PROVE PrepInv'
  OBVIOUS
<1>1. PICK dropped : dropped = IF policy.outliers = "remove_with_sensitivity"
                                 THEN From(current, flagged') ELSE <<>>
  OBVIOUS
<1>2. PICK kept : kept = DOMAIN frame \ Named(dropped)
  OBVIOUS
<1>3. /\ pc = "outliers" /\ flagged' \in SUBSET DOMAIN frame
      /\ Link("outlier_policy", dropped, <<>>, current, "finalize")
      /\ frame' = [k \in kept |-> frame[k]]
      /\ dropped = <<>> => flips' = flips
      /\ dropped # <<>> => flips' \in Correlations(frame')
      /\ UNCHANGED <<study, policy, crosswalk, screening, missingness, parity>>
  BY <1>1, <1>2 DEF Outliers
<1>4. /\ TypeInv /\ RoleInv /\ ChainInv /\ DropInv /\ PassInv /\ CensusInv /\ FrameInv /\ SignInv
      /\ failure = "none" /\ pc \in DOMAIN ChainAt \ {"consent", "duplicates"} /\ pc \in Framed
      /\ study \in Studies /\ ChainAt[pc] = 5 /\ ChainAt["finalize"] = 6
      /\ "finalize" \in DOMAIN ChainAt /\ Screens[6] = "outlier_policy"
  BY <1>3, Places DEF PrepInv, Going, TypeInv, Framed
<1>5. LinksHold /\ Len(links) = 5 /\ current = accounted
  <2>1. LinksHold /\ (Len(links) < 6 => current = accounted)
    BY <1>4 DEF ChainInv
  <2>2. Len(links) = 5
    BY <1>4, <2>1 DEF LinksHold
  <2> QED
    BY <2>1, <2>2
<1>6. accounted \in Seq(DOMAIN Rows) /\ Different(accounted) /\ Named(accounted) \subseteq DOMAIN Rows
  <2>1. Different(accounted) /\ Named(accounted) \subseteq DOMAIN Rows
    BY <1>4, <1>5, LeftFacts DEF LinksHold
  <2>2. accounted \in Seq(DOMAIN Rows)
    BY <1>4 DEF TypeInv
  <2> QED
    BY <2>1, <2>2
<1>7. /\ dropped \in Seq(DOMAIN Rows) /\ Different(dropped)
      /\ Named(dropped) \subseteq Named(accounted) /\ Named(dropped) \subseteq flagged'
  <2>1. CASE policy.outliers = "remove_with_sensitivity"
    <3>1. PICK S : S = flagged'
      OBVIOUS
    <3>2. dropped = From(accounted, S)
      BY <1>1, <1>5, <2>1, <3>1
    <3>3. /\ From(accounted, S) \in Seq(DOMAIN Rows) /\ Different(From(accounted, S))
          /\ Named(From(accounted, S)) = Named(accounted) \cap S
      BY <1>6, FromFacts
    <3> QED
      BY <3>1, <3>2, <3>3
  <2>2. CASE policy.outliers # "remove_with_sensitivity"
    BY <1>1, <2>2, EmptyList
  <2> QED
    BY <2>1, <2>2
<1>8. <<>> \in Seq(DOMAIN Rows) /\ Named(<<>>) = {} /\ Different(<<>>)
  BY EmptyList
<1>9. ASSUME NEW k \in Named(dropped) PROVE Reason("outlier_policy", k)'
  BY <1>7, <1>9 DEF Reason
<1>10. /\ pc' = "finalize" /\ failure' = failure /\ current' = current
       /\ Len(links') = 6 /\ links'[6].dropped = dropped
       /\ links' \in Seq(LinkType')
       /\ \A n \in DOMAIN links' :
            links'[n].entering - links'[n].leaving = Len(links'[n].dropped)
       /\ accounted' \in Seq(DOMAIN Rows)
       /\ accounted' = Without(accounted, Named(dropped))
       /\ Named(accounted') = Named(accounted) \ Named(dropped)
       /\ LinksHold' /\ DropInv'
  <2>1. PICK rest : rest = current /\ Link("outlier_policy", dropped, <<>>, rest, "finalize")
    BY <1>3
  <2>2. PICK name, step, none : name = "outlier_policy" /\ step = "finalize" /\ none = <<>>
    OBVIOUS
  <2>3. /\ Link(name, dropped, none, rest, step) /\ name = Screens[Len(links) + 1]
        /\ step \in DOMAIN ChainAt /\ ChainAt[step] = Len(links) + 1 /\ Len(links) < 6
        /\ Len(links) + 1 = 6
    BY <1>4, <1>5, <2>1, <2>2
  <2>4. /\ none \in Seq(DOMAIN Rows) /\ Different(none)
        /\ Named(none) \subseteq Named(accounted) \ Named(dropped)
    BY <1>8, <2>2
  <2>5. \A k \in Named(dropped) : Reason(name, k)'
    BY <1>9, <2>2
  <2>6. study' = study /\ Len(links) = 5 /\ pc \in DOMAIN ChainAt
    BY <1>3, <1>4, <1>5
  <2>7. /\ pc' = step /\ failure' = failure /\ current' = rest
        /\ Len(links') = Len(links) + 1 /\ links'[Len(links) + 1].dropped = dropped
        /\ links' \in Seq(LinkType')
        /\ \A n \in DOMAIN links' :
             links'[n].entering - links'[n].leaving = Len(links'[n].dropped)
        /\ accounted' \in Seq(DOMAIN Rows)
        /\ accounted' = Without(accounted, Named(dropped))
        /\ Named(accounted') = Named(accounted) \ Named(dropped)
        /\ LinksHold' /\ DropInv'
    BY <1>4, <1>7, <2>3, <2>4, <2>5, <2>6, LinkWorks
  <2> QED
    BY <2>1, <2>2, <2>3, <2>7
<1>11. /\ Rows' = Rows /\ Columns' = Columns /\ ItemOrder' = ItemOrder /\ Con' = Con
       /\ study' = study /\ policy' = policy /\ header' = header /\ roles' = roles
       /\ screening' = screening /\ missingness' = missingness
  BY <1>3, StudyStays DEF crosswalk
<1>12. DOMAIN frame = Named(accounted) /\ kept = Named(accounted')
  BY <1>2, <1>4, <1>10 DEF FrameInv
<1>13. DOMAIN frame' = kept /\ \A k \in kept : k \in DOMAIN frame /\ frame'[k] = frame[k]
  BY <1>2, <1>3
<1>14. flips' \subseteq Con.reverse_coded
  BY <1>3, <1>4 DEF Correlations, TypeInv
<1>15. TypeInv'
  <2>1. DOMAIN frame' \subseteq DOMAIN Rows'
    BY <1>2, <1>6, <1>11, <1>12, <1>13
  <2>2. \A k \in DOMAIN frame' : frame'[k] \in [Named(ItemOrder') -> Cells']
    BY <1>4, <1>11, <1>13 DEF TypeInv, Cells
  <2>3. DOMAIN screening' = DOMAIN NoScreening'
    BY <1>4, <1>11 DEF TypeInv, NoScreening
  <2>4. pc' \in Early' \cup DOMAIN ChainAt' \cup {"halted"}
    BY <1>10 DEF ChainAt
  <2>5. flagged' \subseteq DOMAIN Rows'
    BY <1>3, <1>6, <1>11, <1>12
  <2>6. current' \in Seq(DOMAIN Rows') /\ accounted' \in Seq(DOMAIN Rows')
    BY <1>5, <1>6, <1>10, <1>11
  <2> QED
    BY <1>4, <1>10, <1>11, <1>14, <2>1, <2>2, <2>3, <2>4, <2>5, <2>6 DEF TypeInv
<1>16. RoleInv'
  <2>1. Different(ItemOrder) /\ \A k \in DOMAIN Columns : Cardinality({r \in roles : r[1] = k}) = 1
    BY <1>4 DEF RoleInv
  <2> QED
    BY <1>10, <1>11, <2>1 DEF RoleInv
<1>17. ChainInv'
  BY <1>10 DEF ChainInv, Early
<1>18. PassInv'
  <2>1. Named(accounted') \subseteq Named(accounted)
    BY <1>10
  <2> QED
    BY <1>4, <1>11, <2>1, PassesStay
<1>19. CensusInv'
  <2>1. /\ \A c \in screening.census : \E k \in DOMAIN Rows : \E n \in Blanks(k) : c = <<k, ItemOrder[n]>>
        /\ \A k \in Named(accounted) : \A n \in Blanks(k) : <<k, ItemOrder[n]>> \in screening.census
    BY <1>4 DEF CensusInv
  <2>2. \A k : Blanks(k)' = Blanks(k)
    BY <1>11, StudyStays
  <2>3. Named(accounted') \subseteq Named(accounted)
    BY <1>10
  <2> QED
    BY <1>11, <2>1, <2>2, <2>3 DEF CensusInv
<1>20. FrameInv'
  <2>1. \A k, i : CellOf(k, i)' = CellOf(k, i)
    BY <1>11, StudyStays
  <2>2. \A k, i : Typed(i, CellOf(k, i))' = Typed(i, CellOf(k, i))
    BY <1>11, <2>1 DEF Typed
  <2>3. From(current', DOMAIN frame') = accounted'
    <3>1. kept = Named(accounted) \ Named(dropped)
      BY <1>10, <1>12
    <3> QED
      BY <1>5, <1>10, <1>13, <3>1 DEF Without
  <2>4. /\ \A k \in DOMAIN frame, i \in Named(ItemOrder) :
             /\ frame[k][i] = Typed(i, CellOf(k, i))
             /\ Corrupt(CellOf(k, i)) => <<k, i>> \in screening.out_of_range
        /\ \A c \in screening.out_of_range :
             \E k \in DOMAIN Rows, i \in Named(ItemOrder) : c = <<k, i>> /\ Corrupt(CellOf(k, i))
    BY <1>4 DEF FrameInv
  <2> QED
    BY <1>11, <1>12, <1>13, <2>1, <2>2, <2>3, <2>4 DEF FrameInv
<1>21. SignInv'
  <2>1. \A i : Siblings(i)' = Siblings(i)
    BY <1>11, StudyStays
  <2>2. CASE dropped = <<>>
    <3>1. screening.violations = {i \in flips : Siblings(i) # {}}
      BY <1>4, <1>5 DEF SignInv
    <3> QED
      BY <1>3, <1>11, <2>1, <2>2, <3>1 DEF SignInv
  <2>3. CASE dropped # <<>>
    BY <1>10, <2>3 DEF SignInv
  <2> QED
    BY <2>2, <2>3
<1>22. Verdicts'
  BY <1>4, <1>10, Quiet
<1> QED
  BY <1>4, <1>10, <1>15, <1>16, <1>17, <1>18, <1>19, <1>20, <1>21, <1>22 DEF PrepInv, Going

-----------------------------------------------------------------------------
(* The two checks of what comes out.                                       *)

(* The name of a check that does not hold.                                 *)
LEMMA FailingCheck ==
  ASSUME NEW checks, NEW n \in Nat, DOMAIN checks = 1..n
  PROVE  \/ FirstOf(checks) = "none"
         \/ \E k \in 1..n : ~checks[k][2] /\ FirstOf(checks) = checks[k][1]
<1> DEFINE refusing == {k \in DOMAIN checks : ~checks[k][2]}
<1>1. FirstOf(checks) = IF refusing = {} THEN "none" ELSE checks[Min(refusing)][1]
  BY DEF FirstOf
<1>2. refusing \in SUBSET (1..n) /\ refusing \in SUBSET Nat
  OBVIOUS
<1>3. \A k \in refusing : ~checks[k][2]
  OBVIOUS
<1> HIDE DEF refusing
<1>4. IsFiniteSet(refusing)
  <2>1. IsFiniteSet(1..n)
    BY FS_Interval
  <2> QED
    BY <1>2, <2>1, FS_Subset
<1>5. refusing # {} => Min(refusing) \in refusing
  BY <1>2, <1>4, FirstPosition
<1> QED
  BY <1>1, <1>2, <1>3, <1>5

LEMMA OneEntry ==
  ASSUME NEW X, NEW x \in X
  PROVE  <<x>> \in Seq(X) /\ Named(<<x>>) = {x}
<1>1. <<x>> \in Seq(X)
  OBVIOUS
<1>2. DOMAIN <<x>> = {1} /\ <<x>>[1] = x
  OBVIOUS
<1> QED
  BY <1>1, <1>2 DEF Named

LEMMA PathFacts ==
  ASSUME NEW c, HypothesesWellFormed(c), NEW h \in HypothesisSet(c)
  PROVE  Named(Chain(h)) = {h.from, h.to} \cup Named(h.via)
<1>1. PICK via, from, to : via = h.via /\ from = h.from /\ to = h.to
  OBVIOUS
<1> DEFINE X == {from, to} \cup Named(via)
<1>2. via \in Seq(Named(via))
  BY <1>1 DEF HypothesesWellFormed
<1>3. via \in Seq(X)
  BY <1>2
<1>4. PICK s, t : s = <<from>> /\ t = <<to>>
  OBVIOUS
<1>5. s \in Seq(X) /\ t \in Seq(X) /\ Named(s) = {from} /\ Named(t) = {to}
  <2>1. from \in X /\ to \in X
    OBVIOUS
  <2> HIDE DEF X
  <2> QED
    BY <1>4, <2>1, OneEntry
<1> HIDE DEF X
<1>6. s \o via \in Seq(X) /\ Named(s \o via) = Named(s) \cup Named(via)
  BY <1>3, <1>5, ConcatFacts
<1>7. PICK u : u = s \o via
  OBVIOUS
<1>8. Named(u \o t) = Named(u) \cup Named(t)
  <2>1. u \in Seq(X) /\ t \in Seq(X)
    BY <1>5, <1>6, <1>7
  <2> QED
    BY <2>1, ConcatFacts
<1>9. Chain(h) = u \o t
  BY <1>1, <1>4, <1>7 DEF Chain
<1> QED
  BY <1>1, <1>5, <1>6, <1>7, <1>8, <1>9

(* What V1..V5 and the schema say of what the frame has.                   *)
LEMMA ContractIsMeasured ==
  ASSUME study \in Studies, V1(Con), V2(Con, MinItems), V3(Con), V4(Con), V5(Con)
  PROVE  /\ \A k \in Declared(Con) : Measured(k)
         /\ PathsEnd
         /\ I7
         /\ ~I5 => \E h \in HypothesisSet(Con) :
                      h.effect # "indirect" /\ ~(Named(h.via) \subseteq Declared(Con))
<1>1. SchemaHolds(Con) /\ Named(ItemOrder) = Instrument(Con)
  BY StudyFacts
<1>2. \A s : IsSequence(s) /\ s # <<>> => Named(s) # {}
  BY DEF IsSequence, Named
<1>3. \A k \in OfLevel(Con, "first_order") : Prepared(k) # {}
  <2> SUFFICES ASSUME NEW k \in OfLevel(Con, "first_order") PROVE Prepared(k) # {}
    OBVIOUS
  <2>1. k \in DOMAIN Con.indicators /\ Named(Con.indicators[k]) # {}
    BY <1>1, <1>2 DEF SchemaHolds
  <2>2. Named(Con.indicators[k]) \subseteq Named(ItemOrder)
    BY <1>1 DEF V2
  <2> QED
    BY <2>1, <2>2 DEF Prepared
<1>4. \A k \in OfLevel(Con, "second_order") :
        /\ Components(k) = Con.components[k] /\ Named(Components(k)) # {}
        /\ Named(Components(k)) \subseteq OfLevel(Con, "first_order")
  BY <1>1, <1>2 DEF SchemaHolds, V3, Components
<1>5. \A k \in Declared(Con) :
        k \in OfLevel(Con, "first_order") \/ k \in OfLevel(Con, "second_order")
  BY <1>1 DEF SchemaHolds
<1>6. OfLevel(Con, "first_order") \subseteq Declared(Con)
  BY DEF OfLevel
<1>7. ASSUME NEW k \in Declared(Con) PROVE Measured(k)
  <2> SUFFICES ASSUME NEW S \in SUBSET Declared(Con), MeasuredFrom(S) \subseteq S
               PROVE  k \in S
    BY DEF Measured
  <2>1. OfLevel(Con, "first_order") \subseteq S
    BY <1>3, <1>6 DEF MeasuredFrom
  <2>2. CASE k \in OfLevel(Con, "first_order")
    BY <2>1, <2>2
  <2>3. CASE k \in OfLevel(Con, "second_order")
    BY <1>4, <2>1, <2>3 DEF MeasuredFrom
  <2> QED
    BY <1>5, <2>2, <2>3
<1>8. PathsEnd
  <2> SUFFICES ASSUME NEW k, NEW S \in SUBSET Declared(Con), k \in S,
                      \A m \in S : Descends(m) \cap S # {}
               PROVE  FALSE
    BY DEF PathsEnd, Endless
  <2>1. \A m \in OfLevel(Con, "first_order") : Descends(m) = {}
    BY <1>3 DEF Descends
  <2>2. \A m \in OfLevel(Con, "second_order") :
          Descends(m) \subseteq OfLevel(Con, "first_order")
    <3> SUFFICES ASSUME NEW m \in OfLevel(Con, "second_order"), NEW c \in Descends(m)
                 PROVE  c \in OfLevel(Con, "first_order")
      OBVIOUS
    <3>1. c \in Named(Components(m))
      BY DEF Descends, Named
    <3> QED
      BY <1>4, <3>1
  <2>3. k \in OfLevel(Con, "second_order")
    BY <1>5, <2>1
  <2>4. PICK c : c \in Descends(k) /\ c \in S
    OBVIOUS
  <2> QED
    BY <2>1, <2>2, <2>3, <2>4
<1>9. I7
  BY <1>3, <1>4 DEF I7
<1>10. ASSUME ~I5
       PROVE  \E h \in HypothesisSet(Con) :
                h.effect # "indirect" /\ ~(Named(h.via) \subseteq Declared(Con))
  <2>0. PICK h \in HypothesisSet(Con) :
          \E k \in Named(Chain(h)) : ~(k \in Declared(Con) /\ Measured(k))
    BY <1>10 DEF I5, InPaths
  <2>1. PICK k \in Named(Chain(h)) : ~(k \in Declared(Con) /\ Measured(k))
    BY <2>0
  <2>2. k \notin Declared(Con)
    BY <1>7, <2>1
  <2>3. HypothesesWellFormed(Con)
    BY <1>1 DEF SchemaHolds
  <2>4. Named(Chain(h)) = {h.from, h.to} \cup Named(h.via)
    BY <2>3, PathFacts
  <2>5. /\ {h.from, h.to} \subseteq Declared(Con)
        /\ h.effect = "indirect" => Named(h.via) \subseteq Declared(Con)
    BY DEF V4
  <2> QED
    BY <2>1, <2>2, <2>4, <2>5
<1> QED
  BY <1>7, <1>8, <1>9, <1>10

LEMMA AssertKeeps == PrepInv /\ AssertInvariants => PrepInv'
<1> SUFFICES ASSUME PrepInv, AssertInvariants PROVE PrepInv'
  OBVIOUS
<1>1. /\ pc = "prepared"
      /\ failure' = FirstOf(<< <<"I1", I1>>, <<"I2", I2>>, <<"I3", I34>>,
                               <<"recursion", PathsEnd>>, <<"I5", I5>>, <<"I6", I6>>,
                               <<"I7", I7>> >>)
      /\ pc' = (IF failure' = "none" THEN "asserted" ELSE "halted")
      /\ UNCHANGED <<study, policy, crosswalk, chain, prepared>>
  BY DEF AssertInvariants
<1>2. /\ TypeInv /\ SignInv /\ failure = "none" /\ pc \in Framed /\ study \in Studies
      /\ LinksHold /\ Len(links) = 6
  BY <1>1, Places DEF PrepInv, Going, ChainInv, LinksHold, TypeInv, Framed
<1>3. /\ failure' \in {"none", "I1", "I2", "I3", "recursion", "I5", "I6", "I7"}
      /\ (failure' = "I1" => ~I1) /\ (failure' = "I2" => ~I2) /\ (failure' = "I3" => ~I34)
      /\ (failure' = "recursion" => ~PathsEnd) /\ (failure' = "I5" => ~I5)
      /\ (failure' = "I7" => ~I7)
  <2>1. PICK checks : checks = << <<"I1", I1>>, <<"I2", I2>>, <<"I3", I34>>,
                                  <<"recursion", PathsEnd>>, <<"I5", I5>>, <<"I6", I6>>,
                                  <<"I7", I7>> >>
    OBVIOUS
  <2>2. DOMAIN checks = 1..7 /\ failure' = FirstOf(checks)
    BY <1>1, <2>1
  <2>3. CASE failure' = "none"
    BY <2>3
  <2>4. CASE failure' # "none"
    <3>1. PICK k \in 1..7 : ~checks[k][2] /\ failure' = checks[k][1]
      BY <2>2, <2>4, FailingCheck
    <3>2. k \in {1, 2, 3, 4, 5, 6, 7}
      BY <3>1
    <3>3. /\ checks[1] = <<"I1", I1>> /\ checks[2] = <<"I2", I2>> /\ checks[3] = <<"I3", I34>>
          /\ checks[4] = <<"recursion", PathsEnd>> /\ checks[5] = <<"I5", I5>>
          /\ checks[6] = <<"I6", I6>> /\ checks[7] = <<"I7", I7>>
      BY <2>1
    <3> QED
      BY <3>1, <3>2, <3>3
  <2> QED
    BY <2>3, <2>4
<1>4. I1 /\ I34
  <2>1. \A k \in DOMAIN frame : frame[k] \in [Named(ItemOrder) -> {"low", "high", "missing"}]
    BY <1>2 DEF TypeInv, Cells
  <2>2. Named(ItemOrder) = Instrument(Con)
    BY <1>2, StudyFacts
  <2> QED
    BY <2>1, <2>2 DEF I1, I34
<1>5. /\ screening' = screening /\ links' = links /\ Con' = Con /\ study' = study
      /\ \A i : Siblings(i)' = Siblings(i)
  BY <1>1, StudyStays DEF prepared, chain
<1>6. ~I2 => \E i \in Con.reverse_coded :
                i \in screening.violations \/ Siblings(i) = {} \/ links[6].dropped # <<>>
  BY <1>2 DEF I2, SignInv
<1>7. (V1(Con) /\ V2(Con, MinItems) /\ V3(Con) /\ V4(Con) /\ V5(Con)) =>
        /\ failure' \notin {"I1", "I3", "recursion", "I7"}
        /\ failure' = "I5" => \E h \in HypothesisSet(Con) :
                                 h.effect # "indirect" /\ ~(Named(h.via) \subseteq Declared(Con))
  BY <1>2, <1>3, <1>4, ContractIsMeasured
<1>8. Verdicts'
  <2>1. FailuresExplained'
    BY <1>3 DEF FailuresExplained
  <2>2. pc' # "reconciled"
    BY <1>1
  <2>3. ChecksAreExact'
    BY <1>3, <1>5, <1>6, <1>7, <2>2 DEF ChecksAreExact
  <2> QED
    BY <2>1, <2>3 DEF Verdicts
<1>9. UNCHANGED <<study, policy, crosswalk, chain, screening, frame, flips, missingness, flagged>>
  BY <1>1 DEF prepared
<1>10. CASE failure' = "none"
  <2>1. pc' = "asserted" /\ failure' = failure /\ missingness' \in {"none", "mcar_not_rejected", "mcar_rejected"}
    BY <1>1, <1>2, <1>9, <1>10 DEF TypeInv
  <2>2. pc' \in Framed /\ ChainAt[pc'] = ChainAt[pc]
    BY <1>1, <2>1, Places DEF Framed
  <2> QED
    BY <1>2, <1>8, <1>9, <2>1, <2>2, FrameStays
<1>11. CASE failure' # "none"
  <2>1. pc' = "halted"
    BY <1>1, <1>11
  <2> QED
    BY <1>8, <1>9, <2>1, StopWorks
<1> QED
  BY <1>10, <1>11

(* The two sides agree on nothing less than everything, and never on rows  *)
(* that only one of them has read.                                         *)
LEMMA AgreesOnAll ==
  ASSUME accounted \in Seq(Nat), NEW r \in SameRows \cup OtherRows, Agrees(r)
  PROVE  r = PythonSide /\ r \notin OtherRows
<1>1. PICK cases, cells, counts :
        cases = accounted /\ cells = frame /\ counts = [n \in DOMAIN links |-> Len(links[n].dropped)]
  OBVIOUS
<1>2. PICK same : same = PythonSide
  OBVIOUS
<1>3. same = [cases |-> cases, cells |-> cells, counts |-> counts]
  BY <1>1, <1>2 DEF PythonSide
<1>4. r.cases = cases /\ r.cells = cells /\ r.counts = counts
  BY <1>1 DEF Agrees, PythonSide
<1>5. r \notin OtherRows
  <2>1. ASSUME r \in OtherRows PROVE FALSE
    <3>1. r.cases = <<0>> \o cases
      BY <1>2, <1>3, <2>1 DEF OtherRows
    <3>2. cases \in Seq(Nat) /\ <<0>> \in Seq(Nat) /\ Len(<<0>>) = 1
      BY <1>1
    <3>3. PICK n \in Nat : n = Len(cases)
      BY <3>2
    <3>4. Len(<<0>> \o cases) = 1 + n
      BY <3>2, <3>3
    <3> QED
      BY <1>4, <3>1, <3>3, <3>4
  <2> QED
    BY <2>1
<1>6. r = [cases |-> r.cases, cells |-> r.cells, counts |-> r.counts]
  <2>1. r \in SameRows
    BY <1>5
  <2>2. \/ r = same \/ r = [same EXCEPT !.cases = Reverse(@)]
        \/ r = [same EXCEPT !.counts[1] = @ + 1]
        \/ r = [same EXCEPT !.counts[1] = @ + 1, !.counts[2] = @ - 1]
        \/ \E c \in (DOMAIN frame) \X Named(ItemOrder) : \E v :
             r = [same EXCEPT !.cells[c[1]][c[2]] = v]
    <3> DEFINE other(cell) == IF cell = "missing" THEN {"low"} ELSE {"missing", Turned(cell)}
               whole == {PythonSide, [PythonSide EXCEPT !.cases = Reverse(@)], [PythonSide EXCEPT !.counts[1] = @ + 1],
                         [PythonSide EXCEPT !.counts[1] = @ + 1, !.counts[2] = @ - 1]}
               single(c) == {[PythonSide EXCEPT !.cells[c[1]][c[2]] = v] : v \in other(frame[c[1]][c[2]])}
    <3>1. r \in whole \cup UNION {single(c) : c \in (DOMAIN frame) \X Named(ItemOrder)}
      BY <2>1 DEF SameRows
    <3>2. CASE r \in whole
      BY <1>2, <3>2
    <3>3. CASE r \in UNION {single(c) : c \in (DOMAIN frame) \X Named(ItemOrder)}
      <4> HIDE DEF single, other
      <4>1. PICK c \in (DOMAIN frame) \X Named(ItemOrder) : r \in single(c)
        BY <3>3
      <4>2. \E v : r = [same EXCEPT !.cells[c[1]][c[2]] = v]
        BY <1>2, <4>1 DEF single
      <4> QED
        BY <4>2
    <3> QED
      BY <3>1, <3>2, <3>3
  <2>3. CASE r = same
    BY <1>3, <2>3
  <2>4. CASE r = [same EXCEPT !.cases = Reverse(@)]
    BY <1>3, <2>4
  <2>5. CASE r = [same EXCEPT !.counts[1] = @ + 1]
    BY <1>3, <2>5
  <2>6. CASE r = [same EXCEPT !.counts[1] = @ + 1, !.counts[2] = @ - 1]
    BY <1>3, <2>6
  <2>7. ASSUME NEW c \in (DOMAIN frame) \X Named(ItemOrder), NEW v,
               r = [same EXCEPT !.cells[c[1]][c[2]] = v]
        PROVE  r = [cases |-> r.cases, cells |-> r.cells, counts |-> r.counts]
    BY <1>3, <2>7
  <2> QED
    BY <2>2, <2>3, <2>4, <2>5, <2>6, <2>7
<1> QED
  BY <1>2, <1>3, <1>4, <1>5, <1>6

LEMMA ReconcileKeeps == PrepInv /\ Reconcile => PrepInv'
<1> SUFFICES ASSUME PrepInv, Reconcile PROVE PrepInv'
  OBVIOUS
<1>1. /\ pc = "prepared"
      /\ parity' \in IF SkippedByR = header THEN SameRows ELSE OtherRows
      /\ pc' = (IF Agrees(parity') THEN "reconciled" ELSE "halted")
      /\ failure' = (IF Agrees(parity') THEN failure ELSE "FR-501")
      /\ UNCHANGED <<study, policy, crosswalk, chain, screening, frame, flips, missingness, flagged>>
  BY DEF Reconcile
<1>2. /\ TypeInv /\ failure = "none" /\ pc \in Framed /\ accounted \in Seq(Nat)
  BY <1>1, Places, LeftFacts DEF PrepInv, Going, ChainInv, LinksHold, Framed
<1>3. CASE Agrees(parity')
  <2>1. pc' = "reconciled" /\ failure' = failure /\ failure' = "none"
    BY <1>1, <1>2, <1>3
  <2>2. PICK answer : answer = parity'
    OBVIOUS
  <2>3. answer \in SameRows \cup OtherRows /\ Agrees(answer)
    BY <1>1, <1>3, <2>2
  <2>4. answer = PythonSide /\ answer \notin OtherRows
    BY <1>2, <2>3, AgreesOnAll
  <2>5. SkippedByR = header
    BY <1>1, <2>2, <2>4
  <2>6. PythonSide' = PythonSide /\ header' = header /\ Data' = Data
    BY <1>1, StudyStays DEF PythonSide, chain, crosswalk
  <2>7. ChecksAreExact'
    BY <2>1, <2>2, <2>4, <2>5, <2>6 DEF ChecksAreExact, SkippedByR
  <2>8. Verdicts'
    BY <2>1, <2>7 DEF Verdicts, FailuresExplained
  <2>9. /\ pc' \in Framed /\ ChainAt[pc'] = ChainAt[pc]
        /\ missingness' \in {"none", "mcar_not_rejected", "mcar_rejected"}
    BY <1>1, <1>2, <2>1, Places DEF Framed, TypeInv
  <2> QED
    BY <1>1, <1>2, <2>1, <2>8, <2>9, FrameStays
<1>4. CASE ~Agrees(parity')
  <2>1. pc' = "halted" /\ failure' = "FR-501"
    BY <1>1, <1>4
  <2>2. Verdicts'
    BY <2>1 DEF Verdicts, FailuresExplained, ChecksAreExact
  <2> QED
    BY <1>1, <2>1, <2>2, StopWorks
<1> QED
  BY <1>3, <1>4

-----------------------------------------------------------------------------
(* The induction.                                                          *)

LEMMA PrepStarts == Init => PrepInv
<1> SUFFICES ASSUME Init PROVE PrepInv
  OBVIOUS
<1>1. TypeInv
  BY DEF Init, TypeInv, Early, NoScreening, NoFrame
<1>2. pc = "load" /\ failure = "none" /\ roles = {} /\ links = <<>>
  BY DEF Init
<1>3. RoleInv /\ ChainInv
  BY <1>2, Places DEF RoleInv, ChainInv
<1>4. DropInv /\ PassInv /\ CensusInv
  BY <1>2, Places DEF DropInv, PassInv, CensusInv, Framed
<1>5. FrameInv /\ SignInv
  BY <1>2 DEF FrameInv, SignInv, Framed
<1>6. Verdicts
  BY <1>2 DEF Verdicts, FailuresExplained, ChecksAreExact
<1> QED
  BY <1>1, <1>2, <1>3, <1>4, <1>5, <1>6 DEF PrepInv, Going

LEMMA StutterKeeps == PrepInv /\ UNCHANGED vars => PrepInv'
<1> SUFFICES ASSUME PrepInv, UNCHANGED vars PROVE PrepInv'
  OBVIOUS
<1>1. /\ pc' = pc /\ study' = study /\ policy' = policy /\ failure' = failure
      /\ header' = header /\ roles' = roles
      /\ current' = current /\ accounted' = accounted /\ links' = links
      /\ screening' = screening /\ frame' = frame /\ flips' = flips
      /\ missingness' = missingness /\ flagged' = flagged /\ parity' = parity
  BY DEF vars, crosswalk, chain, prepared
<1>2. /\ Rows' = Rows /\ Columns' = Columns /\ ItemOrder' = ItemOrder /\ Con' = Con
      /\ Data' = Data /\ RawCases' = RawCases
  BY <1>1, StudyStays
<1>3. LinkType' = LinkType
  BY <1>2 DEF LinkType
<1>4. TypeInv'
  BY <1>1, <1>2, <1>3 DEF PrepInv, TypeInv, Early, ChainAt, Cells, NoScreening
<1>5. Verdicts'
  <2>1. Verdicts
    BY DEF PrepInv
  <2>2. \A i : Siblings(i)' = Siblings(i)
    BY <1>1, StudyStays
  <2>3. PythonSide' = PythonSide
    BY <1>1 DEF PythonSide
  <2>4. \A t : ByName(t)' <=> ByName(t)
    BY <1>2 DEF ByName
  <2>5. FailuresExplained'
    BY <1>1, <1>2, <2>1, <2>4 DEF Verdicts, FailuresExplained
  <2>6. ChecksAreExact'
    BY <1>1, <1>2, <2>1, <2>2, <2>3 DEF Verdicts, ChecksAreExact
  <2> QED
    BY <2>5, <2>6 DEF Verdicts
<1>6. Going'
  <2>1. Going
    BY DEF PrepInv
  <2>2. /\ \A k : Blanks(k)' = Blanks(k)
        /\ \A k : Refuses(k)' <=> Refuses(k)
        /\ \A k, i : CellOf(k, i)' = CellOf(k, i)
        /\ \A j, k : (SameId(j, k)' <=> SameId(j, k)) /\ (SameAnswers(j, k)' <=> SameAnswers(j, k))
        /\ \A i : Siblings(i)' = Siblings(i)
    BY <1>1, StudyStays
  <2>3. \A k, i : Typed(i, CellOf(k, i))' = Typed(i, CellOf(k, i))
    BY <1>2, <2>2 DEF Typed
  <2>4. Early' = Early /\ ChainAt' = ChainAt /\ Framed' = Framed /\ Screens' = Screens
    BY DEF Early, ChainAt, Framed, Screens
  <2>5. RoleInv'
    <3>1. \A i : ColumnOf(i)' = ColumnOf(i)
      BY <1>1, <1>2 DEF ColumnOf, Texts
    <3> QED
      BY <1>1, <1>2, <2>1, <2>4, <3>1 DEF Going, RoleInv
  <2>6. ChainInv'
    <3>1. DroppedBefore' = DroppedBefore
      BY <1>1 DEF DroppedBefore
    <3>2. LinksHold' <=> LinksHold
      BY <1>1, <1>2, <2>4, <3>1 DEF LinksHold
    <3> QED
      BY <1>1, <2>1, <2>4, <3>2 DEF Going, ChainInv
  <2>7. DropInv'
    <3>1. CASE pc \in DOMAIN ChainAt
      BY <1>1, <2>1, <3>1, DropStays DEF PrepInv, Going
    <3>2. CASE pc \notin DOMAIN ChainAt
      BY <1>1, <2>4, <3>2 DEF DropInv
    <3> QED
      BY <3>1, <3>2
  <2>8. PassInv'
    BY <1>1, <2>1, <2>2, <2>4 DEF Going, PassInv
  <2>9. CensusInv'
    BY <1>1, <1>2, <2>1, <2>2, <2>4 DEF Going, CensusInv
  <2>10. FrameInv'
    BY <1>1, <1>2, <2>1, <2>2, <2>3, <2>4 DEF Going, FrameInv
  <2>11. SignInv'
    BY <1>1, <2>1, <2>2, <2>4 DEF Going, SignInv
  <2> QED
    BY <2>5, <2>6, <2>7, <2>8, <2>9, <2>10, <2>11 DEF Going
<1> QED
  BY <1>1, <1>4, <1>5, <1>6 DEF PrepInv

LEMMA PrepKeeps == PrepInv /\ [Next]_vars => PrepInv'
<1> SUFFICES ASSUME PrepInv, [Next]_vars PROVE PrepInv'
  OBVIOUS
<1>1. CASE LoadRaw
  BY <1>1, LoadKeeps
<1>2. CASE ResolveHeader
  BY <1>2, HeaderKeeps
<1>3. CASE MatchItems
  BY <1>3, MatchKeeps
<1>4. CASE AccountRoles
  BY <1>4, AccountKeeps
<1>5. CASE OpenChain
  BY <1>5, OpenKeeps
<1>6. CASE Consent
  BY <1>6, ConsentKeeps
<1>7. CASE Duplicates
  BY <1>7, DuplicatesKeeps
<1>8. CASE Attention
  BY <1>8, AttentionKeeps
<1>9. CASE StraightLiners
  BY <1>9, LinersKeeps
<1>10. CASE Partials
  BY <1>10, PartialsKeeps
<1>11. CASE BuildFrame
  BY <1>11, BuildKeeps
<1>12. CASE AssessMissingness
  BY <1>12, MissingKeeps
<1>13. CASE Outliers
  BY <1>13, OutliersKeeps
<1>14. CASE Finalize
  BY <1>14, FinalizeKeeps
<1>15. CASE AssertInvariants
  BY <1>15, AssertKeeps
<1>16. CASE Reconcile
  BY <1>16, ReconcileKeeps
<1>17. CASE \/ Unreadable \/ HeaderRefused \/ Unmatched \/ Unaccounted
            \/ NoIdColumn \/ NoId \/ SameKeys \/ NoConsentColumn \/ DuplicatesFail
            \/ NoCheckColumn \/ LinersFail \/ NoHint
  BY <1>17, HaltsKeep
<1>18. CASE UNCHANGED vars
  BY <1>18, StutterKeeps
<1> QED
  BY <1>1, <1>2, <1>3, <1>4, <1>5, <1>6, <1>7, <1>8, <1>9, <1>10, <1>11, <1>12, <1>13, <1>14,
     <1>15, <1>16, <1>17, <1>18 DEF Next, BuildCrosswalk, ScreenCases

LEMMA PrepAlways == Spec => []PrepInv
<1>1. Init => PrepInv
  BY PrepStarts
<1>2. PrepInv /\ [Next]_vars => PrepInv'
  BY PrepKeeps
<1> QED
  BY <1>1, <1>2, PTL DEF Spec

-----------------------------------------------------------------------------
(* What follows.                                                           *)

LEMMA TypesByInv == PrepInv => TypeOK
<1> SUFFICES ASSUME PrepInv PROVE TypeOK
  OBVIOUS
<1>1. TypeInv
  BY DEF PrepInv
<1>2. pc \in {"load", "header", "match", "account", "keys", "consent", "duplicates",
              "attention", "liners", "partials", "frame", "missing", "outliers", "finalize",
              "prepared", "asserted", "reconciled", "halted"}
  BY <1>1, Places DEF TypeInv, Early
<1>3. Named(current) \subseteq DOMAIN Rows /\ Named(accounted) \subseteq DOMAIN Rows
  BY <1>1, ListFacts DEF TypeInv
<1>4. \A l \in Named(links) : l.entering - l.leaving = Len(l.dropped)
  BY <1>1 DEF TypeInv, Named
<1> QED
  BY <1>1, <1>2, <1>3, <1>4 DEF TypeOK, TypeInv

(* A case that is not left is in one link.                                 *)
LEMMA OneLinkEach ==
  ASSUME TypeInv, DropInv, LinksHold, pc \in DOMAIN ChainAt, NEW k \in DOMAIN Rows
  PROVE  Cardinality({n \in DOMAIN links : k \in Named(links[n].dropped)}) =
           IF k \in Named(accounted) THEN 0 ELSE 1
<1> DEFINE by == {n \in DOMAIN links : k \in Named(links[n].dropped)}
<1>1. Named(accounted) = DOMAIN Rows \ DroppedBefore
  BY LeftFacts DEF LinksHold
<1>2. k \in DroppedBefore <=> by # {}
  BY DEF DroppedBefore
<1>3. \A m, n \in by : m = n
  BY DEF DropInv
<1>4. CASE k \in Named(accounted)
  BY <1>1, <1>2, <1>4, FS_EmptySet
<1>5. CASE k \notin Named(accounted)
  <2>1. PICK n : n \in by
    BY <1>1, <1>2, <1>5
  <2>2. by = {n}
    BY <1>3, <2>1
  <2> QED
    BY <1>5, <2>2, FS_Singleton
<1> QED
  BY <1>4, <1>5

(* What the census and the list of corrupt cells say of a cell.            *)
LEMMA MissingByInv ==
  ASSUME TypeInv, CensusInv, FrameInv, pc \in Framed, Different(ItemOrder)
  PROVE  /\ screening.census \cap screening.out_of_range = {}
         /\ \A k \in DOMAIN frame, i \in Named(ItemOrder) :
              frame[k][i] = "missing" <=>
                \/ <<k, i>> \in screening.census \cup screening.out_of_range
                \/ CellOf(k, i) = "nan"
<1>1. study \in Studies /\ DOMAIN frame = Named(accounted) /\ DOMAIN frame \subseteq DOMAIN Rows
  BY DEF TypeInv, FrameInv
<1>2. \A k \in DOMAIN Rows : \A n \in Blanks(k) :
        ItemOrder[n] \in Named(ItemOrder) /\ CellOf(k, ItemOrder[n]) = "blank"
  <2> SUFFICES ASSUME NEW k \in DOMAIN Rows, NEW n \in Blanks(k)
               PROVE  ItemOrder[n] \in Named(ItemOrder) /\ CellOf(k, ItemOrder[n]) = "blank"
    OBVIOUS
  <2>1. n \in DOMAIN ItemOrder /\ ItemOrder[n] \in Named(ItemOrder)
    BY <1>1, CellFacts
  <2>2. n \in Blanks(k) <=> CellOf(k, ItemOrder[n]) = "blank"
    BY <1>1, <2>1, CellFacts
  <2> QED
    BY <2>1, <2>2
<1>3. \A k, i : <<k, i>> \in screening.census => CellOf(k, i) = "blank"
  <2> SUFFICES ASSUME NEW k, NEW i, <<k, i>> \in screening.census
               PROVE  CellOf(k, i) = "blank"
    OBVIOUS
  <2>1. PICK j \in DOMAIN Rows : \E n \in Blanks(j) : <<k, i>> = <<j, ItemOrder[n]>>
    BY DEF CensusInv, Framed
  <2> QED
    BY <1>2, <2>1
<1>4. \A k, i : <<k, i>> \in screening.out_of_range => Corrupt(CellOf(k, i))
  <2> SUFFICES ASSUME NEW k, NEW i, <<k, i>> \in screening.out_of_range
               PROVE  Corrupt(CellOf(k, i))
    OBVIOUS
  <2>1. PICK j \in DOMAIN Rows, m \in Named(ItemOrder) :
          <<k, i>> = <<j, m>> /\ Corrupt(CellOf(j, m))
    BY DEF FrameInv
  <2> QED
    BY <2>1
<1>5. \A c \in screening.census : \E k, i : c = <<k, i>>
  BY DEF CensusInv, Framed
<1>6. ~Corrupt("blank")
  BY DEF Corrupt
<1>7. screening.census \cap screening.out_of_range = {}
  BY <1>3, <1>4, <1>5, <1>6
<1>8. ASSUME NEW k \in DOMAIN frame, NEW i \in Named(ItemOrder)
      PROVE  frame[k][i] = "missing" <=>
               \/ <<k, i>> \in screening.census \cup screening.out_of_range
               \/ CellOf(k, i) = "nan"
  <2>1. /\ frame[k][i] = Typed(i, CellOf(k, i))
        /\ Corrupt(CellOf(k, i)) => <<k, i>> \in screening.out_of_range
    BY DEF FrameInv
  <2>2. CellOf(k, i) \in Values
    BY <1>1, CellFacts
  <2>3. frame[k][i] = "missing" <=> CellOf(k, i) \in {"blank", "nan"} \/ Corrupt(CellOf(k, i))
    BY <2>1, <2>2, TypedFacts
  <2>4. CellOf(k, i) = "blank" => <<k, i>> \in screening.census
    <3>1. PICK n \in DOMAIN ItemOrder : i = ItemOrder[n]
      BY DEF Named
    <3>2. CellOf(k, i) = "blank" => n \in Blanks(k)
      BY <1>1, <3>1, CellFacts
    <3>3. \A m \in Blanks(k) : <<k, ItemOrder[m]>> \in screening.census
      BY <1>1 DEF CensusInv
    <3> QED
      BY <3>1, <3>2, <3>3
  <2> QED
    BY <1>3, <1>4, <2>1, <2>3, <2>4
<1> QED
  BY <1>7, <1>8

LEMMA AccountedByInv == PrepInv => EverythingAccounted
<1> SUFFICES ASSUME PrepInv, Done PROVE EverythingAccounted
  BY DEF EverythingAccounted
<1>1. /\ pc \in DOMAIN ChainAt \ {"consent", "duplicates"} /\ pc \in Framed /\ ChainAt[pc] = 6
      /\ pc \in {"keys"} \cup DOMAIN ChainAt
  BY Places DEF Done, Framed
<1>2. /\ TypeInv /\ RoleInv /\ ChainInv /\ DropInv /\ PassInv /\ CensusInv /\ FrameInv
      /\ LinksHold /\ Len(links) = 6 /\ Different(ItemOrder)
  BY <1>1 DEF PrepInv, Going, ChainInv, LinksHold, RoleInv
<1>3. DOMAIN frame = Named(accounted)
  BY <1>1, <1>2 DEF FrameInv
<1>4. \A k \in DOMAIN Columns : Cardinality({r \in roles : r[1] = k}) = 1
  BY <1>1, <1>2 DEF RoleInv
<1>5. \A k \in DOMAIN Rows :
        Cardinality({n \in DOMAIN links : k \in Named(links[n].dropped)}) =
          IF k \in DOMAIN frame THEN 0 ELSE 1
  BY <1>1, <1>2, <1>3, OneLinkEach
<1>6. \A l \in Named(links) : \A k \in Named(l.dropped) : Reason(l.name, k)
  <2>1. \A n \in DOMAIN links : \A k \in Named(links[n].dropped) : Reason(links[n].name, k)
    BY <1>1, <1>2 DEF DropInv
  <2>2. \A l \in Named(links) : \E n \in DOMAIN links : l = links[n]
    BY DEF Named
  <2> QED
    BY <2>1, <2>2
<1>7. \A j, k \in DOMAIN frame :
        j < k => /\ "response_id" \in policy.duplicates => ~SameId(j, k)
                 /\ "identical_model_vector" \in policy.duplicates => ~SameAnswers(j, k)
  BY <1>1, <1>2, <1>3 DEF PassInv
<1>8. /\ screening.census \cap screening.out_of_range = {}
      /\ \A k \in DOMAIN frame, i \in Named(ItemOrder) :
           frame[k][i] = "missing" <=>
             \/ <<k, i>> \in screening.census \cup screening.out_of_range
             \/ CellOf(k, i) = "nan"
  BY <1>1, <1>2, MissingByInv
<1> QED
  BY <1>2, <1>4, <1>5, <1>6, <1>7, <1>8 DEF EverythingAccounted

(* Every variable has its type: what the chain, the census and the frame   *)
(* are about are rows and items of the export.                             *)
THEOREM PreparationTypeCorrect == Spec => []TypeOK
<1>1. PrepInv => TypeOK
  BY TypesByInv
<1> QED
  BY <1>1, PrepAlways, PTL

(* Whatever the export: when preparation ends, each column has one role,   *)
(* each case is in the frame or in the one link that dropped it for its    *)
(* reason, each missing cell is in the census or among the corrupt ones    *)
(* unless it is spelled "nan", and no duplicates are left.                 *)
THEOREM NothingGetsLost == Spec => []EverythingAccounted
<1>1. PrepInv => EverythingAccounted
  BY AccountedByInv
<1> QED
  BY <1>1, PrepAlways, PTL

(* run_prep and its accountant never disagree; an error without a type     *)
(* comes of a short row or a column that is not looked up as it was found, *)
(* and a clash of keys of an id that is spelled like a key.                *)
THEOREM HaltsHaveReasons == Spec => []FailuresExplained
<1>1. PrepInv => FailuresExplained
  BY DEF PrepInv, Verdicts
<1> QED
  BY <1>1, PrepAlways, PTL

(* A contract that passed its validators fails none of I1, I3, I4 and I7,  *)
(* and I5 for a path that V4 does not look at alone; with any contract, I2 *)
(* fails for what the screening has reported, for an item without sibling  *)
(* in the frame, or when outliers have left; the two paths agree on nothing*)
(* less than all.                                                          *)
THEOREM GateIsExact == Spec => []ChecksAreExact
<1>1. PrepInv => ChecksAreExact
  BY DEF PrepInv, Verdicts
<1> QED
  BY <1>1, PrepAlways, PTL

=============================================================================
