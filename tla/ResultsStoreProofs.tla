------------------------- MODULE ResultsStoreProofs -------------------------
(***************************************************************************)
(* Theorems about ResultsStore, for any statistic ids and bodies, any      *)
(* number of writes, second objects and deaths, and any edit.              *)
(***************************************************************************)
EXTENDS ResultsStore, SequenceTheorems, FiniteSetTheorems, TLAPS

AnyLine == AnyEntry \cup {Torn}

-----------------------------------------------------------------------------
(* What the operators on sequences of lines do.                            *)

LEMMA AppendFacts ==
  ASSUME NEW S, NEW es \in Seq(S), NEW x \in S
  PROVE  /\ Append(es, x) \in Seq(S) /\ Len(Append(es, x)) = Len(es) + 1
         /\ \A i \in 1..Len(es) : Append(es, x)[i] = es[i]
         /\ Append(es, x)[Len(es) + 1] = x
         /\ IdsIn(Append(es, x)) = IdsIn(es) \cup {x.id}
         /\ ToSet(Append(es, x)) = ToSet(es) \cup {x}
<1> DEFINE fs == Append(es, x)
<1>1. /\ fs \in Seq(S) /\ Len(fs) = Len(es) + 1
      /\ \A i \in 1..Len(es) : fs[i] = es[i]
      /\ fs[Len(es) + 1] = x
  BY AppendProperties
<1>2. Len(es) \in Nat /\ DOMAIN es = 1..Len(es) /\ DOMAIN fs = 1..(Len(es) + 1)
  BY <1>1, LenProperties
<1> HIDE DEF fs
<1>3. 1..(Len(es) + 1) = (1..Len(es)) \cup {Len(es) + 1}
  BY <1>2
<1>4. IdsIn(fs) = IdsIn(es) \cup {x.id}
  BY <1>1, <1>2, <1>3 DEF IdsIn
<1>5. ToSet(fs) = ToSet(es) \cup {x}
  BY <1>1, <1>2, <1>3 DEF ToSet
<1>6. QED
  BY <1>1, <1>4, <1>5 DEF fs

LEMMA HoldsAppend ==
  ASSUME NEW es \in Seq(AnyEntry), LinesHold(es),
         NEW id \in Ids, NEW b \in Bodies, id \notin IdsIn(es)
  PROVE  LinesHold(Append(es, Entry(id, b)))
<1> DEFINE x == Entry(id, b)
           fs == Append(es, x)
<1>1. x \in AnyEntry /\ x.id = id /\ x.hash = HashOf(x.id, x.body)
  BY DEF Entry, AnyEntry, HashOf
<1> HIDE DEF x
<1>2. /\ DOMAIN fs = 1..(Len(es) + 1) /\ DOMAIN es = 1..Len(es) /\ Len(es) \in Nat
      /\ \A i \in 1..Len(es) : fs[i] = es[i]
      /\ fs[Len(es) + 1] = x
  BY <1>1, AppendFacts, LenProperties
<1> HIDE DEF fs
<1>3. \A i \in 1..Len(es) : fs[i].id # x.id
  BY <1>1, <1>2 DEF IdsIn
<1>4. x # Torn
  BY <1>1, ResultsStoreAssumption
<1>5. \A i \in DOMAIN fs : i \in 1..Len(es) \/ i = Len(es) + 1
  BY <1>2
<1>6. \A i \in DOMAIN fs : fs[i] # Torn /\ fs[i].hash = HashOf(fs[i].id, fs[i].body)
  BY <1>1, <1>2, <1>4, <1>5 DEF LinesHold
<1>7. \A i, j \in DOMAIN fs : fs[i].id = fs[j].id => i = j
  BY <1>2, <1>3, <1>5 DEF LinesHold
<1>8. QED
  BY <1>6, <1>7 DEF LinesHold, fs, x

LEMMA HoldsPrefix ==
  ASSUME NEW es \in Seq(AnyLine), NEW x \in AnyLine, LinesHold(Append(es, x))
  PROVE  LinesHold(es) /\ x # Torn /\ x.id \notin IdsIn(es)
<1> DEFINE fs == Append(es, x)
<1>1. /\ DOMAIN fs = 1..(Len(es) + 1) /\ DOMAIN es = 1..Len(es) /\ Len(es) \in Nat
      /\ \A i \in 1..Len(es) : fs[i] = es[i]
      /\ fs[Len(es) + 1] = x
  BY AppendFacts, LenProperties
<1>2. LinesHold(fs)
  OBVIOUS
<1> HIDE DEF fs
<1>3. /\ \A i \in 1..Len(es) : i \in DOMAIN fs /\ i # Len(es) + 1
      /\ Len(es) + 1 \in DOMAIN fs
  BY <1>1
<1>4. LinesHold(es)
  BY <1>1, <1>2, <1>3 DEF LinesHold
<1>5. x # Torn
  BY <1>1, <1>2, <1>3 DEF LinesHold
<1>6. \A i \in 1..Len(es) : es[i].id # x.id
  BY <1>1, <1>2, <1>3 DEF LinesHold
<1>7. QED
  BY <1>1, <1>4, <1>5, <1>6 DEF IdsIn

LEMMA PrefixFacts ==
  ASSUME NEW S, NEW es \in Seq(S), NEW n \in 0..Len(es)
  PROVE  /\ SubSeq(es, 1, n) \in Seq(S) /\ Len(SubSeq(es, 1, n)) = n
         /\ \A i \in 1..n : SubSeq(es, 1, n)[i] = es[i]
         /\ ToSet(SubSeq(es, 1, n)) = {es[i] : i \in 1..n}
<1>1. \A i \in 1..n : es[i] \in S
  OBVIOUS
<1>2. /\ SubSeq(es, 1, n) \in Seq(S) /\ Len(SubSeq(es, 1, n)) = n
      /\ \A i \in 1..n : SubSeq(es, 1, n)[i] = es[i]
  BY <1>1
<1>3. DOMAIN SubSeq(es, 1, n) = 1..n
  BY <1>2
<1>4. QED
  BY <1>2, <1>3 DEF ToSet

LEMMA PrefixOfAppend ==
  ASSUME NEW S, NEW es \in Seq(S), NEW x \in S, NEW n \in 0..Len(es)
  PROVE  /\ SubSeq(Append(es, x), 1, n) = SubSeq(es, 1, n)
         /\ SubSeq(es, 1, Len(es)) = es
<1> DEFINE fs == Append(es, x)
<1>1. fs \in Seq(S) /\ n \in 0..Len(fs) /\ Len(es) \in Nat
      /\ \A i \in 1..n : fs[i] = es[i]
  BY AppendFacts, LenProperties
<1> HIDE DEF fs
<1>2. /\ SubSeq(fs, 1, n) \in Seq(S) /\ Len(SubSeq(fs, 1, n)) = n
      /\ \A i \in 1..n : SubSeq(fs, 1, n)[i] = fs[i]
  BY <1>1, PrefixFacts
<1>3. /\ SubSeq(es, 1, n) \in Seq(S) /\ Len(SubSeq(es, 1, n)) = n
      /\ \A i \in 1..n : SubSeq(es, 1, n)[i] = es[i]
  BY PrefixFacts
<1>4. SubSeq(fs, 1, n) = SubSeq(es, 1, n)
  BY <1>1, <1>2, <1>3, SeqEqual
<1>5. QED
  BY <1>4, SubSeqFull DEF fs

(* A sequence that is one longer than its prefix is the prefix and a line. *)
LEMMA PrefixAndLast ==
  ASSUME NEW S, NEW es \in Seq(S), NEW n \in Nat, n + 1 = Len(es)
  PROVE  es = Append(SubSeq(es, 1, n), es[n + 1]) /\ es[n + 1] \in S
<1> DEFINE fs == SubSeq(es, 1, n)
<1>1. fs \in Seq(S) /\ Len(fs) = n /\ \A i \in 1..n : fs[i] = es[i]
  BY PrefixFacts
<1>2. es[n + 1] \in S
  BY ElementOfSeq
<1> HIDE DEF fs
<1>3. /\ Append(fs, es[n + 1]) \in Seq(S) /\ Len(Append(fs, es[n + 1])) = n + 1
      /\ \A i \in 1..n : Append(fs, es[n + 1])[i] = es[i]
      /\ Append(fs, es[n + 1])[n + 1] = es[n + 1]
  BY <1>1, <1>2, AppendProperties
<1>4. es = Append(fs, es[n + 1])
  BY <1>3, SeqEqual
<1>5. QED
  BY <1>2, <1>4 DEF fs

LEMMA DerivedType ==
  ASSUME NEW es \in Seq(AnyEntry)
  PROVE  /\ IdsIn(es) \in SUBSET Ids
         /\ Derived(es) \in [IdsIn(es) -> Ids \X Bodies]
         /\ DOMAIN Derived(es) = IdsIn(es)
         /\ Derived(es) # Missing
<1>1. \A i \in DOMAIN es : es[i] \in AnyEntry
  OBVIOUS
<1>2. IdsIn(es) \in SUBSET Ids
  BY <1>1 DEF IdsIn, AnyEntry
<1>3. ASSUME NEW id \in IdsIn(es)
      PROVE  es[CHOOSE i \in DOMAIN es : es[i].id = id].hash \in Ids \X Bodies
  BY <1>1 DEF IdsIn, AnyEntry
<1>4. Derived(es) \in [IdsIn(es) -> Ids \X Bodies]
  BY <1>3 DEF Derived
<1>5. QED
  BY <1>2, <1>4, ResultsStoreAssumption

(* The entries of lines that hold are known by their ids.                  *)
LEMMA OneEntryPerId ==
  ASSUME NEW es, LinesHold(es), NEW e \in ToSet(es), NEW f \in ToSet(es), e.id = f.id
  PROVE  e = f
  BY DEF LinesHold, ToSet

LEMMA IdsOfSet ==
  ASSUME NEW es
  PROVE  IdsIn(es) = {e.id : e \in ToSet(es)}
  BY DEF IdsIn, ToSet

(* Lines that hold are entries, none of them cut short.                    *)
LEMMA HoldingLines ==
  ASSUME NEW es \in Seq(AnyLine), LinesHold(es)
  PROVE  es \in Seq(AnyEntry)
<1>1. \A i \in 1..Len(es) : es[i] \in AnyEntry
  BY DEF LinesHold, AnyLine
<1>2. es \in [1..Len(es) -> AnyEntry] /\ Len(es) \in Nat
  BY <1>1, LenProperties
<1>3. QED
  BY <1>2, SeqDef

LEMMA TornFails ==
  ASSUME NEW es, Torn \in ToSet(es)
  PROVE  ~LinesHold(es)
  BY DEF LinesHold, ToSet

LEMMA RemoveAtFacts ==
  ASSUME NEW S, NEW es \in Seq(S), NEW i \in 1..Len(es)
  PROVE  /\ RemoveAt(es, i) \in Seq(S)
         /\ ToSet(RemoveAt(es, i)) = {es[j] : j \in (1..Len(es)) \ {i}}
<1> DEFINE fs == SubSeq(es, 1, i - 1)
           gs == SubSeq(es, i + 1, Len(es))
           hs == fs \o gs
           n  == Len(es)
<1>1. n \in Nat /\ i - 1 \in 0..n /\ i \in Int
  BY LenProperties
<1>2. /\ fs \in Seq(S) /\ Len(fs) = i - 1
      /\ \A j \in 1..(i - 1) : fs[j] = es[j]
  BY <1>1, PrefixFacts
<1>3. /\ gs \in Seq(S) /\ Len(gs) = n - i
      /\ \A j \in 1..(n - i) : gs[j] = es[i + j]
  <2>1. \A j \in (i + 1)..n : es[j] \in S
    BY <1>1, ElementOfSeq
  <2>2. /\ gs \in Seq(S)
        /\ Len(gs) = IF i + 1 <= n THEN n - (i + 1) + 1 ELSE 0
        /\ \A j \in 1..(n - (i + 1) + 1) : gs[j] = es[(i + 1) + j - 1]
    BY <1>1, <2>1, SubSeqProperties, SMTT(30)
  <2> HIDE DEF gs
  <2>3. QED
    BY <1>1, <2>2
<1> HIDE DEF fs, gs
<1>4. /\ hs \in Seq(S) /\ Len(hs) = n - 1
      /\ \A j \in 1..(n - 1) : hs[j] = IF j <= i - 1 THEN fs[j] ELSE gs[j - (i - 1)]
  <2>1. /\ hs \in Seq(S) /\ Len(hs) = Len(fs) + Len(gs)
        /\ \A j \in 1..(Len(fs) + Len(gs)) :
             hs[j] = IF j <= Len(fs) THEN fs[j] ELSE gs[j - Len(fs)]
    BY <1>2, <1>3, ConcatProperties
  <2>2. Len(fs) + Len(gs) = n - 1 /\ Len(fs) = i - 1
    BY <1>1, <1>2, <1>3
  <2> HIDE DEF hs, n
  <2>3. QED
    BY <2>1, <2>2
<1> HIDE DEF hs
<1>5. \A j \in 1..(n - 1) : hs[j] = IF j <= i - 1 THEN es[j] ELSE es[j + 1]
  <2> SUFFICES ASSUME NEW j \in 1..(n - 1)
               PROVE  hs[j] = IF j <= i - 1 THEN es[j] ELSE es[j + 1]
    OBVIOUS
  <2>1. CASE j <= i - 1
    BY <1>1, <1>2, <1>4, <2>1
  <2>2. CASE ~(j <= i - 1)
    <3>1. j - (i - 1) \in 1..(n - i) /\ i + (j - (i - 1)) = j + 1
      BY <1>1, <2>2
    <3>2. QED
      BY <1>3, <1>4, <2>2, <3>1
  <2>3. QED
    BY <2>1, <2>2
<1>6. DOMAIN hs = 1..(n - 1)
  BY <1>4, LenProperties
<1>7. ASSUME NEW x \in ToSet(hs) PROVE x \in {es[j] : j \in (1..n) \ {i}}
  <2>1. PICK j \in 1..(n - 1) : x = hs[j]
    BY <1>6 DEF ToSet
  <2>2. j \in (1..n) \ {i} \/ ~(j <= i - 1)
    BY <1>1
  <2>3. ~(j <= i - 1) => j + 1 \in (1..n) \ {i}
    BY <1>1
  <2>4. QED
    BY <1>5, <2>1, <2>2, <2>3
<1>8. ASSUME NEW j \in (1..n) \ {i} PROVE es[j] \in ToSet(hs)
  <2>1. CASE j <= i - 1
    <3>1. j \in 1..(n - 1)
      BY <1>1, <2>1
    <3>2. QED
      BY <1>5, <1>6, <2>1, <3>1 DEF ToSet
  <2>2. CASE ~(j <= i - 1)
    <3>1. j - 1 \in 1..(n - 1) /\ ~(j - 1 <= i - 1) /\ (j - 1) + 1 = j
      BY <1>1, <2>2
    <3>2. hs[j - 1] = es[j]
      BY <1>5, <3>1
    <3>3. QED
      BY <1>6, <3>1, <3>2 DEF ToSet
  <2>3. QED
    BY <2>1, <2>2
<1>9. ToSet(hs) = {es[j] : j \in (1..n) \ {i}}
  BY <1>7, <1>8
<1>10. QED
  BY <1>4, <1>9 DEF RemoveAt, hs, fs, gs

LEMMA ReverseFacts ==
  ASSUME NEW S, NEW es \in Seq(S)
  PROVE  Reverse(es) \in Seq(S) /\ ToSet(Reverse(es)) = ToSet(es)
<1> DEFINE n == Len(es)
           fs == Reverse(es)
<1>1. n \in Nat /\ DOMAIN es = 1..n /\ \A i \in 1..n : es[i] \in S
  BY LenProperties, ElementOfSeq
<1>2. \A i \in 1..n : n - i + 1 \in 1..n
  BY <1>1
<1>3. fs \in [1..n -> S] /\ \A i \in 1..n : fs[i] = es[n - i + 1]
  BY <1>1, <1>2 DEF Reverse
<1>4. fs \in Seq(S)
  BY <1>1, <1>3, SeqDef
<1>5. DOMAIN fs = 1..n
  BY <1>3
<1> HIDE DEF fs
<1>6. \A x \in ToSet(fs) : x \in ToSet(es)
  BY <1>1, <1>2, <1>3, <1>5 DEF ToSet
<1>7. ASSUME NEW i \in 1..n PROVE es[i] \in ToSet(fs)
  <2>1. n - i + 1 \in 1..n /\ n - (n - i + 1) + 1 = i
    BY <1>1
  <2>2. fs[n - i + 1] = es[i]
    BY <1>3, <2>1
  <2>3. QED
    BY <1>5, <2>1, <2>2 DEF ToSet
<1>8. ToSet(fs) = ToSet(es)
  BY <1>1, <1>6, <1>7 DEF ToSet
<1>9. QED
  BY <1>4, <1>8 DEF fs

(* A line with another body has a hash that is not its own.                *)
LEMMA RewordFacts ==
  ASSUME NEW es \in Seq(AnyLine), NEW i \in DOMAIN es, es[i] # Torn, NEW b \in Bodies
  PROVE  /\ [es EXCEPT ![i].body = b] \in Seq(AnyLine)
         /\ LinesHold(es) /\ [es EXCEPT ![i].body = b] # es
              => ~LinesHold([es EXCEPT ![i].body = b])
         /\ Torn \in ToSet(es) => Torn \in ToSet([es EXCEPT ![i].body = b])
<1> DEFINE e == es[i]
           x == [e EXCEPT !.body = b]
           fs == [es EXCEPT ![i] = x]
<1>1. DOMAIN es = 1..Len(es) /\ Len(es) \in Nat
  BY LenProperties
<1>2. e \in AnyEntry
  BY DEF AnyLine
<1>3. /\ x \in AnyEntry /\ x.body = b /\ x.id = e.id /\ x.hash = e.hash
      /\ b = e.body => x = e
  BY <1>2 DEF AnyEntry
<1>4. [es EXCEPT ![i].body = b] = fs
  OBVIOUS
<1> HIDE DEF x
<1>5. /\ fs \in Seq(AnyLine) /\ DOMAIN fs = DOMAIN es /\ fs[i] = x
      /\ \A j \in DOMAIN es : j # i => fs[j] = es[j]
  BY <1>1, <1>3, ExceptSeq DEF AnyLine
<1>6. fs # es => x # e
  OBVIOUS
<1> HIDE DEF fs
<1>7. ASSUME LinesHold(es), fs # es PROVE ~LinesHold(fs)
  <2>1. e.hash = HashOf(e.id, e.body)
    BY <1>7 DEF LinesHold
  <2>2. b # e.body
    BY <1>3, <1>6, <1>7
  <2>3. x.hash # HashOf(x.id, x.body)
    BY <1>3, <2>1, <2>2 DEF HashOf
  <2>4. QED
    BY <1>5, <2>3 DEF LinesHold
<1>8. ASSUME Torn \in ToSet(es) PROVE Torn \in ToSet(fs)
  <2>1. PICK j \in DOMAIN es : es[j] = Torn
    BY <1>8 DEF ToSet
  <2>2. j # i
    BY <2>1
  <2>3. fs[j] = Torn
    BY <1>5, <2>1, <2>2, SMTT(30)
  <2>4. QED
    BY <1>5, <2>3 DEF ToSet
<1>9. QED
  BY <1>4, <1>5, <1>7, <1>8

-----------------------------------------------------------------------------
(* The inductive invariant.  What may be there after one edit is told by   *)
(* the entries that writes began and those whose write has returned: lines *)
(* that do not hold by themselves; lines between the two, whatever the     *)
(* index; or lines the index does not fit, because it names an entry that  *)
(* is gone or leaves out one that was added.  The writer goes on from      *)
(* memory and cannot mend any of these.                                    *)

Done == SubSeq(begun, 1, returned)

Between(es, done, all) == ToSet(done) \subseteq ToSet(es) /\ ToSet(es) \subseteq ToSet(all)

Accounted(es, ix, done, all) ==
  \/ ~LinesHold(es)
  \/ Between(es, done, all)
  \/ ix # Missing /\ \E e \in ToSet(done) : e.id \in DOMAIN ix \ IdsIn(es)
  \/ ix # Missing /\ DOMAIN ix \subseteq IdsIn(all) /\ ~(IdsIn(es) \subseteq IdsIn(all))

StoreType ==
  /\ exists \in BOOLEAN
  /\ lines \in Seq(AnyLine) /\ memory \in Seq(AnyEntry) /\ begun \in Seq(AnyEntry)
  /\ index # Missing => \E S \in SUBSET Ids : index \in [S -> Ids \X Bodies]
  /\ writer \in {"none", "idle", "appended", "dead"}
  /\ reader \in {"none", "open", "refused"}
  /\ edits \in 0..MaxEdits
  /\ returned \in Nat
  /\ IsFiniteSet(IdsIn(memory)) /\ Len(memory) = Cardinality(IdsIn(memory))

WriteInv ==
  /\ writer = "none" =>
       /\ ~exists /\ index = Missing /\ begun = <<>> /\ memory = <<>>
       /\ returned = 0 /\ edits = 0 /\ reader = "none"
  /\ ~exists => lines = <<>>
  /\ writer = "idle" => memory = begun /\ returned = Len(begun)
  /\ writer = "appended" =>
       memory = begun /\ returned + 1 = Len(begun) /\ reader = "none"
  /\ returned = Len(begun) \/ returned + 1 = Len(begun)
  /\ LinesHold(begun)

LineInv ==
  /\ edits = 0 /\ writer # "none" =>
       /\ index = Derived(Done)
       /\ exists <=> begun # <<>>
       /\ \/ lines = begun
          \/ lines = Append(Done, Torn) /\ returned + 1 = Len(begun) /\ writer = "dead"
  /\ edits = 1 => Accounted(lines, index, Done, begun)
  /\ edits <= 1 /\ reader = "open" => Between(seen, Done, begun)

StoreInv == StoreType /\ WriteInv /\ LineInv

LEMMA DoneFacts ==
  ASSUME StoreType, WriteInv
  PROVE  /\ returned \in 0..Len(begun) /\ Len(begun) \in Nat
         /\ Done \in Seq(AnyEntry) /\ Len(Done) = returned
         /\ \A i \in 1..returned : Done[i] = begun[i]
         /\ ToSet(Done) = {begun[i] : i \in 1..returned}
         /\ ToSet(begun) = {begun[i] : i \in 1..Len(begun)}
         /\ ToSet(Done) \subseteq ToSet(begun)
         /\ IdsIn(Done) \subseteq IdsIn(begun)
         /\ returned = Len(begun) => Done = begun
<1>1. Len(begun) \in Nat /\ returned \in 0..Len(begun) /\ DOMAIN begun = 1..Len(begun)
  BY LenProperties DEF StoreType, WriteInv
<1>2. /\ Done \in Seq(AnyEntry) /\ Len(Done) = returned
      /\ \A i \in 1..returned : Done[i] = begun[i]
      /\ ToSet(Done) = {begun[i] : i \in 1..returned}
  BY <1>1, PrefixFacts DEF StoreType, Done
<1>3. ToSet(begun) = {begun[i] : i \in 1..Len(begun)}
  BY <1>1 DEF ToSet
<1>4. ToSet(Done) \subseteq ToSet(begun)
  BY <1>1, <1>2, <1>3
<1>5. IdsIn(Done) \subseteq IdsIn(begun)
  BY <1>4, IdsOfSet
<1>6. returned = Len(begun) => Done = begun
  BY SubSeqFull DEF StoreType, Done
<1>7. QED
  BY <1>1, <1>2, <1>3, <1>4, <1>5, <1>6

LEMMA StoreInvInit == Init => StoreInv
<1> SUFFICES ASSUME Init PROVE StoreInv
  OBVIOUS
<1>1. IdsIn(<<>>) = {} /\ Len(<<>>) = 0
  BY DEF IdsIn
<1>2. IsFiniteSet({}) /\ Cardinality({}) = 0
  BY FS_EmptySet
<1>3. <<>> \in Seq(AnyLine) /\ <<>> \in Seq(AnyEntry)
  OBVIOUS
<1>4. StoreType
  <2>1. edits \in 0..MaxEdits /\ returned \in Nat
    BY ResultsStoreAssumption DEF Init
  <2>2. IsFiniteSet(IdsIn(memory)) /\ Len(memory) = Cardinality(IdsIn(memory))
    BY <1>1, <1>2 DEF Init
  <2>3. QED
    BY <1>3, <2>1, <2>2 DEF Init, StoreType
<1>5. LinesHold(<<>>)
  BY DEF LinesHold
<1>6. WriteInv
  BY <1>1, <1>5 DEF Init, WriteInv
<1>7. LineInv
  BY DEF Init, LineInv
<1>8. QED
  BY <1>4, <1>6, <1>7 DEF StoreInv

(* A replay that accepts has read lines that hold and an index that, if it *)
(* is there, names the same ids.                                           *)
LEMMA AcceptedLines ==
  ASSUME StoreType, WriteInv, ReplayAccepts
  PROVE  /\ LinesHold(lines) /\ lines \in Seq(AnyEntry)
         /\ index # Missing => exists /\ index = Derived(lines) /\ DOMAIN index = IdsIn(lines)
<1>1. LinesHold(lines)
  BY DEF ReplayAccepts, WriteInv, LinesHold
<1>2. lines \in Seq(AnyEntry)
  BY <1>1, HoldingLines DEF StoreType
<1>3. QED
  BY <1>1, <1>2, DerivedType DEF ReplayAccepts

-----------------------------------------------------------------------------
(* One edit.                                                               *)

(* An edit of the lines leaves lines that the accounts cover.              *)
LEMMA EditedLines ==
  ASSUME StoreInv, edits = 0, writer # "none", NEW es \in LineEdits \ {lines}
  PROVE  es \in Seq(AnyLine) /\ Accounted(es, index, Done, begun)
<1> USE DEF StoreInv
<1>1. /\ lines \in Seq(AnyLine) /\ begun \in Seq(AnyEntry) /\ begun \in Seq(AnyLine)
      /\ LinesHold(begun) /\ DOMAIN begun = 1..Len(begun)
  <2>1. AnyEntry \subseteq AnyLine
    BY DEF AnyLine
  <2>2. QED
    BY <2>1, SeqMonotonic, LenProperties DEF StoreType, WriteInv
<1>2. /\ Done \in Seq(AnyEntry) /\ Done \in Seq(AnyLine) /\ returned \in 0..Len(begun)
      /\ Len(Done) = returned /\ Len(begun) \in Nat
      /\ ToSet(Done) = {begun[i] : i \in 1..returned}
      /\ ToSet(begun) = {begun[i] : i \in 1..Len(begun)}
      /\ ToSet(Done) \subseteq ToSet(begun)
      /\ IdsIn(Done) \subseteq IdsIn(begun)
  <2>1. AnyEntry \subseteq AnyLine
    BY DEF AnyLine
  <2>2. QED
    BY <2>1, DoneFacts, SeqMonotonic
<1>3. index # Missing /\ DOMAIN index = IdsIn(Done)
  BY <1>2, DerivedType DEF LineInv
<1>4. \/ lines = begun
      \/ lines = Append(Done, Torn) /\ returned + 1 = Len(begun)
  BY DEF LineInv
<1>5. returned = Len(begun) \/ returned + 1 = Len(begun)
  BY DEF WriteInv
<1>6. Torn \in AnyLine
  BY DEF AnyLine
<1>7. lines = Append(Done, Torn) =>
        /\ Torn \in ToSet(lines) /\ Len(lines) = returned + 1
        /\ \A j \in 1..returned : lines[j] = Done[j]
        /\ lines[returned + 1] = Torn
        /\ DOMAIN lines = 1..(returned + 1)
  BY <1>1, <1>2, <1>6, AppendFacts, LenProperties
<1>8. ASSUME NEW i \in DOMAIN lines, es = RemoveAt(lines, i)
      PROVE  es \in Seq(AnyLine) /\ Accounted(es, index, Done, begun)
  <2>1. i \in 1..Len(lines) /\ DOMAIN lines = 1..Len(lines)
    BY <1>1, <1>8, LenProperties
  <2>2. es \in Seq(AnyLine) /\ ToSet(es) = {lines[j] : j \in (1..Len(lines)) \ {i}}
    BY <1>1, <1>8, <2>1, RemoveAtFacts
  <2>3. CASE lines = begun /\ i \in 1..returned
    <3> DEFINE e == begun[i]
    <3>1. e \in ToSet(Done) /\ e.id \in IdsIn(Done)
      BY <1>2, <2>3, IdsOfSet
    <3>2. \A j \in (1..Len(begun)) \ {i} : begun[j].id # e.id
      BY <1>1, <1>2, <2>3 DEF LinesHold
    <3>3. e.id \notin IdsIn(es)
      BY <2>2, <2>3, <3>2, IdsOfSet
    <3> HIDE DEF e
    <3>4. QED
      BY <1>3, <2>2, <3>1, <3>3 DEF Accounted
  <2>4. CASE lines = begun /\ i \notin 1..returned
    <3>1. (1..Len(begun)) \ {i} = 1..returned
      BY <1>2, <1>5, <2>1, <2>4
    <3>2. ToSet(es) = ToSet(Done)
      BY <1>2, <2>2, <2>4, <3>1, SMTT(30)
    <3>3. QED
      BY <1>2, <2>2, <3>2 DEF Accounted, Between
  <2>5. CASE lines = Append(Done, Torn) /\ i \in 1..returned
    <3>1. Torn \in ToSet(es)
      BY <1>2, <1>7, <2>2, <2>5
    <3>2. QED
      BY <2>2, <3>1, TornFails DEF Accounted
  <2>6. CASE lines = Append(Done, Torn) /\ i \notin 1..returned
    <3>1. (1..Len(lines)) \ {i} = 1..returned
      BY <1>2, <1>7, <2>1, <2>6
    <3>2. \A j \in 1..returned : lines[j] = begun[j]
      BY <1>7, <2>6, DoneFacts
    <3>3. ToSet(es) = ToSet(Done)
      BY <1>2, <2>2, <3>1, <3>2, SMTT(30)
    <3>4. QED
      BY <1>2, <2>2, <3>3 DEF Accounted, Between
  <2>7. QED
    BY <1>4, <2>3, <2>4, <2>5, <2>6
<1>9. ASSUME NEW i \in DOMAIN lines, lines[i] # Torn, NEW b \in Bodies,
             es = [lines EXCEPT ![i].body = b]
      PROVE  es \in Seq(AnyLine) /\ Accounted(es, index, Done, begun)
  <2>1. es \in Seq(AnyLine) /\ (LinesHold(lines) => ~LinesHold(es))
        /\ (Torn \in ToSet(lines) => Torn \in ToSet(es))
    BY <1>1, <1>9, RewordFacts
  <2>2. ~LinesHold(es)
    BY <1>1, <1>4, <1>7, <2>1, TornFails
  <2>3. QED
    BY <2>1, <2>2 DEF Accounted
<1>10. ASSUME NEW id \in Ids, NEW b \in Bodies, es = Append(lines, Entry(id, b))
       PROVE  es \in Seq(AnyLine) /\ Accounted(es, index, Done, begun)
  <2> DEFINE x == Entry(id, b)
  <2>1. x \in AnyLine /\ x.id = id
    BY DEF Entry, AnyEntry, AnyLine, HashOf
  <2> HIDE DEF x
  <2>2. /\ es \in Seq(AnyLine) /\ ToSet(es) = ToSet(lines) \cup {x}
        /\ IdsIn(es) = IdsIn(lines) \cup {id}
    BY <1>1, <1>10, <2>1, AppendFacts DEF x
  <2>3. CASE lines = begun /\ id \in IdsIn(begun)
    <3>1. es = Append(begun, x) /\ x.id \in IdsIn(begun)
      BY <1>10, <2>1, <2>3 DEF x
    <3>2. ~LinesHold(Append(begun, x))
      BY <1>1, <2>1, <3>1, HoldsPrefix
    <3>3. QED
      BY <2>2, <3>1, <3>2 DEF Accounted
  <2>4. CASE lines = begun /\ id \notin IdsIn(begun)
    BY <1>2, <1>3, <2>2, <2>4 DEF Accounted
  <2>5. CASE lines = Append(Done, Torn)
    BY <1>7, <2>2, <2>5, TornFails DEF Accounted
  <2>6. QED
    BY <1>4, <2>3, <2>4, <2>5
<1>11. CASE es = Reverse(lines)
  <2>1. es \in Seq(AnyLine) /\ ToSet(es) = ToSet(lines)
    BY <1>1, <1>11, ReverseFacts
  <2>2. CASE lines = begun
    BY <1>2, <2>1, <2>2 DEF Accounted, Between
  <2>3. CASE lines = Append(Done, Torn)
    BY <1>7, <2>1, <2>3, TornFails DEF Accounted
  <2>4. QED
    BY <1>4, <2>2, <2>3
<1>12. CASE es = <<>>
  <2>1. es \in Seq(AnyLine) /\ ToSet(es) = {} /\ IdsIn(es) = {}
    BY <1>12 DEF ToSet, IdsIn
  <2>2. CASE ToSet(Done) = {}
    BY <2>1, <2>2 DEF Accounted, Between
  <2>3. CASE ToSet(Done) # {}
    <3>1. PICK e \in ToSet(Done) : e.id \in IdsIn(Done)
      BY <2>3, IdsOfSet
    <3>2. QED
      BY <1>3, <2>1, <3>1 DEF Accounted
  <2>4. QED
    BY <2>2, <2>3
<1>13. QED
  BY <1>8, <1>9, <1>10, <1>11, <1>12 DEF LineEdits

(* The same of lines that are all removed, and of an index that is edited. *)
LEMMA NoLinesAccounted ==
  ASSUME StoreInv, edits = 0, writer # "none"
  PROVE  Accounted(<<>>, index, Done, begun)
<1>1. ToSet(<<>>) = {} /\ IdsIn(<<>>) = {}
  BY DEF ToSet, IdsIn
<1>2. index # Missing /\ DOMAIN index = IdsIn(Done)
  BY DoneFacts, DerivedType DEF LineInv, StoreInv
<1>3. CASE ToSet(Done) = {}
  BY <1>1, <1>3 DEF Accounted, Between
<1>4. CASE ToSet(Done) # {}
  <2>1. PICK e \in ToSet(Done) : e.id \in IdsIn(Done)
    BY <1>4, IdsOfSet
  <2>2. QED
    BY <1>1, <1>2, <2>1 DEF Accounted
<1>5. QED
  BY <1>3, <1>4

LEMMA UneditedLines ==
  ASSUME StoreInv, edits = 0, writer # "none"
  PROVE  \A ix : Accounted(lines, ix, Done, begun)
<1>1. CASE lines = begun
  BY <1>1, DoneFacts DEF StoreInv, Accounted, Between
<1>2. CASE lines = Append(Done, Torn)
  <2>1. Done \in Seq(AnyLine) /\ Torn \in AnyLine
    <3>1. AnyEntry \subseteq AnyLine
      BY DEF AnyLine
    <3>2. QED
      BY <3>1, DoneFacts, SeqMonotonic DEF AnyLine, StoreInv
  <2>2. Torn \in ToSet(lines)
    BY <1>2, <2>1, AppendFacts
  <2>3. QED
    BY <2>2, TornFails DEF Accounted
<1>3. QED
  BY <1>1, <1>2 DEF StoreInv, LineInv

LEMMA EditsKeepType ==
  ASSUME StoreType, NEW es \in LineEdits
  PROVE  es \in Seq(AnyLine)
<1>1. lines \in Seq(AnyLine) /\ DOMAIN lines = 1..Len(lines)
  BY LenProperties DEF StoreType
<1>2. ASSUME NEW id \in Ids, NEW b \in Bodies
      PROVE  Append(lines, Entry(id, b)) \in Seq(AnyLine)
  <2>1. Entry(id, b) \in AnyLine
    BY DEF Entry, AnyEntry, AnyLine, HashOf
  <2>2. QED
    BY <1>1, <2>1, AppendFacts
<1>3. \A i \in DOMAIN lines : RemoveAt(lines, i) \in Seq(AnyLine)
  BY <1>1, RemoveAtFacts
<1>4. \A i \in DOMAIN lines, b \in Bodies :
        lines[i] # Torn => [lines EXCEPT ![i].body = b] \in Seq(AnyLine)
  BY <1>1, RewordFacts
<1>5. Reverse(lines) \in Seq(AnyLine) /\ <<>> \in Seq(AnyLine)
  BY <1>1, ReverseFacts
<1>6. \/ \E i \in DOMAIN lines : es = RemoveAt(lines, i)
      \/ \E i \in DOMAIN lines, b \in Bodies :
           lines[i] # Torn /\ es = [lines EXCEPT ![i].body = b]
      \/ \E id \in Ids, b \in Bodies : es = Append(lines, Entry(id, b))
      \/ es = Reverse(lines) \/ es = <<>>
  BY DEF LineEdits
<1>7. QED
  BY <1>2, <1>3, <1>4, <1>5, <1>6

LEMMA EditStoreInv == StoreInv /\ Edit => StoreInv'
<1> SUFFICES ASSUME StoreInv, Edit PROVE StoreInv'
  OBVIOUS
<1> USE DEF StoreInv
<1>1. /\ writer # "none" /\ edits' = edits + 1 /\ edits' \in 0..MaxEdits
      /\ UNCHANGED <<writer, memory, reader, seen, begun, returned>>
      /\ edits \in Nat
  BY ResultsStoreAssumption DEF Edit, StoreType
<1>2. /\ exists' \in BOOLEAN /\ lines' \in Seq(AnyLine)
      /\ ~exists' => lines' = <<>>
      /\ index' # Missing => \E S \in SUBSET Ids : index' \in [S -> Ids \X Bodies]
      /\ edits = 0 => Accounted(lines', index', Done, begun)
  <2>1. CASE EditIndex
    <3>1. UNCHANGED <<exists, lines>>
      BY <2>1 DEF EditIndex
    <3>2. ASSUME index' # Missing
          PROVE  \E S \in SUBSET Ids : index' \in [S -> Ids \X Bodies]
      <4>1. PICK S \in SUBSET Ids : index \in [S -> Ids \X Bodies]
        BY <2>1 DEF EditIndex, StoreType
      <4>2. PICK id \in DOMAIN index : index' = Restrict(index, DOMAIN index \ {id})
        BY <2>1, <3>2 DEF EditIndex
      <4>3. index' = [x \in S \ {id} |-> index[x]]
        BY <4>1, <4>2 DEF Restrict
      <4>4. \A x \in S \ {id} : index[x] \in Ids \X Bodies
        BY <4>1
      <4>5. index' \in [S \ {id} -> Ids \X Bodies]
        BY <4>3, <4>4
      <4>6. QED
        BY <4>5
    <3>3. edits = 0 => Accounted(lines, index', Done, begun)
      BY <1>1, UneditedLines
    <3>4. QED
      BY <3>1, <3>2, <3>3 DEF StoreType, WriteInv
  <2>2. CASE EditLines
    <3>1. index' = index
      BY <2>2 DEF EditLines
    <3>2. CASE exists' = FALSE /\ lines' = <<>>
      <4>1. edits = 0 => Accounted(lines', index', Done, begun)
        BY <1>1, <3>1, <3>2, NoLinesAccounted
      <4>2. lines' \in Seq(AnyLine)
        BY <3>2
      <4>3. QED
        BY <3>1, <3>2, <4>1, <4>2 DEF StoreType
    <3>3. ASSUME NEW es \in LineEdits \ {lines}, lines' = es, UNCHANGED exists, exists
          PROVE  /\ exists' \in BOOLEAN /\ lines' \in Seq(AnyLine)
                 /\ ~exists' => lines' = <<>>
                 /\ edits = 0 => Accounted(lines', index', Done, begun)
      <4>1. edits = 0 => Accounted(lines', index', Done, begun)
        BY <1>1, <3>1, <3>3, EditedLines
      <4>2. es \in Seq(AnyLine)
        BY <3>3, EditsKeepType
      <4>3. QED
        BY <3>3, <4>1, <4>2 DEF StoreType
    <3>4. QED
      BY <2>2, <3>1, <3>2, <3>3 DEF EditLines, StoreType
  <2>3. QED
    BY <2>1, <2>2 DEF Edit
<1>3. StoreType'
  BY <1>1, <1>2 DEF StoreType
<1>4. WriteInv'
  BY <1>1, <1>2 DEF WriteInv
<1>5. edits' # 0 /\ (edits' <= 1 => edits = 0)
  BY <1>1
<1>6. edits' = 1 => Accounted(lines, index, Done, begun)'
  BY <1>1, <1>2, <1>5 DEF Accounted, Between, Done
<1>7. edits' <= 1 /\ reader' = "open" => Between(seen, Done, begun)'
  BY <1>1, <1>5 DEF LineInv, Between, Done
<1>8. QED
  BY <1>3, <1>4, <1>5, <1>6, <1>7 DEF LineInv

-----------------------------------------------------------------------------
(* The steps of the objects.                                               *)

(* The entries a write has begun, with one more.                           *)
LEMMA OneMoreEntry ==
  ASSUME StoreType, WriteInv, writer = "idle",
         NEW id \in Ids, NEW b \in Bodies, id \notin IdsIn(memory),
         begun' = Append(begun, Entry(id, b)), returned' = returned
  PROVE  /\ Entry(id, b) \in AnyEntry /\ Entry(id, b).id = id
         /\ begun' \in Seq(AnyEntry) /\ Len(begun') = Len(begun) + 1
         /\ LinesHold(begun') /\ begun' # <<>>
         /\ ToSet(begun') = ToSet(begun) \cup {Entry(id, b)}
         /\ IdsIn(begun') = IdsIn(begun) \cup {id}
         /\ Done' = Done /\ memory = begun /\ Done = begun
         /\ returned + 1 = Len(begun')
         /\ id \notin IdsIn(begun)
<1> DEFINE x == Entry(id, b)
<1>1. x \in AnyEntry /\ x.id = id
  BY DEF Entry, AnyEntry, HashOf
<1>2. /\ memory = begun /\ returned = Len(begun) /\ begun \in Seq(AnyEntry)
      /\ LinesHold(begun) /\ Len(begun) \in Nat
  BY LenProperties DEF StoreType, WriteInv
<1>3. LinesHold(Append(begun, x))
  BY <1>2, HoldsAppend
<1> HIDE DEF x
<1>4. begun' = Append(begun, x)
  BY DEF x
<1>5. /\ begun' \in Seq(AnyEntry) /\ Len(begun') = Len(begun) + 1
      /\ ToSet(begun') = ToSet(begun) \cup {x}
      /\ IdsIn(begun') = IdsIn(begun) \cup {id}
  BY <1>1, <1>2, <1>4, AppendFacts
<1>6. begun' # <<>>
  BY <1>1, <1>2, <1>4, AppendProperties
<1>7. SubSeq(begun', 1, Len(begun)) = SubSeq(begun, 1, Len(begun))
  BY <1>1, <1>2, <1>4, PrefixOfAppend
<1>8. Done' = Done /\ Done = begun
  BY <1>2, <1>7, SubSeqFull DEF Done
<1>9. QED
  BY <1>1, <1>2, <1>3, <1>4, <1>5, <1>6, <1>8 DEF x

(* What one edit left stays accounted for when a line follows.             *)
LEMMA AppendAccounted ==
  ASSUME StoreType, WriteInv, writer = "idle",
         NEW id \in Ids, NEW b \in Bodies, id \notin IdsIn(memory),
         begun' = Append(begun, Entry(id, b)), returned' = returned,
         Accounted(lines, index, Done, begun)
  PROVE  Accounted(Append(lines, Entry(id, b)), index, Done, begun')
<1> DEFINE x == Entry(id, b)
           es == Append(lines, x)
<1>1. /\ x \in AnyLine /\ x.id = id
      /\ ToSet(begun') = ToSet(begun) \cup {x}
      /\ IdsIn(begun') = IdsIn(begun) \cup {id}
      /\ Done' = Done /\ id \notin IdsIn(begun) /\ Done = begun
  BY OneMoreEntry DEF AnyLine
<1> HIDE DEF x
<1>2. ToSet(es) = ToSet(lines) \cup {x} /\ IdsIn(es) = IdsIn(lines) \cup {id}
  BY <1>1, AppendFacts DEF StoreType
<1>3. LinesHold(es) => LinesHold(lines) /\ id \notin IdsIn(lines)
  BY <1>1, HoldsPrefix DEF StoreType
<1> HIDE DEF es
<1>4. Accounted(es, index, Done, begun')
  <2>1. CASE ~LinesHold(lines)
    BY <1>3, <2>1 DEF Accounted
  <2>2. CASE Between(lines, Done, begun)
    BY <1>1, <1>2, <2>2 DEF Between, Accounted
  <2>3. CASE index # Missing /\ \E e \in ToSet(Done) : e.id \in DOMAIN index \ IdsIn(lines)
    <3>1. PICK e \in ToSet(Done) : e.id \in DOMAIN index \ IdsIn(lines)
      BY <2>3
    <3>2. e.id # id
      BY <1>1, IdsOfSet
    <3>3. QED
      BY <1>2, <2>3, <3>1, <3>2 DEF Accounted
  <2>4. CASE /\ index # Missing /\ DOMAIN index \subseteq IdsIn(begun)
             /\ ~(IdsIn(lines) \subseteq IdsIn(begun))
    BY <1>1, <1>2, <1>3, <2>4 DEF Accounted
  <2>5. QED
    BY <2>1, <2>2, <2>3, <2>4 DEF Accounted
<1>5. QED
  BY <1>4 DEF es, x

(* A step that writes nothing and moves the writer only to its end.        *)
LEMMA RestStoreInv ==
  ASSUME StoreInv, UNCHANGED <<exists, lines, index, memory, history>>,
         writer' = writer \/ (writer # "none" /\ writer' = "dead"),
         reader' \in {"none", "open", "refused"},
         reader' # "none" => reader' = reader /\ seen' = seen /\ writer' = writer
  PROVE  StoreInv'
<1> USE DEF StoreInv, history
<1>1. StoreType'
  BY DEF StoreType
<1>2. WriteInv'
  BY DEF WriteInv
<1>3. Done' = Done
  BY DEF Done
<1>4. LineInv'
  BY <1>3 DEF LineInv
<1>5. QED
  BY <1>1, <1>2, <1>4

LEMMA OpenWriterStoreInv == StoreInv /\ OpenWriter => StoreInv'
<1> SUFFICES ASSUME StoreInv, OpenWriter PROVE StoreInv'
  OBVIOUS
<1> USE DEF StoreInv
<1>1. /\ ~exists /\ lines = <<>> /\ begun = <<>> /\ returned = 0 /\ edits = 0
      /\ reader = "none"
  BY DEF OpenWriter, WriteInv
<1>2. /\ memory' = <<>> /\ index' = Derived(<<>>) /\ writer' = "idle"
      /\ UNCHANGED <<exists, lines, reader, seen, begun, returned, edits>>
  BY <1>1 DEF OpenWriter, history
<1>3. /\ IdsIn(<<>>) = {} /\ Len(<<>>) = 0 /\ IsFiniteSet({}) /\ Cardinality({}) = 0
      /\ <<>> \in Seq(AnyEntry)
  BY FS_EmptySet DEF IdsIn
<1>4. index' # Missing => \E S \in SUBSET Ids : index' \in [S -> Ids \X Bodies]
  BY <1>2, <1>3, DerivedType
<1>5. IsFiniteSet(IdsIn(memory')) /\ Len(memory') = Cardinality(IdsIn(memory'))
  BY <1>2, <1>3
<1>6. StoreType'
  BY <1>2, <1>3, <1>4, <1>5 DEF StoreType
<1>7. WriteInv'
  BY <1>1, <1>2, <1>3 DEF WriteInv
<1>8. Done' = <<>>
  BY <1>1, <1>2, <1>6, <1>7, DoneFacts DEF Done, StoreType
<1>9. LineInv'
  BY <1>1, <1>2, <1>8 DEF LineInv
<1>10. QED
  BY <1>6, <1>7, <1>9

(* What an object that opens sees.                                         *)
LEMMA AcceptedIsBetween ==
  ASSUME StoreInv, writer # "none", ReplayAccepts, edits <= 1
  PROVE  Between(lines, Done, begun)
<1> USE DEF StoreInv
<1>1. /\ LinesHold(lines)
      /\ index # Missing => exists /\ index = Derived(lines) /\ DOMAIN index = IdsIn(lines)
  BY AcceptedLines
<1>2. CASE edits = 0
  <2>1. \A ix : Accounted(lines, ix, Done, begun)
    BY <1>2, UneditedLines
  <2>2. Accounted(lines, Missing, Done, begun)
    BY <2>1
  <2>3. QED
    BY <1>1, <2>2 DEF Accounted
<1>3. CASE edits = 1
  <2>1. Accounted(lines, index, Done, begun)
    BY <1>3 DEF LineInv
  <2>2. IdsIn(Done) \subseteq IdsIn(begun)
    BY DoneFacts
  <2>3. QED
    BY <1>1, <2>1, <2>2 DEF Accounted
<1>4. QED
  BY <1>2, <1>3 DEF StoreType

(* A store nobody edited is accepted only if every write has returned.     *)
LEMMA AcceptedIsComplete ==
  ASSUME StoreInv, writer # "none", edits = 0
  PROVE  ReplayAccepts <=> begun # <<>> /\ returned = Len(begun)
<1> USE DEF StoreInv
<1>1. /\ index = Derived(Done) /\ (exists <=> begun # <<>>)
      /\ \/ lines = begun
         \/ lines = Append(Done, Torn) /\ returned + 1 = Len(begun)
  BY DEF LineInv
<1>2. index # Missing /\ DOMAIN index = IdsIn(Done)
  BY <1>1, DoneFacts, DerivedType
<1>3. returned = Len(begun) => Done = begun
  BY DoneFacts
<1>4. ASSUME begun # <<>>, returned = Len(begun) PROVE ReplayAccepts
  <2>1. lines = begun /\ LinesHold(begun)
    BY <1>1, <1>4, DoneFacts DEF WriteInv
  <2>2. QED
    BY <1>1, <1>3, <1>4, <2>1 DEF ReplayAccepts
<1>5. ASSUME ReplayAccepts PROVE begun # <<>> /\ returned = Len(begun)
  <2>1. exists /\ LinesHold(lines) /\ index = Derived(lines) /\ lines \in Seq(AnyEntry)
    BY <1>2, <1>5, AcceptedLines
  <2>2. IdsIn(lines) = IdsIn(Done)
    BY <1>2, <2>1, DerivedType
  <2>3. lines = begun
    <3>1. ~LinesHold(Append(Done, Torn))
      <4>1. Done \in Seq(AnyLine) /\ Torn \in AnyLine
        <5>1. AnyEntry \subseteq AnyLine
          BY DEF AnyLine
        <5>2. QED
          BY <5>1, DoneFacts, SeqMonotonic DEF AnyLine
      <4>2. QED
        BY <4>1, HoldsPrefix
    <3>2. QED
      BY <1>1, <2>1, <3>1
  <2>4. ~(returned + 1 = Len(begun))
    <3>1. SUFFICES ASSUME returned + 1 = Len(begun) PROVE FALSE
      OBVIOUS
    <3>2. /\ begun = Append(Done, begun[returned + 1])
          /\ begun[returned + 1] \in AnyEntry
      BY <3>1, PrefixAndLast DEF StoreType, Done
    <3>3. /\ Done \in Seq(AnyLine) /\ begun[returned + 1] \in AnyLine
          /\ LinesHold(begun)
      <4>1. AnyEntry \subseteq AnyLine
        BY DEF AnyLine
      <4>2. QED
        BY <3>2, <4>1, DoneFacts, SeqMonotonic DEF WriteInv
    <3>4. begun[returned + 1].id \notin IdsIn(Done)
      BY <3>2, <3>3, HoldsPrefix, ZenonT(60)
    <3>5. begun[returned + 1].id \in IdsIn(begun)
      <4>1. Len(begun) \in Nat /\ DOMAIN begun = 1..Len(begun) /\ returned \in Nat
        BY LenProperties DEF StoreType
      <4>2. QED
        BY <3>1, <4>1 DEF IdsIn
    <3>6. QED
      BY <2>2, <2>3, <3>4, <3>5
  <2>5. QED
    BY <1>1, <2>1, <2>4 DEF WriteInv
<1>6. QED
  BY <1>4, <1>5

LEMMA OpenReaderStoreInv == StoreInv /\ OpenReader => StoreInv'
<1> SUFFICES ASSUME StoreInv, OpenReader PROVE StoreInv'
  OBVIOUS
<1> USE DEF StoreInv
<1>1. /\ writer \in {"idle", "dead"} /\ writer # "none"
      /\ UNCHANGED <<exists, lines, writer, memory, begun, returned, edits>>
  BY DEF OpenReader, history
<1>2. CASE ~ReplayAccepts
  <2>1. reader' = "refused" /\ UNCHANGED <<seen, index>>
    BY <1>2 DEF OpenReader
  <2>2. StoreType'
    BY <1>1, <2>1 DEF StoreType
  <2>3. WriteInv'
    BY <1>1, <2>1 DEF WriteInv
  <2>4. Done' = Done
    BY <1>1 DEF Done
  <2>5. LineInv'
    BY <1>1, <2>1, <2>4 DEF LineInv
  <2>6. QED
    BY <2>2, <2>3, <2>5
<1>3. CASE ReplayAccepts
  <2>1. reader' = "open" /\ seen' = lines /\ index' = Derived(lines)
    BY <1>3 DEF OpenReader
  <2>2. lines \in Seq(AnyEntry)
    BY <1>3, AcceptedLines
  <2>3. \E S \in SUBSET Ids : index' \in [S -> Ids \X Bodies]
    BY <2>1, <2>2, DerivedType
  <2>4. StoreType'
    BY <1>1, <2>1, <2>3 DEF StoreType
  <2>5. WriteInv'
    BY <1>1, <2>1 DEF WriteInv
  <2>6. Done' = Done
    BY <1>1 DEF Done
  <2>7. edits <= 1 => Between(lines, Done, begun)
    BY <1>1, <1>3, AcceptedIsBetween
  <2>8. edits = 0 => index' = Derived(Done)
    <3>1. SUFFICES ASSUME edits = 0 PROVE lines = Done
      BY <2>1
    <3>2. returned = Len(begun) /\ Len(begun) \in Nat
      BY <1>1, <1>3, <3>1, AcceptedIsComplete, DoneFacts
    <3>3. lines = begun
      BY <1>1, <3>1, <3>2 DEF LineInv
    <3>4. QED
      BY <3>2, <3>3, DoneFacts
  <2>9. edits' = 0 => /\ index' = Derived(Done')
                      /\ exists' <=> begun' # <<>>
                      /\ \/ lines' = begun'
                         \/ /\ lines' = Append(Done', Torn)
                            /\ returned' + 1 = Len(begun') /\ writer' = "dead"
    BY <1>1, <2>6, <2>8 DEF LineInv
  <2>10. edits' = 1 => Accounted(lines', index', Done', begun')
    BY <1>1, <2>6, <2>7 DEF Accounted
  <2>11. edits' <= 1 => Between(seen', Done', begun')
    BY <1>1, <2>1, <2>6, <2>7
  <2>12. QED
    BY <2>4, <2>5, <2>9, <2>10, <2>11 DEF LineInv
<1>4. QED
  BY <1>2, <1>3

LEMMA AppendStoreInv ==
  ASSUME StoreInv, NEW id \in Ids, NEW b \in Bodies, AppendEntry(id, b)
  PROVE  StoreInv'
<1> USE DEF StoreInv
<1> DEFINE x == Entry(id, b)
<1>1. /\ writer = "idle" /\ reader = "none" /\ id \notin IdsIn(memory)
      /\ exists' = TRUE /\ writer' = "appended"
      /\ lines' = Append(lines, x) /\ memory' = Append(memory, x)
      /\ begun' = Append(begun, x)
      /\ UNCHANGED <<index, reader, seen, returned, edits>>
  BY DEF AppendEntry
<1>2. /\ x \in AnyEntry /\ x.id = id
      /\ begun' \in Seq(AnyEntry) /\ LinesHold(begun') /\ begun' # <<>>
      /\ Done' = Done /\ memory = begun /\ Done = begun
      /\ returned + 1 = Len(begun')
  BY <1>1, OneMoreEntry
<1>3. lines' \in Seq(AnyLine)
  <2>1. x \in AnyLine
    BY <1>2 DEF AnyLine
  <2> HIDE DEF x
  <2>2. QED
    BY <1>1, <2>1, AppendFacts DEF StoreType
<1>4. edits = 1 => Accounted(lines', index, Done, begun')
  <2>1. ASSUME edits = 1 PROVE Accounted(Append(lines, x), index, Done, begun')
    BY <1>1, <2>1, AppendAccounted DEF LineInv
  <2>2. QED
    BY <1>1, <2>1
<1> HIDE DEF x
<1>5. /\ memory' \in Seq(AnyEntry) /\ Len(memory') = Len(memory) + 1
      /\ IdsIn(memory') = IdsIn(memory) \cup {id}
  BY <1>1, <1>2, AppendFacts DEF StoreType
<1>6. IsFiniteSet(IdsIn(memory')) /\ Len(memory') = Cardinality(IdsIn(memory'))
  BY <1>1, <1>5, FS_AddElement, SMTT(30) DEF StoreType
<1>7. StoreType'
  BY <1>1, <1>2, <1>3, <1>5, <1>6 DEF StoreType
<1>8. memory' = begun'
  BY <1>1, <1>2
<1>9. WriteInv'
  BY <1>1, <1>2, <1>8 DEF WriteInv
<1>10. edits = 0 => index = Derived(Done) /\ lines' = begun'
  <2>1. ASSUME edits = 0 PROVE lines = begun
    BY <1>1, <2>1 DEF LineInv
  <2>2. QED
    BY <1>1, <2>1 DEF LineInv
<1>11. LineInv'
  BY <1>1, <1>2, <1>4, <1>10 DEF LineInv
<1>12. QED
  BY <1>7, <1>9, <1>11

LEMMA CrashInLineStoreInv ==
  ASSUME StoreInv, NEW id \in Ids, NEW b \in Bodies, CrashInLine(id, b)
  PROVE  StoreInv'
<1> USE DEF StoreInv
<1>1. /\ writer = "idle" /\ reader = "none" /\ id \notin IdsIn(memory)
      /\ exists' = TRUE /\ writer' = "dead" /\ lines' = Append(lines, Torn)
      /\ begun' = Append(begun, Entry(id, b))
      /\ UNCHANGED <<index, memory, reader, seen, returned, edits>>
  BY DEF CrashInLine
<1>2. /\ begun' \in Seq(AnyEntry) /\ LinesHold(begun') /\ begun' # <<>>
      /\ Done' = Done /\ Done = begun /\ returned + 1 = Len(begun')
  BY <1>1, OneMoreEntry
<1>3. lines' \in Seq(AnyLine) /\ Torn \in ToSet(lines')
  BY <1>1, AppendFacts DEF StoreType, AnyLine
<1>4. StoreType'
  BY <1>1, <1>2, <1>3 DEF StoreType
<1>5. WriteInv'
  BY <1>1, <1>2 DEF WriteInv
<1>6. edits = 0 => index = Derived(Done) /\ lines' = Append(Done, Torn)
  BY <1>1, <1>2 DEF LineInv
<1>7. Accounted(lines', index', Done', begun')
  BY <1>3, TornFails DEF Accounted
<1>8. LineInv'
  BY <1>1, <1>2, <1>6, <1>7 DEF LineInv
<1>9. QED
  BY <1>4, <1>5, <1>8

LEMMA ReplaceIndexStoreInv == StoreInv /\ ReplaceIndex => StoreInv'
<1> SUFFICES ASSUME StoreInv, ReplaceIndex PROVE StoreInv'
  OBVIOUS
<1> USE DEF StoreInv
<1>1. /\ writer = "appended" /\ writer' = "idle" /\ returned' = returned + 1
      /\ index' = Derived(memory) /\ memory = begun /\ reader = "none"
      /\ returned + 1 = Len(begun)
      /\ UNCHANGED <<exists, lines, memory, reader, seen, begun, edits>>
  BY DEF ReplaceIndex, WriteInv
<1>2. /\ index' # Missing /\ DOMAIN index' = IdsIn(begun)
      /\ \E S \in SUBSET Ids : index' \in [S -> Ids \X Bodies]
  BY <1>1, DerivedType DEF StoreType
<1>3. StoreType'
  BY <1>1, <1>2 DEF StoreType
<1>4. WriteInv'
  BY <1>1 DEF WriteInv
<1>5. Done' = begun
  BY <1>1, SubSeqFull DEF Done, StoreType
<1>6. ASSUME edits = 1 PROVE Accounted(lines, index', begun, begun)
  <2>1. Accounted(lines, index, Done, begun)
    BY <1>6 DEF LineInv
  <2>2. CASE ~LinesHold(lines)
    BY <2>2 DEF Accounted
  <2>3. CASE Between(lines, Done, begun)
    <3>1. CASE ToSet(begun) \subseteq ToSet(lines)
      BY <2>3, <3>1 DEF Between, Accounted
    <3>2. CASE ~(ToSet(begun) \subseteq ToSet(lines))
      <4>1. PICK e \in ToSet(begun) : e \notin ToSet(lines)
        BY <3>2
      <4>2. e.id \in IdsIn(begun) /\ \A f \in ToSet(lines) : f.id # e.id
        BY <2>3, <4>1, OneEntryPerId, IdsOfSet DEF Between, WriteInv
      <4>3. e.id \notin IdsIn(lines)
        BY <4>2, IdsOfSet
      <4>4. QED
        BY <1>2, <4>1, <4>2, <4>3 DEF Accounted
    <3>3. QED
      BY <3>1, <3>2
  <2>4. CASE \E e \in ToSet(Done) : e.id \in DOMAIN index \ IdsIn(lines)
    <3>1. PICK e \in ToSet(Done) : e.id \notin IdsIn(lines)
      BY <2>4
    <3>2. e \in ToSet(begun) /\ e.id \in IdsIn(begun)
      BY <3>1, DoneFacts, IdsOfSet
    <3>3. QED
      BY <1>2, <3>1, <3>2 DEF Accounted
  <2>5. CASE ~(IdsIn(lines) \subseteq IdsIn(begun))
    BY <1>2, <2>5 DEF Accounted
  <2>6. QED
    BY <2>1, <2>2, <2>3, <2>4, <2>5 DEF Accounted
<1>7. edits = 0 => lines = begun
  BY <1>1 DEF LineInv
<1>8. edits = 0 => (exists <=> begun # <<>>)
  BY <1>1 DEF LineInv
<1>9. LineInv'
  BY <1>1, <1>5, <1>6, <1>7, <1>8 DEF LineInv
<1>10. QED
  BY <1>3, <1>4, <1>9

LEMMA StoreInvNext == StoreInv /\ [Next]_vars => StoreInv'
<1> SUFFICES ASSUME StoreInv, [Next]_vars PROVE StoreInv'
  OBVIOUS
<1>1. CASE DropReader
  BY <1>1, RestStoreInv DEF DropReader
<1>2. ASSUME NEW id \in Ids, RefuseEntry(id) PROVE StoreInv'
  BY <1>2, RestStoreInv DEF RefuseEntry, StoreInv, StoreType
<1>3. CASE Crash
  BY <1>3, RestStoreInv DEF Crash
<1>4. CASE UNCHANGED vars
  BY <1>4, RestStoreInv DEF vars, history, StoreInv, StoreType
<1>5. QED
  BY <1>1, <1>2, <1>3, <1>4, OpenWriterStoreInv, OpenReaderStoreInv, AppendStoreInv,
     CrashInLineStoreInv, ReplaceIndexStoreInv, EditStoreInv
  DEF Next

LEMMA StoreInvHolds == Spec => []StoreInv
  BY StoreInvInit, StoreInvNext, PTL DEF Spec

-----------------------------------------------------------------------------
(* Every line is torn or an entry, and each id is in the memory of the     *)
(* writer once.                                                            *)
THEOREM StoreTypeCorrect == Spec => []TypeOK
<1>1. StoreInv => TypeOK
  <2> SUFFICES ASSUME StoreType PROVE TypeOK
    BY DEF StoreInv
  <2>1. \A i \in DOMAIN lines : lines[i] = Torn \/ lines[i] \in AnyEntry
    <3>1. \A i \in DOMAIN lines : lines[i] \in AnyLine
      BY LenProperties, ElementOfSeq DEF StoreType
    <3>2. QED
      BY <3>1 DEF AnyLine
  <2>2. \A i \in DOMAIN memory : memory[i] \in AnyEntry
    BY LenProperties, ElementOfSeq DEF StoreType
  <2>3. index # Missing => DOMAIN index \subseteq Ids
    <3>1. ASSUME NEW S \in SUBSET Ids, index \in [S -> Ids \X Bodies]
          PROVE  DOMAIN index \subseteq Ids
      BY <3>1
    <3>2. QED
      BY <3>1 DEF StoreType
  <2>4. QED
    BY <2>1, <2>2, <2>3 DEF StoreType, TypeOK
<1>2. QED
  BY <1>1, StoreInvHolds, PTL

(* The index is never ahead of the lines, and at most the line of the      *)
(* write in progress is not in it yet.                                     *)
THEOREM IndexKeepsUp == Spec => []IndexFollowsLines
<1>1. StoreInv => IndexFollowsLines
  <2> SUFFICES ASSUME StoreInv, edits = 0, writer # "none"
               PROVE  /\ index = Derived(Done)
                      /\ Done = SubSeq(lines, 1, returned)
                      /\ Len(lines) \in {returned, returned + 1}
    BY DEF IndexFollowsLines, Done
  <2>1. CASE lines = begun
    BY <2>1, DoneFacts DEF StoreInv, LineInv, WriteInv, Done
  <2>2. CASE lines = Append(Done, Torn)
    <3>1. /\ Done \in Seq(AnyLine) /\ Torn \in AnyLine /\ Len(Done) = returned
          /\ returned \in Nat
      <4>1. AnyEntry \subseteq AnyLine
        BY DEF AnyLine
      <4>2. QED
        BY <4>1, DoneFacts, SeqMonotonic DEF AnyLine, StoreInv, StoreType
    <3>2. SubSeq(lines, 1, returned) = Done /\ Len(lines) = returned + 1
      <4> HIDE DEF Done
      <4>1. returned \in 0..Len(Done)
        BY <3>1
      <4>2. /\ SubSeq(Append(Done, Torn), 1, returned) = SubSeq(Done, 1, returned)
            /\ SubSeq(Done, 1, Len(Done)) = Done
        BY <3>1, <4>1, PrefixOfAppend
      <4>3. Len(Append(Done, Torn)) = Len(Done) + 1
        BY <3>1, AppendFacts
      <4>4. QED
        BY <2>2, <3>1, <4>2, <4>3
    <3>3. QED
      BY <3>2 DEF StoreInv, LineInv
  <2>3. QED
    BY <2>1, <2>2 DEF StoreInv, LineInv
<1>2. QED
  BY <1>1, StoreInvHolds, PTL

(* A store nobody edited opens again exactly when every write has returned *)
(* and there was one; and an object that opens, after at most one edit,    *)
(* sees every entry whose write returned and nothing that was not written. *)
THEOREM ReopeningIsExact == Spec => []ReopenIsExact
<1>1. StoreInv => ReopenIsExact
  BY AcceptedIsComplete DEF StoreInv, LineInv, Between, Done, ReopenIsExact
<1>2. QED
  BY <1>1, StoreInvHolds, PTL
=============================================================================
