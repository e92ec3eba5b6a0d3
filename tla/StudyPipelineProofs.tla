------------------------ MODULE StudyPipelineProofs ------------------------
(***************************************************************************)
(* Proofs about StudyPipeline, for any studies, any rows written by hand   *)
(* into the journal, any death and any failure of a worker.                *)
(*                                                                         *)
(* What a stage is going to do is a sequence of steps; the invariant says  *)
(* how the steps that are left fit what is already in the run directory.   *)
(* First the programs of the thirteen stages are shown to be made in that  *)
(* way (ProgramsAreSound), then each step is shown to keep it.             *)
(***************************************************************************)
EXTENDS StudyPipeline, FiniteSetTheorems, FunctionTheorems, SequenceTheorems, TLAPS

-----------------------------------------------------------------------------
(* Entries chosen by their positions (module Selection).                   *)

(* Choosing entries of a sequence by their positions: the position that is *)
(* the n-th of a finite set is found for each n there can be.              *)
RankIn(positions, k) == Cardinality({j \in positions : j <= k})

LEMMA RankType ==
  ASSUME NEW positions \in SUBSET Nat, IsFiniteSet(positions), NEW k \in positions
  PROVE  RankIn(positions, k) \in 1..Cardinality(positions)
<1>1. {j \in positions : j <= k} \subseteq positions /\ k \in {j \in positions : j <= k}
  OBVIOUS
<1>2. /\ IsFiniteSet({j \in positions : j <= k})
      /\ RankIn(positions, k) <= Cardinality(positions)
  BY <1>1, FS_Subset DEF RankIn
<1>3. RankIn(positions, k) # 0
  BY <1>1, <1>2, FS_EmptySet DEF RankIn
<1>4. RankIn(positions, k) \in Nat /\ Cardinality(positions) \in Nat
  BY <1>2, FS_CardinalityType DEF RankIn
<1> QED
  BY <1>2, <1>3, <1>4

LEMMA RankGrows ==
  ASSUME NEW positions \in SUBSET Nat, IsFiniteSet(positions),
         NEW k \in positions, NEW l \in positions, k < l
  PROVE  RankIn(positions, k) < RankIn(positions, l)
<1> DEFINE K == {j \in positions : j <= k}
           L == {j \in positions : j <= l}
<1>1. K \subseteq L /\ l \in L /\ l \notin K
  <2>1. k \in Nat /\ l \in Nat
    OBVIOUS
  <2>2. ASSUME NEW j \in K PROVE j \in L
    <3>1. j \in positions /\ j \in Nat /\ j <= k
      OBVIOUS
    <3>2. j <= l
      BY <2>1, <3>1
    <3> QED
      BY <3>1, <3>2
  <2>3. l <= l /\ ~(l <= k)
    BY <2>1
  <2> QED
    BY <2>2, <2>3
<1>2. IsFiniteSet(L)
  BY FS_Subset
<1>3. IsFiniteSet(K) /\ Cardinality(K) <= Cardinality(L) /\ Cardinality(K) # Cardinality(L)
  BY <1>1, <1>2, FS_Subset
<1>4. Cardinality(K) \in Nat /\ Cardinality(L) \in Nat
  BY <1>2, <1>3, FS_CardinalityType
<1> QED
  BY <1>3, <1>4 DEF RankIn

LEMMA RankInjective ==
  ASSUME NEW positions \in SUBSET Nat, IsFiniteSet(positions),
         NEW k \in positions, NEW l \in positions,
         RankIn(positions, k) = RankIn(positions, l)
  PROVE  k = l
<1>1. RankIn(positions, k) \in Int /\ RankIn(positions, l) \in Int
  BY RankType
<1>2. CASE k < l
  BY <1>1, <1>2, RankGrows
<1>3. CASE l < k
  BY <1>1, <1>3, RankGrows
<1> QED
  BY <1>2, <1>3

LEMMA RankSurjective ==
  ASSUME NEW positions \in SUBSET Nat, IsFiniteSet(positions),
         NEW n \in 1..Cardinality(positions)
  PROVE  \E k \in positions : RankIn(positions, k) = n
<1> DEFINE T == 1..Cardinality(positions)
           f == [k \in positions |-> RankIn(positions, k)]
<1>1. Cardinality(positions) \in Nat
  BY FS_CardinalityType
<1>2. f \in [positions -> T]
  BY RankType
<1>3. \A j, k \in positions : f[j] = f[k] => j = k
  BY RankInjective
<1>4. f \in Injection(positions, T)
  BY <1>2, <1>3, Fun_IsInj
<1>5. IsFiniteSet(T) /\ Cardinality(T) = Cardinality(positions)
  BY <1>1, FS_Interval
<1>6. f \in Surjection(positions, T)
  BY <1>4, <1>5, FS_Injection
<1>7. \A t \in T : \E k \in positions : f[k] = t
  <2> HIDE DEF T, f
  <2> QED
    BY <1>6, Fun_SurjectionProperties
<1> QED
  BY <1>7

(* The entries at some positions are a sequence of just those entries.     *)
LEMMA EntriesAtPositions ==
  ASSUME NEW S, NEW s \in Seq(S), NEW positions \in SUBSET DOMAIN s
  PROVE  /\ EntriesAt(s, positions) \in Seq(S)
         /\ Named(EntriesAt(s, positions)) = {s[k] : k \in positions}
<1> DEFINE nth(n) == CHOOSE k \in positions : Cardinality({j \in positions : j <= k}) = n
           e == [n \in 1..Cardinality(positions) |-> s[nth(n)]]
<1>1. e = EntriesAt(s, positions)
  BY DEF EntriesAt
<1>2. DOMAIN s = 1..Len(s) /\ Len(s) \in Nat /\ \A k \in DOMAIN s : s[k] \in S
  BY LenProperties
<1>3. IsFiniteSet(positions) /\ positions \in SUBSET Nat
  <2>1. IsFiniteSet(1..Len(s))
    BY <1>2, FS_Interval
  <2>2. positions \in SUBSET (1..Len(s))
    BY <1>2
  <2>3. IsFiniteSet(positions)
    BY <2>1, <2>2, FS_Subset
  <2> QED
    BY <1>2, <2>2, <2>3
<1>4. Cardinality(positions) \in Nat
  BY <1>3, FS_CardinalityType
<1>5. \A n \in 1..Cardinality(positions) :
        nth(n) \in positions /\ Cardinality({j \in positions : j <= nth(n)}) = n
  BY <1>3, RankSurjective DEF RankIn
<1>6. \A k \in positions : \E n \in 1..Cardinality(positions) : nth(n) = k
  <2> SUFFICES ASSUME NEW k \in positions
               PROVE  \E n \in 1..Cardinality(positions) : nth(n) = k
    OBVIOUS
  <2>1. RankIn(positions, k) \in 1..Cardinality(positions)
    BY <1>3, RankType
  <2>2. nth(RankIn(positions, k)) = k
    BY <1>3, <1>5, <2>1, RankInjective DEF RankIn
  <2> QED
    BY <2>1, <2>2
<1> HIDE DEF nth
<1>7. e \in Seq(S)
  <2>1. \A n \in 1..Cardinality(positions) : s[nth(n)] \in S
    BY <1>2, <1>5
  <2>2. e \in [1..Cardinality(positions) -> S]
    BY <2>1
  <2> HIDE DEF e
  <2> QED
    BY <1>4, <2>2
<1>8. Named(e) = {s[k] : k \in positions}
  BY <1>5, <1>6 DEF Named
<1> QED
  BY <1>1, <1>7, <1>8

(* Entries that differ at the chosen positions are chosen once.            *)
LEMMA EntriesDiffer ==
  ASSUME NEW S, NEW s \in Seq(S), NEW positions \in SUBSET DOMAIN s,
         \A k, l \in positions : s[k] = s[l] => k = l
  PROVE  Different(EntriesAt(s, positions))
<1> DEFINE nth(n) == CHOOSE k \in positions : Cardinality({j \in positions : j <= k}) = n
           e == [n \in 1..Cardinality(positions) |-> s[nth(n)]]
<1>1. e = EntriesAt(s, positions)
  BY DEF EntriesAt
<1>2. IsFiniteSet(positions) /\ positions \in SUBSET Nat
  <2>1. DOMAIN s = 1..Len(s) /\ Len(s) \in Nat
    OBVIOUS
  <2>2. IsFiniteSet(1..Len(s))
    BY <2>1, FS_Interval
  <2>3. IsFiniteSet(positions)
    BY <2>1, <2>2, FS_Subset
  <2> QED
    BY <2>1, <2>3
<1>3. \A n \in 1..Cardinality(positions) :
        nth(n) \in positions /\ Cardinality({j \in positions : j <= nth(n)}) = n
  BY <1>2, RankSurjective DEF RankIn
<1> HIDE DEF nth
<1>4. ASSUME NEW m \in 1..Cardinality(positions), NEW n \in 1..Cardinality(positions),
             s[nth(m)] = s[nth(n)]
      PROVE  m = n
  <2>1. nth(m) = nth(n)
    BY <1>3, <1>4
  <2> QED
    BY <1>3, <2>1
<1>5. Different(e)
  BY <1>4 DEF Different
<1> QED
  BY <1>1, <1>5

(* All entries, each once.                                                 *)
LEMMA EachOnceFacts ==
  ASSUME NEW S, NEW s \in Seq(S)
  PROVE  /\ EachOnce(s) \in Seq(S)
         /\ Different(EachOnce(s))
         /\ s # <<>> => EachOnce(s) # <<>>
<1> DEFINE firsts == {k \in DOMAIN s : \A j \in 1..(k - 1) : s[j] # s[k]}
<1>1. firsts \in SUBSET DOMAIN s /\ DOMAIN s = 1..Len(s) /\ Len(s) \in Nat
  OBVIOUS
<1>2. EachOnce(s) \in Seq(S) /\ Named(EachOnce(s)) = {s[k] : k \in firsts}
  BY <1>1, EntriesAtPositions DEF EachOnce
<1>3. ASSUME NEW k \in firsts, NEW l \in firsts, s[k] = s[l] PROVE k = l
  <2>1. k \in Nat /\ l \in Nat /\ k >= 1 /\ l >= 1
    BY <1>1
  <2>2. ~(k < l) /\ ~(l < k)
    BY <1>3, <2>1
  <2> QED
    BY <2>1, <2>2
<1>4. Different(EachOnce(s))
  BY <1>1, <1>3, EntriesDiffer DEF EachOnce
<1>5. ASSUME s # <<>>, EachOnce(s) = <<>> PROVE FALSE
  <2>1. 1 \in firsts
    BY <1>1, <1>5
  <2>2. s[1] \in Named(EachOnce(s))
    BY <1>2, <2>1
  <2> QED
    BY <1>5, <2>2 DEF Named
<1> QED
  BY <1>2, <1>4, <1>5

-----------------------------------------------------------------------------
(* The steps a stage may have in its program.                              *)

(* Before the first stage no step of the playbook is done, and each stage  *)
(* does those from FirstStep to LastStep (none, if they cross).            *)
FirstStep == <<1, 1, 1, 1, 2, 5, 8, 15, 17, 18, 20, 21, 21, 22>>
LastStep  == <<0, 0, 0, 1, 4, 7, 14, 16, 17, 19, 20, 20, 21, 21>>

(* The steps of the playbook a run of this study does not perform.         *)
NotPerformed(s) ==
  {20, 21} \cup (IF s.markers THEN {} ELSE {12}) \cup (IF s.misfit THEN {} ELSE {14})

(* The row the program itself writes into the journal for a step.          *)
Own(s, n) ==
  [step |-> n, status |-> IF n \in NotPerformed(s) THEN "flagged" ELSE "completed"]

(* The artifacts a stage may record.                                       *)
Made(k) == Produces[k] \cup (IF k = 4 THEN {"advisory"} ELSE {})

(* The words the ids of statistics, calls and computations are made of.    *)
Words ==
  {"read_export", "node_a", "node_c", "run_prep", "estimator_determination",
   "power", "close_fit", "n_to_q", "montecarlo", "estimate", "ratio",
   "prep", "n_chain", "screening", "missingness", "outliers",
   "assumptions", "normality", "collinearity", "estimator", "mardia_skew_p",
   "mardia_kurtosis_p", "max_abs_skewness", "max_abs_kurtosis",
   "measurement", "spec", "loadings", "reliability", "convergent", "discriminant",
   "item_deletion", "cmb", "method_variance_share", "respecification", "modifications",
   "structural", "fit", "path", "r_squared", "chisq", "cfi", "tli", "rmsea", "srmr",
   "effects", "direct", "indirect", "total", "classification", "->", ".via",
   "robustness", "alternatives", "achieved_power", "reversed_paths", "delta_aic",
   "delta_bic", "preferred", "power-montecarlo", "measurement-deletion-base",
   "measurement-cmb", "measurement-respec-base", "measurement-respec",
   "robustness-alternatives-retained", "robustness-alternatives-reversed_paths"}

Text == STRING \cup Words

(* The ids of rows: no statistic belongs to a step that is not performed.  *)
RowIds(s) ==
  {r \in Words \X Words \X Seq(Text) :
     \A n \in NotPerformed(s) : <<r[1], r[2]>> \notin Outputs[n]}

(* The stages that stop the run, on a study that makes them.               *)
Refused(k, s) ==
  \/ k = 3 /\ s.verdict # "approve"
  \/ k = 4 /\ ~s.enough
  \/ k = 8 /\ s.direct = <<>>
  \/ k = 9 /\ s.indirect = <<>>

StepsOf(k, s) ==
  [op : {"read"}, what : Consumes[k]]
    \cup [op : {"file", "record"}, what : Made(k)]
    \cup [op : {"compute"}, what : Words]
    \cup [op : {"call"}, what : Words \X Nat]
    \cup [op : {"row"}, what : RowIds(s)]
    \cup [op : {"journal"}, what : {"open"}]
    \cup [op : {"mark"},
          what : IF Refused(k, s) THEN {} ELSE {Own(s, n) : n \in FirstStep[k]..LastStep[k]}]
    \cup [op : {"log", "decide"}, what : Handles]
    \cup [op : {"render"}, what : {"checklist"}]
    \cup [op : {"stop"},
          what : IF Refused(k, s)
                   THEN {"HALTED_GATE", "COMPLETED_TO_BOUNDARY", "HALTED_INTEGRITY"} ELSE {}]

(* Steps that end in a halt: nothing behind them is ever done.             *)
Stops(t) == \E i \in DOMAIN t : t[i].op = "stop"

(* The steps lo..hi of the playbook are marked, each once and in order.    *)
Marks(t, lo, hi) ==
  /\ \A i \in DOMAIN t : t[i].op = "mark" => t[i].what.step \in lo..hi
  /\ Stops(t) \/ \A n \in lo..hi : \E i \in DOMAIN t : t[i].op = "mark" /\ t[i].what.step = n
  /\ \A i, j \in DOMAIN t :
       i < j /\ t[i].op = "mark" /\ t[j].op = "mark" => t[i].what.step < t[j].what.step

(* The decision log step i writes into was opened by a step before it, and *)
(* no other one since.                                                     *)
OpenedBefore(t, i) ==
  \E j \in DOMAIN t :
    /\ j < i /\ t[j].op = "log" /\ t[j].what = t[i].what
    /\ \A l \in DOMAIN t : j < l /\ l < i => t[l].op # "log"

SelfLogged(t) == \A i \in DOMAIN t : t[i].op = "decide" => OpenedBefore(t, i)

(* The same of the rest of a program, with a log that is open: object h.   *)
LogsInto(t, h) ==
  \A i \in DOMAIN t : t[i].op = "decide" =>
    \/ OpenedBefore(t, i)
    \/ t[i].what = h /\ \A j \in DOMAIN t : j < i => t[j].op # "log"

(* What is written is recorded later, except for the checklist.            *)
RecordsFollow(t) ==
  \A i \in DOMAIN t : t[i].op = "file" /\ t[i].what # "checklist" =>
    \E j \in DOMAIN t : i < j /\ t[j] = Record(t[i].what)

(* Each artifact is recorded once.                                         *)
RecordedOnce(t) ==
  \A i, j \in DOMAIN t :
    t[i].op = "record" /\ t[j].op = "record" /\ t[i].what = t[j].what => i = j

(* The checklist is written behind the last mark.                          *)
ChecklistLast(t) ==
  \A i \in DOMAIN t : t[i] = File("checklist") =>
    \A j \in DOMAIN t : j > i => t[j].op \notin {"mark", "stop"}

-----------------------------------------------------------------------------
(* The invariant.                                                          *)

ControlInv ==
  /\ stage \in 1..13 => todo \in Seq(StepsOf(stage, study))
  /\ stage = 14 => todo = <<>> /\ outcome = "COMPLETED"
  /\ outcome = "COMPLETED" => stage = 14
  /\ worker = "running" => todo # <<>> /\ Head(todo).op = "call"
  /\ store \in Seq(RowIds(study))
  /\ journal \in Seq(JournalRow) /\ tracker \in Seq(JournalRow)

(* The rows in memory are evidenced, and those of the steps the program    *)
(* has done are the program's own.  Left alone, so is the journal.         *)
Done(n) ==
  /\ \A m \in 1..(n - 1) : Own(study, m) \in Named(journal) /\ Own(study, m) \in Named(tracker)
  /\ forged = 0 => Len(journal) = n - 1 /\ \A i \in DOMAIN journal : journal[i].step = i

JournalInv ==
  /\ EachStepOnce(tracker)
  /\ \A i \in DOMAIN tracker :
       tracker[i].status = "completed" => Evidenced(store, tracker[i].step)
  /\ \E n \in FirstStep[stage]..(LastStep[stage] + 1) :
       Marks(todo, n, LastStep[stage]) /\ Done(n)

ChecklistInv ==
  /\ ChecklistLast(todo)
  /\ stage = 13 => checklist # <<>> \/ \E i \in DOMAIN todo : todo[i] = File("checklist")
  /\ stage = 14 => checklist # <<>>
  /\ checklist # <<>> =>
       \A n \in Steps : /\ checklist[n] = "completed" => Evidenced(store, n)
                        /\ checklist[n] = "flagged" => n \in NotPerformed(study)

DecisionInv ==
  /\ GapFree(decisions)
  /\ \E h \in Handles : LogsInto(todo, h) /\ nextSeq[h] = Len(decisions) + 1

(* An artifact that is there has been recorded, or is about to be.         *)
ArtifactInv ==
  /\ RecordsFollow(todo) /\ RecordedOnce(todo)
  /\ \A k \in DOMAIN Pipeline : k < stage => Produces[k] \subseteq artifacts
  /\ stage \in 1..13 =>
       Stops(todo) \/ \A a \in Produces[stage] :
                         a \in artifacts \/ \E i \in DOMAIN todo : todo[i] = File(a)
  /\ \A i \in DOMAIN recorded :
       recorded[i][1] <= stage /\ recorded[i][2] \in Made(recorded[i][1])
  /\ \A i, j \in DOMAIN recorded : recorded[i][2] = recorded[j][2] => i = j
  /\ \A i \in DOMAIN recorded : recorded[i][1] = stage =>
       \A j \in DOMAIN todo : todo[j] # Record(recorded[i][2])
  /\ \A a \in artifacts \ {"checklist"} :
       \/ \E i \in DOMAIN recorded : recorded[i][2] = a
       \/ \E i \in DOMAIN todo : todo[i] = Record(a)

PipelineInv ==
  TypeOK /\ ControlInv /\ JournalInv /\ ChecklistInv /\ DecisionInv /\ ArtifactInv

-----------------------------------------------------------------------------
(* Programs are made of pieces.                                            *)

LEMMA StepKinds ==
  ASSUME NEW k, NEW s, NEW x \in StepsOf(k, s)
  PROVE  /\ x.op = "read" => x.what \in Consumes[k]
         /\ x.op \in {"file", "record"} => x.what \in Made(k)
         /\ x.op = "row" => x.what \in RowIds(s)
         /\ x.op = "mark" => /\ ~Refused(k, s)
                             /\ \E n \in FirstStep[k]..LastStep[k] : x.what = Own(s, n)
         /\ x.op \in {"log", "decide"} => x.what \in Handles
         /\ x.op = "stop" =>
              /\ Refused(k, s)
              /\ x.what \in {"HALTED_GATE", "COMPLETED_TO_BOUNDARY", "HALTED_INTEGRITY"}
         /\ x = [op |-> x.op, what |-> x.what]
  BY DEF StepsOf

(* A part of the program of stage k: it marks lo..hi and records what is   *)
(* in made.                                                                *)
Piece(t, k, s, lo, hi, made) ==
  /\ t \in Seq(StepsOf(k, s))
  /\ Marks(t, lo, hi) /\ SelfLogged(t) /\ RecordsFollow(t) /\ RecordedOnce(t)
  /\ \A i \in DOMAIN t : t[i].op = "record" => t[i].what \in made

LEMMA Joined ==
  ASSUME NEW S, NEW a \in Seq(S), NEW b \in Seq(S)
  PROVE  /\ a \o b \in Seq(S)
         /\ \A i \in DOMAIN a : i \in DOMAIN (a \o b) /\ (a \o b)[i] = a[i]
         /\ \A i \in DOMAIN b : Len(a) + i \in DOMAIN (a \o b) /\ (a \o b)[Len(a) + i] = b[i]
         /\ \A i \in DOMAIN (a \o b) :
              \/ i \in DOMAIN a /\ (a \o b)[i] = a[i]
              \/ i > Len(a) /\ i - Len(a) \in DOMAIN b /\ (a \o b)[i] = b[i - Len(a)]
         /\ DOMAIN a = 1..Len(a) /\ DOMAIN b = 1..Len(b) /\ Len(a) \in Nat /\ Len(b) \in Nat
         /\ DOMAIN (a \o b) = 1..(Len(a) + Len(b))
<1>1. Len(a) \in Nat /\ Len(b) \in Nat /\ DOMAIN a = 1..Len(a) /\ DOMAIN b = 1..Len(b)
  OBVIOUS
<1>2. a \o b \in Seq(S) /\ Len(a \o b) = Len(a) + Len(b)
  OBVIOUS
<1>3. DOMAIN (a \o b) = 1..(Len(a) + Len(b))
  BY <1>1, <1>2
<1>4. \A i \in 1..(Len(a) + Len(b)) :
        (a \o b)[i] = IF i <= Len(a) THEN a[i] ELSE b[i - Len(a)]
  OBVIOUS
<1> HIDE <1>2
<1>5. \A i \in 1..Len(b) : Len(a) + i \in 1..(Len(a) + Len(b)) /\ (Len(a) + i) - Len(a) = i
                             /\ ~(Len(a) + i <= Len(a))
  BY <1>1
<1>6. \A i \in DOMAIN b : Len(a) + i \in DOMAIN (a \o b) /\ (a \o b)[Len(a) + i] = b[i]
  BY <1>1, <1>3, <1>4, <1>5
<1>7. \A i \in DOMAIN a : i \in DOMAIN (a \o b) /\ (a \o b)[i] = a[i]
  BY <1>1, <1>3, <1>4
<1>8. \A i \in DOMAIN (a \o b) :
        \/ i \in DOMAIN a /\ (a \o b)[i] = a[i]
        \/ i > Len(a) /\ i - Len(a) \in DOMAIN b /\ (a \o b)[i] = b[i - Len(a)]
  BY <1>1, <1>3, <1>4
<1> QED
  BY <1>1, <1>2, <1>3, <1>6, <1>7, <1>8

LEMMA MarksJoin ==
  ASSUME NEW S, NEW a \in Seq(S), NEW b \in Seq(S),
         NEW lo \in Int, NEW m \in Int, NEW hi \in Int, lo <= m + 1, m <= hi,
         Marks(a, lo, m), Marks(b, m + 1, hi)
  PROVE  Marks(a \o b, lo, hi)
<1> DEFINE t == a \o b
           n == Len(a)
<1>1. /\ t \in Seq(S)
      /\ \A i \in DOMAIN a : i \in DOMAIN t /\ t[i] = a[i]
      /\ \A i \in DOMAIN b : n + i \in DOMAIN t /\ t[n + i] = b[i]
      /\ \A i \in DOMAIN t : \/ i \in DOMAIN a /\ t[i] = a[i]
                             \/ i > n /\ i - n \in DOMAIN b /\ t[i] = b[i - n]
      /\ DOMAIN a = 1..n /\ DOMAIN b = 1..Len(b) /\ n \in Nat /\ Len(b) \in Nat
      /\ DOMAIN t = 1..(n + Len(b))
  BY Joined
<1> HIDE DEF t, n
<1>2. ASSUME NEW i \in DOMAIN t, t[i].op = "mark"
      PROVE  t[i].what.step \in lo..hi
  <2>1. CASE i \in DOMAIN a /\ t[i] = a[i]
    <3>1. a[i].what.step \in lo..m
      BY <1>2, <2>1 DEF Marks
    <3> QED
      BY <2>1, <3>1
  <2>2. CASE i - n \in DOMAIN b /\ t[i] = b[i - n]
    <3>1. b[i - n].what.step \in (m + 1)..hi
      BY <1>2, <2>2 DEF Marks
    <3> QED
      BY <2>2, <3>1
  <2> QED
    BY <1>1, <1>2, <2>1, <2>2
<1>3. Stops(a) \/ Stops(b) => Stops(t)
  BY <1>1 DEF Stops
<1>4. ASSUME ~Stops(t), NEW x \in lo..hi
      PROVE  \E i \in DOMAIN t : t[i].op = "mark" /\ t[i].what.step = x
  <2>1. CASE x <= m
    <3>1. x \in lo..m /\ ~Stops(a)
      BY <1>3, <1>4, <2>1
    <3>2. PICK i \in DOMAIN a : a[i].op = "mark" /\ a[i].what.step = x
      BY <3>1 DEF Marks
    <3> QED
      BY <1>1, <3>2
  <2>2. CASE x >= m + 1
    <3>1. x \in (m + 1)..hi /\ ~Stops(b)
      BY <1>3, <1>4, <2>2
    <3>2. PICK i \in DOMAIN b : b[i].op = "mark" /\ b[i].what.step = x
      BY <3>1 DEF Marks
    <3>3. n + i \in DOMAIN t /\ t[n + i] = b[i]
      BY <1>1, <3>2
    <3> QED
      BY <3>2, <3>3
  <2> QED
    BY <2>1, <2>2
<1>5. ASSUME NEW i \in DOMAIN t, NEW j \in DOMAIN t, i < j,
             t[i].op = "mark", t[j].op = "mark"
      PROVE  t[i].what.step < t[j].what.step
  <2>1. CASE i \in DOMAIN a /\ t[i] = a[i] /\ j \in DOMAIN a /\ t[j] = a[j]
    BY <1>5, <2>1 DEF Marks
  <2>2. CASE i \in DOMAIN a /\ t[i] = a[i] /\ j - n \in DOMAIN b /\ t[j] = b[j - n]
    <3>1. a[i].what.step \in lo..m /\ b[j - n].what.step \in (m + 1)..hi
      BY <1>5, <2>2 DEF Marks
    <3> QED
      BY <2>2, <3>1
  <2>3. CASE i - n \in DOMAIN b /\ t[i] = b[i - n] /\ j - n \in DOMAIN b /\ t[j] = b[j - n]
    <3>1. i - n < j - n
      BY <1>1, <1>5
    <3> QED
      BY <1>5, <2>3, <3>1 DEF Marks
  <2>4. ~(i > n /\ j \in DOMAIN a)
    BY <1>1, <1>5
  <2> QED
    BY <1>1, <2>1, <2>2, <2>3, <2>4
<1> QED
  BY <1>2, <1>4, <1>5 DEF Marks, t

(* Two pieces are one.                                                     *)
LEMMA JoinPieces ==
  ASSUME NEW k, NEW s, NEW lo \in Int, NEW m \in Int, NEW hi \in Int, lo <= m + 1, m <= hi,
         NEW ma, NEW mb, ma \cap mb = {},
         NEW a, Piece(a, k, s, lo, m, ma), NEW b, Piece(b, k, s, m + 1, hi, mb)
  PROVE  Piece(a \o b, k, s, lo, hi, ma \cup mb)
<1> DEFINE S == StepsOf(k, s)
           t == a \o b
           n == Len(a)
<1>1. a \in Seq(S) /\ b \in Seq(S)
  BY DEF Piece
<1> HIDE DEF S
<1>2. /\ t \in Seq(S)
      /\ \A i \in DOMAIN a : i \in DOMAIN t /\ t[i] = a[i]
      /\ \A i \in DOMAIN b : n + i \in DOMAIN t /\ t[n + i] = b[i]
      /\ \A i \in DOMAIN t : \/ i \in DOMAIN a /\ t[i] = a[i]
                             \/ i > n /\ i - n \in DOMAIN b /\ t[i] = b[i - n]
      /\ DOMAIN a = 1..n /\ DOMAIN b = 1..Len(b) /\ n \in Nat /\ Len(b) \in Nat
      /\ DOMAIN t = 1..(n + Len(b))
  BY <1>1, Joined, SMTT(30)
<1> HIDE DEF t, n
<1>3. Marks(t, lo, hi)
  BY <1>1, MarksJoin DEF Piece, t
<1>4. SelfLogged(t)
  <2>1. SUFFICES ASSUME NEW i \in DOMAIN t, t[i].op = "decide" PROVE OpenedBefore(t, i)
    BY DEF SelfLogged
  <2>2. CASE i \in DOMAIN a /\ t[i] = a[i]
    <3>1. PICK j \in DOMAIN a : /\ j < i /\ a[j].op = "log" /\ a[j].what = a[i].what
                                /\ \A l \in DOMAIN a : j < l /\ l < i => a[l].op # "log"
      BY <2>1, <2>2 DEF Piece, SelfLogged, OpenedBefore
    <3>2. ASSUME NEW l \in DOMAIN t, j < l, l < i PROVE t[l].op # "log"
      BY <1>2, <2>2, <3>1, <3>2
    <3> QED
      BY <1>2, <2>2, <3>1, <3>2 DEF OpenedBefore
  <2>3. CASE i > n /\ i - n \in DOMAIN b /\ t[i] = b[i - n]
    <3>1. PICK j \in DOMAIN b : /\ j < i - n /\ b[j].op = "log" /\ b[j].what = b[i - n].what
                                /\ \A l \in DOMAIN b : j < l /\ l < i - n => b[l].op # "log"
      BY <2>1, <2>3 DEF Piece, SelfLogged, OpenedBefore
    <3>2. n + j \in DOMAIN t /\ t[n + j] = b[j] /\ n + j < i
      BY <1>2, <3>1
    <3>3. ASSUME NEW l \in DOMAIN t, n + j < l, l < i PROVE t[l].op # "log"
      <4>1. l > n /\ l - n \in DOMAIN b /\ t[l] = b[l - n]
        BY <1>2, <3>1, <3>3, SMTT(30)
      <4>2. j < l - n /\ l - n < i - n
        BY <1>2, <3>1, <3>3, SMTT(30)
      <4> QED
        BY <3>1, <4>1, <4>2
    <3> QED
      BY <2>3, <3>1, <3>2, <3>3 DEF OpenedBefore
  <2> QED
    BY <1>2, <2>2, <2>3
<1>5. RecordsFollow(t)
  <2>1. SUFFICES ASSUME NEW i \in DOMAIN t, t[i].op = "file", t[i].what # "checklist"
                 PROVE  \E j \in DOMAIN t : i < j /\ t[j] = Record(t[i].what)
    BY DEF RecordsFollow
  <2>2. CASE i \in DOMAIN a /\ t[i] = a[i]
    BY <1>2, <2>1, <2>2 DEF Piece, RecordsFollow
  <2>3. CASE i > n /\ i - n \in DOMAIN b /\ t[i] = b[i - n]
    <3>1. PICK j \in DOMAIN b : i - n < j /\ b[j] = Record(b[i - n].what)
      BY <2>1, <2>3 DEF Piece, RecordsFollow
    <3> QED
      BY <1>2, <2>3, <3>1
  <2> QED
    BY <1>2, <2>2, <2>3
<1>6. \A i \in DOMAIN t : t[i].op = "record" => t[i].what \in ma \cup mb
  BY <1>2 DEF Piece
<1>7. RecordedOnce(t)
  <2>1. SUFFICES ASSUME NEW i \in DOMAIN t, NEW j \in DOMAIN t,
                        t[i].op = "record", t[j].op = "record", t[i].what = t[j].what
                 PROVE  i = j
    BY DEF RecordedOnce
  <2>2. CASE i \in DOMAIN a /\ t[i] = a[i] /\ j \in DOMAIN a /\ t[j] = a[j]
    BY <2>1, <2>2 DEF Piece, RecordedOnce
  <2>3. CASE i - n \in DOMAIN b /\ t[i] = b[i - n] /\ j - n \in DOMAIN b /\ t[j] = b[j - n]
    <3>1. i - n = j - n
      BY <2>1, <2>3 DEF Piece, RecordedOnce
    <3> QED
      BY <1>2, <3>1
  <2>4. ~(/\ i \in DOMAIN a /\ t[i] = a[i] /\ j - n \in DOMAIN b /\ t[j] = b[j - n])
    BY <2>1 DEF Piece
  <2>5. ~(/\ j \in DOMAIN a /\ t[j] = a[j] /\ i - n \in DOMAIN b /\ t[i] = b[i - n])
    BY <2>1 DEF Piece
  <2> QED
    BY <1>2, <2>2, <2>3, <2>4, <2>5
<1> QED
  BY <1>2, <1>3, <1>4, <1>5, <1>6, <1>7 DEF Piece, S, t

(* Steps that neither mark, nor record, nor decide.                        *)
LEMMA PlainPiece ==
  ASSUME NEW k, NEW s, NEW lo \in Int, NEW hi \in Int, lo = hi + 1,
         NEW t \in Seq(StepsOf(k, s)),
         \A i \in DOMAIN t : t[i].op \notin {"mark", "file", "record", "decide"}
  PROVE  Piece(t, k, s, lo, hi, {})
<1>1. lo..hi = {}
  OBVIOUS
<1>2. Marks(t, lo, hi)
  BY <1>1 DEF Marks
<1>3. SelfLogged(t) /\ RecordsFollow(t) /\ RecordedOnce(t)
  BY DEF SelfLogged, RecordsFollow, RecordedOnce
<1> QED
  BY <1>2, <1>3 DEF Piece

(* Steps that do not record or decide, with marks in order.                *)
LEMMA MarkPiece ==
  ASSUME NEW k, NEW s, NEW lo \in Int, NEW hi \in Int, NEW t \in Seq(StepsOf(k, s)),
         Marks(t, lo, hi),
         \A i \in DOMAIN t : t[i].op \notin {"file", "record", "decide"}
  PROVE  Piece(t, k, s, lo, hi, {})
<1>1. SelfLogged(t) /\ RecordsFollow(t) /\ RecordedOnce(t)
  BY DEF SelfLogged, RecordsFollow, RecordedOnce
<1> QED
  BY <1>1 DEF Piece

(* write_artifact.                                                         *)
LEMMA WritePiece ==
  ASSUME NEW k, NEW s, NEW lo \in Int, NEW hi \in Int, lo = hi + 1, NEW a \in Made(k)
  PROVE  Piece(WriteArtifact(a), k, s, lo, hi, {a})
<1> DEFINE t == WriteArtifact(a)
<1>1. File(a) \in StepsOf(k, s) /\ Record(a) \in StepsOf(k, s)
  BY DEF StepsOf, File, Record
<1>2. t = <<File(a), Record(a)>>
  BY DEF WriteArtifact
<1>3. t \in Seq(StepsOf(k, s)) /\ DOMAIN t = {1, 2} /\ t[1] = File(a) /\ t[2] = Record(a)
  BY <1>1, <1>2
<1> HIDE DEF t
<1>4. /\ t[1].op = "file" /\ t[2].op = "record" /\ t[1].what = a /\ t[2].what = a
  BY <1>3 DEF File, Record
<1>5. Marks(t, lo, hi)
  BY <1>3, <1>4 DEF Marks
<1>6. SelfLogged(t) /\ RecordsFollow(t) /\ RecordedOnce(t)
  BY <1>3, <1>4 DEF SelfLogged, RecordsFollow, RecordedOnce
<1> QED
  BY <1>3, <1>4, <1>5, <1>6 DEF Piece, t

-----------------------------------------------------------------------------
(* The rows of the store.                                                  *)

(* A row is of a step that is not performed only if it is about common     *)
(* method bias or respecification.                                         *)
LEMMA OrdinaryRow ==
  ASSUME NEW s, NEW a \in Words, NEW b \in Words, NEW c \in Seq(Text),
         a = "measurement" => b \notin {"cmb", "respecification"}
  PROVE  <<a, b, c>> \in RowIds(s)
<1>1. /\ Outputs[12] = {<<"measurement", "cmb">>} /\ Outputs[20] = {} /\ Outputs[21] = {}
      /\ Outputs[14] = {<<"measurement", "respecification">>}
  BY DEF Outputs
<1>2. NotPerformed(s) \subseteq {12, 14, 20, 21}
  BY DEF NotPerformed
<1>3. \A n \in NotPerformed(s) : <<a, b>> \notin Outputs[n]
  BY <1>1, <1>2
<1>4. <<a, b, c>> \in Words \X Words \X Seq(Text)
  OBVIOUS
<1>5. <<a, b, c>>[1] = a /\ <<a, b, c>>[2] = b
  OBVIOUS
<1> QED
  BY <1>3, <1>4, <1>5 DEF RowIds

(* A code is a text, and so are ids that are made of codes and words.      *)
LEMMA TextsJoin ==
  /\ Code \subseteq Seq(Text)
  /\ \A a, b \in Seq(Text) : a \o b \in Seq(Text)
  /\ \A x \in Words : <<x>> \in Seq(Text)
  /\ \A x, y \in Words : <<x, y>> \in Seq(Text)
<1>1. Words \subseteq Text /\ STRING \subseteq Text
  BY DEF Text
<1> HIDE DEF Text
<1>2. Code \subseteq Seq(Text)
  <2> SUFFICES ASSUME NEW c \in Seq(STRING \ {"->", ".via"}) PROVE c \in Seq(Text)
    BY DEF Code
  <2>1. Len(c) \in Nat /\ c \in [1..Len(c) -> STRING \ {"->", ".via"}]
    OBVIOUS
  <2>2. c \in [1..Len(c) -> Text]
    BY <1>1, <2>1
  <2> QED
    BY <2>1, <2>2, SeqDef
<1>3. \A a, b \in Seq(Text) : a \o b \in Seq(Text)
  OBVIOUS
<1>4. \A x \in Words : <<x>> \in Seq(Text)
  BY <1>1
<1>5. \A x, y \in Words : <<x, y>> \in Seq(Text)
  BY <1>1
<1> QED
  BY <1>2, <1>3, <1>4, <1>5

LEMMA BareRow ==
  ASSUME NEW s, NEW a \in Words, NEW b \in Words,
         a = "measurement" => b \notin {"cmb", "respecification"}
  PROVE  Bare(a, b) \in RowIds(s)
<1>1. <<>> \in Seq(Text)
  OBVIOUS
<1> QED
  BY <1>1, OrdinaryRow DEF Bare

LEMMA RowsPiece ==
  ASSUME NEW k, NEW s, NEW lo \in Int, NEW hi \in Int, lo = hi + 1, NEW ids \in Seq(RowIds(s))
  PROVE  Piece(Rows(ids), k, s, lo, hi, {})
<1> DEFINE t == Rows(ids)
<1>1. Len(ids) \in Nat /\ \A i \in 1..Len(ids) : ids[i] \in RowIds(s)
  OBVIOUS
<1>2. \A r \in RowIds(s) : Row(r) \in StepsOf(k, s) /\ Row(r).op = "row"
  BY DEF Row, StepsOf
<1>3. t \in [1..Len(ids) -> StepsOf(k, s)] /\ \A i \in 1..Len(ids) : t[i].op = "row"
  BY <1>1, <1>2 DEF Rows
<1> HIDE DEF t
<1>4. t \in Seq(StepsOf(k, s)) /\ DOMAIN t = 1..Len(ids)
  BY <1>1, <1>3
<1> QED
  BY <1>3, <1>4, PlainPiece DEF t

(* The pairs of constructs are pairs of constructs.                        *)
LEMMA CellOfGrid ==
  ASSUME NEW n \in Nat, NEW p \in 1..(n * n)
  PROVE  (p - 1) \div n + 1 \in 1..n /\ ((p - 1) % n) + 1 \in 1..n
<1>1. n > 0 /\ n * n \in Nat
  <2>1. n = 0 => n * n = 0
    OBVIOUS
  <2>2. n * n \in Nat
    OBVIOUS
  <2> QED
    BY <2>1, <2>2
<1> DEFINE q == (p - 1) \div n
           r == (p - 1) % n
<1>2. q \in Int /\ r \in 0..(n - 1) /\ p - 1 = n * q + r
  BY <1>1
<1> HIDE DEF q, r
<1>3. q >= 0
  <2> SUFFICES ASSUME q <= -1 PROVE FALSE
    BY <1>2
  <2>1. n * q <= -n
    BY <1>1, <1>2
  <2> QED
    BY <1>2, <2>1
<1>4. q < n
  <2> SUFFICES ASSUME q >= n PROVE FALSE
    BY <1>2
  <2>1. n * q >= n * n
    BY <1>1, <1>2
  <2> QED
    BY <1>1, <1>2, <2>1
<1> QED
  BY <1>2, <1>3, <1>4 DEF q, r

LEMMA PairsType ==
  ASSUME NEW cs \in Seq(Code)
  PROVE  PairsOf(cs) \in Seq(Code \X Code)
<1> DEFINE n == Len(cs)
           row(p) == (p - 1) \div n + 1
           col(p) == ((p - 1) % n) + 1
           grid == [p \in 1..(n * n) |-> <<cs[row(p)], cs[col(p)]>>]
           above == {p \in 1..(n * n) : row(p) < col(p)}
<1>1. n \in Nat /\ n * n \in Nat /\ \A i \in 1..n : cs[i] \in Code
  OBVIOUS
<1>2. \A p \in 1..(n * n) : row(p) \in 1..n /\ col(p) \in 1..n
  BY <1>1, CellOfGrid
<1> HIDE DEF row, col
<1>3. grid \in [1..(n * n) -> Code \X Code]
  BY <1>1, <1>2
<1>4. above \in SUBSET (1..(n * n))
  OBVIOUS
<1> HIDE DEF grid, above, n
<1>5. grid \in Seq(Code \X Code) /\ DOMAIN grid = 1..(n * n)
  BY <1>1, <1>3
<1>6. EntriesAt(grid, above) \in Seq(Code \X Code)
  BY <1>4, <1>5, EntriesAtPositions
<1> QED
  BY <1>6 DEF PairsOf, grid, above, n, row, col

LEMMA ArrowType ==
  ASSUME NEW a \in Code, NEW b \in Code
  PROVE  Arrow(a, b) \in Seq(Text)
<1>1. "->" \in Words
  BY DEF Words
<1>2. a \in Seq(Text) /\ b \in Seq(Text) /\ <<"->">> \in Seq(Text)
  BY <1>1, TextsJoin
<1>3. a \o <<"->">> \in Seq(Text)
  BY <1>2, TextsJoin
<1> QED
  BY <1>2, <1>3, TextsJoin DEF Arrow

(* The ids of the rows every study has.                                    *)
PowerIds ==
  <<<<"power", "close_fit", <<"estimate">>>>, <<"power", "n_to_q", <<"ratio">>>>,
    Bare("power", "montecarlo")>>

PrepIds ==
  <<Bare("prep", "n_chain"), Bare("prep", "screening"),
    Bare("prep", "missingness"), Bare("prep", "outliers")>>

AssumptionsIds ==
  << <<"assumptions", "normality", <<"mardia_skew_p">>>>,
     <<"assumptions", "normality", <<"mardia_kurtosis_p">>>>,
     <<"assumptions", "normality", <<"max_abs_skewness">>>>,
     <<"assumptions", "normality", <<"max_abs_kurtosis">>>>,
     Bare("assumptions", "collinearity"), Bare("assumptions", "estimator")>>

RobustnessIds ==
  << <<"robustness", "alternatives", <<"reversed_paths", "delta_aic">>>>,
     <<"robustness", "alternatives", <<"reversed_paths", "delta_bic">>>>,
     <<"robustness", "alternatives", <<"reversed_paths", "preferred">>>>,
     Bare("robustness", "achieved_power")>>

LEMMA FixedIds ==
  ASSUME NEW s
  PROVE  /\ PowerIds \in Seq(RowIds(s)) /\ PrepIds \in Seq(RowIds(s))
         /\ AssumptionsIds \in Seq(RowIds(s)) /\ RobustnessIds \in Seq(RowIds(s))
<1>1. \A x \in Words : <<x>> \in Seq(Text)
  BY TextsJoin
<1>2. \A x, y \in Words : <<x, y>> \in Seq(Text)
  BY TextsJoin
<1>3. PowerIds \in Seq(RowIds(s))
  <2>1. {"power", "close_fit", "estimate", "n_to_q", "ratio", "montecarlo"} \subseteq Words
    BY DEF Words
  <2>2. <<"power", "close_fit", <<"estimate">>>> \in RowIds(s)
    BY <1>1, <2>1, OrdinaryRow
  <2>3. <<"power", "n_to_q", <<"ratio">>>> \in RowIds(s)
    BY <1>1, <2>1, OrdinaryRow
  <2>4. Bare("power", "montecarlo") \in RowIds(s)
    BY <2>1, BareRow
  <2> QED
    BY <2>2, <2>3, <2>4 DEF PowerIds
<1>4. PrepIds \in Seq(RowIds(s))
  <2>1. {"prep", "n_chain", "screening", "missingness", "outliers"} \subseteq Words
    BY DEF Words
  <2>2. /\ Bare("prep", "n_chain") \in RowIds(s) /\ Bare("prep", "screening") \in RowIds(s)
        /\ Bare("prep", "missingness") \in RowIds(s) /\ Bare("prep", "outliers") \in RowIds(s)
    BY <2>1, BareRow
  <2> QED
    BY <2>2 DEF PrepIds
<1>5. AssumptionsIds \in Seq(RowIds(s))
  <2>1. {"assumptions", "normality", "mardia_skew_p", "mardia_kurtosis_p", "max_abs_skewness",
         "max_abs_kurtosis", "collinearity", "estimator"} \subseteq Words
    BY DEF Words
  <2>2. \A x \in Words : <<"assumptions", "normality", <<x>>>> \in RowIds(s)
    BY <1>1, <2>1, OrdinaryRow
  <2>3. /\ Bare("assumptions", "collinearity") \in RowIds(s)
        /\ Bare("assumptions", "estimator") \in RowIds(s)
    BY <2>1, BareRow
  <2> QED
    BY <2>1, <2>2, <2>3 DEF AssumptionsIds
<1>6. RobustnessIds \in Seq(RowIds(s))
  <2>1. {"robustness", "alternatives", "reversed_paths", "delta_aic", "delta_bic",
         "preferred", "achieved_power"} \subseteq Words
    BY DEF Words
  <2>2. \A x, y \in Words : <<"robustness", "alternatives", <<x, y>>>> \in RowIds(s)
    BY <1>2, <2>1, OrdinaryRow
  <2>3. Bare("robustness", "achieved_power") \in RowIds(s)
    BY <2>1, BareRow
  <2> QED
    BY <2>1, <2>2, <2>3 DEF RobustnessIds
<1> QED
  BY <1>3, <1>4, <1>5, <1>6

LEMMA FixedRows ==
  ASSUME NEW k, NEW s, NEW lo \in Int, NEW hi \in Int, lo = hi + 1
  PROVE  /\ Piece(PowerRows, k, s, lo, hi, {})
         /\ Piece(PrepRows, k, s, lo, hi, {})
         /\ Piece(AssumptionsRows, k, s, lo, hi, {})
         /\ Piece(RobustnessRows, k, s, lo, hi, {})
<1>1. /\ PowerRows = Rows(PowerIds) /\ PrepRows = Rows(PrepIds)
      /\ AssumptionsRows = Rows(AssumptionsIds) /\ RobustnessRows = Rows(RobustnessIds)
  BY DEF PowerRows, PrepRows, AssumptionsRows, RobustnessRows, PowerIds, PrepIds,
         AssumptionsIds, RobustnessIds
<1>2. /\ PowerIds \in Seq(RowIds(s)) /\ PrepIds \in Seq(RowIds(s))
      /\ AssumptionsIds \in Seq(RowIds(s)) /\ RobustnessIds \in Seq(RowIds(s))
  BY FixedIds
<1>3. /\ Piece(Rows(PowerIds), k, s, lo, hi, {}) /\ Piece(Rows(PrepIds), k, s, lo, hi, {})
  BY <1>2, RowsPiece
<1>4. /\ Piece(Rows(AssumptionsIds), k, s, lo, hi, {})
      /\ Piece(Rows(RobustnessIds), k, s, lo, hi, {})
  BY <1>2, RowsPiece
<1> QED
  BY <1>1, <1>3, <1>4

(* The ids of the rows that depend on the study, family by family.         *)
LoadingIds(s) ==
  [i \in 1..Len(EachOnce(s.constructs)) |->
    <<"measurement", "loadings", EachOnce(s.constructs)[i]>>]

ValidityIds(s) ==
  [i \in 1..(2 * Len(s.constructs)) |->
    <<"measurement", IF i % 2 = 1 THEN "reliability" ELSE "convergent",
      s.constructs[(i + 1) \div 2]>>]

DiscriminantIds(s) ==
  [i \in 1..Len(PairsOf(s.constructs)) |->
    <<"measurement", "discriminant",
      PairsOf(s.constructs)[i][1] \o PairsOf(s.constructs)[i][2]>>]

FitIds ==
  [i \in 1..5 |-> <<"structural", "fit", <<(<<"chisq", "cfi", "tli", "rmsea", "srmr">>)[i]>>>>]

Links(s) == EachOnce(s.direct)

Ends(s) == EachOnce([i \in 1..Len(Links(s)) |-> Links(s)[i][2]])

PathIds(s) ==
  [i \in 1..Len(Links(s)) |-> <<"structural", "path", Arrow(Links(s)[i][1], Links(s)[i][2])>>]

SquareIds(s) == [i \in 1..Len(Ends(s)) |-> <<"structural", "r_squared", Ends(s)[i]>>]

DirectIds(s) ==
  [i \in 1..Len(Links(s)) |-> <<"effects", "direct", Arrow(Links(s)[i][1], Links(s)[i][2])>>]

(* Three rows for an indirect hypothesis.                                  *)
OfSlot(p) == (p + 2) \div 3

KindOf(p) == (<<"indirect", "total", "classification">>)[((p - 1) % 3) + 1]

SlotId(s, p) ==
  LET h == s.indirect[OfSlot(p)]
  IN  <<"effects", KindOf(p),
        IF KindOf(p) = "total" THEN Arrow(h[1], h[3])
        ELSE Arrow(h[1], h[3]) \o <<".via">> \o h[2]>>

SlotIds(s) == [p \in 1..(3 * Len(s.indirect)) |-> SlotId(s, p)]

SlotsUsed(s) ==
  {p \in 1..(3 * Len(s.indirect)) : KindOf(p) = "total" => HasTotal(s, OfSlot(p))}

LEMMA RowsByFamily ==
  ASSUME NEW s
  PROVE  /\ MeasurementRows(s) = Rows(<<Bare("measurement", "spec")>> \o LoadingIds(s)
              \o ValidityIds(s) \o DiscriminantIds(s)
              \o <<Bare("measurement", "item_deletion")>>)
         /\ StructuralRows(s) = Rows(FitIds \o PathIds(s) \o SquareIds(s))
         /\ EffectsRows(s) = Rows(DirectIds(s) \o EntriesAt(SlotIds(s), SlotsUsed(s)))
<1>1. MeasurementRows(s) = Rows(<<Bare("measurement", "spec")>> \o LoadingIds(s)
        \o ValidityIds(s) \o DiscriminantIds(s) \o <<Bare("measurement", "item_deletion")>>)
  BY DEF MeasurementRows, LoadingIds, ValidityIds, DiscriminantIds
<1>2. StructuralRows(s) = Rows(FitIds \o PathIds(s) \o SquareIds(s))
  BY DEF StructuralRows, FitIds, PathIds, SquareIds, Links, Ends
<1>3. EffectsRows(s) = Rows(DirectIds(s) \o EntriesAt(SlotIds(s), SlotsUsed(s)))
  BY DEF EffectsRows, DirectIds, SlotIds, SlotId, SlotsUsed, OfSlot, KindOf, Links
<1> QED
  BY <1>1, <1>2, <1>3

LEMMA MeasurementIds ==
  ASSUME NEW s \in Study
  PROVE  /\ LoadingIds(s) \in Seq(RowIds(s)) /\ ValidityIds(s) \in Seq(RowIds(s))
         /\ DiscriminantIds(s) \in Seq(RowIds(s))
         /\ <<Bare("measurement", "spec")>> \in Seq(RowIds(s))
         /\ <<Bare("measurement", "item_deletion")>> \in Seq(RowIds(s))
<1> DEFINE cs == s.constructs
           items == EachOnce(cs)
           ps == PairsOf(cs)
           R  == RowIds(s)
<1>1. cs \in Seq(Code) /\ Len(cs) \in Nat /\ \A i \in 1..Len(cs) : cs[i] \in Code
  BY DEF Study
<1>w. {"measurement", "spec", "loadings", "reliability", "convergent", "discriminant",
       "item_deletion"} \subseteq Words
  BY DEF Words
<1>2. LoadingIds(s) \in Seq(R)
  <2>1. items \in Seq(Code)
    BY <1>1, EachOnceFacts
  <2>2. Len(items) \in Nat /\ \A i \in 1..Len(items) : items[i] \in Code
    BY <2>1
  <2>3. \A i \in 1..Len(items) : <<"measurement", "loadings", items[i]>> \in R
    BY <2>2, <1>w, TextsJoin, OrdinaryRow
  <2>4. LoadingIds(s) \in [1..Len(items) -> R]
    BY <2>3 DEF LoadingIds
  <2> HIDE DEF R, cs, items
  <2> QED
    BY <2>2, <2>4
<1>3. ValidityIds(s) \in Seq(R)
  <2>1. \A i \in 1..(2 * Len(cs)) : (i + 1) \div 2 \in 1..Len(cs)
    BY <1>1
  <2>2. \A i \in 1..(2 * Len(cs)) :
          <<"measurement", IF i % 2 = 1 THEN "reliability" ELSE "convergent",
            cs[(i + 1) \div 2]>> \in R
    BY <1>1, <1>w, <2>1, TextsJoin, OrdinaryRow
  <2>3. ValidityIds(s) \in [1..(2 * Len(cs)) -> R]
    BY <2>2 DEF ValidityIds
  <2> HIDE DEF R, cs
  <2>4. 2 * Len(cs) \in Nat
    BY <1>1
  <2> QED
    BY <2>3, <2>4
<1>4. DiscriminantIds(s) \in Seq(R)
  <2>1. ps \in Seq(Code \X Code) /\ Len(ps) \in Nat
    BY <1>1, PairsType
  <2>2. \A i \in 1..Len(ps) : ps[i][1] \in Code /\ ps[i][2] \in Code
    BY <2>1
  <2>3. \A a, b \in Code : a \o b \in Seq(Text)
    BY TextsJoin
  <2>4. \A i \in 1..Len(ps) : <<"measurement", "discriminant", ps[i][1] \o ps[i][2]>> \in R
    BY <1>w, <2>2, <2>3, OrdinaryRow
  <2>5. DiscriminantIds(s) \in [1..Len(ps) -> R]
    BY <2>4 DEF DiscriminantIds
  <2> HIDE DEF R, ps
  <2> QED
    BY <2>1, <2>5
<1>5. <<Bare("measurement", "spec")>> \in Seq(R) /\ <<Bare("measurement", "item_deletion")>> \in Seq(R)
  <2>1. Bare("measurement", "spec") \in R /\ Bare("measurement", "item_deletion") \in R
    BY <1>w, BareRow
  <2> QED
    BY <2>1
<1> QED
  BY <1>2, <1>3, <1>4, <1>5

LEMMA MeasurementRowsPiece ==
  ASSUME NEW k, NEW s \in Study, NEW lo \in Int, NEW hi \in Int, lo = hi + 1
  PROVE  Piece(MeasurementRows(s), k, s, lo, hi, {})
<1>1. PICK R : R = RowIds(s)
  OBVIOUS
<1>2. <<Bare("measurement", "spec")>> \o LoadingIds(s) \o ValidityIds(s) \o DiscriminantIds(s)
        \o <<Bare("measurement", "item_deletion")>> \in Seq(R)
  BY <1>1, MeasurementIds
<1> QED
  BY <1>1, <1>2, RowsPiece, RowsByFamily

(* The links and their ends.                                               *)
LEMMA LinkTypes ==
  ASSUME NEW s \in Study
  PROVE  /\ Links(s) \in Seq(Code \X Code) /\ Len(Links(s)) \in Nat
         /\ \A i \in 1..Len(Links(s)) : Links(s)[i][1] \in Code /\ Links(s)[i][2] \in Code
         /\ [i \in 1..Len(Links(s)) |-> Links(s)[i][2]] \in Seq(Code)
         /\ Ends(s) \in Seq(Code) /\ Len(Ends(s)) \in Nat
         /\ \A i \in 1..Len(Ends(s)) : Ends(s)[i] \in Code
<1>1. s.direct \in Seq(Code \X Code)
  BY DEF Study
<1>2. Links(s) \in Seq(Code \X Code)
  BY <1>1, EachOnceFacts DEF Links
<1>3. Len(Links(s)) \in Nat /\ \A i \in 1..Len(Links(s)) : Links(s)[i] \in Code \X Code
  BY <1>2
<1>4. \A i \in 1..Len(Links(s)) : Links(s)[i][1] \in Code /\ Links(s)[i][2] \in Code
  BY <1>3
<1>5. PICK e : e = [i \in 1..Len(Links(s)) |-> Links(s)[i][2]]
  OBVIOUS
<1>6. e \in [1..Len(Links(s)) -> Code]
  BY <1>4, <1>5
<1>7. e \in Seq(Code)
  BY <1>3, <1>6
<1>8. Ends(s) \in Seq(Code)
  BY <1>5, <1>7, EachOnceFacts DEF Ends
<1>9. Len(Ends(s)) \in Nat /\ \A i \in 1..Len(Ends(s)) : Ends(s)[i] \in Code
  BY <1>8
<1> QED
  BY <1>2, <1>3, <1>4, <1>5, <1>7, <1>8, <1>9

LEMMA StructuralIds ==
  ASSUME NEW s \in Study
  PROVE  /\ FitIds \in Seq(RowIds(s)) /\ PathIds(s) \in Seq(RowIds(s))
         /\ SquareIds(s) \in Seq(RowIds(s))
<1> DEFINE R == RowIds(s)
<1>w. {"structural", "fit", "path", "r_squared", "chisq", "cfi", "tli", "rmsea", "srmr"}
        \subseteq Words
  BY DEF Words
<1>2. FitIds \in Seq(R)
  <2>1. \A i \in 1..5 : <<(<<"chisq", "cfi", "tli", "rmsea", "srmr">>)[i]>> \in Seq(Text)
    BY <1>w, TextsJoin
  <2>2. \A i \in 1..5 :
          <<"structural", "fit", <<(<<"chisq", "cfi", "tli", "rmsea", "srmr">>)[i]>>>> \in R
    BY <1>w, <2>1, OrdinaryRow
  <2>3. PICK n \in Nat : n = 5
    OBVIOUS
  <2>4. FitIds \in [1..n -> R]
    BY <2>2, <2>3 DEF FitIds
  <2> HIDE DEF R
  <2> QED
    BY <2>4
<1>3. PathIds(s) \in Seq(R)
  <2>1. \A i \in 1..Len(Links(s)) :
          <<"structural", "path", Arrow(Links(s)[i][1], Links(s)[i][2])>> \in R
    BY <1>w, LinkTypes, ArrowType, OrdinaryRow
  <2>2. PICK m \in Nat : m = Len(Links(s))
    BY LinkTypes
  <2>3. PathIds(s) \in [1..m -> R]
    BY <2>1, <2>2 DEF PathIds
  <2> HIDE DEF R
  <2> QED
    BY <2>3
<1>4. SquareIds(s) \in Seq(R)
  <2>1. \A i \in 1..Len(Ends(s)) : <<"structural", "r_squared", Ends(s)[i]>> \in R
    BY <1>w, LinkTypes, TextsJoin, OrdinaryRow
  <2>2. SquareIds(s) \in [1..Len(Ends(s)) -> R]
    BY <2>1 DEF SquareIds
  <2> HIDE DEF R
  <2> QED
    BY <2>2, LinkTypes
<1> QED
  BY <1>2, <1>3, <1>4

LEMMA StructuralRowsPiece ==
  ASSUME NEW k, NEW s \in Study, NEW lo \in Int, NEW hi \in Int, lo = hi + 1
  PROVE  Piece(StructuralRows(s), k, s, lo, hi, {})
<1>1. PICK R : R = RowIds(s)
  OBVIOUS
<1>2. FitIds \o PathIds(s) \o SquareIds(s) \in Seq(R)
  BY <1>1, StructuralIds
<1> QED
  BY <1>1, <1>2, RowsPiece, RowsByFamily

(* The hypotheses and the slots of their rows.                             *)
LEMMA SlotTypes ==
  ASSUME NEW s \in Study, NEW p \in 1..(3 * Len(s.indirect))
  PROVE  /\ OfSlot(p) \in 1..Len(s.indirect) /\ Len(s.indirect) \in Nat
         /\ KindOf(p) \in {"indirect", "total", "classification"}
         /\ s.indirect[OfSlot(p)][1] \in Code /\ s.indirect[OfSlot(p)][2] \in Code
         /\ s.indirect[OfSlot(p)][3] \in Code
<1>1. /\ s.indirect \in Seq(Code \X Code \X Code) /\ Len(s.indirect) \in Nat
      /\ \A i \in 1..Len(s.indirect) :
           /\ s.indirect[i][1] \in Code /\ s.indirect[i][2] \in Code
           /\ s.indirect[i][3] \in Code
  BY DEF Study
<1>2. OfSlot(p) \in 1..Len(s.indirect)
  <2>1. PICK n \in Nat : n = Len(s.indirect)
    BY <1>1
  <2>2. p \in 1..(3 * n)
    BY <2>1
  <2>3. (p + 2) \div 3 \in 1..n
    BY <2>2
  <2> QED
    BY <2>1, <2>3 DEF OfSlot
<1>3. KindOf(p) \in {"indirect", "total", "classification"}
  BY <1>1 DEF KindOf
<1> QED
  BY <1>1, <1>2, <1>3

LEMMA EffectsIds ==
  ASSUME NEW s \in Study
  PROVE  /\ DirectIds(s) \in Seq(RowIds(s)) /\ SlotIds(s) \in Seq(RowIds(s))
         /\ SlotsUsed(s) \in SUBSET DOMAIN SlotIds(s)
         /\ EntriesAt(SlotIds(s), SlotsUsed(s)) \in Seq(RowIds(s))
<1> DEFINE R == RowIds(s)
<1>w. {"effects", "direct", "indirect", "total", "classification", ".via"} \subseteq Words
  BY DEF Words
<1>1. DirectIds(s) \in Seq(R)
  <2>1. \A i \in 1..Len(Links(s)) :
          <<"effects", "direct", Arrow(Links(s)[i][1], Links(s)[i][2])>> \in R
    BY <1>w, LinkTypes, ArrowType, OrdinaryRow
  <2>2. DirectIds(s) \in [1..Len(Links(s)) -> R]
    BY <2>1 DEF DirectIds
  <2> HIDE DEF R
  <2> QED
    BY <2>2, LinkTypes
<1>2. \A p \in 1..(3 * Len(s.indirect)) : SlotId(s, p) \in R
  <2> SUFFICES ASSUME NEW p \in 1..(3 * Len(s.indirect)) PROVE SlotId(s, p) \in R
    OBVIOUS
  <2>1. PICK h : h = s.indirect[OfSlot(p)]
    OBVIOUS
  <2>2. h[1] \in Code /\ h[2] \in Code /\ h[3] \in Code
    BY <2>1, SlotTypes
  <2>3. Arrow(h[1], h[3]) \in Seq(Text) /\ h[2] \in Seq(Text) /\ <<".via">> \in Seq(Text)
    BY <1>w, <2>2, ArrowType, TextsJoin
  <2>4. Arrow(h[1], h[3]) \o <<".via">> \o h[2] \in Seq(Text)
    BY <2>3, TextsJoin
  <2>5. KindOf(p) \in Words
    BY <1>w, SlotTypes
  <2>6. PICK c \in Seq(Text) : c = IF KindOf(p) = "total" THEN Arrow(h[1], h[3])
                                   ELSE Arrow(h[1], h[3]) \o <<".via">> \o h[2]
    BY <2>3, <2>4
  <2>7. SlotId(s, p) = <<"effects", KindOf(p), c>>
    BY <2>1, <2>6 DEF SlotId
  <2> QED
    BY <1>w, <2>5, <2>7, OrdinaryRow
<1>3. SlotIds(s) \in Seq(R)
  <2>1. SlotIds(s) \in [1..(3 * Len(s.indirect)) -> R]
    BY <1>2 DEF SlotIds
  <2>2. 3 * Len(s.indirect) \in Nat
    BY DEF Study
  <2> HIDE DEF R
  <2> QED
    BY <2>1, <2>2
<1>4. SlotsUsed(s) \in SUBSET DOMAIN SlotIds(s)
  BY DEF SlotsUsed, SlotIds
<1>5. EntriesAt(SlotIds(s), SlotsUsed(s)) \in Seq(R)
  BY <1>3, <1>4, EntriesAtPositions
<1> QED
  BY <1>1, <1>3, <1>4, <1>5

LEMMA EffectsRowsPiece ==
  ASSUME NEW k, NEW s \in Study, NEW lo \in Int, NEW hi \in Int, lo = hi + 1
  PROVE  Piece(EffectsRows(s), k, s, lo, hi, {})
<1>1. PICK R : R = RowIds(s)
  OBVIOUS
<1>2. DirectIds(s) \o EntriesAt(SlotIds(s), SlotsUsed(s)) \in Seq(R)
  BY <1>1, EffectsIds
<1> QED
  BY <1>1, <1>2, RowsPiece, RowsByFamily

-----------------------------------------------------------------------------
(* The programs of the stages.                                             *)

(* The same entries in one sequence and in two.                            *)
LEMMA NamedJoin ==
  ASSUME NEW S, NEW a \in Seq(S), NEW b \in Seq(S)
  PROVE  Named(a \o b) = Named(a) \cup Named(b)
<1> DEFINE t == a \o b
<1>1. /\ \A i \in DOMAIN a : i \in DOMAIN t /\ t[i] = a[i]
      /\ \A i \in DOMAIN b : Len(a) + i \in DOMAIN t /\ t[Len(a) + i] = b[i]
      /\ \A i \in DOMAIN t : \/ i \in DOMAIN a /\ t[i] = a[i]
                             \/ i - Len(a) \in DOMAIN b /\ t[i] = b[i - Len(a)]
  BY Joined
<1> HIDE DEF t
<1>2. Named(t) = Named(a) \cup Named(b)
  BY <1>1 DEF Named
<1> QED
  BY <1>2 DEF t

LEMMA OwnCompleted ==
  ASSUME NEW s, NEW n, n \notin NotPerformed(s)
  PROVE  [step |-> n, status |-> "completed"] = Own(s, n)
  BY DEF Own

LEMMA OwnFlagged ==
  ASSUME NEW s, NEW n \in NotPerformed(s)
  PROVE  [step |-> n, status |-> "flagged"] = Own(s, n)
  BY DEF Own

(* Which steps a stage may have.                                           *)
LEMMA StepTypes ==
  ASSUME NEW k, NEW s
  PROVE  /\ \A a \in Consumes[k] : Read(a) \in StepsOf(k, s)
         /\ \A a \in Made(k) : File(a) \in StepsOf(k, s)
         /\ \A w \in Words : Compute(w) \in StepsOf(k, s) /\ Call(w) \in StepsOf(k, s)
         /\ \A w \in Words, m \in Nat : CallNth(w, m) \in StepsOf(k, s)
         /\ \A r \in RowIds(s) : Row(r) \in StepsOf(k, s)
         /\ Journal \in StepsOf(k, s) /\ Render \in StepsOf(k, s)
         /\ \A h \in Handles : OpenLog(h) \in StepsOf(k, s) /\ Decide(h) \in StepsOf(k, s)
         /\ Refused(k, s) =>
              \A x \in {"HALTED_GATE", "COMPLETED_TO_BOUNDARY", "HALTED_INTEGRITY"} :
                Stop(x) \in StepsOf(k, s)
<1>1. /\ \A a \in Consumes[k] : Read(a) \in StepsOf(k, s)
      /\ \A a \in Made(k) : File(a) \in StepsOf(k, s)
  BY DEF StepsOf, Read, File
<1>2. \A w \in Words : Compute(w) \in StepsOf(k, s) /\ Call(w) \in StepsOf(k, s)
  BY DEF StepsOf, Compute, Call
<1>3. \A w \in Words, m \in Nat : CallNth(w, m) \in StepsOf(k, s)
  BY DEF StepsOf, CallNth
<1>4. \A r \in RowIds(s) : Row(r) \in StepsOf(k, s)
  BY DEF StepsOf, Row
<1>5. Journal \in StepsOf(k, s) /\ Render \in StepsOf(k, s)
  BY DEF StepsOf, Journal, Render
<1>6. \A h \in Handles : OpenLog(h) \in StepsOf(k, s) /\ Decide(h) \in StepsOf(k, s)
  BY DEF StepsOf, OpenLog, Decide
<1>7. Refused(k, s) =>
        \A x \in {"HALTED_GATE", "COMPLETED_TO_BOUNDARY", "HALTED_INTEGRITY"} :
          Stop(x) \in StepsOf(k, s)
  BY DEF StepsOf, Stop
<1> QED
  BY <1>1, <1>2, <1>3, <1>4, <1>5, <1>6, <1>7

LEMMA MarkTypes ==
  ASSUME NEW k, NEW s, ~Refused(k, s), NEW n \in FirstStep[k]..LastStep[k]
  PROVE  /\ n \notin NotPerformed(s) => Mark(n, "completed") \in StepsOf(k, s)
         /\ n \in NotPerformed(s) => Mark(n, "flagged") \in StepsOf(k, s)
<1>1. [op |-> "mark", what |-> Own(s, n)] \in StepsOf(k, s)
  BY DEF StepsOf
<1> QED
  BY <1>1, OwnCompleted, OwnFlagged DEF Mark

LEMMA StepOps ==
  /\ \A a : Read(a).op = "read" /\ Compute(a).op = "compute" /\ Call(a).op = "call"
  /\ \A a : Row(a).op = "row" /\ OpenLog(a).op = "log" /\ OpenLog(a).what = a
  /\ \A a : Decide(a).op = "decide" /\ Decide(a).what = a /\ Stop(a).op = "stop"
  /\ \A a, m : CallNth(a, m).op = "call"
  /\ \A n, st : Mark(n, st).op = "mark" /\ Mark(n, st).what.step = n
  /\ Journal.op = "journal" /\ Render.op = "render"
  BY DEF Read, Compute, Call, Row, OpenLog, Decide, Stop, CallNth, Mark, Journal, Render

(* One step after the other is marked.                                     *)
LEMMA MarksInARow ==
  ASSUME NEW n \in Int, NEW c \in Nat, NEW t, DOMAIN t = 1..(c + 1), t[1].op # "mark",
         \A i \in 2..(c + 1) : t[i].op = "mark" /\ t[i].what.step = n + i - 2
  PROVE  Marks(t, n, n + c - 1)
<1>1. ASSUME NEW x \in n..(n + c - 1)
      PROVE  \E i \in DOMAIN t : t[i].op = "mark" /\ t[i].what.step = x
  <2>1. PICK i \in 2..(c + 1) : n + i - 2 = x
    <3>1. x - n + 2 \in 2..(c + 1) /\ n + (x - n + 2) - 2 = x
      OBVIOUS
    <3> QED
      BY <3>1
  <2>2. i \in DOMAIN t /\ t[i].op = "mark" /\ t[i].what.step = x
    BY <2>1
  <2> QED
    BY <2>2
<1>2. \A i \in DOMAIN t : t[i].op = "mark" => i \in 2..(c + 1)
  OBVIOUS
<1>3. \A i \in DOMAIN t : t[i].op = "mark" => t[i].what.step \in n..(n + c - 1)
  BY <1>2
<1>4. \A i, j \in DOMAIN t :
        i < j /\ t[i].op = "mark" /\ t[j].op = "mark" => t[i].what.step < t[j].what.step
  BY <1>2
<1> QED
  BY <1>1, <1>3, <1>4 DEF Marks

(* A program does what the stage is there for, or stops.                   *)
Sound(t, k, s) ==
  /\ Piece(t, k, s, FirstStep[k], LastStep[k], Made(k))
  /\ Stops(t) \/ \A a \in Produces[k] : File(a) \in Named(t)

(* What is recorded is of the stage, because the steps are.                *)
LEMMA SoundPiece ==
  ASSUME NEW k, NEW s, NEW made, NEW t, Piece(t, k, s, FirstStep[k], LastStep[k], made)
  PROVE  Piece(t, k, s, FirstStep[k], LastStep[k], Made(k))
<1>1. \A i \in DOMAIN t : t[i] \in StepsOf(k, s)
  BY DEF Piece
<1>2. \A i \in DOMAIN t : t[i].op = "record" => t[i].what \in Made(k)
  BY <1>1, StepKinds
<1> QED
  BY <1>2 DEF Piece

(* Steps that write the artifact of the stage, among others that record    *)
(* nothing.                                                                *)
Part(t, k, s, lo, hi, a) == Piece(t, k, s, lo, hi, {a}) /\ File(a) \in Named(t)

LEMMA PartBegins ==
  ASSUME NEW k, NEW s, NEW lo \in Int, NEW hi \in Int, lo = hi + 1, NEW a \in Made(k),
         NEW before, Piece(before, k, s, lo, hi, {})
  PROVE  Part(before \o WriteArtifact(a), k, s, lo, hi, a)
<1> DEFINE w == WriteArtifact(a)
<1>1. Piece(w, k, s, lo, hi, {a})
  BY WritePiece
<1>2. 1 \in DOMAIN w /\ w[1] = File(a)
  BY DEF WriteArtifact
<1>3. File(a) \in Named(w)
  BY <1>2 DEF Named
<1> HIDE DEF w
<1>4. Piece(before \o w, k, s, lo, hi, {} \cup {a})
  <2>1. lo <= hi + 1 /\ hi <= hi /\ {} \cap {a} = {}
    OBVIOUS
  <2> QED
    BY <1>1, <2>1, JoinPieces
<1>5. Named(before \o w) = Named(before) \cup Named(w)
  BY <1>1, NamedJoin DEF Piece
<1>6. {} \cup {a} = {a}
  OBVIOUS
<1> QED
  BY <1>3, <1>4, <1>5, <1>6 DEF Part, w

LEMMA PartGoesOn ==
  ASSUME NEW k, NEW s, NEW lo \in Int, NEW m \in Int, NEW n \in Int, NEW hi \in Int, n = m + 1,
         lo <= n, m <= hi,
         NEW a, NEW t, Part(t, k, s, lo, m, a), NEW u, Piece(u, k, s, n, hi, {})
  PROVE  Part(t \o u, k, s, lo, hi, a)
<1>1. Piece(t, k, s, lo, m, {a}) /\ Piece(u, k, s, m + 1, hi, {})
  BY DEF Part
<1>2. Piece(t \o u, k, s, lo, hi, {a} \cup {})
  <2>1. lo <= m + 1 /\ {a} \cap {} = {}
    OBVIOUS
  <2> QED
    BY <1>1, <2>1, JoinPieces
<1>3. Named(t \o u) = Named(t) \cup Named(u)
  BY <1>1, NamedJoin DEF Piece
<1>4. {a} \cup {} = {a}
  OBVIOUS
<1> QED
  BY <1>2, <1>3, <1>4 DEF Part

LEMMA PartIsSound ==
  ASSUME NEW k, NEW s, NEW a, NEW lo, NEW hi,
         Produces[k] = {a}, FirstStep[k] = lo, LastStep[k] = hi,
         NEW t, Part(t, k, s, lo, hi, a)
  PROVE  Sound(t, k, s)
<1>1. Piece(t, k, s, FirstStep[k], LastStep[k], Made(k))
  BY SoundPiece DEF Part
<1> QED
  BY <1>1 DEF Sound, Part

LEMMA PlainGoesOn ==
  ASSUME NEW k, NEW s, NEW lo \in Int, NEW m \in Int, NEW n \in Int, NEW hi \in Int, n = m + 1,
         lo <= n, m <= hi,
         NEW t, Piece(t, k, s, lo, m, {}), NEW u, Piece(u, k, s, n, hi, {})
  PROVE  Piece(t \o u, k, s, lo, hi, {})
<1>1. lo <= m + 1 /\ {} \cap {} = {} /\ {} \cup {} = {}
  OBVIOUS
<1>2. Piece(t \o u, k, s, lo, hi, {} \cup {})
  BY <1>1, JoinPieces
<1> QED
  BY <1>1, <1>2

(* A stage that records nothing.                                           *)
LEMMA SilentProgram ==
  ASSUME NEW k, NEW s, NEW lo, NEW hi,
         Produces[k] = {}, FirstStep[k] = lo, LastStep[k] = hi,
         NEW t, Piece(t, k, s, lo, hi, {})
  PROVE  Sound(t, k, s)
  BY SoundPiece DEF Sound

LEMMA StageTable ==
  /\ FirstStep[1] = 1 /\ LastStep[1] = 0 /\ Produces[1] = {"ingest"}
  /\ FirstStep[2] = 1 /\ LastStep[2] = 0 /\ Produces[2] = {"config"}
  /\ FirstStep[3] = 1 /\ LastStep[3] = 0 /\ Produces[3] = {"verdict1"} /\ Consumes[3] = {"config"}
  /\ FirstStep[4] = 1 /\ LastStep[4] = 1 /\ Produces[4] = {} /\ Consumes[4] = {"config", "ingest"}
  /\ FirstStep[5] = 2 /\ LastStep[5] = 4 /\ Produces[5] = {"frame"} /\ Consumes[5] = {"config"}
  /\ FirstStep[6] = 5 /\ LastStep[6] = 7 /\ Produces[6] = {} /\ Consumes[6] = {"frame"}
  /\ FirstStep[7] = 8 /\ LastStep[7] = 14 /\ Produces[7] = {"measurement"}
  /\ FirstStep[8] = 15 /\ LastStep[8] = 16 /\ Produces[8] = {"structural"}
  /\ FirstStep[9] = 17 /\ LastStep[9] = 17 /\ Produces[9] = {"effects"}
  /\ FirstStep[10] = 18 /\ LastStep[10] = 19 /\ Produces[10] = {}
  /\ FirstStep[11] = 20 /\ LastStep[11] = 20 /\ Produces[11] = {"draft"}
  /\ FirstStep[12] = 21 /\ LastStep[12] = 20 /\ Produces[12] = {"verdict2"}
  /\ FirstStep[13] = 21 /\ LastStep[13] = 21 /\ Produces[13] = {"checklist", "package"}
  /\ \A k \in 7..10 : Consumes[k] = {"frame", "config"}
  /\ FirstStep[14] = 22 /\ LastStep[14] = 21
  BY DEF FirstStep, LastStep, Produces, Consumes

-----------------------------------------------------------------------------
(* One or two steps that neither mark, nor record, nor decide.             *)
LEMMA PlainStep ==
  ASSUME NEW k, NEW s, NEW lo \in Int, NEW hi \in Int, lo = hi + 1,
         NEW a \in StepsOf(k, s), a.op \notin {"mark", "file", "record", "decide"}
  PROVE  Piece(<<a>>, k, s, lo, hi, {})
<1>1. PICK t : t = <<a>>
  OBVIOUS
<1>2. t \in Seq(StepsOf(k, s))
  BY <1>1
<1>3. DOMAIN t = {1} /\ t[1] = a
  BY <1>1
<1>4. Piece(t, k, s, lo, hi, {})
  BY <1>2, <1>3, PlainPiece
<1> QED
  BY <1>1, <1>4

LEMMA PlainPair ==
  ASSUME NEW k, NEW s, NEW lo \in Int, NEW hi \in Int, lo = hi + 1,
         NEW a \in StepsOf(k, s), a.op \notin {"mark", "file", "record", "decide"},
         NEW b \in StepsOf(k, s), b.op \notin {"mark", "file", "record", "decide"}
  PROVE  Piece(<<a, b>>, k, s, lo, hi, {})
<1>1. PICK t : t = <<a, b>>
  OBVIOUS
<1>2. t \in Seq(StepsOf(k, s))
  BY <1>1
<1>3. DOMAIN t = {1, 2} /\ t[1] = a /\ t[2] = b
  BY <1>1
<1>4. Piece(t, k, s, lo, hi, {})
  BY <1>2, <1>3, PlainPiece
<1> QED
  BY <1>1, <1>4

(* The steps that end a program, at the end of its marks or before them.   *)
LEMMA StopPiece ==
  ASSUME NEW k, NEW s, Refused(k, s), NEW lo \in Int, NEW hi \in Int,
         NEW x \in {"HALTED_GATE", "COMPLETED_TO_BOUNDARY", "HALTED_INTEGRITY"}
  PROVE  Piece(<<Stop(x)>>, k, s, lo, hi, {}) /\ Stops(<<Stop(x)>>)
<1>1. Stop(x) \in StepsOf(k, s)
  BY StepTypes
<1>2. PICK t : t = <<Stop(x)>>
  OBVIOUS
<1>3. t \in Seq(StepsOf(k, s))
  BY <1>1, <1>2
<1>4. DOMAIN t = {1} /\ t[1].op = "stop"
  BY <1>2, StepOps
<1>5. Marks(t, lo, hi) /\ Stops(t)
  BY <1>4 DEF Marks, Stops
<1> QED
  BY <1>2, <1>3, <1>4, <1>5, MarkPiece

(* Journal and the marks that follow it.                                   *)
LEMMA JournalPiece ==
  ASSUME NEW k, NEW s, NEW n \in Int, NEW c \in Nat, NEW hi \in Int, hi = n + c - 1,
         NEW t \in Seq(StepsOf(k, s)), DOMAIN t = 1..(c + 1), t[1] = Journal,
         \A i \in 2..(c + 1) : t[i] = Mark(n + i - 2, "completed")
  PROVE  Piece(t, k, s, n, hi, {})
<1>1. t[1].op = "journal"
  BY StepOps
<1>2. \A i \in 2..(c + 1) : t[i].op = "mark" /\ t[i].what.step = n + i - 2
  BY StepOps
<1>3. Marks(t, n, n + c - 1)
  BY <1>1, <1>2, MarksInARow
<1>4. \A i \in DOMAIN t : t[i].op \in {"journal", "mark"}
  BY <1>1, <1>2
<1> QED
  BY <1>3, <1>4, MarkPiece

(* The marks of steps that are performed on any study.                     *)
LEMMA AlwaysPerformed ==
  ASSUME NEW k, NEW s, ~Refused(k, s),
         NEW n \in FirstStep[k]..LastStep[k], n \notin {12, 14, 20, 21}
  PROVE  Mark(n, "completed") \in StepsOf(k, s)
<1>1. n \notin NotPerformed(s)
  BY DEF NotPerformed
<1> QED
  BY <1>1, MarkTypes

LEMMA JournalOne ==
  ASSUME NEW k, NEW s, NEW n \in Int, NEW st, Mark(n, st) \in StepsOf(k, s)
  PROVE  Piece(<<Journal, Mark(n, st)>>, k, s, n, n, {})
<1>1. PICK t : t = <<Journal, Mark(n, st)>>
  OBVIOUS
<1>2. Journal \in StepsOf(k, s)
  BY StepTypes
<1>3. t \in Seq(StepsOf(k, s))
  BY <1>1, <1>2
<1>4. DOMAIN t = {1, 2} /\ t[1] = Journal /\ t[2] = Mark(n, st)
  BY <1>1
<1>5. t[1].op = "journal" /\ t[2].op = "mark" /\ t[2].what.step = n
  BY <1>4, StepOps
<1>6. Marks(t, n, n)
  BY <1>4, <1>5 DEF Marks
<1>7. Piece(t, k, s, n, n, {})
  BY <1>3, <1>4, <1>5, <1>6, MarkPiece
<1> QED
  BY <1>1, <1>7

LEMMA OneMark ==
  ASSUME NEW k, NEW s, NEW n \in Int, NEW st, Mark(n, st) \in StepsOf(k, s)
  PROVE  Piece(<<Mark(n, st)>>, k, s, n, n, {})
<1>1. PICK t : t = <<Mark(n, st)>>
  OBVIOUS
<1>2. t \in Seq(StepsOf(k, s))
  BY <1>1
<1>3. DOMAIN t = {1} /\ t[1] = Mark(n, st)
  BY <1>1
<1>4. t[1].op = "mark" /\ t[1].what.step = n
  BY <1>3, StepOps
<1>5. Marks(t, n, n)
  BY <1>3, <1>4 DEF Marks
<1>6. Piece(t, k, s, n, n, {})
  BY <1>2, <1>3, <1>4, <1>5, MarkPiece
<1> QED
  BY <1>1, <1>6

LEMMA JournalTwo ==
  ASSUME NEW k, NEW s, NEW n \in Int, NEW m \in Int, m = n + 1,
         Mark(n, "completed") \in StepsOf(k, s), Mark(m, "completed") \in StepsOf(k, s)
  PROVE  Piece(<<Journal, Mark(n, "completed"), Mark(m, "completed")>>, k, s, n, m, {})
<1>1. PICK t : t = <<Journal, Mark(n, "completed"), Mark(m, "completed")>>
  OBVIOUS
<1>2. Journal \in StepsOf(k, s)
  BY StepTypes
<1>3. t \in Seq(StepsOf(k, s))
  BY <1>1, <1>2
<1>4. /\ DOMAIN t = 1..3 /\ t[1] = Journal /\ t[2] = Mark(n, "completed")
      /\ t[3] = Mark(m, "completed")
  BY <1>1
<1>5. PICK c \in Nat : c = 2
  OBVIOUS
<1>6. m = n + c - 1 /\ DOMAIN t = 1..(c + 1)
  BY <1>4, <1>5
<1>7. \A i \in 2..(c + 1) : t[i] = Mark(n + i - 2, "completed")
  BY <1>4, <1>5
<1>8. Piece(t, k, s, n, m, {})
  BY <1>3, <1>4, <1>6, <1>7, JournalPiece
<1> QED
  BY <1>1, <1>8

LEMMA JournalThree ==
  ASSUME NEW k, NEW s, NEW n \in Int, NEW m \in Int, NEW l \in Int, m = n + 1, l = n + 2,
         Mark(n, "completed") \in StepsOf(k, s), Mark(m, "completed") \in StepsOf(k, s),
         Mark(l, "completed") \in StepsOf(k, s)
  PROVE  Piece(<<Journal, Mark(n, "completed"), Mark(m, "completed"), Mark(l, "completed")>>,
               k, s, n, l, {})
<1>1. PICK t : t = <<Journal, Mark(n, "completed"), Mark(m, "completed"), Mark(l, "completed")>>
  OBVIOUS
<1>2. Journal \in StepsOf(k, s)
  BY StepTypes
<1>3. t \in Seq(StepsOf(k, s))
  BY <1>1, <1>2
<1>4. /\ DOMAIN t = 1..4 /\ t[1] = Journal /\ t[2] = Mark(n, "completed")
      /\ t[3] = Mark(m, "completed") /\ t[4] = Mark(l, "completed")
  BY <1>1
<1>5. PICK c \in Nat : c = 3
  OBVIOUS
<1>6. l = n + c - 1 /\ DOMAIN t = 1..(c + 1)
  BY <1>4, <1>5
<1>7. \A i \in 2..(c + 1) : t[i] = Mark(n + i - 2, "completed")
  BY <1>4, <1>5
<1>8. Piece(t, k, s, n, l, {})
  BY <1>3, <1>4, <1>6, <1>7, JournalPiece
<1> QED
  BY <1>1, <1>8

LEMMA JournalFour ==
  ASSUME NEW k, NEW s, NEW n \in Int, NEW m \in Int, NEW l \in Int, NEW o \in Int,
         m = n + 1, l = n + 2, o = n + 3,
         Mark(n, "completed") \in StepsOf(k, s), Mark(m, "completed") \in StepsOf(k, s),
         Mark(l, "completed") \in StepsOf(k, s), Mark(o, "completed") \in StepsOf(k, s)
  PROVE  Piece(<<Journal, Mark(n, "completed"), Mark(m, "completed"), Mark(l, "completed"),
                 Mark(o, "completed")>>, k, s, n, o, {})
<1>1. PICK t : t = <<Journal, Mark(n, "completed"), Mark(m, "completed"),
                     Mark(l, "completed"), Mark(o, "completed")>>
  OBVIOUS
<1>2. Journal \in StepsOf(k, s)
  BY StepTypes
<1>3. t \in Seq(StepsOf(k, s))
  BY <1>1, <1>2
<1>4. /\ DOMAIN t = 1..5 /\ t[1] = Journal /\ t[2] = Mark(n, "completed")
      /\ t[3] = Mark(m, "completed") /\ t[4] = Mark(l, "completed")
      /\ t[5] = Mark(o, "completed")
  BY <1>1
<1>5. PICK c \in Nat : c = 4
  OBVIOUS
<1>6. o = n + c - 1 /\ DOMAIN t = 1..(c + 1)
  BY <1>4, <1>5
<1>7. \A i \in 2..(c + 1) : t[i] = Mark(n + i - 2, "completed")
  BY <1>4, <1>5
<1>8. Piece(t, k, s, n, o, {})
  BY <1>3, <1>4, <1>6, <1>7, JournalPiece
<1> QED
  BY <1>1, <1>8

LEMMA MadeTable ==
  /\ "ingest" \in Made(1) /\ "config" \in Made(2) /\ "verdict1" \in Made(3)
  /\ "advisory" \in Made(4) /\ "frame" \in Made(5) /\ "measurement" \in Made(7)
  /\ "structural" \in Made(8) /\ "effects" \in Made(9) /\ "draft" \in Made(11)
  /\ "verdict2" \in Made(12) /\ "checklist" \in Made(13) /\ "package" \in Made(13)
  BY StageTable DEF Made

(* What is called and computed.                                            *)
LEMMA CallTypes ==
  ASSUME NEW k, NEW s
  PROVE  /\ Compute("read_export") \in StepsOf(k, s) /\ Compute("node_a") \in StepsOf(k, s)
         /\ Compute("node_c") \in StepsOf(k, s) /\ Compute("run_prep") \in StepsOf(k, s)
         /\ Compute("estimator_determination") \in StepsOf(k, s)
         /\ Call("power-montecarlo") \in StepsOf(k, s) /\ Call("measurement") \in StepsOf(k, s)
         /\ Call("measurement-deletion-base") \in StepsOf(k, s)
         /\ Call("measurement-cmb") \in StepsOf(k, s)
         /\ Call("measurement-respec-base") \in StepsOf(k, s)
         /\ Call("structural") \in StepsOf(k, s) /\ Call("effects") \in StepsOf(k, s)
         /\ Call("robustness-alternatives-retained") \in StepsOf(k, s)
         /\ Call("robustness-alternatives-reversed_paths") \in StepsOf(k, s)
         /\ \A m \in Nat : CallNth("measurement-respec", m) \in StepsOf(k, s)
<1>1. {"read_export", "node_a", "node_c", "run_prep", "estimator_determination",
       "power-montecarlo", "measurement", "measurement-deletion-base", "measurement-cmb",
       "measurement-respec-base", "structural", "effects", "robustness-alternatives-retained",
       "robustness-alternatives-reversed_paths", "measurement-respec"} \subseteq Words
  BY DEF Words
<1> QED
  BY <1>1, StepTypes


LEMMA PartOfItsOwn ==
  ASSUME NEW k, NEW s, NEW lo \in Int, NEW hi \in Int, lo = hi + 1, NEW a \in Made(k)
  PROVE  Part(WriteArtifact(a), k, s, lo, hi, a)
<1>1. Piece(WriteArtifact(a), k, s, lo, hi, {a})
  BY WritePiece
<1>2. PICK t : t = WriteArtifact(a)
  OBVIOUS
<1>3. 1 \in DOMAIN t /\ t[1] = File(a)
  BY <1>2 DEF WriteArtifact
<1>4. File(a) \in Named(t)
  BY <1>3 DEF Named
<1> QED
  BY <1>1, <1>2, <1>4 DEF Part

LEMMA PlainThenPart ==
  ASSUME NEW k, NEW s, NEW lo \in Int, NEW m \in Int, NEW n \in Int, NEW hi \in Int, n = m + 1,
         lo <= n, m <= hi,
         NEW a, NEW t, Piece(t, k, s, lo, m, {}), NEW u, Part(u, k, s, n, hi, a)
  PROVE  Part(t \o u, k, s, lo, hi, a)
<1>1. Piece(t, k, s, lo, m, {}) /\ Piece(u, k, s, m + 1, hi, {a})
  BY DEF Part
<1>2. Piece(t \o u, k, s, lo, hi, {} \cup {a})
  <2>1. lo <= m + 1 /\ {} \cap {a} = {}
    OBVIOUS
  <2> QED
    BY <1>1, <2>1, JoinPieces
<1>3. Named(t \o u) = Named(t) \cup Named(u)
  BY <1>1, NamedJoin DEF Piece
<1>4. {} \cup {a} = {a}
  OBVIOUS
<1> QED
  BY <1>2, <1>3, <1>4 DEF Part

LEMMA StopsJoin ==
  ASSUME NEW S, NEW a \in Seq(S), NEW b \in Seq(S), Stops(b)
  PROVE  Stops(a \o b)
<1>1. PICK t : t = a \o b
  OBVIOUS
<1>2. \A i \in DOMAIN b : Len(a) + i \in DOMAIN t /\ t[Len(a) + i] = b[i]
  BY <1>1, Joined
<1>3. Stops(t)
  BY <1>2 DEF Stops
<1> QED
  BY <1>1, <1>3

(* A stretch of the program behind a decision log of its own.              *)
LEMMA LogPiece ==
  ASSUME NEW k, NEW s, NEW lo \in Int, NEW hi \in Int, NEW h \in Handles,
         NEW u \in Seq(StepsOf(k, s)), Marks(u, lo, hi),
         \A i \in DOMAIN u : /\ u[i].op \notin {"log", "file", "record"}
                             /\ u[i].op = "decide" => u[i].what = h
  PROVE  Piece(<<OpenLog(h)>> \o u, k, s, lo, hi, {})
<1>1. PICK a : a = <<OpenLog(h)>>
  OBVIOUS
<1>2. PICK t : t = a \o u
  OBVIOUS
<1>3. a \in Seq(StepsOf(k, s)) /\ DOMAIN a = {1} /\ a[1] = OpenLog(h) /\ Len(a) = 1
  <2>1. OpenLog(h) \in StepsOf(k, s)
    BY StepTypes
  <2>2. a \in Seq(StepsOf(k, s))
    BY <1>1, <2>1
  <2> QED
    BY <1>1, <2>2
<1>4. /\ t \in Seq(StepsOf(k, s))
      /\ \A i \in DOMAIN a : i \in DOMAIN t /\ t[i] = a[i]
      /\ \A i \in DOMAIN u : Len(a) + i \in DOMAIN t /\ t[Len(a) + i] = u[i]
      /\ \A i \in DOMAIN t : \/ i \in DOMAIN a /\ t[i] = a[i]
                             \/ i > Len(a) /\ i - Len(a) \in DOMAIN u /\ t[i] = u[i - Len(a)]
      /\ DOMAIN a = 1..Len(a) /\ DOMAIN u = 1..Len(u) /\ Len(u) \in Nat
      /\ DOMAIN t = 1..(Len(a) + Len(u))
  BY <1>2, <1>3, Joined
<1>5. t[1].op = "log" /\ t[1].what = h /\ 1 \in DOMAIN t
  BY <1>3, <1>4, StepOps
<1>6. \A i \in DOMAIN t : i = 1 \/ /\ i > 1 /\ i - 1 \in DOMAIN u /\ t[i] = u[i - 1]
  BY <1>3, <1>4
<1>7. Marks(t, lo, hi)
  <2>1. Stops(u) => Stops(t)
    BY <1>2, <1>3, StopsJoin
  <2>2. \A i \in DOMAIN u : 1 + i \in DOMAIN t /\ t[1 + i] = u[i]
    BY <1>3, <1>4
  <2>3. \A i \in DOMAIN t : t[i].op = "mark" => t[i].what.step \in lo..hi
    BY <1>5, <1>6 DEF Marks
  <2>4. Stops(t) \/ \A n \in lo..hi : \E i \in DOMAIN t : t[i].op = "mark" /\ t[i].what.step = n
    BY <2>1, <2>2 DEF Marks
  <2>5. ASSUME NEW i \in DOMAIN t, NEW j \in DOMAIN t, i < j,
               t[i].op = "mark", t[j].op = "mark"
        PROVE  t[i].what.step < t[j].what.step
    <3>1. i - 1 \in DOMAIN u /\ t[i] = u[i - 1] /\ j - 1 \in DOMAIN u /\ t[j] = u[j - 1]
      BY <1>5, <1>6, <2>5
    <3>2. i - 1 < j - 1
      BY <1>4, <2>5
    <3> QED
      BY <2>5, <3>1, <3>2 DEF Marks
  <2> QED
    BY <2>3, <2>4, <2>5 DEF Marks
<1>8. SelfLogged(t)
  <2> SUFFICES ASSUME NEW i \in DOMAIN t, t[i].op = "decide" PROVE OpenedBefore(t, i)
    BY DEF SelfLogged
  <2>1. i > 1 /\ t[i].what = h
    BY <1>5, <1>6
  <2>2. \A l \in DOMAIN t : 1 < l /\ l < i => t[l].op # "log"
    BY <1>6
  <2> QED
    BY <1>5, <2>1, <2>2 DEF OpenedBefore
<1>9. \A i \in DOMAIN t : t[i].op \notin {"file", "record"}
  BY <1>5, <1>6
<1>10. RecordsFollow(t) /\ RecordedOnce(t)
  BY <1>9 DEF RecordsFollow, RecordedOnce
<1>11. Piece(t, k, s, lo, hi, {})
  BY <1>4, <1>7, <1>8, <1>9, <1>10 DEF Piece
<1> QED
  BY <1>1, <1>2, <1>11

-----------------------------------------------------------------------------
(* The programs, stage by stage.                                           *)

LEMMA IngestIsSound == ASSUME NEW s \in Study PROVE Sound(Ingest(s), 1, s)
<1>t. Produces[1] = {"ingest"} /\ FirstStep[1] = 1 /\ LastStep[1] = 0
  BY StageTable
<1>m. "ingest" \in Made(1)
  BY MadeTable
<1>1. PICK c : c = Compute("read_export")
  OBVIOUS
<1>2. c \in StepsOf(1, s)
  BY <1>1, CallTypes
<1>3. c.op = "compute"
  BY <1>1, StepOps
<1>4. 1 = 0 + 1
  OBVIOUS
<1>5. Piece(<<c>>, 1, s, 1, 0, {})
  BY <1>2, <1>3, <1>4, PlainStep
<1>6. Part(<<c>> \o WriteArtifact("ingest"), 1, s, 1, 0, "ingest")
  BY <1>4, <1>5, <1>m, PartBegins
<1>7. Sound(<<c>> \o WriteArtifact("ingest"), 1, s)
  BY <1>6, <1>t, PartIsSound
<1> QED
  BY <1>1, <1>7 DEF Ingest

LEMMA ContractIsSound == ASSUME NEW s \in Study PROVE Sound(Contract(s), 2, s)
<1>t. Produces[2] = {"config"} /\ FirstStep[2] = 1 /\ LastStep[2] = 0
  BY StageTable
<1>m. "config" \in Made(2)
  BY MadeTable
<1>1. PICK c : c = Compute("node_a")
  OBVIOUS
<1>2. c \in StepsOf(2, s)
  BY <1>1, CallTypes
<1>3. c.op = "compute"
  BY <1>1, StepOps
<1>4. 1 = 0 + 1
  OBVIOUS
<1>5. Piece(<<c>>, 2, s, 1, 0, {})
  BY <1>2, <1>3, <1>4, PlainStep
<1>6. Part(<<c>> \o WriteArtifact("config"), 2, s, 1, 0, "config")
  BY <1>4, <1>5, <1>m, PartBegins
<1>7. Sound(<<c>> \o WriteArtifact("config"), 2, s)
  BY <1>6, <1>t, PartIsSound
<1> QED
  BY <1>1, <1>7 DEF Contract

(* A stage begins by reloading two artifacts.                              *)
LEMMA TwoReads ==
  ASSUME NEW k, NEW s, NEW lo \in Int, NEW hi \in Int, lo = hi + 1,
         NEW a \in Consumes[k], NEW b \in Consumes[k]
  PROVE  Piece(<<Read(a), Read(b)>>, k, s, lo, hi, {})
<1>1. PICK x : x = Read(a)
  OBVIOUS
<1>2. PICK y : y = Read(b)
  OBVIOUS
<1>3. x \in StepsOf(k, s) /\ y \in StepsOf(k, s)
  BY <1>1, <1>2, StepTypes
<1>4. x.op = "read" /\ y.op = "read"
  BY <1>1, <1>2, StepOps
<1>5. Piece(<<x, y>>, k, s, lo, hi, {})
  BY <1>3, <1>4, PlainPair
<1> QED
  BY <1>1, <1>2, <1>5

LEMMA Gate1IsSound == ASSUME NEW s \in Study PROVE Sound(Gate1(s), 3, s)
<1>t. Produces[3] = {"verdict1"} /\ FirstStep[3] = 1 /\ LastStep[3] = 0
  BY StageTable
<1>m. "verdict1" \in Made(3)
  BY MadeTable
<1>1. PICK a : a = Read("config")
  OBVIOUS
<1>2. PICK c : c = Compute("node_c")
  OBVIOUS
<1>3. a \in StepsOf(3, s) /\ a.op = "read"
  BY <1>1, StageTable, StepTypes, StepOps
<1>4. c \in StepsOf(3, s) /\ c.op = "compute"
  BY <1>2, CallTypes, StepOps
<1>5. 1 = 0 + 1
  OBVIOUS
<1>6. Piece(<<a, c>>, 3, s, 1, 0, {})
  BY <1>3, <1>4, <1>5, PlainPair
<1>7. PICK v : v = <<a, c>> \o WriteArtifact("verdict1")
  OBVIOUS
<1>8. Part(v, 3, s, 1, 0, "verdict1")
  <2>1. Part(<<a, c>> \o WriteArtifact("verdict1"), 3, s, 1, 0, "verdict1")
    BY <1>5, <1>6, <1>m, PartBegins
  <2> QED
    BY <1>7, <2>1
<1>9. PICK u : u = IF s.verdict = "approve" THEN <<>> ELSE <<Stop("HALTED_GATE")>>
  OBVIOUS
<1>10. Piece(u, 3, s, 1, 0, {})
  <2>1. CASE u = <<>>
    <3>1. u \in Seq(StepsOf(3, s)) /\ DOMAIN u = {}
      BY <2>1
    <3>2. Marks(u, 1, 0)
      BY <3>1 DEF Marks
    <3>3. \A i \in DOMAIN u : u[i].op \notin {"file", "record", "decide"}
      BY <3>1
    <3>4. u \in Seq(StepsOf(3, s))
      BY <3>1
    <3> QED
      BY <3>2, <3>3, <3>4, MarkPiece
  <2>2. CASE s.verdict # "approve"
    <3>1. Refused(3, s)
      BY <2>2 DEF Refused
    <3> QED
      BY <1>9, <2>2, <3>1, StopPiece
  <2> QED
    BY <1>9, <2>1, <2>2
<1>11. Part(v \o u, 3, s, 1, 0, "verdict1")
  BY <1>5, <1>8, <1>10, PartGoesOn
<1>12. Sound(v \o u, 3, s)
  BY <1>11, <1>t, PartIsSound
<1> QED
  BY <1>1, <1>2, <1>7, <1>9, <1>12 DEF Gate1

LEMMA PowerIsSound == ASSUME NEW s \in Study PROVE Sound(Power(s), 4, s)
<1>t. Produces[4] = {} /\ FirstStep[4] = 1 /\ LastStep[4] = 1
  BY StageTable
<1>m. "advisory" \in Made(4)
  BY MadeTable
<1> USE 1 = 0 + 1, 1 \in Int, 0 \in Int
<1>1. PICK t : t = <<Read("config"), Read("ingest")>>
  OBVIOUS
<1>2. Piece(t, 4, s, 1, 0, {})
  <2>1. "config" \in Consumes[4] /\ "ingest" \in Consumes[4]
    BY StageTable
  <2> QED
    BY <1>1, <2>1, TwoReads
<1>3. CASE s.enough
  <2>1. PICK c : c = <<Call("power-montecarlo")>>
    OBVIOUS
  <2>2. Piece(c, 4, s, 1, 0, {})
    <3>1. PICK x : x = Call("power-montecarlo")
      OBVIOUS
    <3>2. x \in StepsOf(4, s) /\ x.op = "call"
      BY <3>1, CallTypes, StepOps
    <3>3. Piece(<<x>>, 4, s, 1, 0, {})
      BY <3>2, PlainStep
    <3> QED
      BY <2>1, <3>1, <3>3
  <2>3. Piece(PowerRows, 4, s, 1, 0, {})
    BY FixedRows
  <2>4. PICK j : j = <<Journal, Mark(1, "completed")>>
    OBVIOUS
  <2>5. Piece(j, 4, s, 1, 1, {})
    <3>1. 1 \in FirstStep[4]..LastStep[4]
      BY StageTable
    <3>2. Mark(1, "completed") \in StepsOf(4, s)
      <4>1. ~Refused(4, s)
        BY <1>3 DEF Refused
      <4> QED
        BY <3>1, <4>1, AlwaysPerformed
    <3> QED
      BY <2>4, <3>2, JournalOne
  <2>6. Piece(c \o PowerRows, 4, s, 1, 0, {})
    BY <2>2, <2>3, PlainGoesOn
  <2>7. Piece((c \o PowerRows) \o j, 4, s, 1, 1, {})
    BY <2>5, <2>6, PlainGoesOn
  <2>8. Piece(t \o ((c \o PowerRows) \o j), 4, s, 1, 1, {})
    BY <1>2, <2>7, PlainGoesOn
  <2>9. Power(s) = t \o ((c \o PowerRows) \o j)
    BY <1>1, <1>3, <2>1, <2>4 DEF Power
  <2> QED
    BY <2>8, <2>9, <1>t, SilentProgram
<1>4. CASE ~s.enough
  <2>1. PICK w : w = WriteArtifact("advisory")
    OBVIOUS
  <2>2. Part(w, 4, s, 1, 0, "advisory")
    BY <2>1, <1>m, PartOfItsOwn
  <2>3. PICK x : x = <<Stop("COMPLETED_TO_BOUNDARY")>>
    OBVIOUS
  <2>4. Piece(x, 4, s, 1, 1, {}) /\ Stops(x)
    <3>1. Refused(4, s)
      BY <1>4 DEF Refused
    <3> QED
      BY <2>3, <3>1, StopPiece
  <2>5. Part(w \o x, 4, s, 1, 1, "advisory")
    BY <2>2, <2>4, PartGoesOn
  <2>6. Part(t \o (w \o x), 4, s, 1, 1, "advisory")
    BY <1>2, <2>5, PlainThenPart
  <2>7. Stops(t \o (w \o x))
    <3>1. Stops(w \o x)
      BY <2>2, <2>4, StopsJoin DEF Part, Piece
    <3> QED
      BY <1>2, <2>5, <3>1, StopsJoin DEF Part, Piece
  <2>8. Power(s) = t \o (w \o x)
    BY <1>1, <1>4, <2>1, <2>3 DEF Power
  <2>9. Piece(Power(s), 4, s, FirstStep[4], LastStep[4], Made(4))
    BY <2>6, <2>8, <1>t, SoundPiece DEF Part
  <2> QED
    BY <2>7, <2>8, <2>9 DEF Sound
<1> QED
  BY <1>3, <1>4

LEMMA PrepIsSound == ASSUME NEW s \in Study PROVE Sound(Prep(s), 5, s)
<1>t. Produces[5] = {"frame"} /\ FirstStep[5] = 2 /\ LastStep[5] = 4
  BY StageTable
<1>m. "frame" \in Made(5)
  BY MadeTable
<1>n. 2 = 1 + 1 /\ 3 = 2 + 1 /\ 4 = 2 + 2
  OBVIOUS
<1>1. PICK a : a = Read("config")
  OBVIOUS
<1>2. PICK c : c = Compute("run_prep")
  OBVIOUS
<1>3. a \in StepsOf(5, s) /\ a.op = "read"
  BY <1>1, StageTable, StepTypes, StepOps
<1>4. c \in StepsOf(5, s) /\ c.op = "compute"
  BY <1>2, CallTypes, StepOps
<1>5. Piece(<<a, c>>, 5, s, 2, 1, {})
  BY <1>n, <1>3, <1>4, PlainPair
<1>6. PICK v : v = <<a, c>> \o WriteArtifact("frame")
  OBVIOUS
<1>7. Part(v, 5, s, 2, 1, "frame")
  BY <1>n, <1>5, <1>6, <1>m, PartBegins
<1>8. Piece(PrepRows, 5, s, 2, 1, {})
  BY <1>n, FixedRows
<1>9. PICK j : j = <<Journal, Mark(2, "completed"), Mark(3, "completed"), Mark(4, "completed")>>
  OBVIOUS
<1>10. Piece(j, 5, s, 2, 4, {})
  <2>1. 2 \in FirstStep[5]..LastStep[5] /\ 3 \in FirstStep[5]..LastStep[5]
        /\ 4 \in FirstStep[5]..LastStep[5]
    BY StageTable
  <2>2. /\ Mark(2, "completed") \in StepsOf(5, s) /\ Mark(3, "completed") \in StepsOf(5, s)
        /\ Mark(4, "completed") \in StepsOf(5, s)
    <3>1. ~Refused(5, s)
      BY DEF Refused
    <3> QED
      BY <2>1, <3>1, AlwaysPerformed
  <2> QED
    BY <1>n, <1>9, <2>2, JournalThree
<1>11. Part(v \o PrepRows, 5, s, 2, 1, "frame")
  BY <1>n, <1>7, <1>8, PartGoesOn
<1>12. Part((v \o PrepRows) \o j, 5, s, 2, 4, "frame")
  BY <1>n, <1>10, <1>11, PartGoesOn
<1>13. Prep(s) = (v \o PrepRows) \o j
  BY <1>1, <1>2, <1>6, <1>9 DEF Prep
<1> QED
  BY <1>12, <1>13, <1>t, PartIsSound

LEMMA AssumptionsIsSound == ASSUME NEW s \in Study PROVE Sound(Assumptions(s), 6, s)
<1>t. Produces[6] = {} /\ FirstStep[6] = 5 /\ LastStep[6] = 7
  BY StageTable
<1>n. 5 = 4 + 1 /\ 6 = 5 + 1 /\ 7 = 5 + 2
  OBVIOUS
<1>1. PICK t : t = <<Read("frame"), OpenLog(1), Compute("estimator_determination"), Decide(1)>>
  OBVIOUS
<1>2. Piece(t, 6, s, 5, 4, {})
  <2>1. Read("frame") \in StepsOf(6, s) /\ Compute("estimator_determination") \in StepsOf(6, s)
    BY StepTypes, CallTypes, StageTable
  <2>2. OpenLog(1) \in StepsOf(6, s) /\ Decide(1) \in StepsOf(6, s)
    BY StepTypes DEF Handles
  <2>3. t \in Seq(StepsOf(6, s))
    BY <1>1, <2>1, <2>2
  <2>4. /\ DOMAIN t = 1..4 /\ t[1] = Read("frame") /\ t[2] = OpenLog(1)
        /\ t[3] = Compute("estimator_determination") /\ t[4] = Decide(1)
    BY <1>1
  <2>5. /\ t[1].op = "read" /\ t[2].op = "log" /\ t[3].op = "compute" /\ t[4].op = "decide"
        /\ t[2].what = 1 /\ t[4].what = 1
    BY <2>4, StepOps
  <2>6. Marks(t, 5, 4)
    BY <2>4, <2>5 DEF Marks
  <2>7. OpenedBefore(t, 4)
    <3>1. \A l \in DOMAIN t : 2 < l /\ l < 4 => t[l].op # "log"
      BY <2>4, <2>5
    <3> QED
      BY <2>4, <2>5, <3>1 DEF OpenedBefore
  <2>8. SelfLogged(t)
    BY <2>4, <2>5, <2>7 DEF SelfLogged
  <2>9. RecordsFollow(t) /\ RecordedOnce(t)
    BY <2>4, <2>5 DEF RecordsFollow, RecordedOnce
  <2>10. \A i \in DOMAIN t : t[i].op # "record"
    BY <2>4, <2>5
  <2> QED
    BY <2>3, <2>6, <2>8, <2>9, <2>10 DEF Piece
<1>3. Piece(AssumptionsRows, 6, s, 5, 4, {})
  BY <1>n, FixedRows
<1>4. PICK j : j = <<Journal, Mark(5, "completed"), Mark(6, "completed"), Mark(7, "completed")>>
  OBVIOUS
<1>5. Piece(j, 6, s, 5, 7, {})
  <2>1. 5 \in FirstStep[6]..LastStep[6] /\ 6 \in FirstStep[6]..LastStep[6]
        /\ 7 \in FirstStep[6]..LastStep[6]
    BY StageTable
  <2>2. /\ Mark(5, "completed") \in StepsOf(6, s) /\ Mark(6, "completed") \in StepsOf(6, s)
        /\ Mark(7, "completed") \in StepsOf(6, s)
    <3>1. ~Refused(6, s)
      BY DEF Refused
    <3> QED
      BY <2>1, <3>1, AlwaysPerformed
  <2> QED
    BY <1>n, <1>4, <2>2, JournalThree
<1>6. Piece(t \o AssumptionsRows, 6, s, 5, 4, {})
  BY <1>n, <1>2, <1>3, PlainGoesOn
<1>7. Piece((t \o AssumptionsRows) \o j, 6, s, 5, 7, {})
  BY <1>n, <1>5, <1>6, PlainGoesOn
<1>8. Assumptions(s) = (t \o AssumptionsRows) \o j
  BY <1>1, <1>4 DEF Assumptions
<1> QED
  BY <1>7, <1>8, <1>t, SilentProgram

(* PB-12, conditioned on the data.                                         *)
LEMMA AssessCmbPiece ==
  ASSUME NEW s \in Study
  PROVE  Piece(AssessCmb(s), 7, s, 12, 12, {})
<1>1. 12 \in FirstStep[7]..LastStep[7] /\ ~Refused(7, s)
  BY StageTable DEF Refused
<1>2. CASE s.markers
  <2>1. 12 \notin NotPerformed(s)
    BY <1>2 DEF NotPerformed
  <2>2. Mark(12, "completed") \in StepsOf(7, s)
    BY <1>1, <2>1, MarkTypes
  <2>3. PICK r : r = <<"measurement", "cmb", <<"method_variance_share">>>>
    OBVIOUS
  <2>4. r \in RowIds(s)
    <3>1. NotPerformed(s) \subseteq {14, 20, 21}
      BY <1>2 DEF NotPerformed
    <3>2. /\ Outputs[20] = {} /\ Outputs[21] = {}
          /\ Outputs[14] = {<<"measurement", "respecification">>}
      BY DEF Outputs
    <3>3. {"measurement", "cmb", "method_variance_share"} \subseteq Words
      BY DEF Words
    <3>4. <<"method_variance_share">> \in Seq(Text)
      BY <3>3, TextsJoin
    <3>5. r \in Words \X Words \X Seq(Text) /\ r[1] = "measurement" /\ r[2] = "cmb"
      BY <2>3, <3>3, <3>4
    <3>6. \A n \in NotPerformed(s) : <<r[1], r[2]>> \notin Outputs[n]
      BY <3>1, <3>2, <3>5
    <3> QED
      BY <3>5, <3>6 DEF RowIds
  <2>5. Row(r) \in StepsOf(7, s) /\ Call("measurement-cmb") \in StepsOf(7, s)
    BY <2>4, StepTypes, CallTypes
  <2>6. PICK t : t = <<Call("measurement-cmb"), Row(r), Mark(12, "completed")>>
    OBVIOUS
  <2>7. t \in Seq(StepsOf(7, s))
    BY <2>2, <2>5, <2>6
  <2>8. /\ DOMAIN t = 1..3 /\ t[1] = Call("measurement-cmb") /\ t[2] = Row(r)
        /\ t[3] = Mark(12, "completed")
    BY <2>6
  <2>9. /\ t[1].op = "call" /\ t[2].op = "row" /\ t[3].op = "mark" /\ t[3].what.step = 12
    BY <2>8, StepOps
  <2>10. Marks(t, 12, 12)
    BY <2>8, <2>9 DEF Marks
  <2>11. Piece(t, 7, s, 12, 12, {})
    BY <2>7, <2>8, <2>9, <2>10, MarkPiece
  <2> QED
    BY <1>2, <2>3, <2>6, <2>11 DEF AssessCmb
<1>3. CASE ~s.markers
  <2>1. 12 \in NotPerformed(s)
    BY <1>3 DEF NotPerformed
  <2>2. Mark(12, "flagged") \in StepsOf(7, s)
    BY <1>1, <2>1, MarkTypes
  <2>3. Piece(<<Mark(12, "flagged")>>, 7, s, 12, 12, {})
    BY <2>2, OneMark
  <2> QED
    BY <1>3, <2>3 DEF AssessCmb
<1> QED
  BY <1>2, <1>3

(* PB-14, conditioned on the data: as many calls and decisions as there    *)
(* are modifications.                                                      *)
LEMMA AssessRespecificationPiece ==
  ASSUME NEW s \in Study, NEW h \in Handles
  PROVE  Piece(AssessRespecification(s, h), 7, s, 14, 14, {})
<1>1. 14 \in FirstStep[7]..LastStep[7] /\ ~Refused(7, s)
  BY StageTable DEF Refused
<1>2. CASE s.misfit
  <2>1. 14 \notin NotPerformed(s)
    BY <1>2 DEF NotPerformed
  <2>2. Mark(14, "completed") \in StepsOf(7, s)
    BY <1>1, <2>1, MarkTypes
  <2>3. PICK r : r = <<"measurement", "respecification", <<"modifications">>>>
    OBVIOUS
  <2>4. r \in RowIds(s)
    <3>1. NotPerformed(s) \subseteq {12, 20, 21}
      BY <1>2 DEF NotPerformed
    <3>2. /\ Outputs[20] = {} /\ Outputs[21] = {}
          /\ Outputs[12] = {<<"measurement", "cmb">>}
      BY DEF Outputs
    <3>3. {"measurement", "respecification", "modifications"} \subseteq Words
      BY DEF Words
    <3>4. <<"modifications">> \in Seq(Text)
      BY <3>3, TextsJoin
    <3>5. r \in Words \X Words \X Seq(Text) /\ r[1] = "measurement" /\ r[2] = "respecification"
      BY <2>3, <3>3, <3>4
    <3>6. \A n \in NotPerformed(s) : <<r[1], r[2]>> \notin Outputs[n]
      BY <3>1, <3>2, <3>5
    <3> QED
      BY <3>5, <3>6 DEF RowIds
  <2>5. PICK a : a = <<Call("measurement-respec-base")>>
    OBVIOUS
  <2>6. PICK b : b = [i \in 1..(2 * s.respecs) |->
              IF i % 2 = 1 THEN CallNth("measurement-respec", (i + 1) \div 2)
                           ELSE Decide(h)]
    OBVIOUS
  <2>7. PICK c : c = <<Row(r), Mark(14, "completed")>>
    OBVIOUS
  <2>8. a \in Seq(StepsOf(7, s)) /\ DOMAIN a = {1} /\ a[1].op = "call"
    <3>1. Call("measurement-respec-base") \in StepsOf(7, s)
      BY CallTypes
    <3>2. a \in Seq(StepsOf(7, s))
      BY <2>5, <3>1
    <3>3. DOMAIN a = {1} /\ a[1] = Call("measurement-respec-base")
      BY <2>5
    <3> QED
      BY <3>2, <3>3, StepOps
  <2>9. /\ b \in Seq(StepsOf(7, s))
        /\ \A i \in DOMAIN b : \/ b[i].op = "call"
                               \/ b[i].op = "decide" /\ b[i].what = h
    <3>1. s.respecs \in Nat /\ 2 * s.respecs \in Nat
      BY DEF Study
    <3>2. PICK n \in Nat : n = 2 * s.respecs
      BY <3>1
    <3>3. Decide(h) \in StepsOf(7, s)
      BY StepTypes
    <3>4. \A i \in 1..n : (i + 1) \div 2 \in Nat
      BY <3>2
    <3>5. \A i \in 1..n : CallNth("measurement-respec", (i + 1) \div 2) \in StepsOf(7, s)
      BY <3>4, CallTypes
    <3>6. /\ DOMAIN b = 1..n
          /\ \A i \in 1..n : b[i] = IF i % 2 = 1
                                    THEN CallNth("measurement-respec", (i + 1) \div 2)
                                    ELSE Decide(h)
      BY <2>6, <3>2
    <3>7. b \in [1..n -> StepsOf(7, s)]
      BY <2>6, <3>2, <3>3, <3>5
    <3>8. b \in Seq(StepsOf(7, s))
      BY <3>7
    <3>9. \A i \in DOMAIN b : \/ b[i].op = "call"
                              \/ b[i].op = "decide" /\ b[i].what = h
      BY <3>6, StepOps
    <3> QED
      BY <3>8, <3>9
  <2>10. /\ c \in Seq(StepsOf(7, s)) /\ DOMAIN c = {1, 2}
         /\ c[1].op = "row" /\ c[2].op = "mark" /\ c[2].what.step = 14
    <3>1. Row(r) \in StepsOf(7, s)
      BY <2>4, StepTypes
    <3>2. c \in Seq(StepsOf(7, s))
      BY <2>2, <2>7, <3>1
    <3>3. DOMAIN c = {1, 2} /\ c[1] = Row(r) /\ c[2] = Mark(14, "completed")
      BY <2>7
    <3> QED
      BY <3>2, <3>3, StepOps
  <2>11. PICK d : d = a \o b
    OBVIOUS
  <2>12. /\ d \in Seq(StepsOf(7, s))
         /\ \A i \in DOMAIN d : \/ d[i].op = "call"
                                \/ d[i].op = "decide" /\ d[i].what = h
    <3>1. /\ d \in Seq(StepsOf(7, s))
          /\ \A i \in DOMAIN d : \/ i \in DOMAIN a /\ d[i] = a[i]
                                 \/ i - Len(a) \in DOMAIN b /\ d[i] = b[i - Len(a)]
      BY <2>8, <2>9, <2>11, Joined
    <3> QED
      BY <2>8, <2>9, <3>1
  <2>13. PICK u : u = d \o c
    OBVIOUS
  <2>14. /\ u \in Seq(StepsOf(7, s))
         /\ \A i \in DOMAIN u : /\ u[i].op \notin {"log", "file", "record"}
                                /\ u[i].op = "decide" => u[i].what = h
    <3>1. /\ u \in Seq(StepsOf(7, s))
          /\ \A i \in DOMAIN u : \/ i \in DOMAIN d /\ u[i] = d[i]
                                 \/ i - Len(d) \in DOMAIN c /\ u[i] = c[i - Len(d)]
      BY <2>10, <2>12, <2>13, Joined
    <3> QED
      BY <2>10, <2>12, <3>1
  <2>15. Marks(u, 14, 14)
    <3>1. Marks(d, 14, 13)
      BY <2>12 DEF Marks
    <3>2. Marks(c, 14, 14)
      BY <2>10 DEF Marks
    <3>3. 13 + 1 = 14 /\ 14 <= 13 + 1 /\ 13 <= 14
      OBVIOUS
    <3>4. Marks(c, 13 + 1, 14)
      BY <3>2, <3>3
    <3>5. Marks(d \o c, 14, 14)
      BY <2>10, <2>12, <3>1, <3>3, <3>4, MarksJoin
    <3> QED
      BY <2>13, <3>5
  <2>16. Piece(<<OpenLog(h)>> \o u, 7, s, 14, 14, {})
    BY <2>14, <2>15, LogPiece
  <2>17. AssessRespecification(s, h) = <<OpenLog(h)>> \o u
    BY <1>2, <2>3, <2>5, <2>6, <2>7, <2>11, <2>13 DEF AssessRespecification
  <2> QED
    BY <2>16, <2>17
<1>3. CASE ~s.misfit
  <2>1. 14 \in NotPerformed(s)
    BY <1>3 DEF NotPerformed
  <2>2. Mark(14, "flagged") \in StepsOf(7, s)
    BY <1>1, <2>1, MarkTypes
  <2>3. PICK u : u = <<Mark(14, "flagged")>>
    OBVIOUS
  <2>4. u \in Seq(StepsOf(7, s))
    BY <2>2, <2>3
  <2>5. DOMAIN u = {1} /\ u[1] = Mark(14, "flagged")
    BY <2>3
  <2>6. u[1].op = "mark" /\ u[1].what.step = 14
    BY <2>5, StepOps
  <2>7. Marks(u, 14, 14)
    BY <2>5, <2>6 DEF Marks
  <2>8. Piece(<<OpenLog(h)>> \o u, 7, s, 14, 14, {})
    BY <2>4, <2>5, <2>6, <2>7, LogPiece
  <2> QED
    BY <1>3, <2>3, <2>8 DEF AssessRespecification
<1> QED
  BY <1>2, <1>3

LEMMA MeasurementIsSound == ASSUME NEW s \in Study PROVE Sound(Measurement(s), 7, s)
<1>t. Produces[7] = {"measurement"} /\ FirstStep[7] = 8 /\ LastStep[7] = 14
  BY StageTable
<1>m. "measurement" \in Made(7)
  BY MadeTable
<1>n. 8 = 7 + 1 /\ 9 = 8 + 1 /\ 10 = 8 + 2 /\ 11 = 8 + 3 /\ 12 = 11 + 1 /\ 13 = 12 + 1 /\ 14 = 13 + 1
  OBVIOUS
<1>1. PICK t : t = <<Read("frame"), Read("config"), Call("measurement"), OpenLog(1),
                     Call("measurement-deletion-base"), Decide(1)>>
  OBVIOUS
<1>2. Piece(t, 7, s, 8, 7, {})
  <2>1. Consumes[7] = {"frame", "config"}
    BY StageTable
  <2>2. Read("frame") \in StepsOf(7, s) /\ Read("config") \in StepsOf(7, s)
    BY <2>1, StepTypes
  <2>3. Call("measurement") \in StepsOf(7, s) /\ Call("measurement-deletion-base") \in StepsOf(7, s)
    BY CallTypes
  <2>4. OpenLog(1) \in StepsOf(7, s) /\ Decide(1) \in StepsOf(7, s)
    BY StepTypes DEF Handles
  <2>5. t \in Seq(StepsOf(7, s))
    BY <1>1, <2>2, <2>3, <2>4
  <2>6. /\ DOMAIN t = 1..6 /\ t[1] = Read("frame") /\ t[2] = Read("config")
        /\ t[3] = Call("measurement") /\ t[4] = OpenLog(1)
        /\ t[5] = Call("measurement-deletion-base") /\ t[6] = Decide(1)
    BY <1>1
  <2>7. /\ t[1].op = "read" /\ t[2].op = "read" /\ t[3].op = "call" /\ t[4].op = "log"
        /\ t[5].op = "call" /\ t[6].op = "decide" /\ t[4].what = 1 /\ t[6].what = 1
    BY <2>6, StepOps
  <2>8. Marks(t, 8, 7)
    BY <2>6, <2>7 DEF Marks
  <2>9. OpenedBefore(t, 6)
    <3>1. \A l \in DOMAIN t : 4 < l /\ l < 6 => t[l].op # "log"
      BY <2>6, <2>7
    <3> QED
      BY <2>6, <2>7, <3>1 DEF OpenedBefore
  <2>10. SelfLogged(t)
    BY <2>6, <2>7, <2>9 DEF SelfLogged
  <2>11. RecordsFollow(t) /\ RecordedOnce(t)
    BY <2>6, <2>7 DEF RecordsFollow, RecordedOnce
  <2>12. \A i \in DOMAIN t : t[i].op # "record"
    BY <2>6, <2>7
  <2> QED
    BY <2>5, <2>8, <2>10, <2>11, <2>12 DEF Piece
<1>3. PICK v : v = t \o WriteArtifact("measurement")
  OBVIOUS
<1>4. Part(v, 7, s, 8, 7, "measurement")
  <2>1. Part(t \o WriteArtifact("measurement"), 7, s, 8, 7, "measurement")
    BY <1>2, <1>m, <1>n, PartBegins
  <2> QED
    BY <1>3, <2>1
<1>5. Piece(MeasurementRows(s), 7, s, 8, 7, {})
  BY <1>n, MeasurementRowsPiece
<1>6. PICK j : j = <<Journal, Mark(8, "completed"), Mark(9, "completed"),
                     Mark(10, "completed"), Mark(11, "completed")>>
  OBVIOUS
<1>7. Piece(j, 7, s, 8, 11, {})
  <2>1. /\ 8 \in FirstStep[7]..LastStep[7] /\ 9 \in FirstStep[7]..LastStep[7]
        /\ 10 \in FirstStep[7]..LastStep[7] /\ 11 \in FirstStep[7]..LastStep[7]
    BY <1>t
  <2>2. /\ Mark(8, "completed") \in StepsOf(7, s) /\ Mark(9, "completed") \in StepsOf(7, s)
        /\ Mark(10, "completed") \in StepsOf(7, s) /\ Mark(11, "completed") \in StepsOf(7, s)
    <3>1. ~Refused(7, s)
      BY DEF Refused
    <3> QED
      BY <2>1, <3>1, AlwaysPerformed
  <2> QED
    BY <1>6, <1>n, <2>2, JournalFour
<1>8. PICK w : w = v \o MeasurementRows(s)
  OBVIOUS
<1>9. Part(w, 7, s, 8, 7, "measurement")
  BY <1>4, <1>5, <1>8, <1>n, PartGoesOn
<1>10. Part(w \o j, 7, s, 8, 11, "measurement")
  BY <1>7, <1>9, <1>n, PartGoesOn
<1>11. Piece(AssessCmb(s), 7, s, 12, 12, {})
  BY AssessCmbPiece
<1>12. PICK x : x = (w \o j) \o AssessCmb(s)
  OBVIOUS
<1>13. Part(x, 7, s, 8, 12, "measurement")
  <2>1. Part((w \o j) \o AssessCmb(s), 7, s, 8, 12, "measurement")
    BY <1>10, <1>11, <1>n, PartGoesOn
  <2> QED
    BY <1>12, <2>1
<1>14. Piece(<<Mark(13, "completed")>>, 7, s, 13, 13, {})
  <2>1. 13 \in FirstStep[7]..LastStep[7]
    BY <1>t
  <2>2. Mark(13, "completed") \in StepsOf(7, s)
    <3>1. ~Refused(7, s)
      BY DEF Refused
    <3> QED
      BY <2>1, <3>1, AlwaysPerformed
  <2> QED
    BY <2>2, OneMark
<1>15. Part(x \o <<Mark(13, "completed")>>, 7, s, 8, 13, "measurement")
  BY <1>13, <1>14, <1>n, PartGoesOn
<1>16. PICK y : y = AssessRespecification(s, 2)
  OBVIOUS
<1>17. Piece(y, 7, s, 14, 14, {})
  <2>1. 2 \in Handles
    BY DEF Handles
  <2> QED
    BY <1>16, <2>1, AssessRespecificationPiece
<1>18. Part((x \o <<Mark(13, "completed")>>) \o y, 7, s, 8, 14, "measurement")
  BY <1>15, <1>17, <1>n, PartGoesOn
<1>19. Measurement(s) = (x \o <<Mark(13, "completed")>>) \o y
  BY <1>1, <1>3, <1>6, <1>8, <1>12, <1>16 DEF Measurement
<1> QED
  BY <1>18, <1>19, <1>t, PartIsSound

LEMMA StructuralIsSound == ASSUME NEW s \in Study PROVE Sound(Structural(s), 8, s)
<1>t. Produces[8] = {"structural"} /\ FirstStep[8] = 15 /\ LastStep[8] = 16
  BY StageTable
<1>m. "structural" \in Made(8)
  BY MadeTable
<1>n. 15 = 14 + 1 /\ 16 = 15 + 1
  OBVIOUS
<1>1. PICK t : t = <<Read("frame"), Read("config")>>
  OBVIOUS
<1>2. Piece(t, 8, s, 15, 14, {})
  <2>1. Consumes[8] = {"frame", "config"}
    BY StageTable
  <2>2. "frame" \in Consumes[8] /\ "config" \in Consumes[8]
    BY <2>1
  <2> QED
    BY <1>1, <1>n, <2>2, TwoReads
<1>3. CASE s.direct = <<>>
  <2>1. PICK x : x = <<Stop("HALTED_INTEGRITY")>>
    OBVIOUS
  <2>2. Piece(x, 8, s, 15, 16, {}) /\ Stops(x)
    <3>1. Refused(8, s)
      BY <1>3 DEF Refused
    <3> QED
      BY <2>1, <3>1, StopPiece
  <2>3. Piece(t \o x, 8, s, 15, 16, {})
    BY <1>2, <1>n, <2>2, PlainGoesOn
  <2>4. Stops(t \o x)
    BY <1>2, <2>2, StopsJoin DEF Piece
  <2>5. Structural(s) = t \o x
    BY <1>1, <1>3, <2>1 DEF Structural
  <2>6. Piece(t \o x, 8, s, FirstStep[8], LastStep[8], {})
    BY <1>t, <2>3
  <2>7. Piece(t \o x, 8, s, FirstStep[8], LastStep[8], Made(8))
    BY <2>6, SoundPiece
  <2> QED
    BY <2>4, <2>5, <2>7 DEF Sound
<1>4. CASE s.direct # <<>>
  <2>1. PICK c : c = Call("structural")
    OBVIOUS
  <2>2. c \in StepsOf(8, s) /\ c.op = "call"
    BY <2>1, CallTypes, StepOps
  <2>3. Piece(<<c>>, 8, s, 15, 14, {})
    BY <1>n, <2>2, PlainStep
  <2>4. PICK v : v = <<c>> \o WriteArtifact("structural")
    OBVIOUS
  <2>5. Part(v, 8, s, 15, 14, "structural")
    <3>1. Part(<<c>> \o WriteArtifact("structural"), 8, s, 15, 14, "structural")
      BY <1>m, <1>n, <2>3, PartBegins
    <3> QED
      BY <2>4, <3>1
  <2>6. Piece(StructuralRows(s), 8, s, 15, 14, {})
    BY <1>n, StructuralRowsPiece
  <2>7. PICK j : j = <<Journal, Mark(15, "completed"), Mark(16, "completed")>>
    OBVIOUS
  <2>8. Piece(j, 8, s, 15, 16, {})
    <3>1. 15 \in FirstStep[8]..LastStep[8] /\ 16 \in FirstStep[8]..LastStep[8]
      BY <1>t
    <3>2. Mark(15, "completed") \in StepsOf(8, s) /\ Mark(16, "completed") \in StepsOf(8, s)
      <4>1. ~Refused(8, s)
        BY <1>4 DEF Refused
      <4> QED
        BY <3>1, <4>1, AlwaysPerformed
    <3> QED
      BY <1>n, <2>7, <3>2, JournalTwo
  <2>9. PICK w : w = v \o StructuralRows(s)
    OBVIOUS
  <2>10. Part(w, 8, s, 15, 14, "structural")
    <3>1. Part(v \o StructuralRows(s), 8, s, 15, 14, "structural")
      BY <1>n, <2>5, <2>6, PartGoesOn
    <3> QED
      BY <2>9, <3>1
  <2>11. Part(w \o j, 8, s, 15, 16, "structural")
    BY <1>n, <2>8, <2>10, PartGoesOn
  <2>12. Part(t \o (w \o j), 8, s, 15, 16, "structural")
    BY <1>2, <1>n, <2>11, PlainThenPart
  <2>13. Structural(s) = t \o (w \o j)
    BY <1>1, <1>4, <2>1, <2>4, <2>7, <2>9 DEF Structural
  <2> QED
    BY <2>12, <2>13, <1>t, PartIsSound
<1> QED
  BY <1>3, <1>4

LEMMA EffectsIsSound == ASSUME NEW s \in Study PROVE Sound(Effects(s), 9, s)
<1>t. Produces[9] = {"effects"} /\ FirstStep[9] = 17 /\ LastStep[9] = 17
  BY StageTable
<1>m. "effects" \in Made(9)
  BY MadeTable
<1>n. 17 = 16 + 1
  OBVIOUS
<1>1. PICK t : t = <<Read("frame"), Read("config")>>
  OBVIOUS
<1>2. Piece(t, 9, s, 17, 16, {})
  <2>1. Consumes[9] = {"frame", "config"}
    BY StageTable
  <2>2. "frame" \in Consumes[9] /\ "config" \in Consumes[9]
    BY <2>1
  <2> QED
    BY <1>1, <1>n, <2>2, TwoReads
<1>3. CASE s.indirect = <<>>
  <2>1. PICK x : x = <<Stop("HALTED_INTEGRITY")>>
    OBVIOUS
  <2>2. Piece(x, 9, s, 17, 17, {}) /\ Stops(x)
    <3>1. Refused(9, s)
      BY <1>3 DEF Refused
    <3> QED
      BY <2>1, <3>1, StopPiece
  <2>3. Piece(t \o x, 9, s, 17, 17, {})
    BY <1>2, <1>n, <2>2, PlainGoesOn
  <2>4. Stops(t \o x)
    BY <1>2, <2>2, StopsJoin DEF Piece
  <2>5. Effects(s) = t \o x
    BY <1>1, <1>3, <2>1 DEF Effects
  <2>6. Piece(t \o x, 9, s, FirstStep[9], LastStep[9], {})
    BY <1>t, <2>3
  <2>7. Piece(t \o x, 9, s, FirstStep[9], LastStep[9], Made(9))
    BY <2>6, SoundPiece
  <2> QED
    BY <2>4, <2>5, <2>7 DEF Sound
<1>4. CASE s.indirect # <<>>
  <2>1. PICK c : c = Call("effects")
    OBVIOUS
  <2>2. c \in StepsOf(9, s) /\ c.op = "call"
    BY <2>1, CallTypes, StepOps
  <2>3. Piece(<<c>>, 9, s, 17, 16, {})
    BY <1>n, <2>2, PlainStep
  <2>4. PICK v : v = <<c>> \o WriteArtifact("effects")
    OBVIOUS
  <2>5. Part(v, 9, s, 17, 16, "effects")
    <3>1. Part(<<c>> \o WriteArtifact("effects"), 9, s, 17, 16, "effects")
      BY <1>m, <1>n, <2>3, PartBegins
    <3> QED
      BY <2>4, <3>1
  <2>6. Piece(EffectsRows(s), 9, s, 17, 16, {})
    BY <1>n, EffectsRowsPiece
  <2>7. PICK j : j = <<Journal, Mark(17, "completed")>>
    OBVIOUS
  <2>8. Piece(j, 9, s, 17, 17, {})
    <3>1. 17 \in FirstStep[9]..LastStep[9]
      BY <1>t
    <3>2. Mark(17, "completed") \in StepsOf(9, s)
      <4>1. ~Refused(9, s)
        BY <1>4 DEF Refused
      <4> QED
        BY <3>1, <4>1, AlwaysPerformed
    <3> QED
      BY <2>7, <3>2, JournalOne
  <2>9. PICK w : w = v \o EffectsRows(s)
    OBVIOUS
  <2>10. Part(w, 9, s, 17, 16, "effects")
    <3>1. Part(v \o EffectsRows(s), 9, s, 17, 16, "effects")
      BY <1>n, <2>5, <2>6, PartGoesOn
    <3> QED
      BY <2>9, <3>1
  <2>11. Part(w \o j, 9, s, 17, 17, "effects")
    BY <1>n, <2>8, <2>10, PartGoesOn
  <2>12. Part(t \o (w \o j), 9, s, 17, 17, "effects")
    BY <1>2, <1>n, <2>11, PlainThenPart
  <2>13. Effects(s) = t \o (w \o j)
    BY <1>1, <1>4, <2>1, <2>4, <2>7, <2>9 DEF Effects
  <2> QED
    BY <2>12, <2>13, <1>t, PartIsSound
<1> QED
  BY <1>3, <1>4

LEMMA RobustnessIsSound == ASSUME NEW s \in Study PROVE Sound(Robustness(s), 10, s)
<1>t. Produces[10] = {} /\ FirstStep[10] = 18 /\ LastStep[10] = 19
  BY StageTable
<1>n. 18 = 17 + 1 /\ 19 = 18 + 1
  OBVIOUS
<1>1. PICK t : t = <<Read("frame"), Read("config"), Call("robustness-alternatives-retained"),
                     Call("robustness-alternatives-reversed_paths"), Read("frame")>>
  OBVIOUS
<1>2. Piece(t, 10, s, 18, 17, {})
  <2>1. Consumes[10] = {"frame", "config"}
    BY StageTable
  <2>2. Read("frame") \in StepsOf(10, s) /\ Read("config") \in StepsOf(10, s)
    BY <2>1, StepTypes
  <2>3. /\ Call("robustness-alternatives-retained") \in StepsOf(10, s)
        /\ Call("robustness-alternatives-reversed_paths") \in StepsOf(10, s)
    BY CallTypes
  <2>4. t \in Seq(StepsOf(10, s))
    BY <1>1, <2>2, <2>3
  <2>5. /\ DOMAIN t = 1..5 /\ t[1] = Read("frame") /\ t[2] = Read("config")
        /\ t[3] = Call("robustness-alternatives-retained")
        /\ t[4] = Call("robustness-alternatives-reversed_paths") /\ t[5] = Read("frame")
    BY <1>1
  <2>6. /\ t[1].op = "read" /\ t[2].op = "read" /\ t[3].op = "call" /\ t[4].op = "call"
        /\ t[5].op = "read"
    BY <2>5, StepOps
  <2>7. Marks(t, 18, 17)
    BY <2>5, <2>6 DEF Marks
  <2>8. \A i \in DOMAIN t : t[i].op \notin {"file", "record", "decide"}
    BY <2>5, <2>6
  <2> QED
    BY <2>4, <2>7, <2>8, MarkPiece
<1>3. Piece(RobustnessRows, 10, s, 18, 17, {})
  BY <1>n, FixedRows
<1>4. PICK j : j = <<Journal, Mark(18, "completed"), Mark(19, "completed")>>
  OBVIOUS
<1>5. Piece(j, 10, s, 18, 19, {})
  <2>1. 18 \in FirstStep[10]..LastStep[10] /\ 19 \in FirstStep[10]..LastStep[10]
    BY <1>t
  <2>2. Mark(18, "completed") \in StepsOf(10, s) /\ Mark(19, "completed") \in StepsOf(10, s)
    <3>1. ~Refused(10, s)
      BY DEF Refused
    <3> QED
      BY <2>1, <3>1, AlwaysPerformed
  <2> QED
    BY <1>4, <1>n, <2>2, JournalTwo
<1>6. Piece(t \o RobustnessRows, 10, s, 18, 17, {})
  BY <1>2, <1>3, <1>n, PlainGoesOn
<1>7. Piece((t \o RobustnessRows) \o j, 10, s, 18, 19, {})
  BY <1>5, <1>6, <1>n, PlainGoesOn
<1>8. Robustness(s) = (t \o RobustnessRows) \o j
  BY <1>1, <1>4 DEF Robustness
<1> QED
  BY <1>7, <1>8, <1>t, SilentProgram

LEMMA NarrateIsSound == ASSUME NEW s \in Study PROVE Sound(StubNarrate(s), 11, s)
<1>t. Produces[11] = {"draft"} /\ FirstStep[11] = 20 /\ LastStep[11] = 20
  BY StageTable
<1>m. "draft" \in Made(11)
  BY MadeTable
<1>n. 20 = 19 + 1
  OBVIOUS
<1>1. PICK w : w = WriteArtifact("draft")
  OBVIOUS
<1>2. Part(w, 11, s, 20, 19, "draft")
  BY <1>1, <1>m, <1>n, PartOfItsOwn
<1>3. PICK j : j = <<Journal, Mark(20, "flagged")>>
  OBVIOUS
<1>4. Piece(j, 11, s, 20, 20, {})
  <2>1. 20 \in FirstStep[11]..LastStep[11] /\ 20 \in NotPerformed(s) /\ ~Refused(11, s)
    BY <1>t DEF NotPerformed, Refused
  <2>2. Mark(20, "flagged") \in StepsOf(11, s)
    BY <2>1, MarkTypes
  <2> QED
    BY <1>3, <2>2, JournalOne
<1>5. Part(w \o j, 11, s, 20, 20, "draft")
  BY <1>2, <1>4, <1>n, PartGoesOn
<1>6. StubNarrate(s) = w \o j
  BY <1>1, <1>3 DEF StubNarrate
<1> QED
  BY <1>5, <1>6, <1>t, PartIsSound

LEMMA Gate2IsSound == ASSUME NEW s \in Study PROVE Sound(StubGate2(s), 12, s)
<1>t. Produces[12] = {"verdict2"} /\ FirstStep[12] = 21 /\ LastStep[12] = 20
  BY StageTable
<1>m. "verdict2" \in Made(12)
  BY MadeTable
<1>n. 21 = 20 + 1
  OBVIOUS
<1>1. Part(WriteArtifact("verdict2"), 12, s, 21, 20, "verdict2")
  BY <1>m, <1>n, PartOfItsOwn
<1> QED
  BY <1>1, <1>t, PartIsSound DEF StubGate2

(* The checklist is written behind the last mark, and never recorded.      *)
LEMMA PackageIsSound ==
  ASSUME NEW s \in Study
  PROVE  Sound(StubPackage(s), 13, s) /\ ChecklistLast(StubPackage(s))
<1>t. Produces[13] = {"checklist", "package"} /\ FirstStep[13] = 21 /\ LastStep[13] = 21
  BY StageTable
<1>1. PICK t : t = <<Journal, Mark(21, "flagged"), Render, File("checklist")>>
  OBVIOUS
<1>2. /\ t \in Seq(StepsOf(13, s)) /\ DOMAIN t = 1..4 /\ Len(t) = 4
      /\ t[1].op = "journal" /\ t[2].op = "mark" /\ t[2].what.step = 21
      /\ t[3].op = "render" /\ t[4] = File("checklist") /\ t[4].op = "file"
      /\ t[4].what = "checklist"
  <2>1. 21 \in FirstStep[13]..LastStep[13] /\ 21 \in NotPerformed(s) /\ ~Refused(13, s)
    BY <1>t DEF NotPerformed, Refused
  <2>2. Mark(21, "flagged") \in StepsOf(13, s)
    BY <2>1, MarkTypes
  <2>3. /\ Journal \in StepsOf(13, s) /\ Render \in StepsOf(13, s)
        /\ File("checklist") \in StepsOf(13, s)
    BY StepTypes, MadeTable
  <2>4. t \in Seq(StepsOf(13, s))
    BY <1>1, <2>2, <2>3
  <2>5. /\ DOMAIN t = 1..4 /\ Len(t) = 4 /\ t[1] = Journal /\ t[2] = Mark(21, "flagged")
        /\ t[3] = Render /\ t[4] = File("checklist")
    BY <1>1
  <2>6. /\ t[1].op = "journal" /\ t[2].op = "mark" /\ t[2].what.step = 21 /\ t[3].op = "render"
    BY <2>5, StepOps
  <2>7. t[4].op = "file" /\ t[4].what = "checklist"
    BY <2>5 DEF File
  <2> QED
    BY <2>4, <2>5, <2>6, <2>7
<1>3. Piece(t, 13, s, 21, 21, {})
  <2>1. Marks(t, 21, 21)
    BY <1>2 DEF Marks
  <2>2. SelfLogged(t) /\ RecordedOnce(t)
    BY <1>2 DEF SelfLogged, RecordedOnce
  <2>3. RecordsFollow(t)
    BY <1>2 DEF RecordsFollow
  <2>4. \A i \in DOMAIN t : t[i].op # "record"
    BY <1>2
  <2> QED
    BY <1>2, <2>1, <2>2, <2>3, <2>4 DEF Piece
<1>4. PICK w : w = WriteArtifact("package")
  OBVIOUS
<1>5. Part(w, 13, s, 22, 21, "package")
  <2>1. 22 = 21 + 1
    OBVIOUS
  <2>2. "package" \in Made(13)
    BY MadeTable
  <2> QED
    BY <1>4, <2>1, <2>2, PartOfItsOwn
<1>6. PICK u : u = t \o w
  OBVIOUS
<1>7. Part(u, 13, s, 21, 21, "package")
  <2>1. 22 = 21 + 1 /\ 21 <= 22
    OBVIOUS
  <2>2. Part(t \o w, 13, s, 21, 21, "package")
    BY <1>3, <1>5, <2>1, PlainThenPart
  <2> QED
    BY <1>6, <2>2
<1>8. StubPackage(s) = u
  BY <1>1, <1>4, <1>6 DEF StubPackage
<1>9. /\ DOMAIN w = {1, 2} /\ w[1] = File("package") /\ w[2] = Record("package")
      /\ w \in Seq(StepsOf(13, s))
  BY <1>4, <1>5 DEF WriteArtifact, Part, Piece
<1>10. /\ \A i \in DOMAIN t : i \in DOMAIN u /\ u[i] = t[i]
       /\ \A i \in DOMAIN u : \/ i \in DOMAIN t /\ u[i] = t[i]
                              \/ i > Len(t) /\ i - Len(t) \in DOMAIN w /\ u[i] = w[i - Len(t)]
  <2>1. t \in Seq(StepsOf(13, s)) /\ w \in Seq(StepsOf(13, s))
    BY <1>2, <1>9
  <2> QED
    BY <1>6, <2>1, Joined
<1>11. Sound(u, 13, s)
  <2>1. 4 \in DOMAIN u /\ u[4] = File("checklist")
    BY <1>2, <1>10
  <2>2. File("checklist") \in Named(u)
    BY <2>1 DEF Named
  <2>3. File("package") \in Named(u) /\ Piece(u, 13, s, 21, 21, {"package"})
    BY <1>7 DEF Part
  <2>4. Piece(u, 13, s, FirstStep[13], LastStep[13], {"package"})
    BY <1>t, <2>3
  <2>5. Piece(u, 13, s, FirstStep[13], LastStep[13], Made(13))
    BY <2>4, SoundPiece
  <2> QED
    BY <1>t, <2>2, <2>3, <2>5 DEF Sound
<1>12. ChecklistLast(u)
  <2>1. \A i \in DOMAIN w : w[i].op \in {"file", "record"}
    BY <1>9 DEF File, Record
  <2>2. ASSUME NEW i \in DOMAIN u, u[i] = File("checklist") PROVE i >= 4
    <3>1. u[i].op = "file"
      BY <2>2 DEF File
    <3>2. i \in DOMAIN t /\ u[i] = t[i] => i = 4
      BY <1>2, <3>1
    <3>3. i \in Int
      BY <1>7 DEF Part, Piece
    <3>4. i > Len(t) => i >= 4
      BY <1>2, <3>3
    <3> QED
      BY <1>10, <3>2, <3>3, <3>4
  <2>3. ASSUME NEW i \in DOMAIN u, i > 4 PROVE u[i].op \notin {"mark", "stop"}
    BY <1>2, <1>10, <2>1, <2>3
  <2>4. ASSUME NEW i \in DOMAIN u, NEW j \in DOMAIN u, u[i] = File("checklist"), j > i
        PROVE  u[j].op \notin {"mark", "stop"}
    <3>1. i >= 4 /\ i \in Int /\ j \in Int
      BY <1>5, <1>7, <2>2, <2>4 DEF Part, Piece
    <3> QED
      BY <2>3, <2>4, <3>1
  <2> QED
    BY <2>4 DEF ChecklistLast
<1> QED
  BY <1>8, <1>11, <1>12

(* Every stage's program is of the kind the invariant is about.            *)
LEMMA ProgramsAreSound ==
  ASSUME NEW s \in Study, NEW k \in 1..13
  PROVE  /\ Program(k, s) \in Seq(StepsOf(k, s))
         /\ Marks(Program(k, s), FirstStep[k], LastStep[k])
         /\ \A h : LogsInto(Program(k, s), h)
         /\ RecordsFollow(Program(k, s)) /\ RecordedOnce(Program(k, s))
         /\ ChecklistLast(Program(k, s))
         /\ \/ Stops(Program(k, s))
            \/ \A a \in Produces[k] : \E i \in DOMAIN Program(k, s) : Program(k, s)[i] = File(a)
<1> DEFINE t == Program(k, s)
<1>1. Sound(t, k, s)
  <2>1. CASE k = 1
    BY <2>1, IngestIsSound DEF Program, Pipeline
  <2>2. CASE k = 2
    BY <2>2, ContractIsSound DEF Program, Pipeline
  <2>3. CASE k = 3
    BY <2>3, Gate1IsSound DEF Program, Pipeline
  <2>4. CASE k = 4
    BY <2>4, PowerIsSound DEF Program, Pipeline
  <2>5. CASE k = 5
    BY <2>5, PrepIsSound DEF Program, Pipeline
  <2>6. CASE k = 6
    BY <2>6, AssumptionsIsSound DEF Program, Pipeline
  <2>7. CASE k = 7
    BY <2>7, MeasurementIsSound DEF Program, Pipeline
  <2>8. CASE k = 8
    BY <2>8, StructuralIsSound DEF Program, Pipeline
  <2>9. CASE k = 9
    BY <2>9, EffectsIsSound DEF Program, Pipeline
  <2>10. CASE k = 10
    BY <2>10, RobustnessIsSound DEF Program, Pipeline
  <2>11. CASE k = 11
    BY <2>11, NarrateIsSound DEF Program, Pipeline
  <2>12. CASE k = 12
    BY <2>12, Gate2IsSound DEF Program, Pipeline
  <2>13. CASE k = 13
    BY <2>13, PackageIsSound DEF Program, Pipeline
  <2> QED
    BY <2>1, <2>2, <2>3, <2>4, <2>5, <2>6, <2>7, <2>8, <2>9, <2>10, <2>11, <2>12, <2>13
<1>2. ChecklistLast(t)
  <2>1. CASE k = 13
    BY <2>1, PackageIsSound DEF Program, Pipeline
  <2>2. CASE k # 13
    <3>1. "checklist" \notin Made(k)
      BY <2>2 DEF Made, Produces
    <3>2. \A i \in DOMAIN t : t[i].op = "file" => t[i].what \in Made(k)
      <4>1. \A i \in DOMAIN t : t[i] \in StepsOf(k, s)
        BY <1>1 DEF Sound, Piece
      <4> HIDE DEF t
      <4> QED
        BY <4>1, StepKinds
    <3> HIDE DEF t
    <3>3. \A i \in DOMAIN t : t[i] # File("checklist")
      BY <3>1, <3>2 DEF File
    <3> QED
      BY <3>3 DEF ChecklistLast
  <2> QED
    BY <2>1, <2>2
<1> HIDE DEF t
<1>3. \A h : LogsInto(t, h)
  BY <1>1 DEF Sound, Piece, SelfLogged, LogsInto
<1>4. Stops(t) \/ \A a \in Produces[k] : \E i \in DOMAIN t : t[i] = File(a)
  BY <1>1 DEF Sound, Named
<1> QED
  BY <1>1, <1>2, <1>3, <1>4 DEF Sound, Piece, t

-----------------------------------------------------------------------------
(* What is left of a program when its first step is done.                  *)

LEMMA ShiftedByOne ==
  ASSUME NEW t, NEW u, NEW n \in Nat, n > 0, DOMAIN t = 1..n, DOMAIN u = 1..(n - 1),
         \A i \in 1..(n - 1) : u[i] = t[i + 1]
  PROVE  /\ \A i \in DOMAIN u : i + 1 \in DOMAIN t /\ u[i] = t[i + 1]
         /\ \A i \in DOMAIN t : i = 1 \/ (i > 1 /\ i - 1 \in DOMAIN u /\ u[i - 1] = t[i])
         /\ DOMAIN t \subseteq Nat \ {0} /\ DOMAIN u \subseteq Nat \ {0} /\ 1 \in DOMAIN t
<1>1. ASSUME NEW i \in DOMAIN t, i # 1
      PROVE  i > 1 /\ i - 1 \in DOMAIN u /\ u[i - 1] = t[i]
  <2>1. i > 1 /\ i - 1 \in 1..(n - 1) /\ (i - 1) + 1 = i
    BY <1>1
  <2>2. u[i - 1] = t[(i - 1) + 1]
    BY <2>1
  <2> QED
    BY <2>1, <2>2
<1>2. \A i \in DOMAIN u : i + 1 \in DOMAIN t /\ u[i] = t[i + 1]
  OBVIOUS
<1>3. DOMAIN t \subseteq Nat \ {0} /\ DOMAIN u \subseteq Nat \ {0} /\ 1 \in DOMAIN t
  OBVIOUS
<1> QED
  BY <1>1, <1>2, <1>3

LEMMA TailFacts ==
  ASSUME NEW S, NEW t \in Seq(S), t # <<>>, NEW u, u = Tail(t)
  PROVE  /\ u \in Seq(S) /\ 1 \in DOMAIN t /\ Head(t) = t[1] /\ Head(t) \in S
         /\ \A i \in DOMAIN u : i + 1 \in DOMAIN t /\ u[i] = t[i + 1]
         /\ \A i \in DOMAIN t : i = 1 \/ (i > 1 /\ i - 1 \in DOMAIN u /\ u[i - 1] = t[i])
         /\ DOMAIN t \subseteq Nat \ {0} /\ DOMAIN u \subseteq Nat \ {0}
<1>1. PICK n \in Nat : n = Len(t)
  OBVIOUS
<1>2. n > 0 /\ DOMAIN t = 1..n
  BY <1>1
<1>3. u \in Seq(S) /\ DOMAIN u = 1..(n - 1)
  BY <1>1, <1>2
<1>4. \A i \in 1..(n - 1) : u[i] = t[i + 1]
  BY <1>1, <1>2
<1>5. Head(t) = t[1] /\ t[1] \in S
  BY <1>1, <1>2
<1>6. /\ \A i \in DOMAIN u : i + 1 \in DOMAIN t /\ u[i] = t[i + 1]
      /\ \A i \in DOMAIN t : i = 1 \/ (i > 1 /\ i - 1 \in DOMAIN u /\ u[i - 1] = t[i])
      /\ DOMAIN t \subseteq Nat \ {0} /\ DOMAIN u \subseteq Nat \ {0} /\ 1 \in DOMAIN t
  BY <1>2, <1>3, <1>4, ShiftedByOne
<1>7. Head(t) \in S
  BY <1>5
<1> QED
  BY <1>3, <1>5, <1>6, <1>7

LEMMA TailMarks ==
  ASSUME NEW S, NEW t \in Seq(S), t # <<>>, NEW lo, NEW hi, Marks(t, lo, hi),
         Head(t).op \notin {"mark", "stop"}
  PROVE  Marks(Tail(t), lo, hi)
<1>1. PICK u : u = Tail(t)
  OBVIOUS
<1>2. /\ \A i \in DOMAIN u : i + 1 \in DOMAIN t /\ u[i] = t[i + 1]
      /\ \A i \in DOMAIN t : i = 1 \/ (i > 1 /\ i - 1 \in DOMAIN u /\ u[i - 1] = t[i])
      /\ Head(t) = t[1] /\ DOMAIN u \subseteq Nat \ {0} /\ DOMAIN t \subseteq Nat \ {0}
  BY <1>1, TailFacts
<1>3. \A i \in DOMAIN u : u[i].op = "mark" => u[i].what.step \in lo..hi
  BY <1>2 DEF Marks
<1>4. Stops(t) => Stops(u)
  BY <1>2 DEF Stops
<1>5. \A i \in DOMAIN t : t[i].op = "mark" => i - 1 \in DOMAIN u /\ u[i - 1] = t[i]
  BY <1>2
<1>6. Stops(u) \/ \A n \in lo..hi : \E i \in DOMAIN u : u[i].op = "mark" /\ u[i].what.step = n
  BY <1>4, <1>5 DEF Marks
<1>7. ASSUME NEW i \in DOMAIN u, NEW j \in DOMAIN u, i < j, u[i].op = "mark", u[j].op = "mark"
      PROVE  u[i].what.step < u[j].what.step
  <2>1. i + 1 < j + 1
    BY <1>2, <1>7
  <2>2. i + 1 \in DOMAIN t /\ u[i] = t[i + 1] /\ j + 1 \in DOMAIN t /\ u[j] = t[j + 1]
    BY <1>2
  <2> QED
    BY <1>7, <2>1, <2>2 DEF Marks
<1> QED
  BY <1>1, <1>3, <1>6, <1>7 DEF Marks

(* The first mark is the next one.                                         *)
LEMMA NextMark ==
  ASSUME NEW S, NEW t \in Seq(S), t # <<>>, NEW lo \in Int, NEW hi \in Int, Marks(t, lo, hi),
         ~Stops(t), Head(t).op = "mark"
  PROVE  Head(t).what.step = lo /\ lo <= hi /\ Marks(Tail(t), lo + 1, hi)
<1>1. PICK u : u = Tail(t)
  OBVIOUS
<1>2. /\ \A i \in DOMAIN u : i + 1 \in DOMAIN t /\ u[i] = t[i + 1]
      /\ \A i \in DOMAIN t : i = 1 \/ (i > 1 /\ i - 1 \in DOMAIN u /\ u[i - 1] = t[i])
      /\ Head(t) = t[1] /\ 1 \in DOMAIN t
      /\ DOMAIN u \subseteq Nat \ {0} /\ DOMAIN t \subseteq Nat \ {0}
  BY <1>1, TailFacts
<1>3. t[1].op = "mark" /\ t[1].what.step \in lo..hi /\ lo <= hi
  BY <1>2 DEF Marks
<1>4. t[1].what.step = lo
  <2>1. lo \in lo..hi
    BY <1>3
  <2>2. PICK i \in DOMAIN t : t[i].op = "mark" /\ t[i].what.step = lo
    BY <2>1 DEF Marks
  <2>3. i > 1 => t[1].what.step < t[i].what.step
    BY <1>2, <1>3, <2>2 DEF Marks
  <2> QED
    BY <1>2, <1>3, <2>2, <2>3
<1>5. ASSUME NEW i \in DOMAIN u, u[i].op = "mark"
      PROVE  u[i].what.step \in (lo + 1)..hi
  <2>1. i + 1 \in DOMAIN t /\ u[i] = t[i + 1] /\ 1 < i + 1
    BY <1>2
  <2>2. t[1].what.step < t[i + 1].what.step /\ t[i + 1].what.step \in lo..hi
    BY <1>2, <1>3, <1>5, <2>1 DEF Marks
  <2> QED
    BY <1>4, <2>1, <2>2
<1>6. ASSUME NEW n \in (lo + 1)..hi
      PROVE  \E i \in DOMAIN u : u[i].op = "mark" /\ u[i].what.step = n
  <2>1. n \in lo..hi /\ n # lo
    OBVIOUS
  <2>2. PICK i \in DOMAIN t : t[i].op = "mark" /\ t[i].what.step = n
    BY <2>1 DEF Marks
  <2>3. i - 1 \in DOMAIN u /\ u[i - 1] = t[i]
    BY <1>2, <1>4, <2>1, <2>2
  <2> QED
    BY <2>2, <2>3
<1>7. ASSUME NEW i \in DOMAIN u, NEW j \in DOMAIN u, i < j, u[i].op = "mark", u[j].op = "mark"
      PROVE  u[i].what.step < u[j].what.step
  <2>1. i + 1 < j + 1
    BY <1>2, <1>7
  <2>2. i + 1 \in DOMAIN t /\ u[i] = t[i + 1] /\ j + 1 \in DOMAIN t /\ u[j] = t[j + 1]
    BY <1>2
  <2> QED
    BY <1>7, <2>1, <2>2 DEF Marks
<1>8. Marks(u, lo + 1, hi)
  BY <1>5, <1>6, <1>7 DEF Marks
<1> QED
  BY <1>1, <1>2, <1>3, <1>4, <1>8

LEMMA TailLogs ==
  ASSUME NEW S, NEW t \in Seq(S), t # <<>>, NEW h, LogsInto(t, h), Head(t).op # "log"
  PROVE  LogsInto(Tail(t), h) /\ (Head(t).op = "decide" => Head(t).what = h)
<1>1. PICK u : u = Tail(t)
  OBVIOUS
<1>2. /\ \A i \in DOMAIN u : i + 1 \in DOMAIN t /\ u[i] = t[i + 1]
      /\ \A i \in DOMAIN t : i = 1 \/ (i > 1 /\ i - 1 \in DOMAIN u /\ u[i - 1] = t[i])
      /\ Head(t) = t[1] /\ 1 \in DOMAIN t
      /\ DOMAIN u \subseteq Nat \ {0} /\ DOMAIN t \subseteq Nat \ {0}
  BY <1>1, TailFacts
<1>3. Head(t).op = "decide" => Head(t).what = h
  <2>1. ~OpenedBefore(t, 1)
    BY <1>2 DEF OpenedBefore
  <2> QED
    BY <1>2, <2>1 DEF LogsInto
<1>4. ASSUME NEW i \in DOMAIN u, u[i].op = "decide"
      PROVE  \/ OpenedBefore(u, i)
             \/ u[i].what = h /\ \A j \in DOMAIN u : j < i => u[j].op # "log"
  <2>1. i + 1 \in DOMAIN t /\ u[i] = t[i + 1] /\ i \in Nat
    BY <1>2
  <2>2. CASE OpenedBefore(t, i + 1)
    <3>1. PICK j \in DOMAIN t : /\ j < i + 1 /\ t[j].op = "log" /\ t[j].what = t[i + 1].what
                                /\ \A l \in DOMAIN t : j < l /\ l < i + 1 => t[l].op # "log"
      BY <2>2 DEF OpenedBefore
    <3>2. j > 1 /\ j - 1 \in DOMAIN u /\ u[j - 1] = t[j] /\ j \in Nat
      BY <1>2, <3>1
    <3>3. j - 1 < i
      BY <2>1, <3>1, <3>2
    <3>4. ASSUME NEW l \in DOMAIN u, j - 1 < l, l < i PROVE u[l].op # "log"
      <4>1. l + 1 \in DOMAIN t /\ u[l] = t[l + 1] /\ l \in Nat
        BY <1>2
      <4>2. j < l + 1 /\ l + 1 < i + 1
        BY <2>1, <3>2, <3>4, <4>1
      <4> QED
        BY <3>1, <4>1, <4>2
    <3>5. OpenedBefore(u, i)
      BY <2>1, <3>1, <3>2, <3>3, <3>4 DEF OpenedBefore
    <3> QED
      BY <3>5
  <2>3. CASE t[i + 1].what = h /\ \A j \in DOMAIN t : j < i + 1 => t[j].op # "log"
    <3>1. ASSUME NEW j \in DOMAIN u, j < i PROVE u[j].op # "log"
      <4>1. j + 1 \in DOMAIN t /\ u[j] = t[j + 1] /\ j \in Nat /\ j + 1 < i + 1
        BY <1>2, <2>1, <3>1
      <4> QED
        BY <2>3, <4>1
    <3> QED
      BY <2>1, <2>3, <3>1
  <2> QED
    BY <1>4, <2>1, <2>2, <2>3 DEF LogsInto
<1>5. LogsInto(u, h)
  BY <1>4 DEF LogsInto
<1> QED
  BY <1>1, <1>3, <1>5

(* Behind the opening of a decision log, it is the open one.               *)
LEMMA NextLog ==
  ASSUME NEW S, NEW t \in Seq(S), t # <<>>, NEW h, LogsInto(t, h), Head(t).op = "log"
  PROVE  LogsInto(Tail(t), Head(t).what)
<1>1. PICK u : u = Tail(t)
  OBVIOUS
<1>2. /\ \A i \in DOMAIN u : i + 1 \in DOMAIN t /\ u[i] = t[i + 1]
      /\ \A i \in DOMAIN t : i = 1 \/ (i > 1 /\ i - 1 \in DOMAIN u /\ u[i - 1] = t[i])
      /\ Head(t) = t[1] /\ 1 \in DOMAIN t
      /\ DOMAIN u \subseteq Nat \ {0} /\ DOMAIN t \subseteq Nat \ {0}
  BY <1>1, TailFacts
<1>3. ASSUME NEW i \in DOMAIN u, u[i].op = "decide"
      PROVE  \/ OpenedBefore(u, i)
             \/ u[i].what = t[1].what /\ \A j \in DOMAIN u : j < i => u[j].op # "log"
  <2>1. i + 1 \in DOMAIN t /\ u[i] = t[i + 1] /\ i \in Nat /\ i > 0
    BY <1>2
  <2>2. OpenedBefore(t, i + 1)
    <3>1. ~ \A j \in DOMAIN t : j < i + 1 => t[j].op # "log"
      BY <1>2, <2>1
    <3> QED
      BY <1>3, <2>1, <3>1 DEF LogsInto
  <2>3. PICK j \in DOMAIN t : /\ j < i + 1 /\ t[j].op = "log" /\ t[j].what = t[i + 1].what
                              /\ \A l \in DOMAIN t : j < l /\ l < i + 1 => t[l].op # "log"
    BY <2>2 DEF OpenedBefore
  <2>4. CASE j = 1
    <3>1. ASSUME NEW l \in DOMAIN u, l < i PROVE u[l].op # "log"
      <4>1. l + 1 \in DOMAIN t /\ u[l] = t[l + 1] /\ l \in Nat /\ l > 0
        BY <1>2
      <4>2. 1 < l + 1 /\ l + 1 < i + 1
        BY <2>1, <3>1, <4>1
      <4> QED
        BY <2>3, <2>4, <4>1, <4>2
    <3> QED
      BY <2>1, <2>3, <2>4, <3>1
  <2>5. CASE j # 1
    <3>1. j > 1 /\ j - 1 \in DOMAIN u /\ u[j - 1] = t[j] /\ j \in Nat
      BY <1>2, <2>5
    <3>2. j - 1 < i
      BY <2>1, <2>3, <3>1
    <3>3. ASSUME NEW l \in DOMAIN u, j - 1 < l, l < i PROVE u[l].op # "log"
      <4>1. l + 1 \in DOMAIN t /\ u[l] = t[l + 1] /\ l \in Nat
        BY <1>2
      <4>2. j < l + 1 /\ l + 1 < i + 1
        BY <2>1, <3>1, <3>3, <4>1
      <4> QED
        BY <2>3, <4>1, <4>2
    <3>4. OpenedBefore(u, i)
      BY <2>1, <2>3, <3>1, <3>2, <3>3 DEF OpenedBefore
    <3> QED
      BY <3>4
  <2> QED
    BY <2>4, <2>5
<1> QED
  BY <1>1, <1>2, <1>3 DEF LogsInto

LEMMA TailRecords ==
  ASSUME NEW S, NEW t \in Seq(S), t # <<>>, RecordsFollow(t), RecordedOnce(t)
  PROVE  /\ RecordsFollow(Tail(t)) /\ RecordedOnce(Tail(t))
         /\ Head(t).op = "file" /\ Head(t).what # "checklist" =>
              \E i \in DOMAIN Tail(t) : Tail(t)[i] = Record(Head(t).what)
         /\ Head(t).op = "record" => \A i \in DOMAIN Tail(t) : Tail(t)[i] # Record(Head(t).what)
<1>1. PICK u : u = Tail(t)
  OBVIOUS
<1>2. /\ \A i \in DOMAIN u : i + 1 \in DOMAIN t /\ u[i] = t[i + 1]
      /\ \A i \in DOMAIN t : i = 1 \/ (i > 1 /\ i - 1 \in DOMAIN u /\ u[i - 1] = t[i])
      /\ Head(t) = t[1] /\ 1 \in DOMAIN t
      /\ DOMAIN u \subseteq Nat \ {0} /\ DOMAIN t \subseteq Nat \ {0}
  BY <1>1, TailFacts
<1>3. RecordsFollow(u)
  <2> SUFFICES ASSUME NEW i \in DOMAIN u, u[i].op = "file", u[i].what # "checklist"
               PROVE  \E j \in DOMAIN u : i < j /\ u[j] = Record(u[i].what)
    BY DEF RecordsFollow
  <2>1. i + 1 \in DOMAIN t /\ u[i] = t[i + 1] /\ i \in Nat /\ i > 0
    BY <1>2
  <2>2. PICK j \in DOMAIN t : i + 1 < j /\ t[j] = Record(t[i + 1].what)
    BY <2>1 DEF RecordsFollow
  <2>3. j - 1 \in DOMAIN u /\ u[j - 1] = t[j] /\ j \in Nat
    BY <1>2, <2>1, <2>2
  <2>4. i < j - 1
    BY <2>1, <2>2, <2>3
  <2> QED
    BY <2>1, <2>2, <2>3, <2>4
<1>4. RecordedOnce(u)
  <2> SUFFICES ASSUME NEW i \in DOMAIN u, NEW j \in DOMAIN u,
                      u[i].op = "record", u[j].op = "record", u[i].what = u[j].what
               PROVE  i = j
    BY DEF RecordedOnce
  <2>1. i + 1 \in DOMAIN t /\ u[i] = t[i + 1] /\ j + 1 \in DOMAIN t /\ u[j] = t[j + 1]
    BY <1>2
  <2>2. i + 1 = j + 1
    BY <2>1 DEF RecordedOnce
  <2> QED
    BY <1>2, <2>2
<1>5. ASSUME t[1].op = "file", t[1].what # "checklist"
      PROVE  \E i \in DOMAIN u : u[i] = Record(t[1].what)
  <2>1. PICK j \in DOMAIN t : 1 < j /\ t[j] = Record(t[1].what)
    BY <1>2, <1>5 DEF RecordsFollow
  <2>2. j - 1 \in DOMAIN u /\ u[j - 1] = t[j]
    BY <1>2, <2>1
  <2> QED
    BY <2>1, <2>2
<1>6. ASSUME t[1].op = "record", NEW i \in DOMAIN u, u[i] = Record(t[1].what)
      PROVE  FALSE
  <2>1. i + 1 \in DOMAIN t /\ u[i] = t[i + 1] /\ i + 1 # 1
    BY <1>2
  <2>2. t[i + 1].op = "record" /\ t[i + 1].what = t[1].what
    BY <1>6, <2>1 DEF Record
  <2> QED
    BY <1>2, <1>6, <2>1, <2>2 DEF RecordedOnce
<1> QED
  BY <1>1, <1>2, <1>3, <1>4, <1>5, <1>6

LEMMA TailChecklist ==
  ASSUME NEW S, NEW t \in Seq(S), t # <<>>, ChecklistLast(t)
  PROVE  /\ ChecklistLast(Tail(t))
         /\ Head(t) = File("checklist") =>
              \A i \in DOMAIN t : t[i].op \notin {"mark", "stop"}
<1>1. PICK u : u = Tail(t)
  OBVIOUS
<1>2. /\ \A i \in DOMAIN u : i + 1 \in DOMAIN t /\ u[i] = t[i + 1]
      /\ \A i \in DOMAIN t : i = 1 \/ i > 1
      /\ Head(t) = t[1] /\ 1 \in DOMAIN t
      /\ DOMAIN u \subseteq Nat \ {0} /\ DOMAIN t \subseteq Nat \ {0}
  BY <1>1, TailFacts
<1>3. ASSUME NEW i \in DOMAIN u, NEW j \in DOMAIN u, u[i] = File("checklist"), j > i
      PROVE  u[j].op \notin {"mark", "stop"}
  <2>1. i + 1 \in DOMAIN t /\ u[i] = t[i + 1] /\ j + 1 \in DOMAIN t /\ u[j] = t[j + 1]
        /\ j + 1 > i + 1
    BY <1>2, <1>3
  <2> QED
    BY <1>3, <2>1 DEF ChecklistLast
<1>4. ASSUME t[1] = File("checklist"), NEW i \in DOMAIN t PROVE t[i].op \notin {"mark", "stop"}
  <2>1. t[1].op = "file"
    BY <1>4 DEF File
  <2>2. i > 1 => t[i].op \notin {"mark", "stop"}
    BY <1>2, <1>4 DEF ChecklistLast
  <2> QED
    BY <1>2, <2>1, <2>2
<1> QED
  BY <1>1, <1>2, <1>3, <1>4 DEF ChecklistLast

-----------------------------------------------------------------------------
(* What the invariant says of a step that is about to be done.             *)

LEMMA Tables ==
  /\ DOMAIN Pipeline = 1..13 /\ Len(Pipeline) = 13
  /\ Steps = 1..21
  /\ \A k \in 1..13 : FirstStep[k + 1] = LastStep[k] + 1
  /\ \A k \in 1..14 : FirstStep[k] \in Int /\ LastStep[k] \in Int
                      /\ 1 <= FirstStep[k] /\ LastStep[k] <= 21
                      /\ FirstStep[k] <= LastStep[k] + 1
<1>1. DOMAIN Pipeline = 1..13 /\ Len(Pipeline) = 13
  BY DEF Pipeline
<1>2. Steps = 1..21
  BY DEF Steps, Outputs
<1>3. \A k \in 1..13 : FirstStep[k + 1] = LastStep[k] + 1
  <2> SUFFICES ASSUME NEW k \in 1..13 PROVE FirstStep[k + 1] = LastStep[k] + 1
    OBVIOUS
  <2>1. k \in {1, 2, 3, 4, 5, 6, 7, 8, 9, 10, 11, 12, 13}
    OBVIOUS
  <2> QED
    BY <2>1 DEF FirstStep, LastStep
<1>4. \A k \in 1..14 : FirstStep[k] \in Int /\ LastStep[k] \in Int
                       /\ 1 <= FirstStep[k] /\ LastStep[k] <= 21
                       /\ FirstStep[k] <= LastStep[k] + 1
  <2> SUFFICES ASSUME NEW k \in 1..14
               PROVE  /\ FirstStep[k] \in Int /\ LastStep[k] \in Int
                      /\ 1 <= FirstStep[k] /\ LastStep[k] <= 21
                      /\ FirstStep[k] <= LastStep[k] + 1
    OBVIOUS
  <2>1. k \in {1, 2, 3, 4, 5, 6, 7, 8, 9, 10, 11, 12, 13, 14}
    OBVIOUS
  <2> QED
    BY <2>1 DEF FirstStep, LastStep
<1> QED
  BY <1>1, <1>2, <1>3, <1>4

LEMMA StageBounds ==
  ASSUME NEW k \in 1..13
  PROVE  /\ FirstStep[k] \in Int /\ LastStep[k] \in Int
         /\ 1 <= FirstStep[k] /\ LastStep[k] <= 21 /\ FirstStep[k + 1] = LastStep[k] + 1
<1>1. k \in 1..14
  OBVIOUS
<1> QED
  BY <1>1, Tables

LEMMA OwnRow ==
  ASSUME NEW s, NEW n \in 1..21
  PROVE  Own(s, n) \in JournalRow /\ Own(s, n).step = n
  BY Tables DEF Own, JournalRow, Status

LEMMA MadeArtifacts ==
  /\ \A k \in 1..13 : Made(k) \subseteq Artifacts
  /\ \A j, k \in 1..13 : j # k => Made(j) \cap Made(k) = {}
  /\ \A k \in 1..13 : "checklist" \in Made(k) => k = 13
<1>1. DOMAIN Produces = 1..13
  BY DEF Produces
<1>2. ASSUME NEW k \in 1..13, NEW a \in Made(k) PROVE a \in Artifacts
  <2>1. a \in Produces[k] \/ a = "advisory"
    BY DEF Made
  <2>2. a \in Produces[k] => a \in UNION {Produces[j] : j \in DOMAIN Produces}
    BY <1>1
  <2> QED
    BY <2>1, <2>2 DEF Artifacts
<1>3. ASSUME NEW k \in 1..13
      PROVE  /\ k = 1 => Made(k) = {"ingest"}
             /\ k = 2 => Made(k) = {"config"}
             /\ k = 3 => Made(k) = {"verdict1"}
             /\ k = 4 => Made(k) = {"advisory"}
             /\ k = 5 => Made(k) = {"frame"}
             /\ k \in {6, 10} => Made(k) = {}
             /\ k = 7 => Made(k) = {"measurement"}
             /\ k = 8 => Made(k) = {"structural"}
             /\ k = 9 => Made(k) = {"effects"}
             /\ k = 11 => Made(k) = {"draft"}
             /\ k = 12 => Made(k) = {"verdict2"}
             /\ k = 13 => Made(k) = {"checklist", "package"}
             /\ k \in {1, 2, 3, 4, 5, 6, 7, 8, 9, 10, 11, 12, 13}
  BY StageTable DEF Made
<1>4. ASSUME NEW j \in 1..13, NEW k \in 1..13, NEW a, a \in Made(j), a \in Made(k)
      PROVE  j = k
  <2>1. j = IF a = "ingest" THEN 1 ELSE IF a = "config" THEN 2 ELSE IF a = "verdict1" THEN 3
            ELSE IF a = "advisory" THEN 4 ELSE IF a = "frame" THEN 5
            ELSE IF a = "measurement" THEN 7 ELSE IF a = "structural" THEN 8
            ELSE IF a = "effects" THEN 9 ELSE IF a = "draft" THEN 11
            ELSE IF a = "verdict2" THEN 12 ELSE 13
    BY <1>3, <1>4
  <2>2. k = IF a = "ingest" THEN 1 ELSE IF a = "config" THEN 2 ELSE IF a = "verdict1" THEN 3
            ELSE IF a = "advisory" THEN 4 ELSE IF a = "frame" THEN 5
            ELSE IF a = "measurement" THEN 7 ELSE IF a = "structural" THEN 8
            ELSE IF a = "effects" THEN 9 ELSE IF a = "draft" THEN 11
            ELSE IF a = "verdict2" THEN 12 ELSE 13
    BY <1>3, <1>4
  <2> QED
    BY <2>1, <2>2
<1>5. \A k \in 1..13 : "checklist" \in Made(k) => k = 13
  BY <1>4, MadeTable
<1> QED
  BY <1>2, <1>4, <1>5

(* The next step, in any state of the invariant.                           *)
LEMMA AboutToDo ==
  ASSUME PipelineInv, todo # <<>>
  PROVE  /\ stage \in 1..13 /\ todo \in Seq(StepsOf(stage, study))
         /\ Head(todo) \in StepsOf(stage, study)
         /\ Head(todo) = [op |-> Head(todo).op, what |-> Head(todo).what]
         /\ 1 \in DOMAIN todo /\ todo[1] = Head(todo)
         /\ Tail(todo) \in Seq(StepsOf(stage, study))
<1>1. stage \in 1..13
  BY Tables DEF PipelineInv, TypeOK, ControlInv
<1>2. todo \in Seq(StepsOf(stage, study))
  BY <1>1 DEF PipelineInv, ControlInv
<1>3. /\ Head(todo) \in StepsOf(stage, study) /\ 1 \in DOMAIN todo /\ todo[1] = Head(todo)
      /\ Tail(todo) \in Seq(StepsOf(stage, study))
  BY <1>2, TailFacts
<1>4. Head(todo) = [op |-> Head(todo).op, what |-> Head(todo).what]
  BY <1>3, StepKinds
<1> QED
  BY <1>1, <1>2, <1>3, <1>4

(* Evidence only grows.                                                    *)
Grows(old, new) == \A prefix : Landed(old, prefix) => Landed(new, prefix)

LEMMA GrowsByOne == ASSUME NEW S, NEW s \in Seq(S), NEW x \in S PROVE Grows(s, Append(s, x))
<1>1. \A i \in DOMAIN s : i \in DOMAIN Append(s, x) /\ Append(s, x)[i] = s[i]
  OBVIOUS
<1> QED
  BY <1>1 DEF Grows, Landed

LEMMA NamedGrows ==
  ASSUME NEW S, NEW s \in Seq(S), NEW x \in S
  PROVE  Named(Append(s, x)) = Named(s) \cup {x}
<1>1. PICK n \in Nat : n = Len(s)
  OBVIOUS
<1>2. PICK t : t = Append(s, x)
  OBVIOUS
<1>3. /\ DOMAIN s = 1..n /\ DOMAIN t = 1..(n + 1) /\ t[n + 1] = x
      /\ \A i \in 1..n : t[i] = s[i]
  BY <1>1, <1>2
<1>4. \A i \in 1..(n + 1) : i \in 1..n \/ i = n + 1
  OBVIOUS
<1>5. Named(t) = Named(s) \cup {x}
  BY <1>3, <1>4 DEF Named
<1> QED
  BY <1>2, <1>5

-----------------------------------------------------------------------------
(* Parts of the invariant that a step leaves alone.                        *)

LEMMA ControlGoesOn ==
  ASSUME PipelineInv, todo # <<>>, todo' = Tail(todo), UNCHANGED <<study, stage, outcome>>,
         worker' = "none", store' \in Seq(RowIds(study)),
         journal' \in Seq(JournalRow), tracker' \in Seq(JournalRow)
  PROVE  ControlInv'
<1>1. stage \in 1..13 /\ Tail(todo) \in Seq(StepsOf(stage, study))
  BY AboutToDo
<1>2. outcome # "COMPLETED"
  BY <1>1 DEF PipelineInv, ControlInv
<1> QED
  BY <1>1, <1>2 DEF ControlInv

LEMMA JournalGoesOn ==
  ASSUME PipelineInv, todo # <<>>, todo' = Tail(todo),
         Head(todo).op \notin {"mark", "stop"},
         UNCHANGED <<study, stage, journal, tracker, forged>>, Grows(store, store')
  PROVE  JournalInv'
<1>1. todo \in Seq(StepsOf(stage, study))
  BY AboutToDo
<1>2. PICK n \in FirstStep[stage]..(LastStep[stage] + 1) :
        Marks(todo, n, LastStep[stage]) /\ Done(n)
  BY DEF PipelineInv, JournalInv
<1>3. Marks(todo', n, LastStep[stage])
  BY <1>1, <1>2, TailMarks
<1>4. Done(n)'
  BY <1>2 DEF Done
<1>5. \A m : Evidenced(store, m) => Evidenced(store', m)
  BY DEF Grows, Evidenced
<1>6. \A i \in DOMAIN tracker :
        tracker[i].status = "completed" => Evidenced(store', tracker[i].step)
  BY <1>5 DEF PipelineInv, JournalInv
<1>7. \E m \in FirstStep[stage']..(LastStep[stage'] + 1) :
        Marks(todo', m, LastStep[stage']) /\ Done(m)'
  BY <1>2, <1>3, <1>4
<1> QED
  BY <1>6, <1>7 DEF PipelineInv, JournalInv

LEMMA ChecklistGoesOn ==
  ASSUME PipelineInv, todo # <<>>, todo' = Tail(todo), Head(todo) # File("checklist"),
         UNCHANGED <<study, stage, checklist>>, Grows(store, store')
  PROVE  ChecklistInv'
<1>1. /\ stage \in 1..13 /\ todo \in Seq(StepsOf(stage, study)) /\ todo[1] = Head(todo)
      /\ 1 \in DOMAIN todo
  BY AboutToDo
<1>2. ChecklistLast(todo')
  BY <1>1, TailChecklist DEF PipelineInv, ChecklistInv
<1>3. \A i \in DOMAIN todo : i = 1 \/ (i > 1 /\ i - 1 \in DOMAIN todo' /\ todo'[i - 1] = todo[i])
  BY <1>1, TailFacts
<1>4. stage = 13 => checklist # <<>> \/ \E i \in DOMAIN todo' : todo'[i] = File("checklist")
  BY <1>1, <1>3 DEF PipelineInv, ChecklistInv
<1>5. \A m : Evidenced(store, m) => Evidenced(store', m)
  BY DEF Grows, Evidenced
<1>6. checklist # <<>> =>
        \A n \in Steps : /\ checklist[n] = "completed" => Evidenced(store', n)
                         /\ checklist[n] = "flagged" => n \in NotPerformed(study)
  BY <1>5 DEF PipelineInv, ChecklistInv
<1>7. stage # 14
  BY <1>1
<1> QED
  BY <1>2, <1>4, <1>6, <1>7 DEF ChecklistInv

LEMMA DecisionGoesOn ==
  ASSUME PipelineInv, todo # <<>>, todo' = Tail(todo), Head(todo).op \notin {"log", "decide"},
         UNCHANGED <<decisions, nextSeq>>
  PROVE  DecisionInv'
<1>1. todo \in Seq(StepsOf(stage, study))
  BY AboutToDo
<1>2. PICK h \in Handles : LogsInto(todo, h) /\ nextSeq[h] = Len(decisions) + 1
  BY DEF PipelineInv, DecisionInv
<1>3. LogsInto(todo', h)
  BY <1>1, <1>2, TailLogs
<1> QED
  BY <1>2, <1>3 DEF PipelineInv, DecisionInv, GapFree

LEMMA ArtifactGoesOn ==
  ASSUME PipelineInv, todo # <<>>, todo' = Tail(todo), Head(todo).op \notin {"file", "record", "stop"},
         UNCHANGED <<stage, artifacts, recorded>>
  PROVE  ArtifactInv'
<1>1. /\ stage \in 1..13 /\ todo \in Seq(StepsOf(stage, study)) /\ todo[1] = Head(todo)
      /\ 1 \in DOMAIN todo
  BY AboutToDo
<1>2. RecordsFollow(todo') /\ RecordedOnce(todo')
  BY <1>1, TailRecords DEF PipelineInv, ArtifactInv
<1>3. /\ \A i \in DOMAIN todo :
           i = 1 \/ (i > 1 /\ i - 1 \in DOMAIN todo' /\ todo'[i - 1] = todo[i])
      /\ \A i \in DOMAIN todo' : i + 1 \in DOMAIN todo /\ todo'[i] = todo[i + 1]
  BY <1>1, TailFacts
<1>4. \A a : Head(todo) # File(a) /\ Head(todo) # Record(a)
  BY DEF File, Record
<1>5. Stops(todo) => Stops(todo')
  BY <1>1, <1>3 DEF Stops
<1>6. ASSUME ~Stops(todo'), NEW a \in Produces[stage], a \notin artifacts
      PROVE  \E i \in DOMAIN todo' : todo'[i] = File(a)
  <2>1. ~Stops(todo)
    BY <1>5, <1>6
  <2>2. \E i \in DOMAIN todo : todo[i] = File(a)
    BY <1>1, <1>6, <2>1 DEF PipelineInv, ArtifactInv
  <2>3. PICK i \in DOMAIN todo : todo[i] = File(a)
    BY <2>2
  <2>4. i # 1
    BY <1>1, <1>4, <2>3
  <2> QED
    BY <1>3, <2>3, <2>4
<1>7. \A i \in DOMAIN recorded : recorded[i][1] = stage =>
        \A j \in DOMAIN todo' : todo'[j] # Record(recorded[i][2])
  BY <1>3 DEF PipelineInv, ArtifactInv
<1>8. ASSUME NEW a \in artifacts \ {"checklist"}, ~ \E i \in DOMAIN recorded : recorded[i][2] = a
      PROVE  \E i \in DOMAIN todo' : todo'[i] = Record(a)
  <2>1. \E i \in DOMAIN todo : todo[i] = Record(a)
    BY <1>8 DEF PipelineInv, ArtifactInv
  <2>2. PICK i \in DOMAIN todo : todo[i] = Record(a)
    BY <2>1
  <2>3. i # 1
    BY <1>1, <1>4, <2>2
  <2> QED
    BY <1>3, <2>2, <2>3
<1> QED
  BY <1>2, <1>6, <1>7, <1>8 DEF PipelineInv, ArtifactInv

(* A step of the program that touches nothing but what is left of it.      *)
LEMMA QuietStep ==
  ASSUME PipelineInv, todo # <<>>, todo' = Tail(todo), worker' = "none",
         Head(todo).op \in {"read", "compute", "render", "call"},
         UNCHANGED <<study, stage, ending, artifacts, recorded, store, tracked, logged, forged>>
  PROVE  PipelineInv'
<1>1. Grows(store, store')
  BY DEF Grows, Landed
<1>2. Head(todo) # File("checklist")
  BY DEF File
<1>3. TypeOK'
  BY DEF PipelineInv, TypeOK, ending, tracked, logged
<1>4. ControlInv'
  BY ControlGoesOn DEF PipelineInv, ControlInv, ending, tracked
<1>5. JournalInv'
  BY <1>1, JournalGoesOn DEF tracked
<1>6. ChecklistInv'
  BY <1>1, <1>2, ChecklistGoesOn DEF tracked
<1>7. DecisionInv'
  BY DecisionGoesOn DEF logged
<1>8. ArtifactInv'
  BY ArtifactGoesOn
<1> QED
  BY <1>3, <1>4, <1>5, <1>6, <1>7, <1>8 DEF PipelineInv

(* The run ends, or waits for a worker: everything written stays.          *)
LEMMA StandStill ==
  ASSUME PipelineInv,
         UNCHANGED <<study, stage, todo, artifacts, recorded, store, tracked, logged, forged>>,
         worker' \in {"none", "running"},
         worker' = "running" => todo # <<>> /\ Head(todo).op = "call",
         outcome' \in {"running", "COMPLETED_TO_BOUNDARY", "HALTED_INTEGRITY",
                       "HALTED_GATE", "crashed"},
         why' \in Reasons, stage # 14
  PROVE  PipelineInv'
<1>1. TypeOK'
  BY DEF PipelineInv, TypeOK, tracked, logged
<1>2. ControlInv'
  BY DEF PipelineInv, ControlInv, tracked
<1>3. JournalInv'
  BY DEF PipelineInv, JournalInv, Done, tracked
<1>4. ChecklistInv'
  BY DEF PipelineInv, ChecklistInv, tracked
<1>5. DecisionInv'
  BY DEF PipelineInv, DecisionInv, GapFree, logged
<1>6. ArtifactInv'
  BY DEF PipelineInv, ArtifactInv
<1> QED
  BY <1>1, <1>2, <1>3, <1>4, <1>5, <1>6 DEF PipelineInv


-----------------------------------------------------------------------------
(* The steps, one by one.                                                  *)

LEMMA NotEnded == ASSUME PipelineInv, outcome = "running" PROVE stage # 14 /\ stage \in 1..13
  BY Tables DEF PipelineInv, ControlInv, TypeOK

LEMMA StudyIsOne == ASSUME PipelineInv PROVE study \in Study
  BY StudyAssumption DEF PipelineInv, TypeOK

LEMMA InitEstablishes == ASSUME Init PROVE PipelineInv
<1>1. PICK t : t = Program(1, study)
  OBVIOUS
<1>2. study \in Study /\ 1 \in 1..13
  BY StudyAssumption DEF Init
<1>3. /\ t \in Seq(StepsOf(1, study)) /\ Marks(t, FirstStep[1], LastStep[1])
      /\ \A h : LogsInto(t, h)
      /\ RecordsFollow(t) /\ RecordedOnce(t) /\ ChecklistLast(t)
      /\ Stops(t) \/ \A a \in Produces[1] : \E i \in DOMAIN t : t[i] = File(a)
  BY <1>1, <1>2, ProgramsAreSound
<1>4. todo = t /\ stage = 1
  BY <1>1 DEF Init
<1>5. FirstStep[1] = 1 /\ LastStep[1] = 0
  BY StageTable
<1>6. TypeOK
  <2>1. forged \in 0..MaxForged
    BY StudyAssumption DEF Init
  <2>2. stage \in 1..(Len(Pipeline) + 1)
    BY <1>4, Tables
  <2>3. recorded \in Seq((DOMAIN Pipeline) \X Artifacts)
    BY DEF Init
  <2> QED
    BY <2>1, <2>2, <2>3 DEF Init, TypeOK, Reasons
<1>7. ControlInv
  BY <1>3, <1>4 DEF Init, ControlInv
<1>8. JournalInv
  <2>1. Done(1)
    BY DEF Init, Done
  <2>2. 1 \in FirstStep[stage]..(LastStep[stage] + 1) /\ Marks(todo, 1, LastStep[stage])
    BY <1>3, <1>4, <1>5
  <2>3. \E n \in FirstStep[stage]..(LastStep[stage] + 1) :
          Marks(todo, n, LastStep[stage]) /\ Done(n)
    BY <2>1, <2>2
  <2> QED
    BY <2>3 DEF Init, JournalInv, EachStepOnce
<1>9. ChecklistInv
  BY <1>3, <1>4 DEF Init, ChecklistInv
<1>10. DecisionInv
  <2>1. 1 \in Handles /\ LogsInto(todo, 1) /\ nextSeq[1] = Len(decisions) + 1
    BY <1>3, <1>4 DEF Init, Handles
  <2>2. GapFree(decisions)
    BY DEF Init, GapFree
  <2> QED
    BY <2>1, <2>2 DEF DecisionInv
<1>11. ArtifactInv
  <2>1. \A k \in DOMAIN Pipeline : ~(k < stage)
    BY <1>4, Tables
  <2> QED
    BY <1>3, <1>4, <2>1 DEF Init, ArtifactInv
<1> QED
  BY <1>6, <1>7, <1>8, <1>9, <1>10, <1>11 DEF PipelineInv

(* However the run ends before its last stage, the invariant stays.        *)
LEMMA HaltKeeps ==
  ASSUME PipelineInv, outcome = "running", NEW reason \in Reasons,
         NEW state \in {"COMPLETED_TO_BOUNDARY", "HALTED_INTEGRITY", "HALTED_GATE"},
         HaltWith(state, reason),
         UNCHANGED <<artifacts, recorded, store, tracked, logged, forged>>
  PROVE  PipelineInv'
  BY NotEnded, StandStill DEF HaltWith

LEMMA ReadArtifactKeeps == ASSUME PipelineInv, ReadArtifact PROVE PipelineInv'
<1>1. /\ outcome = "running" /\ worker = "none" /\ todo # <<>> /\ Head(todo).op = "read"
      /\ UNCHANGED <<artifacts, recorded, store, tracked, logged, forged>>
  BY DEF ReadArtifact, Doing, Running, written
<1>2. CASE Proceed
  BY <1>1, <1>2, QuietStep DEF Proceed
<1>3. CASE Halt("artifact missing")
  BY <1>1, <1>3, HaltKeeps DEF Halt, Reasons
<1> QED
  BY <1>2, <1>3 DEF ReadArtifact

LEMMA ComputeSomethingKeeps == ASSUME PipelineInv, ComputeSomething PROVE PipelineInv'
<1>1. /\ outcome = "running" /\ worker = "none" /\ todo # <<>> /\ Head(todo).op = "compute"
      /\ UNCHANGED <<artifacts, recorded, store, tracked, logged, forged>>
  BY DEF ComputeSomething, Doing, Running, written
<1>2. CASE Proceed
  BY <1>1, <1>2, QuietStep DEF Proceed
<1>3. CASE Halt("computation")
  BY <1>1, <1>3, HaltKeeps DEF Halt, Reasons
<1> QED
  BY <1>2, <1>3 DEF ComputeSomething

LEMMA RenderChecklistKeeps == ASSUME PipelineInv, RenderChecklist PROVE PipelineInv'
<1>1. /\ outcome = "running" /\ worker = "none" /\ todo # <<>> /\ Head(todo).op = "render"
      /\ UNCHANGED <<artifacts, recorded, store, tracked, logged, forged>>
  BY DEF RenderChecklist, Doing, Running, written
<1>2. CASE Proceed
  BY <1>1, <1>2, QuietStep DEF Proceed
<1>3. CASE Halt("steps unrecorded")
  BY <1>1, <1>3, HaltKeeps DEF Halt, Reasons
<1> QED
  BY <1>2, <1>3 DEF RenderChecklist

LEMMA SpawnWorkerKeeps == ASSUME PipelineInv, SpawnWorker PROVE PipelineInv'
<1>1. /\ outcome = "running" /\ worker = "none" /\ todo # <<>> /\ Head(todo).op = "call"
      /\ UNCHANGED <<artifacts, recorded, store, tracked, logged, forged>>
  BY DEF SpawnWorker, Doing, Running
<1>2. CASE worker' = "running" /\ UNCHANGED <<study, stage, todo, ending>>
  BY <1>1, <1>2, NotEnded, StandStill DEF ending, PipelineInv, TypeOK
<1>3. CASE Halt("call repeated")
  BY <1>1, <1>3, HaltKeeps DEF Halt, Reasons
<1> QED
  BY <1>2, <1>3 DEF SpawnWorker

LEMMA WorkerAnswersKeeps == ASSUME PipelineInv, WorkerAnswers PROVE PipelineInv'
<1>1. /\ todo # <<>> /\ Head(todo).op = "call" /\ worker' = "none" /\ todo' = Tail(todo)
      /\ UNCHANGED <<study, stage, ending, artifacts, recorded, store, tracked, logged, forged>>
  BY DEF WorkerAnswers, written, PipelineInv, ControlInv
<1> QED
  BY <1>1, QuietStep

LEMMA WorkerFailsKeeps == ASSUME PipelineInv, WorkerFails \/ WorkerTimesOut PROVE PipelineInv'
<1>1. /\ outcome = "running"
      /\ UNCHANGED <<artifacts, recorded, store, tracked, logged, forged>>
  BY DEF WorkerFails, WorkerTimesOut, Running, written
<1>2. CASE Halt("worker")
  BY <1>1, <1>2, HaltKeeps DEF Halt, Reasons
<1>3. CASE Halt("timeout")
  BY <1>1, <1>3, HaltKeeps DEF Halt, Reasons
<1> QED
  BY <1>2, <1>3 DEF WorkerFails, WorkerTimesOut

LEMMA CrashKeeps == ASSUME PipelineInv, Crash PROVE PipelineInv'
<1>1. /\ outcome = "running" /\ outcome' = "crashed" /\ worker' = "none" /\ why' = why
      /\ UNCHANGED <<study, stage, todo, artifacts, recorded, store, tracked, logged, forged>>
  BY DEF Crash, Running, written
<1>2. why \in Reasons
  BY DEF PipelineInv, TypeOK
<1> QED
  BY <1>1, <1>2, NotEnded, StandStill

LEMMA StopRunKeeps == ASSUME PipelineInv, StopRun PROVE PipelineInv'
<1>1. /\ outcome = "running" /\ todo # <<>> /\ Head(todo).op = "stop"
      /\ HaltWith(Head(todo).what, "verdict or method")
      /\ UNCHANGED <<artifacts, recorded, store, tracked, logged, forged>>
  BY DEF StopRun, Doing, Running, This, written
<1>2. Head(todo) \in StepsOf(stage, study)
  BY <1>1, AboutToDo
<1>3. Head(todo).what \in {"HALTED_GATE", "COMPLETED_TO_BOUNDARY", "HALTED_INTEGRITY"}
  BY <1>1, <1>2, StepKinds
<1>4. "verdict or method" \in Reasons
  BY DEF Reasons
<1>5. PICK state : state = Head(todo).what
  OBVIOUS
<1> QED
  BY <1>1, <1>3, <1>4, <1>5, HaltKeeps

LEMMA AppendFacts ==
  ASSUME NEW S, NEW s \in Seq(S), NEW x \in S, NEW t, t = Append(s, x)
  PROVE  /\ t \in Seq(S) /\ Len(s) \in Nat /\ Len(t) = Len(s) + 1
         /\ DOMAIN s = 1..Len(s) /\ DOMAIN t = 1..(Len(s) + 1)
         /\ t[Len(s) + 1] = x /\ Len(s) + 1 \in DOMAIN t
         /\ \A i \in DOMAIN s : i \in DOMAIN t /\ t[i] = s[i]
         /\ \A i \in DOMAIN t : i \in DOMAIN s \/ i = Len(s) + 1
<1>1. PICK n \in Nat : n = Len(s)
  OBVIOUS
<1>2. /\ t \in Seq(S) /\ Len(t) = n + 1 /\ DOMAIN s = 1..n /\ DOMAIN t = 1..(n + 1)
      /\ t[n + 1] = x /\ \A i \in 1..n : t[i] = s[i]
  BY <1>1
<1>3. /\ n + 1 \in 1..(n + 1) /\ \A i \in 1..(n + 1) : i \in 1..n \/ i = n + 1
      /\ \A i \in 1..n : i \in 1..(n + 1)
  OBVIOUS
<1> QED
  BY <1>1, <1>2, <1>3

LEMMA WriteRowKeeps == ASSUME PipelineInv, WriteRow PROVE PipelineInv'
<1>1. /\ outcome = "running" /\ worker = "none" /\ todo # <<>> /\ Head(todo).op = "row"
      /\ UNCHANGED <<artifacts, recorded, calls, tracked, logged, forged>>
  BY DEF WriteRow, Doing, Running
<1>2. CASE Halt("row repeated") /\ UNCHANGED store
  BY <1>1, <1>2, HaltKeeps DEF Halt, Reasons
<1>3. CASE store' = Append(store, This) /\ Proceed
  <2>1. This \in RowIds(study)
    BY <1>1, AboutToDo, StepKinds DEF This
  <2>2. store \in Seq(RowIds(study))
    BY DEF PipelineInv, ControlInv
  <2>3. Grows(store, store') /\ store' \in Seq(RowIds(study))
    BY <1>3, <2>1, <2>2, GrowsByOne
  <2>4. /\ todo' = Tail(todo) /\ UNCHANGED <<study, stage, outcome, why>> /\ worker' = "none"
        /\ UNCHANGED <<journal, tracker, checklist, decisions, nextSeq, forged>>
    BY <1>1, <1>3 DEF Proceed, ending, tracked, logged
  <2>5. Head(todo) # File("checklist")
    BY <1>1 DEF File
  <2>6. TypeOK'
    BY <1>1, <2>4 DEF PipelineInv, TypeOK
  <2>7. ControlInv'
    BY <1>1, <2>3, <2>4, ControlGoesOn DEF PipelineInv, ControlInv
  <2>8. JournalInv'
    BY <1>1, <2>3, <2>4, JournalGoesOn
  <2>9. ChecklistInv'
    BY <1>1, <2>3, <2>4, <2>5, ChecklistGoesOn
  <2>10. DecisionInv'
    BY <1>1, <2>4, DecisionGoesOn
  <2>11. ArtifactInv'
    BY <1>1, <2>4, ArtifactGoesOn
  <2> QED
    BY <2>6, <2>7, <2>8, <2>9, <2>10, <2>11 DEF PipelineInv
<1> QED
  BY <1>2, <1>3 DEF WriteRow

(* What is replayed from disk is what was on it.                           *)
LEMMA OpenJournalKeeps == ASSUME PipelineInv, OpenJournal PROVE PipelineInv'
<1>1. /\ outcome = "running" /\ worker = "none" /\ todo # <<>> /\ Head(todo).op = "journal"
      /\ UNCHANGED <<journal, checklist, artifacts, recorded, store, decisions, nextSeq, forged>>
  BY DEF OpenJournal, Doing, Running, written, logged
<1>2. CASE Halt("journal not replayable") /\ UNCHANGED tracker
  BY <1>1, <1>2, HaltKeeps DEF Halt, Reasons, tracked, logged
<1>3. CASE Replayable(journal, store) /\ tracker' = journal /\ Proceed
  <2>1. /\ todo' = Tail(todo) /\ UNCHANGED <<study, stage, outcome, why>> /\ worker' = "none"
    BY <1>1, <1>3 DEF Proceed, ending
  <2>2. Grows(store, store')
    BY <1>1 DEF Grows, Landed
  <2>3. Head(todo) # File("checklist")
    BY <1>1 DEF File
  <2>4. TypeOK'
    BY <1>1, <1>3, <2>1 DEF PipelineInv, TypeOK
  <2>5. ControlInv'
    BY <1>1, <1>3, <2>1, ControlGoesOn DEF PipelineInv, ControlInv
  <2>6. JournalInv'
    <3>1. todo \in Seq(StepsOf(stage, study))
      BY <1>1, AboutToDo
    <3>2. PICK n \in FirstStep[stage]..(LastStep[stage] + 1) :
            Marks(todo, n, LastStep[stage]) /\ Done(n)
      BY DEF PipelineInv, JournalInv
    <3>3. Marks(todo', n, LastStep[stage])
      BY <1>1, <2>1, <3>1, <3>2, TailMarks
    <3>4. Done(n)'
      BY <1>1, <1>3, <2>1, <3>2 DEF Done
    <3>5. \E m \in FirstStep[stage']..(LastStep[stage'] + 1) :
            Marks(todo', m, LastStep[stage']) /\ Done(m)'
      BY <2>1, <3>2, <3>3, <3>4
    <3> QED
      BY <1>1, <1>3, <3>5 DEF JournalInv, Replayable
  <2>7. ChecklistInv'
    BY <1>1, <2>1, <2>2, <2>3, ChecklistGoesOn
  <2>8. DecisionInv'
    BY <1>1, <2>1, DecisionGoesOn
  <2>9. ArtifactInv'
    BY <1>1, <2>1, ArtifactGoesOn
  <2> QED
    BY <2>4, <2>5, <2>6, <2>7, <2>8, <2>9 DEF PipelineInv
<1> QED
  BY <1>2, <1>3 DEF OpenJournal

(* The steps of the playbook are marked in its order.                      *)
LEMMA MarkStepKeeps == ASSUME PipelineInv, MarkStep PROVE PipelineInv'
<1>1. /\ outcome = "running" /\ worker = "none" /\ todo # <<>> /\ Head(todo).op = "mark"
      /\ UNCHANGED <<checklist, artifacts, recorded, store, decisions, nextSeq, forged>>
  BY DEF MarkStep, Doing, Running, written, logged
<1>2. CASE Halt("step not markable") /\ UNCHANGED <<tracker, journal>>
  BY <1>1, <1>2, HaltKeeps DEF Halt, Reasons, tracked, logged
<1>3. CASE /\ Markable(tracker, store, This.step, This.status)
           /\ tracker' = Append(tracker, This) /\ journal' = Append(journal, This) /\ Proceed
  <2>1. /\ todo' = Tail(todo) /\ UNCHANGED <<study, stage, outcome, why>> /\ worker' = "none"
    BY <1>1, <1>3 DEF Proceed, ending
  <2>2. /\ stage \in 1..13 /\ todo \in Seq(StepsOf(stage, study))
        /\ Head(todo) \in StepsOf(stage, study)
    BY <1>1, AboutToDo
  <2>3. ~Refused(stage, study)
    BY <1>1, <2>2, StepKinds
  <2>4. PICK m \in FirstStep[stage]..LastStep[stage] : This = Own(study, m)
    BY <1>1, <2>2, StepKinds DEF This
  <2>5. ~Stops(todo)
    <3>1. \A i \in DOMAIN todo : todo[i] \in StepsOf(stage, study)
      BY <2>2
    <3> QED
      BY <2>3, <3>1, StepKinds DEF Stops
  <2>6. PICK n \in FirstStep[stage]..(LastStep[stage] + 1) :
          Marks(todo, n, LastStep[stage]) /\ Done(n)
    BY DEF PipelineInv, JournalInv
  <2>7. /\ FirstStep[stage] \in Int /\ LastStep[stage] \in Int /\ 1 <= FirstStep[stage]
        /\ LastStep[stage] <= 21
    BY <2>2, StageBounds
  <2>8. m \in 1..21 /\ n \in Int /\ n >= 1
    BY <2>4, <2>6, <2>7
  <2>9. /\ Head(todo).what.step = n /\ n <= LastStep[stage]
        /\ Marks(todo', n + 1, LastStep[stage])
    BY <1>1, <2>1, <2>2, <2>5, <2>6, <2>7, <2>8, NextMark
  <2>10. m = n
    BY <2>4, <2>8, <2>9, OwnRow DEF This
  <2>11. This = Own(study, n) /\ This \in JournalRow /\ This.step = n
    BY <2>4, <2>8, <2>10, OwnRow
  <2>12. journal \in Seq(JournalRow) /\ tracker \in Seq(JournalRow)
    BY DEF PipelineInv, ControlInv
  <2>13. /\ journal' \in Seq(JournalRow) /\ Len(journal') = Len(journal) + 1
         /\ Len(journal) \in Nat /\ journal'[Len(journal) + 1] = This
         /\ \A i \in DOMAIN journal' :
              (i \in DOMAIN journal /\ journal'[i] = journal[i]) \/ i = Len(journal) + 1
    BY <1>3, <2>11, <2>12, AppendFacts
  <2>14. /\ tracker' \in Seq(JournalRow) /\ tracker'[Len(tracker) + 1] = This
         /\ \A i \in DOMAIN tracker' :
              (i \in DOMAIN tracker /\ tracker'[i] = tracker[i]) \/ i = Len(tracker) + 1
    BY <1>3, <2>11, <2>12, AppendFacts
  <2>15. Named(journal') = Named(journal) \cup {This} /\ Named(tracker') = Named(tracker) \cup {This}
    BY <1>3, <2>11, <2>12, NamedGrows
  <2>16. ~Marked(tracker, n) /\ (This.status = "completed" => Evidenced(store, n))
    BY <1>3, <2>11 DEF Markable
  <2>17. Grows(store, store')
    BY <1>1 DEF Grows, Landed
  <2>18. Head(todo) # File("checklist")
    BY <1>1 DEF File
  <2>19. TypeOK'
    <3>1. \A i \in DOMAIN journal' : journal'[i] \in JournalRow
      BY <2>13
    <3>2. \A i \in DOMAIN tracker' : tracker'[i] \in JournalRow
      BY <2>14
    <3> QED
      BY <1>1, <2>1, <3>1, <3>2 DEF PipelineInv, TypeOK
  <2>20. ControlInv'
    BY <1>1, <2>1, <2>13, <2>14, ControlGoesOn DEF PipelineInv, ControlInv
  <2>21. JournalInv'
    <3>1. EachStepOnce(tracker')
      BY <2>11, <2>14, <2>16 DEF EachStepOnce, Marked, PipelineInv, JournalInv
    <3>2. \A i \in DOMAIN tracker' :
            tracker'[i].status = "completed" => Evidenced(store', tracker'[i].step)
      BY <1>1, <2>11, <2>14, <2>16 DEF PipelineInv, JournalInv
    <3>3. Done(n + 1)'
      <4>1. \A x \in 1..((n + 1) - 1) : x \in 1..(n - 1) \/ x = n
        BY <2>8
      <4>2. \A x \in 1..((n + 1) - 1) :
              Own(study, x) \in Named(journal') /\ Own(study, x) \in Named(tracker')
        BY <2>6, <2>11, <2>15, <4>1 DEF Done
      <4>3. forged = 0 => Len(journal) = n - 1 /\ \A i \in DOMAIN journal : journal[i].step = i
        BY <2>6 DEF Done
      <4>4. forged = 0 => /\ Len(journal') = (n + 1) - 1
                          /\ \A i \in DOMAIN journal' : journal'[i].step = i
        BY <2>8, <2>11, <2>13, <4>3
      <4> QED
        BY <1>1, <2>1, <4>2, <4>4 DEF Done
    <3>4. n + 1 \in FirstStep[stage]..(LastStep[stage] + 1)
      BY <2>6, <2>7, <2>9
    <3>5. \E x \in FirstStep[stage']..(LastStep[stage'] + 1) :
            Marks(todo', x, LastStep[stage']) /\ Done(x)'
      BY <2>1, <2>9, <3>3, <3>4
    <3> QED
      BY <3>1, <3>2, <3>5 DEF JournalInv
  <2>22. ChecklistInv'
    BY <1>1, <2>1, <2>17, <2>18, ChecklistGoesOn
  <2>23. DecisionInv'
    BY <1>1, <2>1, DecisionGoesOn
  <2>24. ArtifactInv'
    BY <1>1, <2>1, ArtifactGoesOn
  <2> QED
    BY <2>19, <2>20, <2>21, <2>22, <2>23, <2>24 DEF PipelineInv
<1> QED
  BY <1>2, <1>3 DEF MarkStep

(* A decision log that is opened reads every entry that is there.          *)
LEMMA OpenDecisionLogKeeps == ASSUME PipelineInv, OpenDecisionLog PROVE PipelineInv'
<1>1. /\ outcome = "running" /\ worker = "none" /\ todo # <<>> /\ Head(todo).op = "log"
      /\ UNCHANGED <<artifacts, recorded, store, tracked, decisions, forged>>
  BY DEF OpenDecisionLog, Doing, Running, written
<1>2. CASE Halt("log with a gap") /\ UNCHANGED nextSeq
  BY <1>1, <1>2, HaltKeeps DEF Halt, Reasons, logged
<1>3. CASE nextSeq' = [nextSeq EXCEPT ![This] = Len(decisions) + 1] /\ Proceed
  <2>1. /\ todo' = Tail(todo) /\ UNCHANGED <<study, stage, outcome, why>> /\ worker' = "none"
        /\ UNCHANGED <<journal, tracker, checklist>>
    BY <1>1, <1>3 DEF Proceed, ending, tracked
  <2>2. todo \in Seq(StepsOf(stage, study)) /\ Head(todo) \in StepsOf(stage, study)
    BY <1>1, AboutToDo
  <2>3. PICK h : h = Head(todo).what
    OBVIOUS
  <2>4. h \in Handles
    BY <1>1, <2>2, <2>3, StepKinds
  <2>5. decisions \in Seq(Nat) /\ nextSeq \in [Handles -> Nat]
    BY DEF PipelineInv, TypeOK
  <2>6. Len(decisions) + 1 \in Nat
    BY <2>5
  <2>7. nextSeq' = [nextSeq EXCEPT ![h] = Len(decisions) + 1]
    BY <1>3, <2>3 DEF This
  <2>8. nextSeq' \in [Handles -> Nat] /\ nextSeq'[h] = Len(decisions) + 1
    BY <2>4, <2>5, <2>6, <2>7
  <2>9. Grows(store, store')
    BY <1>1 DEF Grows, Landed
  <2>10. Head(todo) # File("checklist")
    BY <1>1 DEF File
  <2>11. TypeOK'
    BY <1>1, <2>1, <2>8 DEF PipelineInv, TypeOK
  <2>12. ControlInv'
    BY <1>1, <2>1, ControlGoesOn DEF PipelineInv, ControlInv
  <2>13. JournalInv'
    BY <1>1, <2>1, <2>9, JournalGoesOn
  <2>14. ChecklistInv'
    BY <1>1, <2>1, <2>9, <2>10, ChecklistGoesOn
  <2>15. DecisionInv'
    <3>1. PICK old \in Handles : LogsInto(todo, old)
      BY DEF PipelineInv, DecisionInv
    <3>2. LogsInto(todo', h)
      BY <1>1, <2>1, <2>2, <2>3, <3>1, NextLog
    <3>3. GapFree(decisions')
      BY <1>1 DEF PipelineInv, DecisionInv
    <3> QED
      BY <1>1, <2>4, <2>8, <3>2, <3>3 DEF DecisionInv
  <2>16. ArtifactInv'
    BY <1>1, <2>1, ArtifactGoesOn
  <2> QED
    BY <2>11, <2>12, <2>13, <2>14, <2>15, <2>16 DEF PipelineInv
<1> QED
  BY <1>2, <1>3 DEF OpenDecisionLog

(* Only the object opened last writes, and it knows how many there are.    *)
LEMMA AppendDecisionKeeps == ASSUME PipelineInv, AppendDecision PROVE PipelineInv'
<1>1. /\ outcome = "running" /\ worker = "none" /\ todo # <<>> /\ Head(todo).op = "decide"
      /\ decisions' = Append(decisions, nextSeq[This])
      /\ nextSeq' = [nextSeq EXCEPT ![This] = @ + 1]
      /\ todo' = Tail(todo) /\ UNCHANGED <<study, stage, outcome, why>> /\ worker' = "none"
      /\ UNCHANGED <<artifacts, recorded, store, journal, tracker, checklist, forged>>
  BY DEF AppendDecision, Doing, Running, Proceed, ending, written, tracked
<1>2. todo \in Seq(StepsOf(stage, study)) /\ Head(todo) \in StepsOf(stage, study)
  BY <1>1, AboutToDo
<1>3. PICK h \in Handles : LogsInto(todo, h) /\ nextSeq[h] = Len(decisions) + 1
  BY DEF PipelineInv, DecisionInv
<1>4. LogsInto(todo', h) /\ This = h
  BY <1>1, <1>2, <1>3, TailLogs DEF This
<1>5. decisions \in Seq(Nat) /\ nextSeq \in [Handles -> Nat] /\ GapFree(decisions)
  BY DEF PipelineInv, TypeOK, DecisionInv
<1>6. nextSeq[h] \in Nat /\ nextSeq[h] + 1 \in Nat
  BY <1>5
<1>7. decisions' = Append(decisions, nextSeq[h]) /\ nextSeq' = [nextSeq EXCEPT ![h] = nextSeq[h] + 1]
  BY <1>1, <1>4
<1>8. nextSeq' \in [Handles -> Nat] /\ nextSeq'[h] = nextSeq[h] + 1
  BY <1>5, <1>6, <1>7
<1>9. /\ decisions' \in Seq(Nat) /\ Len(decisions') = Len(decisions) + 1
      /\ decisions'[Len(decisions) + 1] = nextSeq[h]
      /\ \A i \in DOMAIN decisions : decisions'[i] = decisions[i]
      /\ \A i \in DOMAIN decisions' : i \in DOMAIN decisions \/ i = Len(decisions) + 1
  BY <1>5, <1>6, <1>7, AppendFacts
<1>10. GapFree(decisions') /\ nextSeq'[h] = Len(decisions') + 1
  BY <1>3, <1>5, <1>8, <1>9 DEF GapFree
<1>11. Grows(store, store')
  BY <1>1 DEF Grows, Landed
<1>12. Head(todo) # File("checklist")
  BY <1>1 DEF File
<1>13. TypeOK'
  BY <1>1, <1>8, <1>9 DEF PipelineInv, TypeOK
<1>14. ControlInv'
  BY <1>1, ControlGoesOn DEF PipelineInv, ControlInv
<1>15. JournalInv'
  BY <1>1, <1>11, JournalGoesOn
<1>16. ChecklistInv'
  BY <1>1, <1>11, <1>12, ChecklistGoesOn
<1>17. DecisionInv'
  BY <1>4, <1>10 DEF DecisionInv
<1>18. ArtifactInv'
  BY <1>1, ArtifactGoesOn
<1> QED
  BY <1>13, <1>14, <1>15, <1>16, <1>17, <1>18 DEF PipelineInv

(* A stage records what it made, and nobody has recorded it before.        *)
LEMMA RecordWrittenKeeps == ASSUME PipelineInv, RecordWritten PROVE PipelineInv'
<1>1. /\ outcome = "running" /\ worker = "none" /\ todo # <<>> /\ Head(todo).op = "record"
      /\ recorded' = Append(recorded, <<stage, This>>)
      /\ todo' = Tail(todo) /\ UNCHANGED <<study, stage, outcome, why>> /\ worker' = "none"
      /\ UNCHANGED <<artifacts, store, journal, tracker, checklist, decisions, nextSeq, forged>>
  BY DEF RecordWritten, Doing, Running, Proceed, ending, tracked, logged
<1>2. /\ stage \in 1..13 /\ todo \in Seq(StepsOf(stage, study)) /\ todo[1] = Head(todo)
      /\ Head(todo) \in StepsOf(stage, study) /\ 1 \in DOMAIN todo
      /\ Head(todo) = [op |-> Head(todo).op, what |-> Head(todo).what]
  BY <1>1, AboutToDo
<1>3. PICK a : a = Head(todo).what
  OBVIOUS
<1>4. a \in Made(stage) /\ Head(todo) = Record(a) /\ recorded' = Append(recorded, <<stage, a>>)
  BY <1>1, <1>2, <1>3, StepKinds DEF Record, This
<1>5. a \in Artifacts /\ stage \in DOMAIN Pipeline
  BY <1>2, <1>4, MadeArtifacts, Tables
<1>6. recorded \in Seq((DOMAIN Pipeline) \X Artifacts)
  BY DEF PipelineInv, TypeOK
<1>7. PICK new : new = <<stage, a>>
  OBVIOUS
<1>8. new \in (DOMAIN Pipeline) \X Artifacts /\ new[1] = stage /\ new[2] = a
  BY <1>5, <1>7
<1>9. PICK n : n = Len(recorded) + 1
  OBVIOUS
<1>10. /\ recorded' \in Seq((DOMAIN Pipeline) \X Artifacts)
       /\ recorded'[n] = new /\ n \in DOMAIN recorded'
       /\ \A i \in DOMAIN recorded : i \in DOMAIN recorded' /\ recorded'[i] = recorded[i]
       /\ \A i \in DOMAIN recorded' : i \in DOMAIN recorded \/ i = n
  BY <1>4, <1>6, <1>7, <1>8, <1>9, AppendFacts
<1>11. /\ \A i \in DOMAIN todo :
            i = 1 \/ (i > 1 /\ i - 1 \in DOMAIN todo' /\ todo'[i - 1] = todo[i])
       /\ \A i \in DOMAIN todo' : i + 1 \in DOMAIN todo /\ todo'[i] = todo[i + 1]
  BY <1>1, <1>2, TailFacts
<1>12. /\ RecordsFollow(todo') /\ RecordedOnce(todo')
       /\ \A i \in DOMAIN todo' : todo'[i] # Record(a)
  BY <1>1, <1>2, <1>3, TailRecords DEF PipelineInv, ArtifactInv
<1>13. ASSUME NEW i \in DOMAIN recorded, recorded[i][2] = a PROVE FALSE
  <2>1. recorded[i] \in (DOMAIN Pipeline) \X Artifacts
    BY <1>6
  <2>2. recorded[i][1] \in 1..13
    BY <2>1, Tables
  <2>3. a \in Made(recorded[i][1])
    BY <1>13 DEF PipelineInv, ArtifactInv
  <2>4. recorded[i][1] = stage
    BY <1>2, <1>4, <2>2, <2>3, MadeArtifacts
  <2>5. todo[1] # Record(recorded[i][2])
    BY <1>2, <2>4 DEF PipelineInv, ArtifactInv
  <2> QED
    BY <1>2, <1>4, <1>13, <2>5
<1>14. Grows(store, store')
  BY <1>1 DEF Grows, Landed
<1>15. Head(todo) # File("checklist") /\ \A b : Head(todo) # File(b)
  BY <1>1 DEF File
<1>16. TypeOK'
  BY <1>1, <1>10 DEF PipelineInv, TypeOK
<1>17. ControlInv'
  BY <1>1, ControlGoesOn DEF PipelineInv, ControlInv
<1>18. JournalInv'
  BY <1>1, <1>14, JournalGoesOn
<1>19. ChecklistInv'
  BY <1>1, <1>14, <1>15, ChecklistGoesOn
<1>20. DecisionInv'
  BY <1>1, DecisionGoesOn
<1>21. ArtifactInv'
  <2>1. Stops(todo) => Stops(todo')
    BY <1>1, <1>2, <1>11 DEF Stops
  <2>2. ASSUME ~Stops(todo'), NEW b \in Produces[stage], b \notin artifacts
        PROVE  \E i \in DOMAIN todo' : todo'[i] = File(b)
    <3>1. ~Stops(todo)
      BY <2>1, <2>2
    <3>2. \E i \in DOMAIN todo : todo[i] = File(b)
      BY <1>2, <2>2, <3>1 DEF PipelineInv, ArtifactInv
    <3>3. PICK i \in DOMAIN todo : todo[i] = File(b)
      BY <3>2
    <3>4. i # 1
      BY <1>2, <1>15, <3>3
    <3> QED
      BY <1>11, <3>3, <3>4
  <2>3. \A i \in DOMAIN recorded' :
          recorded'[i][1] <= stage /\ recorded'[i][2] \in Made(recorded'[i][1])
    <3>1. stage <= stage
      BY <1>2
    <3> QED
      BY <1>4, <1>8, <1>10, <3>1 DEF PipelineInv, ArtifactInv
  <2>4. \A i, j \in DOMAIN recorded' : recorded'[i][2] = recorded'[j][2] => i = j
    BY <1>8, <1>10, <1>13 DEF PipelineInv, ArtifactInv
  <2>5. \A i \in DOMAIN recorded' : recorded'[i][1] = stage =>
          \A j \in DOMAIN todo' : todo'[j] # Record(recorded'[i][2])
    BY <1>8, <1>10, <1>11, <1>12 DEF PipelineInv, ArtifactInv
  <2>6. ASSUME NEW b \in artifacts \ {"checklist"},
               ~ \E i \in DOMAIN recorded' : recorded'[i][2] = b
        PROVE  \E i \in DOMAIN todo' : todo'[i] = Record(b)
    <3>1. ~ \E i \in DOMAIN recorded : recorded[i][2] = b
      BY <1>10, <2>6
    <3>2. \E i \in DOMAIN todo : todo[i] = Record(b)
      BY <2>6, <3>1 DEF PipelineInv, ArtifactInv
    <3>3. PICK i \in DOMAIN todo : todo[i] = Record(b)
      BY <3>2
    <3>4. b # a
      BY <1>8, <1>10, <2>6
    <3>5. i # 1
      BY <1>2, <1>4, <3>3, <3>4 DEF Record
    <3> QED
      BY <1>11, <3>3, <3>5
  <2> QED
    BY <1>1, <1>12, <2>2, <2>3, <2>4, <2>5, <2>6 DEF PipelineInv, ArtifactInv
<1> QED
  BY <1>16, <1>17, <1>18, <1>19, <1>20, <1>21 DEF PipelineInv

(* With every row its own, the checklist is the one the study must have.   *)
LEMMA ChecklistOfOwnRows ==
  ASSUME PipelineInv, \A m \in 1..21 : Own(study, m) \in Named(tracker)
  PROVE  /\ Checklist(tracker) \in [Steps -> Status] /\ Checklist(tracker) # <<>>
         /\ \A m \in Steps :
              /\ Checklist(tracker)[m] = "completed" => Evidenced(store, m)
              /\ Checklist(tracker)[m] = "flagged" => m \in NotPerformed(study)
<1>1. Steps = 1..21
  BY Tables
<1>2. ASSUME NEW m \in Steps
      PROVE  /\ StatusIn(tracker, m) = Own(study, m).status
             /\ Own(study, m).status = "completed" => Evidenced(store, m)
  <2>1. PICK i \in DOMAIN tracker : tracker[i] = Own(study, m)
    BY <1>1 DEF Named
  <2>2. tracker[i].step = m
    BY <1>1, <2>1, OwnRow
  <2>3. \A j \in DOMAIN tracker : tracker[j].step = m => j = i
    BY <2>2 DEF PipelineInv, JournalInv, EachStepOnce
  <2>4. (CHOOSE j \in DOMAIN tracker : tracker[j].step = m) = i
    BY <2>2, <2>3
  <2>5. StatusIn(tracker, m) = Own(study, m).status
    BY <2>1, <2>4 DEF StatusIn
  <2>6. Own(study, m).status = "completed" => Evidenced(store, m)
    BY <2>1, <2>2 DEF PipelineInv, JournalInv
  <2> QED
    BY <2>5, <2>6
<1>3. \A m \in Steps : Own(study, m).status \in Status
  BY DEF Own, Status
<1>4. \A m \in Steps : Own(study, m).status = "flagged" => m \in NotPerformed(study)
  BY DEF Own
<1>5. Checklist(tracker) \in [Steps -> Status]
  BY <1>2, <1>3 DEF Checklist
<1>6. Checklist(tracker) # <<>>
  <2>1. 1 \in DOMAIN Checklist(tracker) /\ 1 \notin DOMAIN <<>>
    BY <1>1 DEF Checklist
  <2> QED
    BY <2>1
<1>7. \A m \in Steps : Checklist(tracker)[m] = StatusIn(tracker, m)
  BY DEF Checklist
<1> QED
  BY <1>2, <1>4, <1>5, <1>6, <1>7

(* When the checklist is written no step of the playbook is left to do.    *)
LEMMA AllDoneByChecklist ==
  ASSUME PipelineInv, todo # <<>>, Head(todo) = File("checklist")
  PROVE  stage = 13 /\ \A m \in 1..21 : Own(study, m) \in Named(tracker)
<1>1. /\ stage \in 1..13 /\ todo \in Seq(StepsOf(stage, study))
      /\ Head(todo) \in StepsOf(stage, study)
  BY AboutToDo
<1>2. Head(todo).op = "file" /\ Head(todo).what = "checklist"
  BY DEF File
<1>3. "checklist" \in Made(stage)
  BY <1>1, <1>2, StepKinds
<1>4. stage = 13
  BY <1>1, <1>3, MadeArtifacts
<1>5. \A i \in DOMAIN todo : todo[i].op \notin {"mark", "stop"}
  BY <1>1, TailChecklist DEF PipelineInv, ChecklistInv
<1>6. PICK n \in FirstStep[stage]..(LastStep[stage] + 1) :
        Marks(todo, n, LastStep[stage]) /\ Done(n)
  BY DEF PipelineInv, JournalInv
<1>7. FirstStep[stage] = 21 /\ LastStep[stage] = 21
  BY <1>4, StageTable
<1>8. ~(21 \in n..21)
  BY <1>5, <1>6, <1>7 DEF Marks, Stops
<1>9. n = 22
  BY <1>6, <1>7, <1>8
<1>10. \A m \in 1..(22 - 1) : Own(study, m) \in Named(tracker)
  BY <1>6, <1>9 DEF Done
<1>11. \A m \in 1..21 : m \in 1..(22 - 1)
  OBVIOUS
<1> QED
  BY <1>4, <1>10, <1>11

LEMMA WriteFileKeeps == ASSUME PipelineInv, WriteFile PROVE PipelineInv'
<1>1. /\ outcome = "running" /\ worker = "none" /\ todo # <<>> /\ Head(todo).op = "file"
      /\ artifacts' = artifacts \cup {This}
      /\ checklist' = IF This = "checklist" THEN Checklist(tracker) ELSE checklist
      /\ todo' = Tail(todo) /\ UNCHANGED <<study, stage, outcome, why>> /\ worker' = "none"
      /\ UNCHANGED <<recorded, store, journal, tracker, decisions, nextSeq, forged>>
  BY DEF WriteFile, Doing, Running, Proceed, ending, logged
<1>2. /\ stage \in 1..13 /\ todo \in Seq(StepsOf(stage, study)) /\ todo[1] = Head(todo)
      /\ Head(todo) \in StepsOf(stage, study) /\ 1 \in DOMAIN todo
      /\ Head(todo) = [op |-> Head(todo).op, what |-> Head(todo).what]
  BY <1>1, AboutToDo
<1>3. PICK a : a = Head(todo).what
  OBVIOUS
<1>4. /\ a \in Made(stage) /\ Head(todo) = File(a) /\ artifacts' = artifacts \cup {a}
      /\ checklist' = IF a = "checklist" THEN Checklist(tracker) ELSE checklist
  BY <1>1, <1>2, <1>3, StepKinds DEF File, This
<1>5. a \in Artifacts
  BY <1>2, <1>4, MadeArtifacts
<1>6. /\ \A i \in DOMAIN todo :
           i = 1 \/ (i > 1 /\ i - 1 \in DOMAIN todo' /\ todo'[i - 1] = todo[i])
      /\ \A i \in DOMAIN todo' : i + 1 \in DOMAIN todo /\ todo'[i] = todo[i + 1]
  BY <1>1, <1>2, TailFacts
<1>7. /\ RecordsFollow(todo') /\ RecordedOnce(todo')
      /\ a # "checklist" => \E i \in DOMAIN todo' : todo'[i] = Record(a)
  BY <1>1, <1>2, <1>3, TailRecords DEF PipelineInv, ArtifactInv
<1>8. Grows(store, store')
  BY <1>1 DEF Grows, Landed
<1>9. \A b : Head(todo) # Record(b)
  BY <1>1 DEF Record
<1>10. a = "checklist" =>
         /\ stage = 13 /\ checklist' \in [Steps -> Status] /\ checklist' # <<>>
         /\ \A m \in Steps : /\ checklist'[m] = "completed" => Evidenced(store, m)
                             /\ checklist'[m] = "flagged" => m \in NotPerformed(study)
  BY <1>1, <1>4, AllDoneByChecklist, ChecklistOfOwnRows
<1>11. TypeOK'
  <2>1. checklist' \in {<<>>} \cup [Steps -> Status]
    BY <1>4, <1>10 DEF PipelineInv, TypeOK
  <2>2. artifacts' \subseteq Artifacts
    BY <1>4, <1>5 DEF PipelineInv, TypeOK
  <2> QED
    BY <1>1, <2>1, <2>2 DEF PipelineInv, TypeOK
<1>12. ControlInv'
  BY <1>1, ControlGoesOn DEF PipelineInv, ControlInv
<1>13. JournalInv'
  BY <1>1, <1>8, JournalGoesOn
<1>14. ChecklistInv'
  <2>1. CASE a = "checklist"
    <3>1. ChecklistLast(todo')
      BY <1>1, <1>2, TailChecklist DEF PipelineInv, ChecklistInv
    <3> QED
      BY <1>1, <1>10, <2>1, <3>1 DEF ChecklistInv
  <2>2. CASE a # "checklist"
    <3>1. Head(todo) # File("checklist")
      BY <1>3, <2>2 DEF File
    <3> QED
      BY <1>1, <1>4, <1>8, <2>2, <3>1, ChecklistGoesOn
  <2> QED
    BY <2>1, <2>2
<1>15. DecisionInv'
  BY <1>1, DecisionGoesOn
<1>16. ArtifactInv'
  <2>1. Stops(todo) => Stops(todo')
    BY <1>1, <1>2, <1>6 DEF Stops
  <2>2. ASSUME ~Stops(todo'), NEW b \in Produces[stage], b \notin artifacts'
        PROVE  \E i \in DOMAIN todo' : todo'[i] = File(b)
    <3>1. ~Stops(todo) /\ b \notin artifacts /\ b # a
      BY <1>4, <2>1, <2>2
    <3>2. \E i \in DOMAIN todo : todo[i] = File(b)
      BY <1>2, <3>1 DEF PipelineInv, ArtifactInv
    <3>3. PICK i \in DOMAIN todo : todo[i] = File(b)
      BY <3>2
    <3>4. i # 1
      BY <1>2, <1>4, <3>1, <3>3 DEF File
    <3> QED
      BY <1>6, <3>3, <3>4
  <2>3. \A k \in DOMAIN Pipeline : k < stage => Produces[k] \subseteq artifacts'
    BY <1>4 DEF PipelineInv, ArtifactInv
  <2>4. \A i \in DOMAIN recorded : recorded[i][1] = stage =>
          \A j \in DOMAIN todo' : todo'[j] # Record(recorded[i][2])
    BY <1>6 DEF PipelineInv, ArtifactInv
  <2>5. ASSUME NEW b \in artifacts' \ {"checklist"},
               ~ \E i \in DOMAIN recorded : recorded[i][2] = b
        PROVE  \E i \in DOMAIN todo' : todo'[i] = Record(b)
    <3>1. CASE b = a
      BY <1>7, <2>5, <3>1
    <3>2. CASE b # a
      <4>1. b \in artifacts \ {"checklist"}
        BY <1>4, <2>5, <3>2
      <4>2. \E i \in DOMAIN todo : todo[i] = Record(b)
        BY <2>5, <4>1 DEF PipelineInv, ArtifactInv
      <4>3. PICK i \in DOMAIN todo : todo[i] = Record(b)
        BY <4>2
      <4>4. i # 1
        BY <1>2, <1>9, <4>3
      <4> QED
        BY <1>6, <4>3, <4>4
    <3> QED
      BY <3>1, <3>2
  <2> QED
    BY <1>1, <1>7, <2>2, <2>3, <2>4, <2>5 DEF PipelineInv, ArtifactInv
<1> QED
  BY <1>11, <1>12, <1>13, <1>14, <1>15, <1>16 DEF PipelineInv

-----------------------------------------------------------------------------
(* A stage returns.                                                        *)

(* Its program is done: its steps are marked, what it produces is there.   *)
LEMMA StageIsDone ==
  ASSUME PipelineInv, stage \in 1..13, todo = <<>>
  PROVE  /\ Done(LastStep[stage] + 1)
         /\ \A a \in Produces[stage] : a \in artifacts
         /\ \A a \in artifacts \ {"checklist"} : \E i \in DOMAIN recorded : recorded[i][2] = a
         /\ stage = 13 => checklist # <<>>
<1>1. DOMAIN todo = {}
  OBVIOUS
<1>2. PICK n \in FirstStep[stage]..(LastStep[stage] + 1) :
        Marks(todo, n, LastStep[stage]) /\ Done(n)
  BY DEF PipelineInv, JournalInv
<1>3. FirstStep[stage] \in Int /\ LastStep[stage] \in Int
  BY StageBounds
<1>4. ~(LastStep[stage] \in n..LastStep[stage])
  BY <1>1, <1>2 DEF Marks, Stops
<1>5. n = LastStep[stage] + 1
  BY <1>2, <1>3, <1>4
<1>6. \A a \in Produces[stage] : a \in artifacts
  BY <1>1 DEF PipelineInv, ArtifactInv, Stops
<1>7. \A a \in artifacts \ {"checklist"} : \E i \in DOMAIN recorded : recorded[i][2] = a
  BY <1>1 DEF PipelineInv, ArtifactInv
<1>8. stage = 13 => checklist # <<>>
  BY <1>1 DEF PipelineInv, ChecklistInv
<1> QED
  BY <1>2, <1>5, <1>6, <1>7, <1>8

(* What stays of the invariant when the next stage begins with program t.  *)
LEMMA NextStage ==
  ASSUME PipelineInv, stage \in 1..13, todo = <<>>, stage' = stage + 1,
         UNCHANGED <<study, artifacts, recorded, store, tracked, logged, forged>>,
         Marks(todo', FirstStep[stage + 1], LastStep[stage + 1]),
         RecordsFollow(todo'), RecordedOnce(todo'), \A h : LogsInto(todo', h),
         stage' \in 1..13 => \/ Stops(todo')
                             \/ \A a \in Produces[stage'] : \E i \in DOMAIN todo' : todo'[i] = File(a)
  PROVE  JournalInv' /\ DecisionInv' /\ ArtifactInv'
<1>1. JournalInv'
  <2>1. FirstStep[stage'] = LastStep[stage] + 1 /\ FirstStep[stage'] <= LastStep[stage'] + 1
        /\ FirstStep[stage'] \in Int /\ LastStep[stage'] \in Int
    <3>1. stage' \in 1..14 /\ stage' = stage + 1
      OBVIOUS
    <3> QED
      BY <3>1, Tables
  <2>2. PICK n : n = FirstStep[stage']
    OBVIOUS
  <2>3. Done(n)
    BY <2>1, <2>2, StageIsDone
  <2>4. Done(n)'
    BY <2>3 DEF Done, tracked
  <2>5. \E m \in FirstStep[stage']..(LastStep[stage'] + 1) :
          Marks(todo', m, LastStep[stage']) /\ Done(m)'
    <3>1. n \in FirstStep[stage']..(LastStep[stage'] + 1)
      BY <2>1, <2>2
    <3> QED
      BY <2>2, <2>4, <3>1
  <2>6. EachStepOnce(tracker')
    BY DEF PipelineInv, JournalInv, tracked
  <2>7. \A i \in DOMAIN tracker' :
          tracker'[i].status = "completed" => Evidenced(store', tracker'[i].step)
    BY DEF PipelineInv, JournalInv, tracked
  <2> QED
    BY <2>5, <2>6, <2>7 DEF JournalInv
<1>2. DecisionInv'
  <2>1. PICK h \in Handles : nextSeq[h] = Len(decisions) + 1
    BY DEF PipelineInv, DecisionInv
  <2>2. LogsInto(todo', h) /\ nextSeq'[h] = Len(decisions') + 1
    BY <2>1 DEF logged
  <2>3. GapFree(decisions')
    BY DEF PipelineInv, DecisionInv, logged
  <2> QED
    BY <2>2, <2>3 DEF DecisionInv
<1>3. ArtifactInv'
  <2>1. \A k \in DOMAIN Pipeline : k < stage' => Produces[k] \subseteq artifacts
    <3>1. ASSUME NEW k \in DOMAIN Pipeline, k < stage' PROVE k < stage \/ k = stage
      <4>1. k \in 1..13
        BY Tables
      <4> QED
        BY <3>1, <4>1
    <3> QED
      BY <3>1, StageIsDone DEF PipelineInv, ArtifactInv
  <2>2. \A i \in DOMAIN recorded : recorded[i][1] <= stage' /\ recorded[i][1] # stage'
    <3> SUFFICES ASSUME NEW i \in DOMAIN recorded
                 PROVE  recorded[i][1] <= stage' /\ recorded[i][1] # stage'
      OBVIOUS
    <3>1. recorded[i] \in (DOMAIN Pipeline) \X Artifacts
      BY DEF PipelineInv, TypeOK
    <3>2. recorded[i][1] \in 1..13
      BY <3>1, Tables
    <3>3. recorded[i][1] <= stage
      BY DEF PipelineInv, ArtifactInv
    <3> QED
      BY <3>2, <3>3
  <2>3. \A i \in DOMAIN recorded : recorded[i][2] \in Made(recorded[i][1])
    BY DEF PipelineInv, ArtifactInv
  <2>4. \A i, j \in DOMAIN recorded : recorded[i][2] = recorded[j][2] => i = j
    BY DEF PipelineInv, ArtifactInv
  <2>5. \A a \in artifacts \ {"checklist"} : \E i \in DOMAIN recorded : recorded[i][2] = a
    BY StageIsDone
  <2> QED
    BY <2>1, <2>2, <2>3, <2>4, <2>5 DEF ArtifactInv
<1> QED
  BY <1>1, <1>2, <1>3

LEMMA StageReturnsKeeps == ASSUME PipelineInv, StageReturns PROVE PipelineInv'
<1>1. /\ outcome = "running" /\ todo = <<>> /\ stage' = stage + 1
      /\ UNCHANGED <<study, worker, artifacts, recorded, store, tracked, logged, forged>>
      /\ UNCHANGED <<journal, tracker, checklist, decisions, nextSeq>>
  BY DEF StageReturns, Running, written, tracked, logged
<1>2. stage \in 1..13
  BY <1>1, NotEnded
<1>3. worker' = "none"
  BY <1>1 DEF PipelineInv, ControlInv, TypeOK
<1>4. stage' \in 1..(Len(Pipeline) + 1) /\ (stage = 13 <=> stage = Len(Pipeline))
  BY <1>1, <1>2, Tables
<1>5. ASSUME stage = 13, outcome' = "COMPLETED", why' = "finished", UNCHANGED todo
      PROVE  PipelineInv'
  <2>1. PICK t : t = <<>>
    OBVIOUS
  <2>2. todo' = t /\ DOMAIN t = {} /\ stage' = 14
    BY <1>1, <1>5, <2>1
  <2>3. LastStep[stage + 1] = 21 /\ FirstStep[stage + 1] = 22
    BY <1>5, StageTable
  <2>4. /\ Marks(t, 22, 21) /\ RecordsFollow(t) /\ RecordedOnce(t) /\ \A h : LogsInto(t, h)
    BY <2>2 DEF Marks, RecordsFollow, RecordedOnce, LogsInto
  <2>5. ~(stage' \in 1..13)
    BY <2>2
  <2>6. JournalInv' /\ DecisionInv' /\ ArtifactInv'
    BY <1>1, <1>2, <2>2, <2>3, <2>4, <2>5, NextStage
  <2>7. TypeOK'
    BY <1>1, <1>3, <1>4, <1>5 DEF PipelineInv, TypeOK, Reasons
  <2>8. ControlInv'
    BY <1>1, <1>3, <1>5, <2>1, <2>2, <2>5 DEF PipelineInv, ControlInv
  <2>9. checklist # <<>>
    BY <1>1, <1>2, <1>5, StageIsDone
  <2>10. ChecklistInv'
    <3>1. ChecklistLast(t)
      BY <2>2 DEF ChecklistLast
    <3> QED
      BY <1>1, <2>2, <2>5, <2>9, <3>1 DEF PipelineInv, ChecklistInv
  <2> QED
    BY <2>6, <2>7, <2>8, <2>10 DEF PipelineInv
<1>6. ASSUME stage # 13, todo' = Program(stage + 1, study), UNCHANGED ending
      PROVE  PipelineInv'
  <2>1. PICK k : k = stage + 1
    OBVIOUS
  <2>2. k \in 1..13 /\ stage' = k /\ stage' \in 1..13
    BY <1>1, <1>2, <1>6, <2>1
  <2>3. PICK t : t = Program(k, study)
    OBVIOUS
  <2>4. study \in Study
    BY StudyIsOne
  <2>5. /\ t \in Seq(StepsOf(k, study)) /\ Marks(t, FirstStep[k], LastStep[k])
        /\ \A h : LogsInto(t, h)
        /\ RecordsFollow(t) /\ RecordedOnce(t) /\ ChecklistLast(t)
        /\ Stops(t) \/ \A a \in Produces[k] : \E i \in DOMAIN t : t[i] = File(a)
    BY <2>2, <2>3, <2>4, ProgramsAreSound
  <2>6. todo' = t
    BY <1>6, <2>1, <2>3
  <2>7. JournalInv' /\ DecisionInv' /\ ArtifactInv'
    BY <1>1, <1>2, <2>1, <2>2, <2>5, <2>6, NextStage
  <2>8. outcome' = "running" /\ why' = why
    BY <1>1, <1>6 DEF ending
  <2>9. TypeOK'
    BY <1>1, <1>3, <1>4, <2>8 DEF PipelineInv, TypeOK
  <2>10. ControlInv'
    BY <1>1, <1>3, <2>2, <2>5, <2>6, <2>8 DEF PipelineInv, ControlInv
  <2>11. k = 13 => \E i \in DOMAIN t : t[i] = File("checklist")
    <3> SUFFICES ASSUME k = 13 PROVE \E i \in DOMAIN t : t[i] = File("checklist")
      OBVIOUS
    <3>1. ~Refused(k, study)
      BY DEF Refused
    <3>2. \A i \in DOMAIN t : t[i] \in StepsOf(k, study)
      BY <2>5
    <3>3. ~Stops(t)
      BY <3>1, <3>2, StepKinds DEF Stops
    <3>4. "checklist" \in Produces[k]
      BY StageTable
    <3> QED
      BY <2>5, <3>3, <3>4
  <2>12. ChecklistInv'
    BY <1>1, <2>2, <2>5, <2>6, <2>11 DEF PipelineInv, ChecklistInv
  <2> QED
    BY <2>7, <2>9, <2>10, <2>12 DEF PipelineInv
<1>7. CASE stage = 13
  BY <1>4, <1>5, <1>7 DEF StageReturns
<1>8. CASE stage # 13
  BY <1>4, <1>6, <1>8 DEF StageReturns
<1> QED
  BY <1>7, <1>8

-----------------------------------------------------------------------------
(* Somebody writes into the journal, or nothing happens.                   *)

LEMMA ForgeRowKeeps == ASSUME PipelineInv, ForgeRow PROVE PipelineInv'
<1>1. /\ forged < MaxForged /\ forged' = forged + 1
      /\ UNCHANGED <<study, stage, todo, worker, outcome, why>>
      /\ UNCHANGED <<artifacts, recorded, store, tracker, checklist, decisions, nextSeq>>
  BY DEF ForgeRow, control, ending, written, logged
<1>2. PICK r \in ForgedRows : journal' = Append(journal, r)
  BY DEF ForgeRow
<1>3. r \in JournalRow /\ MaxForged \in Nat
  BY StudyAssumption
<1>4. journal \in Seq(JournalRow) /\ forged \in 0..MaxForged
  BY DEF PipelineInv, ControlInv, TypeOK
<1>5. journal' \in Seq(JournalRow) /\ forged' \in 0..MaxForged /\ forged' # 0
  BY <1>1, <1>2, <1>3, <1>4
<1>6. Named(journal') = Named(journal) \cup {r}
  BY <1>2, <1>3, <1>4, NamedGrows
<1>7. TypeOK'
  <2>1. \A i \in DOMAIN journal' : journal'[i] \in JournalRow
    BY <1>5
  <2> QED
    BY <1>1, <1>5, <2>1 DEF PipelineInv, TypeOK
<1>8. ControlInv'
  BY <1>1, <1>5 DEF PipelineInv, ControlInv
<1>9. JournalInv'
  <2>1. PICK n \in FirstStep[stage]..(LastStep[stage] + 1) :
          Marks(todo, n, LastStep[stage]) /\ Done(n)
    BY DEF PipelineInv, JournalInv
  <2>2. Done(n)'
    BY <1>1, <1>5, <1>6, <2>1 DEF Done
  <2>3. \E m \in FirstStep[stage']..(LastStep[stage'] + 1) :
          Marks(todo', m, LastStep[stage']) /\ Done(m)'
    BY <1>1, <2>1, <2>2
  <2>4. EachStepOnce(tracker')
    BY <1>1 DEF PipelineInv, JournalInv
  <2>5. \A i \in DOMAIN tracker' :
          tracker'[i].status = "completed" => Evidenced(store', tracker'[i].step)
    BY <1>1 DEF PipelineInv, JournalInv
  <2> QED
    BY <2>3, <2>4, <2>5 DEF JournalInv
<1>10. ChecklistInv'
  BY <1>1 DEF PipelineInv, ChecklistInv
<1>11. DecisionInv'
  BY <1>1 DEF PipelineInv, DecisionInv
<1>12. ArtifactInv'
  BY <1>1 DEF PipelineInv, ArtifactInv
<1> QED
  BY <1>7, <1>8, <1>9, <1>10, <1>11, <1>12 DEF PipelineInv

LEMMA StutterKeeps == ASSUME PipelineInv, UNCHANGED vars PROVE PipelineInv'
<1>1. /\ UNCHANGED <<study, stage, todo, worker, outcome, why, artifacts, recorded, store>>
      /\ UNCHANGED <<journal, tracker, checklist, decisions, nextSeq, forged>>
  BY DEF vars, control, ending, written, tracked, logged
<1>2. TypeOK'
  BY <1>1 DEF PipelineInv, TypeOK
<1>3. ControlInv'
  BY <1>1 DEF PipelineInv, ControlInv
<1>4. JournalInv'
  BY <1>1 DEF PipelineInv, JournalInv, Done
<1>5. ChecklistInv'
  BY <1>1 DEF PipelineInv, ChecklistInv
<1>6. DecisionInv'
  BY <1>1 DEF PipelineInv, DecisionInv
<1>7. ArtifactInv'
  BY <1>1 DEF PipelineInv, ArtifactInv
<1> QED
  BY <1>2, <1>3, <1>4, <1>5, <1>6, <1>7 DEF PipelineInv

(* The invariant holds in every state of every run.                        *)
LEMMA PipelineInvariant == Spec => []PipelineInv
<1>1. Init => PipelineInv
  BY InitEstablishes
<1>2. PipelineInv /\ [Next]_vars => PipelineInv'
  <2> SUFFICES ASSUME PipelineInv, [Next]_vars PROVE PipelineInv'
    OBVIOUS
  <2>1. CASE ReadArtifact
    BY <2>1, ReadArtifactKeeps
  <2>2. CASE ComputeSomething
    BY <2>2, ComputeSomethingKeeps
  <2>3. CASE WriteFile
    BY <2>3, WriteFileKeeps
  <2>4. CASE RecordWritten
    BY <2>4, RecordWrittenKeeps
  <2>5. CASE SpawnWorker
    BY <2>5, SpawnWorkerKeeps
  <2>6. CASE WorkerTimesOut \/ WorkerFails
    BY <2>6, WorkerFailsKeeps
  <2>7. CASE WriteRow
    BY <2>7, WriteRowKeeps
  <2>8. CASE OpenJournal
    BY <2>8, OpenJournalKeeps
  <2>9. CASE MarkStep
    BY <2>9, MarkStepKeeps
  <2>10. CASE RenderChecklist
    BY <2>10, RenderChecklistKeeps
  <2>11. CASE OpenDecisionLog
    BY <2>11, OpenDecisionLogKeeps
  <2>12. CASE AppendDecision
    BY <2>12, AppendDecisionKeeps
  <2>13. CASE StopRun
    BY <2>13, StopRunKeeps
  <2>14. CASE StageReturns
    BY <2>14, StageReturnsKeeps
  <2>15. CASE WorkerAnswers
    BY <2>15, WorkerAnswersKeeps
  <2>16. CASE Crash
    BY <2>16, CrashKeeps
  <2>17. CASE ForgeRow
    BY <2>17, ForgeRowKeeps
  <2>18. CASE UNCHANGED vars
    BY <2>18, StutterKeeps
  <2> QED
    BY <2>1, <2>2, <2>3, <2>4, <2>5, <2>6, <2>7, <2>8, <2>9, <2>10, <2>11, <2>12, <2>13,
       <2>14, <2>15, <2>16, <2>17, <2>18 DEF Next, RunStep
<1> QED
  BY <1>1, <1>2, PTL DEF Spec

-----------------------------------------------------------------------------
(* What follows.                                                           *)

LEMMA PrefixOfTwo ==
  ASSUME NEW r
  PROVE  SubSeq(r, 1, 2) = <<r[1], r[2]>>
<1>1. PICK q : q = SubSeq(r, 1, 2)
  OBVIOUS
<1>2. PICK S : S = {r[1], r[2]}
  OBVIOUS
<1>3. \A i \in 1..2 : r[i] \in S
  BY <1>2
<1>4. /\ q \in Seq(S) /\ Len(q) = IF 1 <= 2 THEN 2 - 1 + 1 ELSE 0
      /\ \A i \in 1..(2 - 1 + 1) : q[i] = r[1 + i - 1]
  BY <1>1, <1>3, SubSeqProperties
<1>5. q \in Seq(S) /\ Len(q) = 2 /\ q[1] = r[1] /\ q[2] = r[2]
  BY <1>4
<1>6. q = <<r[1], r[2]>>
  BY <1>5
<1> QED
  BY <1>1, <1>6

LEMMA StageOfTable ==
  ASSUME NEW n \in 1..21, NEW k \in 1..14
  PROVE  (StageOf[n] < k => n < FirstStep[k]) /\ (StageOf[n] > k => n > LastStep[k])
<1>1. n \in {1, 2, 3, 4, 5, 6, 7, 8, 9, 10, 11, 12, 13, 14, 15, 16, 17, 18, 19, 20, 21}
  OBVIOUS
<1>2. k \in {1, 2, 3, 4, 5, 6, 7, 8, 9, 10, 11, 12, 13, 14}
  OBVIOUS
<1> QED
  BY <1>1, <1>2 DEF StageOf, FirstStep, LastStep

LEMMA EvidencedByInv == ASSUME PipelineInv PROVE CompletedIsEvidenced
<1>1. \A i \in DOMAIN tracker :
        tracker[i].status = "completed" => Evidenced(store, tracker[i].step)
  BY DEF PipelineInv, JournalInv
<1>2. ASSUME NEW n \in NotPerformed(study), NEW prefix \in Outputs[n], Landed(store, prefix)
      PROVE  FALSE
  <2>1. PICK i \in DOMAIN store : SubSeq(store[i], 1, 2) = prefix
    BY <1>2 DEF Landed
  <2>2. store[i] \in RowIds(study)
    BY DEF PipelineInv, ControlInv
  <2>3. PICK r : r = store[i]
    OBVIOUS
  <2>4. r \in Words \X Words \X Seq(Text) /\ <<r[1], r[2]>> \notin Outputs[n]
    BY <2>2, <2>3 DEF RowIds
  <2>5. SubSeq(r, 1, 2) = <<r[1], r[2]>>
    BY PrefixOfTwo
  <2> QED
    BY <2>1, <2>3, <2>4, <2>5
<1>3. ASSUME checklist # <<>>, NEW n \in Steps
      PROVE  /\ checklist[n] = "completed" => Evidenced(store, n)
             /\ checklist[n] = "flagged" => n \in NotPerformed(study)
  BY <1>3 DEF PipelineInv, ChecklistInv
<1>4. outcome = "COMPLETED" => checklist # <<>>
  BY DEF PipelineInv, ControlInv, ChecklistInv
<1> QED
  BY <1>1, <1>2, <1>3, <1>4 DEF CompletedIsEvidenced

LEMMA PlaybookByInv == ASSUME PipelineInv PROVE JournalFollowsPlaybook
<1>1. GapFree(decisions)
  BY DEF PipelineInv, DecisionInv
<1>2. ASSUME forged = 0
      PROVE  /\ \A i \in DOMAIN journal : journal[i].step = i
             /\ \A n \in Steps : /\ StageOf[n] < stage => n <= Len(journal)
                                /\ StageOf[n] > stage => n > Len(journal)
  <2>1. PICK m \in FirstStep[stage]..(LastStep[stage] + 1) : Done(m)
    BY DEF PipelineInv, JournalInv
  <2>2. Len(journal) = m - 1 /\ \A i \in DOMAIN journal : journal[i].step = i
    BY <1>2, <2>1 DEF Done
  <2>3. stage \in 1..14
    BY Tables DEF PipelineInv, TypeOK
  <2>4. FirstStep[stage] \in Int /\ LastStep[stage] \in Int
    BY <2>3, Tables
  <2>5. ASSUME NEW n \in 1..21
        PROVE  /\ StageOf[n] < stage => n <= Len(journal)
               /\ StageOf[n] > stage => n > Len(journal)
    <3>1. (StageOf[n] < stage => n < FirstStep[stage]) /\ (StageOf[n] > stage => n > LastStep[stage])
      BY <2>3, StageOfTable
    <3>2. n < FirstStep[stage] => n <= m - 1
      BY <2>1, <2>4
    <3>3. n > LastStep[stage] => n > m - 1
      BY <2>1, <2>4
    <3> QED
      BY <2>2, <3>1, <3>2, <3>3
  <2> QED
    BY <2>2, <2>5, Tables
<1> QED
  BY <1>1, <1>2 DEF JournalFollowsPlaybook

LEMMA AccountedByInv == ASSUME PipelineInv PROVE ArtifactsAccounted
<1>1. Doing("read") => This \in Consumes[stage]
  BY AboutToDo, StepKinds DEF Doing, This
<1>2. \A k \in DOMAIN Pipeline : k < stage => Produces[k] \subseteq artifacts
  BY DEF PipelineInv, ArtifactInv
<1>3. \A i \in DOMAIN recorded :
        recorded[i][2] \in Produces[recorded[i][1]] \cup {"advisory"}
  BY DEF PipelineInv, ArtifactInv, Made
<1>4. ASSUME todo = <<>>, NEW a \in artifacts \ {"checklist"}
      PROVE  Cardinality({i \in DOMAIN recorded : recorded[i][2] = a}) = 1
  <2>1. DOMAIN todo = {}
    BY <1>4
  <2>2. \E i \in DOMAIN recorded : recorded[i][2] = a
    BY <2>1 DEF PipelineInv, ArtifactInv
  <2>3. PICK i \in DOMAIN recorded : recorded[i][2] = a
    BY <2>2
  <2>4. \A j \in DOMAIN recorded : recorded[j][2] = a => j = i
    BY <2>3 DEF PipelineInv, ArtifactInv
  <2>5. {j \in DOMAIN recorded : recorded[j][2] = a} = {i}
    BY <2>3, <2>4
  <2> QED
    BY <2>5, FS_Singleton
<1> QED
  BY <1>1, <1>2, <1>3, <1>4 DEF ArtifactsAccounted

(* The variables have their types in every run: a run ends in a terminal   *)
(* state of the manifest, and journal and checklist are made of playbook   *)
(* steps, whatever is forged and however workers fail.                     *)
THEOREM PipelineTypeCorrect == Spec => []TypeOK
<1>1. PipelineInv => TypeOK
  BY DEF PipelineInv
<1> QED
  BY <1>1, PipelineInvariant, PTL

(* No step is called completed without its statistics in the store, in the *)
(* rows a run goes on with as in the checklist it packages; what is called *)
(* flagged has none; and a completed run has packaged a checklist.         *)
THEOREM CompletedMeansEvidenced == Spec => []CompletedIsEvidenced
<1>1. PipelineInv => CompletedIsEvidenced
  BY EvidencedByInv
<1> QED
  BY <1>1, PipelineInvariant, PTL

(* The journal nobody wrote into by hand has the steps of the playbook in  *)
(* its order, those of the stages that returned and none of those not      *)
(* begun; the decision log has no gap.                                     *)
THEOREM JournalIsThePlaybooks == Spec => []JournalFollowsPlaybook
<1>1. PipelineInv => JournalFollowsPlaybook
  BY PlaybookByInv
<1> QED
  BY <1>1, PipelineInvariant, PTL

(* Stages reload only what they declare to consume, leave all they declare *)
(* to produce, and record every artifact but the checklist exactly once.   *)
THEOREM ArtifactsAreAccounted == Spec => []ArtifactsAccounted
<1>1. PipelineInv => ArtifactsAccounted
  BY AccountedByInv
<1> QED
  BY <1>1, PipelineInvariant, PTL


-----------------------------------------------------------------------------
(* What the halts of a run left alone come from.  The programs never call  *)
(* or emit the same twice, and emit what they need to mark a step before   *)
(* they mark it; the invariant says that of what is left to do, of what is *)
(* in the run directory, and of the two together.                          *)

(* The R worker calls of a stage.                                          *)
CallIds == <<
  {}, {}, {}, {"power-montecarlo"}, {}, {},
  {"measurement", "measurement-deletion-base", "measurement-cmb",
   "measurement-respec-base", "measurement-respec"},
  {"structural"}, {"effects"},
  {"robustness-alternatives-retained", "robustness-alternatives-reversed_paths"},
  {}, {}, {} >>

DifferentCalls(t) ==
  \A i, j \in DOMAIN t : t[i].op = "call" /\ t[j].op = "call" /\ t[i].what = t[j].what => i = j

DifferentRows(t) ==
  \A i, j \in DOMAIN t : t[i].op = "row" /\ t[j].op = "row" /\ t[i].what = t[j].what => i = j

(* The step and the family of a row, by which the playbook asks for it.    *)
Family(r) == <<r[1], r[2]>>

Emitted(t) == {Family(t[i].what) : i \in {j \in DOMAIN t : t[j].op = "row"}}

EmittedBefore(t, i, f) ==
  \E j \in DOMAIN t : j < i /\ t[j].op = "row" /\ Family(t[j].what) = f

Stored(rows) == {Family(rows[i]) : i \in DOMAIN rows}

(* The steps a study has no statistics for.                                *)
Unevidenced(s, n) ==
  \/ n = 11 /\ Len(s.constructs) < 2
  \/ n = 17 /\ ~\E i \in DOMAIN s.indirect : HasTotal(s, i)

(* With statistics of the families in seen, every step t completes has its *)
(* statistics by then.                                                     *)
Backed(t, seen, s) ==
  \A i \in DOMAIN t : t[i].op = "mark" /\ t[i].what.status = "completed" =>
    \/ Unevidenced(s, t[i].what.step)
    \/ \A f \in Outputs[t[i].what.step] : f \in seen \/ EmittedBefore(t, i, f)

(* The checklist is rendered in the last stage, behind the last mark.      *)
RenderLast(t, k) ==
  \A i \in DOMAIN t : t[i].op = "render" =>
    /\ k = 13
    /\ \A j \in DOMAIN t : j > i => t[j].op \notin {"mark", "stop"}

(* A program of stage k.                                                   *)
Tidy(t, k, s) ==
  /\ \A i \in DOMAIN t : t[i].op = "call" => t[i].what[1] \in CallIds[k]
  /\ \A i \in DOMAIN t : t[i].op = "row" => t[i].what[1] = Pipeline[k]
  /\ DifferentCalls(t) /\ (Clashing(s) \/ DifferentRows(t))
  /\ Backed(t, {}, s) /\ RenderLast(t, k)

(* The calls that were made are of the stages begun, and the program makes *)
(* others; it is about to make one only while it waits for the answer, or  *)
(* for ever.                                                               *)
CallInv ==
  /\ DifferentCalls(todo)
  /\ \A i \in DOMAIN todo : todo[i].op = "call" =>
       /\ todo[i].what[1] \in CallIds[stage]
       /\ todo[i].what \in calls => i = 1 /\ (worker = "running" \/ outcome # "running")
  /\ \A c \in calls : \E k \in 1..13 : k <= stage /\ c[1] \in CallIds[k]

(* The same of the rows, unless the study makes two of them clash.         *)
RowInv ==
  /\ \A i \in DOMAIN todo : todo[i].op = "row" => todo[i].what[1] = Pipeline[stage]
  /\ \A i \in DOMAIN store : \E k \in 1..13 : k <= stage /\ store[i][1] = Pipeline[k]
  /\ \/ Clashing(study)
     \/ /\ DifferentRows(todo)
        /\ \A i \in DOMAIN todo : todo[i].op = "row" => ~Has(store, todo[i].what)

(* Left alone, the journal is what the Compliance objects wrote.           *)
EvidenceInv ==
  /\ Backed(todo, Stored(store), study) /\ RenderLast(todo, stage)
  /\ forged = 0 =>
       /\ Named(tracker) \subseteq Named(journal)
       /\ \A i \in DOMAIN journal :
            journal[i].status = "completed" => Evidenced(store, journal[i].step)

TraceInv == CallInv /\ RowInv /\ EvidenceInv /\ HaltsAreNotSelfInflicted

-----------------------------------------------------------------------------
(* Programs are made of pieces that add calls, rows and marks.             *)

(* A sequence of steps that renders nothing: its calls have these names,   *)
(* its rows are of these families, each is there once, and the statistics  *)
(* in seen and its own rows back its marks.                                *)
Adds(t, s, seen, fams, names) ==
  /\ t \in Seq(Named(t))
  /\ \A i \in DOMAIN t : t[i].op # "render"
  /\ \A i \in DOMAIN t : t[i].op = "call" => t[i].what[1] \in names
  /\ \A i \in DOMAIN t : t[i].op = "row" => Family(t[i].what) \in fams
  /\ DifferentCalls(t) /\ (Clashing(s) \/ DifferentRows(t))
  /\ Backed(t, seen, s)

LEMMA NamedSeq ==
  ASSUME NEW S, NEW t \in Seq(S)
  PROVE  t \in Seq(Named(t)) /\ \A T : Named(t) \subseteq T => t \in Seq(T)
<1>1. Len(t) \in Nat /\ DOMAIN t = 1..Len(t) /\ t \in [1..Len(t) -> S]
  OBVIOUS
<1>2. ASSUME NEW T, Named(t) \subseteq T PROVE t \in Seq(T)
  <2>1. \A i \in 1..Len(t) : t[i] \in T
    BY <1>1, <1>2 DEF Named
  <2>2. t \in [1..Len(t) -> T]
    BY <1>1, <2>1
  <2> QED
    BY <1>1, <2>2, SeqDef
<1> QED
  BY <1>2

(* What is emitted by both parts.                                          *)
LEMMA EmittedJoin ==
  ASSUME NEW S, NEW a \in Seq(S), NEW b \in Seq(S)
  PROVE  Emitted(a \o b) = Emitted(a) \cup Emitted(b)
<1> DEFINE t == a \o b
<1>1. /\ \A i \in DOMAIN a : i \in DOMAIN t /\ t[i] = a[i]
      /\ \A i \in DOMAIN b : Len(a) + i \in DOMAIN t /\ t[Len(a) + i] = b[i]
      /\ \A i \in DOMAIN t : \/ i \in DOMAIN a /\ t[i] = a[i]
                             \/ i - Len(a) \in DOMAIN b /\ t[i] = b[i - Len(a)]
  BY Joined
<1> HIDE DEF t
<1>2. ASSUME NEW f PROVE f \in Emitted(t) <=> f \in Emitted(a) \/ f \in Emitted(b)
  <2>1. ASSUME f \in Emitted(t) PROVE f \in Emitted(a) \/ f \in Emitted(b)
    <3>1. PICK i \in DOMAIN t : t[i].op = "row" /\ f = Family(t[i].what)
      BY <2>1 DEF Emitted
    <3> QED
      BY <1>1, <3>1 DEF Emitted
  <2>2. ASSUME f \in Emitted(a) PROVE f \in Emitted(t)
    <3>1. PICK i \in DOMAIN a : a[i].op = "row" /\ f = Family(a[i].what)
      BY <2>2 DEF Emitted
    <3> QED
      BY <1>1, <3>1 DEF Emitted
  <2>3. ASSUME f \in Emitted(b) PROVE f \in Emitted(t)
    <3>1. PICK i \in DOMAIN b : b[i].op = "row" /\ f = Family(b[i].what)
      BY <2>3 DEF Emitted
    <3>2. Len(a) + i \in DOMAIN t /\ t[Len(a) + i] = b[i]
      BY <1>1
    <3> QED
      BY <3>1, <3>2 DEF Emitted
  <2> QED
    BY <2>1, <2>2, <2>3
<1> QED
  BY <1>2 DEF t

Apart(f, g) == f \cap g = {}

(* What the second part sees is what the first saw and what it emitted.    *)
LEMMA AddsJoin ==
  ASSUME NEW s, NEW seen, NEW later, NEW fa, NEW fb, NEW na, NEW nb,
         Apart(fa, fb), Apart(na, nb),
         NEW a, Adds(a, s, seen, fa, na), NEW b, Adds(b, s, later, fb, nb),
         \A f \in later : f \in seen \/ f \in Emitted(a)
  PROVE  /\ Adds(a \o b, s, seen, fa \cup fb, na \cup nb)
         /\ Emitted(a \o b) = Emitted(a) \cup Emitted(b)
<1> DEFINE S == Named(a) \cup Named(b)
           t == a \o b
           n == Len(a)
<1>1. a \in Seq(S) /\ b \in Seq(S)
  <2>1. a \in Seq(Named(a)) /\ b \in Seq(Named(b))
    BY DEF Adds
  <2>2. Named(a) \subseteq S /\ Named(b) \subseteq S
    OBVIOUS
  <2> QED
    BY <2>1, <2>2, NamedSeq
<1> HIDE DEF S
<1>2. /\ t \in Seq(S)
      /\ \A i \in DOMAIN a : i \in DOMAIN t /\ t[i] = a[i]
      /\ \A i \in DOMAIN b : n + i \in DOMAIN t /\ t[n + i] = b[i]
      /\ \A i \in DOMAIN t : \/ i \in DOMAIN a /\ t[i] = a[i]
                             \/ i > n /\ i - n \in DOMAIN b /\ t[i] = b[i - n]
      /\ DOMAIN a = 1..n /\ DOMAIN b = 1..Len(b) /\ n \in Nat /\ Len(b) \in Nat
      /\ DOMAIN t = 1..(n + Len(b))
  BY <1>1, Joined
<1>3. Emitted(t) = Emitted(a) \cup Emitted(b)
  BY <1>1, EmittedJoin
<1> HIDE DEF t, n
<1>4. t \in Seq(Named(t))
  BY <1>2, NamedSeq
<1>5. \A i \in DOMAIN t : t[i].op # "render"
  BY <1>2 DEF Adds
<1>6. /\ \A i \in DOMAIN t : t[i].op = "call" => t[i].what[1] \in na \cup nb
      /\ \A i \in DOMAIN t : t[i].op = "row" => Family(t[i].what) \in fa \cup fb
  <2>1. /\ \A i \in DOMAIN a : a[i].op = "call" => a[i].what[1] \in na
        /\ \A i \in DOMAIN b : b[i].op = "call" => b[i].what[1] \in nb
    BY DEF Adds
  <2>2. /\ \A i \in DOMAIN a : a[i].op = "row" => Family(a[i].what) \in fa
        /\ \A i \in DOMAIN b : b[i].op = "row" => Family(b[i].what) \in fb
    BY DEF Adds
  <2>3. \A i \in DOMAIN t : t[i].op = "call" => t[i].what[1] \in na \cup nb
    BY <1>2, <2>1
  <2>4. \A i \in DOMAIN t : t[i].op = "row" => Family(t[i].what) \in fa \cup fb
    BY <1>2, <2>2
  <2> QED
    BY <2>3, <2>4
<1>7. DifferentCalls(t)
  <2>1. SUFFICES ASSUME NEW i \in DOMAIN t, NEW j \in DOMAIN t,
                        t[i].op = "call", t[j].op = "call", t[i].what = t[j].what
                 PROVE  i = j
    BY DEF DifferentCalls
  <2>2. CASE i \in DOMAIN a /\ t[i] = a[i] /\ j \in DOMAIN a /\ t[j] = a[j]
    BY <2>1, <2>2 DEF Adds, DifferentCalls
  <2>3. CASE i - n \in DOMAIN b /\ t[i] = b[i - n] /\ j - n \in DOMAIN b /\ t[j] = b[j - n]
    <3>1. i - n = j - n
      BY <2>1, <2>3 DEF Adds, DifferentCalls
    <3> QED
      BY <1>2, <3>1
  <2>4. ~(i \in DOMAIN a /\ t[i] = a[i] /\ j - n \in DOMAIN b /\ t[j] = b[j - n])
    BY <2>1 DEF Apart, Adds
  <2>5. ~(j \in DOMAIN a /\ t[j] = a[j] /\ i - n \in DOMAIN b /\ t[i] = b[i - n])
    BY <2>1 DEF Apart, Adds
  <2> QED
    BY <1>2, <2>2, <2>3, <2>4, <2>5
<1>8. ASSUME ~Clashing(s) PROVE DifferentRows(t)
  <2>0. DifferentRows(a) /\ DifferentRows(b)
    BY <1>8 DEF Adds
  <2>1. SUFFICES ASSUME NEW i \in DOMAIN t, NEW j \in DOMAIN t,
                        t[i].op = "row", t[j].op = "row", t[i].what = t[j].what
                 PROVE  i = j
    BY DEF DifferentRows
  <2>2. CASE i \in DOMAIN a /\ t[i] = a[i] /\ j \in DOMAIN a /\ t[j] = a[j]
    BY <2>0, <2>1, <2>2 DEF DifferentRows
  <2>3. CASE i - n \in DOMAIN b /\ t[i] = b[i - n] /\ j - n \in DOMAIN b /\ t[j] = b[j - n]
    <3>1. i - n = j - n
      BY <2>0, <2>1, <2>3 DEF DifferentRows
    <3> QED
      BY <1>2, <3>1
  <2>4. ~(i \in DOMAIN a /\ t[i] = a[i] /\ j - n \in DOMAIN b /\ t[j] = b[j - n])
    BY <2>1 DEF Apart, Adds
  <2>5. ~(j \in DOMAIN a /\ t[j] = a[j] /\ i - n \in DOMAIN b /\ t[i] = b[i - n])
    BY <2>1 DEF Apart, Adds
  <2> QED
    BY <1>2, <2>2, <2>3, <2>4, <2>5
<1>9. Backed(t, seen, s)
  <2>1. SUFFICES ASSUME NEW i \in DOMAIN t, t[i].op = "mark", t[i].what.status = "completed",
                        ~Unevidenced(s, t[i].what.step), NEW f \in Outputs[t[i].what.step]
                 PROVE  f \in seen \/ EmittedBefore(t, i, f)
    BY DEF Backed
  <2>2. CASE i \in DOMAIN a /\ t[i] = a[i]
    <3>1. f \in seen \/ EmittedBefore(a, i, f)
      BY <2>1, <2>2 DEF Adds, Backed
    <3>2. ASSUME EmittedBefore(a, i, f) PROVE EmittedBefore(t, i, f)
      BY <1>2, <3>2 DEF EmittedBefore
    <3> QED
      BY <3>1, <3>2
  <2>3. CASE i > n /\ i - n \in DOMAIN b /\ t[i] = b[i - n]
    <3>1. f \in later \/ EmittedBefore(b, i - n, f)
      BY <2>1, <2>3 DEF Adds, Backed
    <3>2. ASSUME EmittedBefore(b, i - n, f) PROVE EmittedBefore(t, i, f)
      <4>1. PICK j \in DOMAIN b : j < i - n /\ b[j].op = "row" /\ Family(b[j].what) = f
        BY <3>2 DEF EmittedBefore
      <4>2. n + j \in DOMAIN t /\ t[n + j] = b[j] /\ n + j < i
        BY <1>2, <4>1
      <4> QED
        BY <4>1, <4>2 DEF EmittedBefore
    <3>3. ASSUME f \in Emitted(a) PROVE EmittedBefore(t, i, f)
      <4>1. PICK j \in DOMAIN a : a[j].op = "row" /\ f = Family(a[j].what)
        BY <3>3 DEF Emitted
      <4>2. j \in DOMAIN t /\ t[j] = a[j] /\ j < i
        BY <1>2, <2>3, <4>1
      <4> QED
        BY <4>1, <4>2 DEF EmittedBefore
    <3> QED
      BY <3>1, <3>2, <3>3
  <2> QED
    BY <1>2, <2>2, <2>3
<1> QED
  BY <1>3, <1>4, <1>5, <1>6, <1>7, <1>8, <1>9 DEF Adds, t

(* Steps among which there is no call and no row.                          *)
LEMMA PlainAdds ==
  ASSUME NEW s, NEW seen, NEW S, NEW t \in Seq(S),
         \A i \in DOMAIN t : t[i].op \notin {"call", "row", "render"},
         \A i \in DOMAIN t : t[i].op = "mark" /\ t[i].what.status = "completed" =>
           Unevidenced(s, t[i].what.step) \/ Outputs[t[i].what.step] \subseteq seen
  PROVE  Adds(t, s, seen, {}, {}) /\ Emitted(t) = {}
<1>1. t \in Seq(Named(t))
  BY NamedSeq
<1>2. DifferentCalls(t) /\ DifferentRows(t) /\ Backed(t, seen, s) /\ Emitted(t) = {}
  BY DEF DifferentCalls, DifferentRows, Backed, Emitted
<1> QED
  BY <1>1, <1>2 DEF Adds

(* Steps among which there is no row and no mark.                          *)
LEMMA CallsAdd ==
  ASSUME NEW s, NEW seen, NEW names, NEW S, NEW t \in Seq(S),
         \A i \in DOMAIN t : t[i].op \notin {"mark", "row", "render"},
         \A i \in DOMAIN t : t[i].op = "call" => t[i].what[1] \in names,
         DifferentCalls(t)
  PROVE  Adds(t, s, seen, {}, names) /\ Emitted(t) = {}
<1>1. t \in Seq(Named(t))
  BY NamedSeq
<1>2. DifferentRows(t) /\ Backed(t, seen, s) /\ Emitted(t) = {}
  BY DEF DifferentRows, Backed, Emitted
<1> QED
  BY <1>1, <1>2 DEF Adds

LEMMA WriteAdds ==
  ASSUME NEW s, NEW seen, NEW a
  PROVE  Adds(WriteArtifact(a), s, seen, {}, {}) /\ Emitted(WriteArtifact(a)) = {}
<1>1. PICK t : t = WriteArtifact(a)
  OBVIOUS
<1>2. PICK S : S = {File(a), Record(a)}
  OBVIOUS
<1>3. t \in Seq(S) /\ DOMAIN t = {1, 2} /\ t[1] = File(a) /\ t[2] = Record(a)
  BY <1>1, <1>2 DEF WriteArtifact
<1>4. t[1].op = "file" /\ t[2].op = "record"
  BY <1>3 DEF File, Record
<1> QED
  BY <1>1, <1>3, <1>4, PlainAdds

(* Ids of these families, each there once unless the study makes ids clash.*)
OfFamilies(ids, s, fams) ==
  /\ ids \in Seq(RowIds(s))
  /\ \A i \in DOMAIN ids : Family(ids[i]) \in fams
  /\ Clashing(s) \/ Different(ids)

FamiliesOf(ids) == {Family(r) : r \in Named(ids)}

LEMMA FamiliesUnion ==
  ASSUME NEW s, NEW fa, NEW fb, NEW a, OfFamilies(a, s, fa), NEW b, OfFamilies(b, s, fb)
  PROVE  FamiliesOf(a \o b) = FamiliesOf(a) \cup FamiliesOf(b)
<1>1. a \in Seq(RowIds(s)) /\ b \in Seq(RowIds(s))
  BY DEF OfFamilies
<1>2. Named(a \o b) = Named(a) \cup Named(b)
  BY <1>1, NamedJoin
<1> QED
  BY <1>2 DEF FamiliesOf

LEMMA FamiliesJoin ==
  ASSUME NEW s, NEW fa, NEW fb, Apart(fa, fb),
         NEW a, OfFamilies(a, s, fa), NEW b, OfFamilies(b, s, fb)
  PROVE  OfFamilies(a \o b, s, fa \cup fb)
<1> DEFINE t == a \o b
           n == Len(a)
<1>1. a \in Seq(RowIds(s)) /\ b \in Seq(RowIds(s))
  BY DEF OfFamilies
<1>2. /\ t \in Seq(RowIds(s))
      /\ \A i \in DOMAIN t : \/ i \in DOMAIN a /\ t[i] = a[i]
                             \/ i > n /\ i - n \in DOMAIN b /\ t[i] = b[i - n]
      /\ DOMAIN a = 1..n /\ DOMAIN b = 1..Len(b) /\ n \in Nat /\ Len(b) \in Nat
      /\ DOMAIN t = 1..(n + Len(b))
  BY <1>1, Joined
<1> HIDE DEF t, n
<1>4. \A i \in DOMAIN t : Family(t[i]) \in fa \cup fb
  BY <1>2 DEF OfFamilies
<1>5. ASSUME ~Clashing(s) PROVE Different(t)
  <2>0. Different(a) /\ Different(b)
    BY <1>5 DEF OfFamilies
  <2>1. SUFFICES ASSUME NEW i \in DOMAIN t, NEW j \in DOMAIN t, t[i] = t[j] PROVE i = j
    BY DEF Different
  <2>2. CASE i \in DOMAIN a /\ t[i] = a[i] /\ j \in DOMAIN a /\ t[j] = a[j]
    BY <2>0, <2>1, <2>2 DEF Different
  <2>3. CASE i - n \in DOMAIN b /\ t[i] = b[i - n] /\ j - n \in DOMAIN b /\ t[j] = b[j - n]
    <3>1. i - n = j - n
      BY <2>0, <2>1, <2>3 DEF Different
    <3> QED
      BY <1>2, <3>1
  <2>4. ~(i \in DOMAIN a /\ t[i] = a[i] /\ j - n \in DOMAIN b /\ t[j] = b[j - n])
    BY <2>1 DEF Apart, OfFamilies
  <2>5. ~(j \in DOMAIN a /\ t[j] = a[j] /\ i - n \in DOMAIN b /\ t[i] = b[i - n])
    BY <2>1 DEF Apart, OfFamilies
  <2> QED
    BY <1>2, <2>2, <2>3, <2>4, <2>5
<1> QED
  BY <1>2, <1>4, <1>5 DEF OfFamilies, t

LEMMA RowsAdd ==
  ASSUME NEW s, NEW seen, NEW fams, NEW ids, OfFamilies(ids, s, fams)
  PROVE  Adds(Rows(ids), s, seen, fams, {}) /\ Emitted(Rows(ids)) = FamiliesOf(ids)
<1>1. PICK t : t = Rows(ids)
  OBVIOUS
<1>2. Len(ids) \in Nat /\ DOMAIN ids = 1..Len(ids)
  BY DEF OfFamilies
<1>3. DOMAIN t = 1..Len(ids) /\ \A i \in 1..Len(ids) : t[i] = Row(ids[i])
  BY <1>1 DEF Rows
<1>4. \A i \in 1..Len(ids) : t[i].op = "row" /\ t[i].what = ids[i]
  BY <1>3 DEF Row
<1>5. t \in Seq(Named(t))
  <2>1. t \in [1..Len(ids) -> Named(t)]
    <3>1. t = [i \in 1..Len(ids) |-> t[i]]
      BY <1>1 DEF Rows
    <3>2. \A i \in 1..Len(ids) : t[i] \in Named(t)
      BY <1>3 DEF Named
    <3> QED
      BY <3>1, <3>2
  <2> QED
    BY <1>2, <2>1
<1>6. DifferentCalls(t) /\ Backed(t, seen, s)
  BY <1>3, <1>4 DEF DifferentCalls, Backed
<1>7. Clashing(s) \/ DifferentRows(t)
  BY <1>2, <1>3, <1>4 DEF OfFamilies, Different, DifferentRows
<1>8. \A i \in DOMAIN t : t[i].op = "row" => Family(t[i].what) \in fams
  BY <1>2, <1>3, <1>4 DEF OfFamilies
<1>9. Adds(t, s, seen, fams, {})
  BY <1>3, <1>4, <1>5, <1>6, <1>7, <1>8 DEF Adds
<1>10. Emitted(t) = FamiliesOf(ids)
  <2>1. ASSUME NEW f \in Emitted(t) PROVE f \in FamiliesOf(ids)
    BY <1>2, <1>3, <1>4, <2>1 DEF Emitted, FamiliesOf, Named
  <2>2. ASSUME NEW f \in FamiliesOf(ids) PROVE f \in Emitted(t)
    <3>1. PICK i \in DOMAIN ids : f = Family(ids[i])
      BY <2>2 DEF FamiliesOf, Named
    <3> QED
      BY <1>2, <1>3, <1>4, <3>1 DEF Emitted
  <2> QED
    BY <2>1, <2>2
<1> QED
  BY <1>1, <1>9, <1>10

LEMMA AddsTidy ==
  ASSUME NEW k, NEW s, NEW fams, NEW names, NEW t, Adds(t, s, {}, fams, names),
         \A f \in fams : f[1] = Pipeline[k], names \subseteq CallIds[k]
  PROVE  Tidy(t, k, s)
<1>1. \A i \in DOMAIN t : t[i].op = "row" => t[i].what[1] = Pipeline[k]
  <2>1. \A r : Family(r)[1] = r[1]
    BY DEF Family
  <2> QED
    BY <2>1 DEF Apart, Adds
<1>2. RenderLast(t, k)
  BY DEF Adds, RenderLast
<1> QED
  BY <1>1, <1>2 DEF Adds, Tidy

-----------------------------------------------------------------------------
(* The ids of each family differ.                                          *)

Around(u, x, v) == (u \o <<x>>) \o v

CutAt(t, u, x, v) ==
  /\ Len(t) = Len(u) + 1 + Len(v) /\ t[Len(u) + 1] = x
  /\ \A i \in 1..Len(u) : t[i] = u[i]
  /\ \A i \in 1..Len(v) : t[Len(u) + 1 + i] = v[i]

LEMMA AroundFacts ==
  ASSUME NEW S, NEW u \in Seq(S), NEW v \in Seq(S), NEW x \in S
  PROVE  /\ Around(u, x, v) \in Seq(S)
         /\ Named(Around(u, x, v)) = Named(u) \cup {x} \cup Named(v)
         /\ CutAt(Around(u, x, v), u, x, v)
<1>1. PICK y \in Seq(S) : y = <<x>> /\ Len(y) = 1 /\ DOMAIN y = {1} /\ y[1] = x
  <2>1. <<x>> \in Seq(S)
    OBVIOUS
  <2>2. Len(<<x>>) = 1 /\ <<x>>[1] = x
    OBVIOUS
  <2>3. DOMAIN <<x>> = {1}
    OBVIOUS
  <2> QED
    BY <2>1, <2>2, <2>3
<1>2. PICK w : w = u \o y
  OBVIOUS
<1>3. PICK t : t = w \o v
  OBVIOUS
<1>4. /\ w \in Seq(S)
      /\ \A i \in DOMAIN u : i \in DOMAIN w /\ w[i] = u[i]
      /\ \A i \in DOMAIN y : Len(u) + i \in DOMAIN w /\ w[Len(u) + i] = y[i]
      /\ DOMAIN u = 1..Len(u) /\ Len(u) \in Nat /\ DOMAIN w = 1..(Len(u) + Len(y))
  BY <1>2, Joined
<1>5. Len(w) = Len(u) + 1
  BY <1>1, <1>2
<1>6. /\ t \in Seq(S)
      /\ \A i \in DOMAIN w : i \in DOMAIN t /\ t[i] = w[i]
      /\ \A i \in DOMAIN v : Len(w) + i \in DOMAIN t /\ t[Len(w) + i] = v[i]
      /\ DOMAIN v = 1..Len(v) /\ Len(v) \in Nat
  BY <1>3, <1>4, Joined
<1>7. Len(t) = Len(w) + Len(v)
  BY <1>3, <1>4
<1>8. Around(u, x, v) = t
  BY <1>1, <1>2, <1>3 DEF Around
<1>9. Named(t) = Named(u) \cup {x} \cup Named(v)
  <2>1. Named(w) = Named(u) \cup Named(y)
    BY <1>2, NamedJoin
  <2>2. Named(t) = Named(w) \cup Named(v)
    BY <1>3, <1>4, NamedJoin
  <2>3. Named(y) = {x}
    BY <1>1 DEF Named
  <2> QED
    BY <2>1, <2>2, <2>3
<1> QED
  BY <1>1, <1>4, <1>5, <1>6, <1>7, <1>8, <1>9 DEF CutAt

(* A sequence in which x comes first is cut at x in one way.               *)
LEMMA CutUnique ==
  ASSUME NEW S, NEW a \in Seq(S), NEW b \in Seq(S), NEW c \in Seq(S), NEW d \in Seq(S),
         NEW x \in S, x \notin Named(a), x \notin Named(c),
         Around(a, x, b) = Around(c, x, d)
  PROVE  a = c /\ b = d
<1>1. PICK t : t = Around(a, x, b)
  OBVIOUS
<1>2. PICK la, lb, lc, ld \in Nat : la = Len(a) /\ lb = Len(b) /\ lc = Len(c) /\ ld = Len(d)
  OBVIOUS
<1>3. /\ Len(t) = la + 1 + lb /\ t[la + 1] = x
      /\ \A i \in 1..la : t[i] = a[i]
      /\ \A i \in 1..lb : t[la + 1 + i] = b[i]
  <2>1. CutAt(t, a, x, b)
    BY <1>1, AroundFacts
  <2> QED
    BY <1>2, <2>1 DEF CutAt
<1>4. /\ Len(t) = lc + 1 + ld /\ t[lc + 1] = x
      /\ \A i \in 1..lc : t[i] = c[i]
      /\ \A i \in 1..ld : t[lc + 1 + i] = d[i]
  <2>1. CutAt(Around(c, x, d), c, x, d)
    BY AroundFacts
  <2>2. CutAt(t, c, x, d)
    BY <1>1, <2>1
  <2> QED
    BY <1>2, <2>2 DEF CutAt
<1>5. DOMAIN a = 1..la /\ DOMAIN c = 1..lc
  BY <1>2
<1>6. (\A i \in 1..la : a[i] # x) /\ (\A i \in 1..lc : c[i] # x)
  BY <1>5 DEF Named
<1>7. la = lc
  <2>1. ~(la < lc)
    <3>1. la < lc => la + 1 \in 1..lc
      OBVIOUS
    <3> QED
      BY <1>3, <1>4, <1>6, <3>1
  <2>2. ~(lc < la)
    <3>1. lc < la => lc + 1 \in 1..la
      OBVIOUS
    <3> QED
      BY <1>3, <1>4, <1>6, <3>1
  <2> QED
    BY <2>1, <2>2
<1>8. lb = ld
  BY <1>3, <1>4, <1>7
<1>9. \A i \in 1..la : a[i] = c[i]
  BY <1>3, <1>4, <1>7
<1>10. \A i \in 1..lb : b[i] = d[i]
  BY <1>3, <1>4, <1>7, <1>8
<1>11. a = c
  BY <1>2, <1>7, <1>9, SeqEqual
<1>12. b = d
  BY <1>2, <1>8, <1>10, SeqEqual
<1> QED
  BY <1>11, <1>12

(* Ids made of codes tell which codes.                                     *)
LEMMA CodeFacts ==
  ASSUME NEW c \in Code
  PROVE  c \in Seq(Text) /\ "->" \notin Named(c) /\ ".via" \notin Named(c)
<1>1. c \in Seq(STRING \ {"->", ".via"})
  BY DEF Code
<1>2. \A i \in DOMAIN c : c[i] \in STRING \ {"->", ".via"}
  BY <1>1
<1> QED
  BY <1>2, TextsJoin DEF Named

LEMMA ArrowUnique ==
  ASSUME NEW a \in Code, NEW b \in Code, NEW c \in Code, NEW d \in Code,
         Arrow(a, b) = Arrow(c, d)
  PROVE  a = c /\ b = d
<1>1. PICK x \in Text : x = "->"
  BY DEF Text, Words
<1>2. a \in Seq(Text) /\ b \in Seq(Text) /\ c \in Seq(Text) /\ d \in Seq(Text)
  BY CodeFacts
<1>3. x \notin Named(a) /\ x \notin Named(c)
  BY <1>1, CodeFacts
<1>4. Around(a, x, b) = Around(c, x, d)
  BY <1>1 DEF Arrow, Around
<1> QED
  BY <1>2, <1>3, <1>4, CutUnique

Via(a, b, v) == Arrow(a, b) \o <<".via">> \o v

LEMMA ViaUnique ==
  ASSUME NEW a \in Code, NEW b \in Code, NEW v \in Code,
         NEW c \in Code, NEW d \in Code, NEW w \in Code,
         Via(a, b, v) = Via(c, d, w)
  PROVE  a = c /\ b = d /\ v = w
<1>1. PICK x \in Text : x = ".via"
  BY DEF Text, Words
<1>2. ASSUME NEW e \in Code, NEW f \in Code
      PROVE  Arrow(e, f) \in Seq(Text) /\ x \notin Named(Arrow(e, f))
  <2>1. PICK y \in Text : y = "->"
    BY DEF Text, Words
  <2>2. e \in Seq(Text) /\ f \in Seq(Text) /\ x \notin Named(e) /\ x \notin Named(f)
    BY <1>1, CodeFacts
  <2>3. Arrow(e, f) = Around(e, y, f)
    BY <2>1 DEF Arrow, Around
  <2>4. Arrow(e, f) \in Seq(Text) /\ Named(Arrow(e, f)) = Named(e) \cup {y} \cup Named(f)
    BY <2>2, <2>3, AroundFacts
  <2>5. x # y
    BY <1>1, <2>1
  <2> QED
    BY <2>2, <2>4, <2>5
<1>3. PICK p \in Seq(Text) : p = Arrow(a, b) /\ x \notin Named(p)
  BY <1>2
<1>4. PICK q \in Seq(Text) : q = Arrow(c, d) /\ x \notin Named(q)
  BY <1>2
<1>5. v \in Seq(Text) /\ w \in Seq(Text)
  BY CodeFacts
<1>6. Around(p, x, v) = Around(q, x, w)
  BY <1>1, <1>3, <1>4 DEF Around, Via
<1>7. p = q /\ v = w
  <2> QED
    BY <1>3, <1>4, <1>5, <1>6, CutUnique
<1>8. Arrow(a, b) = Arrow(c, d)
  BY <1>3, <1>4, <1>7
<1>9. a = c /\ b = d
  BY <1>8, ArrowUnique
<1> QED
  BY <1>7, <1>9

LEMMA FamiliesAre ==
  ASSUME NEW ids, NEW F, \A i \in DOMAIN ids : Family(ids[i]) \in F,
         \A f \in F : \E i \in DOMAIN ids : Family(ids[i]) = f
  PROVE  FamiliesOf(ids) = F
  BY DEF FamiliesOf, Named

LEMMA OneRow ==
  ASSUME NEW s, NEW r, <<r>> \in Seq(RowIds(s))
  PROVE  OfFamilies(<<r>>, s, {Family(r)}) /\ FamiliesOf(<<r>>) = {Family(r)}
<1>1. PICK t : t = <<r>>
  OBVIOUS
<1>2. DOMAIN t = {1} /\ t[1] = r
  BY <1>1
<1>3. Different(t) /\ \A i \in DOMAIN t : Family(t[i]) \in {Family(r)}
  BY <1>2 DEF Different
<1>4. Named(t) = {r}
  BY <1>2 DEF Named
<1>5. FamiliesOf(t) = {Family(r)}
  BY <1>4 DEF FamiliesOf
<1> QED
  BY <1>1, <1>3, <1>5 DEF OfFamilies

(* The rows every study has.                                               *)
LEMMA FixedFamilies ==
  ASSUME NEW s
  PROVE  /\ OfFamilies(PowerIds, s, Outputs[1]) /\ FamiliesOf(PowerIds) = Outputs[1]
         /\ OfFamilies(PrepIds, s, Outputs[2] \cup Outputs[3] \cup Outputs[4])
         /\ FamiliesOf(PrepIds) = Outputs[2] \cup Outputs[3] \cup Outputs[4]
         /\ OfFamilies(AssumptionsIds, s, Outputs[5] \cup Outputs[6] \cup Outputs[7])
         /\ FamiliesOf(AssumptionsIds) = Outputs[5] \cup Outputs[6] \cup Outputs[7]
         /\ OfFamilies(RobustnessIds, s, Outputs[18] \cup Outputs[19])
         /\ FamiliesOf(RobustnessIds) = Outputs[18] \cup Outputs[19]
<1>1. OfFamilies(PowerIds, s, Outputs[1]) /\ FamiliesOf(PowerIds) = Outputs[1]
  <2>1. PICK t : t = PowerIds
    OBVIOUS
  <2>2. /\ DOMAIN t = 1..3 /\ t[1] = <<"power", "close_fit", <<"estimate">>>>
        /\ t[2] = <<"power", "n_to_q", <<"ratio">>>> /\ t[3] = <<"power", "montecarlo", <<>>>>
    BY <2>1 DEF PowerIds, Bare
  <2>3. /\ Family(t[1]) = <<"power", "close_fit">> /\ Family(t[2]) = <<"power", "n_to_q">>
        /\ Family(t[3]) = <<"power", "montecarlo">>
    BY <2>2 DEF Family
  <2>4. Outputs[1] = {<<"power", "close_fit">>, <<"power", "n_to_q">>, <<"power", "montecarlo">>}
    BY DEF Outputs
  <2>5. Different(t)
    BY <2>2, <2>3 DEF Different
  <2>6. \A i \in DOMAIN t : Family(t[i]) \in Outputs[1]
    BY <2>2, <2>3, <2>4
  <2>7. \A f \in Outputs[1] :
           \E i \in DOMAIN t : Family(t[i]) = f
    BY <2>2, <2>3, <2>4
  <2>8. FamiliesOf(t) = Outputs[1]
    BY <2>6, <2>7, FamiliesAre
  <2> QED
    BY <2>1, <2>5, <2>6, <2>8, FixedIds DEF OfFamilies
<1>2. /\ OfFamilies(PrepIds, s, Outputs[2] \cup Outputs[3] \cup Outputs[4])
      /\ FamiliesOf(PrepIds) = Outputs[2] \cup Outputs[3] \cup Outputs[4]
  <2>1. PICK t : t = PrepIds
    OBVIOUS
  <2>2. /\ DOMAIN t = 1..4 /\ t[1] = <<"prep", "n_chain", <<>>>>
        /\ t[2] = <<"prep", "screening", <<>>>> /\ t[3] = <<"prep", "missingness", <<>>>>
        /\ t[4] = <<"prep", "outliers", <<>>>>
    BY <2>1 DEF PrepIds, Bare
  <2>3. /\ Family(t[1]) = <<"prep", "n_chain">> /\ Family(t[2]) = <<"prep", "screening">>
        /\ Family(t[3]) = <<"prep", "missingness">> /\ Family(t[4]) = <<"prep", "outliers">>
    BY <2>2 DEF Family
  <2>4. Outputs[2] \cup Outputs[3] \cup Outputs[4] =
          {<<"prep", "n_chain">>, <<"prep", "screening">>, <<"prep", "missingness">>,
           <<"prep", "outliers">>}
    BY DEF Outputs
  <2>5. Different(t)
    BY <2>2, <2>3 DEF Different
  <2>6. \A i \in DOMAIN t : Family(t[i]) \in Outputs[2] \cup Outputs[3] \cup Outputs[4]
    BY <2>2, <2>3, <2>4
  <2>7. \A f \in Outputs[2] \cup Outputs[3] \cup Outputs[4] :
           \E i \in DOMAIN t : Family(t[i]) = f
    BY <2>2, <2>3, <2>4
  <2>8. FamiliesOf(t) = Outputs[2] \cup Outputs[3] \cup Outputs[4]
    BY <2>6, <2>7, FamiliesAre
  <2> QED
    BY <2>1, <2>5, <2>6, <2>8, FixedIds DEF OfFamilies
<1>3. /\ OfFamilies(AssumptionsIds, s, Outputs[5] \cup Outputs[6] \cup Outputs[7])
      /\ FamiliesOf(AssumptionsIds) = Outputs[5] \cup Outputs[6] \cup Outputs[7]
  <2>1. PICK t : t = AssumptionsIds
    OBVIOUS
  <2>2. /\ DOMAIN t = 1..6
        /\ t[1] = <<"assumptions", "normality", <<"mardia_skew_p">>>>
        /\ t[2] = <<"assumptions", "normality", <<"mardia_kurtosis_p">>>>
        /\ t[3] = <<"assumptions", "normality", <<"max_abs_skewness">>>>
        /\ t[4] = <<"assumptions", "normality", <<"max_abs_kurtosis">>>>
        /\ t[5] = <<"assumptions", "collinearity", <<>>>>
        /\ t[6] = <<"assumptions", "estimator", <<>>>>
    BY <2>1 DEF AssumptionsIds, Bare
  <2>3. /\ \A i \in 1..4 : Family(t[i]) = <<"assumptions", "normality">>
        /\ Family(t[5]) = <<"assumptions", "collinearity">>
        /\ Family(t[6]) = <<"assumptions", "estimator">>
    BY <2>2 DEF Family
  <2>4. Outputs[5] \cup Outputs[6] \cup Outputs[7] =
          {<<"assumptions", "normality">>, <<"assumptions", "collinearity">>,
           <<"assumptions", "estimator">>}
    BY DEF Outputs
  <2>5. Different(t)
    BY <2>2 DEF Different
  <2>6. \A i \in DOMAIN t : Family(t[i]) \in Outputs[5] \cup Outputs[6] \cup Outputs[7]
    BY <2>2, <2>3, <2>4, SMTT(30)
  <2>7. \A f \in Outputs[5] \cup Outputs[6] \cup Outputs[7] :
           \E i \in DOMAIN t : Family(t[i]) = f
    BY <2>2, <2>3, <2>4
  <2>8. FamiliesOf(t) = Outputs[5] \cup Outputs[6] \cup Outputs[7]
    BY <2>6, <2>7, FamiliesAre
  <2> QED
    BY <2>1, <2>5, <2>6, <2>8, FixedIds DEF OfFamilies
<1>4. /\ OfFamilies(RobustnessIds, s, Outputs[18] \cup Outputs[19])
      /\ FamiliesOf(RobustnessIds) = Outputs[18] \cup Outputs[19]
  <2>1. PICK t : t = RobustnessIds
    OBVIOUS
  <2>2. /\ DOMAIN t = 1..4
        /\ t[1] = <<"robustness", "alternatives", <<"reversed_paths", "delta_aic">>>>
        /\ t[2] = <<"robustness", "alternatives", <<"reversed_paths", "delta_bic">>>>
        /\ t[3] = <<"robustness", "alternatives", <<"reversed_paths", "preferred">>>>
        /\ t[4] = <<"robustness", "achieved_power", <<>>>>
    BY <2>1 DEF RobustnessIds, Bare
  <2>3. /\ Family(t[1]) = <<"robustness", "alternatives">>
        /\ Family(t[2]) = <<"robustness", "alternatives">>
        /\ Family(t[3]) = <<"robustness", "alternatives">>
        /\ Family(t[4]) = <<"robustness", "achieved_power">>
    BY <2>2 DEF Family
  <2>4. Outputs[18] \cup Outputs[19] =
          {<<"robustness", "alternatives">>, <<"robustness", "achieved_power">>}
    BY DEF Outputs
  <2>5. Different(t)
    BY <2>2 DEF Different
  <2>6. \A i \in DOMAIN t : Family(t[i]) \in Outputs[18] \cup Outputs[19]
    BY <2>2, <2>3, <2>4
  <2>7. \A f \in Outputs[18] \cup Outputs[19] :
           \E i \in DOMAIN t : Family(t[i]) = f
    BY <2>2, <2>3, <2>4
  <2>8. FamiliesOf(t) = Outputs[18] \cup Outputs[19]
    BY <2>6, <2>7, FamiliesAre
  <2> QED
    BY <2>1, <2>5, <2>6, <2>8, FixedIds DEF OfFamilies
<1> QED
  BY <1>1, <1>2, <1>3, <1>4

(* Every other step of a loop, in pairs.                                   *)
LEMMA InPairs ==
  ASSUME NEW i \in Nat, NEW j \in Nat, (i % 2 = 1) <=> (j % 2 = 1),
         (i + 1) \div 2 = (j + 1) \div 2
  PROVE  i = j
<1>1. ASSUME NEW n \in Nat
      PROVE  /\ n % 2 \in {0, 1} /\ n \div 2 \in Nat /\ n = 2 * (n \div 2) + (n % 2)
             /\ (n + 1) \div 2 = (n \div 2) + (n % 2)
  <2>1. n % 2 \in {0, 1} /\ n \div 2 \in Nat /\ n = 2 * (n \div 2) + (n % 2)
    OBVIOUS
  <2>2. PICK h \in Nat, r \in {0, 1} : h = n \div 2 /\ r = n % 2 /\ n = 2 * h + r
    BY <2>1
  <2>3. (2 * h + r + 1) \div 2 = h + r
    BY <2>2
  <2> QED
    BY <2>1, <2>2, <2>3
<1>2. PICK h \in Nat, r \in {0, 1} : h = i \div 2 /\ r = i % 2 /\ i = 2 * h + r /\ (i + 1) \div 2 = h + r
  BY <1>1
<1>3. PICK k \in Nat, q \in {0, 1} : k = j \div 2 /\ q = j % 2 /\ j = 2 * k + q /\ (j + 1) \div 2 = k + q
  BY <1>1
<1>4. r = q /\ h + r = k + q
  BY <1>2, <1>3
<1> QED
  BY <1>2, <1>3, <1>4

(* Ids of one family.                                                      *)
LEMMA OneFamily ==
  ASSUME NEW s, NEW f, NEW ids \in Seq(RowIds(s)), \A i \in DOMAIN ids : Family(ids[i]) = f,
         Clashing(s) \/ Different(ids)
  PROVE  OfFamilies(ids, s, {f}) /\ (1 \in DOMAIN ids => FamiliesOf(ids) = {f})
<1>1. OfFamilies(ids, s, {f})
  BY DEF OfFamilies
<1>2. ASSUME 1 \in DOMAIN ids PROVE FamiliesOf(ids) = {f}
  BY <1>2, FamiliesAre
<1> QED
  BY <1>1, <1>2

LEMMA LoadingFamily ==
  ASSUME NEW s \in Study
  PROVE  /\ OfFamilies(LoadingIds(s), s, {<<"measurement", "loadings">>})
         /\ FamiliesOf(LoadingIds(s)) = {<<"measurement", "loadings">>}
<1>1. PICK items : items = EachOnce(s.constructs)
  OBVIOUS
<1>2. PICK ids : ids = LoadingIds(s)
  OBVIOUS
<1>3. s.constructs \in Seq(Code) /\ s.constructs # <<>>
  BY DEF Study
<1>4. items \in Seq(Code) /\ Different(items) /\ items # <<>>
  BY <1>1, <1>3, EachOnceFacts
<1>5. DOMAIN items = 1..Len(items) /\ Len(items) \in Nat \ {0}
  BY <1>4
<1>6. /\ DOMAIN ids = 1..Len(items)
      /\ \A i \in DOMAIN ids : ids[i] = <<"measurement", "loadings", items[i]>>
  BY <1>1, <1>2 DEF LoadingIds
<1>7. \A i \in DOMAIN ids : Family(ids[i]) = <<"measurement", "loadings">> /\ ids[i][3] = items[i]
  BY <1>6 DEF Family
<1>8. Different(ids)
  BY <1>4, <1>5, <1>6, <1>7 DEF Different
<1>9. ids \in Seq(RowIds(s)) /\ 1 \in DOMAIN ids
  BY <1>2, <1>5, <1>6, MeasurementIds
<1> QED
  BY <1>2, <1>7, <1>8, <1>9, OneFamily

LEMMA ValidityFamilies ==
  ASSUME NEW s \in Study
  PROVE  /\ OfFamilies(ValidityIds(s), s, Outputs[10])
         /\ FamiliesOf(ValidityIds(s)) = Outputs[10]
<1>1. PICK cs : cs = s.constructs
  OBVIOUS
<1>2. PICK ids : ids = ValidityIds(s)
  OBVIOUS
<1>3. cs \in Seq(Code) /\ cs # <<>>
  BY <1>1 DEF Study
<1>4. PICK n \in Nat \ {0} : n = Len(cs) /\ DOMAIN cs = 1..n
  BY <1>3
<1>5. /\ DOMAIN ids = 1..(2 * n)
      /\ \A i \in DOMAIN ids :
           ids[i] = <<"measurement", IF i % 2 = 1 THEN "reliability" ELSE "convergent",
                      cs[(i + 1) \div 2]>>
  BY <1>1, <1>2, <1>4 DEF ValidityIds
<1>6. /\ \A i \in DOMAIN ids :
           /\ i % 2 = 1 => Family(ids[i]) = <<"measurement", "reliability">>
           /\ i % 2 # 1 => Family(ids[i]) = <<"measurement", "convergent">>
           /\ ids[i][3] = cs[(i + 1) \div 2]
  BY <1>5 DEF Family
<1>7. Outputs[10] = {<<"measurement", "reliability">>, <<"measurement", "convergent">>}
  BY DEF Outputs
<1>8. ASSUME ~Clashing(s) PROVE Different(ids)
  <2>1. \A i, j \in DOMAIN cs : cs[i] = cs[j] => i = j
    BY <1>1, <1>8 DEF Clashing
  <2>2. SUFFICES ASSUME NEW i \in DOMAIN ids, NEW j \in DOMAIN ids, ids[i] = ids[j] PROVE i = j
    BY DEF Different
  <2>3. (i % 2 = 1) <=> (j % 2 = 1)
    BY <1>6, <2>2
  <2>4. (i + 1) \div 2 \in DOMAIN cs /\ (j + 1) \div 2 \in DOMAIN cs
    BY <1>4, <1>5, SMTT(30)
  <2>5. (i + 1) \div 2 = (j + 1) \div 2
    BY <1>6, <2>1, <2>2, <2>4
  <2>6. i \in Nat /\ j \in Nat
    BY <1>5
  <2> QED
    BY <2>3, <2>5, <2>6, InPairs, SMTT(30)
<1>9. \A i \in DOMAIN ids : Family(ids[i]) \in Outputs[10]
  BY <1>6, <1>7
<1>10. \A f \in Outputs[10] : \E i \in DOMAIN ids : Family(ids[i]) = f
  <2>1. 1 \in DOMAIN ids /\ 2 \in DOMAIN ids /\ 1 % 2 = 1 /\ 2 % 2 # 1
    BY <1>5
  <2>2. Family(ids[1]) = <<"measurement", "reliability">>
        /\ Family(ids[2]) = <<"measurement", "convergent">>
    BY <1>6, <2>1
  <2> QED
    BY <1>7, <2>1, <2>2
<1>11. FamiliesOf(ids) = Outputs[10]
  BY <1>9, <1>10, FamiliesAre
<1>12. ids \in Seq(RowIds(s))
  BY <1>2, MeasurementIds
<1> QED
  BY <1>2, <1>8, <1>9, <1>11, <1>12 DEF OfFamilies

(* With two constructs there is a pair of them.                            *)
LEMMA PairsThere ==
  ASSUME NEW cs \in Seq(Code), Len(cs) >= 2
  PROVE  1 \in DOMAIN PairsOf(cs)
<1> DEFINE n == Len(cs)
           row(p) == (p - 1) \div n + 1
           col(p) == ((p - 1) % n) + 1
           grid == [p \in 1..(n * n) |-> <<cs[row(p)], cs[col(p)]>>]
           above == {p \in 1..(n * n) : row(p) < col(p)}
<1>1. n \in Nat /\ n >= 2 /\ n * n \in Nat /\ \A i \in 1..n : cs[i] \in Code
  OBVIOUS
<1> HIDE DEF n
<1>2. \A p \in 1..(n * n) : row(p) \in 1..n /\ col(p) \in 1..n
  BY <1>1, CellOfGrid
<1>3. 2 \in 1..(n * n)
  <2>1. n * n >= n + n
    BY <1>1
  <2> QED
    BY <1>1, <2>1
<1>4. row(2) < col(2)
  <2>1. PICK q \in Int, r \in 0..(n - 1) : q = 1 \div n /\ r = 1 % n /\ 1 = n * q + r
    BY <1>1
  <2>2. q >= 0
    <3> SUFFICES ASSUME q <= -1 PROVE FALSE
      OBVIOUS
    <3>1. n * q <= -n
      BY <1>1
    <3> QED
      BY <1>1, <2>1, <3>1
  <2>3. q <= 0
    <3> SUFFICES ASSUME q >= 1 PROVE FALSE
      OBVIOUS
    <3>1. n * q >= n
      BY <1>1
    <3> QED
      BY <1>1, <2>1, <3>1
  <2>4. q = 0 /\ n * 0 = 0
    BY <1>1, <2>2, <2>3
  <2>5. r = 1
    BY <2>1, <2>4
  <2>6. row(2) = 1 /\ col(2) = 2
    BY <2>1, <2>4, <2>5
  <2> QED
    BY <2>6
<1> HIDE DEF row, col
<1>5. grid \in [1..(n * n) -> Code \X Code]
  BY <1>1, <1>2
<1>6. 2 \in above /\ above \in SUBSET (1..(n * n))
  BY <1>3, <1>4
<1> HIDE DEF grid, above
<1>7. grid \in Seq(Code \X Code) /\ DOMAIN grid = 1..(n * n)
  BY <1>1, <1>5
<1>8. PICK ps \in Seq(Code \X Code) :
        ps = EntriesAt(grid, above) /\ Named(ps) = {grid[k] : k \in above}
  BY <1>6, <1>7, EntriesAtPositions
<1>9. Named(ps) # {}
  BY <1>6, <1>8
<1>10. 1 \in DOMAIN ps
  BY <1>9 DEF Named
<1>11. ps = PairsOf(cs)
  BY <1>8 DEF PairsOf, grid, above, n, row, col
<1> QED
  BY <1>10, <1>11

LEMMA DiscriminantFamily ==
  ASSUME NEW s \in Study
  PROVE  /\ OfFamilies(DiscriminantIds(s), s, Outputs[11])
         /\ Len(s.constructs) < 2 \/ FamiliesOf(DiscriminantIds(s)) = Outputs[11]
<1>1. PICK ps : ps = PairsOf(s.constructs)
  OBVIOUS
<1>2. PICK ids : ids = DiscriminantIds(s)
  OBVIOUS
<1>3. s.constructs \in Seq(Code) /\ Len(s.constructs) \in Nat
  BY DEF Study
<1>4. ps \in Seq(Code \X Code) /\ DOMAIN ps = 1..Len(ps)
  BY <1>1, <1>3, PairsType
<1>j. PICK joined : joined = [i \in 1..Len(ps) |-> ps[i][1] \o ps[i][2]]
  OBVIOUS
<1>5. /\ DOMAIN ids = 1..Len(ps)
      /\ \A i \in DOMAIN ids : ids[i] = <<"measurement", "discriminant", joined[i]>>
  BY <1>1, <1>2, <1>j DEF DiscriminantIds
<1>6. \A i \in DOMAIN ids : /\ Family(ids[i]) = <<"measurement", "discriminant">>
                            /\ ids[i][3] = joined[i]
  BY <1>5 DEF Family
<1>7. Clashing(s) \/ Different(ids)
  <2>1. SUFFICES ASSUME ~Clashing(s), NEW i \in DOMAIN ids, NEW j \in DOMAIN ids, ids[i] = ids[j]
                 PROVE  i = j
    BY DEF Different
  <2>2. ps[i][1] \o ps[i][2] = ps[j][1] \o ps[j][2]
    <3>1. joined[i] = joined[j]
      BY <1>6, <2>1
    <3> QED
      BY <1>5, <1>j, <3>1
  <2> QED
    BY <1>1, <1>4, <1>5, <2>1, <2>2 DEF Clashing
<1>8. Outputs[11] = {<<"measurement", "discriminant">>}
  BY DEF Outputs
<1>9. ids \in Seq(RowIds(s))
  BY <1>2, MeasurementIds
<1>10. Len(s.constructs) < 2 \/ 1 \in DOMAIN ids
  BY <1>1, <1>3, <1>4, <1>5, PairsThere
<1>11. /\ OfFamilies(ids, s, {<<"measurement", "discriminant">>})
       /\ 1 \in DOMAIN ids => FamiliesOf(ids) = {<<"measurement", "discriminant">>}
  BY <1>6, <1>7, <1>9, OneFamily
<1> QED
  BY <1>2, <1>8, <1>10, <1>11

(* The pairs of one list of links.                                         *)
LEMMA LinkEqual ==
  ASSUME NEW s \in Study, NEW i \in 1..Len(Links(s)), NEW j \in 1..Len(Links(s)),
         Arrow(Links(s)[i][1], Links(s)[i][2]) = Arrow(Links(s)[j][1], Links(s)[j][2])
  PROVE  i = j
<1>1. PICK ls : ls = Links(s)
  OBVIOUS
<1>2. ls \in Seq(Code \X Code) /\ DOMAIN ls = 1..Len(ls)
  BY <1>1, LinkTypes
<1>3. ls[i] \in Code \X Code /\ ls[j] \in Code \X Code
  BY <1>1, <1>2
<1>4. ls[i][1] = ls[j][1] /\ ls[i][2] = ls[j][2]
  BY <1>1, <1>3, ArrowUnique
<1>5. ls[i] = ls[j]
  BY <1>3, <1>4
<1>6. Different(ls)
  <2>1. s.direct \in Seq(Code \X Code)
    BY DEF Study
  <2> QED
    BY <1>1, <2>1, EachOnceFacts DEF Links
<1> QED
  BY <1>1, <1>2, <1>5, <1>6 DEF Different

LEMMA LinksThere ==
  ASSUME NEW s \in Study, s.direct # <<>>
  PROVE  1 \in 1..Len(Links(s)) /\ 1 \in 1..Len(Ends(s))
<1>1. s.direct \in Seq(Code \X Code)
  BY DEF Study
<1>2. Links(s) # <<>>
  BY <1>1, EachOnceFacts DEF Links
<1>3. 1 \in 1..Len(Links(s))
  BY <1>2, LinkTypes
<1>4. PICK e \in Seq(Code) : e = [i \in 1..Len(Links(s)) |-> Links(s)[i][2]]
  BY LinkTypes
<1>5. e # <<>>
  BY <1>3, <1>4
<1>6. Ends(s) # <<>>
  BY <1>4, <1>5, EachOnceFacts DEF Ends
<1> QED
  BY <1>3, <1>6, LinkTypes

(* The rows about the links, in the two stages that have them.             *)
LEMMA LinkFamilies ==
  ASSUME NEW s \in Study
  PROVE  /\ OfFamilies(PathIds(s), s, {<<"structural", "path">>})
         /\ OfFamilies(DirectIds(s), s, {<<"effects", "direct">>})
         /\ s.direct # <<>> =>
              /\ FamiliesOf(PathIds(s)) = {<<"structural", "path">>}
              /\ FamiliesOf(DirectIds(s)) = {<<"effects", "direct">>}
<1>1. PICK arrows : arrows = [i \in 1..Len(Links(s)) |-> Arrow(Links(s)[i][1], Links(s)[i][2])]
  OBVIOUS
<1>2. \A i, j \in 1..Len(Links(s)) : arrows[i] = arrows[j] => i = j
  BY <1>1, LinkEqual
<1>3. /\ OfFamilies(PathIds(s), s, {<<"structural", "path">>})
      /\ 1 \in 1..Len(Links(s)) => FamiliesOf(PathIds(s)) = {<<"structural", "path">>}
  <2>1. PICK ids : ids = PathIds(s)
    OBVIOUS
  <2>2. /\ DOMAIN ids = 1..Len(Links(s))
        /\ \A i \in DOMAIN ids : ids[i] = <<"structural", "path", arrows[i]>>
    BY <1>1, <2>1 DEF PathIds
  <2>3. \A i \in DOMAIN ids : Family(ids[i]) = <<"structural", "path">> /\ ids[i][3] = arrows[i]
    BY <2>2 DEF Family
  <2>4. Different(ids)
    BY <1>2, <2>2, <2>3 DEF Different
  <2>5. ids \in Seq(RowIds(s))
    BY <2>1, StructuralIds
  <2> QED
    <3>1. \A i \in DOMAIN ids : Family(ids[i]) = <<"structural", "path">>
      BY <2>3
    <3>2. /\ OfFamilies(ids, s, {<<"structural", "path">>})
          /\ 1 \in DOMAIN ids => FamiliesOf(ids) = {<<"structural", "path">>}
      BY <2>4, <2>5, <3>1, OneFamily
    <3> QED
      BY <2>1, <2>2, <3>2
<1>4. /\ OfFamilies(DirectIds(s), s, {<<"effects", "direct">>})
      /\ 1 \in 1..Len(Links(s)) => FamiliesOf(DirectIds(s)) = {<<"effects", "direct">>}
  <2>1. PICK ids : ids = DirectIds(s)
    OBVIOUS
  <2>2. /\ DOMAIN ids = 1..Len(Links(s))
        /\ \A i \in DOMAIN ids : ids[i] = <<"effects", "direct", arrows[i]>>
    BY <1>1, <2>1 DEF DirectIds
  <2>3. \A i \in DOMAIN ids : Family(ids[i]) = <<"effects", "direct">> /\ ids[i][3] = arrows[i]
    BY <2>2 DEF Family
  <2>4. Different(ids)
    BY <1>2, <2>2, <2>3 DEF Different
  <2>5. ids \in Seq(RowIds(s))
    BY <2>1, EffectsIds
  <2> QED
    <3>1. \A i \in DOMAIN ids : Family(ids[i]) = <<"effects", "direct">>
      BY <2>3
    <3>2. /\ OfFamilies(ids, s, {<<"effects", "direct">>})
          /\ 1 \in DOMAIN ids => FamiliesOf(ids) = {<<"effects", "direct">>}
      BY <2>4, <2>5, <3>1, OneFamily
    <3> QED
      BY <2>1, <2>2, <3>2
<1> QED
  BY <1>3, <1>4, LinksThere

LEMMA FitFamily ==
  ASSUME NEW s \in Study
  PROVE  /\ OfFamilies(FitIds, s, {<<"structural", "fit">>})
         /\ FamiliesOf(FitIds) = {<<"structural", "fit">>}
<1>1. PICK words : words = <<"chisq", "cfi", "tli", "rmsea", "srmr">>
  OBVIOUS
<1>2. \A i, j \in 1..5 : words[i] = words[j] => i = j
  BY <1>1
<1>3. PICK ids : ids = FitIds
  OBVIOUS
<1>4. /\ DOMAIN ids = 1..5 /\ 1 \in DOMAIN ids
      /\ \A i \in DOMAIN ids : ids[i] = <<"structural", "fit", <<words[i]>>>>
  BY <1>1, <1>3 DEF FitIds
<1>5. \A i \in DOMAIN ids : Family(ids[i]) = <<"structural", "fit">> /\ ids[i][3] = <<words[i]>>
  BY <1>4 DEF Family
<1>6. Different(ids)
  <2>1. SUFFICES ASSUME NEW i \in DOMAIN ids, NEW j \in DOMAIN ids, ids[i] = ids[j] PROVE i = j
    BY DEF Different
  <2>2. <<words[i]>> = <<words[j]>>
    BY <1>5, <2>1
  <2>3. words[i] = words[j]
    BY <2>2
  <2> QED
    BY <1>2, <1>4, <2>3
<1>7. ids \in Seq(RowIds(s))
  BY <1>3, StructuralIds
<1> QED
  <2>1. \A i \in DOMAIN ids : Family(ids[i]) = <<"structural", "fit">>
    BY <1>5
  <2>2. /\ OfFamilies(ids, s, {<<"structural", "fit">>})
        /\ 1 \in DOMAIN ids => FamiliesOf(ids) = {<<"structural", "fit">>}
    BY <1>6, <1>7, <2>1, OneFamily
  <2> QED
    BY <1>3, <1>4, <2>2

LEMMA SquareFamily ==
  ASSUME NEW s \in Study
  PROVE  /\ OfFamilies(SquareIds(s), s, {<<"structural", "r_squared">>})
         /\ s.direct # <<>> => FamiliesOf(SquareIds(s)) = {<<"structural", "r_squared">>}
<1>1. PICK ends : ends = Ends(s)
  OBVIOUS
<1>2. PICK ids : ids = SquareIds(s)
  OBVIOUS
<1>3. Different(ends)
  BY <1>1, LinkTypes, EachOnceFacts DEF Ends
<1>4. ends \in Seq(Code) /\ DOMAIN ends = 1..Len(ends)
  BY <1>1, LinkTypes
<1>5. /\ DOMAIN ids = 1..Len(ends)
      /\ \A i \in DOMAIN ids : ids[i] = <<"structural", "r_squared", ends[i]>>
  BY <1>1, <1>2 DEF SquareIds
<1>6. \A i \in DOMAIN ids : Family(ids[i]) = <<"structural", "r_squared">> /\ ids[i][3] = ends[i]
  BY <1>5 DEF Family
<1>7. Different(ids)
  BY <1>3, <1>4, <1>5, <1>6 DEF Different
<1>8. ids \in Seq(RowIds(s))
  BY <1>2, StructuralIds
<1>9. s.direct # <<>> => 1 \in DOMAIN ids
  BY <1>1, <1>5, LinksThere
<1> QED
  <2>1. \A i \in DOMAIN ids : Family(ids[i]) = <<"structural", "r_squared">>
    BY <1>6
  <2>2. /\ OfFamilies(ids, s, {<<"structural", "r_squared">>})
        /\ 1 \in DOMAIN ids => FamiliesOf(ids) = {<<"structural", "r_squared">>}
    BY <1>7, <1>8, <2>1, OneFamily
  <2> QED
    BY <1>2, <1>9, <2>2

(* The slots of the indirect hypotheses.                                   *)
LEMMA SlotEqual ==
  ASSUME NEW s \in Study, ~Clashing(s), NEW p \in SlotsUsed(s), NEW q \in SlotsUsed(s),
         SlotId(s, p) = SlotId(s, q)
  PROVE  p = q
<1>1. PICK n \in Nat : n = Len(s.indirect) /\ p \in 1..(3 * n) /\ q \in 1..(3 * n)
  BY DEF Study, SlotsUsed
<1>2. PICK g : g = s.indirect[OfSlot(p)]
  OBVIOUS
<1>3. PICK h : h = s.indirect[OfSlot(q)]
  OBVIOUS
<1>4. g[1] \in Code /\ g[2] \in Code /\ g[3] \in Code /\ OfSlot(p) \in DOMAIN s.indirect
  <2>1. p \in 1..(3 * Len(s.indirect)) /\ DOMAIN s.indirect = 1..Len(s.indirect)
    BY <1>1 DEF Study
  <2> QED
    BY <1>2, <2>1, SlotTypes
<1>5. h[1] \in Code /\ h[2] \in Code /\ h[3] \in Code /\ OfSlot(q) \in DOMAIN s.indirect
  <2>1. q \in 1..(3 * Len(s.indirect)) /\ DOMAIN s.indirect = 1..Len(s.indirect)
    BY <1>1 DEF Study
  <2> QED
    BY <1>3, <2>1, SlotTypes
<1>6. PICK u : u = IF KindOf(p) = "total" THEN Arrow(g[1], g[3])
                   ELSE Via(g[1], g[3], g[2])
  OBVIOUS
<1>7. PICK v : v = IF KindOf(q) = "total" THEN Arrow(h[1], h[3])
                   ELSE Via(h[1], h[3], h[2])
  BY SMTT(30)
<1>8. SlotId(s, p) = <<"effects", KindOf(p), u>> /\ SlotId(s, q) = <<"effects", KindOf(q), v>>
  BY <1>2, <1>3, <1>6, <1>7 DEF SlotId, Via
<1>9. KindOf(p) = KindOf(q) /\ u = v
  <2>1. PICK x : x = SlotId(s, p) /\ x = SlotId(s, q)
    OBVIOUS
  <2>2. x[2] = KindOf(p) /\ x[3] = u
    <3>1. x = <<"effects", KindOf(p), u>>
      BY <1>8, <2>1
    <3> QED
      BY <3>1
  <2>3. x[2] = KindOf(q) /\ x[3] = v
    <3>1. x = <<"effects", KindOf(q), v>>
      BY <1>8, <2>1
    <3> QED
      BY <3>1
  <2> QED
    BY <2>2, <2>3
<1>10. g[1] = h[1] /\ g[3] = h[3] /\ (HasTotal(s, OfSlot(p)) \/ g[2] = h[2])
  <2>1. CASE KindOf(p) = "total"
    <3>1. Arrow(g[1], g[3]) = Arrow(h[1], h[3])
      BY <1>6, <1>7, <1>9, <2>1
    <3>2. HasTotal(s, OfSlot(p))
      BY <2>1 DEF SlotsUsed
    <3> QED
      BY <1>4, <1>5, <3>1, <3>2, ArrowUnique
  <2>2. CASE KindOf(p) # "total"
    <3>1. Via(g[1], g[3], g[2]) = Via(h[1], h[3], h[2])
      BY <1>6, <1>7, <1>9, <2>2
    <3> QED
      BY <1>4, <1>5, <3>1, ViaUnique, SMTT(30)
  <2> QED
    BY <2>1, <2>2
<1>11. OfSlot(p) = OfSlot(q)
  BY <1>2, <1>3, <1>4, <1>5, <1>10 DEF Clashing
<1>12. (p - 1) % 3 = (q - 1) % 3
  <2>1. (p - 1) % 3 \in 0..2 /\ (q - 1) % 3 \in 0..2
    BY <1>1
  <2>2. \A a, b \in 1..3 :
          (<<"indirect", "total", "classification">>)[a]
            = (<<"indirect", "total", "classification">>)[b] => a = b
    OBVIOUS
  <2>3. ((p - 1) % 3) + 1 \in 1..3 /\ ((q - 1) % 3) + 1 \in 1..3
    BY <2>1
  <2>4. ((p - 1) % 3) + 1 = ((q - 1) % 3) + 1
    BY <1>9, <2>2, <2>3 DEF KindOf
  <2> QED
    BY <2>1, <2>4
<1>13. (p + 2) \div 3 = (q + 2) \div 3
  BY <1>11 DEF OfSlot
<1> QED
  BY <1>1, <1>12, <1>13

LEMMA SlotFamilies ==
  ASSUME NEW s \in Study
  PROVE  /\ OfFamilies(EntriesAt(SlotIds(s), SlotsUsed(s)), s,
              {<<"effects", "indirect">>, <<"effects", "total">>, <<"effects", "classification">>})
         /\ (\E i \in DOMAIN s.indirect : HasTotal(s, i)) =>
              FamiliesOf(EntriesAt(SlotIds(s), SlotsUsed(s))) =
                {<<"effects", "indirect">>, <<"effects", "total">>, <<"effects", "classification">>}
<1> DEFINE F == {<<"effects", "indirect">>, <<"effects", "total">>, <<"effects", "classification">>}
<1>1. PICK all : all = SlotIds(s)
  OBVIOUS
<1>2. PICK used : used = SlotsUsed(s)
  OBVIOUS
<1>3. PICK ids : ids = EntriesAt(all, used)
  OBVIOUS
<1>4. PICK n \in Nat : n = Len(s.indirect) /\ DOMAIN s.indirect = 1..n
  BY DEF Study
<1>5. DOMAIN all = 1..(3 * n) /\ \A p \in DOMAIN all : all[p] = SlotId(s, p)
  BY <1>1, <1>4 DEF SlotIds
<1>6. all \in Seq(RowIds(s)) /\ used \in SUBSET DOMAIN all
  BY <1>1, <1>2, EffectsIds
<1>7. ids \in Seq(RowIds(s)) /\ Named(ids) = {all[p] : p \in used}
  BY <1>3, <1>6, EntriesAtPositions
<1>8. Clashing(s) \/ Different(ids)
  <2> SUFFICES ASSUME ~Clashing(s) PROVE Different(ids)
    OBVIOUS
  <2>1. \A p, q \in used : all[p] = all[q] => p = q
    BY <1>2, <1>5, <1>6, SlotEqual
  <2> QED
    BY <1>3, <1>6, <2>1, EntriesDiffer
<1>9. \A p \in DOMAIN all : Family(all[p]) = <<"effects", KindOf(p)>>
  <2> SUFFICES ASSUME NEW p \in DOMAIN all PROVE Family(all[p]) = <<"effects", KindOf(p)>>
    OBVIOUS
  <2>1. PICK h : h = s.indirect[OfSlot(p)]
    OBVIOUS
  <2>2. PICK u : u = IF KindOf(p) = "total" THEN Arrow(h[1], h[3]) ELSE Via(h[1], h[3], h[2])
    OBVIOUS
  <2>3. all[p] = <<"effects", KindOf(p), u>>
    BY <1>5, <2>1, <2>2 DEF SlotId, Via
  <2> QED
    BY <2>3 DEF Family
<1>10. \A p \in DOMAIN all : Family(all[p]) \in F
  <2>1. \A p \in DOMAIN all : KindOf(p) \in {"indirect", "total", "classification"}
    BY <1>4, <1>5, SlotTypes
  <2> QED
    BY <1>9, <2>1
<1>11. \A i \in DOMAIN ids : Family(ids[i]) \in F
  <2> SUFFICES ASSUME NEW i \in DOMAIN ids PROVE Family(ids[i]) \in F
    OBVIOUS
  <2>1. ids[i] \in Named(ids)
    BY DEF Named
  <2> QED
    BY <1>6, <1>7, <1>10, <2>1
<1>12. ASSUME NEW i \in DOMAIN s.indirect, HasTotal(s, i)
       PROVE  \A f \in F : \E j \in DOMAIN ids : Family(ids[j]) = f
  <2>1. i \in 1..n
    BY <1>4
  <2>2. /\ 3 * i - 2 \in 1..(3 * n) /\ 3 * i - 1 \in 1..(3 * n) /\ 3 * i \in 1..(3 * n)
        /\ (3 * i - 2 + 2) \div 3 = i /\ (3 * i - 1 + 2) \div 3 = i /\ (3 * i + 2) \div 3 = i
        /\ (3 * i - 2 - 1) % 3 = 0 /\ (3 * i - 1 - 1) % 3 = 1 /\ (3 * i - 1) % 3 = 2
    BY <2>1
  <2>3. /\ KindOf(3 * i - 2) = "indirect" /\ KindOf(3 * i - 1) = "total"
        /\ KindOf(3 * i) = "classification"
    <3>1. ASSUME NEW p \in Int
          PROVE  /\ (p - 1) % 3 = 0 => KindOf(p) = "indirect"
                 /\ (p - 1) % 3 = 1 => KindOf(p) = "total"
                 /\ (p - 1) % 3 = 2 => KindOf(p) = "classification"
      BY DEF KindOf
    <3>2. 3 * i - 2 \in Int /\ 3 * i - 1 \in Int /\ 3 * i \in Int
      BY <2>1
    <3> QED
      BY <2>2, <3>1, <3>2
  <2>4. OfSlot(3 * i - 1) = i
    BY <2>2 DEF OfSlot
  <2>5. 3 * i - 2 \in used /\ 3 * i - 1 \in used /\ 3 * i \in used
    BY <1>2, <1>4, <1>12, <2>2, <2>3, <2>4 DEF SlotsUsed
  <2>6. ASSUME NEW p \in used PROVE \E j \in DOMAIN ids : Family(ids[j]) = <<"effects", KindOf(p)>>
    <3>1. all[p] \in Named(ids)
      BY <1>7
    <3> QED
      BY <1>6, <1>9, <3>1 DEF Named
  <2> QED
    BY <2>3, <2>5, <2>6
<1>13. OfFamilies(ids, s, F)
  BY <1>7, <1>8, <1>11 DEF OfFamilies
<1>14. (\E i \in DOMAIN s.indirect : HasTotal(s, i)) => FamiliesOf(ids) = F
  BY <1>11, <1>12, FamiliesAre
<1> QED
  BY <1>1, <1>2, <1>3, <1>13, <1>14

(* The rows of the stages, by family.                                      *)
LEMMA FixedRowsAdd ==
  ASSUME NEW s
  PROVE  /\ Adds(PowerRows, s, {}, Outputs[1], {}) /\ Emitted(PowerRows) = Outputs[1]
         /\ Adds(PrepRows, s, {}, Outputs[2] \cup Outputs[3] \cup Outputs[4], {})
         /\ Emitted(PrepRows) = Outputs[2] \cup Outputs[3] \cup Outputs[4]
         /\ Adds(AssumptionsRows, s, {}, Outputs[5] \cup Outputs[6] \cup Outputs[7], {})
         /\ Emitted(AssumptionsRows) = Outputs[5] \cup Outputs[6] \cup Outputs[7]
         /\ Adds(RobustnessRows, s, {}, Outputs[18] \cup Outputs[19], {})
         /\ Emitted(RobustnessRows) = Outputs[18] \cup Outputs[19]
<1>1. /\ PowerRows = Rows(PowerIds) /\ PrepRows = Rows(PrepIds)
      /\ AssumptionsRows = Rows(AssumptionsIds) /\ RobustnessRows = Rows(RobustnessIds)
  BY DEF PowerRows, PrepRows, AssumptionsRows, RobustnessRows, PowerIds, PrepIds,
         AssumptionsIds, RobustnessIds
<1>2. Adds(PowerRows, s, {}, Outputs[1], {}) /\ Emitted(PowerRows) = Outputs[1]
  BY <1>1, FixedFamilies, RowsAdd
<1>3. /\ Adds(PrepRows, s, {}, Outputs[2] \cup Outputs[3] \cup Outputs[4], {})
      /\ Emitted(PrepRows) = Outputs[2] \cup Outputs[3] \cup Outputs[4]
  BY <1>1, FixedFamilies, RowsAdd
<1>4. /\ Adds(AssumptionsRows, s, {}, Outputs[5] \cup Outputs[6] \cup Outputs[7], {})
      /\ Emitted(AssumptionsRows) = Outputs[5] \cup Outputs[6] \cup Outputs[7]
  BY <1>1, FixedFamilies, RowsAdd
<1>5. /\ Adds(RobustnessRows, s, {}, Outputs[18] \cup Outputs[19], {})
      /\ Emitted(RobustnessRows) = Outputs[18] \cup Outputs[19]
  BY <1>1, FixedFamilies, RowsAdd
<1> QED
  BY <1>2, <1>3, <1>4, <1>5

(* What the measurement stage emits before it assesses common method bias. *)
MeasurementFamilies ==
  {<<"measurement", "spec">>, <<"measurement", "loadings">>} \cup Outputs[10] \cup Outputs[11]
    \cup {<<"measurement", "item_deletion">>}

LEMMA MeasurementRowsAdd ==
  ASSUME NEW s \in Study
  PROVE  /\ Adds(MeasurementRows(s), s, {}, MeasurementFamilies, {})
         /\ Outputs[8] \cup Outputs[9] \cup Outputs[10] \cup Outputs[13]
              \subseteq Emitted(MeasurementRows(s))
         /\ Len(s.constructs) < 2 \/ Outputs[11] \subseteq Emitted(MeasurementRows(s))
<1>1. /\ Outputs[8] = {<<"measurement", "spec">>, <<"measurement", "loadings">>}
      /\ Outputs[9] = {<<"measurement", "loadings">>}
      /\ Outputs[10] = {<<"measurement", "reliability">>, <<"measurement", "convergent">>}
      /\ Outputs[11] = {<<"measurement", "discriminant">>}
      /\ Outputs[13] = {<<"measurement", "item_deletion">>}
  BY DEF Outputs
<1>2. PICK a : a = <<Bare("measurement", "spec")>>
  OBVIOUS
<1>3. /\ OfFamilies(a, s, {<<"measurement", "spec">>})
      /\ FamiliesOf(a) = {<<"measurement", "spec">>}
  <2>1. Family(Bare("measurement", "spec")) = <<"measurement", "spec">>
    BY DEF Family, Bare
  <2> QED
    BY <1>2, <2>1, MeasurementIds, OneRow
<1>4. PICK e : e = <<Bare("measurement", "item_deletion")>>
  OBVIOUS
<1>5. /\ OfFamilies(e, s, {<<"measurement", "item_deletion">>})
      /\ FamiliesOf(e) = {<<"measurement", "item_deletion">>}
  <2>1. Family(Bare("measurement", "item_deletion")) = <<"measurement", "item_deletion">>
    BY DEF Family, Bare
  <2> QED
    BY <1>4, <2>1, MeasurementIds, OneRow
<1>6. PICK b, c, d : b = LoadingIds(s) /\ c = ValidityIds(s) /\ d = DiscriminantIds(s)
  OBVIOUS
<1>7. /\ OfFamilies(b, s, {<<"measurement", "loadings">>})
      /\ FamiliesOf(b) = {<<"measurement", "loadings">>}
      /\ OfFamilies(c, s, Outputs[10]) /\ FamiliesOf(c) = Outputs[10]
      /\ OfFamilies(d, s, Outputs[11])
      /\ Len(s.constructs) < 2 \/ FamiliesOf(d) = Outputs[11]
  BY <1>6, LoadingFamily, ValidityFamilies, DiscriminantFamily
<1>f. PICK fa, fb, fc, fd, fe :
        /\ fa = {<<"measurement", "spec">>} /\ fb = {<<"measurement", "loadings">>}
        /\ fc = Outputs[10] /\ fd = Outputs[11] /\ fe = {<<"measurement", "item_deletion">>}
  OBVIOUS
<1>g. /\ Apart(fa, fb) /\ Apart(fa \cup fb, fc) /\ Apart((fa \cup fb) \cup fc, fd)
      /\ Apart(((fa \cup fb) \cup fc) \cup fd, fe)
  BY <1>1, <1>f DEF Apart
<1>h. /\ OfFamilies(a, s, fa) /\ OfFamilies(b, s, fb) /\ OfFamilies(c, s, fc)
      /\ OfFamilies(d, s, fd) /\ OfFamilies(e, s, fe)
  BY <1>3, <1>5, <1>7, <1>f
<1>8. PICK ab : ab = a \o b
  OBVIOUS
<1>9. OfFamilies(ab, s, fa \cup fb) /\ FamiliesOf(ab) = FamiliesOf(a) \cup FamiliesOf(b)
  <2>1. OfFamilies(ab, s, fa \cup fb)
    BY <1>8, <1>g, <1>h, FamiliesJoin
  <2>2. FamiliesOf(ab) = FamiliesOf(a) \cup FamiliesOf(b)
    BY <1>8, <1>h, FamiliesUnion
  <2> QED
    BY <2>1, <2>2
<1>10. PICK abc : abc = ab \o c
  OBVIOUS
<1>11. /\ OfFamilies(abc, s, (fa \cup fb) \cup fc)
       /\ FamiliesOf(abc) = FamiliesOf(ab) \cup FamiliesOf(c)
  <2>1. OfFamilies(abc, s, (fa \cup fb) \cup fc)
    BY <1>9, <1>10, <1>g, <1>h, FamiliesJoin
  <2>2. FamiliesOf(abc) = FamiliesOf(ab) \cup FamiliesOf(c)
    BY <1>9, <1>10, <1>h, FamiliesUnion
  <2> QED
    BY <2>1, <2>2
<1>12. PICK abcd : abcd = abc \o d
  OBVIOUS
<1>13. /\ OfFamilies(abcd, s, ((fa \cup fb) \cup fc) \cup fd)
       /\ FamiliesOf(abcd) = FamiliesOf(abc) \cup FamiliesOf(d)
  <2>1. OfFamilies(abcd, s, ((fa \cup fb) \cup fc) \cup fd)
    BY <1>11, <1>12, <1>g, <1>h, FamiliesJoin
  <2>2. FamiliesOf(abcd) = FamiliesOf(abc) \cup FamiliesOf(d)
    BY <1>11, <1>12, <1>h, FamiliesUnion
  <2> QED
    BY <2>1, <2>2
<1>14. PICK ids : ids = abcd \o e
  OBVIOUS
<1>15. OfFamilies(ids, s, MeasurementFamilies) /\ FamiliesOf(ids) = FamiliesOf(abcd) \cup FamiliesOf(e)
  <2>1. OfFamilies(ids, s, (((fa \cup fb) \cup fc) \cup fd) \cup fe)
    BY <1>13, <1>14, <1>g, <1>h, FamiliesJoin
  <2>3. FamiliesOf(ids) = FamiliesOf(abcd) \cup FamiliesOf(e)
    BY <1>13, <1>14, <1>h, FamiliesUnion
  <2>2. (((fa \cup fb) \cup fc) \cup fd) \cup fe = MeasurementFamilies
    BY <1>f DEF MeasurementFamilies
  <2> QED
    BY <2>1, <2>2, <2>3
<1>16. MeasurementRows(s) = Rows(ids)
  BY <1>2, <1>4, <1>6, <1>8, <1>10, <1>12, <1>14, RowsByFamily
<1>17. Adds(Rows(ids), s, {}, MeasurementFamilies, {}) /\ Emitted(Rows(ids)) = FamiliesOf(ids)
  BY <1>15, RowsAdd
<1>18. FamiliesOf(a) \cup FamiliesOf(b) \cup FamiliesOf(c) \cup FamiliesOf(d) \cup FamiliesOf(e)
         \subseteq Emitted(MeasurementRows(s))
  BY <1>9, <1>11, <1>13, <1>15, <1>16, <1>17
<1> HIDE DEF Outputs
<1>19. /\ Outputs[8] \cup Outputs[9] \cup Outputs[10] \cup Outputs[13]
            \subseteq Emitted(MeasurementRows(s))
       /\ Len(s.constructs) < 2 \/ Outputs[11] \subseteq Emitted(MeasurementRows(s))
  <2>1. /\ Outputs[8] = FamiliesOf(a) \cup FamiliesOf(b) /\ Outputs[9] = FamiliesOf(b)
        /\ Outputs[10] = FamiliesOf(c) /\ Outputs[13] = FamiliesOf(e)
        /\ Len(s.constructs) < 2 \/ Outputs[11] = FamiliesOf(d)
    BY <1>1, <1>3, <1>5, <1>7
  <2> QED
    BY <1>18, <2>1
<1> QED
  BY <1>16, <1>17, <1>19

LEMMA StructuralRowsAdd ==
  ASSUME NEW s \in Study, s.direct # <<>>
  PROVE  /\ Adds(StructuralRows(s), s, {}, Outputs[15] \cup Outputs[16], {})
         /\ Emitted(StructuralRows(s)) = Outputs[15] \cup Outputs[16]
<1>1. /\ Outputs[15] = {<<"structural", "fit">>}
      /\ Outputs[16] = {<<"structural", "path">>} \cup {<<"structural", "r_squared">>}
  BY DEF Outputs
<1>2. PICK a, b, c : a = FitIds /\ b = PathIds(s) /\ c = SquareIds(s)
  OBVIOUS
<1>3. /\ OfFamilies(a, s, {<<"structural", "fit">>}) /\ FamiliesOf(a) = {<<"structural", "fit">>}
      /\ OfFamilies(b, s, {<<"structural", "path">>}) /\ FamiliesOf(b) = {<<"structural", "path">>}
      /\ OfFamilies(c, s, {<<"structural", "r_squared">>})
      /\ FamiliesOf(c) = {<<"structural", "r_squared">>}
  BY <1>2, FitFamily, LinkFamilies, SquareFamily
<1>f. PICK fa, fb, fc :
        /\ fa = {<<"structural", "fit">>} /\ fb = {<<"structural", "path">>}
        /\ fc = {<<"structural", "r_squared">>}
  OBVIOUS
<1>g. /\ Apart(fa, fb) /\ Apart(fa \cup fb, fc)
      /\ (fa \cup fb) \cup fc = Outputs[15] \cup Outputs[16]
  BY <1>1, <1>f DEF Apart
<1>h. /\ OfFamilies(a, s, fa) /\ OfFamilies(b, s, fb) /\ OfFamilies(c, s, fc)
      /\ FamiliesOf(a) = fa /\ FamiliesOf(b) = fb /\ FamiliesOf(c) = fc
  BY <1>3, <1>f
<1>4. PICK ab : ab = a \o b
  OBVIOUS
<1>5. OfFamilies(ab, s, fa \cup fb) /\ FamiliesOf(ab) = fa \cup fb
  <2>1. OfFamilies(ab, s, fa \cup fb)
    BY <1>4, <1>g, <1>h, FamiliesJoin
  <2>2. FamiliesOf(ab) = FamiliesOf(a) \cup FamiliesOf(b)
    BY <1>4, <1>h, FamiliesUnion
  <2> QED
    BY <1>h, <2>1, <2>2
<1>6. PICK ids : ids = ab \o c
  OBVIOUS
<1>7. OfFamilies(ids, s, (fa \cup fb) \cup fc) /\ FamiliesOf(ids) = (fa \cup fb) \cup fc
  <2>1. OfFamilies(ids, s, (fa \cup fb) \cup fc)
    BY <1>5, <1>6, <1>g, <1>h, FamiliesJoin
  <2>2. FamiliesOf(ids) = FamiliesOf(ab) \cup FamiliesOf(c)
    BY <1>5, <1>6, <1>h, FamiliesUnion
  <2> QED
    BY <1>5, <1>h, <2>1, <2>2
<1>9. StructuralRows(s) = Rows(ids)
  BY <1>2, <1>4, <1>6, RowsByFamily
<1>10. OfFamilies(ids, s, Outputs[15] \cup Outputs[16]) /\ FamiliesOf(ids) = Outputs[15] \cup Outputs[16]
  BY <1>7, <1>g
<1> QED
  BY <1>9, <1>10, RowsAdd

LEMMA EffectsRowsAdd ==
  ASSUME NEW s \in Study
  PROVE  /\ Adds(EffectsRows(s), s, {}, Outputs[17], {})
         /\ Unevidenced(s, 17) \/ Outputs[17] \subseteq Emitted(EffectsRows(s))
<1> DEFINE F == {<<"effects", "indirect">>, <<"effects", "total">>, <<"effects", "classification">>}
<1>1. Outputs[17] = {<<"effects", "direct">>} \cup F /\ {<<"effects", "direct">>} \cap F = {}
  BY DEF Outputs
<1>2. PICK a, b : a = DirectIds(s) /\ b = EntriesAt(SlotIds(s), SlotsUsed(s))
  OBVIOUS
<1>3. OfFamilies(a, s, {<<"effects", "direct">>}) /\ OfFamilies(b, s, F)
  BY <1>2, LinkFamilies, SlotFamilies
<1>4. ASSUME ~Unevidenced(s, 17)
      PROVE  FamiliesOf(a) = {<<"effects", "direct">>} /\ FamiliesOf(b) = F
  <2>1. PICK i \in DOMAIN s.indirect : HasTotal(s, i)
    BY <1>4 DEF Unevidenced
  <2>2. s.direct # <<>>
    BY <2>1 DEF HasTotal, Has
  <2> QED
    BY <1>2, <2>1, <2>2, LinkFamilies, SlotFamilies
<1>5. PICK ids : ids = a \o b
  OBVIOUS
<1> HIDE DEF F
<1>6. OfFamilies(ids, s, {<<"effects", "direct">>} \cup F) /\ FamiliesOf(ids) = FamiliesOf(a) \cup FamiliesOf(b)
  <2>1. PICK fa : fa = {<<"effects", "direct">>}
    OBVIOUS
  <2>2. Apart(fa, F) /\ OfFamilies(a, s, fa)
    BY <1>1, <1>3, <2>1 DEF Apart
  <2>3. OfFamilies(ids, s, fa \cup F)
    BY <1>3, <1>5, <2>2, FamiliesJoin
  <2>4. FamiliesOf(ids) = FamiliesOf(a) \cup FamiliesOf(b)
    BY <1>3, <1>5, <2>2, FamiliesUnion
  <2> QED
    BY <2>1, <2>3, <2>4
<1>7. EffectsRows(s) = Rows(ids)
  BY <1>2, <1>5, RowsByFamily
<1>8. OfFamilies(ids, s, Outputs[17])
  BY <1>1, <1>6
<1>9. Adds(Rows(ids), s, {}, Outputs[17], {}) /\ Emitted(Rows(ids)) = FamiliesOf(ids)
  BY <1>8, RowsAdd
<1> QED
  BY <1>1, <1>4, <1>6, <1>7, <1>9

-----------------------------------------------------------------------------
(* The programs of the stages are tidy.                                    *)

Silent(t, s, names) == Adds(t, s, {}, {}, names) /\ Emitted(t) = {}

Emits(t, s, fams, names, out) == Adds(t, s, {}, fams, names) /\ out \subseteq Emitted(t)

LEMMA EmittedAdds ==
  ASSUME NEW s, NEW seen, NEW later, NEW fa, NEW fb, NEW na, NEW nb,
         NEW a, Adds(a, s, seen, fa, na), NEW b, Adds(b, s, later, fb, nb)
  PROVE  Emitted(a \o b) = Emitted(a) \cup Emitted(b)
<1>1. PICK S : S = Named(a) \cup Named(b)
  OBVIOUS
<1>2. Named(a) \subseteq S /\ Named(b) \subseteq S
  BY <1>1
<1>3. a \in Seq(Named(a)) /\ b \in Seq(Named(b))
  BY DEF Adds
<1>4. a \in Seq(S) /\ b \in Seq(S)
  BY <1>2, <1>3, NamedSeq
<1> QED
  BY <1>4, EmittedJoin

LEMMA EmitsJoin ==
  ASSUME NEW s, NEW fa, NEW fb, NEW na, NEW nb, NEW out, Apart(fa, fb), Apart(na, nb),
         NEW a, Emits(a, s, fa, na, out), NEW b, Adds(b, s, out, fb, nb)
  PROVE  Emits(a \o b, s, fa \cup fb, na \cup nb, out)
<1>1. Adds(a, s, {}, fa, na) /\ out \subseteq Emitted(a)
  BY DEF Emits
<1>2. \A f \in out : f \in {} \/ f \in Emitted(a)
  BY <1>1
<1>3. Adds(a \o b, s, {}, fa \cup fb, na \cup nb)
  BY <1>1, <1>2, AddsJoin
<1>4. Emitted(a \o b) = Emitted(a) \cup Emitted(b)
  BY <1>1, EmittedAdds
<1> QED
  BY <1>1, <1>3, <1>4 DEF Emits

LEMMA MarksAfter ==
  ASSUME NEW s, NEW fa, NEW na, NEW out,
         NEW a, Emits(a, s, fa, na, out), NEW b, Adds(b, s, out, {}, {})
  PROVE  Emits(a \o b, s, fa, na, out)
<1>1. Apart(fa, {}) /\ Apart(na, {}) /\ fa \cup {} = fa /\ na \cup {} = na
  BY DEF Apart
<1>2. Emits(a \o b, s, fa \cup {}, na \cup {}, out)
  BY <1>1, EmitsJoin
<1> QED
  BY <1>1, <1>2

LEMMA SilentFirst ==
  ASSUME NEW s, NEW fb, NEW na, NEW nb, NEW out, Apart(na, nb),
         NEW a, Silent(a, s, na), NEW b, Emits(b, s, fb, nb, out)
  PROVE  Emits(a \o b, s, fb, na \cup nb, out)
<1>1. Adds(a, s, {}, {}, na) /\ Emitted(a) = {} /\ Adds(b, s, {}, fb, nb) /\ out \subseteq Emitted(b)
  BY DEF Silent, Emits
<1>2. Apart({}, fb) /\ {} \cup fb = fb /\ \A f \in {} : f \in {} \/ f \in Emitted(a)
  BY DEF Apart
<1>3. Adds(a \o b, s, {}, {} \cup fb, na \cup nb)
  BY <1>1, <1>2, AddsJoin
<1>4. Emitted(a \o b) = Emitted(a) \cup Emitted(b)
  <2>1. PICK e : e = {}
    OBVIOUS
  <2>2. Adds(a, s, e, e, na) /\ Adds(b, s, e, fb, nb)
    BY <1>1, <2>1
  <2> QED
    BY <2>2, EmittedAdds
<1> QED
  BY <1>1, <1>2, <1>3, <1>4 DEF Emits

(* The calls of the first part, or of the second, if the other has none.   *)
LEMMA PlainFirst ==
  ASSUME NEW s, NEW fb, NEW nb, NEW out, NEW a, Silent(a, s, {}), NEW b, Emits(b, s, fb, nb, out)
  PROVE  Emits(a \o b, s, fb, nb, out)
<1>1. Apart({}, nb) /\ {} \cup nb = nb
  BY DEF Apart
<1>2. Emits(a \o b, s, fb, {} \cup nb, out)
  BY <1>1, SilentFirst
<1> QED
  BY <1>1, <1>2

LEMMA CallsFirst ==
  ASSUME NEW s, NEW fb, NEW na, NEW out, NEW a, Silent(a, s, na), NEW b, Emits(b, s, fb, {}, out)
  PROVE  Emits(a \o b, s, fb, na, out)
<1>1. Apart(na, {}) /\ na \cup {} = na
  BY DEF Apart
<1>2. Emits(a \o b, s, fb, na \cup {}, out)
  BY <1>1, SilentFirst
<1> QED
  BY <1>1, <1>2

LEMMA SilentPlain ==
  ASSUME NEW s, NEW na, NEW a, Silent(a, s, na), NEW b, Silent(b, s, {})
  PROVE  Silent(a \o b, s, na)
<1>1. Emits(a, s, {}, na, {}) /\ Adds(b, s, {}, {}, {}) /\ Adds(a, s, {}, {}, na)
  BY DEF Emits, Silent
<1>2. Emits(a \o b, s, {}, na, {})
  BY <1>1, MarksAfter
<1>3. Emitted(a \o b) = Emitted(a) \cup Emitted(b)
  BY <1>1, EmittedAdds
<1>4. Emitted(a \o b) = {}
  BY <1>3 DEF Silent
<1> QED
  BY <1>2, <1>4 DEF Emits, Silent

LEMMA EmitsTidy ==
  ASSUME NEW k, NEW s, NEW fams, NEW names, NEW out, NEW t, Emits(t, s, fams, names, out),
         \A f \in fams : f[1] = Pipeline[k], names \subseteq CallIds[k]
  PROVE  Tidy(t, k, s)
  BY AddsTidy DEF Emits

LEMMA SilentTidy ==
  ASSUME NEW k, NEW s, NEW t, Silent(t, s, {})
  PROVE  Tidy(t, k, s)
<1>1. Adds(t, s, {}, {}, {}) /\ {} \subseteq CallIds[k] /\ \A f \in {} : f[1] = Pipeline[k]
  BY DEF Silent
<1> QED
  BY <1>1, AddsTidy

(* What a sequence of steps of these kinds is.                             *)
LEMMA SilentSteps ==
  ASSUME NEW s, NEW S, NEW t \in Seq(S), \A x \in S : x.op \notin {"call", "row", "render", "mark"}
  PROVE  Silent(t, s, {})
<1>1. \A i \in DOMAIN t : t[i] \in S
  OBVIOUS
<1>2. Adds(t, s, {}, {}, {}) /\ Emitted(t) = {}
  BY <1>1, PlainAdds
<1> QED
  BY <1>2 DEF Silent

LEMMA SilentCalls ==
  ASSUME NEW s, NEW names, NEW S, NEW t \in Seq(S),
         \A x \in S : x.op \notin {"row", "render", "mark"},
         \A x \in S : x.op = "call" => x.what[1] \in names,
         DifferentCalls(t)
  PROVE  Silent(t, s, names)
<1>1. \A i \in DOMAIN t : t[i] \in S
  OBVIOUS
<1>2. /\ \A i \in DOMAIN t : t[i].op \notin {"mark", "row", "render"}
      /\ \A i \in DOMAIN t : t[i].op = "call" => t[i].what[1] \in names
  BY <1>1
<1>3. Adds(t, s, {}, {}, names) /\ Emitted(t) = {}
  BY <1>2, CallsAdd
<1> QED
  BY <1>3 DEF Silent

LEMMA SilentWrite == ASSUME NEW s, NEW a PROVE Silent(WriteArtifact(a), s, {})
  BY WriteAdds DEF Silent

(* The journal is opened and steps are marked, the statistics of which are *)
(* there.                                                                  *)
LEMMA MarksAdd ==
  ASSUME NEW s, NEW seen, NEW S, NEW t \in Seq(S),
         \A x \in S : \/ x.op = "journal"
                      \/ /\ x.op = "mark"
                         /\ x.what.status = "completed" =>
                              Unevidenced(s, x.what.step) \/ Outputs[x.what.step] \subseteq seen
  PROVE  Adds(t, s, seen, {}, {})
<1>1. \A i \in DOMAIN t : t[i] \in S
  OBVIOUS
<1>2. \A i \in DOMAIN t : t[i].op \notin {"call", "row", "render"}
  BY <1>1
<1>3. \A i \in DOMAIN t : t[i].op = "mark" /\ t[i].what.status = "completed" =>
           Unevidenced(s, t[i].what.step) \/ Outputs[t[i].what.step] \subseteq seen
  BY <1>1
<1> QED
  BY <1>2, <1>3, PlainAdds

LEMMA MarkKinds ==
  ASSUME NEW n, NEW st
  PROVE  /\ Mark(n, st).op = "mark" /\ Mark(n, st).what.step = n /\ Mark(n, st).what.status = st
         /\ Journal.op = "journal"
  BY DEF Mark, Journal

LEMMA OtherKinds ==
  ASSUME NEW a
  PROVE  /\ Read(a).op = "read" /\ Compute(a).op = "compute" /\ OpenLog(a).op = "log"
         /\ Decide(a).op = "decide" /\ Stop(a).op = "stop" /\ File(a).op = "file"
         /\ Row(a).op = "row" /\ Row(a).what = a
         /\ Call(a).op = "call" /\ Call(a).what = <<a, 0>> /\ Call(a).what[1] = a
         /\ \A m : CallNth(a, m).op = "call" /\ CallNth(a, m).what = <<a, m>>
  BY DEF Read, Compute, OpenLog, Decide, Stop, File, Row, Call, CallNth

LEMMA EarlyTidy ==
  ASSUME NEW s \in Study
  PROVE  Tidy(Ingest(s), 1, s) /\ Tidy(Contract(s), 2, s) /\ Tidy(Gate1(s), 3, s)
         /\ Tidy(StubGate2(s), 12, s)
<1>1. \A f : Silent(<<Compute(f)>>, s, {})
  <2>1. ASSUME NEW f PROVE Silent(<<Compute(f)>>, s, {})
    <3>1. PICK S : S = {Compute(f)}
      OBVIOUS
    <3>2. <<Compute(f)>> \in Seq(S) /\ \A x \in S : x.op \notin {"call", "row", "render", "mark"}
      BY <3>1, OtherKinds
    <3> QED
      BY <3>2, SilentSteps
  <2> QED
    BY <2>1
<1>2. Tidy(Ingest(s), 1, s)
  <2>1. Silent(<<Compute("read_export")>> \o WriteArtifact("ingest"), s, {})
    BY <1>1, SilentWrite, SilentPlain
  <2> QED
    BY <2>1, SilentTidy DEF Ingest
<1>3. Tidy(Contract(s), 2, s)
  <2>1. Silent(<<Compute("node_a")>> \o WriteArtifact("config"), s, {})
    BY <1>1, SilentWrite, SilentPlain
  <2> QED
    BY <2>1, SilentTidy DEF Contract
<1>4. Tidy(Gate1(s), 3, s)
  <2>1. PICK t : t = <<Read("config"), Compute("node_c")>>
    OBVIOUS
  <2>2. Silent(t, s, {})
    <3>1. PICK S : S = {Read("config"), Compute("node_c")}
      OBVIOUS
    <3>2. t \in Seq(S) /\ \A x \in S : x.op \notin {"call", "row", "render", "mark"}
      BY <2>1, <3>1, OtherKinds
    <3> QED
      BY <3>2, SilentSteps
  <2>3. PICK u : u = IF s.verdict = "approve" THEN <<>> ELSE <<Stop("HALTED_GATE")>>
    OBVIOUS
  <2>4. Silent(u, s, {})
    <3>1. PICK S : S = {Stop("HALTED_GATE")}
      OBVIOUS
    <3>2. u \in Seq(S) /\ \A x \in S : x.op \notin {"call", "row", "render", "mark"}
      BY <2>3, <3>1, OtherKinds
    <3> QED
      BY <3>2, SilentSteps
  <2>5. PICK w : w = t \o WriteArtifact("verdict1")
    OBVIOUS
  <2>6. Silent(w, s, {})
    BY <2>2, <2>5, SilentWrite, SilentPlain
  <2>7. Silent(w \o u, s, {})
    BY <2>4, <2>6, SilentPlain
  <2>8. Gate1(s) = w \o u
    BY <2>1, <2>3, <2>5 DEF Gate1
  <2> QED
    BY <2>7, <2>8, SilentTidy
<1>5. Tidy(StubGate2(s), 12, s)
  BY SilentWrite, SilentTidy DEF StubGate2
<1> QED
  BY <1>2, <1>3, <1>4, <1>5

(* The families and the calls of a stage carry its name.                   *)
LEMMA FamilyNames ==
  /\ \A f \in Outputs[1] : f[1] = Pipeline[4]
  /\ \A f \in Outputs[2] \cup Outputs[3] \cup Outputs[4] : f[1] = Pipeline[5]
  /\ \A f \in Outputs[5] \cup Outputs[6] \cup Outputs[7] : f[1] = Pipeline[6]
  /\ \A f \in MeasurementFamilies \cup Outputs[12] \cup Outputs[14] : f[1] = Pipeline[7]
  /\ \A f \in Outputs[15] \cup Outputs[16] : f[1] = Pipeline[8]
  /\ \A f \in Outputs[17] : f[1] = Pipeline[9]
  /\ \A f \in Outputs[18] \cup Outputs[19] : f[1] = Pipeline[10]
<1>1. /\ Pipeline[4] = "power" /\ Pipeline[5] = "prep" /\ Pipeline[6] = "assumptions"
      /\ Pipeline[7] = "measurement" /\ Pipeline[8] = "structural" /\ Pipeline[9] = "effects"
      /\ Pipeline[10] = "robustness"
  BY DEF Pipeline
<1>2. \A f \in Outputs[1] : f[1] = "power"
  BY DEF Outputs
<1>3. \A f \in Outputs[2] \cup Outputs[3] \cup Outputs[4] : f[1] = "prep"
  BY DEF Outputs
<1>4. \A f \in Outputs[5] \cup Outputs[6] \cup Outputs[7] : f[1] = "assumptions"
  BY DEF Outputs
<1>5. \A f \in MeasurementFamilies \cup Outputs[12] \cup Outputs[14] : f[1] = "measurement"
  BY DEF Outputs, MeasurementFamilies
<1>6. \A f \in Outputs[15] \cup Outputs[16] : f[1] = "structural"
  BY DEF Outputs
<1>7. \A f \in Outputs[17] : f[1] = "effects"
  BY DEF Outputs
<1>8. \A f \in Outputs[18] \cup Outputs[19] : f[1] = "robustness"
  BY DEF Outputs
<1> QED
  BY <1>1, <1>2, <1>3, <1>4, <1>5, <1>6, <1>7, <1>8

LEMMA TwoReadsSilent ==
  ASSUME NEW s, NEW a, NEW b
  PROVE  Silent(<<Read(a), Read(b)>>, s, {})
<1>1. PICK S : S = {Read(a), Read(b)}
  OBVIOUS
<1>2. <<Read(a), Read(b)>> \in Seq(S) /\ \A x \in S : x.op \notin {"call", "row", "render", "mark"}
  BY <1>1, OtherKinds
<1> QED
  BY <1>2, SilentSteps

LEMMA OneCallSilent ==
  ASSUME NEW s, NEW id
  PROVE  Silent(<<Call(id)>>, s, {id})
<1>1. PICK S : S = {Call(id)}
  OBVIOUS
<1>2. PICK t : t = <<Call(id)>>
  OBVIOUS
<1>3. t \in Seq(S) /\ \A x \in S : x.op = "call" /\ x.what[1] = id
  BY <1>1, <1>2, OtherKinds
<1>4. DifferentCalls(t)
  <2>1. DOMAIN t = {1}
    BY <1>2
  <2> QED
    BY <2>1 DEF DifferentCalls
<1> QED
  BY <1>2, <1>3, <1>4, SilentCalls

LEMMA PowerTidy == ASSUME NEW s \in Study PROVE Tidy(Power(s), 4, s)
<1>1. PICK t : t = <<Read("config"), Read("ingest")>>
  OBVIOUS
<1>2. Silent(t, s, {})
  BY <1>1, TwoReadsSilent
<1>3. CASE s.enough
  <2>1. PICK c : c = <<Call("power-montecarlo")>>
    OBVIOUS
  <2>2. Silent(c, s, {"power-montecarlo"})
    BY <2>1, OneCallSilent
  <2>3. Emits(PowerRows, s, Outputs[1], {}, Outputs[1])
    BY FixedRowsAdd DEF Emits
  <2>4. PICK j : j = <<Journal, Mark(1, "completed")>>
    OBVIOUS
  <2>5. Adds(j, s, Outputs[1], {}, {})
    <3>1. PICK S : S = {Journal, Mark(1, "completed")}
      OBVIOUS
    <3>2. j \in Seq(S)
      BY <2>4, <3>1
    <3>3. \A x \in S : \/ x.op = "journal"
                       \/ x.op = "mark" /\ Outputs[x.what.step] \subseteq Outputs[1]
      BY <3>1, MarkKinds
    <3> QED
      BY <3>2, <3>3, MarksAdd
  <2>6. PICK u : u = c \o PowerRows
    OBVIOUS
  <2>7. Emits(u, s, Outputs[1], {"power-montecarlo"}, Outputs[1])
    BY <2>2, <2>3, <2>6, CallsFirst
  <2>8. Emits(u \o j, s, Outputs[1], {"power-montecarlo"}, Outputs[1])
    BY <2>5, <2>7, MarksAfter
  <2>9. Emits(t \o (u \o j), s, Outputs[1], {"power-montecarlo"}, Outputs[1])
    BY <1>2, <2>8, PlainFirst
  <2>10. Power(s) = t \o (u \o j)
    BY <1>1, <1>3, <2>1, <2>4, <2>6 DEF Power
  <2>11. {"power-montecarlo"} \subseteq CallIds[4]
    BY DEF CallIds
  <2> QED
    BY <2>9, <2>10, <2>11, FamilyNames, EmitsTidy
<1>4. CASE ~s.enough
  <2>1. PICK x : x = <<Stop("COMPLETED_TO_BOUNDARY")>>
    OBVIOUS
  <2>2. Silent(x, s, {})
    <3>1. PICK S : S = {Stop("COMPLETED_TO_BOUNDARY")}
      OBVIOUS
    <3>2. x \in Seq(S) /\ \A y \in S : y.op \notin {"call", "row", "render", "mark"}
      BY <2>1, <3>1, OtherKinds
    <3> QED
      BY <3>2, SilentSteps
  <2>3. Silent(WriteArtifact("advisory") \o x, s, {})
    BY <2>2, SilentWrite, SilentPlain
  <2>4. Silent(t \o (WriteArtifact("advisory") \o x), s, {})
    BY <1>2, <2>3, SilentPlain
  <2>5. Power(s) = t \o (WriteArtifact("advisory") \o x)
    BY <1>1, <1>4, <2>1 DEF Power
  <2> QED
    BY <2>4, <2>5, SilentTidy
<1> QED
  BY <1>3, <1>4

LEMMA PrepTidy == ASSUME NEW s \in Study PROVE Tidy(Prep(s), 5, s)
<1>o. PICK out : out = Outputs[2] \cup Outputs[3] \cup Outputs[4]
  OBVIOUS
<1>1. PICK t : t = <<Read("config"), Compute("run_prep")>>
  OBVIOUS
<1>2. Silent(t, s, {})
  <2>1. PICK S : S = {Read("config"), Compute("run_prep")}
    OBVIOUS
  <2>2. t \in Seq(S) /\ \A x \in S : x.op \notin {"call", "row", "render", "mark"}
    BY <1>1, <2>1, OtherKinds
  <2> QED
    BY <2>2, SilentSteps
<1>3. PICK v : v = t \o WriteArtifact("frame")
  OBVIOUS
<1>4. Silent(v, s, {})
  BY <1>2, <1>3, SilentWrite, SilentPlain
<1>5. Emits(PrepRows, s, out, {}, out)
  BY <1>o, FixedRowsAdd DEF Emits
<1>6. PICK j : j = <<Journal, Mark(2, "completed"), Mark(3, "completed"), Mark(4, "completed")>>
  OBVIOUS
<1>7. Adds(j, s, out, {}, {})
  <2>1. PICK S : S = {Journal, Mark(2, "completed"), Mark(3, "completed"), Mark(4, "completed")}
    OBVIOUS
  <2>2. j \in Seq(S)
    BY <1>6, <2>1
  <2>3. \A x \in S : \/ x.op = "journal"
                     \/ x.op = "mark" /\ Outputs[x.what.step] \subseteq out
    BY <1>o, <2>1, MarkKinds
  <2> QED
    BY <2>2, <2>3, MarksAdd
<1>8. PICK u : u = v \o PrepRows
  OBVIOUS
<1>9. Emits(u, s, out, {}, out)
  BY <1>4, <1>5, <1>8, PlainFirst
<1>10. Emits(u \o j, s, out, {}, out)
  BY <1>7, <1>9, MarksAfter
<1>11. Prep(s) = u \o j
  BY <1>1, <1>3, <1>6, <1>8 DEF Prep
<1>12. \A f \in out : f[1] = Pipeline[5]
  BY <1>o, FamilyNames
<1> QED
  BY <1>10, <1>11, <1>12, EmitsTidy

LEMMA AssumptionsTidy == ASSUME NEW s \in Study PROVE Tidy(Assumptions(s), 6, s)
<1>o. PICK out : out = Outputs[5] \cup Outputs[6] \cup Outputs[7]
  OBVIOUS
<1>1. PICK t : t = <<Read("frame"), OpenLog(1), Compute("estimator_determination"), Decide(1)>>
  OBVIOUS
<1>2. Silent(t, s, {})
  <2>1. PICK S : S = {Read("frame"), OpenLog(1), Compute("estimator_determination"), Decide(1)}
    OBVIOUS
  <2>2. t \in Seq(S) /\ \A x \in S : x.op \notin {"call", "row", "render", "mark"}
    BY <1>1, <2>1, OtherKinds
  <2> QED
    BY <2>2, SilentSteps
<1>5. Emits(AssumptionsRows, s, out, {}, out)
  BY <1>o, FixedRowsAdd DEF Emits
<1>6. PICK j : j = <<Journal, Mark(5, "completed"), Mark(6, "completed"), Mark(7, "completed")>>
  OBVIOUS
<1>7. Adds(j, s, out, {}, {})
  <2>1. PICK S : S = {Journal, Mark(5, "completed"), Mark(6, "completed"), Mark(7, "completed")}
    OBVIOUS
  <2>2. j \in Seq(S)
    BY <1>6, <2>1
  <2>3. \A x \in S : \/ x.op = "journal"
                     \/ x.op = "mark" /\ Outputs[x.what.step] \subseteq out
    BY <1>o, <2>1, MarkKinds
  <2> QED
    BY <2>2, <2>3, MarksAdd
<1>8. PICK u : u = t \o AssumptionsRows
  OBVIOUS
<1>9. Emits(u, s, out, {}, out)
  BY <1>2, <1>5, <1>8, PlainFirst
<1>10. Emits(u \o j, s, out, {}, out)
  BY <1>7, <1>9, MarksAfter
<1>11. Assumptions(s) = u \o j
  BY <1>1, <1>6, <1>8 DEF Assumptions
<1>12. \A f \in out : f[1] = Pipeline[6]
  BY <1>o, FamilyNames
<1> QED
  BY <1>10, <1>11, <1>12, EmitsTidy

(* A stage that calls, writes, emits and marks, or stops.                  *)
LEMMA CallWriteEmit ==
  ASSUME NEW s, NEW k, NEW id, NEW a, NEW rows, NEW fams, NEW out, Emits(rows, s, fams, {}, out),
         NEW j, Adds(j, s, out, {}, {}), NEW t, Silent(t, s, {}),
         \A f \in fams : f[1] = Pipeline[k], {id} \subseteq CallIds[k]
  PROVE  Tidy(t \o (((<<Call(id)>> \o WriteArtifact(a)) \o rows) \o j), k, s)
<1>1. PICK v : v = <<Call(id)>> \o WriteArtifact(a)
  OBVIOUS
<1>2. Silent(v, s, {id})
  BY <1>1, OneCallSilent, SilentWrite, SilentPlain
<1>3. PICK u : u = v \o rows
  OBVIOUS
<1>4. Emits(u, s, fams, {id}, out)
  BY <1>2, <1>3, CallsFirst
<1>5. Emits(u \o j, s, fams, {id}, out)
  BY <1>4, MarksAfter
<1>6. Emits(t \o (u \o j), s, fams, {id}, out)
  BY <1>5, PlainFirst
<1> QED
  BY <1>1, <1>3, <1>6, EmitsTidy

LEMMA StopTidy ==
  ASSUME NEW s, NEW k, NEW t, Silent(t, s, {}), NEW state
  PROVE  Tidy(t \o <<Stop(state)>>, k, s)
<1>1. PICK x : x = <<Stop(state)>>
  OBVIOUS
<1>2. Silent(x, s, {})
  <2>1. PICK S : S = {Stop(state)}
    OBVIOUS
  <2>2. x \in Seq(S) /\ \A y \in S : y.op \notin {"call", "row", "render", "mark"}
    BY <1>1, <2>1, OtherKinds
  <2> QED
    BY <2>2, SilentSteps
<1>3. Silent(t \o x, s, {})
  BY <1>2, SilentPlain
<1> QED
  BY <1>1, <1>3, SilentTidy

LEMMA StructuralTidy == ASSUME NEW s \in Study PROVE Tidy(Structural(s), 8, s)
<1>o. PICK out : out = Outputs[15] \cup Outputs[16]
  OBVIOUS
<1>1. PICK t : t = <<Read("frame"), Read("config")>>
  OBVIOUS
<1>2. Silent(t, s, {})
  BY <1>1, TwoReadsSilent
<1>3. CASE s.direct # <<>>
  <2>1. PICK rows : rows = StructuralRows(s)
    OBVIOUS
  <2>2. Emits(rows, s, out, {}, out)
    BY <1>3, <1>o, <2>1, StructuralRowsAdd DEF Emits
  <2>3. PICK j : j = <<Journal, Mark(15, "completed"), Mark(16, "completed")>>
    OBVIOUS
  <2>4. Adds(j, s, out, {}, {})
    <3>1. PICK S : S = {Journal, Mark(15, "completed"), Mark(16, "completed")}
      OBVIOUS
    <3>2. j \in Seq(S)
      BY <2>3, <3>1
    <3>3. \A x \in S : \/ x.op = "journal"
                       \/ x.op = "mark" /\ Outputs[x.what.step] \subseteq out
      BY <1>o, <3>1, MarkKinds
    <3> QED
      BY <3>2, <3>3, MarksAdd
  <2>5. \A f \in out : f[1] = Pipeline[8]
    BY <1>o, FamilyNames
  <2>6. {"structural"} \subseteq CallIds[8]
    BY DEF CallIds
  <2>7. Structural(s) =
          t \o (((<<Call("structural")>> \o WriteArtifact("structural")) \o rows) \o j)
    BY <1>1, <1>3, <2>1, <2>3 DEF Structural
  <2>8. Tidy(t \o (((<<Call("structural")>> \o WriteArtifact("structural")) \o rows) \o j), 8, s)
    BY <1>2, <2>2, <2>4, <2>5, <2>6, CallWriteEmit
  <2> QED
    BY <2>7, <2>8
<1>4. CASE s.direct = <<>>
  <2>1. Structural(s) = t \o <<Stop("HALTED_INTEGRITY")>>
    BY <1>1, <1>4 DEF Structural
  <2> QED
    BY <1>2, <2>1, StopTidy
<1> QED
  BY <1>3, <1>4

LEMMA EffectsTidy == ASSUME NEW s \in Study PROVE Tidy(Effects(s), 9, s)
<1>o. PICK out : out = IF Unevidenced(s, 17) THEN {} ELSE Outputs[17]
  OBVIOUS
<1>1. PICK t : t = <<Read("frame"), Read("config")>>
  OBVIOUS
<1>2. Silent(t, s, {})
  BY <1>1, TwoReadsSilent
<1>3. CASE s.indirect # <<>>
  <2>1. PICK rows : rows = EffectsRows(s)
    OBVIOUS
  <2>2. Emits(rows, s, Outputs[17], {}, out)
    BY <1>o, <2>1, EffectsRowsAdd DEF Emits
  <2>3. PICK j : j = <<Journal, Mark(17, "completed")>>
    OBVIOUS
  <2>4. Adds(j, s, out, {}, {})
    <3>1. PICK S : S = {Journal, Mark(17, "completed")}
      OBVIOUS
    <3>2. j \in Seq(S)
      BY <2>3, <3>1
    <3>3. \A x \in S : \/ x.op = "journal"
                       \/ x.op = "mark" /\ (Unevidenced(s, x.what.step)
                                              \/ Outputs[x.what.step] \subseteq out)
      BY <1>o, <3>1, MarkKinds
    <3> QED
      BY <3>2, <3>3, MarksAdd
  <2>5. \A f \in Outputs[17] : f[1] = Pipeline[9]
    BY FamilyNames
  <2>6. {"effects"} \subseteq CallIds[9]
    BY DEF CallIds
  <2>7. Effects(s) =
          t \o (((<<Call("effects")>> \o WriteArtifact("effects")) \o rows) \o j)
    BY <1>1, <1>3, <2>1, <2>3 DEF Effects
  <2>8. Tidy(t \o (((<<Call("effects")>> \o WriteArtifact("effects")) \o rows) \o j), 9, s)
    BY <1>2, <2>2, <2>4, <2>5, <2>6, CallWriteEmit
  <2> QED
    BY <2>7, <2>8
<1>4. CASE s.indirect = <<>>
  <2>1. Effects(s) = t \o <<Stop("HALTED_INTEGRITY")>>
    BY <1>1, <1>4 DEF Effects
  <2> QED
    BY <1>2, <2>1, StopTidy
<1> QED
  BY <1>3, <1>4

LEMMA RobustnessTidy == ASSUME NEW s \in Study PROVE Tidy(Robustness(s), 10, s)
<1>o. PICK out : out = Outputs[18] \cup Outputs[19]
  OBVIOUS
<1>1. PICK t : t = <<Read("frame"), Read("config"), Call("robustness-alternatives-retained"),
                     Call("robustness-alternatives-reversed_paths"), Read("frame")>>
  OBVIOUS
<1>2. Silent(t, s, CallIds[10])
  <2>1. PICK S : S = {Read("frame"), Read("config"), Call("robustness-alternatives-retained"),
                      Call("robustness-alternatives-reversed_paths")}
    OBVIOUS
  <2>2. t \in Seq(S)
    BY <1>1, <2>1
  <2>3. CallIds[10] = {"robustness-alternatives-retained", "robustness-alternatives-reversed_paths"}
    BY DEF CallIds
  <2>4. /\ \A x \in S : x.op \notin {"row", "render", "mark"}
        /\ \A x \in S : x.op = "call" => x.what[1] \in CallIds[10]
    BY <2>1, <2>3, OtherKinds
  <2>5. DifferentCalls(t)
    <3>1. /\ DOMAIN t = 1..5 /\ t[1] = Read("frame") /\ t[2] = Read("config")
          /\ t[3] = Call("robustness-alternatives-retained")
          /\ t[4] = Call("robustness-alternatives-reversed_paths") /\ t[5] = Read("frame")
      BY <1>1
    <3>2. /\ t[1].op = "read" /\ t[2].op = "read" /\ t[5].op = "read"
          /\ t[3].what[1] = "robustness-alternatives-retained"
          /\ t[4].what[1] = "robustness-alternatives-reversed_paths"
      BY <3>1, OtherKinds
    <3> QED
      BY <3>1, <3>2 DEF DifferentCalls
  <2> QED
    BY <2>2, <2>4, <2>5, SilentCalls
<1>5. Emits(RobustnessRows, s, out, {}, out)
  BY <1>o, FixedRowsAdd DEF Emits
<1>6. PICK j : j = <<Journal, Mark(18, "completed"), Mark(19, "completed")>>
  OBVIOUS
<1>7. Adds(j, s, out, {}, {})
  <2>1. PICK S : S = {Journal, Mark(18, "completed"), Mark(19, "completed")}
    OBVIOUS
  <2>2. j \in Seq(S)
    BY <1>6, <2>1
  <2>3. \A x \in S : \/ x.op = "journal"
                     \/ x.op = "mark" /\ Outputs[x.what.step] \subseteq out
    BY <1>o, <2>1, MarkKinds
  <2> QED
    BY <2>2, <2>3, MarksAdd
<1>8. PICK u : u = t \o RobustnessRows
  OBVIOUS
<1>9. Emits(u, s, out, CallIds[10], out)
  BY <1>2, <1>5, <1>8, CallsFirst
<1>10. Emits(u \o j, s, out, CallIds[10], out)
  BY <1>7, <1>9, MarksAfter
<1>11. Robustness(s) = u \o j
  BY <1>1, <1>6, <1>8 DEF Robustness
<1>12. \A f \in out : f[1] = Pipeline[10]
  BY <1>o, FamilyNames
<1>13. CallIds[10] \subseteq CallIds[10]
  OBVIOUS
<1> QED
  BY <1>10, <1>11, <1>12, <1>13, EmitsTidy

(* Marks that only flag need no statistics.                                *)
LEMMA NarrateTidy == ASSUME NEW s \in Study PROVE Tidy(StubNarrate(s), 11, s)
<1>1. PICK w : w = WriteArtifact("draft")
  OBVIOUS
<1>2. PICK j : j = <<Journal, Mark(20, "flagged")>>
  OBVIOUS
<1>3. Adds(j, s, {}, {}, {})
  <2>1. PICK S : S = {Journal, Mark(20, "flagged")}
    OBVIOUS
  <2>2. j \in Seq(S)
    BY <1>2, <2>1
  <2>3. \A x \in S : x.op = "journal" \/ (x.op = "mark" /\ x.what.status # "completed")
    BY <2>1, MarkKinds
  <2> QED
    BY <2>2, <2>3, MarksAdd
<1>4. Emits(w, s, {}, {}, {})
  BY <1>1, SilentWrite DEF Emits, Silent
<1>5. Emits(w \o j, s, {}, {}, {})
  BY <1>3, <1>4, MarksAfter
<1>6. StubNarrate(s) = w \o j
  BY <1>1, <1>2 DEF StubNarrate
<1>7. (\A f \in {} : f[1] = Pipeline[11]) /\ {} \subseteq CallIds[11]
  OBVIOUS
<1> QED
  BY <1>5, <1>6, <1>7, EmitsTidy

LEMMA PackageTidy == ASSUME NEW s \in Study PROVE Tidy(StubPackage(s), 13, s)
<1>1. PICK t : t = <<Journal, Mark(21, "flagged"), Render, File("checklist")>>
  OBVIOUS
<1>2. PICK w : w = WriteArtifact("package")
  OBVIOUS
<1>3. PICK u : u = t \o w
  OBVIOUS
<1>4. StubPackage(s) = u
  BY <1>1, <1>2, <1>3 DEF StubPackage
<1>5. PICK S : S = {Journal, Mark(21, "flagged"), Render, File("checklist"),
                    File("package"), Record("package")}
  OBVIOUS
<1>6. /\ t \in Seq(S) /\ DOMAIN t = 1..4 /\ Len(t) = 4 /\ t[1] = Journal
      /\ t[2] = Mark(21, "flagged") /\ t[3] = Render /\ t[4] = File("checklist")
  BY <1>1, <1>5
<1>7. /\ w \in Seq(S) /\ DOMAIN w = {1, 2} /\ w[1] = File("package") /\ w[2] = Record("package")
  BY <1>2, <1>5 DEF WriteArtifact
<1>8. \A i \in DOMAIN u : \/ i \in DOMAIN t /\ u[i] = t[i]
                          \/ i > Len(t) /\ i - Len(t) \in DOMAIN w /\ u[i] = w[i - Len(t)]
  <2>1. t \in Seq(S) /\ w \in Seq(S)
    BY <1>6, <1>7
  <2>2. \A i \in DOMAIN (t \o w) :
           \/ i \in DOMAIN t /\ (t \o w)[i] = t[i]
           \/ i > Len(t) /\ i - Len(t) \in DOMAIN w /\ (t \o w)[i] = w[i - Len(t)]
    BY <2>1, Joined
  <2> QED
    BY <1>3, <2>2
<1>9. /\ Journal.op = "journal" /\ Mark(21, "flagged").op = "mark"
      /\ Mark(21, "flagged").what.status = "flagged" /\ Render.op = "render"
      /\ File("checklist").op = "file" /\ File("package").op = "file"
      /\ Record("package").op = "record"
  BY DEF Journal, Mark, Render, File, Record
<1>10. \A i \in DOMAIN t : t[i].op \notin {"call", "row"} /\ (t[i].op = "mark" => t[i].what.status = "flagged")
  BY <1>6, <1>9
<1>11. \A i \in DOMAIN w : w[i].op \in {"file", "record"}
  BY <1>7, <1>9
<1>12. \A i \in DOMAIN u :
         u[i].op \notin {"call", "row"} /\ (u[i].op = "mark" => u[i].what.status = "flagged")
  BY <1>8, <1>10, <1>11
<1>13. RenderLast(u, 13)
  <2>1. SUFFICES ASSUME NEW i \in DOMAIN u, u[i].op = "render", NEW j \in DOMAIN u, j > i
                 PROVE  u[j].op \notin {"mark", "stop"}
    BY DEF RenderLast
  <2>2. i \in DOMAIN t /\ u[i] = t[i]
    BY <1>8, <1>11, <2>1
  <2>3. i = 3
    BY <1>6, <1>9, <2>1, <2>2
  <2>4. j \in DOMAIN t /\ u[j] = t[j] => j = 4
    BY <1>6, <2>1, <2>3
  <2> QED
    BY <1>6, <1>8, <1>9, <1>11, <2>4
<1>14. DifferentCalls(u) /\ DifferentRows(u) /\ Backed(u, {}, s)
  BY <1>12 DEF DifferentCalls, DifferentRows, Backed
<1> QED
  BY <1>4, <1>12, <1>13, <1>14 DEF Tidy

(* What was seen can be more.                                              *)
LEMMA AddsMore ==
  ASSUME NEW t, NEW s, NEW seen, NEW fams, NEW names, Adds(t, s, {}, fams, names)
  PROVE  Adds(t, s, seen, fams, names)
<1>1. Backed(t, {}, s)
  BY DEF Adds
<1>2. Backed(t, seen, s)
  BY <1>1 DEF Backed
<1> QED
  BY <1>2 DEF Adds

(* A statistic and the mark it backs.                                      *)
LEMMA RowMark ==
  ASSUME NEW s, NEW r, NEW n, Outputs[n] = {Family(r)}
  PROVE  Emits(<<Row(r), Mark(n, "completed")>>, s, {Family(r)}, {}, {})
<1>1. PICK t : t = <<Row(r), Mark(n, "completed")>>
  OBVIOUS
<1>2. /\ DOMAIN t = {1, 2} /\ t[1].op = "row" /\ t[1].what = r /\ t[2].op = "mark"
      /\ t[2].what.step = n
  BY <1>1, OtherKinds, MarkKinds
<1>3. t \in Seq(Named(t))
  <2>1. PICK S : S = {Row(r), Mark(n, "completed")}
    OBVIOUS
  <2>2. t \in Seq(S)
    BY <1>1, <2>1
  <2> QED
    BY <2>2, NamedSeq
<1>4. DifferentCalls(t) /\ DifferentRows(t)
  BY <1>2 DEF DifferentCalls, DifferentRows
<1>5. Backed(t, {}, s)
  <2>1. EmittedBefore(t, 2, Family(r))
    BY <1>2 DEF EmittedBefore
  <2> QED
    BY <1>2, <2>1 DEF Backed
<1>6. Adds(t, s, {}, {Family(r)}, {})
  BY <1>2, <1>3, <1>4, <1>5 DEF Adds
<1> QED
  BY <1>1, <1>6 DEF Emits

LEMMA CallRowMark ==
  ASSUME NEW s, NEW id, NEW r, NEW n, Outputs[n] = {Family(r)}
  PROVE  Adds(<<Call(id), Row(r), Mark(n, "completed")>>, s, {}, {Family(r)}, {id})
<1>1. PICK t : t = <<Call(id), Row(r), Mark(n, "completed")>>
  OBVIOUS
<1>2. /\ DOMAIN t = {1, 2, 3} /\ t[1].op = "call" /\ t[1].what[1] = id
      /\ t[2].op = "row" /\ t[2].what = r /\ t[3].op = "mark" /\ t[3].what.step = n
  BY <1>1, OtherKinds, MarkKinds
<1>3. t \in Seq(Named(t))
  <2>1. PICK S : S = {Call(id), Row(r), Mark(n, "completed")}
    OBVIOUS
  <2>2. t \in Seq(S)
    BY <1>1, <2>1
  <2> QED
    BY <2>2, NamedSeq
<1>4. DifferentCalls(t) /\ DifferentRows(t)
  BY <1>2 DEF DifferentCalls, DifferentRows
<1>5. Backed(t, {}, s)
  <2>1. EmittedBefore(t, 3, Family(r))
    BY <1>2 DEF EmittedBefore
  <2> QED
    BY <1>2, <2>1 DEF Backed
<1>6. Adds(t, s, {}, {Family(r)}, {id})
  BY <1>2, <1>3, <1>4, <1>5 DEF Adds
<1> QED
  BY <1>1, <1>6

LEMMA OneFlag ==
  ASSUME NEW s, NEW seen, NEW n
  PROVE  Adds(<<Mark(n, "flagged")>>, s, seen, {}, {})
<1>1. PICK S : S = {Mark(n, "flagged")}
  OBVIOUS
<1>2. <<Mark(n, "flagged")>> \in Seq(S) /\ \A x \in S : x.op = "mark" /\ x.what.status # "completed"
  BY <1>1, MarkKinds
<1> QED
  BY <1>2, MarksAdd

LEMMA CmbAdds ==
  ASSUME NEW s
  PROVE  Adds(AssessCmb(s), s, {}, Outputs[12], {"measurement-cmb"})
<1>r. PICK r : r = <<"measurement", "cmb", <<"method_variance_share">>>>
  OBVIOUS
<1>f. Outputs[12] = {Family(r)}
  BY <1>r DEF Outputs, Family
<1>1. CASE s.markers
  <2>1. AssessCmb(s) = <<Call("measurement-cmb"), Row(r), Mark(12, "completed")>>
    BY <1>1, <1>r DEF AssessCmb
  <2> QED
    BY <1>f, <2>1, CallRowMark
<1>2. CASE ~s.markers
  <2>1. Adds(AssessCmb(s), s, {}, {}, {})
    BY <1>2, OneFlag DEF AssessCmb
  <2> QED
    BY <2>1 DEF Adds
<1> QED
  BY <1>1, <1>2

LEMMA RespecificationAdds ==
  ASSUME NEW s \in Study
  PROVE  Adds(AssessRespecification(s, 2), s, {}, Outputs[14],
              {"measurement-respec-base", "measurement-respec"})
<1>r. PICK r : r = <<"measurement", "respecification", <<"modifications">>>>
  OBVIOUS
<1>f. Outputs[14] = {Family(r)}
  BY <1>r DEF Outputs, Family
<1>n. PICK na, nb : na = {"measurement-respec-base"} /\ nb = {"measurement-respec"}
  OBVIOUS
<1>m. PICK names : names = {"measurement-respec-base", "measurement-respec"}
  OBVIOUS
<1>1. PICK o : o = <<OpenLog(2)>>
  OBVIOUS
<1>2. Silent(o, s, {})
  <2>1. PICK S : S = {OpenLog(2)}
    OBVIOUS
  <2>2. o \in Seq(S) /\ \A x \in S : x.op \notin {"call", "row", "render", "mark"}
    BY <1>1, <2>1, OtherKinds
  <2> QED
    BY <2>2, SilentSteps
<1>3. CASE s.misfit
  <2>1. PICK c : c = <<Call("measurement-respec-base")>>
    OBVIOUS
  <2>2. Silent(c, s, na)
    BY <1>n, <2>1, OneCallSilent
  <2>3. PICK loop : loop = [i \in 1..(2 * s.respecs) |->
          IF i % 2 = 1 THEN CallNth("measurement-respec", (i + 1) \div 2) ELSE Decide(2)]
    OBVIOUS
  <2>4. PICK m \in Nat : m = 2 * s.respecs
    BY DEF Study
  <2>5. DOMAIN loop = 1..m
    BY <2>3, <2>4
  <2>6. \A i \in DOMAIN loop :
          /\ i % 2 = 1 => /\ loop[i].op = "call"
                          /\ loop[i].what = <<"measurement-respec", (i + 1) \div 2>>
          /\ i % 2 # 1 => loop[i].op = "decide"
    <3>1. SUFFICES ASSUME NEW i \in 1..m
                   PROVE  /\ i % 2 = 1 => /\ loop[i].op = "call"
                                          /\ loop[i].what = <<"measurement-respec", (i + 1) \div 2>>
                          /\ i % 2 # 1 => loop[i].op = "decide"
      BY <2>5
    <3>2. CASE i % 2 = 1
      <4>1. PICK h : h = (i + 1) \div 2
        OBVIOUS
      <4>2. loop[i] = CallNth("measurement-respec", h)
        BY <2>3, <2>4, <3>2, <4>1
      <4>3. loop[i].op = "call" /\ loop[i].what = <<"measurement-respec", h>>
        BY <4>2 DEF CallNth
      <4> QED
        BY <3>2, <4>1, <4>3
    <3>3. CASE i % 2 # 1
      <4>1. loop[i] = Decide(2)
        BY <2>3, <2>4, <3>3
      <4> QED
        BY <3>3, <4>1, OtherKinds
    <3> QED
      BY <3>2, <3>3
  <2>7. Silent(loop, s, nb)
    <3>1. PICK S : S = {loop[i] : i \in DOMAIN loop}
      OBVIOUS
    <3>2. loop \in Seq(S)
      <4>1. \A i \in 1..m : loop[i] \in S
        BY <2>5, <3>1
      <4>2. loop = [i \in 1..m |-> loop[i]]
        BY <2>3, <2>4
      <4>3. loop \in [1..m -> S]
        BY <4>1, <4>2
      <4> QED
        BY <4>3
    <3>3. /\ \A x \in S : x.op \notin {"row", "render", "mark"}
          /\ \A x \in S : x.op = "call" => x.what[1] \in nb
      BY <1>n, <2>6, <3>1
    <3>4. DifferentCalls(loop)
      <4>1. SUFFICES ASSUME NEW i \in DOMAIN loop, NEW j \in DOMAIN loop, loop[i].op = "call",
                            loop[j].op = "call", loop[i].what = loop[j].what
                     PROVE  i = j
        BY DEF DifferentCalls
      <4>2. i % 2 = 1 /\ j % 2 = 1
        BY <2>6, <4>1
      <4>3. (i + 1) \div 2 = (j + 1) \div 2
        BY <2>6, <4>1, <4>2
      <4>4. i \in Nat /\ j \in Nat
        BY <2>5
      <4> QED
        BY <4>2, <4>3, <4>4, InPairs
    <3> QED
      BY <3>2, <3>3, <3>4, SilentCalls
  <2>8. PICK e : e = <<Row(r), Mark(14, "completed")>>
    OBVIOUS
  <2>9. Emits(e, s, {Family(r)}, {}, {})
    BY <1>f, <2>8, RowMark
  <2>10. PICK d : d = c \o loop
    OBVIOUS
  <2>11. Silent(d, s, names)
    <3>1. Apart(na, nb) /\ na \cup nb = names
      BY <1>n, <1>m DEF Apart
    <3>2. Emits(loop, s, {}, nb, {})
      BY <2>7 DEF Silent, Emits
    <3>3. Emits(d, s, {}, na \cup nb, {})
      BY <2>2, <2>10, <3>1, <3>2, SilentFirst
    <3>4. Emitted(d) = Emitted(c) \cup Emitted(loop)
      BY <2>2, <2>7, <2>10, EmittedAdds DEF Silent
    <3> QED
      BY <2>2, <2>7, <3>1, <3>3, <3>4 DEF Silent, Emits
  <2>12. Emits(d \o e, s, {Family(r)}, names, {})
    BY <2>9, <2>11, CallsFirst
  <2>13. Emits(o \o (d \o e), s, {Family(r)}, names, {})
    BY <1>2, <2>12, PlainFirst
  <2>14. AssessRespecification(s, 2) = o \o (d \o e)
    BY <1>1, <1>3, <1>r, <2>1, <2>3, <2>8, <2>10 DEF AssessRespecification
  <2> QED
    BY <1>f, <1>m, <2>13, <2>14 DEF Emits
<1>4. CASE ~s.misfit
  <2>1. PICK e : e = <<Mark(14, "flagged")>>
    OBVIOUS
  <2>2. Emits(e, s, {}, {}, {})
    BY <2>1, OneFlag DEF Emits
  <2>3. Emits(o \o e, s, {}, {}, {})
    BY <1>2, <2>2, PlainFirst
  <2>4. AssessRespecification(s, 2) = o \o e
    BY <1>1, <1>4, <2>1 DEF AssessRespecification
  <2> QED
    BY <2>3, <2>4 DEF Emits, Adds
<1> QED
  BY <1>3, <1>4

LEMMA MeasurementTidy == ASSUME NEW s \in Study PROVE Tidy(Measurement(s), 7, s)
<1>o. PICK out : out = Outputs[8] \cup Outputs[9] \cup Outputs[10] \cup Outputs[13]
                         \cup (IF Len(s.constructs) < 2 THEN {} ELSE Outputs[11])
  OBVIOUS
<1>n. PICK nm, nc, nr : /\ nm = {"measurement", "measurement-deletion-base"}
                        /\ nc = {"measurement-cmb"}
                        /\ nr = {"measurement-respec-base", "measurement-respec"}
  OBVIOUS
<1>1. PICK t : t = <<Read("frame"), Read("config"), Call("measurement"), OpenLog(1),
                     Call("measurement-deletion-base"), Decide(1)>>
  OBVIOUS
<1>2. Silent(t, s, nm)
  <2>1. PICK S : S = {Read("frame"), Read("config"), Call("measurement"), OpenLog(1),
                      Call("measurement-deletion-base"), Decide(1)}
    OBVIOUS
  <2>2. t \in Seq(S)
    BY <1>1, <2>1
  <2>4. /\ \A x \in S : x.op \notin {"row", "render", "mark"}
        /\ \A x \in S : x.op = "call" => x.what[1] \in nm
    BY <1>n, <2>1, OtherKinds
  <2>5. DifferentCalls(t)
    <3>1. /\ DOMAIN t = 1..6 /\ t[1] = Read("frame") /\ t[2] = Read("config")
          /\ t[3] = Call("measurement") /\ t[4] = OpenLog(1)
          /\ t[5] = Call("measurement-deletion-base") /\ t[6] = Decide(1)
      BY <1>1
    <3>2. /\ t[1].op = "read" /\ t[2].op = "read" /\ t[4].op = "log" /\ t[6].op = "decide"
          /\ t[3].what[1] = "measurement" /\ t[5].what[1] = "measurement-deletion-base"
      BY <3>1, OtherKinds
    <3> QED
      BY <3>1, <3>2 DEF DifferentCalls
  <2> QED
    BY <2>2, <2>4, <2>5, SilentCalls
<1>3. PICK v : v = t \o WriteArtifact("measurement")
  OBVIOUS
<1>4. Silent(v, s, nm)
  BY <1>2, <1>3, SilentWrite, SilentPlain
<1>5. PICK rows : rows = MeasurementRows(s)
  OBVIOUS
<1>6. Emits(rows, s, MeasurementFamilies, {}, out)
  BY <1>o, <1>5, MeasurementRowsAdd DEF Emits
<1>7. PICK u : u = v \o rows
  OBVIOUS
<1>8. Emits(u, s, MeasurementFamilies, nm, out)
  BY <1>4, <1>6, <1>7, CallsFirst
<1>9. PICK j : j = <<Journal, Mark(8, "completed"), Mark(9, "completed"),
                     Mark(10, "completed"), Mark(11, "completed")>>
  OBVIOUS
<1>10. Adds(j, s, out, {}, {})
  <2>1. PICK S : S = {Journal, Mark(8, "completed"), Mark(9, "completed"),
                      Mark(10, "completed"), Mark(11, "completed")}
    OBVIOUS
  <2>2. j \in Seq(S)
    BY <1>9, <2>1
  <2>3. Unevidenced(s, 11) \/ Outputs[11] \subseteq out
    BY <1>o DEF Unevidenced
  <2>4. \A x \in S : \/ x.op = "journal"
                     \/ x.op = "mark" /\ (Unevidenced(s, x.what.step)
                                            \/ Outputs[x.what.step] \subseteq out)
    BY <1>o, <2>1, <2>3, MarkKinds
  <2> QED
    BY <2>2, <2>4, MarksAdd
<1>11. PICK w : w = u \o j
  OBVIOUS
<1>12. Emits(w, s, MeasurementFamilies, nm, out)
  BY <1>8, <1>10, <1>11, MarksAfter
<1>13. PICK c : c = AssessCmb(s)
  OBVIOUS
<1>14. Adds(c, s, out, Outputs[12], nc)
  <2>1. Adds(c, s, {}, Outputs[12], nc)
    BY <1>n, <1>13, CmbAdds
  <2> QED
    BY <2>1, AddsMore
<1>15. /\ Outputs[12] = {<<"measurement", "cmb">>}
       /\ Outputs[14] = {<<"measurement", "respecification">>}
  BY DEF Outputs
<1>16. /\ Apart(MeasurementFamilies, Outputs[12]) /\ Apart(nm, nc)
       /\ Apart(MeasurementFamilies \cup Outputs[12], Outputs[14]) /\ Apart(nm \cup nc, nr)
  <2>1. Apart(nm, nc) /\ Apart(nm \cup nc, nr)
    BY <1>n DEF Apart
  <2>2. \A f \in MeasurementFamilies : f[2] # "cmb" /\ f[2] # "respecification"
    BY DEF MeasurementFamilies, Outputs
  <2>3. PICK p, q : p = <<"measurement", "cmb">> /\ q = <<"measurement", "respecification">>
    OBVIOUS
  <2>4. p[2] = "cmb" /\ q[2] = "respecification"
    BY <2>3
  <2>5. p \notin MeasurementFamilies /\ q \notin MeasurementFamilies /\ p # q
    BY <2>2, <2>4
  <2>6. Outputs[12] = {p} /\ Outputs[14] = {q}
    BY <1>15, <2>3
  <2> QED
    BY <2>1, <2>5, <2>6 DEF Apart
<1>17. PICK x : x = w \o c
  OBVIOUS
<1>18. Emits(x, s, MeasurementFamilies \cup Outputs[12], nm \cup nc, out)
  BY <1>12, <1>14, <1>16, <1>17, EmitsJoin
<1>19. PICK m : m = <<Mark(13, "completed")>>
  OBVIOUS
<1>20. Adds(m, s, out, {}, {})
  <2>1. PICK S : S = {Mark(13, "completed")}
    OBVIOUS
  <2>2. m \in Seq(S)
    BY <1>19, <2>1
  <2>3. \A y \in S : \/ y.op = "journal"
                     \/ y.op = "mark" /\ Outputs[y.what.step] \subseteq out
    BY <1>o, <2>1, MarkKinds
  <2> QED
    BY <2>2, <2>3, MarksAdd
<1>21. PICK y : y = x \o m
  OBVIOUS
<1>22. Emits(y, s, MeasurementFamilies \cup Outputs[12], nm \cup nc, out)
  BY <1>18, <1>20, <1>21, MarksAfter
<1>23. PICK r : r = AssessRespecification(s, 2)
  OBVIOUS
<1>24. Adds(r, s, out, Outputs[14], nr)
  <2>1. Adds(r, s, {}, Outputs[14], nr)
    BY <1>n, <1>23, RespecificationAdds
  <2> QED
    BY <2>1, AddsMore
<1>25. PICK fams, names : /\ fams = MeasurementFamilies \cup Outputs[12] \cup Outputs[14]
                          /\ names = nm \cup nc \cup nr
  OBVIOUS
<1>26. Emits(y \o r, s, fams, names, out)
  <2>1. Emits(y \o r, s, (MeasurementFamilies \cup Outputs[12]) \cup Outputs[14],
              (nm \cup nc) \cup nr, out)
    BY <1>16, <1>22, <1>24, EmitsJoin
  <2> QED
    BY <1>25, <2>1
<1>27. Measurement(s) = y \o r
  <2>1. Measurement(s) = ((((t \o WriteArtifact("measurement")) \o rows) \o j) \o c \o m) \o r
    BY <1>1, <1>5, <1>9, <1>13, <1>19, <1>23 DEF Measurement
  <2> QED
    BY <1>3, <1>7, <1>11, <1>17, <1>21, <2>1
<1>28. \A f \in fams : f[1] = Pipeline[7]
  BY <1>25, FamilyNames
<1>29. names \subseteq CallIds[7]
  BY <1>n, <1>25 DEF CallIds
<1> QED
  BY <1>26, <1>27, <1>28, <1>29, EmitsTidy

LEMMA ProgramsAreTidy ==
  ASSUME NEW s \in Study, NEW k \in 1..13
  PROVE  Tidy(Program(k, s), k, s)
<1>1. /\ Pipeline[1] = "ingest" /\ Pipeline[2] = "contract" /\ Pipeline[3] = "gate1"
      /\ Pipeline[4] = "power" /\ Pipeline[5] = "prep" /\ Pipeline[6] = "assumptions"
      /\ Pipeline[7] = "measurement" /\ Pipeline[8] = "structural" /\ Pipeline[9] = "effects"
      /\ Pipeline[10] = "robustness" /\ Pipeline[11] = "narrate" /\ Pipeline[12] = "gate2"
      /\ Pipeline[13] = "package"
  BY DEF Pipeline
<1>2. CASE k = 1
  BY <1>1, <1>2, EarlyTidy DEF Program
<1>3. CASE k = 2
  BY <1>1, <1>3, EarlyTidy DEF Program
<1>4. CASE k = 3
  BY <1>1, <1>4, EarlyTidy DEF Program
<1>5. CASE k = 4
  BY <1>1, <1>5, PowerTidy DEF Program
<1>6. CASE k = 5
  BY <1>1, <1>6, PrepTidy DEF Program
<1>7. CASE k = 6
  BY <1>1, <1>7, AssumptionsTidy DEF Program
<1>8. CASE k = 7
  BY <1>1, <1>8, MeasurementTidy DEF Program
<1>9. CASE k = 8
  BY <1>1, <1>9, StructuralTidy DEF Program
<1>10. CASE k = 9
  BY <1>1, <1>10, EffectsTidy DEF Program
<1>11. CASE k = 10
  BY <1>1, <1>11, RobustnessTidy DEF Program
<1>12. CASE k = 11
  BY <1>1, <1>12, NarrateTidy DEF Program
<1>13. CASE k = 12
  BY <1>1, <1>13, EarlyTidy DEF Program
<1>14. CASE k = 13
  BY <1>1, <1>14, PackageTidy DEF Program
<1> QED
  BY <1>2, <1>3, <1>4, <1>5, <1>6, <1>7, <1>8, <1>9, <1>10, <1>11, <1>12, <1>13, <1>14

-----------------------------------------------------------------------------
(* A run goes on without tripping over its traces.                         *)

LEMMA TailDiffers ==
  ASSUME NEW S, NEW t \in Seq(S), t # <<>>
  PROVE  /\ DifferentCalls(t) => DifferentCalls(Tail(t))
         /\ DifferentRows(t) => DifferentRows(Tail(t))
         /\ DifferentCalls(t) /\ Head(t).op = "call" =>
              \A i \in DOMAIN Tail(t) : Tail(t)[i].op = "call" => Tail(t)[i].what # Head(t).what
         /\ DifferentRows(t) /\ Head(t).op = "row" =>
              \A i \in DOMAIN Tail(t) : Tail(t)[i].op = "row" => Tail(t)[i].what # Head(t).what
         /\ \A k : RenderLast(t, k) => RenderLast(Tail(t), k)
<1>1. PICK u : u = Tail(t)
  OBVIOUS
<1>2. /\ 1 \in DOMAIN t /\ Head(t) = t[1]
      /\ \A i \in DOMAIN u : i + 1 \in DOMAIN t /\ u[i] = t[i + 1]
      /\ DOMAIN t \subseteq Nat \ {0} /\ DOMAIN u \subseteq Nat \ {0}
  BY <1>1, TailFacts
<1>3. DifferentCalls(t) => DifferentCalls(u)
  BY <1>2, SMTT(30) DEF DifferentCalls
<1>4. DifferentRows(t) => DifferentRows(u)
  BY <1>2 DEF DifferentRows
<1>5. ASSUME DifferentCalls(t), Head(t).op = "call", NEW i \in DOMAIN u, u[i].op = "call"
      PROVE  u[i].what # Head(t).what
  BY <1>2, <1>5 DEF DifferentCalls
<1>6. ASSUME DifferentRows(t), Head(t).op = "row", NEW i \in DOMAIN u, u[i].op = "row"
      PROVE  u[i].what # Head(t).what
  BY <1>2, <1>6 DEF DifferentRows
<1>7. ASSUME NEW k, RenderLast(t, k) PROVE RenderLast(u, k)
  <2>1. SUFFICES ASSUME NEW i \in DOMAIN u, u[i].op = "render"
                 PROVE  k = 13 /\ \A j \in DOMAIN u : j > i => u[j].op \notin {"mark", "stop"}
    BY DEF RenderLast
  <2>2. i + 1 \in DOMAIN t /\ t[i + 1].op = "render" /\ i \in Nat
    BY <1>2, <2>1
  <2>3. k = 13 /\ \A j \in DOMAIN t : j > i + 1 => t[j].op \notin {"mark", "stop"}
    BY <1>7, <2>2 DEF RenderLast
  <2>4. ASSUME NEW j \in DOMAIN u, j > i PROVE u[j].op \notin {"mark", "stop"}
    <3>1. j \in Nat /\ j + 1 \in DOMAIN t /\ u[j] = t[j + 1] /\ j + 1 > i + 1
      BY <1>2, <2>2, <2>4
    <3> QED
      BY <2>3, <3>1
  <2> QED
    BY <2>3, <2>4
<1> QED
  BY <1>1, <1>3, <1>4, <1>5, <1>6, <1>7

(* What the first step emits is evidence for the rest.                     *)
LEMMA TailBacked ==
  ASSUME NEW S, NEW t \in Seq(S), t # <<>>, NEW s, NEW seen, NEW later, Backed(t, seen, s),
         seen \subseteq later, Head(t).op = "row" => Family(Head(t).what) \in later
  PROVE  Backed(Tail(t), later, s)
<1>1. PICK u : u = Tail(t)
  OBVIOUS
<1>2. /\ 1 \in DOMAIN t /\ Head(t) = t[1]
      /\ \A i \in DOMAIN u : i + 1 \in DOMAIN t /\ u[i] = t[i + 1]
      /\ \A i \in DOMAIN t : i = 1 \/ (i > 1 /\ i - 1 \in DOMAIN u /\ u[i - 1] = t[i])
      /\ DOMAIN t \subseteq Nat \ {0} /\ DOMAIN u \subseteq Nat \ {0}
  BY <1>1, TailFacts
<1>3. SUFFICES ASSUME NEW i \in DOMAIN u, u[i].op = "mark", u[i].what.status = "completed",
                      ~Unevidenced(s, u[i].what.step), NEW f \in Outputs[u[i].what.step]
               PROVE  f \in later \/ EmittedBefore(u, i, f)
  BY <1>1 DEF Backed
<1>4. i + 1 \in DOMAIN t /\ u[i] = t[i + 1] /\ i \in Nat
  BY <1>2
<1>5. f \in seen \/ EmittedBefore(t, i + 1, f)
  BY <1>3, <1>4 DEF Backed
<1>6. CASE EmittedBefore(t, i + 1, f)
  <2>1. PICK j \in DOMAIN t : j < i + 1 /\ t[j].op = "row" /\ Family(t[j].what) = f
    BY <1>6 DEF EmittedBefore
  <2>2. CASE j = 1
    BY <1>2, <2>1, <2>2
  <2>3. CASE j # 1
    <3>1. j - 1 \in DOMAIN u /\ u[j - 1] = t[j] /\ j \in Nat /\ j - 1 < i
      BY <1>2, <1>4, <2>1, <2>3
    <3> QED
      BY <2>1, <3>1 DEF EmittedBefore
  <2> QED
    BY <2>2, <2>3
<1> QED
  BY <1>5, <1>6

LEMMA CallsGoOn ==
  ASSUME PipelineInv, CallInv, todo # <<>>, todo' = Tail(todo), UNCHANGED <<stage, calls>>
  PROVE  CallInv'
<1>1. PICK u : u = Tail(todo)
  OBVIOUS
<1>2. todo \in Seq(StepsOf(stage, study))
  BY AboutToDo
<1>3. /\ \A i \in DOMAIN u : i + 1 \in DOMAIN todo /\ u[i] = todo[i + 1]
      /\ DOMAIN u \subseteq Nat \ {0}
  BY <1>1, <1>2, TailFacts
<1>4. DifferentCalls(u)
  BY <1>1, <1>2, TailDiffers DEF CallInv
<1>5. \A i \in DOMAIN u : u[i].op = "call" =>
         u[i].what[1] \in CallIds[stage] /\ u[i].what \notin calls
  BY <1>3 DEF CallInv
<1>6. \A c \in calls : \E k \in 1..13 : k <= stage /\ c[1] \in CallIds[k]
  BY DEF CallInv
<1> QED
  BY <1>1, <1>4, <1>5, <1>6 DEF CallInv

LEMMA RowsGoOn ==
  ASSUME PipelineInv, RowInv, todo # <<>>, todo' = Tail(todo), UNCHANGED <<study, stage, store>>
  PROVE  RowInv'
<1>1. PICK u : u = Tail(todo)
  OBVIOUS
<1>2. todo \in Seq(StepsOf(stage, study))
  BY AboutToDo
<1>3. \A i \in DOMAIN u : i + 1 \in DOMAIN todo /\ u[i] = todo[i + 1]
  BY <1>1, <1>2, TailFacts
<1>4. DifferentRows(todo) => DifferentRows(u)
  BY <1>1, <1>2, TailDiffers
<1>5. \A i \in DOMAIN u : u[i].op = "row" => u[i].what[1] = Pipeline[stage]
  BY <1>3 DEF RowInv
<1>6. \A i \in DOMAIN store : \E k \in 1..13 : k <= stage /\ store[i][1] = Pipeline[k]
  BY DEF RowInv
<1>7. \/ Clashing(study)
      \/ /\ DifferentRows(u)
         /\ \A i \in DOMAIN u : u[i].op = "row" => ~Has(store, u[i].what)
  BY <1>3, <1>4 DEF RowInv
<1>8. todo' = u /\ study' = study /\ stage' = stage /\ store' = store
  BY <1>1
<1> QED
  BY <1>5, <1>6, <1>7, <1>8 DEF RowInv

LEMMA EvidenceGoesOn ==
  ASSUME PipelineInv, EvidenceInv, todo # <<>>, todo' = Tail(todo), Head(todo).op # "row",
         UNCHANGED <<study, stage, store, journal, tracker, forged>>
  PROVE  EvidenceInv'
<1>1. todo \in Seq(StepsOf(stage, study))
  BY AboutToDo
<1>2. Backed(Tail(todo), Stored(store), study)
  BY <1>1, TailBacked DEF EvidenceInv
<1>3. RenderLast(Tail(todo), stage)
  BY <1>1, TailDiffers DEF EvidenceInv
<1> QED
  BY <1>2, <1>3 DEF EvidenceInv

(* A step that leaves no trace.                                            *)
LEMMA QuietTraces ==
  ASSUME PipelineInv, TraceInv, todo # <<>>, todo' = Tail(todo), Head(todo).op # "row",
         UNCHANGED <<study, stage, why, calls, store, journal, tracker, forged>>
  PROVE  TraceInv'
<1>1. CallInv'
  BY CallsGoOn DEF TraceInv
<1>2. RowInv'
  BY RowsGoOn DEF TraceInv
<1>3. EvidenceInv'
  BY EvidenceGoesOn DEF TraceInv
<1>4. HaltsAreNotSelfInflicted'
  BY DEF TraceInv, HaltsAreNotSelfInflicted
<1> QED
  BY <1>1, <1>2, <1>3, <1>4 DEF TraceInv

(* The run ends where it is.                                               *)
LEMMA HaltTraces ==
  ASSUME PipelineInv, TraceInv, outcome' # "running",
         UNCHANGED <<study, stage, todo, calls, store, journal, tracker, forged>>,
         HaltsAreNotSelfInflicted'
  PROVE  TraceInv'
<1>1. CallInv'
  BY DEF TraceInv, CallInv
<1>2. RowInv'
  BY DEF TraceInv, RowInv
<1>3. EvidenceInv'
  BY DEF TraceInv, EvidenceInv
<1> QED
  BY <1>1, <1>2, <1>3 DEF TraceInv

LEMMA ConsumedIsProduced ==
  ASSUME NEW k \in 1..13, NEW a \in Consumes[k]
  PROVE  \E j \in 1..13 : j < k /\ a \in Produces[j]
<1>1. /\ Consumes[1] = {} /\ Consumes[2] = {"ingest"} /\ Consumes[3] = {"config"}
      /\ Consumes[4] = {"config", "ingest"} /\ Consumes[5] = {"config"}
      /\ Consumes[6] = {"frame"} /\ Consumes[7] = {"frame", "config"}
      /\ Consumes[8] = {"frame", "config"} /\ Consumes[9] = {"frame", "config"}
      /\ Consumes[10] = {"frame", "config"} /\ Consumes[11] = {"structural", "effects"}
      /\ Consumes[12] = {"draft"} /\ Consumes[13] = {"verdict2"}
  BY DEF Consumes
<1>2. /\ Produces[1] = {"ingest"} /\ Produces[2] = {"config"} /\ Produces[5] = {"frame"}
      /\ Produces[8] = {"structural"} /\ Produces[9] = {"effects"} /\ Produces[11] = {"draft"}
      /\ Produces[12] = {"verdict2"}
  BY DEF Produces
<1>3. /\ a = "ingest" /\ k > 1 => 1 < k /\ a \in Produces[1]
      /\ a = "config" /\ k > 2 => 2 < k /\ a \in Produces[2]
      /\ a = "frame" /\ k > 5 => 5 < k /\ a \in Produces[5]
  BY <1>2
<1>4. k = 1 \/ k = 2 \/ k = 3 \/ k = 4 \/ k = 5 \/ k = 6 \/ k = 7 \/ k = 8 \/ k = 9
      \/ k = 10 \/ k = 11 \/ k = 12 \/ k = 13
  OBVIOUS
<1>5. CASE k \in {1, 2, 3, 4, 5}
  <2>1. a \in {"ingest", "config"} /\ k > 1 /\ (a = "config" => k > 2)
    BY <1>1, <1>5
  <2> QED
    BY <1>3, <2>1
<1>6. CASE k \in {6, 7, 8, 9, 10}
  <2>1. a \in {"frame", "config"}
    BY <1>1, <1>6
  <2> QED
    BY <1>3, <1>6, <2>1
<1>7. CASE k = 11
  <2>1. a \in Produces[8] \/ a \in Produces[9]
    BY <1>1, <1>2, <1>7
  <2> QED
    BY <1>7, <2>1
<1>8. CASE k = 12
  BY <1>1, <1>2, <1>8
<1>9. CASE k = 13
  BY <1>1, <1>2, <1>9
<1> QED
  BY <1>4, <1>5, <1>6, <1>7, <1>8, <1>9

LEMMA ReadArtifactTraces == ASSUME PipelineInv, TraceInv, ReadArtifact PROVE TraceInv'
<1>1. /\ outcome = "running" /\ worker = "none" /\ todo # <<>> /\ Head(todo).op = "read"
      /\ UNCHANGED <<artifacts, recorded, calls, store, journal, tracker, forged>>
  BY DEF ReadArtifact, Doing, Running, written, tracked
<1>2. This \in artifacts
  <2>1. stage \in 1..13 /\ Head(todo) \in StepsOf(stage, study)
    BY <1>1, AboutToDo
  <2>2. This \in Consumes[stage]
    BY <1>1, <2>1, StepKinds DEF This
  <2>3. PICK j \in 1..13 : j < stage /\ This \in Produces[j]
    BY <2>1, <2>2, ConsumedIsProduced
  <2> QED
    BY <2>3, Tables DEF PipelineInv, ArtifactInv
<1>3. todo' = Tail(todo) /\ UNCHANGED <<study, stage, why>>
  BY <1>2 DEF ReadArtifact, Proceed, ending
<1> QED
  BY <1>1, <1>3, QuietTraces

LEMMA ComputeSomethingTraces == ASSUME PipelineInv, TraceInv, ComputeSomething PROVE TraceInv'
<1>1. /\ outcome = "running" /\ worker = "none" /\ todo # <<>> /\ Head(todo).op = "compute"
      /\ UNCHANGED <<calls, store, journal, tracker, forged>>
  BY DEF ComputeSomething, Doing, Running, written, tracked
<1>2. CASE Proceed
  BY <1>1, <1>2, QuietTraces DEF Proceed, ending
<1>3. CASE Halt("computation")
  BY <1>1, <1>3, HaltTraces DEF Halt, HaltWith, HaltsAreNotSelfInflicted
<1> QED
  BY <1>2, <1>3 DEF ComputeSomething

LEMMA FilesTrace == ASSUME PipelineInv, TraceInv, WriteFile \/ RecordWritten PROVE TraceInv'
<1>1. /\ todo # <<>> /\ todo' = Tail(todo) /\ Head(todo).op # "row"
      /\ UNCHANGED <<study, stage, why, calls, store, journal, tracker, forged>>
  BY DEF WriteFile, RecordWritten, Doing, Proceed, ending, tracked
<1> QED
  BY <1>1, QuietTraces

LEMMA DecisionsTrace == ASSUME PipelineInv, TraceInv, AppendDecision PROVE TraceInv'
<1>1. /\ todo # <<>> /\ todo' = Tail(todo) /\ Head(todo).op # "row"
      /\ UNCHANGED <<study, stage, why, calls, store, journal, tracker, forged>>
  BY DEF AppendDecision, Doing, Proceed, ending, written, tracked
<1> QED
  BY <1>1, QuietTraces

LEMMA OpenDecisionLogTraces == ASSUME PipelineInv, TraceInv, OpenDecisionLog PROVE TraceInv'
<1>1. GapFree(decisions)
  BY DEF PipelineInv, DecisionInv
<1>2. /\ todo # <<>> /\ todo' = Tail(todo) /\ Head(todo).op # "row"
      /\ UNCHANGED <<study, stage, why, calls, store, journal, tracker, forged>>
  BY <1>1 DEF OpenDecisionLog, Doing, Proceed, ending, written, tracked
<1> QED
  BY <1>2, QuietTraces

LEMMA SpawnWorkerTraces == ASSUME PipelineInv, TraceInv, SpawnWorker PROVE TraceInv'
<1>1. /\ outcome = "running" /\ worker = "none" /\ todo # <<>> /\ Head(todo).op = "call"
      /\ UNCHANGED <<store, journal, tracker, forged>>
  BY DEF SpawnWorker, Doing, Running, tracked
<1>2. /\ stage \in 1..13 /\ 1 \in DOMAIN todo /\ todo[1] = Head(todo)
      /\ todo \in Seq(StepsOf(stage, study))
  BY <1>1, AboutToDo
<1>3. This \notin calls
  BY <1>1, <1>2 DEF TraceInv, CallInv, This
<1>4. /\ calls' = calls \cup {This} /\ worker' = "running"
      /\ UNCHANGED <<study, stage, todo, why>>
  BY <1>3 DEF SpawnWorker, ending
<1>5. CallInv'
  <2>1. DifferentCalls(todo)
    BY DEF TraceInv, CallInv
  <2>2. ASSUME NEW i \in DOMAIN todo, todo[i].op = "call"
        PROVE  todo[i].what[1] \in CallIds[stage] /\ (todo[i].what \in calls' => i = 1)
    <3>1. todo[i].what[1] \in CallIds[stage] /\ (todo[i].what \in calls => i = 1)
      BY <2>2 DEF TraceInv, CallInv
    <3>2. todo[i].what = This => i = 1
      BY <1>1, <1>2, <2>1, <2>2 DEF DifferentCalls, This
    <3> QED
      BY <1>4, <3>1, <3>2
  <2>3. ASSUME NEW c \in calls' PROVE \E k \in 1..13 : k <= stage /\ c[1] \in CallIds[k]
    <3>1. CASE c \in calls
      BY <3>1 DEF TraceInv, CallInv
    <3>2. CASE c = This
      <4>1. c[1] \in CallIds[stage] /\ stage <= stage
        BY <1>1, <1>2, <3>2 DEF TraceInv, CallInv, This
      <4> QED
        BY <1>2, <4>1
    <3> QED
      BY <1>4, <2>3, <3>1, <3>2
  <2> QED
    BY <1>4, <2>1, <2>2, <2>3 DEF CallInv
<1>6. RowInv' /\ EvidenceInv' /\ HaltsAreNotSelfInflicted'
  BY <1>1, <1>4 DEF TraceInv, RowInv, EvidenceInv, HaltsAreNotSelfInflicted
<1> QED
  BY <1>5, <1>6 DEF TraceInv

LEMMA WorkerTraces ==
  ASSUME PipelineInv, TraceInv, WorkerAnswers \/ WorkerFails \/ WorkerTimesOut PROVE TraceInv'
<1>1. /\ todo # <<>> /\ Head(todo).op = "call"
      /\ UNCHANGED <<study, stage, calls, store, journal, tracker, forged>>
  BY DEF WorkerAnswers, WorkerFails, WorkerTimesOut, Halt, HaltWith, written, tracked,
         PipelineInv, ControlInv
<1>2. CASE WorkerAnswers
  BY <1>1, <1>2, QuietTraces DEF WorkerAnswers, ending
<1>3. CASE WorkerFails \/ WorkerTimesOut
  <2>1. /\ outcome' = "HALTED_INTEGRITY" /\ UNCHANGED todo /\ why' \in {"worker", "timeout"}
    BY <1>3 DEF WorkerFails, WorkerTimesOut, Halt, HaltWith
  <2>2. HaltsAreNotSelfInflicted'
    BY <2>1 DEF HaltsAreNotSelfInflicted
  <2> QED
    BY <1>1, <2>1, <2>2, HaltTraces
<1> QED
  BY <1>2, <1>3

LEMMA StoppedTraces == ASSUME PipelineInv, TraceInv, StopRun \/ Crash PROVE TraceInv'
<1>1. UNCHANGED <<study, stage, todo, calls, store, journal, tracker, forged>>
  BY DEF StopRun, Crash, HaltWith, written, tracked
<1>2. CASE Crash
  <2>1. outcome' # "running" /\ HaltsAreNotSelfInflicted'
    BY <1>2 DEF Crash, TraceInv, HaltsAreNotSelfInflicted
  <2> QED
    BY <1>1, <2>1, HaltTraces
<1>3. CASE StopRun
  <2>1. todo # <<>> /\ Head(todo).op = "stop" /\ outcome' = This /\ why' = "verdict or method"
    BY <1>3 DEF StopRun, Doing, HaltWith
  <2>2. This \in {"HALTED_GATE", "COMPLETED_TO_BOUNDARY", "HALTED_INTEGRITY"}
    <3>1. Head(todo) \in StepsOf(stage, study)
      BY <2>1, AboutToDo
    <3> QED
      BY <2>1, <3>1, StepKinds DEF This
  <2>3. outcome' # "running" /\ HaltsAreNotSelfInflicted'
    BY <2>1, <2>2 DEF HaltsAreNotSelfInflicted
  <2> QED
    BY <1>1, <2>3, HaltTraces
<1> QED
  BY <1>2, <1>3

LEMMA WriteRowTraces == ASSUME PipelineInv, TraceInv, WriteRow PROVE TraceInv'
<1>1. /\ outcome = "running" /\ worker = "none" /\ todo # <<>> /\ Head(todo).op = "row"
      /\ UNCHANGED <<calls, journal, tracker, forged>>
  BY DEF WriteRow, Doing, Running, tracked
<1>2. /\ stage \in 1..13 /\ 1 \in DOMAIN todo /\ todo[1] = Head(todo)
      /\ todo \in Seq(StepsOf(stage, study))
  BY <1>1, AboutToDo
<1>3. CASE Has(store, This) /\ Halt("row repeated") /\ UNCHANGED store
  <2>1. Clashing(study)
    BY <1>1, <1>2, <1>3 DEF TraceInv, RowInv, This
  <2>2. HaltsAreNotSelfInflicted'
    BY <1>3, <2>1 DEF Halt, HaltWith, HaltsAreNotSelfInflicted
  <2> QED
    BY <1>1, <1>3, <2>2, HaltTraces DEF Halt, HaltWith
<1>4. CASE ~Has(store, This) /\ store' = Append(store, This) /\ Proceed
  <2>1. todo' = Tail(todo) /\ UNCHANGED <<study, stage, why>>
    BY <1>4 DEF Proceed, ending
  <2>2. This \in RowIds(study) /\ store \in Seq(RowIds(study))
    BY <1>1, <1>2, AboutToDo, StepKinds DEF This, PipelineInv, ControlInv
  <2>3. PICK u : u = Tail(todo)
    OBVIOUS
  <2>4. \A i \in DOMAIN u : i + 1 \in DOMAIN todo /\ u[i] = todo[i + 1]
    BY <1>1, <1>2, <2>3, TailFacts
  <2>5. PICK st, n : st = Append(store, This) /\ n = Len(store)
    OBVIOUS
  <2>6. /\ \A i \in DOMAIN store : i \in DOMAIN st /\ st[i] = store[i]
        /\ \A i \in DOMAIN st : i \in DOMAIN store \/ i = n + 1
        /\ n + 1 \in DOMAIN st /\ st[n + 1] = This
    BY <2>2, <2>5, AppendFacts
  <2>7. CallInv'
    BY <1>1, <2>1, CallsGoOn DEF TraceInv
  <2>8. RowInv'
    <3>1. \A i \in DOMAIN u : u[i].op = "row" => u[i].what[1] = Pipeline[stage]
      BY <2>4 DEF TraceInv, RowInv
    <3>2. ASSUME NEW i \in DOMAIN st PROVE \E k \in 1..13 : k <= stage /\ st[i][1] = Pipeline[k]
      <4>1. CASE i \in DOMAIN store
        BY <2>6, <4>1 DEF TraceInv, RowInv
      <4>2. CASE i = n + 1
        <5>1. st[i][1] = Pipeline[stage] /\ stage <= stage
          BY <1>1, <1>2, <2>6, <4>2 DEF TraceInv, RowInv, This
        <5> QED
          BY <1>2, <5>1
      <4> QED
        BY <2>6, <4>1, <4>2
    <3>3. ASSUME ~Clashing(study)
          PROVE  DifferentRows(u) /\ \A i \in DOMAIN u : u[i].op = "row" => ~Has(st, u[i].what)
      <4>1. DifferentRows(todo) /\ \A i \in DOMAIN todo : todo[i].op = "row" => ~Has(store, todo[i].what)
        BY <3>3 DEF TraceInv, RowInv
      <4>2. /\ DifferentRows(u)
            /\ \A i \in DOMAIN u : u[i].op = "row" => u[i].what # This
        BY <1>1, <1>2, <2>3, <4>1, TailDiffers DEF This
      <4>3. \A i \in DOMAIN u : u[i].op = "row" => ~Has(store, u[i].what)
        BY <2>4, <4>1
      <4>4. \A x : Has(st, x) => Has(store, x) \/ x = This
        BY <2>6 DEF Has
      <4> QED
        BY <4>2, <4>3, <4>4
    <3>4. todo' = u /\ store' = st
      BY <1>4, <2>1, <2>3, <2>5
    <3> QED
      BY <2>1, <3>1, <3>2, <3>3, <3>4 DEF RowInv
  <2>9. EvidenceInv'
    <3>1. Stored(store) \subseteq Stored(st) /\ Family(This) \in Stored(st)
      BY <2>6 DEF Stored
    <3>2. Backed(Tail(todo), Stored(st), study)
      BY <1>1, <1>2, <3>1, TailBacked DEF TraceInv, EvidenceInv, This
    <3>3. RenderLast(Tail(todo), stage)
      BY <1>1, <1>2, TailDiffers DEF TraceInv, EvidenceInv
    <3>4. Grows(store, st)
      BY <2>2, <2>5, GrowsByOne
    <3>5. \A n1 : Evidenced(store, n1) => Evidenced(st, n1)
      BY <3>4 DEF Grows, Evidenced
    <3>6. store' = st
      BY <1>4, <2>5
    <3> QED
      BY <1>1, <2>1, <3>2, <3>3, <3>5, <3>6 DEF TraceInv, EvidenceInv
  <2>10. HaltsAreNotSelfInflicted'
    BY <1>1, <2>1 DEF TraceInv, HaltsAreNotSelfInflicted
  <2> QED
    BY <2>7, <2>8, <2>9, <2>10 DEF TraceInv
<1> QED
  BY <1>3, <1>4 DEF WriteRow

LEMMA OpenJournalTraces == ASSUME PipelineInv, TraceInv, OpenJournal PROVE TraceInv'
<1>1. /\ outcome = "running" /\ worker = "none" /\ todo # <<>> /\ Head(todo).op = "journal"
      /\ UNCHANGED <<journal, calls, store, forged>>
  BY DEF OpenJournal, Doing, Running, written
<1>2. CASE ~Replayable(journal, store) /\ Halt("journal not replayable") /\ UNCHANGED tracker
  <2>1. ASSUME forged = 0 PROVE Replayable(journal, store)
    <3>1. PICK n \in FirstStep[stage]..(LastStep[stage] + 1) : Done(n)
      BY DEF PipelineInv, JournalInv
    <3>2. EachStepOnce(journal)
      BY <2>1, <3>1 DEF Done, EachStepOnce
    <3>3. \A i \in DOMAIN journal :
            journal[i].status = "completed" => Evidenced(store, journal[i].step)
      BY <2>1 DEF TraceInv, EvidenceInv
    <3> QED
      BY <3>2, <3>3 DEF Replayable
  <2>2. HaltsAreNotSelfInflicted'
    BY <1>1, <1>2, <2>1 DEF HaltsAreNotSelfInflicted
  <2> QED
    BY <1>1, <1>2, <2>2, HaltTraces DEF Halt, HaltWith
<1>3. CASE tracker' = journal /\ Proceed
  <2>1. todo' = Tail(todo) /\ UNCHANGED <<study, stage, why>>
    BY <1>3 DEF Proceed, ending
  <2>2. CallInv' /\ RowInv'
    BY <1>1, <2>1, CallsGoOn, RowsGoOn DEF TraceInv
  <2>3. EvidenceInv'
    <3>1. todo \in Seq(StepsOf(stage, study))
      BY <1>1, AboutToDo
    <3>2. Backed(Tail(todo), Stored(store), study)
      BY <1>1, <3>1, TailBacked DEF TraceInv, EvidenceInv
    <3>3. RenderLast(Tail(todo), stage)
      BY <1>1, <3>1, TailDiffers DEF TraceInv, EvidenceInv
    <3> QED
      BY <1>1, <1>3, <2>1, <3>2, <3>3 DEF TraceInv, EvidenceInv
  <2>4. HaltsAreNotSelfInflicted'
    BY <1>1, <2>1 DEF TraceInv, HaltsAreNotSelfInflicted
  <2> QED
    BY <2>2, <2>3, <2>4 DEF TraceInv
<1> QED
  BY <1>2, <1>3 DEF OpenJournal

(* A statistic of the family is in the store.                              *)
LEMMA StoredLanded ==
  ASSUME NEW rows, NEW f, f \in Stored(rows)
  PROVE  Landed(rows, f)
<1>1. PICK i \in DOMAIN rows : f = Family(rows[i])
  BY DEF Stored
<1>2. PICK r : r = rows[i]
  OBVIOUS
<1>3. SubSeq(r, 1, 2) = f
  BY <1>1, <1>2, PrefixOfTwo DEF Family
<1> QED
  BY <1>1, <1>2, <1>3 DEF Landed

(* The step the run is about to mark is not marked, and if it is to be     *)
(* completed, is evidenced.                                                *)
LEMMA AboutToMark ==
  ASSUME PipelineInv, TraceInv, forged = 0, todo # <<>>, Head(todo).op = "mark"
  PROVE  \/ Markable(tracker, store, This.step, This.status)
         \/ Unevidenced(study, This.step)
<1>1. /\ stage \in 1..13 /\ todo \in Seq(StepsOf(stage, study))
      /\ Head(todo) \in StepsOf(stage, study) /\ 1 \in DOMAIN todo /\ todo[1] = Head(todo)
  BY AboutToDo
<1>2. ~Refused(stage, study)
  BY <1>1, StepKinds
<1>3. ~Stops(todo)
  <2>1. \A i \in DOMAIN todo : todo[i] \in StepsOf(stage, study)
    BY <1>1
  <2> QED
    BY <1>2, <2>1, StepKinds DEF Stops
<1>4. PICK n \in FirstStep[stage]..(LastStep[stage] + 1) :
        Marks(todo, n, LastStep[stage]) /\ Done(n)
  BY DEF PipelineInv, JournalInv
<1>5. FirstStep[stage] \in Int /\ LastStep[stage] \in Int
  BY <1>1, StageBounds
<1>6. This.step = n
  <2>1. n \in Int
    BY <1>4, <1>5
  <2>2. Head(todo).what.step = n
    BY <1>1, <1>3, <1>4, <1>5, <2>1, NextMark
  <2> QED
    BY <2>2 DEF This
<1>7. ~Marked(tracker, n)
  <2>1. Len(journal) = n - 1 /\ \A i \in DOMAIN journal : journal[i].step = i
    BY <1>4 DEF Done
  <2>2. journal \in Seq(JournalRow)
    BY DEF PipelineInv, ControlInv
  <2>3. \A i \in DOMAIN journal : journal[i].step # n
    <3>1. PICK l \in Nat : l = Len(journal)
      BY <2>2
    <3>2. DOMAIN journal = 1..l
      BY <2>2, <3>1
    <3> QED
      BY <1>5, <2>1, <3>1, <3>2
  <2>4. Named(tracker) \subseteq Named(journal)
    BY DEF TraceInv, EvidenceInv
  <2>5. ASSUME NEW i \in DOMAIN tracker, tracker[i].step = n PROVE FALSE
    <3>1. tracker[i] \in Named(journal)
      BY <2>4 DEF Named
    <3> QED
      BY <2>3, <2>5, <3>1 DEF Named
  <2> QED
    BY <2>5 DEF Marked
<1>8. ASSUME This.status = "completed", ~Unevidenced(study, n)
      PROVE  Evidenced(store, n)
  <2>1. \A f \in Outputs[n] : f \in Stored(store) \/ EmittedBefore(todo, 1, f)
    BY <1>1, <1>6, <1>8 DEF TraceInv, EvidenceInv, Backed, This
  <2>2. DOMAIN todo = 1..Len(todo)
    BY <1>1
  <2>3. \A f : ~EmittedBefore(todo, 1, f)
    BY <2>2 DEF EmittedBefore
  <2> QED
    BY <2>1, <2>3, StoredLanded DEF Evidenced
<1> QED
  BY <1>6, <1>7, <1>8 DEF Markable

LEMMA MarkStepTraces == ASSUME PipelineInv, TraceInv, MarkStep PROVE TraceInv'
<1>1. /\ outcome = "running" /\ worker = "none" /\ todo # <<>> /\ Head(todo).op = "mark"
      /\ UNCHANGED <<calls, store, forged>>
  BY DEF MarkStep, Doing, Running, written
<1>2. CASE /\ ~Markable(tracker, store, This.step, This.status)
           /\ Halt("step not markable") /\ UNCHANGED <<tracker, journal>>
  <2>1. ASSUME forged = 0
        PROVE  \/ Len(study.constructs) < 2
               \/ ~\E i \in DOMAIN study.indirect : HasTotal(study, i)
    BY <1>1, <1>2, <2>1, AboutToMark DEF Unevidenced
  <2>2. HaltsAreNotSelfInflicted'
    BY <1>1, <1>2, <2>1 DEF HaltsAreNotSelfInflicted, Halt, HaltWith
  <2> QED
    BY <1>1, <1>2, <2>2, HaltTraces DEF Halt, HaltWith
<1>3. CASE /\ Markable(tracker, store, This.step, This.status)
           /\ tracker' = Append(tracker, This) /\ journal' = Append(journal, This) /\ Proceed
  <2>1. todo' = Tail(todo) /\ UNCHANGED <<study, stage, why>>
    BY <1>3 DEF Proceed, ending
  <2>2. CallInv' /\ RowInv'
    BY <1>1, <2>1, CallsGoOn, RowsGoOn DEF TraceInv
  <2>3. EvidenceInv'
    <3>1. todo \in Seq(StepsOf(stage, study)) /\ stage \in 1..13
      BY <1>1, AboutToDo
    <3>2. Backed(Tail(todo), Stored(store), study)
      BY <1>1, <3>1, TailBacked DEF TraceInv, EvidenceInv
    <3>3. RenderLast(Tail(todo), stage)
      BY <1>1, <3>1, TailDiffers DEF TraceInv, EvidenceInv
    <3>4. This \in JournalRow
      <4>1. PICK m \in FirstStep[stage]..LastStep[stage] : This = Own(study, m)
        BY <1>1, AboutToDo, StepKinds DEF This
      <4>2. FirstStep[stage] \in Int /\ LastStep[stage] \in Int /\ 1 <= FirstStep[stage]
            /\ LastStep[stage] <= 21
        BY <3>1, StageBounds
      <4>3. m \in 1..21
        BY <4>1, <4>2
      <4> QED
        BY <4>1, <4>3, OwnRow
    <3>5. journal \in Seq(JournalRow) /\ tracker \in Seq(JournalRow)
      BY DEF PipelineInv, ControlInv
    <3>6. Named(journal') = Named(journal) \cup {This} /\ Named(tracker') = Named(tracker) \cup {This}
      BY <1>3, <3>4, <3>5, NamedGrows
    <3>7. ASSUME forged = 0, NEW i \in DOMAIN journal', journal'[i].status = "completed"
          PROVE  Evidenced(store, journal'[i].step)
      <4>1. journal'[i] \in Named(journal')
        BY DEF Named
      <4>2. CASE journal'[i] = This
        BY <1>3, <3>7, <4>2 DEF Markable
      <4>3. CASE journal'[i] \in Named(journal)
        BY <3>7, <4>3 DEF Named, TraceInv, EvidenceInv
      <4> QED
        BY <3>6, <4>1, <4>2, <4>3
    <3> QED
      BY <1>1, <2>1, <3>2, <3>3, <3>6, <3>7 DEF TraceInv, EvidenceInv
  <2>4. HaltsAreNotSelfInflicted'
    BY <1>1, <2>1 DEF TraceInv, HaltsAreNotSelfInflicted
  <2> QED
    BY <2>2, <2>3, <2>4 DEF TraceInv
<1> QED
  BY <1>2, <1>3 DEF MarkStep

(* Behind the last mark every step of the playbook has its row.            *)
LEMMA RenderChecklistTraces == ASSUME PipelineInv, TraceInv, RenderChecklist PROVE TraceInv'
<1>1. /\ todo # <<>> /\ Head(todo).op = "render"
      /\ UNCHANGED <<calls, store, journal, tracker, forged>>
  BY DEF RenderChecklist, Doing, written, tracked
<1>2. /\ stage \in 1..13 /\ todo \in Seq(StepsOf(stage, study)) /\ 1 \in DOMAIN todo
      /\ todo[1] = Head(todo)
  BY <1>1, AboutToDo
<1>3. stage = 13 /\ \A j \in DOMAIN todo : j > 1 => todo[j].op \notin {"mark", "stop"}
  BY <1>1, <1>2 DEF TraceInv, EvidenceInv, RenderLast
<1>4. \A j \in DOMAIN todo : todo[j].op \notin {"mark", "stop"}
  <2>1. \A j \in DOMAIN todo : j = 1 \/ j > 1
    <3>1. DOMAIN todo = 1..Len(todo) /\ Len(todo) \in Nat
      BY <1>2
    <3> QED
      BY <3>1
  <2> QED
    BY <1>1, <1>2, <1>3, <2>1
<1>5. PICK n \in FirstStep[stage]..(LastStep[stage] + 1) :
        Marks(todo, n, LastStep[stage]) /\ Done(n)
  BY DEF PipelineInv, JournalInv
<1>6. FirstStep[stage] = 21 /\ LastStep[stage] = 21
  BY <1>3, StageTable
<1>7. ~(21 \in n..21)
  BY <1>4, <1>5, <1>6 DEF Marks, Stops
<1>8. n = 22
  BY <1>5, <1>6, <1>7
<1>9. \A m \in 1..21 : Own(study, m) \in Named(tracker)
  <2>1. \A m \in 1..(22 - 1) : Own(study, m) \in Named(tracker)
    BY <1>5, <1>8 DEF Done
  <2>2. \A m \in 1..21 : m \in 1..(22 - 1)
    OBVIOUS
  <2> QED
    BY <2>1, <2>2
<1>10. Renderable(tracker)
  <2>1. ASSUME NEW m \in Steps PROVE Marked(tracker, m)
    <3>1. m \in 1..21 /\ Own(study, m).step = m
      BY Tables, OwnRow
    <3> QED
      BY <1>9, <3>1 DEF Named, Marked
  <2> QED
    BY <2>1 DEF Renderable
<1>11. todo' = Tail(todo) /\ UNCHANGED <<study, stage, why>>
  BY <1>10 DEF RenderChecklist, Proceed, ending
<1> QED
  BY <1>1, <1>11, QuietTraces

LEMMA CallIdsDiffer ==
  ASSUME NEW j \in 1..13, NEW k \in 1..13, NEW id, id \in CallIds[j], id \in CallIds[k]
  PROVE  j = k
<1>1. /\ CallIds[4] = {"power-montecarlo"}
      /\ CallIds[7] = {"measurement", "measurement-deletion-base", "measurement-cmb",
                       "measurement-respec-base", "measurement-respec"}
      /\ CallIds[8] = {"structural"} /\ CallIds[9] = {"effects"}
      /\ CallIds[10] = {"robustness-alternatives-retained", "robustness-alternatives-reversed_paths"}
      /\ \A i \in {1, 2, 3, 5, 6, 11, 12, 13} : CallIds[i] = {}
  BY DEF CallIds
<1>2. \A i \in 1..13 : i \in {1, 2, 3, 5, 6, 11, 12, 13} \/ i = 4 \/ i = 7 \/ i = 8 \/ i = 9 \/ i = 10
  OBVIOUS
<1>3. ASSUME NEW i \in 1..13, id \in CallIds[i]
      PROVE  /\ i = 4 <=> id = "power-montecarlo"
             /\ i = 8 <=> id = "structural"
             /\ i = 9 <=> id = "effects"
             /\ i = 10 <=> id \in {"robustness-alternatives-retained",
                                   "robustness-alternatives-reversed_paths"}
             /\ i \in {4, 7, 8, 9, 10}
  <2>1. i = 4 \/ i = 7 \/ i = 8 \/ i = 9 \/ i = 10
    BY <1>1, <1>2, <1>3
  <2> QED
    BY <1>1, <1>3, <2>1
<1> QED
  BY <1>3

LEMMA StagesDiffer ==
  ASSUME NEW j \in 1..13, NEW k \in 1..13, Pipeline[j] = Pipeline[k]
  PROVE  j = k
<1>2. /\ Pipeline[1] = "ingest" /\ Pipeline[2] = "contract" /\ Pipeline[3] = "gate1"
      /\ Pipeline[4] = "power" /\ Pipeline[5] = "prep" /\ Pipeline[6] = "assumptions"
      /\ Pipeline[7] = "measurement" /\ Pipeline[8] = "structural" /\ Pipeline[9] = "effects"
      /\ Pipeline[10] = "robustness" /\ Pipeline[11] = "narrate" /\ Pipeline[12] = "gate2"
      /\ Pipeline[13] = "package"
  BY DEF Pipeline
<1>3. \A i \in 1..13 : i = 1 \/ i = 2 \/ i = 3 \/ i = 4 \/ i = 5 \/ i = 6 \/ i = 7 \/ i = 8
        \/ i = 9 \/ i = 10 \/ i = 11 \/ i = 12 \/ i = 13
  OBVIOUS
<1>4. j = 1 \/ j = 2 \/ j = 3 \/ j = 4 \/ j = 5 \/ j = 6 \/ j = 7 \/ j = 8
        \/ j = 9 \/ j = 10 \/ j = 11 \/ j = 12 \/ j = 13
  BY <1>3
<1>5. k = 1 \/ k = 2 \/ k = 3 \/ k = 4 \/ k = 5 \/ k = 6 \/ k = 7 \/ k = 8
        \/ k = 9 \/ k = 10 \/ k = 11 \/ k = 12 \/ k = 13
  BY <1>3
<1> QED
  BY <1>2, <1>4, <1>5

(* A stage begins among the traces of those before it.                     *)
LEMMA StageReturnsTraces == ASSUME PipelineInv, TraceInv, StageReturns PROVE TraceInv'
<1>1. /\ outcome = "running" /\ todo = <<>> /\ stage' = stage + 1
      /\ UNCHANGED <<study, calls, store, journal, tracker, forged>>
  BY DEF StageReturns, Running, written, tracked
<1>2. stage \in 1..13
  BY <1>1, NotEnded
<1>3. stage = 13 <=> stage = Len(Pipeline)
  BY <1>2, Tables
<1>4. /\ \A c \in calls : \E k \in 1..13 : k <= stage /\ c[1] \in CallIds[k]
      /\ \A i \in DOMAIN store : \E k \in 1..13 : k <= stage /\ store[i][1] = Pipeline[k]
  BY DEF TraceInv, CallInv, RowInv
<1>5. /\ \A c \in calls : \E k \in 1..13 : k <= stage + 1 /\ c[1] \in CallIds[k]
      /\ \A i \in DOMAIN store : \E k \in 1..13 : k <= stage + 1 /\ store[i][1] = Pipeline[k]
  BY <1>2, <1>4
<1>6. ASSUME stage = 13, outcome' = "COMPLETED", why' = "finished", UNCHANGED todo
      PROVE  TraceInv'
  <2>1. PICK t : t = <<>>
    OBVIOUS
  <2>2. todo' = t /\ DOMAIN t = {}
    BY <1>1, <1>6, <2>1
  <2>3. CallInv'
    BY <1>1, <1>5, <2>2 DEF CallInv, DifferentCalls
  <2>4. RowInv'
    BY <1>1, <1>5, <2>2 DEF RowInv, DifferentRows
  <2>5. EvidenceInv'
    BY <1>1, <2>2 DEF TraceInv, EvidenceInv, Backed, RenderLast
  <2>6. HaltsAreNotSelfInflicted'
    BY <1>6 DEF HaltsAreNotSelfInflicted
  <2> QED
    BY <2>3, <2>4, <2>5, <2>6 DEF TraceInv
<1>7. ASSUME stage # 13, todo' = Program(stage + 1, study), UNCHANGED ending
      PROVE  TraceInv'
  <2>1. PICK k : k = stage + 1
    OBVIOUS
  <2>2. k \in 1..13 /\ stage' = k /\ \A j \in 1..13 : j <= stage => j # k
    BY <1>1, <1>2, <1>7, <2>1
  <2>3. PICK t : t = Program(k, study)
    OBVIOUS
  <2>4. Tidy(t, k, study)
    BY <2>2, <2>3, StudyIsOne, ProgramsAreTidy
  <2>5. todo' = t
    BY <1>7, <2>1, <2>3
  <2>6. CallInv'
    <3>1. ASSUME NEW i \in DOMAIN t, t[i].op = "call"
          PROVE  t[i].what[1] \in CallIds[k] /\ t[i].what \notin calls
      <4>1. t[i].what[1] \in CallIds[k]
        BY <2>4, <3>1 DEF Tidy
      <4>2. ASSUME t[i].what \in calls PROVE FALSE
        <5>1. PICK j \in 1..13 : j <= stage /\ t[i].what[1] \in CallIds[j]
          BY <1>4, <4>2
        <5> QED
          BY <2>2, <4>1, <5>1, CallIdsDiffer
      <4> QED
        BY <4>1, <4>2
    <3>2. DifferentCalls(t)
      BY <2>4 DEF Tidy
    <3> QED
      BY <1>1, <1>5, <2>2, <2>5, <3>1, <3>2 DEF CallInv
  <2>7. RowInv'
    <3>1. ASSUME NEW i \in DOMAIN t, t[i].op = "row"
          PROVE  t[i].what[1] = Pipeline[k] /\ ~Has(store, t[i].what)
      <4>1. t[i].what[1] = Pipeline[k]
        BY <2>4, <3>1 DEF Tidy
      <4>2. ASSUME NEW l \in DOMAIN store, store[l] = t[i].what PROVE FALSE
        <5>1. PICK j \in 1..13 : j <= stage /\ store[l][1] = Pipeline[j]
          BY <1>4
        <5> QED
          BY <2>2, <4>1, <4>2, <5>1, StagesDiffer
      <4> QED
        BY <4>1, <4>2 DEF Has
    <3>2. Clashing(study) \/ DifferentRows(t)
      BY <2>4 DEF Tidy
    <3> QED
      BY <1>1, <1>5, <2>2, <2>5, <3>1, <3>2 DEF RowInv
  <2>8. EvidenceInv'
    <3>1. Backed(t, {}, study) /\ RenderLast(t, k)
      BY <2>4 DEF Tidy
    <3>2. Backed(t, Stored(store), study)
      BY <3>1 DEF Backed
    <3> QED
      BY <1>1, <2>2, <2>5, <3>1, <3>2 DEF TraceInv, EvidenceInv
  <2>9. HaltsAreNotSelfInflicted'
    BY <1>1, <1>7 DEF TraceInv, HaltsAreNotSelfInflicted, ending
  <2> QED
    BY <2>6, <2>7, <2>8, <2>9 DEF TraceInv
<1>8. CASE stage = 13
  BY <1>3, <1>6, <1>8 DEF StageReturns
<1>9. CASE stage # 13
  BY <1>3, <1>7, <1>9 DEF StageReturns
<1> QED
  BY <1>8, <1>9

LEMMA ForgedTraces == ASSUME PipelineInv, TraceInv, ForgeRow PROVE TraceInv'
<1>1. /\ forged' = forged + 1
      /\ UNCHANGED <<study, stage, todo, worker, outcome, why, calls, store, tracker>>
  BY DEF ForgeRow, control, ending, written
<1>2. forged' # 0
  <2>1. forged \in 0..MaxForged
    BY DEF PipelineInv, TypeOK
  <2> QED
    BY <1>1, <2>1
<1>3. CallInv' /\ RowInv'
  BY <1>1 DEF TraceInv, CallInv, RowInv
<1>4. EvidenceInv' /\ HaltsAreNotSelfInflicted'
  BY <1>1, <1>2 DEF TraceInv, EvidenceInv, HaltsAreNotSelfInflicted
<1> QED
  BY <1>3, <1>4 DEF TraceInv

LEMMA StutterTraces == ASSUME TraceInv, UNCHANGED vars PROVE TraceInv'
<1>1. UNCHANGED <<study, stage, todo, worker, outcome, why, calls, store, journal, tracker, forged>>
  BY DEF vars, control, ending, written, tracked
<1>2. CallInv' /\ RowInv'
  BY <1>1 DEF TraceInv, CallInv, RowInv
<1>3. EvidenceInv' /\ HaltsAreNotSelfInflicted'
  BY <1>1 DEF TraceInv, EvidenceInv, HaltsAreNotSelfInflicted
<1> QED
  BY <1>2, <1>3 DEF TraceInv

LEMMA InitTraces == ASSUME Init PROVE TraceInv
<1>1. /\ stage = 1 /\ todo = Program(1, study) /\ outcome = "running" /\ why = "none"
      /\ calls = {} /\ store = <<>> /\ journal = <<>> /\ tracker = <<>>
  BY DEF Init
<1>2. study \in Study /\ 1 \in 1..13
  BY StudyAssumption DEF Init
<1>3. Tidy(todo, 1, study)
  BY <1>1, <1>2, ProgramsAreTidy
<1>4. PICK e : e = <<>>
  OBVIOUS
<1>5. DOMAIN e = {} /\ store = e /\ journal = e /\ tracker = e
  BY <1>1, <1>4
<1>6. CallInv
  BY <1>1, <1>3 DEF Tidy, CallInv
<1>7. RowInv
  BY <1>1, <1>3, <1>5 DEF Tidy, RowInv, Has
<1>8. EvidenceInv
  <2>1. Backed(todo, Stored(store), study)
    BY <1>3 DEF Tidy, Backed
  <2> QED
    BY <1>1, <1>3, <1>5, <2>1 DEF Tidy, EvidenceInv, Named
<1>9. HaltsAreNotSelfInflicted
  BY <1>1 DEF HaltsAreNotSelfInflicted
<1> QED
  BY <1>6, <1>7, <1>8, <1>9 DEF TraceInv

LEMMA TraceInvariant == Spec => []TraceInv
<1>1. Init => TraceInv
  BY InitTraces
<1>2. TraceInv /\ PipelineInv /\ [Next]_vars => TraceInv'
  <2> SUFFICES ASSUME TraceInv, PipelineInv, [Next]_vars PROVE TraceInv'
    OBVIOUS
  <2>1. CASE ReadArtifact
    BY <2>1, ReadArtifactTraces
  <2>2. CASE ComputeSomething
    BY <2>2, ComputeSomethingTraces
  <2>3. CASE WriteFile \/ RecordWritten
    BY <2>3, FilesTrace
  <2>4. CASE SpawnWorker
    BY <2>4, SpawnWorkerTraces
  <2>5. CASE WorkerAnswers \/ WorkerFails \/ WorkerTimesOut
    BY <2>5, WorkerTraces
  <2>6. CASE WriteRow
    BY <2>6, WriteRowTraces
  <2>7. CASE OpenJournal
    BY <2>7, OpenJournalTraces
  <2>8. CASE MarkStep
    BY <2>8, MarkStepTraces
  <2>9. CASE RenderChecklist
    BY <2>9, RenderChecklistTraces
  <2>10. CASE OpenDecisionLog
    BY <2>10, OpenDecisionLogTraces
  <2>11. CASE AppendDecision
    BY <2>11, DecisionsTrace
  <2>12. CASE StopRun \/ Crash
    BY <2>12, StoppedTraces
  <2>13. CASE StageReturns
    BY <2>13, StageReturnsTraces
  <2>14. CASE ForgeRow
    BY <2>14, ForgedTraces
  <2>15. CASE UNCHANGED vars
    BY <2>15, StutterTraces
  <2> QED
    BY <2>1, <2>2, <2>3, <2>4, <2>5, <2>6, <2>7, <2>8, <2>9, <2>10, <2>11, <2>12, <2>13,
       <2>14, <2>15 DEF Next, RunStep
<1> QED
  BY <1>1, <1>2, PipelineInvariant, PTL DEF Spec

(* Nothing the stages leave in the run directory makes a run nobody        *)
(* tampered with halt: what they reload is there, no call id comes back,   *)
(* journal and decision log replay, every step is recorded at the end.     *)
(* Only a study whose ids clash repeats a row, and only one without a      *)
(* total effect, or with a single construct, cannot mark a step.           *)
THEOREM HaltsHaveOutsideCauses == Spec => []HaltsAreNotSelfInflicted
<1>1. TraceInv => HaltsAreNotSelfInflicted
  BY DEF TraceInv
<1> QED
  BY <1>1, TraceInvariant, PTL

=============================================================================
