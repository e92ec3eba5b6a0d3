--------------------------- MODULE AppendLogProofs ---------------------------
(***************************************************************************)
(* Whatever the number of threads, objects and entries, a sequenced log is *)
(* gap free up to a torn last entry, at most one of its lines holds two    *)
(* entries, and the object that is open knows its length.  All of it       *)
(* follows from one inductive invariant: the lock of an object belongs to  *)
(* the one thread that is between stamping an entry and counting it; the   *)
(* open object is the only one that appends, and its counter is one entry  *)
(* behind the file only while that thread has written and not counted; and *)
(* an object is open only on a file in which at most one entry ever lost   *)
(* its newline.                                                            *)
(***************************************************************************)
EXTENDS AppendLog, TLAPS

Holds(t, o) == pc[t] \in {"stamped", "written"} /\ using[t] = o

(* The lock is held by the thread that is inside, and by no other.         *)
LockInv == \A t \in Threads, o \in Objects : lock[o] = t <=> Holds(t, o)

(* Threads are active only in the object that is open, and it is the only  *)
(* one that is.                                                            *)
OpenInv ==
  /\ \A o, q \in Objects : object[o] = "open" /\ object[q] = "open" => o = q
  /\ \A t \in Threads : Active(t) => object[using[t]] = "open"

(* The open object's file is whole but for one newline, and its counter is *)
(* exact but for the entry that has been written and not yet counted.      *)
CountInv ==
  /\ \A o \in Objects : object[o] = "open" =>
       /\ GapFree(file)
       /\ \A j, k \in unended : j = k
       /\ \/ nextSeq[o] = Len(file) + 1
          \/ /\ nextSeq[o] = Len(file)
             /\ \E t \in Threads : pc[t] = "written" /\ using[t] = o
  /\ \A t \in Threads :
       /\ pc[t] = "stamped" => /\ stamp[t] = nextSeq[using[t]]
                               /\ nextSeq[using[t]] = Len(file) + 1
       /\ pc[t] = "written" => nextSeq[using[t]] = Len(file)

IInv == TypeOK /\ GapFreeUpToTear /\ LockInv /\ OpenInv /\ CountInv

-----------------------------------------------------------------------------
(* A whole log is gap free up to a tear, with one more line that is torn   *)
(* or numbered next as well; with the latter it is still whole.            *)
LEMMA WholeLog ==
  ASSUME NEW log \in Seq(Nat), GapFree(log), NEW n \in {Torn, Len(log) + 1}
  PROVE  LET longer == Append(log, n) IN
         /\ longer \in Seq(Nat)
         /\ Len(longer) = Len(log) + 1
         /\ n # Torn => GapFree(longer)
         /\ \A i \in 1..Len(longer) :
              longer[i] = i \/ (i = Len(longer) /\ longer[i] = Torn)
PROOF
<1> DEFINE longer == Append(log, n)
<1>1. n \in Nat
  BY DEF Torn
<1>2. /\ longer \in Seq(Nat)
      /\ Len(longer) = Len(log) + 1
      /\ \A i \in 1..Len(log) : longer[i] = log[i]
      /\ longer[Len(log) + 1] = n
  BY <1>1
<1>3. \A i \in 1..Len(log) : longer[i] = i
  BY <1>2 DEF GapFree
<1> HIDE DEF longer
<1>4. n # Torn => GapFree(longer)
  BY <1>2, <1>3 DEF GapFree
<1>5. \A i \in 1..Len(longer) :
        longer[i] = i \/ (i = Len(longer) /\ longer[i] = Torn)
  BY <1>2, <1>3 DEF Torn
<1>6. QED
  BY <1>2, <1>4, <1>5 DEF longer

(* Two threads inside the lock of one object are the same thread, and two  *)
(* active threads use the same object.                                     *)
LEMMA OneInside ==
  ASSUME LockInv, OpenInv, TypeOK,
         NEW t \in Threads, pc[t] \in {"stamped", "written"}
  PROVE  /\ lock[using[t]] = t
         /\ \A u \in Threads : Active(u) => using[u] = using[t]
         /\ \A u \in Threads \ {t} : pc[u] \notin {"stamped", "written"}
PROOF
<1>1. lock[using[t]] = t
  BY DEF LockInv, Holds, TypeOK
<1>2. \A u \in Threads : Active(u) => using[u] = using[t]
  BY DEF OpenInv, TypeOK, Active
<1>3. \A u \in Threads \ {t} : pc[u] \notin {"stamped", "written"}
  BY <1>1, <1>2 DEF LockInv, Holds, TypeOK, Active
<1>4. QED
  BY <1>1, <1>2, <1>3

(* The invariant holds of a log nobody has opened.                         *)
LEMMA InitIInv == Init => IInv
PROOF
<1> SUFFICES ASSUME Init PROVE IInv
  OBVIOUS
<1>1. TypeOK /\ GapFreeUpToTear
  BY DEF Init, TypeOK, GapFreeUpToTear, Glued
<1>2. LockInv /\ OpenInv /\ CountInv
  BY AppendLogAssumption DEF Init, LockInv, Holds, OpenInv, CountInv, Active
<1>3. QED
  BY <1>1, <1>2 DEF IInv

(* Every step of every thread, object and process preserves it.            *)
LEMMA NextIInv == IInv /\ [Next]_vars => IInv'
PROOF
<1> SUFFICES ASSUME IInv, [Next]_vars PROVE IInv'
  OBVIOUS
<1> USE DEF IInv, Active, Glued
<1>1. ASSUME NEW o \in Objects, Open(o) PROVE IInv'
  <2>1. GapFreeUpToTear'
    BY <1>1 DEF Open, GapFreeUpToTear
  <2>2. \A t \in Threads : ~ Active(t)
    BY <1>1 DEF Open, OpenInv, TypeOK
  <2>3. LockInv' /\ OpenInv'
    BY <1>1, <2>2 DEF Open, TypeOK, LockInv, Holds, OpenInv
  <2>4. CountInv'
    BY <1>1, <2>2 DEF Open, ReplayAccepts, TypeOK, CountInv, GapFree
  <2>5. TypeOK'
    <3>1. Len(file) + 1 \in Nat \ {0}
      BY DEF TypeOK
    <3>2. /\ object' \in [Objects -> {"closed", "open", "refused"}]
          /\ nextSeq' \in [Objects -> Nat \ {0}]
      <4> DEFINE n == Len(file) + 1
      <4>1. n \in Nat \ {0}
        BY <3>1
      <4>2. \/ nextSeq' = [nextSeq EXCEPT ![o] = n]
            \/ nextSeq' = nextSeq
        BY <1>1 DEF Open
      <4>3. \/ object' = [object EXCEPT ![o] = "open"]
            \/ object' = [object EXCEPT ![o] = "refused"]
        BY <1>1 DEF Open
      <4> HIDE DEF n
      <4>4. nextSeq' \in [Objects -> Nat \ {0}]
        BY <4>1, <4>2 DEF TypeOK
      <4>5. object' \in [Objects -> {"closed", "open", "refused"}]
        BY <4>3 DEF TypeOK
      <4>6. QED
        BY <4>4, <4>5
    <3>3. QED
      BY <1>1, <3>2 DEF Open, TypeOK
  <2>6. QED
    BY <2>1, <2>3, <2>4, <2>5
<1>2. ASSUME NEW o \in Objects, Drop(o) PROVE IInv'
  <2>1. TypeOK' /\ GapFreeUpToTear' /\ LockInv' /\ OpenInv'
    BY <1>2 DEF Drop, TypeOK, GapFreeUpToTear, LockInv, Holds, OpenInv
  <2>2. CountInv'
    BY <1>2 DEF Drop, TypeOK, CountInv, GapFree
  <2>3. QED
    BY <2>1, <2>2
<1>3. ASSUME NEW t \in Threads, NEW o \in Objects, CallAppend(t, o) PROVE IInv'
  <2>1. TypeOK' /\ GapFreeUpToTear'
    BY <1>3 DEF CallAppend, TypeOK, GapFreeUpToTear
  <2>2. LockInv' /\ OpenInv'
    BY <1>3 DEF CallAppend, TypeOK, LockInv, Holds, OpenInv
  <2>3. CountInv'
    BY <1>3 DEF CallAppend, TypeOK, CountInv, GapFree
  <2>4. QED
    BY <2>1, <2>2, <2>3
<1>4. ASSUME NEW t \in Threads, Enter(t) PROVE IInv'
  <2>1. TypeOK' /\ GapFreeUpToTear'
    BY <1>4 DEF Enter, TypeOK, GapFreeUpToTear
  <2>2. LockInv' /\ OpenInv'
    BY <1>4, AppendLogAssumption DEF Enter, TypeOK, LockInv, Holds, OpenInv
  <2>3. /\ object[using[t]] = "open"
        /\ \A u \in Threads : ~ Holds(u, using[t])
    BY <1>4, AppendLogAssumption DEF Enter, TypeOK, LockInv, OpenInv
  <2>4. nextSeq[using[t]] = Len(file) + 1
    BY <2>3 DEF CountInv, Holds, TypeOK
  <2>5. CountInv'
    BY <1>4, <2>3, <2>4 DEF Enter, TypeOK, CountInv, GapFree
  <2>6. QED
    BY <2>1, <2>2, <2>5
<1>5. ASSUME NEW t \in Threads, Reject(t) PROVE IInv'
  <2>1. TypeOK' /\ GapFreeUpToTear'
    BY <1>5 DEF Reject, TypeOK, GapFreeUpToTear
  <2>2. LockInv' /\ OpenInv'
    BY <1>5, OneInside, AppendLogAssumption
    DEF Reject, TypeOK, LockInv, Holds, OpenInv
  <2>3. CountInv'
    BY <1>5, OneInside, SMTT(30) DEF Reject, TypeOK, CountInv, GapFree
  <2>4. QED
    BY <2>1, <2>2, <2>3
<1>6. ASSUME NEW t \in Threads, WriteLine(t) PROVE IInv'
  <2>1. /\ object[using[t]] = "open" /\ using[t] \in Objects
        /\ GapFree(file) /\ stamp[t] = Len(file) + 1
        /\ nextSeq[using[t]] = Len(file) + 1
    BY <1>6 DEF WriteLine, TypeOK, OpenInv, CountInv
  <2>2. /\ file \in Seq(Nat) /\ stamp[t] # Torn
        /\ stamp[t] \in {Torn, Len(file) + 1}
        /\ file' = Append(file, stamp[t])
    BY <1>6, <2>1 DEF WriteLine, TypeOK, Torn
  <2>3. unended' = unended /\ \A j, k \in unended : j = k
    BY <1>6, <2>1 DEF WriteLine, CountInv
  <2>4. /\ file' \in Seq(Nat) /\ Len(file') = Len(file) + 1
        /\ GapFree(file)' /\ GapFreeUpToTear'
    BY <2>1, <2>2, <2>3, WholeLog DEF GapFreeUpToTear, GapFree
  <2>5. TypeOK'
    BY <1>6, <2>4, <2>3 DEF WriteLine, TypeOK
  <2>6. LockInv' /\ OpenInv'
    BY <1>6 DEF WriteLine, TypeOK, LockInv, Holds, OpenInv
  <2>7. CountInv'
    BY <1>6, <2>1, <2>4, <2>3, OneInside
    DEF WriteLine, TypeOK, CountInv, OpenInv
  <2>8. QED
    BY <2>4, <2>5, <2>6, <2>7
<1>7. ASSUME NEW t \in Threads, Return(t) PROVE IInv'
  <2>1. TypeOK' /\ GapFreeUpToTear'
    BY <1>7 DEF Return, TypeOK, GapFreeUpToTear
  <2>2. LockInv' /\ OpenInv'
    BY <1>7, OneInside, AppendLogAssumption
    DEF Return, TypeOK, LockInv, Holds, OpenInv
  <2>3. CountInv'
    BY <1>7, OneInside, SMTT(30) DEF Return, TypeOK, CountInv, OpenInv, GapFree
  <2>4. QED
    BY <2>1, <2>2, <2>3
<1>8. ASSUME Crash PROVE IInv'
  <2>1. file \in Seq(Nat) /\ GapFree(file) /\ \A j, k \in unended : j = k
    BY <1>8 DEF Crash, TypeOK, CountInv
  <2>2. /\ file' \in Seq(Nat) /\ unended' \subseteq 1..Len(file')
        /\ GapFreeUpToTear'
    <3>1. CASE UNCHANGED <<file, unended>>
      BY <2>1, <3>1 DEF GapFreeUpToTear, TypeOK
    <3>2. CASE \E t \in Threads :
                 /\ pc[t] = "stamped"
                 /\ \E left \in {Torn, stamp[t]} : file' = Append(file, left)
                 /\ unended' = unended \cup {Len(file) + 1}
      <4>1. PICK t \in Threads :
              /\ pc[t] = "stamped"
              /\ \E left \in {Torn, stamp[t]} : file' = Append(file, left)
              /\ unended' = unended \cup {Len(file) + 1}
        BY <3>2
      <4>2. PICK left \in {Torn, stamp[t]} : file' = Append(file, left)
        BY <4>1
      <4>3. stamp[t] = Len(file) + 1 /\ left \in {Torn, Len(file) + 1}
        BY <4>1, <4>2 DEF CountInv
      <4>4. /\ file' \in Seq(Nat) /\ Len(file') = Len(file) + 1
            /\ \A i \in 1..Len(file') :
                 file'[i] = i \/ (i = Len(file') /\ file'[i] = Torn)
        BY <2>1, <4>2, <4>3, WholeLog
      <4>5. Len(file) \in Nat
        BY <2>1
      <4>6. Glued' = {k \in unended' : k < Len(file')}
        BY DEF Glued
      <4>7. Glued' \subseteq unended
        BY <4>1, <4>4, <4>5, <4>6
      <4>8. unended \subseteq 1..Len(file)
        BY DEF TypeOK
      <4>9. 1..Len(file') = (1..Len(file)) \cup {Len(file) + 1}
        BY <4>4, <4>5
      <4>10. unended' \subseteq 1..Len(file')
        BY <4>1, <4>8, <4>9
      <4>11. GapFreeUpToTear'
        BY <2>1, <4>4, <4>7 DEF GapFreeUpToTear
      <4>12. QED
        BY <4>4, <4>10, <4>11
    <3>3. QED
      BY <1>8, <3>1, <3>2 DEF Crash
  <2>3. TypeOK'
    BY <1>8, <2>2 DEF Crash, TypeOK
  <2>4. LockInv' /\ OpenInv' /\ CountInv'
    BY <1>8, AppendLogAssumption DEF Crash, TypeOK, LockInv, Holds, OpenInv, CountInv
  <2>5. QED
    BY <2>2, <2>3, <2>4
<1>9. CASE UNCHANGED vars
  BY <1>9 DEF vars, TypeOK, GapFreeUpToTear, LockInv, Holds, OpenInv, CountInv, GapFree
<1>10. QED
  BY <1>1, <1>2, <1>3, <1>4, <1>5, <1>6, <1>7, <1>8, <1>9 DEF Next, Inside

LEMMA AlwaysIInv == Spec => []IInv
PROOF
<1>1. QED
  BY InitIInv, NextIInv, PTL DEF Spec

(* Sequence numbers and the state of every thread, lock and object stay in *)
(* their types.                                                            *)
THEOREM LogTypeCorrect == Spec => []TypeOK
PROOF
<1>1. IInv => TypeOK
  BY DEF IInv
<1>2. QED
  BY AlwaysIInv, <1>1, PTL

(* LedgerEntry and DecisionLogEntry numbers are gap free and strictly      *)
(* increasing in file order for any number of threads, wherever a process  *)
(* dies: within an entry, which is then the last, or before its newline,   *)
(* which costs the log the line the next entry shares with it and happens  *)
(* once at most, because the replay refuses that line.                     *)
THEOREM LogGapFree == Spec => []GapFreeUpToTear
PROOF
<1>1. IInv => GapFreeUpToTear
  BY DEF IInv
<1>2. QED
  BY AlwaysIInv, <1>1, PTL

(* _next_seq of an open object with a free lock is the length of the file  *)
(* plus one: a rejected entry consumes no number, a written one does.      *)
THEOREM CounterIsCurrent == Spec => []MemoryIsCurrent
PROOF
<1>1. IInv => MemoryIsCurrent
  <2>1. SUFFICES ASSUME IInv,
                        NEW o \in Objects, object[o] = "open", lock[o] = NoThread
                 PROVE  nextSeq[o] = Len(file) + 1
    BY DEF MemoryIsCurrent
  <2>2. \A t \in Threads : ~ Holds(t, o)
    BY <2>1, AppendLogAssumption DEF IInv, LockInv
  <2>3. QED
    BY <2>1, <2>2 DEF IInv, CountInv, Holds
<1>2. QED
  BY AlwaysIInv, <1>1, PTL
=============================================================================
