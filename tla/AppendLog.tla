------------------------------ MODULE AppendLog ------------------------------
(***************************************************************************)
(* A sequenced JSONL log and the objects that append to it: PROVENANCE     *)
(* .jsonl behind core/provenance.py and DECISION_LOG.jsonl behind the      *)
(* DecisionLog of core/policy.py, which follow the same protocol.  Threads *)
(* share an object under its lock; the pipeline opens an object, drops it  *)
(* and opens another on the same file; the process may die in the middle   *)
(* of a line, or between a line and its newline.                           *)
(***************************************************************************)
EXTENDS Integers, Sequences, FiniteSets

CONSTANTS
  Objects,      \* the objects opened on the file, one after the other
  Threads,      \* the threads that append
  NoThread,     \* stands for a free lock
  MaxLines      \* bound on the length of the log, for the model checker

ASSUME AppendLogAssumption ==
  /\ NoThread \notin Threads
  /\ MaxLines \in Nat

VARIABLES
  file,         \* the entries of the log: a sequence number, or 0 when torn
  unended,      \* the places of the entries that have no newline behind them
  object,       \* object[o]: "closed", "open", or "refused" by the replay
  nextSeq,      \* nextSeq[o]: the next number of object o
  lock,         \* lock[o]: the thread inside the lock of o
  pc,           \* pc[t]: "idle", "waiting", "stamped", "written", "raised"
  using,        \* using[t]: the object t appends to
  stamp         \* stamp[t]: the number of the entry t has built

vars == <<file, unended, object, nextSeq, lock, pc, using, stamp>>

Torn == 0

Init ==
  /\ file = <<>> /\ unended = {}
  /\ object = [o \in Objects |-> "closed"]
  /\ nextSeq = [o \in Objects |-> 1]
  /\ lock = [o \in Objects |-> NoThread]
  /\ pc = [t \in Threads |-> "idle"]
  /\ using \in [Threads -> Objects]
  /\ stamp = [t \in Threads |-> 1]

Active(t) == pc[t] \in {"waiting", "stamped", "written"}

GapFree(log) == \A i \in 1..Len(log) : log[i] = i

(* The entries that have another one behind them on the same line.        *)
Glued == {k \in unended : k < Len(file)}

(* The constructor reads the file line by line: it raises on a line that   *)
(* does not parse, torn or of two entries, and on a gap.  A last entry     *)
(* without a newline is a line like the others.                            *)
ReplayAccepts == GapFree(file) /\ Glued = {}

OpenOffByOne(o) ==                                      \* a mutated form
  /\ \A q \in Objects : object[q] # "open"
  /\ IF ReplayAccepts
       THEN /\ object' = [object EXCEPT ![o] = "open"]
            /\ nextSeq' = [nextSeq EXCEPT ![o] = Len(file)]
       ELSE object' = [object EXCEPT ![o] = "refused"] /\ UNCHANGED nextSeq
  /\ UNCHANGED <<file, unended, lock, pc, using, stamp>>

Open(o) ==
  /\ \A q \in Objects : object[q] # "open"
  /\ IF ReplayAccepts
       THEN /\ object' = [object EXCEPT ![o] = "open"]
            /\ nextSeq' = [nextSeq EXCEPT ![o] = Len(file) + 1]
       ELSE object' = [object EXCEPT ![o] = "refused"] /\ UNCHANGED nextSeq
  /\ UNCHANGED <<file, unended, lock, pc, using, stamp>>

(* The stage that opened the object returns.                               *)
Drop(o) ==
  /\ object[o] = "open" /\ \A t \in Threads : ~ Active(t)
  /\ object' = [object EXCEPT ![o] = "closed"]
  /\ UNCHANGED <<file, unended, nextSeq, lock, pc, using, stamp>>

CallAppend(t, o) ==
  /\ pc[t] = "idle" /\ object[o] = "open" /\ Len(file) < MaxLines
  /\ pc' = [pc EXCEPT ![t] = "waiting"]
  /\ using' = [using EXCEPT ![t] = o]
  /\ UNCHANGED <<file, unended, object, nextSeq, lock, stamp>>

(* "with self._lock", then the entry is built with the next number.        *)
EnterUnlocked(t) ==                                     \* a mutated form
  LET o == using[t]
  IN  /\ pc[t] = "waiting"
      /\ lock' = [lock EXCEPT ![o] = t]
      /\ stamp' = [stamp EXCEPT ![t] = nextSeq[o]]
      /\ pc' = [pc EXCEPT ![t] = "stamped"]
      /\ UNCHANGED <<file, unended, object, nextSeq, using>>

Enter(t) ==
  LET o == using[t]
  IN  /\ pc[t] = "waiting" /\ lock[o] = NoThread
      /\ lock' = [lock EXCEPT ![o] = t]
      /\ stamp' = [stamp EXCEPT ![t] = nextSeq[o]]
      /\ pc' = [pc EXCEPT ![t] = "stamped"]
      /\ UNCHANGED <<file, unended, object, nextSeq, using>>

(* An entry that does not validate raises out of the lock and leaves no    *)
(* trace in the log; the halt ends the thread's part in this run.          *)
RejectConsumesSeq(t) ==                                 \* a mutated form
  /\ pc[t] = "stamped"
  /\ nextSeq' = [nextSeq EXCEPT ![using[t]] = @ + 1]
  /\ lock' = [lock EXCEPT ![using[t]] = NoThread]
  /\ pc' = [pc EXCEPT ![t] = "raised"]
  /\ UNCHANGED <<file, unended, object, using, stamp>>

RejectKeepsLock(t) ==                                   \* a mutated form
  /\ pc[t] = "stamped"
  /\ pc' = [pc EXCEPT ![t] = "raised"]
  /\ UNCHANGED <<file, unended, object, nextSeq, lock, using, stamp>>

Reject(t) ==
  /\ pc[t] = "stamped"
  /\ lock' = [lock EXCEPT ![using[t]] = NoThread]
  /\ pc' = [pc EXCEPT ![t] = "raised"]
  /\ UNCHANGED <<file, unended, object, nextSeq, using, stamp>>

WriteLine(t) ==
  /\ pc[t] = "stamped"
  /\ file' = Append(file, stamp[t])
  /\ pc' = [pc EXCEPT ![t] = "written"]
  /\ UNCHANGED <<unended, object, nextSeq, lock, using, stamp>>

Return(t) ==
  /\ pc[t] = "written"
  /\ nextSeq' = [nextSeq EXCEPT ![using[t]] = @ + 1]
  /\ lock' = [lock EXCEPT ![using[t]] = NoThread]
  /\ pc' = [pc EXCEPT ![t] = "idle"]
  /\ UNCHANGED <<file, unended, object, using, stamp>>

(* The process dies; a line being written may be cut short within the      *)
(* entry, or just before its newline.  What comes back is a new process    *)
(* with the file and nothing else.                                         *)
Crash ==
  /\ \E o \in Objects : object[o] = "open"
  /\ \/ UNCHANGED <<file, unended>>
     \/ \E t \in Threads :
          /\ pc[t] = "stamped"
          /\ \E left \in {Torn, stamp[t]} : file' = Append(file, left)
          /\ unended' = unended \cup {Len(file) + 1}
  /\ object' = [o \in Objects |-> "closed"]
  /\ lock' = [o \in Objects |-> NoThread]
  /\ pc' = [t \in Threads |-> "idle"]
  /\ UNCHANGED <<nextSeq, using, stamp>>

Inside(t) == Enter(t) \/ Reject(t) \/ WriteLine(t) \/ Return(t)

Next ==
  \/ \E o \in Objects : Open(o) \/ Drop(o)
  \/ \E t \in Threads : (\E o \in Objects : CallAppend(t, o)) \/ Inside(t)
  \/ Crash

Spec == Init /\ [][Next]_vars

(* Threads are scheduled.  No fairness of the lock is needed: a log gets    *)
(* finitely many entries, so that a waiting thread is passed over finitely *)
(* often.                                                                  *)
FairSpec == Spec /\ \A t \in Threads : WF_vars(Inside(t))
-----------------------------------------------------------------------------
(* Numbers start at 1, as LedgerEntry.seq and DecisionLogEntry.seq demand. *)
TypeOK ==
  /\ file \in Seq(Nat) /\ unended \subseteq 1..Len(file)
  /\ object \in [Objects -> {"closed", "open", "refused"}]
  /\ nextSeq \in [Objects -> Nat \ {0}]
  /\ lock \in [Objects -> Threads \cup {NoThread}]
  /\ pc \in [Threads -> {"idle", "waiting", "stamped", "written", "raised"}]
  /\ using \in [Threads -> Objects]
  /\ stamp \in [Threads -> Nat \ {0}]

(* The entries are gap free and strictly increasing in file order,         *)
(* whichever threads append and wherever processes die.  Only the last can *)
(* be torn, and no entry follows a torn one.  One that only lost its       *)
(* newline is followed on the same line, and that at most once in the life *)
(* of a log: no object opens it afterwards.                                *)
GapFreeUpToTear ==
  /\ \A i \in 1..Len(file) : file[i] = i \/ (i = Len(file) /\ file[i] = Torn)
  /\ \A j, k \in Glued : j = k

(* An open object whose lock is free knows the length of the log: nothing  *)
(* is lost, and no number is consumed, by appends that fail.               *)
MemoryIsCurrent ==
  \A o \in Objects :
    object[o] = "open" /\ lock[o] = NoThread => nextSeq[o] = Len(file) + 1

(* An append that has been called returns, raises, or dies with its        *)
(* process.                                                                *)
EveryAppendEnds == \A t \in Threads : pc[t] = "waiting" ~> ~ Active(t)
=============================================================================
