---------------------------- MODULE ResultsStore ----------------------------
(***************************************************************************)
(* The results store on disk and in memory (src/burhan/results/store.py):  *)
(* results.jsonl, of which index.json is derived, the object of the run    *)
(* that writes them, the second object the live package stage opens on the *)
(* same directory to read them, a process that dies between two writes or  *)
(* in the middle of one, and a directory edited from outside.              *)
(*                                                                         *)
(* The store has one writer and no lock; a write appends one line and then *)
(* replaces the index.  The hash of an entry is what it is taken of.       *)
(***************************************************************************)
EXTENDS Integers, Sequences, FiniteSets, SequencesExt, Functions

CONSTANTS
  Ids,          \* statistic ids
  Bodies,       \* what an entry says besides its id and hash
  Torn,         \* a line cut short
  Missing,      \* an index.json that is not there
  MaxEdits      \* how often the directory is edited from outside

VARIABLES
  exists,       \* whether results.jsonl is there
  lines,        \* its lines
  index,        \* index.json: id -> hash, or Missing
  writer,       \* the run's object: "none", "idle", "appended" or "dead"
  memory,       \* the entries the writer has in memory, in order
  reader,       \* the second object: "none", "open" or "refused"
  seen,         \* the entries the reader has in memory
  begun,        \* history: the entries a write has begun to append
  returned,     \* history: how many writes have returned
  edits         \* history: how often the directory was edited

vars == <<exists, lines, index, writer, memory, reader, seen,
          begun, returned, edits>>

history == <<begun, returned, edits>>

HashOf(id, b) == <<id, b>>

Entry(id, b) == [id |-> id, body |-> b, hash |-> HashOf(id, b)]

AnyEntry == [id : Ids, body : Bodies, hash : Ids \X Bodies]

(* A line cut short is no entry, and a missing index is not an index.      *)
ASSUME ResultsStoreAssumption ==
  /\ MaxEdits \in Nat
  /\ Torn \notin AnyEntry
  /\ \A S \in SUBSET Ids : Missing \notin [S -> Ids \X Bodies]

IdsIn(es) == {es[i].id : i \in DOMAIN es}

(* index.json is a JSON object: the order of the entries is not in it.     *)
Derived(es) ==
  [id \in IdsIn(es) |-> es[CHOOSE i \in DOMAIN es : es[i].id = id].hash]

Init ==
  /\ exists = FALSE /\ lines = <<>> /\ index = Missing
  /\ writer = "none" /\ memory = <<>>
  /\ reader = "none" /\ seen = <<>>
  /\ begun = <<>> /\ returned = 0 /\ edits = 0

-----------------------------------------------------------------------------
(* _replay: no line is torn, every hash is that of its entry, no id is     *)
(* there twice, and the index, if there is one, is the one derived.        *)
LinesHold(es) ==
  /\ \A i \in DOMAIN es :
       es[i] # Torn /\ es[i].hash = HashOf(es[i].id, es[i].body)
  /\ \A i, j \in DOMAIN es : es[i].id = es[j].id => i = j

ReplayIgnoresIndex ==                                   \* a mutated form
  IF exists THEN LinesHold(lines) ELSE index = Missing

ReplayAccepts ==
  IF exists
    THEN LinesHold(lines) /\ (index # Missing => index = Derived(lines))
    ELSE index = Missing

(* The run opens the store in its new directory; a missing index.json is   *)
(* written, one that is there is the one derived.                          *)
OpenWriter ==
  /\ writer = "none" /\ ReplayAccepts
  /\ writer' = "idle" /\ memory' = lines /\ index' = Derived(lines)
  /\ UNCHANGED <<exists, lines, reader, seen, history>>

(* The package stage of a live run, or whoever comes after a dead process, *)
(* opens a second object; the writer is then not in the middle of a write. *)
OpenReader ==
  /\ writer \in {"idle", "dead"} /\ reader = "none"
  /\ IF ReplayAccepts
       THEN reader' = "open" /\ seen' = lines /\ index' = Derived(lines)
       ELSE reader' = "refused" /\ UNCHANGED <<seen, index>>
  /\ UNCHANGED <<exists, lines, writer, memory, history>>

DropReader ==
  /\ reader # "none"
  /\ reader' = "none" /\ seen' = <<>>
  /\ UNCHANGED <<exists, lines, index, writer, memory, history>>

AppendAnyId(id, b) ==                                   \* a mutated form
  /\ writer = "idle" /\ reader = "none"
  /\ exists' = TRUE
  /\ lines' = Append(lines, Entry(id, b))
  /\ memory' = Append(memory, Entry(id, b))
  /\ begun' = Append(begun, Entry(id, b))
  /\ writer' = "appended"
  /\ UNCHANGED <<index, reader, seen, returned, edits>>

(* write: the line of a new id is appended, and the entry taken into       *)
(* memory.                                                                 *)
AppendEntry(id, b) ==
  /\ writer = "idle" /\ reader = "none" /\ id \notin IdsIn(memory)
  /\ exists' = TRUE
  /\ lines' = Append(lines, Entry(id, b))
  /\ memory' = Append(memory, Entry(id, b))
  /\ begun' = Append(begun, Entry(id, b))
  /\ writer' = "appended"
  /\ UNCHANGED <<index, reader, seen, returned, edits>>

(* ... an id that is there is refused, and the halt ends the run.          *)
RefuseEntry(id) ==
  /\ writer = "idle" /\ reader = "none" /\ id \in IdsIn(memory)
  /\ writer' = "dead"
  /\ UNCHANGED <<exists, lines, index, memory, reader, seen, history>>

SkipIndex ==                                            \* a mutated form
  /\ writer = "appended"
  /\ writer' = "idle" /\ returned' = returned + 1
  /\ UNCHANGED <<exists, lines, index, memory, reader, seen, begun, edits>>

(* ... _write_index: the index is replaced by that of the memory.          *)
ReplaceIndex ==
  /\ writer = "appended"
  /\ index' = Derived(memory)
  /\ writer' = "idle" /\ returned' = returned + 1
  /\ UNCHANGED <<exists, lines, memory, reader, seen, begun, edits>>

(* The process dies between two writes, ...                                *)
Crash ==
  /\ writer \in {"idle", "appended"}
  /\ writer' = "dead" /\ reader' = "none" /\ seen' = <<>>
  /\ UNCHANGED <<exists, lines, index, memory, history>>

(* ... or in the middle of a line.                                         *)
CrashInLine(id, b) ==
  /\ writer = "idle" /\ reader = "none" /\ id \notin IdsIn(memory)
  /\ exists' = TRUE /\ lines' = Append(lines, Torn)
  /\ begun' = Append(begun, Entry(id, b))
  /\ writer' = "dead"
  /\ UNCHANGED <<index, memory, reader, seen, returned, edits>>

-----------------------------------------------------------------------------
(* What one edit makes of the lines: one removed, one reworded, one added  *)
(* with its proper hash, their order reversed, all of them removed.        *)
LineEdits ==
  {RemoveAt(lines, i) : i \in DOMAIN lines}
    \cup {[lines EXCEPT ![i].body = b] :
            i \in {k \in DOMAIN lines : lines[k] # Torn}, b \in Bodies}
    \cup {Append(lines, Entry(id, b)) : id \in Ids, b \in Bodies}
    \cup {Reverse(lines), <<>>}

EditLines ==
  /\ exists
  /\ \/ \E es \in LineEdits \ {lines} : lines' = es /\ UNCHANGED exists
     \/ exists' = FALSE /\ lines' = <<>>
  /\ UNCHANGED index

EditIndex ==
  /\ index # Missing
  /\ \/ index' = Missing
     \/ \E id \in DOMAIN index : index' = Restrict(index, DOMAIN index \ {id})
  /\ UNCHANGED <<exists, lines>>

Edit ==
  /\ writer # "none" /\ edits < MaxEdits
  /\ edits' = edits + 1
  /\ EditLines \/ EditIndex
  /\ UNCHANGED <<writer, memory, reader, seen, begun, returned>>

Next ==
  \/ OpenWriter \/ OpenReader \/ DropReader
  \/ \E id \in Ids : \/ \E b \in Bodies : AppendEntry(id, b) \/ CrashInLine(id, b)
                     \/ RefuseEntry(id)
  \/ ReplaceIndex \/ Crash \/ Edit

Spec == Init /\ [][Next]_vars
-----------------------------------------------------------------------------
(* Every line is torn or an entry, and each id is in the memory of the     *)
(* writer once (ResultsStore._entries and ._order).                        *)
TypeOK ==
  /\ exists \in BOOLEAN
  /\ \A i \in DOMAIN lines : lines[i] = Torn \/ lines[i] \in AnyEntry
  /\ \A i \in DOMAIN memory : memory[i] \in AnyEntry
  /\ Len(memory) = Cardinality(IdsIn(memory))
  /\ index # Missing => DOMAIN index \subseteq Ids
  /\ writer \in {"none", "idle", "appended", "dead"}
  /\ reader \in {"none", "open", "refused"}
  /\ edits \in 0..MaxEdits

(* A store nobody edited opens again exactly when every write that began   *)
(* has returned and there was one: a write cut short between its line and  *)
(* its index, or within its line, makes _replay halt, and so does a store  *)
(* that was opened and never written, whose index.json has no              *)
(* results.jsonl beside it.  However the process died, and whatever one    *)
(* edit was made, an object that opens sees each entry whose write         *)
(* returned, and nothing that was not written, each as it was written.     *)
ReopenIsExact ==
  /\ edits = 0 /\ writer # "none" =>
       (ReplayAccepts <=> begun # <<>> /\ returned = Len(begun))
  /\ edits <= 1 /\ reader = "open" =>
       /\ ToSet(SubSeq(begun, 1, returned)) \subseteq ToSet(seen)
       /\ ToSet(seen) \subseteq ToSet(begun)

(* The index is never ahead of the lines it is derived from, and at most   *)
(* the line of the write in progress is not in it yet.                     *)
IndexFollowsLines ==
  edits = 0 /\ writer # "none" =>
    /\ index = Derived(SubSeq(begun, 1, returned))
    /\ SubSeq(begun, 1, returned) = SubSeq(lines, 1, returned)
    /\ Len(lines) \in {returned, returned + 1}
=============================================================================
