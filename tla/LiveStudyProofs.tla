-------------------------- MODULE LiveStudyProofs --------------------------
(***************************************************************************)
(* Proofs about LiveStudy, for any number of extractions, runs, nested     *)
(* reruns and edits, with a command dying anywhere.                        *)
(*                                                                         *)
(* That a token is fresh rests on the order of an extraction: what was     *)
(* pending is removed before the model is asked, file by file, so that a   *)
(* token that can be read is only beside an archived answer when nothing   *)
(* came after it (ExtractInv).  What a run works with   *)
(* is followed from step to step of the command that works on it           *)
(* (ConfirmInv), and what a rerun leaves is compared, field by field, with *)
(* what its source has (RerunInv), whose own shape, that of every sealed   *)
(* run, is ShapeInv.                                                       *)
(***************************************************************************)
EXTENDS LiveStudy, FiniteSetTheorems, TLAPS

Steps == {"idle", "clear", "ask", "config", "token", "glance", "open", "ingest",
          "contract", "gate1", "analyse", "reference", "seal", "compare"}

InStages == cmd.at \in {"ingest", "contract", "gate1", "analyse", "reference", "seal"}

InConfirm == cmd.from = None /\ (InStages \/ cmd.at \in {"glance", "open"})

InRerun == cmd.from # None

Commands ==
  [at : Steps, text : {1, 2}, file : {1, 2}, config : Present(Contracts),
   name : Names \cup {<<1, 0>>}, from : Present(Names), compare : BOOLEAN]

LiveType ==
  /\ TypeOK
  /\ cmd \in Commands
  /\ edits \in Nat /\ extracts \in Nat /\ meddled \in BOOLEAN

(* Which run a command works on.  The confirmed runs are numbered without  *)
(* a gap, so that a new one never has the name of an older one.            *)
NameInv ==
  /\ InConfirm \/ InRerun => cmd.name \in Names
  /\ InConfirm => cmd.name[2] = 0
  /\ InConfirm /\ ~InStages => runs[cmd.name] = None
  /\ InStages => runs[cmd.name] # None /\ ~runs[cmd.name].sealed
                 /\ cmd.config # None
  /\ cmd.at = "open" => cmd.config # None
  /\ cmd.at \in {"glance", "open"} => config \in Contracts /\ cmd.from = None
  /\ InConfirm => archive \in AnyArchive
  /\ InRerun =>
       /\ InStages \/ cmd.at = "compare"
       /\ cmd.name = <<cmd.from[1], cmd.from[2] + 1>>
       /\ runs[cmd.from] # None /\ runs[cmd.from].sealed
       /\ runs[cmd.from].contract # None
       /\ cmd.config = runs[cmd.from].contract
       /\ cmd.compare <=> runs[cmd.from].reference # None
  /\ cmd.at = "compare" => InRerun /\ runs[cmd.name] # None /\ runs[cmd.name].sealed
  /\ \E c \in 0..MaxRuns :
       /\ \A k \in 1..MaxRuns : runs[<<k, 0>>] # None <=> k <= c
       /\ cmd.at \in {"glance", "open"} => cmd.name = <<c + 1, 0>>

(* While an extraction is under way there is no token, and what it has     *)
(* written already is there.                                               *)
ExtractInv ==
  /\ cmd.at \in {"ask", "config", "token"} => token = None
  /\ cmd.at \in {"config", "token"} => archive \in AnyArchive
  /\ cmd.at = "config" => cmd.config \in Contracts
  /\ cmd.at = "config" /\ ~meddled => cmd.config.answer = archive.answer
  /\ cmd.at = "token" => config \in Contracts
  /\ cmd.at = "token" /\ ~meddled => config.answer = archive.answer
  /\ token \in Tokens /\ ~meddled => token.config.answer = token.archive.answer
  /\ edits = 0 => ~meddled
  /\ TokenIsFresh

(* As long as no edit was under a command: the text that was read is the   *)
(* one that is there, and a confirmed run has what the token bound.        *)
ConfirmInv ==
  ~meddled =>
    /\ (InConfirm \/ InRerun) /\ cmd.at # "glance" => cmd.text = docs.text
    /\ InConfirm => /\ TokenHolds /\ glanced[cmd.name] = token.config
                    /\ cmd.at # "glance" => cmd.config = config
    /\ \A k \in 1..MaxRuns :
         LET run == runs[<<k, 0>>]
         IN  run # None =>
               /\ glanced[<<k, 0>>] # None /\ run.hash = glanced[<<k, 0>>]
               /\ run.contract \in {None, glanced[<<k, 0>>]}

(* What the stages have written before each step.                          *)
ProgressOf(r, at) ==
  /\ at \in {"ingest", "contract"} => r.contract = None
  /\ at # "seal" => r.halt = None /\ r.missing = None /\ r.reference = None
  /\ at \in {"contract", "gate1", "analyse", "reference"} => r.export \in {"good", "other"}
  /\ at \in {"gate1", "analyse", "reference"} => r.contract # None
  /\ at \in {"ingest", "contract", "gate1"} => r.nodeC = None
  /\ at \in {"ingest", "contract", "gate1", "analyse"} => r.result = None
  /\ at \in {"analyse", "reference"} => r.nodeC # None /\ r.nodeC.answer = "approve"
  /\ at = "reference" => r.result # None

ProgressInv ==
  InStages => /\ ProgressOf(runs[cmd.name], cmd.at)
              /\ cmd.at = "reference" => cmd.compare

(* What the run of name n has, sealed or not, if nobody meddled with it.   *)
ShapeOf(r, n) ==
  r.contract # None =>
    /\ r.nodeA # None /\ r.export \in {"good", "other"}
    /\ r.contract.answer = r.nodeA.answer
    /\ r.nodeC # None => r.nodeC.prompt = <<r.contract, r.nodeA.prompt>>
    /\ r.result # None => r.result = <<r.contract, r.export>>
    /\ r.result # None => r.nodeC # None /\ r.nodeC.answer = "approve"
    /\ r.reference # None => r.reference = IF n[2] = 0 THEN n ELSE <<n[1], n[2] - 1>>
    /\ r.reference # None => r.result # None /\ r.halt = None
    /\ r.missing # None => r.missing = <<n[1], n[2] - 1>>
    /\ r.nodeC # None => r.missing = None

(* How a run that has a contract ends.                                     *)
EndedOf(r) ==
  r.contract # None =>
    /\ r.nodeC = None => r.halt \in {"provider", "no archive"} /\ r.result = None
    /\ r.nodeC # None /\ r.nodeC.answer = "reject" =>
         r.halt = "rejected" /\ r.result = None
    /\ r.nodeC # None /\ r.nodeC.answer = "approve" =>
         r.halt \in {None, "no reference"} /\ r.result # None

(* What the step that comes next still finds as it was.                    *)
Current(r, at, text, e) ==
  /\ at \in {"contract", "gate1", "analyse", "reference"} => r.export = e
  /\ r.contract # None => r.nodeA.prompt = text
  /\ at = "seal" => EndedOf(r)

ShapeInv ==
  ~meddled =>
    /\ \A n \in Names : runs[n] # None => ShapeOf(runs[n], n)
    /\ \A n \in Names : runs[n] # None /\ runs[n].sealed => EndedOf(runs[n])
    /\ InStages => Current(runs[cmd.name], cmd.at, cmd.text, export)

(* What the rerun r has of what its source s, the run of name from, has    *)
(* once it is through, for the text and the export that are there.         *)
Repeated(r, s, from, text, e) ==
  IF r.contract = None
  THEN e = "bad" \/ s.nodeA.prompt # text
  ELSE /\ r.nodeA = s.nodeA /\ s.nodeA.prompt = text
       /\ r.contract = s.contract /\ r.export = e
       /\ r.nodeC = s.nodeC
       /\ s.nodeC = None => r.halt = "no archive" /\ r.missing = from
       /\ s.nodeC # None /\ s.nodeC.answer = "reject" => r.halt = "rejected"
       /\ s.nodeC # None /\ s.nodeC.answer = "approve" => r.halt = None
       /\ r.reference = IF s.reference = None THEN None ELSE from

RerunOf(r, at, s, from, text, e) ==
  /\ at \in {"gate1", "analyse", "reference"} =>
       r.nodeA = s.nodeA /\ r.contract = s.contract /\ s.nodeA.prompt = text
  /\ at \in {"analyse", "reference"} => r.nodeC = s.nodeC
  /\ at \in {"seal", "compare"} => Repeated(r, s, from, text, e)

RerunInv ==
  ~meddled /\ InRerun =>
    RerunOf(runs[cmd.name], cmd.at, runs[cmd.from], cmd.from, docs.text, export)

LiveInv == /\ LiveType /\ NameInv /\ ExtractInv /\ ProgressInv /\ ConfirmInv
           /\ ShapeInv /\ RerunInv

-----------------------------------------------------------------------------
LEMMA Nones ==
  /\ None \notin Contracts /\ None \notin AnyArchive /\ None \notin Tokens
  /\ None \notin Exports /\ None \notin Reviews /\ None \notin Contracts \X Exports
  /\ None \notin Names /\ None \notin Halts /\ None \notin AnyRun
  /\ Torn \notin Contracts /\ Torn \notin AnyArchive /\ Torn \notin Tokens
  /\ Torn # None
BY LiveStudyAssumption

LEMMA Bounds == MaxExtracts \in Nat /\ MaxRuns \in Nat /\ MaxReruns \in Nat /\ MaxEdits \in Nat
BY LiveStudyAssumption

(* A step between the commands, or of an extraction: no run is worked on   *)
(* afterwards, and those that are there are left as they are.              *)
LEMMA NoRunStep ==
  ASSUME LiveInv, UNCHANGED <<runs, glanced, meddled>>, cmd'.from = None,
         cmd'.at \in {"idle", "clear", "ask", "config", "token"}
  PROVE  NameInv' /\ ProgressInv' /\ ConfirmInv' /\ ShapeInv' /\ RerunInv'
<1>1. ~InStages' /\ ~InConfirm' /\ ~InRerun'
  BY DEF InStages, InConfirm, InRerun
<1>2. NameInv'
  <2>1. PICK c \in 0..MaxRuns : \A k \in 1..MaxRuns : runs[<<k, 0>>] # None <=> k <= c
    BY DEF LiveInv, NameInv
  <2>2. \A k \in 1..MaxRuns : runs'[<<k, 0>>] # None <=> k <= c
    BY <2>1
  <2> QED
    BY <1>1, <2>2 DEF NameInv
<1>3. ProgressInv' /\ RerunInv'
  BY <1>1 DEF ProgressInv, RerunInv
<1>4. ConfirmInv'
  BY <1>1 DEF LiveInv, ConfirmInv
<1>5. ShapeInv'
  BY <1>1 DEF LiveInv, ShapeInv
<1> QED
  BY <1>2, <1>3, <1>4, <1>5

(* What writing to the run of the command changes, and what it leaves.     *)
LEMMA WriteFacts ==
  ASSUME LiveInv, InStages, NEW r \in AnyRun, NEW step \in Steps, Write(r, step)
  PROVE  /\ cmd.name \in Names /\ runs' \in [Names -> Present(AnyRun)]
         /\ runs'[cmd.name] = r
         /\ \A n \in Names : n # cmd.name => runs'[n] = runs[n]
         /\ cmd' \in Commands /\ cmd'.at = step /\ cmd'.text = cmd.text
         /\ cmd'.file = cmd.file /\ cmd'.config = cmd.config /\ cmd'.name = cmd.name
         /\ cmd'.from = cmd.from /\ cmd'.compare = cmd.compare
         /\ UNCHANGED <<docs, export, reference, config, archive, token, glanced,
                        refused, extracts, edits, meddled>>
<1>1. cmd.name \in Names
  BY DEF LiveInv, NameInv, InConfirm, InRerun
<1>2. runs \in [Names -> Present(AnyRun)] /\ r \in Present(AnyRun)
  BY DEF LiveInv, LiveType, TypeOK, Present
<1>3. runs' = [runs EXCEPT ![cmd.name] = r]
  BY DEF Write
<1>4. /\ runs' \in [Names -> Present(AnyRun)] /\ runs'[cmd.name] = r
      /\ \A n \in Names : n # cmd.name => runs'[n] = runs[n]
  BY <1>1, <1>2, <1>3
<1>5. cmd \in Commands /\ cmd' = [cmd EXCEPT !.at = step]
  BY DEF LiveInv, LiveType, Write, Then
<1>6. /\ cmd' \in Commands /\ cmd'.at = step /\ cmd'.text = cmd.text
      /\ cmd'.file = cmd.file /\ cmd'.config = cmd.config /\ cmd'.name = cmd.name
      /\ cmd'.from = cmd.from /\ cmd'.compare = cmd.compare
  BY <1>5 DEF Commands
<1>7. UNCHANGED <<docs, export, reference, config, archive, token, glanced,
                  refused, extracts, edits, meddled>>
  BY DEF Write, inputs, pending, history
<1> QED
  BY <1>1, <1>4, <1>6, <1>7

(* A step of the stages keeps the invariant if the run it leaves is one    *)
(* that the next step expects, has the shape of a run of that name, and,   *)
(* in a rerun, has what the source has.                                    *)
LEMMA StageStep ==
  ASSUME LiveInv, InStages, NEW r \in AnyRun,
         NEW step \in {"contract", "gate1", "analyse", "reference", "seal"},
         Write(r, step), r.hash = runs[cmd.name].hash, ~r.sealed,
         r.result # None => r.nodeC # None /\ r.nodeC.answer = "approve",
         ProgressOf(r, step), step = "reference" => cmd.compare,
         ~meddled => /\ r.contract \in {None, cmd.config}
                     /\ ShapeOf(r, cmd.name) /\ Current(r, step, cmd.text, export)
                     /\ InRerun => RerunOf(r, step, runs[cmd.from], cmd.from,
                                           docs.text, export)
  PROVE  LiveInv'
<1>1. step \in Steps
  BY DEF Steps
<1>2. /\ cmd.name \in Names /\ runs' \in [Names -> Present(AnyRun)]
      /\ runs'[cmd.name] = r
      /\ \A n \in Names : n # cmd.name => runs'[n] = runs[n]
      /\ cmd' \in Commands /\ cmd'.at = step /\ cmd'.text = cmd.text
      /\ cmd'.file = cmd.file /\ cmd'.config = cmd.config /\ cmd'.name = cmd.name
      /\ cmd'.from = cmd.from /\ cmd'.compare = cmd.compare
      /\ UNCHANGED <<docs, export, reference, config, archive, token, glanced,
                     refused, extracts, edits, meddled>>
  BY <1>1, WriteFacts
<1>3. r # None /\ runs[cmd.name] # None
  BY Nones DEF LiveInv, NameInv
<1>4. InStages' /\ (InConfirm' <=> InConfirm) /\ (InRerun' <=> InRerun)
  BY <1>2 DEF InStages, InConfirm, InRerun
<1>5. LiveType'
  BY <1>2, <1>3 DEF LiveInv, LiveType, TypeOK
<1>6. InRerun => cmd.from \in Names /\ cmd.from # cmd.name /\ runs'[cmd.from] = runs[cmd.from]
  <2>1. InRerun => cmd.from \in Names /\ cmd.name = <<cmd.from[1], cmd.from[2] + 1>>
    BY DEF LiveInv, LiveType, NameInv, InRerun, Commands, Present
  <2>2. InRerun => cmd.from[2] \in Int /\ cmd.from[2] # cmd.from[2] + 1
    BY <2>1 DEF Names
  <2> QED
    BY <1>2, <2>1, <2>2
<1>7. NameInv'
  <2>1. PICK c \in 0..MaxRuns : \A k \in 1..MaxRuns : runs[<<k, 0>>] # None <=> k <= c
    BY DEF LiveInv, NameInv
  <2>2. ASSUME NEW k \in 1..MaxRuns PROVE runs'[<<k, 0>>] # None <=> runs[<<k, 0>>] # None
    <3>1. <<k, 0>> \in Names
      BY Bounds DEF Names
    <3> QED
      BY <1>2, <1>3, <3>1
  <2>3. \E d \in 0..MaxRuns : \A k \in 1..MaxRuns : runs'[<<k, 0>>] # None <=> k <= d
    BY <2>1, <2>2
  <2>4. cmd'.config # None
    BY <1>2 DEF LiveInv, NameInv
  <2> QED
    BY <1>2, <1>3, <1>4, <1>6, <2>3, <2>4 DEF LiveInv, NameInv
<1>8. ExtractInv'
  BY <1>2 DEF LiveInv, ExtractInv, TokenIsFresh, TokenHolds
<1>9. ProgressInv'
  BY <1>2 DEF ProgressInv
<1>10. ConfirmInv'
  <2> SUFFICES ASSUME ~meddled PROVE ConfirmInv'
    BY <1>2 DEF ConfirmInv
  <2>1. /\ cmd.text = docs.text
        /\ InConfirm => /\ TokenHolds /\ glanced[cmd.name] = token.config
                        /\ cmd.config = config
    BY DEF LiveInv, ConfirmInv, InConfirm, InRerun, InStages
  <2>2. ASSUME NEW k \in 1..MaxRuns, runs'[<<k, 0>>] # None
        PROVE  /\ glanced[<<k, 0>>] # None /\ runs'[<<k, 0>>].hash = glanced[<<k, 0>>]
               /\ runs'[<<k, 0>>].contract \in {None, glanced[<<k, 0>>]}
    <3>1. <<k, 0>> \in Names
      BY Bounds DEF Names
    <3>2. CASE <<k, 0>> # cmd.name
      BY <1>2, <2>2, <3>1, <3>2 DEF LiveInv, ConfirmInv
    <3>3. CASE <<k, 0>> = cmd.name
      <4>1. InConfirm
        <5>1. InRerun => cmd.from[2] \in Nat /\ cmd.name[2] = cmd.from[2] + 1
          BY <1>6, Bounds DEF LiveInv, NameInv, Names
        <5>2. ~InRerun
          BY <3>3, <5>1
        <5> QED
          BY <5>2 DEF InConfirm, InRerun
      <4>2. cmd.config = glanced[cmd.name]
        BY <2>1, <4>1 DEF TokenHolds
      <4>3. /\ glanced[<<k, 0>>] # None /\ runs[<<k, 0>>].hash = glanced[<<k, 0>>]
        BY <1>3, <3>3 DEF LiveInv, ConfirmInv
      <4> QED
        BY <1>2, <3>3, <4>2, <4>3
    <3> QED
      BY <3>2, <3>3
  <2> QED
    BY <1>2, <1>4, <2>1, <2>2 DEF ConfirmInv, TokenHolds
<1>11. ShapeInv'
  <2> SUFFICES ASSUME ~meddled PROVE ShapeInv'
    BY <1>2 DEF ShapeInv
  <2>1. ASSUME NEW n \in Names, runs'[n] # None PROVE ShapeOf(runs'[n], n)
    BY <1>2, <2>1 DEF LiveInv, ShapeInv
  <2>2. ASSUME NEW n \in Names, runs'[n] # None, runs'[n].sealed PROVE EndedOf(runs'[n])
    BY <1>2, <2>2 DEF LiveInv, ShapeInv
  <2>3. Current(runs'[cmd'.name], cmd'.at, cmd'.text, export')
    BY <1>2
  <2> QED
    BY <2>1, <2>2, <2>3 DEF ShapeInv
<1>12. RerunInv'
  BY <1>2, <1>4, <1>6 DEF RerunInv
<1> QED
  BY <1>5, <1>7, <1>8, <1>9, <1>10, <1>11, <1>12 DEF LiveInv

-----------------------------------------------------------------------------
(* An extraction.                                                          *)
LEMMA Outside ==
  ASSUME LiveInv, cmd.at \notin {"ingest", "contract", "gate1", "analyse", "reference",
                                 "seal", "compare"}
  PROVE  cmd.from = None /\ ~InStages
BY DEF LiveInv, NameInv, InRerun, InStages

LEMMA NoCommandType == NoCommand \in Commands
BY DEF NoCommand, Commands, Steps, Present

LEMMA ThenType ==
  ASSUME LiveInv, NEW step \in Steps, Then(step)
  PROVE  /\ cmd' \in Commands /\ cmd'.at = step /\ cmd'.text = cmd.text
         /\ cmd'.file = cmd.file /\ cmd'.config = cmd.config /\ cmd'.name = cmd.name
         /\ cmd'.from = cmd.from /\ cmd'.compare = cmd.compare
<1>1. cmd \in Commands /\ cmd' = [cmd EXCEPT !.at = step]
  BY DEF LiveInv, LiveType, Then
<1> QED
  BY <1>1 DEF Commands

LEMMA EndType ==
  ASSUME End
  PROVE  cmd' \in Commands /\ cmd'.at = "idle" /\ cmd'.from = None
BY NoCommandType DEF End, NoCommand

LEMMA StartExtractKeeps == LiveInv /\ StartExtract => LiveInv'
<1> SUFFICES ASSUME LiveInv, StartExtract PROVE LiveInv'
  OBVIOUS
<1>1. cmd' \in Commands /\ cmd'.at = "clear" /\ cmd'.from = None
  <2>1. cmd' = [NoCommand EXCEPT !.at = "clear", !.text = docs.text]
    BY DEF StartExtract
  <2>2. docs.text \in {1, 2}
    BY DEF LiveInv, LiveType, TypeOK, Document
  <2> QED
    BY <2>1, <2>2, NoCommandType DEF NoCommand, Commands, Steps
<1>2. LiveType'
  BY <1>1 DEF LiveInv, LiveType, TypeOK, StartExtract, inputs, pending
<1>3. ExtractInv'
  BY <1>1 DEF LiveInv, ExtractInv, TokenIsFresh, TokenHolds, StartExtract, inputs, pending
<1>4. NameInv' /\ ProgressInv' /\ ConfirmInv' /\ ShapeInv' /\ RerunInv'
  BY <1>1, NoRunStep DEF StartExtract
<1> QED
  BY <1>2, <1>3, <1>4 DEF LiveInv

LEMMA RemoveFileKeeps == LiveInv /\ RemoveFile => LiveInv'
<1> SUFFICES ASSUME LiveInv, RemoveFile PROVE LiveInv'
  OBVIOUS
<1>1. /\ cmd' = cmd /\ cmd.at = "clear" /\ cmd.from = None
      /\ UNCHANGED <<inputs, config, runs, history>>
      /\ \/ archive' = None /\ token' = token
         \/ token' = None /\ archive' = archive
  BY Outside DEF RemoveFile, At
<1>2. LiveType'
  BY <1>1 DEF LiveInv, LiveType, TypeOK, Stored, inputs, history
<1>3. ExtractInv'
  BY <1>1, Nones DEF LiveInv, ExtractInv, TokenIsFresh, TokenHolds, history
<1>4. NameInv' /\ ProgressInv' /\ ConfirmInv' /\ ShapeInv' /\ RerunInv'
  BY <1>1, NoRunStep DEF history
<1> QED
  BY <1>2, <1>3, <1>4 DEF LiveInv

LEMMA TakeDigestsKeeps == LiveInv /\ TakeDigests => LiveInv'
<1> SUFFICES ASSUME LiveInv, TakeDigests PROVE LiveInv'
  OBVIOUS
<1>1. cmd' \in Commands /\ cmd'.at = "ask" /\ cmd'.from = None
  <2>1. cmd' = [cmd EXCEPT !.at = "ask", !.file = docs.file] /\ cmd.from = None
    BY Outside DEF TakeDigests, At
  <2>2. docs.file \in {1, 2} /\ cmd \in Commands
    BY DEF LiveInv, LiveType, TypeOK, Document
  <2> QED
    BY <2>1, <2>2 DEF Commands, Steps
<1>2. LiveType'
  BY <1>1 DEF LiveInv, LiveType, TypeOK, TakeDigests, inputs, pending, history
<1>3. ExtractInv'
  BY <1>1 DEF LiveInv, ExtractInv, TokenIsFresh, TokenHolds, TakeDigests, pending,
    history
<1>4. NameInv' /\ ProgressInv' /\ ConfirmInv' /\ ShapeInv' /\ RerunInv'
  BY <1>1, NoRunStep DEF TakeDigests, history
<1> QED
  BY <1>2, <1>3, <1>4 DEF LiveInv

LEMMA AskNodeAKeeps == LiveInv /\ AskNodeA => LiveInv'
<1> SUFFICES ASSUME LiveInv, AskNodeA PROVE LiveInv'
  OBVIOUS
<1>1. PICK a \in Answers :
        /\ archive' = Archived(cmd.text, a)
        /\ \/ cmd' = [cmd EXCEPT !.at = "config", !.config = Contract(a, cmd.file)]
           \/ End
  BY DEF AskNodeA
<1>2. cmd \in Commands /\ cmd.from = None
  BY Outside DEF AskNodeA, At, LiveInv, LiveType
<1>3. archive' \in AnyArchive /\ archive'.answer = a
  BY <1>1, <1>2 DEF Commands, Archived, AnyArchive
<1>4. Contract(a, cmd.file) \in Contracts /\ Contract(a, cmd.file).answer = a
  BY <1>2 DEF Commands, Contract, Contracts
<1>5. /\ cmd' \in Commands /\ cmd'.at \in {"config", "idle"} /\ cmd'.from = None
      /\ cmd'.at = "config" => cmd'.config \in Contracts /\ cmd'.config.answer = a
  <2>1. CASE End
    BY <2>1, EndType
  <2>2. CASE cmd' = [cmd EXCEPT !.at = "config", !.config = Contract(a, cmd.file)]
    <3>1. PICK c : c = Contract(a, cmd.file)
      OBVIOUS
    <3>2. cmd' = [cmd EXCEPT !.at = "config", !.config = c]
      BY <2>2, <3>1
    <3> QED
      BY <1>2, <1>4, <3>1, <3>2 DEF Commands, Steps, Present
  <2> QED
    BY <1>1, <2>1, <2>2
<1>6. archive' # None /\ token' = None /\ UNCHANGED <<inputs, config, runs, history>>
  BY <1>3, Nones DEF AskNodeA, At, LiveInv, ExtractInv
<1>7. LiveType'
  BY <1>3, <1>5, <1>6 DEF LiveInv, LiveType, TypeOK, Stored, inputs, history
<1>8. ExtractInv'
  BY <1>3, <1>5, <1>6, Nones DEF LiveInv, ExtractInv, TokenIsFresh, history
<1>9. NameInv' /\ ProgressInv' /\ ConfirmInv' /\ ShapeInv' /\ RerunInv'
  BY <1>5, <1>6, NoRunStep DEF history
<1> QED
  BY <1>7, <1>8, <1>9 DEF LiveInv

(* A command that ends or dies leaves the files as they are.               *)
LEMMA EndKeeps ==
  ASSUME LiveInv, End, UNCHANGED <<inputs, pending, runs, history>>
  PROVE  LiveInv'
<1>1. cmd' \in Commands /\ cmd'.at = "idle" /\ cmd'.from = None
  BY EndType
<1>2. LiveType'
  BY <1>1 DEF LiveInv, LiveType, TypeOK, inputs, pending, history
<1>3. ExtractInv'
  BY <1>1 DEF LiveInv, ExtractInv, TokenIsFresh, TokenHolds, pending, history
<1>4. NameInv' /\ ProgressInv' /\ ConfirmInv' /\ ShapeInv' /\ RerunInv'
  BY <1>1, NoRunStep DEF history
<1> QED
  BY <1>2, <1>3, <1>4 DEF LiveInv

(* One that dies within a write leaves a file that vouches for nothing.    *)
LEMMA TearFileKeeps == LiveInv /\ TearFile => LiveInv'
<1> SUFFICES ASSUME LiveInv, TearFile PROVE LiveInv'
  OBVIOUS
<1>1. cmd' \in Commands /\ cmd'.at = "idle" /\ cmd'.from = None
  BY EndType DEF TearFile
<1>2. /\ UNCHANGED <<inputs, runs, history>> /\ token = None
      /\ token' \in {None, Torn}
      /\ archive' \in {archive, Torn} /\ config' \in {config, Torn}
  BY DEF TearFile, At, LiveInv, ExtractInv
<1>3. LiveType'
  BY <1>1, <1>2 DEF LiveInv, LiveType, TypeOK, Stored, inputs, history
<1>4. ExtractInv'
  BY <1>1, <1>2, Nones DEF LiveInv, ExtractInv, TokenIsFresh, history
<1>5. NameInv' /\ ProgressInv' /\ ConfirmInv' /\ ShapeInv' /\ RerunInv'
  BY <1>1, <1>2, NoRunStep DEF history
<1> QED
  BY <1>3, <1>4, <1>5 DEF LiveInv

LEMMA WriteConfigKeeps == LiveInv /\ WriteConfig => LiveInv'
<1> SUFFICES ASSUME LiveInv, WriteConfig PROVE LiveInv'
  OBVIOUS
<1>1. /\ cmd' \in Commands /\ cmd'.at = "token" /\ cmd'.from = None
  BY Outside, ThenType DEF WriteConfig, At, Steps
<1>2. /\ archive \in AnyArchive /\ token = None /\ config' = cmd.config
      /\ cmd.config \in Contracts
      /\ ~meddled => cmd.config.answer = archive.answer
      /\ UNCHANGED <<inputs, archive, token, runs, history>>
  BY DEF LiveInv, ExtractInv, WriteConfig, At
<1>3. LiveType'
  BY <1>1, <1>2 DEF LiveInv, LiveType, TypeOK, Stored, inputs, history
<1>4. ExtractInv'
  BY <1>1, <1>2, Nones DEF LiveInv, ExtractInv, TokenIsFresh, history
<1>5. NameInv' /\ ProgressInv' /\ ConfirmInv' /\ ShapeInv' /\ RerunInv'
  BY <1>1, <1>2, NoRunStep DEF history
<1> QED
  BY <1>3, <1>4, <1>5 DEF LiveInv

LEMMA WriteTokenKeeps == LiveInv /\ WriteToken => LiveInv'
<1> SUFFICES ASSUME LiveInv, WriteToken PROVE LiveInv'
  OBVIOUS
<1>1. cmd' \in Commands /\ cmd'.at = "idle" /\ cmd'.from = None
  BY EndType DEF WriteToken
<1>2. /\ config \in Contracts /\ archive \in AnyArchive
      /\ config # None /\ archive # None
      /\ ~meddled => config.answer = archive.answer
      /\ token' = [config |-> config, archive |-> archive]
      /\ UNCHANGED <<inputs, config, archive, runs, history>>
  BY Nones DEF LiveInv, ExtractInv, WriteToken, At
<1>3. token' \in Tokens /\ token'.config = config /\ token'.archive = archive
  BY <1>2 DEF Tokens
<1>4. LiveType'
  BY <1>1, <1>2, <1>3 DEF LiveInv, LiveType, TypeOK, Stored, inputs, history
<1>5. ExtractInv'
  BY <1>1, <1>2, <1>3, Nones DEF LiveInv, ExtractInv, TokenIsFresh, TokenHolds, history
<1>6. NameInv' /\ ProgressInv' /\ ConfirmInv' /\ ShapeInv' /\ RerunInv'
  BY <1>1, <1>2, NoRunStep DEF history
<1> QED
  BY <1>4, <1>5, <1>6 DEF LiveInv

-----------------------------------------------------------------------------
(* A confirmation, up to the run.  Its name is the next one in the row.    *)
LEMMA NextName ==
  ASSUME LiveInv, NEW c \in 0..MaxRuns, \A k \in 1..MaxRuns : runs[<<k, 0>>] # None <=> k <= c
  PROVE  Cardinality({k \in 1..MaxRuns : runs[<<k, 0>>] # None}) = c
<1>1. {k \in 1..MaxRuns : runs[<<k, 0>>] # None} = 1..c
  BY Bounds
<1>2. Cardinality(1..c) = c
  BY Bounds, FS_Interval
<1> QED
  BY <1>1, <1>2

LEMMA VerifyTokenKeeps == LiveInv /\ VerifyToken => LiveInv'
<1> SUFFICES ASSUME LiveInv, VerifyToken PROVE LiveInv'
  OBVIOUS
<1>1. PICK c \in 0..MaxRuns : \A k \in 1..MaxRuns : runs[<<k, 0>>] # None <=> k <= c
  BY DEF LiveInv, NameInv
<1>2. PICK n : n = <<c + 1, 0>>
  OBVIOUS
<1>3. PICK wanted \in BOOLEAN :
        /\ cmd' = [NoCommand EXCEPT !.at = "glance", !.name = n, !.compare = wanted]
        /\ n \in Names /\ TokenHolds /\ glanced' = [glanced EXCEPT ![n] = token.config]
        /\ UNCHANGED <<inputs, pending, runs, refused, extracts, edits, meddled>>
  <2>1. <<1 + Cardinality({k \in 1..MaxRuns : runs[<<k, 0>>] # None}), 0>> = n
    <3>1. Cardinality({k \in 1..MaxRuns : runs[<<k, 0>>] # None}) = c
      BY <1>1, NextName
    <3>2. 1 + c = c + 1
      BY Bounds
    <3> QED
      BY <1>2, <3>1, <3>2
  <2> QED
    BY <2>1 DEF VerifyToken
<1>4. c + 1 \in 1..MaxRuns /\ runs[n] = None
  BY <1>1, <1>2, <1>3, Bounds DEF Names
<1>5. /\ cmd' \in Commands /\ cmd'.at = "glance" /\ cmd'.from = None /\ cmd'.name = n
  BY <1>3, NoCommandType DEF NoCommand, Commands, Steps
<1>6. /\ token \in Tokens /\ token.config = config /\ token.archive = archive
      /\ config \in Contracts /\ archive \in AnyArchive
  BY <1>3 DEF LiveInv, LiveType, TypeOK, Stored, TokenHolds, Tokens
<1>7. /\ glanced' \in [Names -> Present(Contracts)] /\ glanced'[n] = token.config
      /\ \A m \in Names : m # n => glanced'[m] = glanced[m]
  BY <1>3, <1>6 DEF LiveInv, LiveType, TypeOK, Present
<1>8. ~InStages' /\ InConfirm' /\ ~InRerun'
  BY <1>5 DEF InStages, InConfirm, InRerun
<1>9. LiveType'
  BY <1>3, <1>5, <1>7 DEF LiveInv, LiveType, TypeOK, inputs, pending
<1>10. NameInv'
  <2>1. \A k \in 1..MaxRuns : runs'[<<k, 0>>] # None <=> k <= c
    BY <1>1, <1>3
  <2> QED
    BY <1>2, <1>3, <1>4, <1>5, <1>6, <1>8, <2>1 DEF NameInv, pending
<1>11. ExtractInv'
  BY <1>3, <1>5 DEF LiveInv, ExtractInv, TokenIsFresh, TokenHolds, pending
<1>12. ProgressInv' /\ RerunInv'
  BY <1>8 DEF ProgressInv, RerunInv
<1>13. ConfirmInv'
  <2> SUFFICES ASSUME ~meddled PROVE ConfirmInv'
    BY <1>3 DEF ConfirmInv
  <2>1. ASSUME NEW k \in 1..MaxRuns, runs'[<<k, 0>>] # None
        PROVE  /\ glanced'[<<k, 0>>] # None /\ runs'[<<k, 0>>].hash = glanced'[<<k, 0>>]
               /\ runs'[<<k, 0>>].contract \in {None, glanced'[<<k, 0>>]}
    <3>1. <<k, 0>> \in Names /\ <<k, 0>> # n /\ runs[<<k, 0>>] # None
      BY <1>3, <1>4, <2>1, Bounds DEF Names
    <3> QED
      BY <1>3, <1>7, <3>1 DEF LiveInv, ConfirmInv
  <2>2. TokenHolds' /\ glanced'[cmd'.name] = token'.config
    BY <1>3, <1>5, <1>7 DEF TokenHolds, pending
  <2> QED
    BY <1>5, <1>8, <2>1, <2>2 DEF ConfirmInv
<1>14. ShapeInv'
  BY <1>3, <1>8 DEF LiveInv, ShapeInv
<1> QED
  BY <1>9, <1>10, <1>11, <1>12, <1>13, <1>14 DEF LiveInv

LEMMA ReadGlancedKeeps == LiveInv /\ ReadGlanced => LiveInv'
<1> SUFFICES ASSUME LiveInv, ReadGlanced PROVE LiveInv'
  OBVIOUS
<1>1. /\ cmd.at = "glance" /\ cmd.from = None
      /\ cmd' = [cmd EXCEPT !.at = "open", !.config = config, !.text = docs.text]
      /\ UNCHANGED <<inputs, pending, runs, history>>
  BY Outside DEF ReadGlanced, At
<1>2. /\ cmd' \in Commands /\ cmd'.at = "open" /\ cmd'.from = None /\ cmd'.name = cmd.name
      /\ cmd'.config = config /\ cmd'.text = docs.text
  <2>1. cmd \in Commands /\ config \in Contracts /\ docs.text \in {1, 2}
    BY <1>1 DEF LiveInv, LiveType, NameInv, TypeOK, Document
  <2> QED
    BY <1>1, <2>1 DEF Commands, Steps, Present
<1>3. ~InStages' /\ InConfirm' /\ ~InRerun' /\ InConfirm /\ ~InStages
  BY <1>1, <1>2 DEF InStages, InConfirm, InRerun
<1>4. LiveType'
  BY <1>1, <1>2 DEF LiveInv, LiveType, TypeOK, inputs, pending, history
<1>5. NameInv'
  <2>1. PICK c \in 0..MaxRuns : /\ \A k \in 1..MaxRuns : runs[<<k, 0>>] # None <=> k <= c
                                /\ cmd.name = <<c + 1, 0>>
    BY <1>1 DEF LiveInv, NameInv
  <2>2. \A k \in 1..MaxRuns : runs'[<<k, 0>>] # None <=> k <= c
    BY <1>1, <2>1
  <2> QED
    BY <1>1, <1>2, <1>3, <2>1, <2>2, Nones DEF LiveInv, NameInv, pending
<1>6. ExtractInv'
  BY <1>1, <1>2 DEF LiveInv, ExtractInv, TokenIsFresh, TokenHolds, pending, history
<1>7. ProgressInv' /\ RerunInv'
  BY <1>3 DEF ProgressInv, RerunInv
<1>8. ConfirmInv'
  BY <1>1, <1>2, <1>3 DEF LiveInv, ConfirmInv, TokenHolds, inputs, pending, history
<1>9. ShapeInv'
  BY <1>1, <1>3 DEF LiveInv, ShapeInv, history
<1> QED
  BY <1>4, <1>5, <1>6, <1>7, <1>8, <1>9 DEF LiveInv

LEMMA NewRunType ==
  ASSUME NEW hash \in Contracts, NEW r, r = NewRun(hash)
  PROVE  /\ r \in AnyRun /\ r # None /\ r.hash = hash /\ r.contract = None
         /\ r.halt = None /\ r.missing = None /\ r.reference = None
         /\ r.nodeC = None /\ r.result = None /\ r.sealed = FALSE
<1>1. r \in AnyRun
  BY DEF NewRun, AnyRun, Present
<1>2. r # None
  BY <1>1, Nones
<1> QED
  BY <1>1, <1>2 DEF NewRun

LEMMA OpenRunKeeps == LiveInv /\ OpenRun => LiveInv'
<1> SUFFICES ASSUME LiveInv, OpenRun PROVE LiveInv'
  OBVIOUS
<1>1. /\ cmd.at = "open" /\ cmd.from = None /\ Then("ingest")
      /\ runs' = [runs EXCEPT ![cmd.name] = NewRun(config)]
      /\ UNCHANGED <<inputs, pending, history>>
  BY Outside DEF OpenRun, At
<1>2. /\ cmd' \in Commands /\ cmd'.at = "ingest" /\ cmd'.text = cmd.text
      /\ cmd'.config = cmd.config /\ cmd'.name = cmd.name
      /\ cmd'.from = None /\ cmd'.compare = cmd.compare
  BY <1>1, ThenType DEF Steps
<1>3. InConfirm /\ ~InStages /\ InConfirm' /\ InStages' /\ ~InRerun'
  BY <1>1, <1>2 DEF InStages, InConfirm, InRerun
<1>4. PICK c \in 0..MaxRuns : /\ \A k \in 1..MaxRuns : runs[<<k, 0>>] # None <=> k <= c
                              /\ cmd.name = <<c + 1, 0>>
  BY <1>1 DEF LiveInv, NameInv
<1>5. cmd.name \in Names /\ c + 1 \in 1..MaxRuns
  BY <1>3, <1>4, Bounds DEF LiveInv, NameInv, Names
<1>6. PICK r : r = NewRun(config)
  OBVIOUS
<1>7. /\ r \in AnyRun /\ r # None /\ r.hash = config /\ r.contract = None /\ r.halt = None
      /\ r.missing = None /\ r.reference = None /\ r.nodeC = None /\ r.result = None /\ r.sealed = FALSE
  <2>1. config \in Contracts
    BY <1>1 DEF LiveInv, NameInv
  <2> QED
    BY <1>6, <2>1, NewRunType
<1>8. /\ runs' \in [Names -> Present(AnyRun)] /\ runs'[cmd.name] = r
      /\ \A n \in Names : n # cmd.name => runs'[n] = runs[n]
  BY <1>1, <1>5, <1>6, <1>7 DEF LiveInv, LiveType, TypeOK, Present
<1>9. LiveType'
  BY <1>1, <1>2, <1>7, <1>8 DEF LiveInv, LiveType, TypeOK, inputs, pending, history
<1>10. NameInv'
  <2>1. \A k \in 1..MaxRuns : runs'[<<k, 0>>] # None <=> k <= c + 1
    <3> SUFFICES ASSUME NEW k \in 1..MaxRuns PROVE runs'[<<k, 0>>] # None <=> k <= c + 1
      OBVIOUS
    <3>1. <<k, 0>> \in Names
      BY Bounds DEF Names
    <3>2. CASE k = c + 1
      BY <1>4, <1>7, <1>8, <3>2
    <3>3. CASE k # c + 1
      <4>1. runs'[<<k, 0>>] = runs[<<k, 0>>]
        BY <1>4, <1>8, <3>1, <3>3
      <4> QED
        BY <1>4, <3>3, <4>1
    <3> QED
      BY <3>2, <3>3
  <2>2. \E d \in 0..MaxRuns : \A k \in 1..MaxRuns : runs'[<<k, 0>>] # None <=> k <= d
    BY <1>5, <2>1
  <2>3. cmd.config # None /\ cmd.name[2] = 0
    BY <1>1, <1>4 DEF LiveInv, NameInv
  <2> QED
    BY <1>1, <1>2, <1>3, <1>5, <1>7, <1>8, <2>2, <2>3 DEF LiveInv, NameInv, pending
<1>11. ExtractInv'
  BY <1>1, <1>2 DEF LiveInv, ExtractInv, TokenIsFresh, TokenHolds, pending, history
<1>12. ProgressInv' /\ RerunInv'
  BY <1>2, <1>3, <1>7, <1>8 DEF ProgressInv, ProgressOf, RerunInv
<1>13. ConfirmInv'
  <2> SUFFICES ASSUME ~meddled PROVE ConfirmInv'
    BY <1>1 DEF ConfirmInv, history
  <2>1. /\ cmd.text = docs.text /\ TokenHolds /\ glanced[cmd.name] = token.config
        /\ cmd.config = config
    BY <1>1, <1>3 DEF LiveInv, ConfirmInv
  <2>2. ASSUME NEW k \in 1..MaxRuns, runs'[<<k, 0>>] # None
        PROVE  /\ glanced[<<k, 0>>] # None /\ runs'[<<k, 0>>].hash = glanced[<<k, 0>>]
               /\ runs'[<<k, 0>>].contract \in {None, glanced[<<k, 0>>]}
    <3>1. <<k, 0>> \in Names
      BY Bounds DEF Names
    <3>2. CASE <<k, 0>> # cmd.name
      BY <1>8, <2>2, <3>1, <3>2 DEF LiveInv, ConfirmInv
    <3>3. CASE <<k, 0>> = cmd.name
      BY <1>7, <1>8, <2>1, <3>3 DEF TokenHolds
    <3> QED
      BY <3>2, <3>3
  <2> QED
    BY <1>1, <1>2, <2>1, <2>2 DEF ConfirmInv, TokenHolds, inputs, pending, history
<1>14. ShapeInv'
  <2> SUFFICES ASSUME ~meddled PROVE ShapeInv'
    BY <1>1 DEF ShapeInv, history
  <2>1. ASSUME NEW n \in Names, runs'[n] # None
        PROVE  ShapeOf(runs'[n], n) /\ (runs'[n].sealed => EndedOf(runs'[n]))
    <3>1. CASE n = cmd.name
      BY <1>7, <1>8, <3>1 DEF ShapeOf, EndedOf
    <3>2. CASE n # cmd.name
      BY <1>8, <2>1, <3>2 DEF LiveInv, ShapeInv
    <3> QED
      BY <3>1, <3>2
  <2>2. Current(runs'[cmd'.name], cmd'.at, cmd'.text, export')
    BY <1>2, <1>7, <1>8 DEF Current
  <2> QED
    BY <2>1, <2>2 DEF ShapeInv
<1> QED
  BY <1>9, <1>10, <1>11, <1>12, <1>13, <1>14 DEF LiveInv

-----------------------------------------------------------------------------
(* A rerun, up to the run: its source is sealed, and stays as it is.       *)
LEMMA StartRerunKeeps ==
  ASSUME LiveInv, NEW n \in Names, StartRerun(n)
  PROVE  LiveInv'
<1>1. PICK again : again = <<n[1], n[2] + 1>>
  OBVIOUS
<1>2. /\ cmd.at = "idle" /\ cmd.from = None /\ ~InStages /\ again \in Names
      /\ runs[n] # None /\ runs[n].sealed
      /\ UNCHANGED <<inputs, pending, glanced, extracts, edits, meddled>>
  BY <1>1, Outside DEF StartRerun, At
<1>3. CASE runs[n].contract = None
  <2>1. refused' = refused \cup {n} /\ UNCHANGED <<cmd, runs>>
    BY <1>3 DEF StartRerun
  <2>2. LiveType' /\ ExtractInv'
    BY <1>2, <2>1 DEF LiveInv, LiveType, TypeOK, ExtractInv, TokenIsFresh, TokenHolds,
      inputs, pending
  <2>3. NameInv' /\ ProgressInv' /\ ConfirmInv' /\ ShapeInv' /\ RerunInv'
    BY <1>2, <2>1, NoRunStep
  <2> QED
    BY <2>2, <2>3 DEF LiveInv
<1>4. CASE runs[n].contract # None
  <2>1. /\ runs[again] = None /\ runs' = [runs EXCEPT ![again] = NewRun(runs[n].hash)]
        /\ cmd' = [NoCommand EXCEPT
             !.at = "ingest", !.text = docs.text, !.name = again,
             !.config = runs[n].contract, !.from = n,
             !.compare = runs[n].reference # None]
    BY <1>1, <1>4 DEF StartRerun
  <2>2. runs[n] \in AnyRun /\ docs.text \in {1, 2} /\ runs \in [Names -> Present(AnyRun)]
    BY <1>2 DEF LiveInv, LiveType, TypeOK, Present, Document
  <2>3. PICK hash, contract, compare :
          /\ hash = runs[n].hash /\ contract = runs[n].contract
          /\ compare = (runs[n].reference # None)
    OBVIOUS
  <2>4. hash \in Contracts /\ contract \in Contracts /\ contract # None
        /\ compare \in BOOLEAN
    BY <1>4, <2>2, <2>3 DEF AnyRun, Present
  <2>5. /\ cmd' \in Commands /\ cmd'.at = "ingest" /\ cmd'.text = docs.text
        /\ cmd'.name = again /\ cmd'.config = contract /\ cmd'.from = n
        /\ cmd'.compare = compare
    <3>1. cmd' = [NoCommand EXCEPT
             !.at = "ingest", !.text = docs.text, !.name = again,
             !.config = contract, !.from = n, !.compare = compare]
      BY <2>1, <2>3
    <3> QED
      BY <1>2, <2>2, <2>4, <3>1, NoCommandType DEF NoCommand, Commands, Steps, Present
  <2>6. PICK r : r = NewRun(hash)
    OBVIOUS
  <2>7. /\ r \in AnyRun /\ r # None /\ r.contract = None /\ r.halt = None
        /\ r.missing = None /\ r.reference = None /\ r.nodeC = None /\ r.result = None /\ r.sealed = FALSE
    BY <2>4, <2>6, NewRunType
  <2>8. /\ runs' \in [Names -> Present(AnyRun)] /\ runs'[again] = r
        /\ \A m \in Names : m # again => runs'[m] = runs[m]
    BY <1>2, <2>1, <2>2, <2>3, <2>6, <2>7 DEF Present
  <2>9. n # again /\ runs'[n] = runs[n] /\ again[2] # 0
    <3>1. n[2] \in Nat /\ again[2] = n[2] + 1
      BY <1>1, Bounds DEF Names
    <3>2. n # again /\ again[2] # 0
      BY <3>1
    <3> QED
      BY <2>8, <3>2
  <2>10. n # None /\ InStages' /\ InRerun' /\ ~InConfirm'
    BY <2>5, Nones DEF InStages, InRerun, InConfirm
  <2>11. ASSUME NEW k \in 1..MaxRuns
         PROVE  <<k, 0>> \in Names /\ runs'[<<k, 0>>] = runs[<<k, 0>>]
    <3>1. <<k, 0>> \in Names /\ <<k, 0>> # again
      BY <2>9, Bounds DEF Names
    <3> QED
      BY <2>8, <3>1
  <2>12. LiveType'
    BY <1>2, <2>5, <2>7, <2>8 DEF LiveInv, LiveType, TypeOK, inputs, pending
  <2>13. NameInv'
    <3>1. PICK c \in 0..MaxRuns : \A k \in 1..MaxRuns : runs[<<k, 0>>] # None <=> k <= c
      BY DEF LiveInv, NameInv
    <3>2. \A k \in 1..MaxRuns : runs'[<<k, 0>>] # None <=> k <= c
      BY <2>11, <3>1
    <3> QED
      BY <1>1, <1>2, <2>3, <2>4, <2>5, <2>7, <2>8, <2>9, <2>10, <3>2, <1>4 DEF NameInv
  <2>14. ExtractInv'
    BY <1>2, <2>5 DEF LiveInv, ExtractInv, TokenIsFresh, TokenHolds, pending
  <2>15. ProgressInv'
    BY <2>5, <2>7, <2>8 DEF ProgressInv, ProgressOf
  <2>16. ConfirmInv'
    BY <1>2, <2>5, <2>10, <2>11 DEF LiveInv, ConfirmInv, inputs
  <2>17. ShapeInv'
    <3> SUFFICES ASSUME ~meddled PROVE ShapeInv'
      BY <1>2 DEF ShapeInv
    <3>1. ASSUME NEW m \in Names, runs'[m] # None
          PROVE  ShapeOf(runs'[m], m) /\ (runs'[m].sealed => EndedOf(runs'[m]))
      <4>1. CASE m = again
        BY <2>7, <2>8, <4>1 DEF ShapeOf, EndedOf
      <4>2. CASE m # again
        BY <2>8, <3>1, <4>2 DEF LiveInv, ShapeInv
      <4> QED
        BY <4>1, <4>2
    <3>2. Current(runs'[cmd'.name], cmd'.at, cmd'.text, export')
      BY <2>5, <2>7, <2>8 DEF Current
    <3> QED
      BY <3>1, <3>2 DEF ShapeInv
  <2>18. RerunInv'
    BY <2>5 DEF RerunInv, RerunOf
  <2> QED
    BY <2>12, <2>13, <2>14, <2>15, <2>16, <2>17, <2>18 DEF LiveInv
<1> QED
  BY <1>3, <1>4

-----------------------------------------------------------------------------
(* The stages.  What a step finds, and what it leaves, as values.          *)
LEMMA StageFacts ==
  ASSUME LiveInv, InStages
  PROVE  /\ This \in AnyRun /\ cmd.name \in Names /\ This.sealed = FALSE
         /\ This = runs[cmd.name] /\ ProgressOf(This, cmd.at)
         /\ cmd.config \in Contracts /\ cmd.text \in {1, 2} /\ export \in Exports
         /\ This.result # None => This.nodeC # None /\ This.nodeC.answer = "approve"
         /\ ~meddled => /\ cmd.text = docs.text /\ This.contract \in {None, cmd.config}
                        /\ ShapeOf(This, cmd.name)
                        /\ Current(This, cmd.at, cmd.text, export)
<1>1. cmd.name \in Names /\ runs[cmd.name] # None /\ ~runs[cmd.name].sealed
      /\ cmd.config # None
  BY DEF LiveInv, NameInv, InConfirm, InRerun
<1>2. This \in AnyRun /\ This = runs[cmd.name]
  BY <1>1 DEF LiveInv, LiveType, TypeOK, Present, This
<1>3. This.sealed = FALSE
  BY <1>1, <1>2 DEF AnyRun
<1>4. cmd.config \in Contracts /\ cmd.text \in {1, 2} /\ export \in Exports
  BY <1>1 DEF LiveInv, LiveType, TypeOK, Commands, Present
<1>5. This.result # None => This.nodeC # None /\ This.nodeC.answer = "approve"
  BY <1>1, <1>2 DEF LiveInv, LiveType, TypeOK
<1>6. ProgressOf(This, cmd.at)
  BY <1>2 DEF LiveInv, ProgressInv
<1>7. ASSUME ~meddled
      PROVE  /\ cmd.text = docs.text /\ This.contract \in {None, cmd.config}
             /\ ShapeOf(This, cmd.name) /\ Current(This, cmd.at, cmd.text, export)
  <2>1. ShapeOf(This, cmd.name) /\ Current(This, cmd.at, cmd.text, export)
    BY <1>1, <1>2, <1>7 DEF LiveInv, ShapeInv
  <2>2. cmd.text = docs.text
    BY <1>7 DEF LiveInv, ConfirmInv, InConfirm, InRerun, InStages
  <2>3. This.contract \in {None, cmd.config}
    <3>1. CASE InRerun
      <4>1. cmd.config = runs[cmd.from].contract
        BY <3>1 DEF LiveInv, NameInv
      <4>2. RerunOf(This, cmd.at, runs[cmd.from], cmd.from, docs.text, export)
        BY <1>2, <1>7, <3>1 DEF LiveInv, RerunInv
      <4> QED
        BY <1>6, <4>1, <4>2 DEF InStages, RerunOf, Repeated, ProgressOf
    <3>2. CASE ~InRerun
      <4>1. InConfirm
        BY <3>2 DEF InConfirm, InRerun
      <4>2. TokenHolds /\ glanced[cmd.name] = token.config /\ cmd.config = config
        BY <1>7, <4>1 DEF LiveInv, ConfirmInv, InStages
      <4>3. PICK k \in 1..MaxRuns : cmd.name = <<k, 0>>
        BY <1>1, <4>1 DEF LiveInv, NameInv, Names
      <4>4. This.contract \in {None, glanced[cmd.name]}
        BY <1>1, <1>2, <1>7, <4>3 DEF LiveInv, ConfirmInv
      <4> QED
        BY <4>2, <4>4 DEF TokenHolds
    <3> QED
      BY <3>1, <3>2
  <2> QED
    BY <2>1, <2>2, <2>3
<1> QED
  BY <1>1, <1>2, <1>3, <1>4, <1>5, <1>6, <1>7

(* The source of a rerun.                                                  *)
LEMMA SourceFacts ==
  ASSUME LiveInv, InRerun
  PROVE  /\ cmd.from \in Names /\ runs[cmd.from] \in AnyRun
         /\ runs[cmd.from].contract # None /\ cmd.config = runs[cmd.from].contract
         /\ cmd.compare <=> runs[cmd.from].reference # None
         /\ cmd.name = <<cmd.from[1], cmd.from[2] + 1>> /\ cmd.from[2] \in Nat
         /\ ~meddled => ShapeOf(runs[cmd.from], cmd.from) /\ EndedOf(runs[cmd.from])
<1>1. /\ runs[cmd.from] # None /\ runs[cmd.from].sealed /\ runs[cmd.from].contract # None
      /\ cmd.config = runs[cmd.from].contract
      /\ cmd.compare <=> runs[cmd.from].reference # None
      /\ cmd.name = <<cmd.from[1], cmd.from[2] + 1>>
  BY DEF LiveInv, NameInv
<1>2. cmd.from \in Names
  BY DEF LiveInv, LiveType, Commands, Present, InRerun
<1>3. runs[cmd.from] \in AnyRun /\ cmd.from[2] \in Nat
  BY <1>1, <1>2, Bounds DEF LiveInv, LiveType, TypeOK, Present, Names
<1>4. ~meddled => ShapeOf(runs[cmd.from], cmd.from) /\ EndedOf(runs[cmd.from])
  BY <1>1, <1>2 DEF LiveInv, ShapeInv
<1> QED
  BY <1>1, <1>2, <1>3, <1>4

LEMMA IngestExportKeeps == LiveInv /\ IngestExport => LiveInv'
<1> SUFFICES ASSUME LiveInv, IngestExport PROVE LiveInv'
  OBVIOUS
<1>1. cmd.at = "ingest" /\ InStages
  BY DEF IngestExport, At, InStages
<1>2. /\ This \in AnyRun /\ This.sealed = FALSE /\ This = runs[cmd.name]
      /\ ProgressOf(This, "ingest") /\ export \in Exports
  BY <1>1, StageFacts
<1>3. CASE export = "bad"
  <2>1. PICK r : r = [This EXCEPT !.halt = "export", !.missing = None]
    OBVIOUS
  <2>2. Write(r, "seal")
    BY <1>3, <2>1 DEF IngestExport, HaltRun, HaltAt
  <2>3. /\ r \in AnyRun /\ r.hash = This.hash /\ ~r.sealed /\ r.contract = None
        /\ r.result = None
    BY <1>2, <2>1, ZenonT(60) DEF AnyRun, Present, Halts, ProgressOf
  <2>4. ProgressOf(r, "seal") /\ ShapeOf(r, cmd.name)
        /\ Current(r, "seal", cmd.text, export)
        /\ RerunOf(r, "seal", runs[cmd.from], cmd.from, docs.text, export)
    BY <1>3, <2>3 DEF ProgressOf, ShapeOf, Current, EndedOf, RerunOf, Repeated
  <2> QED
    BY <1>1, <1>2, <2>2, <2>3, <2>4, StageStep
<1>4. CASE export # "bad"
  <2>1. PICK r : r = [This EXCEPT !.export = export]
    OBVIOUS
  <2>2. Write(r, "contract")
    BY <1>4, <2>1 DEF IngestExport
  <2>3. /\ r \in AnyRun /\ r.hash = This.hash /\ ~r.sealed /\ r.contract = None
        /\ r.result = None /\ r.export = export /\ r.export \in {"good", "other"}
        /\ r.nodeC = None /\ r.reference = None /\ r.halt = None /\ r.missing = None
    BY <1>2, <1>4, <2>1 DEF AnyRun, Present, Exports, ProgressOf
  <2>4. ProgressOf(r, "contract") /\ ShapeOf(r, cmd.name)
        /\ Current(r, "contract", cmd.text, export)
        /\ RerunOf(r, "contract", runs[cmd.from], cmd.from, docs.text, export)
    BY <2>3 DEF ProgressOf, ShapeOf, Current, EndedOf, RerunOf
  <2> QED
    BY <1>1, <1>2, <2>2, <2>3, <2>4, StageStep
<1> QED
  BY <1>3, <1>4

(* The contract that is built anew from the recorded answer is the one of  *)
(* the configuration that was read.                                        *)
LEMMA ReplayNodeAKeeps == LiveInv /\ ReplayNodeA => LiveInv'
<1> SUFFICES ASSUME LiveInv, ReplayNodeA PROVE LiveInv'
  OBVIOUS
<1>1. cmd.at = "contract" /\ InStages
  BY DEF ReplayNodeA, At, InStages
<1>2. /\ This \in AnyRun /\ This.sealed = FALSE /\ This = runs[cmd.name]
      /\ ProgressOf(This, "contract") /\ cmd.config \in Contracts
      /\ ~meddled => cmd.text = docs.text /\ Current(This, "contract", cmd.text, export)
  BY <1>1, StageFacts
<1>3. PICK a, r : /\ a = RecordedA /\ a # None /\ a.prompt = cmd.text
                  /\ r = [This EXCEPT !.nodeA = a,
                                      !.contract = Contract(a.answer, cmd.config.file)]
                  /\ Write(r, "gate1")
  BY DEF ReplayNodeA
<1>4. a \in AnyArchive
  <2>1. CASE InRerun
    BY <1>3, <2>1, SourceFacts DEF RecordedA, Rerunning, InRerun, AnyRun, Present
  <2>2. CASE ~InRerun
    <3>1. archive \in AnyArchive
      BY <1>1, <2>2 DEF LiveInv, NameInv, InConfirm, InRerun
    <3> QED
      BY <1>3, <2>2, <3>1 DEF RecordedA, Rerunning, InRerun
  <2> QED
    BY <2>1, <2>2
<1>5. Contract(a.answer, cmd.config.file) \in Contracts
      /\ Contract(a.answer, cmd.config.file) # None
  <2>1. Contract(a.answer, cmd.config.file) \in Contracts
    BY <1>2, <1>4 DEF Contract, Contracts, AnyArchive
  <2> QED
    BY <2>1, Nones
<1>6. /\ r \in AnyRun /\ r.hash = This.hash /\ ~r.sealed /\ r.nodeA = a
      /\ r.contract = Contract(a.answer, cmd.config.file) /\ r.contract # None
      /\ r.result = None /\ r.nodeC = None /\ r.halt = None /\ r.reference = None
      /\ r.missing = None /\ r.export = This.export /\ r.export \in {"good", "other"}
  BY <1>2, <1>3, <1>4, <1>5, ZenonT(60) DEF AnyRun, Present, ProgressOf
<1>7. r.contract.answer = r.nodeA.answer
  BY <1>6 DEF Contract
<1>8. ProgressOf(r, "gate1") /\ ShapeOf(r, cmd.name)
  BY <1>3, <1>6, <1>7 DEF ProgressOf, ShapeOf
<1>9. ASSUME ~meddled
      PROVE  /\ r.contract = cmd.config /\ Current(r, "gate1", cmd.text, export)
             /\ InRerun => RerunOf(r, "gate1", runs[cmd.from], cmd.from, docs.text, export)
  <2>1. a.answer = cmd.config.answer /\ (InRerun => a = runs[cmd.from].nodeA)
    <3>1. CASE InRerun
      BY <1>3, <1>9, <3>1, SourceFacts DEF RecordedA, Rerunning, InRerun, ShapeOf
    <3>2. CASE ~InRerun
      <4>1. InConfirm
        BY <1>1, <3>2 DEF InConfirm, InRerun
      <4>2. TokenHolds /\ cmd.config = config /\ token.config.answer = token.archive.answer
        BY <1>1, <1>9, <4>1 DEF LiveInv, LiveType, TypeOK, Stored, ConfirmInv,
          ExtractInv, TokenHolds
      <4> QED
        BY <1>3, <3>2, <4>2 DEF RecordedA, Rerunning, InRerun, TokenHolds
    <3> QED
      BY <3>1, <3>2
  <2>2. r.contract = cmd.config
    BY <1>2, <1>6, <2>1 DEF Contract, Contracts
  <2>3. Current(r, "gate1", cmd.text, export)
    BY <1>2, <1>3, <1>6, <1>9 DEF Current
  <2>4. InRerun => RerunOf(r, "gate1", runs[cmd.from], cmd.from, docs.text, export)
    BY <1>2, <1>3, <1>6, <1>9, <2>1, <2>2, SourceFacts DEF RerunOf
  <2> QED
    BY <2>2, <2>3, <2>4
<1> QED
  BY <1>1, <1>2, <1>3, <1>6, <1>8, <1>9, StageStep

(* A run that halts before it has a contract.                              *)
LEMMA HaltBeforeContract ==
  ASSUME LiveInv, cmd.at = "contract", NEW reason \in Halts,
         NEW where \in Present(Names), HaltAt(reason, where),
         ~meddled /\ InRerun => runs[cmd.from].nodeA.prompt # docs.text
  PROVE  LiveInv'
<1>1. InStages
  BY DEF InStages
<1>2. /\ This \in AnyRun /\ This.sealed = FALSE /\ This = runs[cmd.name]
      /\ ProgressOf(This, "contract")
  BY <1>1, StageFacts
<1>3. PICK r : /\ r = [This EXCEPT !.halt = reason, !.missing = where]
               /\ Write(r, "seal")
  BY DEF HaltAt
<1>4. r \in AnyRun /\ r.hash = This.hash /\ ~r.sealed /\ r.contract = None /\ r.result = None
  BY <1>2, <1>3 DEF AnyRun, Present, ProgressOf
<1>5. ProgressOf(r, "seal") /\ ShapeOf(r, cmd.name)
      /\ Current(r, "seal", cmd.text, export)
  BY <1>4 DEF ProgressOf, ShapeOf, Current, EndedOf
<1>6. ~meddled /\ InRerun => RerunOf(r, "seal", runs[cmd.from], cmd.from, docs.text, export)
  BY <1>4 DEF RerunOf, Repeated
<1> QED
  BY <1>1, <1>2, <1>3, <1>4, <1>5, <1>6, StageStep

LEMMA ReplayNodeAFailsKeeps == LiveInv /\ ReplayNodeAFails => LiveInv'
<1> SUFFICES ASSUME LiveInv, ReplayNodeAFails PROVE LiveInv'
  OBVIOUS
<1>1. cmd.at = "contract" /\ InStages
  BY DEF ReplayNodeAFails, At, InStages
<1>2. ~meddled /\ InRerun => /\ RecordedA = runs[cmd.from].nodeA /\ RecordedA # None
                             /\ cmd.text = docs.text
  BY <1>1, SourceFacts, StageFacts DEF RecordedA, Rerunning, InRerun, ShapeOf
<1>3. CASE RecordedA = None /\ HaltWithoutArchive
  <2>1. cmd.from \in Present(Names) /\ HaltAt("no archive", cmd.from)
    BY <1>3 DEF LiveInv, LiveType, Commands, HaltWithoutArchive
  <2> QED
    BY <1>1, <1>2, <1>3, <2>1, HaltBeforeContract DEF Halts
<1>4. CASE RecordedA.prompt # cmd.text /\ HaltRun("prompt")
  <2>1. None \in Present(Names) /\ HaltAt("prompt", None)
    BY <1>4 DEF HaltRun, Present
  <2> QED
    BY <1>1, <1>2, <1>4, <2>1, HaltBeforeContract DEF Halts
<1> QED
  BY <1>3, <1>4 DEF ReplayNodeAFails

(* The review that a run gets, from the model or from the record.          *)
LEMMA ReviewedKeeps ==
  ASSUME LiveInv, cmd.at = "gate1", NEW c \in Reviews, c.prompt = PromptC, Reviewed(c),
         ~meddled /\ InRerun => c = runs[cmd.from].nodeC
  PROVE  LiveInv'
<1>1. InStages
  BY DEF InStages
<1>2. /\ This \in AnyRun /\ This.sealed = FALSE /\ This = runs[cmd.name]
      /\ ProgressOf(This, "gate1")
      /\ ~meddled => /\ cmd.text = docs.text /\ This.contract \in {None, cmd.config}
                     /\ ShapeOf(This, cmd.name) /\ Current(This, "gate1", cmd.text, export)
  BY <1>1, StageFacts
<1>3. c # None /\ c.answer \in {"approve", "reject"} /\ c.prompt = <<This.contract, cmd.text>>
  BY Nones DEF Reviews, PromptC
<1>4. ~meddled /\ InRerun => RerunOf(This, "gate1", runs[cmd.from], cmd.from, docs.text, export)
  BY <1>2 DEF LiveInv, RerunInv
<1>5. CASE c.answer = "approve"
  <2>1. PICK r : r = [This EXCEPT !.nodeC = c]
    OBVIOUS
  <2>2. Write(r, "analyse")
    BY <1>5, <2>1 DEF Reviewed
  <2>3. /\ r \in AnyRun /\ r.hash = This.hash /\ ~r.sealed /\ r.nodeA = This.nodeA
        /\ r.contract = This.contract /\ r.export = This.export
        /\ r.result = None /\ r.nodeC = c /\ r.halt = None /\ r.reference = None
        /\ r.missing = None /\ r.contract # None /\ r.export \in {"good", "other"}
    BY <1>2, <2>1 DEF AnyRun, Present, ProgressOf
  <2>4. ProgressOf(r, "analyse")
    BY <1>3, <1>5, <2>3 DEF ProgressOf
  <2>5. ASSUME ~meddled
        PROVE  /\ ShapeOf(r, cmd.name) /\ Current(r, "analyse", cmd.text, export)
               /\ InRerun => RerunOf(r, "analyse", runs[cmd.from], cmd.from, docs.text, export)
    BY <1>2, <1>3, <1>4, <2>3, <2>5 DEF ShapeOf, Current, RerunOf
  <2> QED
    BY <1>1, <1>2, <2>2, <2>3, <2>4, <2>5, StageStep
<1>6. CASE c.answer = "reject"
  <2>1. PICK r : r = [This EXCEPT !.nodeC = c, !.halt = "rejected"]
    OBVIOUS
  <2>2. Write(r, "seal")
    BY <1>2, <1>6, <2>1 DEF Reviewed, AnyRun
  <2>3. /\ r \in AnyRun /\ r.hash = This.hash /\ ~r.sealed /\ r.nodeA = This.nodeA
        /\ r.contract = This.contract /\ r.export = This.export
        /\ r.result = None /\ r.nodeC = c /\ r.halt = "rejected" /\ r.reference = None
        /\ r.missing = None /\ r.contract # None /\ r.export \in {"good", "other"}
    BY <1>2, <2>1, ZenonT(60) DEF AnyRun, Present, Halts, ProgressOf
  <2>4. ProgressOf(r, "seal")
    BY <1>3, <2>3 DEF ProgressOf
  <2>5. ASSUME ~meddled
        PROVE  /\ ShapeOf(r, cmd.name) /\ Current(r, "seal", cmd.text, export)
               /\ InRerun => RerunOf(r, "seal", runs[cmd.from], cmd.from, docs.text, export)
    <3>1. ShapeOf(r, cmd.name) /\ Current(r, "seal", cmd.text, export)
      BY <1>2, <1>3, <1>6, <2>3, <2>5 DEF ShapeOf, Current, EndedOf
    <3>2. ASSUME InRerun
          PROVE  RerunOf(r, "seal", runs[cmd.from], cmd.from, docs.text, export)
      <4>1. runs[cmd.from].reference = None
        BY <1>3, <1>6, <2>5, <3>2, SourceFacts DEF ShapeOf
      <4> QED
        BY <1>2, <1>3, <1>4, <1>6, <2>3, <2>5, <3>2, <4>1 DEF RerunOf, Repeated, Current
    <3> QED
      BY <3>1, <3>2
  <2> QED
    BY <1>1, <1>2, <2>2, <2>3, <2>4, <2>5, StageStep
<1> QED
  BY <1>3, <1>5, <1>6

(* The source of a rerun is the run its name was derived from. *)
LEMMA SourceName ==
  ASSUME LiveInv, InRerun
  PROVE  cmd.from = <<cmd.name[1], cmd.name[2] - 1>>
<1>1. PICK f \in Names : f = cmd.from
  BY SourceFacts
<1>2. cmd.name = <<f[1], f[2] + 1>> /\ f[2] \in Nat
  BY <1>1, SourceFacts
<1>3. cmd.name[1] = f[1] /\ cmd.name[2] = f[2] + 1
  BY <1>2
<1>4. f = <<f[1], f[2]>>
  BY DEF Names
<1>5. cmd.name[2] - 1 = f[2]
  BY <1>2, <1>3
<1> QED
  BY <1>1, <1>3, <1>4, <1>5

(* A run that halts at the gate: nobody answers, or nothing is on record.  *)
LEMMA HaltAtGate ==
  ASSUME LiveInv, cmd.at = "gate1", NEW reason \in Halts,
         NEW where \in Present(Names), HaltAt(reason, where),
         ~meddled => /\ reason \in {"provider", "no archive"}
                     /\ ~InRerun => where = None
                     /\ InRerun => /\ reason = "no archive" /\ where = cmd.from
                                   /\ runs[cmd.from].nodeC = None
  PROVE  LiveInv'
<1>1. InStages
  BY DEF InStages
<1>2. /\ This \in AnyRun /\ This.sealed = FALSE /\ This = runs[cmd.name]
      /\ ProgressOf(This, "gate1")
      /\ ~meddled => /\ cmd.text = docs.text /\ This.contract \in {None, cmd.config}
                     /\ ShapeOf(This, cmd.name) /\ Current(This, "gate1", cmd.text, export)
  BY <1>1, StageFacts
<1>3. PICK r : /\ r = [This EXCEPT !.halt = reason, !.missing = where]
               /\ Write(r, "seal")
  BY DEF HaltAt
<1>4. /\ r \in AnyRun /\ r.hash = This.hash /\ ~r.sealed /\ r.nodeA = This.nodeA
      /\ r.contract = This.contract /\ r.export = This.export
      /\ r.result = None /\ r.nodeC = None /\ r.halt = reason /\ r.reference = None
      /\ r.missing = where /\ r.contract # None /\ r.export \in {"good", "other"}
  BY <1>2, <1>3 DEF AnyRun, Present, ProgressOf
<1>5. ProgressOf(r, "seal")
  BY <1>4 DEF ProgressOf
<1>6. ASSUME ~meddled
      PROVE  /\ ShapeOf(r, cmd.name) /\ Current(r, "seal", cmd.text, export)
             /\ InRerun => RerunOf(r, "seal", runs[cmd.from], cmd.from, docs.text, export)
  <2>1. where # None => where = <<cmd.name[1], cmd.name[2] - 1>>
    <3>1. CASE InRerun
      BY <1>6, <3>1, SourceName
    <3>2. CASE ~InRerun
      BY <1>6, <3>2
    <3> QED
      BY <3>1, <3>2
  <2>2. ShapeOf(r, cmd.name) /\ Current(r, "seal", cmd.text, export)
    BY <1>2, <1>4, <1>6, <2>1 DEF ShapeOf, Current, EndedOf
  <2>3. ASSUME InRerun
        PROVE  RerunOf(r, "seal", runs[cmd.from], cmd.from, docs.text, export)
    <3>1. RerunOf(This, "gate1", runs[cmd.from], cmd.from, docs.text, export)
      BY <1>2, <1>6, <2>3 DEF LiveInv, RerunInv
    <3>2. runs[cmd.from].nodeC = None /\ runs[cmd.from].reference = None
      BY <1>6, <2>3, SourceFacts DEF ShapeOf
    <3> QED
      BY <1>2, <1>4, <1>6, <2>3, <3>1, <3>2 DEF RerunOf, Repeated, Current
  <2> QED
    BY <2>2, <2>3
<1> QED
  BY <1>1, <1>2, <1>3, <1>4, <1>5, <1>6, StageStep

LEMMA PromptCType ==
  ASSUME LiveInv, cmd.at = "gate1"
  PROVE  PromptC \in Contracts \X {1, 2}
<1>1. InStages
  BY DEF InStages
<1>2. This \in AnyRun /\ This.contract # None /\ cmd.text \in {1, 2}
  BY <1>1, StageFacts DEF ProgressOf
<1> QED
  BY <1>2 DEF PromptC, AnyRun, Present

LEMMA AskNodeCKeeps == LiveInv /\ AskNodeC => LiveInv'
<1> SUFFICES ASSUME LiveInv, AskNodeC PROVE LiveInv'
  OBVIOUS
<1>1. cmd.at = "gate1" /\ ~InRerun
  BY DEF AskNodeC, At, Rerunning, InRerun
<1>2. PICK v \in {"approve", "reject"} : Reviewed(Archived(PromptC, v))
  BY DEF AskNodeC
<1>3. PICK c : c = Archived(PromptC, v)
  OBVIOUS
<1>4. c \in Reviews /\ c.prompt = PromptC
  BY <1>1, <1>3, PromptCType DEF Archived, Reviews
<1> QED
  BY <1>1, <1>2, <1>3, <1>4, ReviewedKeeps

LEMMA NodeCFailsKeeps == LiveInv /\ NodeCFails => LiveInv'
<1> SUFFICES ASSUME LiveInv, NodeCFails PROVE LiveInv'
  OBVIOUS
<1>1. /\ cmd.at = "gate1" /\ ~InRerun /\ HaltAt("provider", None)
      /\ "provider" \in Halts /\ None \in Present(Names)
  BY DEF NodeCFails, At, Rerunning, InRerun, Halts, HaltRun, Present
<1> QED
  BY <1>1, HaltAtGate

(* On the record is the review of the very contract that was built anew.   *)
LEMMA ReplayNodeCKeeps == LiveInv /\ ReplayNodeC => LiveInv'
<1> SUFFICES ASSUME LiveInv, ReplayNodeC PROVE LiveInv'
  OBVIOUS
<1>1. cmd.at = "gate1" /\ InRerun /\ InStages
  BY DEF ReplayNodeC, At, Rerunning, InRerun, InStages
<1>2. PICK c : c = runs[cmd.from].nodeC
  OBVIOUS
<1>3. c \in Present(Reviews)
  BY <1>1, <1>2, SourceFacts DEF AnyRun
<1>4. CASE c = None
  <2>1. /\ HaltAt("no archive", cmd.from) /\ "no archive" \in Halts
        /\ cmd.from \in Present(Names)
    BY <1>2, <1>4 DEF ReplayNodeC, HaltWithoutArchive, Halts, LiveInv, LiveType, Commands
  <2> QED
    BY <1>1, <1>2, <1>4, <2>1, HaltAtGate
<1>5. CASE c # None /\ c.prompt # PromptC
  <2>1. HaltAt("prompt", None) /\ "prompt" \in Halts /\ None \in Present(Names)
    BY <1>2, <1>5 DEF ReplayNodeC, HaltRun, Halts, Present
  <2>2. meddled
    <3> SUFFICES ASSUME ~meddled PROVE FALSE
      OBVIOUS
    <3>1. c.prompt = <<runs[cmd.from].contract, runs[cmd.from].nodeA.prompt>>
      BY <1>1, <1>2, <1>5, SourceFacts DEF ShapeOf
    <3>2. RerunOf(This, "gate1", runs[cmd.from], cmd.from, docs.text, export)
          /\ cmd.text = docs.text
      BY <1>1, StageFacts DEF LiveInv, RerunInv
    <3> QED
      BY <1>5, <3>1, <3>2 DEF RerunOf, PromptC
  <2> QED
    BY <1>1, <2>1, <2>2, HaltAtGate
<1>6. CASE c # None /\ c.prompt = PromptC
  <2>1. c \in Reviews /\ Reviewed(c)
    BY <1>2, <1>3, <1>6 DEF ReplayNodeC, Present
  <2> QED
    BY <1>1, <1>2, <1>6, <2>1, ReviewedKeeps
<1> QED
  BY <1>4, <1>5, <1>6

LEMMA AnalyseKeeps == LiveInv /\ Analyse => LiveInv'
<1> SUFFICES ASSUME LiveInv, Analyse PROVE LiveInv'
  OBVIOUS
<1>1. cmd.at = "analyse" /\ InStages
  BY DEF Analyse, At, InStages
<1>2. /\ This \in AnyRun /\ This.sealed = FALSE /\ This = runs[cmd.name]
      /\ ProgressOf(This, "analyse") /\ export \in Exports
      /\ ~meddled => /\ cmd.text = docs.text /\ This.contract \in {None, cmd.config}
                     /\ ShapeOf(This, cmd.name) /\ Current(This, "analyse", cmd.text, export)
  BY <1>1, StageFacts
<1>3. PICK r, step :
        /\ r = [This EXCEPT !.result = <<This.contract, export>>]
        /\ step = IF cmd.compare THEN "reference" ELSE "seal"
        /\ Write(r, step)
  BY DEF Analyse
<1>4. <<This.contract, export>> \in Contracts \X Exports
  BY <1>2 DEF AnyRun, Present, ProgressOf
<1>5. <<This.contract, export>> # None
  BY <1>4, Nones
<1>6. /\ r \in AnyRun /\ r.hash = This.hash /\ ~r.sealed /\ r.nodeA = This.nodeA
      /\ r.contract = This.contract /\ r.export = This.export /\ r.nodeC = This.nodeC
      /\ r.result = <<This.contract, export>> /\ r.halt = None /\ r.reference = None
      /\ r.missing = None
      /\ r.contract # None /\ r.export \in {"good", "other"} /\ r.result # None
      /\ r.nodeC # None /\ r.nodeC.answer = "approve"
  BY <1>2, <1>3, <1>4, <1>5 DEF AnyRun, Present, ProgressOf
<1>7. ProgressOf(r, step) /\ step \in {"reference", "seal"}
  BY <1>3, <1>6 DEF ProgressOf
<1>8. ASSUME ~meddled
      PROVE  /\ ShapeOf(r, cmd.name) /\ Current(r, step, cmd.text, export)
             /\ InRerun => RerunOf(r, step, runs[cmd.from], cmd.from, docs.text, export)
  <2>1. ShapeOf(r, cmd.name) /\ Current(r, step, cmd.text, export)
    BY <1>2, <1>6, <1>7, <1>8 DEF ShapeOf, Current, EndedOf
  <2>2. ASSUME InRerun
        PROVE  RerunOf(r, step, runs[cmd.from], cmd.from, docs.text, export)
    <3>1. RerunOf(This, "analyse", runs[cmd.from], cmd.from, docs.text, export)
      BY <1>1, <1>2, <1>8, <2>2 DEF LiveInv, RerunInv
    <3>2. step = "seal" => runs[cmd.from].reference = None
      BY <1>3, <2>2, SourceFacts
    <3> QED
      BY <1>2, <1>6, <1>7, <1>8, <2>2, <3>1, <3>2 DEF RerunOf, Repeated, Current
  <2> QED
    BY <2>1, <2>2
<1> QED
  BY <1>1, <1>2, <1>3, <1>6, <1>7, <1>8, StageStep

(* What either kind of run leaves where the report names a run.            *)
LEMMA CompareReferenceKeeps == LiveInv /\ CompareReference => LiveInv'
<1> SUFFICES ASSUME LiveInv, CompareReference PROVE LiveInv'
  OBVIOUS
<1>1. cmd.at = "reference" /\ InStages /\ cmd.compare
  BY DEF CompareReference, At, InStages, LiveInv, ProgressInv
<1>2. /\ This \in AnyRun /\ This.sealed = FALSE /\ This = runs[cmd.name]
      /\ ProgressOf(This, "reference") /\ cmd.name \in Names
      /\ ~meddled => /\ cmd.text = docs.text /\ This.contract \in {None, cmd.config}
                     /\ ShapeOf(This, cmd.name) /\ Current(This, "reference", cmd.text, export)
  BY <1>1, StageFacts
<1>3. CASE InRerun
  <2>1. PICK r : r = [This EXCEPT !.reference = cmd.from] /\ Write(r, "seal")
    BY <1>3 DEF CompareReference, Rerunning, InRerun
  <2>2. /\ cmd.from \in Names /\ cmd.from # None /\ runs[cmd.from].reference # None
        /\ cmd.name = <<cmd.from[1], cmd.from[2] + 1>> /\ cmd.from[2] \in Nat
    BY <1>1, <1>3, SourceFacts DEF InRerun
  <2>3. /\ r \in AnyRun /\ r.hash = This.hash /\ ~r.sealed /\ r.nodeA = This.nodeA
        /\ r.contract = This.contract /\ r.export = This.export /\ r.nodeC = This.nodeC
        /\ r.result = This.result /\ r.halt = None /\ r.reference = cmd.from
        /\ r.missing = None
        /\ r.contract # None /\ r.export \in {"good", "other"} /\ r.result # None
        /\ r.nodeC # None /\ r.nodeC.answer = "approve"
    BY <1>2, <2>1, <2>2 DEF AnyRun, Present, ProgressOf
  <2>4. ProgressOf(r, "seal")
    BY <2>3 DEF ProgressOf
  <2>5. cmd.name[2] # 0 /\ cmd.from = <<cmd.name[1], cmd.name[2] - 1>>
    <3>1. cmd.name[1] = cmd.from[1] /\ cmd.name[2] = cmd.from[2] + 1
      BY <2>2
    <3>2. cmd.from = <<cmd.from[1], cmd.from[2]>>
      BY <2>2 DEF Names
    <3> QED
      BY <2>2, <3>1, <3>2
  <2>6. ASSUME ~meddled
        PROVE  /\ ShapeOf(r, cmd.name) /\ Current(r, "seal", cmd.text, export)
               /\ RerunOf(r, "seal", runs[cmd.from], cmd.from, docs.text, export)
    <3>1. RerunOf(This, "reference", runs[cmd.from], cmd.from, docs.text, export)
      BY <1>1, <1>2, <1>3, <2>6 DEF LiveInv, RerunInv
    <3>2. ShapeOf(r, cmd.name)
      BY <1>2, <2>3, <2>5, <2>6 DEF ShapeOf
    <3>3. Current(r, "seal", cmd.text, export)
      BY <1>2, <2>3, <2>6 DEF Current, EndedOf
    <3>4. RerunOf(r, "seal", runs[cmd.from], cmd.from, docs.text, export)
      BY <1>2, <2>2, <2>3, <2>6, <3>1 DEF RerunOf, Repeated, Current
    <3> QED
      BY <3>2, <3>3, <3>4
  <2> QED
    BY <1>1, <1>2, <2>1, <2>3, <2>4, <2>6, StageStep
<1>4. CASE ~InRerun /\ reference
  <2>1. PICK r : r = [This EXCEPT !.reference = cmd.name] /\ Write(r, "seal")
    BY <1>4 DEF CompareReference, Rerunning, InRerun
  <2>2. /\ r \in AnyRun /\ r.hash = This.hash /\ ~r.sealed /\ r.nodeA = This.nodeA
        /\ r.contract = This.contract /\ r.export = This.export /\ r.nodeC = This.nodeC
        /\ r.result = This.result /\ r.halt = None /\ r.reference = cmd.name
        /\ r.missing = None
        /\ r.contract # None /\ r.export \in {"good", "other"} /\ r.result # None
        /\ r.nodeC # None /\ r.nodeC.answer = "approve"
    BY <1>2, <2>1 DEF AnyRun, Present, ProgressOf
  <2>3. ProgressOf(r, "seal")
    BY <2>2 DEF ProgressOf
  <2>4. cmd.name[2] = 0
    BY <1>1, <1>4 DEF LiveInv, NameInv, InConfirm, InRerun
  <2>5. ASSUME ~meddled
        PROVE  ShapeOf(r, cmd.name) /\ Current(r, "seal", cmd.text, export)
    BY <1>2, <2>2, <2>4, <2>5 DEF ShapeOf, Current, EndedOf
  <2> QED
    BY <1>1, <1>2, <1>4, <2>1, <2>2, <2>3, <2>5, StageStep
<1>5. CASE ~InRerun /\ ~reference
  <2>1. PICK r : /\ r = [This EXCEPT !.halt = "no reference", !.missing = None]
                 /\ Write(r, "seal")
    BY <1>5 DEF CompareReference, Rerunning, InRerun, HaltRun, HaltAt
  <2>2. /\ r \in AnyRun /\ r.hash = This.hash /\ ~r.sealed /\ r.nodeA = This.nodeA
        /\ r.contract = This.contract /\ r.export = This.export /\ r.nodeC = This.nodeC
        /\ r.result = This.result /\ r.halt = "no reference" /\ r.reference = None
        /\ r.missing = None
        /\ r.contract # None /\ r.export \in {"good", "other"} /\ r.result # None
        /\ r.nodeC # None /\ r.nodeC.answer = "approve"
    BY <1>2, <2>1 DEF AnyRun, Present, Halts, ProgressOf
  <2>3. ProgressOf(r, "seal")
    BY <2>2 DEF ProgressOf
  <2>4. ASSUME ~meddled
        PROVE  ShapeOf(r, cmd.name) /\ Current(r, "seal", cmd.text, export)
    BY <1>2, <2>2, <2>4 DEF ShapeOf, Current, EndedOf
  <2> QED
    BY <1>1, <1>2, <1>5, <2>1, <2>2, <2>3, <2>4, StageStep
<1> QED
  BY <1>3, <1>4, <1>5

(* A sealed run is as its last stage left it.                              *)
LEMMA SealRunKeeps == LiveInv /\ SealRun => LiveInv'
<1> SUFFICES ASSUME LiveInv, SealRun PROVE LiveInv'
  OBVIOUS
<1>1. /\ cmd.at = "seal" /\ InStages
      /\ runs' = [runs EXCEPT ![cmd.name].sealed = TRUE]
      /\ UNCHANGED <<docs, export, reference, config, archive, token, glanced,
                     refused, extracts, edits, meddled>>
  BY DEF SealRun, At, InStages, inputs, pending, history
<1>2. /\ This \in AnyRun /\ This = runs[cmd.name] /\ cmd.name \in Names
      /\ This.result # None => This.nodeC # None /\ This.nodeC.answer = "approve"
      /\ ~meddled => /\ This.contract \in {None, cmd.config} /\ ShapeOf(This, cmd.name)
                     /\ Current(This, "seal", cmd.text, export)
  BY <1>1, StageFacts
<1>3. PICK r : r = [This EXCEPT !.sealed = TRUE]
  OBVIOUS
<1>4. /\ r \in AnyRun /\ r.hash = This.hash /\ r.sealed = TRUE /\ r.nodeA = This.nodeA
      /\ r.contract = This.contract /\ r.export = This.export /\ r.nodeC = This.nodeC
      /\ r.result = This.result /\ r.halt = This.halt /\ r.reference = This.reference
      /\ r.missing = This.missing
  BY <1>2, <1>3 DEF AnyRun
<1>5. r # None /\ runs[cmd.name] # None
  BY <1>1, <1>4, Nones DEF LiveInv, NameInv
<1>6. /\ runs' \in [Names -> Present(AnyRun)] /\ runs'[cmd.name] = r
      /\ \A n \in Names : n # cmd.name => runs'[n] = runs[n]
  BY <1>1, <1>2, <1>3, <1>4 DEF LiveInv, LiveType, TypeOK, Present
<1>7. /\ cmd' \in Commands /\ ~InStages' /\ ~InConfirm' /\ cmd'.at \in {"idle", "compare"}
      /\ InRerun' <=> cmd'.at = "compare"
      /\ InRerun' => /\ InRerun /\ cmd'.name = cmd.name /\ cmd'.from = cmd.from
                     /\ cmd'.text = cmd.text /\ cmd'.config = cmd.config
                     /\ cmd'.compare = cmd.compare
  <2>1. CASE InRerun
    <3>1. Then("compare")
      BY <2>1 DEF SealRun, Rerunning, InRerun
    <3> QED
      BY <2>1, <3>1, ThenType DEF Steps, InStages, InConfirm, InRerun
  <2>2. CASE ~InRerun
    <3>1. End
      BY <2>2 DEF SealRun, Rerunning, InRerun
    <3> QED
      BY <3>1, EndType DEF InStages, InConfirm, InRerun
  <2> QED
    BY <2>1, <2>2
<1>8. InRerun => /\ cmd.from \in Names /\ cmd.from # cmd.name
                 /\ runs'[cmd.from] = runs[cmd.from]
  <2>1. InRerun => cmd.from \in Names /\ cmd.name = <<cmd.from[1], cmd.from[2] + 1>>
                   /\ cmd.from[2] \in Nat
    BY SourceFacts
  <2>2. InRerun => cmd.from # cmd.name
    BY <2>1
  <2> QED
    BY <1>6, <2>1, <2>2
<1>9. LiveType'
  BY <1>1, <1>2, <1>4, <1>6, <1>7 DEF LiveInv, LiveType, TypeOK
<1>10. NameInv'
  <2>1. PICK c \in 0..MaxRuns : \A k \in 1..MaxRuns : runs[<<k, 0>>] # None <=> k <= c
    BY DEF LiveInv, NameInv
  <2>2. ASSUME NEW k \in 1..MaxRuns PROVE runs'[<<k, 0>>] # None <=> runs[<<k, 0>>] # None
    <3>1. <<k, 0>> \in Names
      BY Bounds DEF Names
    <3> QED
      BY <1>5, <1>6, <3>1
  <2>3. \E d \in 0..MaxRuns : \A k \in 1..MaxRuns : runs'[<<k, 0>>] # None <=> k <= d
    BY <2>1, <2>2
  <2> QED
    BY <1>2, <1>4, <1>5, <1>6, <1>7, <1>8, <2>3 DEF LiveInv, NameInv
<1>11. ExtractInv'
  BY <1>1, <1>7 DEF LiveInv, ExtractInv, TokenIsFresh, TokenHolds
<1>12. ProgressInv'
  BY <1>7 DEF ProgressInv
<1>13. ConfirmInv'
  <2> SUFFICES ASSUME ~meddled PROVE ConfirmInv'
    BY <1>1 DEF ConfirmInv
  <2>1. InRerun' => cmd'.text = docs.text
    BY <1>1, <1>7 DEF LiveInv, ConfirmInv
  <2>2. ASSUME NEW k \in 1..MaxRuns, runs'[<<k, 0>>] # None
        PROVE  /\ glanced[<<k, 0>>] # None /\ runs'[<<k, 0>>].hash = glanced[<<k, 0>>]
               /\ runs'[<<k, 0>>].contract \in {None, glanced[<<k, 0>>]}
    <3>1. <<k, 0>> \in Names
      BY Bounds DEF Names
    <3>2. runs[<<k, 0>>] # None /\ runs'[<<k, 0>>].hash = runs[<<k, 0>>].hash
          /\ runs'[<<k, 0>>].contract = runs[<<k, 0>>].contract
      <4>1. CASE <<k, 0>> = cmd.name
        BY <1>2, <1>4, <1>5, <1>6, <4>1
      <4>2. CASE <<k, 0>> # cmd.name
        BY <1>6, <2>2, <3>1, <4>2
      <4> QED
        BY <4>1, <4>2
    <3> QED
      BY <3>2 DEF LiveInv, ConfirmInv
  <2> QED
    BY <1>1, <1>7, <2>1, <2>2 DEF ConfirmInv
<1>14. ShapeInv'
  <2> SUFFICES ASSUME ~meddled PROVE ShapeInv'
    BY <1>1 DEF ShapeInv
  <2>1. ShapeOf(r, cmd.name) /\ EndedOf(r)
    BY <1>2, <1>4, ZenonT(60) DEF ShapeOf, EndedOf, Current
  <2>2. ASSUME NEW n \in Names, runs'[n] # None PROVE ShapeOf(runs'[n], n)
    BY <1>6, <2>1, <2>2 DEF LiveInv, ShapeInv
  <2>3. ASSUME NEW n \in Names, runs'[n] # None, runs'[n].sealed PROVE EndedOf(runs'[n])
    BY <1>6, <2>1, <2>3 DEF LiveInv, ShapeInv
  <2> QED
    BY <1>7, <2>2, <2>3 DEF ShapeInv
<1>15. RerunInv'
  <2> SUFFICES ASSUME ~meddled, InRerun' PROVE RerunInv'
    BY <1>1 DEF RerunInv
  <2>1. RerunOf(This, "seal", runs[cmd.from], cmd.from, docs.text, export)
    BY <1>1, <1>2, <1>7 DEF LiveInv, RerunInv
  <2>2. RerunOf(r, "compare", runs[cmd.from], cmd.from, docs.text, export)
    BY <1>4, <2>1 DEF RerunOf, Repeated
  <2> QED
    BY <1>1, <1>6, <1>7, <1>8, <2>2 DEF RerunInv
<1> QED
  BY <1>9, <1>10, <1>11, <1>12, <1>13, <1>14, <1>15 DEF LiveInv

-----------------------------------------------------------------------------
(* An edit under a command is one that meddled with it; one between two    *)
(* commands leaves everything that was done as it is.                      *)
LEMMA EditKeeps == LiveInv /\ Edit => LiveInv'
<1> SUFFICES ASSUME LiveInv, Edit PROVE LiveInv'
  OBVIOUS
<1>1. /\ edits' = edits + 1 /\ meddled' = (meddled \/ cmd.at # "idle")
      /\ UNCHANGED <<runs, cmd, glanced, refused, extracts>>
  BY DEF Edit, At
<1>2. /\ config \in Stored(Contracts) /\ archive \in Stored(AnyArchive)
      /\ docs \in Document /\ export \in Exports /\ reference \in BOOLEAN
      /\ edits \in Nat /\ meddled \in BOOLEAN
  BY DEF LiveInv, LiveType, TypeOK
<1>3. /\ docs' \in Document /\ export' \in Exports /\ reference' \in BOOLEAN
      /\ config' \in Stored(Contracts) /\ archive' \in Stored(AnyArchive)
      /\ token' = token
      /\ config \in Contracts => config' \in Contracts
      /\ archive \in AnyArchive => archive' \in AnyArchive
  <2>1. config \notin {None, Torn} => [config EXCEPT !.answer = "edited"] \in Contracts
    BY <1>2 DEF Stored, Contracts
  <2>2. archive \notin {None, Torn} =>
          [archive EXCEPT !.answer = "edited"] \in AnyArchive
    BY <1>2 DEF Stored, AnyArchive
  <2>3. CASE \E d \in Document \ {docs} : docs' = d /\ UNCHANGED <<export, reference, pending>>
    BY <1>2, <2>3 DEF pending
  <2>4. CASE \E e \in {"good", "other", "bad"} \ {export} :
               export' = e /\ UNCHANGED <<docs, reference, pending>>
    BY <1>2, <2>4 DEF pending, Exports
  <2>5. CASE reference' = ~reference /\ UNCHANGED <<docs, export, pending>>
    BY <1>2, <2>5 DEF pending
  <2>6. CASE /\ config \notin {None, Torn} /\ config' = [config EXCEPT !.answer = "edited"]
             /\ UNCHANGED <<inputs, archive, token>>
    BY <1>2, <2>1, <2>6 DEF inputs, Stored
  <2>7. CASE /\ archive \notin {None, Torn} /\ archive' = [archive EXCEPT !.answer = "edited"]
             /\ UNCHANGED <<inputs, config, token>>
    BY <1>2, <2>2, <2>7 DEF inputs, Stored
  <2> QED
    BY <2>3, <2>4, <2>5, <2>6, <2>7 DEF Edit
<1>4. edits' \in Nat /\ edits' # 0 /\ meddled' \in BOOLEAN
  BY <1>1, <1>2
<1>5. LiveType'
  BY <1>1, <1>3, <1>4 DEF LiveInv, LiveType, TypeOK
<1>6. (InStages' <=> InStages) /\ (InConfirm' <=> InConfirm) /\ (InRerun' <=> InRerun)
  BY <1>1 DEF InStages, InConfirm, InRerun
<1>7. NameInv'
  <2>1. PICK c \in 0..MaxRuns :
          /\ \A k \in 1..MaxRuns : runs[<<k, 0>>] # None <=> k <= c
          /\ cmd.at \in {"glance", "open"} => cmd.name = <<c + 1, 0>>
    BY DEF LiveInv, NameInv
  <2>2. \E d \in 0..MaxRuns :
          /\ \A k \in 1..MaxRuns : runs'[<<k, 0>>] # None <=> k <= d
          /\ cmd'.at \in {"glance", "open"} => cmd'.name = <<d + 1, 0>>
    BY <1>1, <2>1
  <2> QED
    BY <1>1, <1>3, <1>6, <2>2 DEF LiveInv, NameInv
<1>8. ExtractInv'
  BY <1>1, <1>3, <1>4 DEF LiveInv, ExtractInv, TokenIsFresh
<1>9. ProgressInv'
  BY <1>1, <1>6 DEF LiveInv, ProgressInv
<1>10. ConfirmInv' /\ ShapeInv' /\ RerunInv'
  <2>1. CASE cmd.at = "idle"
    <3>1. ~InStages /\ ~InConfirm /\ ~InRerun
      BY <2>1, Outside DEF InStages, InConfirm, InRerun
    <3>2. ConfirmInv'
      BY <1>1, <1>6, <2>1, <3>1 DEF LiveInv, ConfirmInv
    <3>3. ShapeInv' /\ RerunInv'
      BY <1>1, <1>6, <2>1, <3>1 DEF LiveInv, ShapeInv, RerunInv
    <3> QED
      BY <3>2, <3>3
  <2>2. CASE cmd.at # "idle"
    BY <1>1, <2>2 DEF ConfirmInv, ShapeInv, RerunInv
  <2> QED
    BY <2>1, <2>2
<1> QED
  BY <1>5, <1>7, <1>8, <1>9, <1>10 DEF LiveInv

LEMMA StutterKeeps ==
  ASSUME LiveInv, UNCHANGED vars
  PROVE  LiveInv'
<1>1. UNCHANGED <<docs, export, reference, config, archive, token, runs, cmd, glanced,
                  refused, extracts, edits, meddled>>
  BY DEF vars, inputs, pending, history
<1>2. (InStages' <=> InStages) /\ (InConfirm' <=> InConfirm) /\ (InRerun' <=> InRerun)
  BY <1>1 DEF InStages, InConfirm, InRerun
<1>3. LiveType' /\ ExtractInv' /\ ProgressInv'
  BY <1>1, <1>2 DEF LiveInv, LiveType, TypeOK, ExtractInv, TokenIsFresh, TokenHolds,
    ProgressInv
<1>4. NameInv'
  BY <1>1, <1>2 DEF LiveInv, NameInv
<1>5. ConfirmInv' /\ RerunInv'
  BY <1>1, <1>2 DEF LiveInv, ConfirmInv, TokenHolds, RerunInv
<1>6. ShapeInv'
  BY <1>1, <1>2 DEF LiveInv, ShapeInv
<1> QED
  BY <1>3, <1>4, <1>5, <1>6 DEF LiveInv

LEMMA InitHolds == Init => LiveInv
<1> SUFFICES ASSUME Init PROVE LiveInv
  OBVIOUS
<1>1. /\ cmd \in Commands /\ cmd.at = "idle" /\ cmd.from = None
      /\ \A n \in Names : runs[n] = None
      /\ config = None /\ archive = None /\ token = None
      /\ edits = 0 /\ extracts = 0 /\ meddled = FALSE
  BY NoCommandType DEF Init, NoCommand
<1>2. ~InStages /\ ~InConfirm /\ ~InRerun
  BY <1>1 DEF InStages, InConfirm, InRerun
<1>3. LiveType
  <2>1. docs \in Document /\ export \in Exports /\ reference \in BOOLEAN
    BY DEF Init, Document, Exports
  <2>2. runs \in [Names -> Present(AnyRun)] /\ glanced \in [Names -> Present(Contracts)]
    BY DEF Init, Present
  <2>3. /\ config \in Stored(Contracts) /\ archive \in Stored(AnyArchive)
        /\ token \in Stored(Tokens)
    BY <1>1 DEF Stored
  <2> QED
    BY <1>1, <2>1, <2>2, <2>3 DEF LiveType, TypeOK
<1>4. NameInv
  <2>1. \A k \in 1..MaxRuns : runs[<<k, 0>>] # None <=> k <= 0
    <3> SUFFICES ASSUME NEW k \in 1..MaxRuns PROVE runs[<<k, 0>>] = None /\ ~(k <= 0)
      OBVIOUS
    <3>1. <<k, 0>> \in Names /\ ~(k <= 0)
      BY Bounds DEF Names
    <3> QED
      BY <1>1, <3>1
  <2>2. 0 \in 0..MaxRuns
    BY Bounds
  <2> QED
    BY <1>1, <1>2, <2>1, <2>2 DEF NameInv
<1>5. ExtractInv /\ ProgressInv /\ RerunInv
  BY <1>1, <1>2, Nones DEF ExtractInv, TokenIsFresh, ProgressInv, RerunInv
<1>6. ConfirmInv
  <2>1. \A k \in 1..MaxRuns : runs[<<k, 0>>] = None
    BY <1>1, Bounds DEF Names
  <2> QED
    BY <1>2, <2>1 DEF ConfirmInv
<1>7. ShapeInv
  BY <1>1, <1>2 DEF ShapeInv
<1> QED
  BY <1>3, <1>4, <1>5, <1>6, <1>7 DEF LiveInv

LEMMA StepKeeps == LiveInv /\ [Next]_vars => LiveInv'
<1> SUFFICES ASSUME LiveInv, [Next]_vars PROVE LiveInv'
  OBVIOUS
<1>1. CASE StartExtract
  BY <1>1, StartExtractKeeps
<1>2. CASE RemoveFile
  BY <1>2, RemoveFileKeeps
<1>3. CASE AskNodeA
  BY <1>3, AskNodeAKeeps
<1>4. CASE NodeAFails
  BY <1>4, EndKeeps DEF NodeAFails
<1>5. CASE WriteConfig
  BY <1>5, WriteConfigKeeps
<1>6. CASE WriteToken
  BY <1>6, WriteTokenKeeps
<1>7. CASE VerifyToken
  BY <1>7, VerifyTokenKeeps
<1>8. CASE ReadGlanced
  BY <1>8, ReadGlancedKeeps
<1>9. CASE OpenRun
  BY <1>9, OpenRunKeeps
<1>10. CASE Rerun
  BY <1>10, StartRerunKeeps DEF Rerun
<1>11. CASE IngestExport
  BY <1>11, IngestExportKeeps
<1>12. CASE ReplayNodeA
  BY <1>12, ReplayNodeAKeeps
<1>13. CASE ReplayNodeAFails
  BY <1>13, ReplayNodeAFailsKeeps
<1>14. CASE AskNodeC
  BY <1>14, AskNodeCKeeps
<1>15. CASE NodeCFails
  BY <1>15, NodeCFailsKeeps
<1>16. CASE ReplayNodeC
  BY <1>16, ReplayNodeCKeeps
<1>17. CASE Analyse
  BY <1>17, AnalyseKeeps
<1>18. CASE CompareReference
  BY <1>18, CompareReferenceKeeps
<1>19. CASE SealRun
  BY <1>19, SealRunKeeps
<1>20. CASE Compare
  BY <1>20, EndKeeps DEF Compare
<1>21. CASE Crash
  BY <1>21, EndKeeps DEF Crash
<1>22. CASE Edit
  BY <1>22, EditKeeps
<1>23. CASE TakeDigests
  BY <1>23, TakeDigestsKeeps
<1>24. CASE TearFile
  BY <1>24, TearFileKeeps
<1>25. CASE UNCHANGED vars
  BY <1>25, StutterKeeps
<1> QED
  BY <1>1, <1>2, <1>3, <1>4, <1>5, <1>6, <1>7, <1>8, <1>9, <1>10, <1>11, <1>12, <1>13,
     <1>14, <1>15, <1>16, <1>17, <1>18, <1>19, <1>20, <1>21, <1>22, <1>23,
     <1>24, <1>25
     DEF Next, Extract, Confirm, Stages

LEMMA LiveInvariant == Spec => []LiveInv
BY InitHolds, StepKeeps, PTL DEF Spec

-----------------------------------------------------------------------------
(* Whatever is edited, and wherever a command dies, the files of a study   *)
(* have the shape the commands of live.py expect of them, and a run has a  *)
(* result only with an approval on file.                                   *)
THEOREM LiveTypeCorrect == Spec => []TypeOK
<1>1. LiveInv => TypeOK
  BY DEF LiveInv, LiveType
<1> QED
  BY <1>1, LiveInvariant, PTL

(* Whatever a death leaves of an extraction, half a removal, half a file,  *)
(* or a token without its answer: if nobody edits, a token that can be     *)
(* read and has an archived answer beside it binds that answer and the     *)
(* configuration that is there, and live_confirm accepts it.               *)
THEOREM TokensAreFresh == Spec => []TokenIsFresh
<1>1. LiveInv => TokenIsFresh
  BY DEF LiveInv, ExtractInv
<1> QED
  BY <1>1, LiveInvariant, PTL

(* "What runs must equal what was glanced": with no edit under a command,  *)
(* a confirmed run works with the contract that its token bound.           *)
THEOREM RunsAreWhatWasGlanced == Spec => []RunsWhatWasGlanced
<1>1. LiveInv => RunsWhatWasGlanced
  BY DEF LiveInv, ConfirmInv, RunsWhatWasGlanced
<1> QED
  BY <1>1, LiveInvariant, PTL

(* Two records of runs have the same tree if they differ, if at all, in    *)
(* what the manifest names.                                                *)
LEMMA SameTree ==
  ASSUME NEW r \in AnyRun, NEW s \in AnyRun
  PROVE  [r EXCEPT !.hash = None, !.sealed = TRUE] = [s EXCEPT !.hash = None, !.sealed = TRUE]
         <=> /\ r.export = s.export /\ r.contract = s.contract /\ r.nodeA = s.nodeA
             /\ r.nodeC = s.nodeC /\ r.result = s.result /\ r.reference = s.reference
             /\ r.halt = s.halt /\ r.missing = s.missing
BY DEF AnyRun

(* The identity assertion of live_rerun holds of just those runs whose     *)
(* documents and export are as they were, whose answers are all on file,   *)
(* and whose report, if it names a run, is not that of a rerun.  A halt    *)
(* for a missing answer names a run too: the one it was looked for in.     *)
LEMMA ExactRerun ==
  ASSUME LiveInv, ~meddled, cmd.at = "compare"
  PROVE  Reproduced <=> Reproducible(cmd.from)
<1>1. InRerun /\ runs[cmd.name] # None /\ cmd.name \in Names
  BY DEF LiveInv, NameInv
<1>2. PICK r, s, n : r = runs[cmd.name] /\ s = runs[cmd.from] /\ n = cmd.from
  OBVIOUS
<1>3. /\ n \in Names /\ s \in AnyRun /\ s.contract # None /\ n[2] \in Nat
      /\ cmd.name = <<n[1], n[2] + 1>> /\ ShapeOf(s, n) /\ EndedOf(s)
  BY <1>1, <1>2, SourceFacts
<1>4. r \in AnyRun /\ ShapeOf(r, cmd.name)
  BY <1>1, <1>2 DEF LiveInv, LiveType, TypeOK, Present, ShapeInv
<1>5. Repeated(r, s, n, docs.text, export)
  BY <1>1, <1>2, SMTT(30) DEF LiveInv, RerunInv, RerunOf
<1>6. Reproduced <=> /\ r.export = s.export /\ r.contract = s.contract /\ r.nodeA = s.nodeA
                     /\ r.nodeC = s.nodeC /\ r.result = s.result
                     /\ r.reference = s.reference /\ r.halt = s.halt
                     /\ r.missing = s.missing
  BY <1>2, <1>3, <1>4, SameTree DEF Reproduced, Tree
<1>7. Reproducible(cmd.from) <=> /\ s.nodeA.prompt = docs.text /\ s.export = export
                                 /\ s.halt \notin {"provider", "no archive", "no reference"}
                                 /\ s.reference # None => n[2] = 0
  BY <1>2 DEF Reproducible
<1>8. CASE r.contract = None
  <2>1. export = "bad" \/ s.nodeA.prompt # docs.text
    BY <1>5, <1>8 DEF Repeated
  <2>2. s.export # "bad"
    BY <1>3 DEF ShapeOf
  <2> QED
    BY <1>3, <1>6, <1>7, <1>8, <2>1, <2>2
<1>9. CASE r.contract # None
  <2>1. /\ r.nodeA = s.nodeA /\ s.nodeA.prompt = docs.text /\ r.contract = s.contract
        /\ r.export = export /\ r.nodeC = s.nodeC
        /\ s.nodeC = None => r.halt = "no archive" /\ r.missing = n
        /\ s.nodeC # None /\ s.nodeC.answer = "reject" => r.halt = "rejected"
        /\ s.nodeC # None /\ s.nodeC.answer = "approve" => r.halt = None
        /\ r.reference = IF s.reference = None THEN None ELSE n
    BY <1>5, <1>9 DEF Repeated
  <2>2. r.reference = s.reference <=> (s.reference # None => n[2] = 0)
    <3>1. s.reference # None => s.reference = IF n[2] = 0 THEN n ELSE <<n[1], n[2] - 1>>
      BY <1>3 DEF ShapeOf
    <3>2. n[2] # 0 => <<n[1], n[2] - 1>> # n
      BY <1>3
    <3>3. n # None
      BY <1>3, Nones
    <3> QED
      BY <2>1, <3>1, <3>2, <3>3
  <2>3. r.halt = s.halt /\ r.missing = s.missing
        <=> s.halt \notin {"provider", "no archive", "no reference"}
    <3>1. s.nodeC # None => s.nodeC.answer \in {"approve", "reject"}
      BY <1>3 DEF AnyRun, Present, Reviews
    <3>2. None \notin {"provider", "no archive", "no reference"}
      BY Nones DEF Halts
    <3>3. CASE s.nodeC = None
      <4>1. s.missing \in {None, <<n[1], n[2] - 1>>}
        BY <1>3 DEF ShapeOf
      <4>2. n # None /\ n # <<n[1], n[2] - 1>>
        BY <1>3, Nones
      <4>3. r.missing = n /\ s.halt \in {"provider", "no archive"}
        BY <1>3, <2>1, <3>3 DEF EndedOf
      <4> QED
        BY <4>1, <4>2, <4>3
    <3>4. CASE s.nodeC # None
      <4>1. s.missing = None /\ r.missing = None
        BY <1>3, <1>4, <1>9, <2>1, <3>4 DEF ShapeOf
      <4> QED
        BY <1>3, <2>1, <3>1, <3>2, <3>4, <4>1 DEF EndedOf
    <3> QED
      BY <3>3, <3>4
  <2>4. r.export = s.export => r.result = s.result
    <3>1. r.result # None <=> s.result # None
      <4>1. s.result # None <=> s.nodeC # None /\ s.nodeC.answer = "approve"
        BY <1>3 DEF EndedOf, ShapeOf, AnyRun, Present, Reviews
      <4>2. r.result # None <=> r.nodeC # None /\ r.nodeC.answer = "approve"
        BY <1>1, <1>2, <1>4, <1>9 DEF LiveInv, ShapeInv, NameInv, EndedOf, AnyRun,
          Present, Reviews, ShapeOf
      <4> QED
        BY <2>1, <4>1, <4>2
    <3>2. /\ r.result # None => r.result = <<r.contract, r.export>>
          /\ s.result # None => s.result = <<s.contract, s.export>>
      BY <1>3, <1>4, <1>9 DEF ShapeOf
    <3> QED
      BY <2>1, <3>1, <3>2
  <2> QED
    BY <1>6, <1>7, <2>1, <2>2, <2>3, <2>4
<1> QED
  BY <1>8, <1>9

(* As long as no edit was under a command, a rerun reproduces its source,  *)
(* byte for byte, just when the source is reproducible.                    *)
THEOREM RerunsAreExact == Spec => []RerunIsExact
<1>1. LiveInv => RerunIsExact
  BY ExactRerun DEF RerunIsExact, At
<1> QED
  BY <1>1, LiveInvariant, PTL

=============================================================================
