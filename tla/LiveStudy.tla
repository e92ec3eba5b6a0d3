------------------------------ MODULE LiveStudy ------------------------------
(***************************************************************************)
(* The live commands on one study directory (src/burhan/cli/live.py and    *)
(* contract/archive.py): "run --live" extracts a contract and leaves a     *)
(* token, "run --live --confirm" verifies the token and runs the stages,   *)
(* "rerun --live" repeats a sealed run from its recorded answers.  The     *)
(* researcher gives one command after the other, any of them may die, in   *)
(* the middle of a file too, and the files of the study may be edited      *)
(* between commands or under one.                                          *)
(*                                                                         *)
(* What a run leaves is reduced to what depends on the study's files and   *)
(* on the models' answers; a hash is what it is the hash of.               *)
(***************************************************************************)
EXTENDS Integers, FiniteSets

CONSTANTS
  Answers,       \* what Node A may answer
  None,          \* stands for a file that is not there
  Torn,          \* stands for a file whose write was cut short
  MaxExtracts,   \* how often a contract is extracted
  MaxRuns,       \* how many runs are confirmed
  MaxReruns,     \* how deep reruns are nested: X, X-rerun, X-rerun-rerun
  MaxEdits       \* how often a file of the study is edited

VARIABLES
  docs,          \* the documents: their text, and the file that has it
  export,        \* the survey export: "good", "other" or "bad"
  reference,     \* whether the reference file is there
  config,        \* config/study_config.yaml: a contract, None or Torn
  archive,       \* extract/node_a.0.json, None or Torn
  token,         \* extract/GLANCE_TOKEN.json: what it binds, None or Torn
  runs,          \* runs[n]: the run directory of name n, or None
  cmd,           \* the command that is going: its next step and locals
  glanced,       \* history: glanced[n] is the config the token of n bound
  refused,       \* history: the runs whose contract a rerun did not find
  extracts,      \* history: how many extractions were begun
  edits,         \* history: how many edits there were
  meddled        \* history: whether one of them was under a command

inputs  == <<docs, export, reference>>
pending == <<config, archive, token>>
history == <<glanced, refused, extracts, edits, meddled>>
vars    == <<inputs, pending, runs, cmd, history>>

(* A run is named by its number, and how often "-rerun" follows it.        *)
Names == (1..MaxRuns) \X (0..MaxReruns)

Document == [text : {1, 2}, file : {1, 2}]

(* A contract: what was answered, and the files it is said to come from.   *)
Contract(answer, file) == [answer |-> answer, file |-> file]

Contracts == [answer : Answers \cup {"edited"}, file : {1, 2}]

Archived(prompt, answer) == [prompt |-> prompt, answer |-> answer]

AnyArchive == [prompt : {1, 2}, answer : Answers \cup {"edited"}]

Tokens == [config : Contracts, archive : AnyArchive]

Exports == {"good", "other", "bad"}

Reviews == [prompt : Contracts \X {1, 2}, answer : {"approve", "reject"}]

Halts == {"export", "no archive", "prompt", "rejected", "provider", "no reference"}

Present(S) == S \cup {None}

Stored(S) == S \cup {None, Torn}

AnyRun ==
  [hash : Contracts, export : Present(Exports), contract : Present(Contracts),
   nodeA : Present(AnyArchive), nodeC : Present(Reviews),
   result : Present(Contracts \X Exports), reference : Present(Names),
   halt : Present(Halts), missing : Present(Names), sealed : BOOLEAN]

ASSUME LiveStudyAssumption ==
  /\ {MaxExtracts, MaxRuns, MaxReruns, MaxEdits} \subseteq Nat
  /\ None \notin Contracts /\ None \notin AnyArchive /\ None \notin Tokens
  /\ None \notin Exports /\ None \notin Reviews /\ None \notin Contracts \X Exports
  /\ None \notin Names /\ None \notin Halts /\ None \notin AnyRun
  /\ Torn \notin Contracts /\ Torn \notin AnyArchive /\ Torn \notin Tokens
  /\ Torn # None

NoCommand == [at |-> "idle", text |-> 1, file |-> 1, config |-> None,
              name |-> <<1, 0>>, from |-> None, compare |-> FALSE]

NewRun(hash) ==
  [hash |-> hash, export |-> None, contract |-> None, nodeA |-> None,
   nodeC |-> None, result |-> None, reference |-> None, halt |-> None,
   missing |-> None, sealed |-> FALSE]

Init ==
  /\ docs = [text |-> 1, file |-> 1] /\ export \in {"good", "bad"}
  /\ reference \in BOOLEAN
  /\ config = None /\ archive = None /\ token = None
  /\ runs = [n \in Names |-> None]
  /\ cmd = NoCommand
  /\ glanced = [n \in Names |-> None] /\ refused = {}
  /\ extracts = 0 /\ edits = 0 /\ meddled = FALSE

At(step) == cmd.at = step

Then(step) == cmd' = [cmd EXCEPT !.at = step]

End == cmd' = NoCommand

-----------------------------------------------------------------------------
(* live_extract.                                                           *)

StartExtract ==
  /\ At("idle") /\ extracts < MaxExtracts
  /\ cmd' = [NoCommand EXCEPT !.at = "clear", !.text = docs.text]
  /\ extracts' = extracts + 1
  /\ UNCHANGED <<inputs, pending, runs, glanced, refused, edits, meddled>>

(* The pending area is removed file by file, in no order one may rely on.  *)
RemoveFile ==
  /\ At("clear")
  /\ \/ archive # None /\ archive' = None /\ UNCHANGED token
     \/ token # None /\ token' = None /\ UNCHANGED archive
  /\ UNCHANGED <<inputs, config, runs, cmd, history>>

(* Then the digests of the documents are taken.                            *)
TakeDigestsTokenLeft ==                                 \* a mutated form
  /\ At("clear") /\ archive = None
  /\ cmd' = [cmd EXCEPT !.at = "ask", !.file = docs.file]
  /\ UNCHANGED <<inputs, pending, runs, history>>

TakeDigests ==
  /\ At("clear") /\ archive = None /\ token = None
  /\ cmd' = [cmd EXCEPT !.at = "ask", !.file = docs.file]
  /\ UNCHANGED <<inputs, pending, runs, history>>

(* The answer is archived whatever it is; it may be refused afterwards.    *)
AskNodeA ==
  /\ At("ask")
  /\ \E a \in Answers :
       /\ archive' = Archived(cmd.text, a)
       /\ \/ cmd' = [cmd EXCEPT !.at = "config", !.config = Contract(a, cmd.file)]
          \/ End
  /\ UNCHANGED <<inputs, config, token, runs, history>>

NodeAFails ==
  /\ At("ask")
  /\ End
  /\ UNCHANGED <<inputs, pending, runs, history>>

WriteConfig ==
  /\ At("config")
  /\ config' = cmd.config
  /\ Then("token")
  /\ UNCHANGED <<inputs, archive, token, runs, history>>

(* The token binds the files as they are read back.                        *)
WriteToken ==
  /\ At("token")
  /\ token' = [config |-> config, archive |-> archive]
  /\ End
  /\ UNCHANGED <<inputs, config, archive, runs, history>>

-----------------------------------------------------------------------------
(* live_confirm, up to the run.                                            *)

TokenHolds ==
  /\ token \notin {None, Torn} /\ config # None /\ archive # None
  /\ token.config = config /\ token.archive = archive

(* A token that does not hold, or is half a token, ends the command before *)
(* there is a run directory.                                               *)
VerifyToken ==
  LET n == <<1 + Cardinality({k \in 1..MaxRuns : runs[<<k, 0>>] # None}), 0>>
  IN  /\ At("idle") /\ n \in Names
      /\ TokenHolds
      /\ \E wanted \in BOOLEAN :
           cmd' = [NoCommand EXCEPT !.at = "glance", !.name = n, !.compare = wanted]
      /\ glanced' = [glanced EXCEPT ![n] = token.config]
      /\ UNCHANGED <<inputs, pending, runs, refused, extracts, edits, meddled>>

ReadGlanced ==
  /\ At("glance")
  /\ cmd' = [cmd EXCEPT !.at = "open", !.config = config, !.text = docs.text]
  /\ UNCHANGED <<inputs, pending, runs, history>>

(* The manifest names the configuration file, which is read once more.     *)
OpenRun ==
  /\ At("open")
  /\ runs' = [runs EXCEPT ![cmd.name] = NewRun(config)]
  /\ Then("ingest")
  /\ UNCHANGED <<inputs, pending, history>>

-----------------------------------------------------------------------------
(* live_rerun, up to the run.                                              *)

(* The contract of the sealed run is read first, and a run that halted     *)
(* before its contract stage has none.                                     *)
StartRerun(n) ==
  LET again == <<n[1], n[2] + 1>>
  IN  /\ At("idle") /\ again \in Names
      /\ runs[n] # None /\ runs[n].sealed
      /\ IF runs[n].contract = None
           THEN refused' = refused \cup {n} /\ UNCHANGED <<cmd, runs>>
           ELSE /\ runs[again] = None
                /\ runs' = [runs EXCEPT ![again] = NewRun(runs[n].hash)]
                /\ cmd' = [NoCommand EXCEPT
                     !.at = "ingest", !.text = docs.text, !.name = again,
                     !.config = runs[n].contract, !.from = n,
                     !.compare = runs[n].reference # None]
                /\ UNCHANGED refused
      /\ UNCHANGED <<inputs, pending, glanced, extracts, edits, meddled>>

-----------------------------------------------------------------------------
(* The stages of either.                                                   *)

This == runs[cmd.name]

Rerunning == cmd.from # None

Write(run, step) ==
  /\ runs' = [runs EXCEPT ![cmd.name] = run]
  /\ Then(step)
  /\ UNCHANGED <<inputs, pending, history>>

(* The report of a halt for a missing archive names the directory it was   *)
(* looked for in: that of the source of a rerun, or the pending area.      *)
HaltAt(reason, where) ==
  Write([This EXCEPT !.halt = reason, !.missing = where], "seal")

HaltRun(reason) == HaltAt(reason, None)

HaltWithoutArchive == HaltAt("no archive", cmd.from)

IngestExport ==
  /\ At("ingest")
  /\ IF export = "bad" THEN HaltRun("export")
                       ELSE Write([This EXCEPT !.export = export], "contract")

(* The contract stage replays the archived answer, if the prompt it would  *)
(* send is the archived one, and gives the contract the files of the       *)
(* configuration that was read, not those that are there now.              *)
RecordedA == IF Rerunning THEN runs[cmd.from].nodeA ELSE archive

ReplayNodeAOnFilesThere ==                              \* a mutated form
  LET a == RecordedA
  IN  /\ At("contract") /\ a # None /\ a.prompt = cmd.text
      /\ Write([This EXCEPT !.nodeA = a,
                            !.contract = Contract(a.answer, docs.file)], "gate1")

ReplayNodeA ==
  LET a == RecordedA
  IN  /\ At("contract") /\ a # None /\ a.prompt = cmd.text
      /\ Write([This EXCEPT !.nodeA = a,
                            !.contract = Contract(a.answer, cmd.config.file)], "gate1")

ReplayNodeAFails ==
  LET a == RecordedA
  IN  /\ At("contract")
      /\ \/ a = None /\ HaltWithoutArchive
         \/ a # None /\ a.prompt # cmd.text /\ HaltRun("prompt")

(* The prompt of Node C has the contract and the text of the document.     *)
PromptC == <<This.contract, cmd.text>>

ReviewedAnyVerdict(c) ==                                \* a mutated form
  Write([This EXCEPT !.nodeC = c], "analyse")

Reviewed(c) ==
  LET run == [This EXCEPT !.nodeC = c]
  IN  IF c.answer = "approve" THEN Write(run, "analyse")
      ELSE Write([run EXCEPT !.halt = "rejected"], "seal")

AskNodeC ==
  /\ At("gate1") /\ ~Rerunning
  /\ \E v \in {"approve", "reject"} : Reviewed(Archived(PromptC, v))

NodeCFails ==
  /\ At("gate1") /\ ~Rerunning
  /\ HaltRun("provider")

ReplayNodeCUnmirrored ==                                \* a mutated form
  LET c == runs[cmd.from].nodeC
  IN  /\ At("gate1") /\ Rerunning
      /\ IF c = None THEN HaltWithoutArchive
         ELSE IF c.prompt # PromptC THEN HaltRun("prompt")
         ELSE IF c.answer = "approve" THEN Write(This, "analyse")
         ELSE HaltRun("rejected")

ReplayNodeC ==
  LET c == runs[cmd.from].nodeC
  IN  /\ At("gate1") /\ Rerunning
      /\ IF c = None THEN HaltWithoutArchive
         ELSE IF c.prompt # PromptC THEN HaltRun("prompt")
         ELSE Reviewed(c)

(* The stages from power on: a function of the contract and of the export, *)
(* which they read again.                                                  *)
Analyse ==
  /\ At("analyse")
  /\ Write([This EXCEPT !.result = <<This.contract, export>>],
           IF cmd.compare THEN "reference" ELSE "seal")

(* The package stage of a run with a reference names the run in its        *)
(* report: a rerun takes the directory name of the run it repeats.         *)
CompareReference ==
  /\ At("reference")
  /\ IF Rerunning
       THEN Write([This EXCEPT !.reference = cmd.from], "seal")
       ELSE IF reference
         THEN Write([This EXCEPT !.reference = cmd.name], "seal")
         ELSE HaltRun("no reference")

SealRun ==
  /\ At("seal")
  /\ runs' = [runs EXCEPT ![cmd.name].sealed = TRUE]
  /\ IF Rerunning THEN Then("compare") ELSE End
  /\ UNCHANGED <<inputs, pending, history>>

(* The identity assertion compares everything but the manifest.            *)
Tree(n) == [runs[n] EXCEPT !.hash = None, !.sealed = TRUE]

Reproduced == Tree(cmd.name) = Tree(cmd.from)

Compare ==
  /\ At("compare")
  /\ End
  /\ UNCHANGED <<inputs, pending, runs, history>>

-----------------------------------------------------------------------------
Crash ==
  /\ ~At("idle")
  /\ End
  /\ UNCHANGED <<inputs, pending, runs, history>>

(* The process dies while live_extract writes a file.                      *)
TearFile ==
  /\ \/ At("ask") /\ archive' = Torn /\ UNCHANGED <<config, token>>
     \/ At("config") /\ config' = Torn /\ UNCHANGED <<archive, token>>
     \/ At("token") /\ token' = Torn /\ UNCHANGED <<config, archive>>
  /\ End
  /\ UNCHANGED <<inputs, runs, history>>

(* A file of the study is edited: a document is worded otherwise or saved  *)
(* anew, the export or the reference replaced, the contract reworded, the  *)
(* archived answer exchanged.                                              *)
Edit ==
  /\ edits < MaxEdits
  /\ edits' = edits + 1
  /\ meddled' = (meddled \/ ~At("idle"))
  /\ \/ \E d \in Document \ {docs} : docs' = d /\ UNCHANGED <<export, reference, pending>>
     \/ \E e \in {"good", "other", "bad"} \ {export} :
          export' = e /\ UNCHANGED <<docs, reference, pending>>
     \/ reference' = ~reference /\ UNCHANGED <<docs, export, pending>>
     \/ /\ config \notin {None, Torn} /\ config' = [config EXCEPT !.answer = "edited"]
        /\ UNCHANGED <<inputs, archive, token>>
     \/ /\ archive \notin {None, Torn} /\ archive' = [archive EXCEPT !.answer = "edited"]
        /\ UNCHANGED <<inputs, config, token>>
  /\ UNCHANGED <<runs, cmd, glanced, refused, extracts>>

Extract == StartExtract \/ RemoveFile \/ TakeDigests \/ AskNodeA
             \/ NodeAFails \/ WriteConfig \/ WriteToken

Confirm == VerifyToken \/ ReadGlanced \/ OpenRun

Rerun == \E n \in Names : StartRerun(n)

Stages == \/ IngestExport \/ ReplayNodeA \/ ReplayNodeAFails
          \/ AskNodeC \/ NodeCFails \/ ReplayNodeC
          \/ Analyse \/ CompareReference \/ SealRun \/ Compare

Next == Extract \/ Confirm \/ Rerun \/ Stages \/ Crash \/ TearFile \/ Edit

Spec == Init /\ [][Next]_vars
-----------------------------------------------------------------------------
(* The types of the variables.  In particular a run has a result only with *)
(* an approval on file.                                                    *)
TypeOK ==
  /\ docs \in Document /\ export \in Exports /\ reference \in BOOLEAN
  /\ config \in Stored(Contracts) /\ archive \in Stored(AnyArchive)
  /\ token \in Stored(Tokens)
  /\ runs \in [Names -> Present(AnyRun)]
  /\ \A n \in Names : runs[n] # None /\ runs[n].result # None =>
       runs[n].nodeC # None /\ runs[n].nodeC.answer = "approve"
  /\ glanced \in [Names -> Present(Contracts)]

(* No token vouches for what it was not written for.  As long as nobody    *)
(* edits, whatever extractions were begun and wherever they died, within a *)
(* removal or a write: a token that can be read, beside an archived answer *)
(* that is there, was written for that answer and for the configuration    *)
(* that is there.  Everything else a death leaves is refused.              *)
TokenIsFresh ==
  edits = 0 => token \in {None, Torn} \/ archive = None \/ TokenHolds

(* "What runs must equal what was glanced": the contract a confirmed run   *)
(* works with, built anew from the archived answer, and the configuration  *)
(* its manifest names, are the contract the verified token bound, whatever *)
(* was edited between the commands.                                        *)
RunsWhatWasGlanced ==
  ~meddled => \A k \in 1..MaxRuns :
    LET run == runs[<<k, 0>>]
    IN  run # None =>
          /\ glanced[<<k, 0>>] # None
          /\ run.hash = glanced[<<k, 0>>]
          /\ run.contract \in {None, glanced[<<k, 0>>]}

(* Which sealed runs a rerun reproduces: the text of the documents and the *)
(* export must be those of the run and every answer it asked for on file,  *)
(* and a run with a reference is reproduced only if it is not a rerun      *)
(* itself, since its report names a run.  A run that halted for a missing  *)
(* archive is not: the halt names the directory, and the rerun looks in    *)
(* another one.                                                            *)
Reproducible(n) ==
  /\ runs[n].nodeA.prompt = docs.text /\ runs[n].export = export
  /\ runs[n].halt \notin {"provider", "no archive", "no reference"}
  /\ runs[n].reference # None => n[2] = 0

RerunIsExact ==
  ~meddled /\ At("compare") => (Reproduced <=> Reproducible(cmd.from))

(* live_rerun: "Re-execute a sealed live run": a sealed run is not beyond  *)
(* re-execution.                                                           *)
SealedRunsRerun == refused = {}
=============================================================================
