# Burhan in TLA+

Burhan turns a study (a prose document, a data dictionary and a survey export)
into a covariance-based structural equation analysis: a language model extracts a
contract, another one reviews it, thirteen fixed stages compute statistics with R
workers, and everything a run did is left in one sealed run directory. The value
of the program lies less in the numbers than in what that directory claims: that
each stage ran, that each methodological step was performed, that nothing was
changed afterwards, and that the run can be repeated byte by byte. This project
models how those claims come about and checks that they can be believed.

Paths below are relative to `src/src/burhan` unless they begin with `src/`.

## 1. Inventory

| Component | State it keeps | Operations | Hard behaviour | Correct when |
|---|---|---|---|---|
| Orchestrator (`core/orchestrator.py`) with manifest, errors, provenance | run directory: `manifest.json`, `PROVENANCE.jsonl`, artifacts, marker, report | `run`, `rerun`, `_terminate`; `Manifest.open/record_stage/seal/verify_seal` | concurrent invocations, death between writes, edits after the seal | one writer per directory; a verified directory tells one consistent story; seals are exact and final; a rerun that returns reproduced its source |
| Sequenced logs (`core/provenance.py`, `DecisionLog` in `core/policy.py`) | JSONL file, next number, lock | open with replay, append, rejection | threads, several objects one after the other, torn line, lost newline | line *i* has number *i*; a rejected entry consumes no number |
| Results store (`results/store.py`) | `results.jsonl`, `index.json`, entries in memory | `write`, `resolve`, `iter`, replay on open | two writes per entry, second object in a live run, edits | an object that opens sees what was written; otherwise it is refused |
| Compliance journal (`core/compliance.py`), playbook (`core/playbook.py`, `src/playbooks`) | journal rows on disk and in memory | `mark`, replay, `render` | memory and disk diverge, rows written by hand | no completed step without its statistics; every step recorded once, in order |
| Stages (`stages/*`, `core/advisory.py`) | nothing of their own: the run directory | `execute` of thirteen stages | halts and deaths within a stage, ids made by joining codes | a run leaves exactly what it did, and never trips over its own traces |
| R worker bridge (`core/rworker.py`) | call files | `call` | failure, silence, partial output | a call is made once per id; a run ends though a worker never answers |
| Live commands (`cli/live.py`, `contract/archive.py`) | pending directory, token, study config, archives | `live_extract`, `live_confirm`, `live_rerun` | the researcher's pause between two processes, files replaced in between, replay of recorded answers | what runs is what was looked at |
| Contract extraction (`contract/node_a.py`, `llm_base.py`, `validators.py`) | none | `extract`: one call, then schema and V1..V7 | unparsable, ambiguous or invalid answers | an accepted contract satisfies every validator |
| Gate review (`review/node_c.py`) | review cycles | `parse_verdict`, `run_gate` | invalid verdicts, exhausted retries | bounded cycles, no approval that was not given |
| Crosswalk (`contract/crosswalk.py`) | none | matching of columns to items, roles of all columns | ambiguous names, unrecognised headers | each item one column, each column one role, or a refusal |
| Governance (`core/policy.py`, `core/registry.py`, `core/playbook.py`) | loaded files | rule lookup, seed guard, references | missing rules, reused seeds | every decision cites a rule that exists |
| Preparation (`prep/*`) | frame, N chain | two implementations, reconciliation, invariants | counts that do not add up | the chain of sample sizes is consistent |
| Deletion and respecification (`stats/deletion.py`, `stats/respecification.py`) | applied changes | loops of R calls | caps, floors, no eligible change | caps and floors hold after every step |
| Decisions of the statistics (`stats/structural.py`, `effects.py`, `power.py`, `assumptions.py`, `measurement.py`, `robustness.py`, `hypothesis_matrix.py`, `montecarlo.py`) | none | classification, bands, gates, payloads | boundary values, missing estimates | verdicts agree with each other at the boundary |
| Verification (`verify/*`) | none | parity, independent check, comparison with a reference | tolerances | agreement means agreement |
| Certification, CLI, doctor, logging (`cli/*`, `core/logging.py`) | none | argument parsing, environment checks | exit codes | - |
| Canonical artifacts (`core/artifacts/*`) | none | schemas, canonical JSON, hashes, seeds | - | - |

Interactions. `Orchestrator.run` calls `Stage.execute` of each stage with a
context; a stage reloads artifacts of earlier ones from disk, calls R workers
through files, writes rows into the one `ResultsStore` object of the run, opens a
`Compliance` object (which replays the journal against the store) and, where it
decides something, a `DecisionLog` object. Halts are exceptions and pass through
the stage to `_terminate`. The live commands wrap the package stage, which then
opens a second store object. There are no callbacks and, within a run, no
threads; the logs are nevertheless written for threads, and tested with them
(`src/tests/unit/core/test_provenance.py`: eight threads on one object). Separate
processes meet only through the file system. No run is ever resumed.

The hazards that follow from this are listed with their lines in `PROJECT.json`.

## 2. Modules

| Module | Models | Checked with |
|---|---|---|
| `RunDir` | the files of a run directory as values; manifest operations, hash tree, `verify_seal` | `Orchestrator.cfg` |
| `RunSpec` | abstract: a ledger of stage verdicts and one terminal state it accounts for | as a property of `Orchestrator` |
| `Orchestrator`, `MCOrchestrator` | invocations of `run` and `rerun` over several directories | `Orchestrator.cfg`, `OrchestratorRace.cfg` |
| `OrchestratorProofs` | theorems about `Orchestrator`: writers, seals, ledgers, the refinement, reruns | `tlapm` |
| `AppendLog` | `Provenance` and `DecisionLog` as one protocol | `AppendLog.cfg` |
| `AppendLogProofs` | theorems about `AppendLog` | `tlapm` |
| `ResultsStore` | the store with its two writes, a second object, edits | `ResultsStore.cfg` |
| `ResultsStoreProofs` | theorems about `ResultsStore` | `tlapm` |
| `Selection` | the loops that keep some entries of a list in their order, by positions | by `Contract`, `StagePrograms` and `Preparation` |
| `Evidence` | playbook outputs, store and journal as values, what may be marked and replayed | by `StudyPipeline` |
| `StagePrograms` | the `execute` of each stage as a sequence of disk effects | by `StudyPipeline` |
| `LiveStudy` | the live commands on one study directory | `LiveStudy.cfg`, `LiveStudyRerun.cfg` |
| `LiveStudyProofs` | theorems about `LiveStudy` | `tlapm` |
| `StudyPipeline`, `MCStudyPipeline` | one run of the thirteen stages over the run directory | `StudyPipeline.cfg`, two more |
| `StudyPipelineProofs` | theorems about `StudyPipeline` and the programs of the stages | `tlapm` |
| `Contract` | the study contract as a value, its validators, the models the later stages derive from it | by the two below |
| `StudyFindings`, `MCStudyFindings` | from the document to the matrix of hypotheses: settings, Node A, validators, gates, structural model, effects, rival model | `StudyFindings.cfg` |
| `StudyFindingsProofs` | theorems about `Contract` and `StudyFindings` | `tlapm` |
| `MeasurementStage`, `MCMeasurementStage` | item deletion behind its permit, respecification, and the decision log they share | `MeasurementStage.cfg` |
| `MeasurementStageProofs` | theorems about `MeasurementStage` | `tlapm` |
| `Preparation`, `MCPreparation` | from the export to the prepared frame: crosswalk, N chain, frame, invariants, reconciliation | `Preparation.cfg` |
| `PreparationProofs` | theorems about `Preparation` | `tlapm` |

Definitions called "a mutated form" are not part of the system. Each stands next
to the definition it alters and says what a plausible mistake in the code would
look like; it is used in its place to confirm that a property can fail.

### How state and actions correspond to the code

**Orchestrator.** `manifest[d]` and `files[d]` are what is on disk, `handle[p]`,
`nextSeq[p]`, `stage[p]`, `executed[p]` the local variables of `run`. Each write
to the disk is an action, named for the call (`RecordPassed` is `record_stage`,
`AppendComplete` the provenance append behind it, and so on), and `pc[p]` says
which comes next. `Crash` may happen between any two. `LaunchRerun` performs
`verify_seal`, `CheckTarget` the test of the target, `Compare` the identity
assertion. Artifacts of a stage are one value; a hash is what it is a hash of. A
stage that is not in `Flaky` ends as `script` says, in a run as in its reruns: a
sealed study is re-executed on the same inputs. `sealedAs` and `edited` are
history variables and influence nothing. `PROVENANCE.jsonl` has the orchestrator's
own entries only (those of the stages are in `StudyPipeline`); a manifest is
replaced atomically, as `os.replace` does, and its temporary file is left out.

**AppendLog.** An entry is its sequence number, or torn; `unended` are the places
of the entries with no newline behind them. `Enter` takes the lock and stamps the
entry, `WriteLine` and `Return` are the rest of the `with` block, `Reject` an entry
that does not validate. Objects on one file exist one after the other, as the
stages open and drop them. `Crash` leaves of a write in flight nothing, a torn
entry, or the whole entry without its newline. `splitlines` makes a line of that
entry and the replay accepts it, so the next object appends behind it on the same
line, goes on from there, and is the last that opens the log: two entries on one
line are no JSON (`ReplayAccepts`).

**ResultsStore.** `AppendEntry` appends the line and takes the entry into memory,
`ReplaceIndex` replaces the index; between them the process may die, and within
the line as well (`CrashInLine`). `OpenReader` is the object of the package stage
of a live run, or that of somebody who looks at the directory later; the run
writes nothing while it is there. `Edit` is one change to the lines or the index.
`Torn` and `Missing` stand for a line cut short and for an index that is not there;
that they are no entry and no index is an assumption on the constants.

**StudyPipeline.** `todo` is what is left of the current stage's program and each
element of it is one action of `StudyPipeline`: `ReadArtifact`, `SpawnWorker`,
`WriteRow`, `MarkStep`... The programs themselves (`StagePrograms`) follow the
`execute` methods line by line but have no statistics: a study is a record of
what makes a difference to the effects (its hypotheses, whether N:q is enough,
the verdict of the gate, method markers, misfit, number of modifications; `Study`
is the type of such records, and `Studies` any set of them). A loop over a list of
constructs or hypotheses is written by the positions it visits; a link that two
hypotheses declare is reported once, because R's model has it once. Ids of
statistics are built as `stages/serialize.py` builds them, including codes that
are joined with an underscore, so that ids clash in the model when they do in the
program. `ComputeSomething` stands for calls that can only answer or halt. A row
of the store is one step here; its two writes are the subject of `ResultsStore`.
What the orchestrator does around the stages is the subject of `Orchestrator`.

**LiveStudy.** `cmd` is the command that is going, with its locals: the text of the
documents it read, the configuration it read, the run it works on and, for a
rerun, the run it repeats. A study directory is `docs`, `export`, `reference`
(the inputs), `config`, `archive`, `token` (the pending extraction) and `runs`.
`RemoveFile` takes the files of the pending area away one by one, as `rmtree` does,
and `TearFile` is a death within a `write_text`, which leaves half a file (`Torn`).
Each read of a file that is written elsewhere is an action, because an edit may
come between: the token is verified, the contract read, the manifest's hash
taken, the contract built anew from the archived answer in four steps. A document
has a text, on which prompts depend, and a file, on which digests depend. A
contract is the answer it comes from and the file it names. Of the stages there
is what depends on the study: ingest and everything from power on read the
export, contract and gate 1 have answers. The thirteen stages are one action where
they only compute. A run directory that exists cannot be used again, so a rerun
that died blocks the name of its target, as in the program. The report of a halt
for a missing archive names the path it was looked for at (`missing`). `glanced` and
`refused` are history variables. `settings`, policy and playbook are the
program's own files and stay as they are.

**Contract, StudyFindings.** A contract is a record with the levels, components,
indicators, roles and hypotheses that `StudyConfig` has; each validator is the
predicate of the contracts it lets through, and `Refused` names the first that
does not, in the order of `validate_contract`. `pc` says which call comes next:
`LoadSettings`, `Extract`, `Accept` or `Refuse`, the gate of stage 3 (`Audit`,
`Gate1Passes`, `Gate1Rejects`) or `run_gate` with its retries (`BoundRefused`,
`GateApproves`, `GateExhausts`, `Revise`), and the stages `RunStructural`,
`RunEffects`, `RunRival` with their refusals and failures. `run_gate` and
`build_hypothesis_matrix` have no caller among the stages; the matrix is built
from the reports as its tests build it. An answer of a worker is a sequence of
keys with estimates: the right one, or one with a key missing, doubled or
foreign. An estimate is a sign, an interval on one side of zero or around it, and
a p that is significant, marginal or neither. An item belongs to one construct.

**MeasurementStage.** The stage (`caller = "stage"`) or another caller runs
`run_deletion_protocol`: `Recommend` or `Permit` is the guard of the registry,
`ChooseItem` and `NoneLeft` are one round over the candidates in their order,
`Reestimate` the worker's answer for the smaller model, `LogDeletion` the entry.
The stage hands over no attestations (`content_validity={}`), so nothing is ever
deleted in a run, even with a permit; another caller may attest. Then
`FlagRespecification` or `StartRespecification` (`assess_respecification`), and the
rounds of `run_respecification`: `Stop`, or `Modify` and `Refit`. A loading is a
small number, a fit index its place with respect to its limit: inside, at,
outside.

**Preparation.** `BuildCrosswalk` has the steps of `build_crosswalk`, each with
its refusal; `ScreenCases` those of `run_prep` until the frame. A case is the
number of its row, `current` the list `run_prep` goes on with and `accounted` the
one of `NChainAccountant`; both are kept because the program compares them only at
the end. `Link` is `apply` and the filter behind it. `frame` has the cells after
range enforcement and reversal on a scale of two points. `AssertInvariants` and
`Reconcile` are what a caller may do with the result; no stage does either, only
tests. Abstracted: which tokens a header text embeds is given with the column; a
declared number of header rows is the physical one unless the export is too
short; the id, consent and check columns come before the items, so that a row
with missing cells lacks items first; `basis` has one legal value. Correlations
are a choice, but of a column with no two values there is none; Little's test is
a choice unless it has no degree of freedom. The cases a link drops are a list in
the order the program finds them: of attention checks one check after the other,
of duplicates first those by id; only outliers, which it sorts by their keys, are
listed in the order of the rows. A contract here has what its schema says
(`SchemaHolds`) and need not be one the validators accept, so that an item listed
twice reaches the crosswalk, where it is refused with FR-103, and indicators that
are no column of the frame reach I2, which looks at those that are (`Prepared`).
`Measured` is the recursion of I5 as a least fixed point, and `Endless` the case in
which Python's has no end.

## 3. What is checked, and what it shows

**lifecycle** (`Orchestrator.cfg`, about 210,000 states). Two invocations, two
directories, two stages, one flaky stage, two edits, and a third invocation that
reruns what the second is rerunning, has rerun or died rerunning. `OneWriter`: no
two invocations open the manifest of one directory, because a rerun refuses a
target that exists, be it live, dead or sealed. `VerifiedIsConsistent`: whatever
`verify_seal` accepts has stage records, provenance, marker and report that tell
of one and the same run. `VerifyIsExact`: accepted exactly when sealed and
unchanged. `LedgersInStep`: what a death leaves behind claims no terminal state
and its two ledgers differ by one entry at most. `SealedIsForever`: no step of
the program changes a sealed directory, not even a failed identity assertion.
`RerunReproduces`: the files are compared, `manifest.json` is not, and yet its
state and stage records agree. It compares what was sealed, and exempts a rerun
whose source and target were both edited: the same edit made to both, after the
source was verified, goes unnoticed. Hence two edits. `ImplementsRunSpec`: refinement of `RunSpec`.
`EveryRunEnds`: liveness.
Bounds: the loop treats stages alike, and with two there is a first, a last, one
that passes before one that fails and one that is skipped behind one; two
invocations suffice for a run and its rerun, or two runs, and a third for two reruns
of one source; one of the three halted states stands for all three. The action
constraint `InTurn` keeps the states `Unraced` (no two invocations between the test
of a target, `orchestrator.py:211`, and its mkdir, `manifest.py:102`), and, since
invocations and directories are alike, fixes who comes first and where. It removes
no way on from an invocation but into that window, and who is in the window can
always leave it, so `EveryRunEnds` is checked on all fair behaviours that stay
`Unraced`.

**rerun_race** (expected violation of `OneWriter`). Nothing in the program keeps
the states `Unraced`. When two reruns of one source enter the window, both pass the test of the target and the second replaces the
manifest of the first. Three invocations (the source and two reruns), one stage.

**pipeline** (`StudyPipeline.cfg`, about 65,000 states). Fourteen studies, one for each
thing that can be different: plain, with markers, with misfit and two
modifications, with misfit and none, too small, rejected, full mediation, none,
parallel mediation, codes with underscores, no hypothesis about a link, a single
construct, a construct and a link declared twice, an effect declared twice. One row may be written into the
journal by hand at any moment. `CompletedIsEvidenced`: neither the rows the run
goes on with nor the checklist call a step completed without all its statistics.
A step flagged in the checklist has none.
`JournalFollowsPlaybook`: the journal has the steps of the stages that returned
and none of those not begun, in order, wherever the run ended, and two log objects
of one stage do not count over each other.
`HaltsAreNotSelfInflicted`: without interference no artifact is missing, no call
id comes back, nothing fails to replay; a row is repeated only by a study with
clashing ids, and a step cannot be marked only in one without a total effect or
with a single construct, which has no pair to discriminate.
`ArtifactsAccounted`: stages read what they declare, leave what they declare, and
every artifact but the checklist has exactly one provenance entry.
`EveryStudyEnds`: the run ends though a worker may never answer.
Bounds: the thirteen real stages and 21 real playbook steps are used, so only the
studies are a sample; three and four constructs with one item each are the fewest
that have parallel mediation and a clash of joined codes. One forged row is
enough for each way in which the replay may refuse it, or not see it.

**parallel_mediation**, **full_mediation** (expected violations). A contract with
two mediators between the same end points halts in the effects stage because
`effects.total.<pair>` is written twice; one whose indirect hypothesis has no
direct edge halts because PB-17 demands an `effects.total` row that is not
written. Both are at odds with docstrings of `stats/effects.py`, quoted in
`PROJECT.json`.

**append_log** (`AppendLog.cfg`, about 240,000 states). Three threads, two objects,
calls until four entries are there. `GapFreeUpToTear` (numbers without a gap in
file order, nothing behind a torn entry, and at most one line, ever, that holds
two), `MemoryIsCurrent`, and `EveryAppendEnds`. Three threads are the fewest with two waiting on one; two
objects the fewest for a replay of what another wrote.

**results_store** (`ResultsStore.cfg`, about 22,000 states). Three ids, two
bodies, one edit. `ReopenIsExact`: untouched, the store opens again exactly when
every write that began has returned and there was one. So a death between line and
index, which loses nothing, makes it refuse, and so does a store nothing was
written to. And after any one edit and any death, an object that opens has every
entry whose write returned, and none that was not written.
Order is not protected: reversed lines are accepted, and the property says
nothing of it. `IndexFollowsLines`: the index lags by one line at most and never
leads. With two edits, one of each file, anything can be forged; the seal of the
manifest is what protects a finished run from that.

**live_study** (`LiveStudy.cfg`, about 2.6 million states, half a minute). Two
extractions, one confirmed run, its rerun and the rerun of that, two edits at any
moment. `TokenIsFresh`: wherever extractions died, within the removal of the
pending area or the write of a file too, a token that can be read and has an
archived answer beside it was written for that answer and for the configuration that
is there. A death may leave a token without its archive, or half of one: the first is
refused, the second ends `live_confirm` in `json.loads`, before there is a run. The
token binds the configuration and the answer, not the documents.
`RunsWhatWasGlanced`: the contract of a confirmed run and the configuration its
manifest names are the ones the token bound, though the contract is built anew
and documents and files may be edited between the commands. It says nothing of
edits made while a command runs (`meddled`): between the test of the token and
the last read nothing protects the files, and the property fails without that
condition. `RerunIsExact` says which sealed runs are reproduced: those for which
the text of the documents and the export are as they were, every answer the run
got is on file, and which, if they have a reference, are no rerun themselves. A
run that ended because a provider failed or the reference was missing is not
reproduced; neither is one that ended because an archive was missing, since its
report names the directory it looked in, and a rerun of it looks in another (so the
rerun of a run whose provider failed differs, and the rerun of that rerun differs
once more); and neither is a rerun with a reference, whose report names the source. The type invariant has one clause that is more than that: no result
without an approval on file.
Bounds: two extractions, so that the second begins on what the first left; two
edits, so that one can hide what the other changed; reruns two deep, for the
rerun of a rerun; one confirmed run, because runs share nothing but the files
that are edited anyway. Two answers distinguish two extractions.

**rerun_of_halted** (expected violation of `SealedRunsRerun`). A run that halted
in ingest is sealed and has no contract; `live_rerun` reads the contract first and
ends with an exception the command line does not catch.

**contract_to_findings** (`StudyFindings.cfg`, about 29,000 states). All choices
from a pool of eight hypotheses, thirteen contracts with one defect or a
second-order construct, one with two mediators; documents and dictionaries that
agree, contradict or contradict themselves; up to three retries of a gate; any
reply of the reviewer. `AcceptedContractHolds`: what the validators accept
gives the later stages their models: structural and effects model have the same
edges, no payload is refused for a construct, and an item is reversed exactly when
a source says so. `GateHolds`: what passed a gate was approved by a reply that can
be read in one way, about the version that passed, after one audit more than
revisions. `ReportsMatch`: whatever the workers answer, a report that is accepted
covers exactly the hypotheses of the contract. `MatrixFollows`: no marginal p
supports a hypothesis, no statistic supports two opposite ones, and the matrix
halts for a missing statistic only at a total hypothesis without an indirect one
with a direct edge.
Bounds: three first-order constructs with two items are the fewest with a chain;
the pool has each kind of hypothesis, a chain without its links, an opposite
sign, an unknown construct; one defect at a time shows which validator refuses.
Bad settings meet one document, since they end before it is read.

**measurement_methods** (`MeasurementStage.cfg`, about 221,000 states). Four items in
one construct, one in another below the floor, any loadings in any re-estimation, every policy
and attestation, six pairs with any index in any round. `DeletionsEarned`: what
is gone was permitted, signalled and attested, and no construct fell below the
floor for it. `DeletionsAccounted`: the audit is a chain from the design to the
working configuration and agrees with the decision log; who was passed over is
never deleted later and is listed with the reason that still holds.
`ModificationsEarned`: a model is modified only when a band fails, within the cap,
never twice for two items, within one construct, and each time logged.
`EveryStageEnds`: both loops end.
Bounds: four items and a floor of two allow two deletions and a third refused;
a cap of two and four usable pairs let the cap bite, in both orders of a pair.

**preparation** (`Preparation.cfg`, about 22,500 states). Every two of ten kinds of
rows (refused, failing, straight-lining, partial, repeated id, repeated answers,
corrupt cells, an id spelled like a key, too short, empty), eleven exports of none
or three rows where the order of the screens matters, under five policies; a
sound export with one change of everything else. `EverythingAccounted`: at the end
each column has one role, each case is in the frame or was dropped by one link for
that link's reason, no two cases of the frame are duplicates, and each missing
cell is in the census or in the list of corrupt cells, never in both, unless it is
spelled `nan`. `FailuresExplained`: the accountant never refuses what `run_prep`
does; untyped errors come only from short rows and from columns declared by a
code in their text. `ChecksAreExact`: for a contract that was validated, I1, I3,
I4 and I7 cannot fail, the recursion of I5 over components ends, and I5 fails only
for a construct in the path of a hypothesis that is not indirect, which V4 does not
look at; I2 fails only for an item that had been reported, unless no sibling of it
is a column of the frame (the screening then reports nothing) or outliers have left
since; the two paths agree only on identical results, and, where no number of header rows is
declared, only if there is one.
Bounds: three rows are the fewest in which a duplicate's first occurrence is itself
dropped; four items and a block of three allow straight lines, recovered and
dropped partials; a scale of two points is the smallest that reversal changes. Two
second-order constructs that may have each other as components are the fewest that
nest and that lead I5 around in a circle.

### What the checks brought to light

Besides the four findings in `PROJECT.json`, which contradict a document of the
repository, the models show behaviour that a reader of the code may not expect:

- The crosswalk accepts id, consent and attention columns by a code embedded in
  their text; `run_prep` looks them up by name. The id column then gives a halt that
  says it was not declared, the others a `ValueError`.
- I5 asks components of components; where the validators were left out and two
  second-order constructs have each other as components, that is a `RecursionError`.
- Only header rows are tested for their width: a short data row or a blank line
  is an `IndexError`.
- The policy schema allows the duplicates key `ip_plus_duration`, which `run_prep`
  ignores, and the method `longstring`, which halts.
- V4 resolves the path (`via`) of an indirect hypothesis only; I5 resolves that of
  every hypothesis. A direct one with an unknown construct in its path passes the
  validators and fails behind preparation.
- `build_r_payload` lets the R path skip one header row when none are declared,
  where the crosswalk recognises three.
- The first of two duplicates may be dropped by a later screen; both are gone then.
- `_fit_inadequate` looks at three of five indices and takes the limit as
  adequate; `evaluate_fit_bands` looks at all and takes it as failed. A model that
  was modified had a failing band, but one with a failing band may be recorded as
  fitting within the bands (`stages/stage_1a.py:66-83`).
- Covariances that respecification adds are not in the structural payload.
- V5 accepts a total hypothesis that no chain can estimate; the matrix then halts.
- `effects_worker.R` refuses the carrier `latent_scores`, and the measurement payload
  two second-order constructs; the validators accept both.

### Fairness

`Orchestrator`: weak fairness of each invocation's own next step; the code is a
loop without waiting. Launches, deaths and edits need not happen.
`StudyPipeline`: weak fairness of the pipeline's steps, among them the timeout of
an R call, which `subprocess.run(timeout=...)` keeps; the answer of a worker is
not fair. `MeasurementStage`: weak fairness of the next step; a call of the worker
is one step there, which ends with an answer or at the latest with its timeout.
`AppendLog`: weak fairness of each thread inside `append`; the lock
need not be fair because a log gets finitely many entries.

## 4. What is proved

By TLAPS, 36 theorems, for every value of the constants that satisfies the named
assumptions of the modules: `OrchestratorAssumption` and `NStagesAssumption`,
`AppendLogAssumption`, `ResultsStoreAssumption`, `LiveStudyAssumption`,
`MeasurementAssumption`, `FindingsAssumption`, `StudyAssumption`,
`PreparationAssumption`. They give the constants their types, keep the values that
stand for "nothing" out of the data and, in `FindingsAssumption` and
`PreparationAssumption`, say that an answer that parsed has the schema's shape,
whether or not it makes a valid contract. TLC evaluates all of them.
Each theorem is about a property that a run checks as well.

`OrchestratorProofs` (any number of invocations, directories and stages; each but
`TypeCorrect` of the form `Spec /\ []Unraced => ...` under `"run" \notin
Collisions`: plain runs get new ids, which name the second of the launch and are
not tested by the program, and no two invocations are between the test of a target
and its mkdir at once, the window `rerun_race` enters. Reruns of one source may
otherwise overlap at any point):

- `TypeCorrect`: `Spec => []TypeOK`, by the invariant `TypeInv`, which adds that an
  invocation under way has a target that is a directory and, if it is a rerun, a
  source.
- `WrittenOnce`: `[]OneWriter`, which speaks of invocations that have opened a
  manifest and is not inductive; `WriterInv` adds that an invocation about to make
  its directory finds it absent, because rerun refuses one that exists, and that
  two about to open a manifest have made different directories, which is where
  `Unraced` is used. That a writer is alone in its directory, which all the other
  theorems rest on, follows.
- `SealsAreExact`, `SealsAreFinal`: `[]VerifyIsExact` and `SealedIsForever`.
  `SealInv` relates the manifest in memory to the one on disk, says that whoever
  writes has an unsealed directory, that a sealed one nobody edited is the one in
  `sealedAs`, and that an edited one does not verify. Most actions change one file
  or one manifest of a directory that is not sealed, and two lemmas do the work
  for all of them.
- `CrashedLedgersAgree`, `VerifiedTellsOneRun`: `[]LedgersInStep` and
  `[]VerifiedIsConsistent`. `LedgerInv` says how the stage records and the
  provenance of a directory fit at each point of the invocation that writes it, so
  that what a death leaves agrees up to one entry, and what was sealed agrees
  exactly, with its marker and report.
- `DirectoriesKeepTheirPromise`: `Spec => ImplementsRunSpec`. Initial states map to
  initial states of `RunSpec`, and by `LedgerInv` each step to a step of it, the
  ledger of one directory growing by one verdict or ending in the state it
  accounts for, or to a stutter.
- `RerunsReproduce`: `[]RerunReproduces`. `RerunInv` adds that the source of a rerun
  under way stays sealed and that an edit of files leaves something no stage
  writes, so that equal files come from the seals; two sealed directories with equal files
  have equal records because each tells of one run.

`AppendLogProofs` (any number of threads, objects and entries): `LogTypeCorrect`,
`LogGapFree`, `CounterIsCurrent`, from one invariant `IInv`: the lock belongs to
the thread between stamping and counting (`LockInv`), threads are active in the
open object only (`OpenInv`), its counter is one behind the file only while that
thread has written and not counted, and it is open on a file in which at most one
entry has lost its newline (`CountInv`).

`ResultsStoreProofs` (any ids, bodies, number of writes and second objects):
`StoreTypeCorrect`, `IndexKeepsUp`, `ReopeningIsExact`, from `StoreInv`. `WriteInv`
ties the writes that began to those that returned, `LineInv` says what the lines
and the index are while nobody has edited them (all that began, or all that
returned and a torn line), and what one edit can have done: as it changes one of
the two files, the other one still refuses what it alone would let through.

`StudyPipelineProofs` (any studies, any rows forged into the journal, any death and
any failure of a worker): `PipelineTypeCorrect`, `CompletedMeansEvidenced`,
`JournalIsThePlaybooks`, `ArtifactsAreAccounted`, `HaltsHaveOutsideCauses`. The
argument for the first four has two parts.
`ProgramsAreSound`: the program of each of the thirteen stages is, for any study,
put together from pieces that mark the steps of the stage in the playbook's order,
open a log before they write to it, record what they write, each artifact once,
and write the checklist behind the last mark. `PipelineInv` then relates what is
left of the program to what is in the run directory: the marks that are left
continue the journal (`JournalInv`), the next number of the log in use follows the
lines (`DecisionInv`), an artifact has been recorded or is going to be
(`ArtifactInv`), the checklist is made of rows that are evidenced
(`ChecklistInv`). A step takes one element off the program, or ends the run, and
keeps this.

`HaltsHaveOutsideCauses` (`[]HaltsAreNotSelfInflicted`) needs to know what each
program writes and when, and a second invariant. `ProgramsAreTidy`: in the program
of each stage no call id and no row occurs twice, unless, for the rows, the study is
`Clashing`; and each step it marks as completed has its statistics among the rows
before the mark, unless there is a single construct or no total effect. That the
rows of one loop differ is shown from the way ids are made: two loadings differ as
their codes do, two squared correlations because pairs that join alike are
`Clashing`, two effects because an arrow and `.via` are no part of a code (`Code`),
two links because R reports each once (`EachOnce`). `TraceInv` carries this through
a run: what is left to call or to write has not been called or written (`CallInv`,
`RowInv`; the rows of different stages differ by the first word of their ids), and
the marks that are left have their statistics in the store or before them in the
program, as those in a journal nobody forged have them in the store
(`EvidenceInv`), so that it replays. That no artifact is missing and no log has a
gap is in `PipelineInv`.

`LiveStudyProofs` (any number of extractions, runs, reruns of reruns and edits):
`LiveTypeCorrect`, `TokensAreFresh`, `RunsAreWhatWasGlanced`, `RerunsAreExact`, from
`LiveInv`. A token that was written goes with the archived answer and the
configuration until one of the three is removed, and as both token and archive are
removed before the model is asked, none is there when the next answer is written
(`ExtractInv`); what a confirmed
run works with is followed through the steps of the command (`ConfirmInv`); each
sealed run has one of a few shapes (`ShapeInv`), and what a rerun has so far is
compared with its source field by field (`RerunInv`).

`MeasurementStageProofs` (any items, constructs, loadings, policies, floors and
caps): `StageTypeCorrect`, `DeletionsAreEarned`, `DeletionsAreAccountedFor`,
`ModificationsAreEarned`, from `StageInv`. What an item in flight was allowed on is
in `PermitInv`, that the audit is a chain in `ChainInv`, that who was passed over
stays in `SkippedInv`; `LogInv` ties each entry of the decision log to an entry of
the audit or of the modifications, by position, and `ControllerInv` bounds
respecification.

`StudyFindingsProofs` (any contracts, documents, dictionaries, bounds on the cycles
and estimates): `FindingsTypeCorrect`, `AcceptedContractsHold`, `GatesHold`,
`ReportsAreMatched`, `MatrixIsFollowed`. What the validators promise is shown once,
of contracts as values; `FindingsInv` says that the contract of a study that goes
on is one they accepted (`ContractInv`), that the verdict is about the audit of
the present version (`AuditInv`), and that each report covers what the contract
demands (`StructuralInv`, `EffectsInv`, `RivalInv`, `MatrixInv`).

`PreparationProofs` (any contracts and exports, any number of rows, columns, items
and checks, any policy, block, threshold and floor): `PreparationTypeCorrect`,
`NothingGetsLost`, `HaltsHaveReasons`, `GateIsExact`, from `PrepInv`. `RoleInv` is
about the columns: where every declaration is found once and the claims are as many
as the columns, each column has one role (`OneRoleEach`, a count). `ChainInv` says
that `run_prep` and the accountant go on with the same cases, those no link has
dropped, which the program does not compare before the end; by `LinkWorks` a link
that is handed different cases of the present sample is never refused, and each
screen is shown to hand over such. `DropInv` has the reasons, `PassInv` what the
cases that are left have passed, `CensusInv` and `FrameInv` where each missing cell
is accounted for, `SignInv` which reversed items do not correlate until outliers
leave. Two increasing lists with the same cases are equal (`IncreasingEqual`), which
is what the comparison in `finalize` comes down to. The clauses about the gate are
shown of a contract as a value (`ContractIsMeasured`); what the properties say of
failures is part of the invariant itself, at the step that halts.

The lemmas about `Selection` (the entries at some positions are a sequence of just
those entries, in order) stand in for the induction that a recursive selection
would need. They are stated in each of the three proof modules that use them,
`StudyPipelineProofs`, `StudyFindingsProofs` and `PreparationProofs`.

Only model-checked:

- Liveness: `EveryRunEnds`, `EveryStudyEnds`, `EveryAppendEnds`, `EveryStageEnds`. The
  prover has no rule for `ENABLED`, on which weak fairness rests.
- The four expected violations, which are single counterexamples.

## 5. Plan

Done: run directory, logs, store and pipeline; the live commands; the contract with
its gates and findings; the measurement methods; preparation. All safety and
action properties of these, and the refinement, are proved; liveness is checked.
What would come next:

1. The stage of assumptions and estimator choice (`stats/assumptions.py`), whose
   decisions the later stages read, as a module of its own.
2. A composition of `Preparation` and `StudyFindings` under `StudyPipeline`, in which
   the study record of the pipeline is derived from a contract.

## 6. What is not modelled

The numbers: R workers, Monte Carlo simulation, power, the estimator choice of the
assumptions stage, the tables of the measurement report. They compute or halt, and
only whether they do matters to the modules here. `core/artifacts` (schemas,
canonical JSON, SHA-256, seeds) is data: identities without collisions. The
loaders of policy and playbook are pure cross-checks of two fixed documents.
`verify/parity.py` and `verify/independent.py` compare numbers within tolerances and
are called by no stage. The reading of documents, report wording, logging, the
environment doctor and argument parsing change no state the properties are
about. `PROJECT.json` says so component by component.
