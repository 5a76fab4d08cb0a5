# Formal models of toolcall-tr-pipeline

This directory holds TLA+ models of the pipeline: how it publishes
immutable files, how it pays for provider requests at most once, how it resumes
after crashes and recovers failed runs, how it draws candidates from edited
sources, and how it keeps append-only logs and admits releases. TLC checks the models on small
instances, TLAPS proves the central facts for every instance. `PROJECT.json`
lists runs, mutants, findings, theorems and, for every definition, the source
lines it stands for. Source paths below are relative to `src/src/toolcall_tr/`.

## 1. Inventory

The program is a Python command line tool that turns English tool-calling
data into reviewed Turkish data. Its stages communicate through files only.
Nothing is overwritten: every stage publishes immutable files under an output
root and resumes by finding what is already there. Processes may die at any point;
two stages use thread pools; nothing but the file system keeps two processes on
one root apart.

| Component | State | Operations | Hard behaviour | What makes it correct |
|---|---|---|---|---|
| Immutable store (`artifacts.py`) | files | `publish_bytes_atomic`, `publish_jsonl_artifact` | races between publishers, crashes, failed writes | a name is written once, atomically, and every caller gets a true answer |
| Leaf translation (`operational_translation.py`) | leaf results, claims, attempt records, token sidecars of an output root | `_leaf_record` | crash between claim, request, record and result; two processes on a root; changed settings | a paid request is not repeated; a leaf agrees with the evidence on record |
| DeepSeek adapter, provenance, transport | none of its own | `translate`, `create_response`, `emit_*` | which failures mean "perhaps delivered" | one terminal record per call, before anything else |
| Autonomous translation (`autonomous_pipeline.py` 696-984) | episode inputs, route receipts, episode results, batches | primary route, fallback route, worker pool, resume | jobs abort while others write; resumes with other orders; edits of the input | complete batches, one fallback at most and only after a safe failure |
| Evaluation inputs (`autonomous_pipeline.py` 1031-1151) | evaluation input file | `prepare_automation_evaluation_inputs` | stale translations of an edited candidate | judges see the translation of the candidate they are given |
| Live evaluation (`live_evaluation.py`, `openai_judge.py`) | checkpoints, attempts, results, run reports | `run_live_evaluation`, worker pool, resume | crash between answer and checkpoint; changed configuration | a checkpointed row is never judged again; reports agree |
| Event log (`events.py`) | event shards | `append`, `read_verified` | racing writers | one hash chain; success is never contradicted |
| Human review log (`human_review_log.py`) | the same, typed | `append`, `read_verified` | check and append use different reads | one review per verdict |
| Conflict adjudication (`adjudication.py`) | the same, typed | `append`, `current` | racing decisions on one conflict | one chain of decisions per conflict |
| Source ingest and pilot (`source.py`, `canonicalize.py`, `pilot.py`) | snapshot, canonical, audit, quarantine and report files | `pilot run` | edits during a read, crashes between files | a file is one version of its source; no row is lost |
| Audit and review queue (`audit.py`, `review_queue.py`) | audits, worklists | `audit duplicates`, `review prepare` | audits of different inputs | every conflict reaches a reviewer |
| Candidate selection, canary (`autonomous_pipeline.py` 432-664, `pre_review_canary.py`) | candidate and canary manifests | `automation plan`, `canary prepare` | offsets and budgets at their limits, stale audits | disjoint batches without conflicting episodes |
| Consensus and review package (`autonomous_pipeline.py` 1154-1760) | consensus, review package | escalation, `build_hierarchical_consensus` | missing or failed verdicts of either judge | nothing undecided is packaged |
| Recovery (`automation_recovery.py`) | sibling roots over a read-only parent | `automation recover` | requests sent again on purpose | only authorised ones are; retries add and do not take away |
| Release contract (`release_contract.py`) | release manifests | `release build`, `release validate` | files edited, reviews logged between reads | a release describes one moment and rows people have accepted |
| Adapters, field policy, rendering, evidence, CLI options | files | conversions and wiring | - | not modelled: data, see section 8 |

Interactions. A pilot turns a source file into canonical episodes and their audit;
`automation plan` draws a batch from them. `automation run` calls the stages in sequence:
autonomous translation (one `run_operational_translation` per episode and route,
each of which calls `_leaf_record` per leaf, which calls the adapter), preparation
of the evaluation inputs, live evaluation with the mini judge, escalation, live
evaluation with the strong judge, consensus, review package. `automation recover` does the
same in a sibling root for what failed. People append to the review and adjudication
logs; a release is built from dataset files and the review log. All of them publish through the immutable store.

## 2. Modules

| Module | Models | State and actions |
|---|---|---|
| `Publication` | the answer of one `publish_bytes_atomic` call | operators `Verdict` and `Stored`, used wherever a file is published in one step |
| `WriteOnce` | what that function promises (abstract) | a register that is written at most once; a call is decided in one atomic step |
| `ImmutableStore` | that function, one action per system call | `FindExisting` (lines 71-74), `MakeTemporary`, `WriteTemporary` (75-81), `Link` (82-90), `Unlink` (`finally`), `WriteError`, `Crash` |
| `ImmutableStoreProofs` | | proofs |
| `LeafTranslation` | `_leaf_record` and the adapter | one leaf, one root, many runners and settings; one action per file access, request and answer. `RefuseEndpoint` is the one failure of the adapter that leaves no record (`deepseek_adapter.py:201`) |
| `LeafTranslationProofs` | | proofs |
| `AutonomousTranslation` | `run_automation_translation`, `_run_route`, `prepare_automation_evaluation_inputs` | the files of a root; `pc`, `route`, `at` are a job's position in `process_episode`, `run` and `seen` the main thread's; `approved` says whether the adapter accepts the configured endpoint |
| `TranslationStage` | what the translation of a batch promises (abstract) | `routings`, `published`; `Translate(e)` decides an episode's routes once, `Publish` needs all of them |
| `AutonomousTranslationProofs` | | proofs |
| `LiveEvaluation` | `run_live_evaluation` with the judge adapter | checkpoints and reports; `pc`, `held` are a worker's position and the result it holds |
| `JudgingStage` | what an evaluation promises (abstract) | `results`, `covered`; `Judge(r)` gives a row one result, `Report` covers rows that have theirs |
| `LiveEvaluationProofs` | | proofs |
| `EventChain` | the event log's files | an event is the sequence of payloads of its chain, because its hash covers the one before it |
| `ReviewLog` | `HumanEvaluationReviewLog.append` over `EventLog.append` | `Check`, `Read`, `Publish`, `Acknowledge` are the three reads and the publication |
| `ReviewLogProofs` | | proofs |
| `RouteEvidence` | what routes may leave behind | operators: `RouteResults`, `ShouldFallback`, `Routings`, `Terminal` |
| `RunEvidence` | extends it by what judges may leave behind, and who reads it how | operators: `Outcomes`, `RetryTranslation`, `Sampled`, `Escalates` |
| `AutomationRecovery` | `automation run` and `automation recover`, stage by stage | per root: stage, routes, checkpoints, receipts, packages; one action per episode translated or leaf judged, and per stage ended |
| `AutomationRecoveryProofs` | | proofs |
| `DataPreparation` | pilot, audits, worklists, batches, canaries | `ReadLine` takes one line of a file that `EditSource` changes; `PublishPilot` publishes a prefix of the pilot's files; `Plan`, `PrepareCanary`, `PrepareReview` take any files and audits the operator names |
| `DataPreparationProofs` | | proofs |
| `AdjudicationLog` | `ConflictAdjudicationLog.append` over `EventLog.append` | `CheckLink`, `ReadEvents`, `PublishEvent`, `Settle` are the reads and the publication |
| `ReleaseGate` | `release build` and `release validate` | `Describe` and `CheckFile` read one dataset file, `Report` writes the manifest |
| `Curation` | `DataPreparation`, `AdjudicationLog` and `ReleaseGate`, which share no state, side by side | `part` names the one that moves |
| `CurationProofs` | | proofs about `AdjudicationLog`, `ReleaseGate` and their composition |
| `MC*` | instances for TLC | |

How the modules fit together. `ImmutableStore` implements `WriteOnce`
(property `Refinement`, also proved). This justifies that all other modules take
a publication as one step, whose result `Publication` gives. `LeafTranslation` is
the detailed view of one leaf with concurrent processes and changing
settings. `AutonomousTranslation` takes its steps together (within one run, a leaf belongs
to one worker) and adds episodes, routes and runs. `AutomationRecovery` takes its result, and that
of `LiveEvaluation`, as one step per episode and leaf (a routing, an outcome), and adds
what only shows across stages and roots. That nothing is lost at this boundary is proved from both sides:
`AutonomousTranslation` implements `TranslationStage` and `LiveEvaluation` implements `JudgingStage`
(`ImplementsStage` in both), and the parent root of `AutomationRecovery` shows a `TranslationStage` and two
`JudgingStage`s (`RunIsItsStages`). The mapping reads an episode's receipts: it is open until the receipt of its
last route is there (`Decided`), a route is its number of leaf results and its end, and a
failed route that has kept all its leaves ended with "merge_rejected". `ReviewLog` and `AdjudicationLog` use `EventChain`;
`ReleaseGate` takes a review log as the set of its reviews, readable unless two of
them are about one verdict, which is what `ReviewLog` shows it to be.

Abstractions.
- Hashes and deterministic ids stand for what they hash. The attempt id of a leaf
  is its settings (`LeafTranslation`) or its slot `<<episode, route, leaf>>`
  (`AutonomousTranslation`).
- `AutonomousTranslation` and `LiveEvaluation` run one process at a time on a
  root, as docs/08 describes resumption; two processes on a root are the
  subject of `LeafTranslation`. Prompt, field policy and pipeline configuration
  stay the same for a translation root ("Yeni bir üretim deneyinde eski kökü
  kullanmak yasaktır"); changed settings are in `LeafTranslation`, changed
  configurations in `LiveEvaluation`.
- A failure is a code. `LocalFailures` are raised before the request is
  delivered, `RemoteFailures` may be raised after. A blocked preflight counts as a
  local failure of its own. Which endpoints the adapter accepts is the constant `Approved` of `LeafTranslation`
  (the endpoint is part of the attempt id, hence of a setting) and, with one configuration per root, the
  choice `approved` of `AutonomousTranslation`. A refused endpoint is not a failure on record: the claim is there
  (`operational_translation.py:289`), and nothing else.
- Steps that only read are merged with the following write where no other actor can
  interfere; each comment says so.
- Whether the host-side merge rejects a translated episode is left open
  (`MergeRejected`): the model allows more than the text would.
- The publications at the end of a batch (artifact, manifest, report) are one step:
  they are functions of the same rows. `run_id` is left out of the reports.
- `AutomationRecovery` has one command at a time, as docs/08 prescribes, over a
  candidate file and a configuration that do not change.
- In `DataPreparation` a row of a source file is a name, with the context it presents, the behaviour
  it shows and its number of segments; an episode id is its source, version and
  line, and a canonical file a finite set of `[id, row]`. Each hash order (by id, for batches, for canaries)
  is a constant, and no two episodes have the same place in one. The canary's loop over the stream is
  taken by its result: an episode is chosen exactly if, with those chosen before it, it keeps to the number and the budget. Rows that
  cannot be parsed are left out.
- `release validate` accepts any manifest file that is consistent in itself; `StartValidate` takes those that a
  build has written, and `DescribedTogether` is about these. A file that changes between its two hashes
  (`release_contract.py:341-345`) ends the command like a crash.
- An edit never restores earlier bytes (`DataPreparation`, `ReleaseGate`). Hashes taken before and
  after could not tell a file that was changed and changed back in between, and
  `CanonicalIsSnapshot` and `DescribedTogether` are only claimed under this assumption.

## 3. Runs

| Run | Bounds | What it shows |
|---|---|---|
| `ImmutableStore` | 3 publishers, 2 payloads, 2 orphans | no temporaries kept by live callers, termination, refinement of `WriteOnce` (hence one creator, true answers and immutability) |
| `LeafTranslation` | 2 runners, 3 settings, one of them with an endpoint that is refused, 3 calls, one body of each kind | leaf, record and sidecar always agree, and a failed call is on record unless its endpoint was refused, when nothing was sent; an abandoned claim is final; requests per attempt are bounded by the number of runners |
| `LeafRace` (violation) | 2 runners, 1 setting | finding 1 |
| `AutonomousTranslation` | episodes of 2 and 1 leaves, 2 workers, 1 fault, with either kind of endpoint | no request is paid twice, no fallback after an uncertain delivery, one open leaf per route, complete and reproducible batches; refinement of `TranslationStage` |
| `AutomationLive` | 2 variants, 1 edit, 1 fault, an episode without leaves | routes stay on one variant, stale translations never reach a judge, runs end, repeated runs publish |
| `ReviewLog` | 2 writers, 3 reviews of 2 verdicts, 4 appends | without overlapping appends the log stays readable; with them, acknowledged events still lie on one chain |
| `ReviewDuplicate` (violation) | 2 writers, 2 appends | finding 2 |
| `LiveEvaluation` | 3 rows, 2 workers, 2 configurations, 1 fault, 1 edit of the input or the configuration | checkpointed rows are final, reports say what checkpoints say, resends need a fault, a resumed evaluation gets its report |
| `JudgeTwice` (violation) | 2 rows | finding 3 |
| `AutomationRecovery` | episodes of 1 and 2 leaves, 2 runs, 1 recovery, samples of 2 and 50 percent, statuses 402 and 429, routes that may also fail with an invalid response or an unknown delivery, 2 troubles | a stage that packages has what it needs; what is retried ended with a failure the operator named, and no route of it with one of unknown delivery; packages hold only what its judges passed; a recovery keeps what its parent had packaged; strong verdicts stand |
| `RecoveryResend` (violation) | the same with status 429, 1 run, 1 sample | findings 4 and 5 |
| `Curation` | 2 sources, one with 2 versions, 2 audits, 2 draws; 2 reviewers, 2 conflicts, 4 appends; 2 files of 2 versions, 3 verdicts | canonical files are snapshots and lose no row; reviewers see the conflicts that selection avoids; batches are disjoint and free of conflicts; decisions form a chain; releases describe one moment and accepted rows |

Why the bounds are enough to be interesting. Three publishers give a winner, a
loser with the same bytes and a loser with other bytes. Three leaf calls let a runner
come back after a crash while another is still inside. Two leaves in a route
let it stop in its middle, and a second episode lets one job raise while the other works;
one fault gives a run that meets what a crashed or aborted run left in any state of
its files, and runs are repeated without bound. Three rows for two workers leave one
queued. `MaxFaults`, `MaxEdits`, `MaxCalls`, `MaxAppends` and `MaxOrphans` are the only
bounds of these runs; each is a guard of the environment's actions, never of the program's.

In `AutomationRecovery`, a trouble (`MaxTroubles`) is a route that failed or a leaf that a
judge has not passed: two of them give a failure in each of two stages, in parent or recovery, or an episode
with two failed routes, of whose codes the operator names one, the other or both. `RecoveryResend` follows one
history (`History`): the primary route of `e2` kept a leaf, got an invalid response for the other, and
the fallback a 429. Leaf
`<<"e2", 1>>` is in a sample of 50 percent and, by one, not in one of 2 percent. `LateCodes` is empty there,
since routes that fail after their last leaf double the instance; the proofs cover them. In `Curation`,
`MaxAudits`, `MaxDrawn` and `MaxSubmitted` bound what operators do, and the constraint `Bounded`
follows draws and worklists separately. Rows `x` and `y`, in different files, conflict, so
an audit of either file alone does not know it and one of both does; the first file has a
rejected row, and a second version of the same length.

Deadlock is checked except where the bound on calls or appends ends the behaviour
(`MCLeaf*`, `MCReview*`, `MCRecovery*`, `MCAutomationRecovery`, `MCCuration`).

## 4. Fairness

`WF` of the steps of a live job and of the main thread: threads are
scheduled, and `create_response` has a timeout, so waiting for an answer ends.
`WF(StartRun)`: docs/08 ("Arka plan ve devam ettirme") has the operator call the
same root again until the batch is there. Crashes, failed writes and edits are not fair and
are bounded. No strong fairness is assumed. `AutomationRecovery`, `DataPreparation`,
`AdjudicationLog` and `ReleaseGate` state safety only: their commands end after finitely many
steps, or stop at the first refusal, and nobody is bound to call them again.

## 5. Findings

1. `LeafRace`/`SendOnce`: the claim of an attempt is published with bytes that are the same
   for every claimant, and the answer ("created" or "identical") is ignored
   (`operational_translation.py:289`). Two processes on one root can both send. The
   claim still bounds the requests by the number of racing processes (`SendsBounded`, proved).
2. `ReviewDuplicate`/`OneReviewPerVerdict`: the review log's check and the event log's read
   are two reads (`human_review_log.py:87`, `events.py:103`); two reviews of one verdict
   may both report success and make the review log unreadable.
3. `JudgeTwice`/`JudgedOnce`: a crash between answer and checkpoint lets a row be paid for
   again (`live_evaluation.py:411`). `ResendsAreFaults` says that nothing else does.
4. `RecoveryResend`/`OnlySelectedResent`: a recovery selects whole episodes and translates them in
   a fresh root (`automation_recovery.py:534`). Leaves that had succeeded are sent again, although
   `cli.py:1355` and README.md:193 say that successful checkpoints never are.
5. The same run: `_retryable_translation_ids` only looks at the attempts of the last route
   (`automation_recovery.py:282`). An episode whose primary route failed with an invalid response, and whose
   fallback failed with 429, is translated again from its first leaf when 429 is named, and the
   invalid response is paid for again. docs/08:95-97 and 109-110 and README.md:210-211 put such failures outside
   recovery. The trace shows both: the primary route kept leaf 1 and got an invalid response for leaf 2.
   `OnlyNamedRetried` is what does hold (proved): the last route ended with a named status, and no route with
   an unknown delivery.

Not findings, but limits a user should know. First, two appends that read the same last event
publish two shards with the same sequence number; at most one of them reports success, and the
event log is unreadable from then on. `AcksAgree` says what survives: no two appends that reported
success contradict each other. `StaysReadable` says that this needs overlapping appends.
Further limits, met while modelling:
- An endpoint that the adapter does not accept is refused only after each attempt has been claimed
  (`deepseek_adapter.py:201`); nobody looks at it earlier. Nothing is sent and nothing recorded, so the claims
  look like lost requests, the routes end with the code `unknown`, no fallback is taken, and the root can
  never be completed; `unknown` is outside recovery, too.
- Two overlapping decisions on one conflict may both report success and supersede the same
  decision; the log's events are intact, but `read_verified` of the adjudication log raises from then on
  (`adjudication.py:115`, `143`). Nobody reads `current()` yet.
- `_parent_run` accepts a parent without a strong receipt, although the command's help speaks of a
  completed root: strong results without a receipt are not seen, and asked for again.
- A strong "fail" no longer counts once the leaf's mini result was retried and passes, or
  the leaf leaves the sample (`StrongStands` lists these ways). Running the parent again with another percentage can
  publish a second strong receipt, after which every recovery is refused as ambiguous. A
  second recovery in another sibling sends authorised requests again.
- Batches are disjoint only if drawn from the same files, audits and row cap; a manifest does not
  tie its offset to earlier ones. The audit of a pilot does not know conflicts with other
  sources; `CandidatesApart` needs an audit that covers all inputs.
- A batch over the budget is refused (`autonomous_pipeline.py:529-559`), although the comment at 510 says
  that such an episode is skipped.
- A pilot that died between its files leaves canonical episodes without quarantine or report, and
  batches can be drawn from them.
- `review prepare` refuses two audits that list one conflict with different members, since the conflict's
  identity leaves the members out; audits that can be used together for selection may have no
  common worklist.
- A release compares rows by `episode_id` only, and one accepted verdict (one leaf) admits an episode.

## 6. Proofs

All proofs are checked by TLAPS from the named assumptions of the modules (`StoreAssumption`,
`LeafAssumption`, `AbsentAssumption`, `BatchAssumption`, `NoReceiptAssumption`, `EvaluationAssumption`,
`NoCheckpointAssumption`, `ReviewAssumption`, `RouteAssumption`, `EvidenceAssumption`, `RecoveryAssumption`,
`PreparationAssumption`, `AdjudicationAssumption`, `ReleaseAssumption`), which say that the "absent" value is
no payload and no record, that the sets of failures are disjoint, that counts are natural numbers, that a
source version is a finite file and that two episodes never have the same hash. None bounds the number of
processes, episodes, leaves, rows, workers, roots, files, faults or edits.

`ImmutableStoreProofs`. `OneCreator` and `AnswersAgree` are not inductive: that the bytes
a winner links are its payload depends on where its temporary is. The
inductive invariant adds that a caller at `link` has all its bytes in
its temporary, and that results are only set behind the link. From it follow
`TypeCorrect`, `CreatorIsUnique`, `AnswersAreTruthful`, `NameIsWrittenOnce` (an action
property), `TemporariesAreOwned` (a live caller has a temporary only inside its call)
and `ImplementsWriteOnce`: `Link` and `FindExisting` map to `Decide`, `Begin` to
`Call`, `Leave` to `Return`, a crash or failed write to `Die`, everything else stutters.

`LeafTranslationProofs`. The evidence properties need that a runner behind `EmitAttempt`
holds exactly the record on disk (it would have got "conflict" otherwise).
`SendsBounded` needs a potential: the requests already sent for a setting, plus the runners still
entitled to send, never exceed the runners; a runner can become entitled only
while no claim exists, and nothing was sent before the first claim. `EvidenceIsConsistent` rests, for refused
endpoints, on `NothingRefused`: under a setting that is not approved nothing is ever recorded or sent. `ClaimIsFinal`
is the action property that an abandoned claim is never sent again.

`AutonomousTranslationProofs`. Every safety property of the batch is proved. `Shape` ties a job's position to
the run and to the receipts: a job on the fallback route has a primary receipt that allows it.
`PaidAfterClaim` (nothing is sent without a claim, and a claim's request is pending with one job only) gives
`PaidOnce`. `Path` is the heart: a job's leaves are filed in order, a leaf result stems from a recorded
success, a record from a claim, and a route with work going on has no receipt. Hence `OneOpen`, and
`ReceiptsFinal`: the evidence of a route with a receipt never changes. On it rests what a receipt tells
(`Receipted`): the code of a failed route is that of its only open leaf, so a code that allows the fallback
settles the primary route's deliveries for good (`UncertainStays`), and "translated" means every leaf is there
(`Complete`). Rows and batches quote receipts (`RowsQuote`, `BatchesQuote`), so repeated runs agree
(`SameBatch`). `VariantsStayMatched` combines that one variant is routed with the lemma `NoStaleJudged`, the guard
before the judges. `TranslationImplementsStage` needs one fact more, `Ends`: a route without failure has
results of all its leaves, and the failure code of another is that of a recorded attempt or unknown. Leaf
results are filed in order (`KeptIsPrefix`), so a route's leaves and its end fit together as `RouteResults`
says (`RouteResultType`). The receipt that ends a job's last route maps to `Translate`, the end of a completed
run to `Publish`, and since evidence with a receipt is final, everything else stutters (`RoutingStays`).

`LiveEvaluationProofs`. `RowShape` says that a row between its look at the checkpoint and its own has none,
and that a done row's checkpoint holds what its worker returns: `CheckpointedIsFinal` and `ReportsQuote` follow.
`ResendsNeedFaults` needs the count to be one lower (`LostToFault`) for a row that has neither
checkpoint nor worker. `EvaluationImplementsStage` maps the publication of a checkpoint to `Judge` and a report
to `Report`; by `RowShape` a worker that publishes found no checkpoint, and a completed run has one for each of its rows.

`ReviewLogProofs`. Two events of one chain extend each other (`ChainIsLinear`); an acknowledging writer has just
read the whole log as one chain that holds its own event and all acknowledged ones. `LoneWritersAreSafe`
adds what a lone writer knows: what it checked still holds when it publishes, and what it read is the log
(`ChainGrows`).

`AutomationRecoveryProofs`. The inductive invariant follows the stages: `Begun` (a sibling has nothing
before its recovery begins, and begins from a parent with batch and mini receipt), `Translations`, `MiniResults`
and `StrongResults` (a result is only there for what its stage may ask for, and a published receipt covers
all of it) and `Packages`. `StepEffects` sums up what any step may do (add results,
publish receipts, move on, package), so the other lemmas need not know the actions. The `Final*` lemmas say that what a published
receipt fixes (inputs, escalated leaves, the verdicts behind a package) is not changed by later steps, in particular
not by repeated runs of the parent. `RecoveryOnlyAdds` then compares two packages leaf by leaf: a retry
only replaces what had failed, and `SampledLess` orders the samples. `RunIsItsStages` takes the parent root's
translation, mini and strong judgement through the abstract stages: `Translate` and `Judge*` are theirs,
the end of a stage is `Publish` or a `Report` of the rows it was for, and a repeated run stutters.

`DataPreparationProofs`. The inductive invariant is `PreparationInv`. `Reading` says that each line taken so
far stems from some version the file has been in since the snapshot, and that the count agreed with the
snapshot's at the end; `CanonicalIsSnapshot` follows for a file that is still in that version when the second
hash is taken, since versions only grow. `ConflictsListed` says that a worklist has every conflict of every
audit it was made of. For `CandidatesStayApart`, the order of candidates has to be an order at all: sorting by
a hash without collisions lists each episode once (`SortedLists`, `HashOrders`), and so does the round robin
over the sources (`RoundRobinOrders`); hence a slice of the stream is disjoint from another slice
(`SlicesApart`). The definitions involved count smaller elements instead of recursing, so no induction over
data is needed. `Drawn` ties each manifest to the slice it was cut from, and `OtherFrames` collects what the
other actions leave alone.

`CurationProofs`. As for the review log, a lone reviewer's knowledge (`LoneReviewer`) holds until it publishes;
`LinksExtend` says that a chain of decisions stays one when it is extended by a decision that supersedes the current one.

For the release, `SecondPass` is the invariant behind `FilesAreDescribedTogether`: versions only grow, so when
the second pass begins the dataset is no older than the description, and each file found unchanged
had its described version at that very moment. `ReleasesAreAccepted` needs that members are ordered by episode, so that
none appears twice, and that the log that was read has one review per verdict.

By the lemma `PartsAreIndependent`, a behaviour of `CurationSpec` is one of each part's own specification. With
`DataPreparationProofs` this gives `CurationTypeCorrect` and `CurationIsSafe`: all safety properties of the parts
hold at once in the composition that TLC runs.

Out of the prover's reach, and left to TLC: liveness (`CallsEnd`, `RunEnds`, `Settles`). Every other property
of the passing runs is proved. Only proved, besides the lemmas: the store's `OneCreator`, `AnswersAgree` and
`Immutable`, which `Refinement` contains; `ReceiptsAreFinal`, `KeptInOrder` and `OneVariantPerEpisode`, which
the batch's properties rest on or contain; `EvaluationImplementsStage` and `RunIsItsStages`.

## 7. Plan

1. `AutonomousTranslation` refines, per slot, `LeafTranslation` with one runner.
2. The sibling roots of `AutomationRecovery` as stages of their own: their rows are those of the parent's that a
   recovery selects, a set that is not constant.
3. The selection freeze and the split guard as functions against reference definitions, once a
   stage uses their results; shards.

## 8. Not modelled

Source adapters, the rules of canonicalisation, field policy, rendering, prompts, evidence
patterns and the egress guard transform or match text and keep no state: the models take what
they decide (a row is rejected, a merge fails, a leaf needs research) as a constant or a choice.
Configuration and credentials wire the stages together. Left out as well:
- the selection freeze (`selection.py`), the split guard and the near-duplicate audit, whose results
  no stage reads;
- `automation recover-plan` and `automation status`, which only read;
- `build_automation_consensus`, the older consensus of two judges, which no command calls;
- the evaluation inputs of a canary, a function of its files;
- bytes of files beyond their identity: shards, JSON encodings, hashes and identifiers.
