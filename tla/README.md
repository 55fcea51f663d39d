# DreamFi: a TLA+ verification of its governance, ingestion and learning protocols

DreamFi is an internal product-operations service on top of Onyx. It scores prompt versions
with eval rounds and promotes the better ones, mirrors the documents of external tools into Onyx,
answers questions with cited, remembered context bundles, turns reviewed failures into gold examples
and prompt proposals, replays them on a schedule, and publishes what passes its gate. Its rules live in
Python request handlers (FastAPI, one SQLAlchemy session per request, worker threads), in commands and
in Alembic migrations. This directory models the protocols in which requests, transactions, processes and
failures interleave, checks them with TLC, and proves the results that matter most with TLAPS.

Paths below are relative to `src/`.

## 1. The system

| Component | State | Operations | Talks to |
|---|---|---|---|
| **Prompt governance** (`dreamfi/api/routes/skills.py`, `dreamfi/autoresearch/loop.py`, `dreamfi/promotion/gate.py`, `dreamfi/trust/gold.py`) | `prompt_versions` (`is_active`, one per skill by a partial unique index), `eval_rounds`, `eval_outputs`, `gold_examples` (`last_result`, `last_run_round_id`), `gold_drift_events` | run a round, promote a round's version, history, preview | Onyx (generation), eval runners, replay schedules, workflows |
| **Connector sync and activation** (`dreamfi/connector_sync/service.py`, `dreamfi/settings_activation.py`, `dreamfi/api/routes/settings.py`) | `connector_settings`, `connector_documents`, `connector_sync_runs`, the document set in Onyx | save or delete credentials, save configuration, probe, ensure the document set, activate, deactivate, sync, bridge ingestion | providers, Onyx, audit |
| **Context engine** (`dreamfi/context/`, `dreamfi/api/routes/context_ask.py`) | `topics`, `topic_aliases`, `topic_relations`, `context_bundles`, `context_questions` | ask | Jira and Confluence clients, LiteLLM |
| **Learning review** (`dreamfi/learning/`, `dreamfi/api/routes/learning.py`) | `artifact_feedback`, `production_outcomes`, `learning_proposals`, `workflow_traces`, `skill_candidates`; inserts into `prompt_versions` and `gold_examples` | record feedback, outcomes and traces, promote feedback to gold, generate, approve and reject proposals, generate and review candidates | prompt governance |
| **Replay schedules** (`dreamfi/learning/loop.py`, `dreamfi/api/routes/learning.py`, `dreamfi/api/routes/console.py`) | `replay_schedules` (`next_run_at`), `replay_runs`, row locks | run one, run the due ones, ask for a refresh | rounds, connector sync |
| **Workflow artifacts** (`dreamfi/api/routes/workflows.py`) | a version if none is active, a one-output round per artifact | generate | Onyx, prompt governance, publish gate |
| **Publish gate** (`dreamfi/api/routes/publish.py`, `dreamfi/promotion/gate.py`, `dreamfi/trust/artifact.py`) | `publish_log`, a trigger on it | publish, block | outputs, scores |
| **Scoring** (`dreamfi/evals/`, `dreamfi/confidence/`, `dreamfi/skills/engine.py`) | none | criteria, confidence, readiness | rounds, artifacts |
| **Schema migrations** (`dreamfi/db/migrations/`, `dreamfi/db/models.py`) | the schema, `alembic_version` | upgrade, downgrade | every process that starts |
| **Seeding and demo data** (`scripts/onyx_seed.py`, `dreamfi/trust/seeding.py`, `dreamfi/ops/demo.py`) | skill rows, document sets and personas in Onyx, first prompts, demo rows | seed, seed-local, seed-demo, setup-docsets | Onyx |
| **LiteLLM router**, **Onyx client** | none | calls with fallbacks and retries | LLM, Onyx |
| **Go service** (`internal/`, `cmd/`) | the same tables, one transaction per statement | console, Ask, workflows, sync, promotion | database, Onyx, providers |
| **Audit, authentication, console, readiness, backups, source intelligence, read-only connectors, web client** | audit rows | queries, presentation, adapters | everything |

How they interact: every HTTP request opens a session, reads with SELECTs (READ COMMITTED, so
each sees what is committed at that moment), changes objects in memory and sends INSERTs and
UPDATEs when the session is flushed, committing at the end of the handler. An UPDATE carries only
the columns whose value differs from the one loaded. `session.close()` without a commit rolls
back. Nothing but unique indexes and row locks keeps two requests apart: there is no version
column, no `SELECT ... FOR UPDATE`, no advisory lock. Containers migrate the schema when they start, so
several migrations may overlap.

Hard behaviours, and what makes each component correct:

- *Prompt governance.* Decisions rest on rows read at different moments and on gold rows shared
  by all rounds. Correct: a promotion replaces only what it was compared with; no promotion over a
  regression or without clearing the baseline; success means the target is active.
- *Connector sync.* A database transaction and an external index that cannot be rolled back, with
  refusals, lost answers and crashes between the two. Correct: no document is forgotten, a
  success means the index has what was pulled, rows and index agree between syncs, the index
  catches up, an active connector has its secret and its configuration.
- *Context engine.* One request is four transactions, and get-or-create relies on unique
  constraints. Correct: what is remembered has its topic, alias, bundle and edges.
- *Learning review.* Check-then-act on status columns that nothing locks. Correct: decisions are final,
  an applied proposal has its version, numbers have no gaps, gold agrees with the review it came from, a signal, a workflow
  or a feedback row is acted on once, and what a reviewer reads of a candidate follows from its traces.
- *Replay schedules.* One transaction per batch, committed in the middle by the rounds it runs, with row locks
  of source refreshes in it. Correct: every due schedule is run in the end, once, and leaves no run behind as running.
- *Publish gate, scoring.* Products and sums of shares whose thresholds are met or missed at the boundary, checked
  in the service and again in a trigger. Correct: what is published was fresh, cited and proven; every attempt is logged.
- *Migrations.* Overlapping, failing and dying processes, on a database that rolls DDL back and on one that does not.
  Correct: the schema is the one of the recorded revision, and the one the models expect.
- *Seeding.* Creates in Onyx that check no name, retried when their answer is lost, before one commit at the end.
  Correct: a linked skill can generate; nothing exists twice unless an answer was lost or two commands overlapped.

`PROJECT.json` lists the hazards at their lines, with the properties that would catch each.

## 2. Modules

| Module | What it is |
|---|---|
| `PromptGovernance` | versions, rounds, gold rows, drift events and promotion requests of one skill |
| `ActivePromptCell` | abstract specification: the active version is a compare-and-swap cell |
| `ConnectorSync` | settings row, documents, Onyx copies and requests of one custom connector |
| `ContextAsk` | topics, aliases, edges, bundles and memory of one workspace, and the asks that write them |
| `LearningProposals` | failure signals of the recent outputs, proposals made from them, prompt versions made from proposals |
| `SkillMining` | workflow traces, the skill candidates drafted from them, their review |
| `FeedbackGold` | feedback rows, the gold rows made from them, production outcomes |
| `ReplaySchedules` | due schedules, batches of runners, their transactions and locks, the console's refresh request |
| `SchemaMigrations` | the thirteen migrations, statement by statement, and the processes that run them |
| `OnyxSeeding` | the seeding commands, the rows they commit and what they create in Onyx |
| `Publishing` | the scores of an output, the publish guard, the trigger, the log |
| `ReviewDesks` | composes the three desks of the learning loop (`LearningProposals`, `SkillMining`, `FeedbackGold`) |
| `Installation` | composes `SchemaMigrations`, `OnyxSeeding` and `Publishing`: migrate, then seed or serve |
| `MCPromptGovernance`, `MCConnectorSync`, `MCContextAsk`, `MCReplaySchedules`, `MCLearning`, `MCInstallation` | instances for TLC |
| `*_proofs` | theorems about the module of the same name; `ReviewDesks_proofs` also has those of `SkillMining` and `FeedbackGold`, `Installation_proofs` those of `SchemaMigrations` and `Publishing` |

Where components share rows, the shared writes are actions of each module that needs them: workflows,
replays and approvals insert versions and rounds in `PromptGovernance` (`Bootstrap`, `BeginArtifact`, `AbandonReplay`,
`AddCandidate`), and promotion moves the active version that proposals are based on in `LearningProposals`
(`Activate`). The desks of `ReviewDesks` share no row, so their steps commute and a behaviour works at one desk: the states
of the run are the sum of the three, not the product.

`Installation` is the order of `make bootstrap` and of the container (`alembic upgrade head`, then the service). Processes
migrate while nothing has been seeded or served; with the database at the head and no process migrating, either the
seeding commands run or the service generates and publishes. The two are alternatives because they share no row: the gate
reads what the service has stored itself. The phases are coupled by the schema: the trigger of `Publishing` (`guarded`) is there
when the committed schema has it, so never on SQLite. To keep the states a sum, the later phases start from one history of the migrations
(no crash, no drift event), which they do not read, and seeding, which does not depend on the dialect, from one dialect.

### PromptGovernance

`versions`/`active` are the rows of `prompt_versions`; `rounds[r]` is the row of a round and the local
variables of the code that produces it; `gold` holds the shared columns of the gold rows; `drift` the
event table; `requests[q]` the local variables of a `promote()` call with its phase.

| Action | Code |
|---|---|
| `AddCandidate`, `Bootstrap` | a version is inserted inactive by an approval, or active by seeding or a first workflow |
| `BeginRound`, `FinishRound` | `run_round`: the gold results are loaded at the start; verdicts, gold rows, drift, score and previous score are committed together at the end |
| `AbandonReplay` | a replay swallows a generation error and commits the unfinished row with the gold results so far |
| `BeginArtifact`, `FinishArtifact` | a workflow artifact is stored as a completed round |
| `RollBackRound` | an error or a crash before the commit |
| `ReadTarget`, `ReadActive`, `ReadBaseline`, `Decide`, `Promote` | the SELECTs of `promote()`, the gate, and the commit of the two UPDATEs |
| `EndRequest` | the answer is sent, or the request dies |

Abstractions: scores are counts of passing outputs, and `Threshold` is in outputs; `completed_at` order is
commit order; the score of an artifact and the verdict of a runner are arbitrary. `Bootstrap` commits on its
own, while a first workflow commits it with its artifact. The gold set is fixed. `NullsFirst` says
where `ORDER BY completed_at DESC` puts NULL: first on PostgreSQL (production), last on SQLite (tests). The
`mark` of a request is a history variable: the newest completed round when the baseline was read.

### ConnectorSync

`source` is what the provider has, `onyx` what Onyx has indexed, `rows` the committed
`connector_documents`, `setting` the settings row, `lock` the sync whose transaction has updated the
settings row, `requests[q]` a request's loaded settings, pulled documents and uncommitted rows. `Flushed` is
the unit of work: an attribute set to its loaded value is not sent. Every endpoint is an action
(`SaveConfig`, `SaveSecret`, `DeleteSecret`, `Probe`, `EnsureDocumentSet`, `Activate`, `Deactivate`); a sync is
`Pull`, `OpenDocumentSet` (takes the row lock), `SyncDocument` per document, `FinishSync`, with the error exits
`RefuseSync`, `LoseUpstream`, `IngestFails` and `Crash`. A bridge ingestion brings any subset of the documents and goes on
from `OpenDocumentSet`.

Abstractions: contents are hashes; the settings row exists; sync-run rows, timestamps, secrets from the
environment, native connectors and the batch limit are left out; the persistence checks of
`activation_blockers` are the constant `PersistenceReady`; an activation that is refused also waits for the row
lock, which only delays it.

### ContextAsk

`topics`, `aliases`, `edges`, `bundles` and `memory` are the committed tables; `requests[q]` is an ask with its
bundle, its topic and the rows of its open transaction.

| Action | Code |
|---|---|
| `Ask`, `StructuringFails` | `ContextBuilder.build`: the bundle exists in memory only; `Structured` is the router's walk over the allowed models, with its one repair of an answer that does not validate |
| `LookUp`, `CreateTopic`, `AttachAlias` | `resolve_topic`; the topic is flushed, the alias added, both committed |
| `FindNode`, `InsertNode`, `CommitLinks` | `link_entities`, one entity at a time |
| `Refuse` | a unique constraint refuses a topic, an alias or a node: 500, rolled back |
| `RejectUngrounded`, `PersistBundle`, `RecordQuestion` | the rest of `ask`; the topic and the edges are already committed when claims are rejected |
| `Abort` | crash, lost connection or deadlock victim, in any phase |

Abstractions: a question is a model value with its normalized alias and the name of the topic it would create; a
bundle is the entities found and whether its claims are grounded. An INSERT whose key another open transaction
has inserted waits for it (`Awaited`). Topics, aliases and edges are never deleted by the code. The production factory
wires no connector yet (`dreamfi/api/deps.py`); the model covers the wired one.

### LearningProposals, SkillMining, FeedbackGold

| Action | Code |
|---|---|
| `Score`, `Age`, `Activate` | an output is stored, leaves the window of recent outputs; a promotion changes the active version |
| `Generate`, `LookAtCluster`, `CommitProposals` | `generate_learning_proposals`: clusters of failures, one query for an undecided proposal per skill and cluster, one commit |
| `Review`, `TakeNumber`, `CommitApproval`, `CommitRejection` | approve and reject: the check of the loaded status, the highest version number, the commit |
| `Record`, `AgeTrace` | a trace is recorded, leaves the window |
| `GenerateCandidates`, `LookAtDraft`, `CommitCandidates` | `generate_skill_candidates`: drafts by workflow, one query per draft, one commit |
| `ReviewCandidate`, `CommitReview` | `review_skill_candidate` |
| `Capture`, `CaptureGold`, `Promote`, `CommitGold`, `RecordOutcome` | feedback with and without gold, later promotion to gold, outcomes |
| `GiveUp`, `GiveUpReview`, `GiveUpPromotion` | a refusal, an error or a crash before the commit |

Abstractions: an output is its `Traits` (what `_output_failure_signals` reads of it), a trace what it `Does`; ids are model
values; `overlapped`, `crowded` and `met` are history variables that tell whether two requests have been in flight together.
`LearningProposals!CommitApproval` is refused by `uq_prompt_versions_skill_version` when the number is taken.

### ReplaySchedules

`due` has the schedules whose `next_run_at` has passed and `earlier` which of two has the earlier one; `runners[w]` the batch of a runner, the schedule it runs, the rows it
has still to write (`todo`: the gold examples of a gold replay, the connectors of a refresh) and those its
transaction has written and not committed (`locks`), the schedules finished (`done`) and the run committed as "running" (`visible`).
`Select` is the unlocked query, `StartRun` the insert of a run, `ReplayExample` the result of one gold example, `CommitRound` the commit that a gold replay makes inside
`run_round`, `EndReplay` a workflow replay, or a gold replay that stops at a failed generation and keeps the rows it has written locked,
`RefreshSource` one connector of a refresh, `FinishRun` the write of `next_run_at`, `CommitBatch` the end, `Fail` an error or
a crash, `BreakDeadlock` what PostgreSQL does to one of two runners that wait for each other; `LookAtRefresh` and `ScheduleRefresh` are the
console's request. Time is one cadence: no batch lasts as long as one (a day at least). `served` is a history variable: the runs completed since a schedule became due.

### SchemaMigrations, OnyxSeeding, Publishing

A schema is a set of parts (tables, unique keys, triggers, columns that differ from the models) and foreign keys. `Up` and `Down` are the
statements of the migrations, `Models` the schema that `dreamfi/db/models.py` declares. `RunStatement`, `Stamp` and `Commit` are
Alembic; on PostgreSQL they are one transaction that locks what it touches, on SQLite each statement commits. `FailMigration`,
`Crash` and `BreakDeadlock` end a process early. `StoreDriftEvent` is the insert of `autoresearch/loop.py:104`.

A command of `OnyxSeeding` is `Start`, `LookAtSkills`, `CommitSkills`, `CheckCoverage`, `ListOnyx`, then per item `SkipSet`, `CreateSet`,
`CreatePersona` or `UpdatePersona` and `LinkSkill`, then `LookAtPrompts`, `LookAtDemo`, `CommitSeed`; a call of Onyx is done, is done with its answer
lost (and retried), fails or is denied; `FailJob` and `AbortJob` end a command early. `LinkSkill` reads the skill's row and notes in `sends` whether its persona changes:
`CommitSeed` writes only those, so a command that found its id there does not undo what another has written meanwhile.

`Publishing` computes `Confidence`, `SkillReadiness` and `WorkflowReadiness` per mille with the code's rounding, stores them
(`GenerateOutput`, `GenerateArtifact`), and publishes (`Publish`: guard, log, trigger). Freshness is a share of one and not an exponential of an age.

## 3. Runs

| Run | Instance | Question | Result |
|---|---|---|---|
| `PromptCell` | 2 versions, 3 rounds, 2 promotions, no golds, PostgreSQL | Can two promotions, a first workflow and rounds replace a version nobody compared with? | holds (787k states) |
| `PromptSerial` | 3 rounds, two of them at the same time, 2 golds (one a canary), one promotion at a time, SQLite | Does promotion clear the newest baseline, keep the seen regressions of completed rounds out, and those of unfinished ones as long as the gold row shows them, and does success activate? | holds (835k) |
| `ConnectorFaults` | 2 documents, 2 contents, 2 requests, refused ingestion, lost answers, 1 crash | After a successful sync, is every document in Onyx? | holds |
| `ConnectorSerial` | 2 documents, every endpoint, one request at a time, no ingestion faults | Do rows match the index, does an active connector keep its secret and configuration, does the index catch up? | holds |
| `ContextAsk` | 3 questions (two spellings of one, and an epic), 2 entities, 3 bundles, 2 models, 2 asks | Is everything remembered backed by topic, alias, bundle and edges? | holds |
| `Learning` | 2 requests at each desk; 3 outputs of 2 skills, 4 traces of 2 workflows, 2 feedback rows, 2 ids for each kind of new row | What stays true of proposals, versions, candidates and gold however requests overlap, and what only while they do not? | holds (899k) |
| `Replay` | a gold replay and two refreshes of the same connectors in opposite orders, 2 runners, batches of 2, one rollback besides deadlocks | Is every due schedule run, once by a lone runner and at most once by each of several, with no run left behind? | holds (279k) |
| `Installation` | 2 processes, 13 revisions up and down from any revision, both dialects, 1 crash; 1 skill, 1 connector set, 3 failed calls; 1 output over a grid of scores | Do migrations end in the schema of the models, seeding in skills that can generate, publishing in proven and logged outputs? | holds (405k) |
| `PromptBaselineBug` | PostgreSQL, an abandoned replay | The baseline is the newest completed round | violated |
| `ConnectorMissedBug` | one document, one refusal | A successful sync indexes what it pulled | violated |
| `ContextSquadBug` | two questions with one squad hint, one ask at a time | Every question can be resolved | violated |
| `SchemaDriftBug` | PostgreSQL at the head | Drift events are stored | violated |

Why the bounds are enough. *Prompt runs*: a promotion relates two versions and three rounds (target, baseline,
and the one that disturbs them); two requests give every race on the active version, as a step of a third
is indistinguishable from one of the second. `PromptCell` has no gold examples because the gate's failures do not
touch the cell. Two rounds at the same time write the shared gold rows in turn and can leave a row with the result of one and the round of the other.
`PromptSerial` would fail with two requests
(`PromotionActivatesTarget`) or with NULLs first (`PromotionClearsBaseline`). That overlapping requests change nothing about the
baseline where NULLs come last, nor about the regressions, is proved (`PromotionIsEarned`, `NoSeenRegressionPromoted`). *Connector runs*: two documents give a partial sync; one change of content gives a stale
row; two requests give overtaking syncs; one crash is enough to leave Onyx ahead of the rows. *Context run*: two spellings
give the race on the alias, the epic a second topic that links the same entities, three bundles let a third
ask meet what two concurrent ones left, two entities give partial linking and opposite insertion orders. *Learning*: two requests give
every check-then-act race, three versions a number that is taken and one that extends a proposal's version; the cluster of
the two newest outputs changes its skills when an output ages; one private and one operational trace let the contracts change. *Replay*: three schedules
with batches of two leave one behind; opposite orders over two connectors deadlock; one example is locked by a replay that fails after it; the completed runs
of a schedule are counted up to one more than there are runners (`MostServed`), one more than `OncePerRunner` allows, and the committed "running" ones up to the number of
runners, which each have one at most (that no more are left behind is what `RunningHasRunner` says); an error or a crash happens once. *Installation*: the goals are the
base and the head from every starting revision, so each script runs in both directions, and a second process overlaps
each; one crash tears any script; three failed calls reach every retry of a lone command, one is enough for two that overlap (`FaultsTogether`);
one skill and one connector set are ensured in turn, and an item does not depend on another; scores are at, below and above each threshold. `MCInstallation` also has TLC evaluate, on both dialects, what
the proofs assume of the scripts (`LegsFit`, `LegsCompose`, `HeadFits`, section 5). Symmetry is used only in runs without liveness.

`CHECK_DEADLOCK FALSE` appears in the runs of `PromptGovernance`, in `Learning`, `Installation` and `SchemaDriftBug`: with all ids
used and no request in flight the instance has nothing left to do. The other instances always have a next step.

Fairness. `IndexCatchesUp` is checked under `ConnectorSync!FairSpec`. Requests that have loaded the settings run to
their end because every call they make has a timeout (weak fairness). Strong fairness of `Receive(q, "sync")`,
`Pull` and `OpenDocumentSet` says that syncs keep arriving (source-refresh schedules call `sync_connector` with
`trigger="scheduled"`, `dreamfi/learning/loop.py:574`, and are run from cron) and that provider and Onyx do not fail
every one of them. It is not assumed that ingestion eventually succeeds: the run that checks `IndexCatchesUp` has no ingestion
faults, and `ConnectorMissedBug` shows what one fault does.

`EveryDueScheduleRuns` is checked under `ReplaySchedules!FairSpec`. Weak fairness of `Proceed(w)`, and of `EndReplay(w)` once it has nothing left to write: cron keeps starting
runners, a runner keeps working, and PostgreSQL finds deadlocks; no replay is expected to fail. Strong fairness of `WriteRow(w)`: the waiters of a row are served in
turn, so a runner that again and again finds the row free writes it. Nothing is assumed of `Fail`, `BecomeDue` or the console.

## 4. What the violation runs found

1. **An unfinished round as baseline** (`dreamfi/api/routes/skills.py:117`). `promote()` orders by
   `completed_at` without requiring one. On PostgreSQL the unfinished row of a failed replay, score 0, sorts first.
2. **A refused update is never retried** (`dreamfi/connector_sync/service.py:111`). The row gets the new hash before the document is
   ingested, and `last_ingested_at` is set from an earlier time.
3. **A squad hint works once** (`dreamfi/context/topics.py:136`). The topic's name is the squad; the second question about it
   violates the unique constraint. An epic whose key reads like an earlier question fails in the same way.
4. **Drift events are refused on PostgreSQL** (`dreamfi/db/migrations/versions/20260420_0002_trust_foundations.py:67`). The migration makes the
   ids of `gold_drift_events` UUID columns, the models declare strings (`dreamfi/db/models.py:497`), and the service writes an empty workspace and a
   label (`dreamfi/autoresearch/loop.py:104`). The commit of the round fails with the event.

Observations that are not runs, met while modelling:
- A round's previous score is of its own row: the ordering of finding 1, inside the round's own transaction (`autoresearch/loop.py:44`).
- A canary example blocks a promotion: drift events do not know the role of their example (`api/routes/skills.py:45`).
- A promotion can succeed and leave nothing active: the target is loaded as active, replaced by another request, then "activated" by an assignment that is no
  change (`api/routes/skills.py:162`). It is the `Clear` of `ActivePromptCell`.
- A regression example that fails without having been seen passing blocks a promotion only until any later round runs it
  (`api/routes/skills.py:51`).
- A round left unfinished by a failed replay (`learning/loop.py:633`) has gold results and no drift events, and `promote()` does not ask for `completed_at`.
  With no other active version it can be promoted although a gold example seen passing has turned to failing in it: at once if that is a canary, otherwise as soon
  as a later round has replayed the example, against README.md:236 ("does not regress"). `PromotedWithoutSeenRegression` says that there is no third way, and none
  at all for a completed round.
- A probe that does not find the document set clears it on an active connector, which stays active (`settings_activation.py:556`):
  `ActiveIsConfigured` speaks of the secret and the configuration only.
- With two requests in flight a connector can end active without a secret (`settings_activation.py:608` checks the loaded row).
- After a crash between ingestion and commit, if the document returns to its former content before the next sync, or if an older pull writes
  last, the index stays on the wrong content with rows that look up to date.
- Concurrent asks can insert the same edge twice (`context/topics.py:217`), and edges of a rejected bundle keep a `source_bundle_id` no row has.
- `EXPECTED_ALEMBIC_HEAD` (`settings_activation.py:51`) names migration 0012 while 0013 exists: persistence is never ready.
- When decisions overlap, a proposal can end rejected with a version (`learning/loop.py:337`), clusters get duplicate proposals (301), and feedback becomes
  gold twice (411). The properties of the desks state what survives an overlap and what holds without one.
- Overlapping generations file two candidates for a workflow, against `docs/architecture/workflow-skill-mining.md:140`.
- `make seed` on a fresh database stops at the coverage check: the skills it has just committed have no regression examples yet (README.md:232).
- The console's request for a refresh is lost when a runner finishes that schedule at the same time (`api/routes/console.py:1150`).
- A run row stays "running" for good when the transaction that committed it in the middle is rolled back later.
- The trigger's threshold is the literal 0.80 (migration 0012): with a lower configured threshold the commit of an allowed publication fails.
- The Go port has a different default promotion threshold, publishes without export readiness, and never retries a document that was
  not ingested (`internal/store/store.go:505`).

## 5. Proofs

For any sets of versions, rounds, requests, documents, questions, traces, schedules, runners, processes, skills and outputs, any bounds and any
thresholds:

| Module | Theorem | States | Under |
|---|---|---|---|
| `PromptGovernance_proofs` | `Inductive`, `TypeCorrect` | `Spec => []IInv`, `Spec => []TypeOK` | |
| | `NoSeenRegressionPromoted` | `[]PromotedWithoutSeenRegression` | |
| | `PromotionIsEarned` | `[]PromotionClearsBaseline` | `NullsFirst = FALSE` |
| | `TargetIsActive` | `PromotionActivatesTarget` | one promotion request |
| | `PromotionImplementsCell` | `Spec => ImplementsCell` | |
| `ConnectorSync_proofs` | `TypeCorrect` | `[]TypeOK` | |
| | `NoneLeftOut` | `SuccessLeavesNoneOut` | |
| | `RowsFollowTheIndex`, `IndexedAsPulled` | `[]RowsMatchIndex`, `SuccessIndexesWhatWasPulled` | `Faults = {}` |
| | `ActiveStaysConfigured` | `[]ActiveIsConfigured` | one request |
| `ContextAsk_proofs` | `Inductive`, `TypeCorrect` | `[]IInv`, `[]TypeOK` | |
| | `TopicsFound`, `OneTopicPerAlias`, `AnswersLinked` | `[]TopicsKeepAnAlias`, `[]SameAliasSameTopic`, `[]AnswersAreLinked` | |
| `LearningProposals_proofs` | `Inductive`, `TypeCorrect` | `[]IInv`, `[]TypeOK` | |
| | `AppliedHasVersion`, `VersionTree`, `OneLive` | `[]AppliedHasItsVersion`, `[]VersionsFormATree`, `[]OneLiveProposal` | |
| | `DecisionsStand` | `DecisionsAreFinal` | |
| `ReviewDesks_proofs` | `EvidenceFollowed`, `OneCandidate` | `[]ContractsFollowEvidence`, `[]OneCandidateWhenSerial` of `MiningSpec` | `TracesAreFinite` |
| | `GoldAgrees`, `OneGold` | `[]GoldMatchesReview`, `[]OneGoldWhenSerial` of `GoldSpec` | `NoRowIsNoKey` |
| | `DesksImplementDesks` | `DeskSpec => Spec /\ MiningSpec /\ GoldSpec` | |
| | `DesksTypeCorrect` | `[]DesksTypeOK` of `DeskSpec` | both |
| `ReplaySchedules_proofs` | `TypeCorrect` | `[]TypeOK` | |
| | `NoRunIsLeftRunning`, `ServedOnce`, `ServedOncePerRunner` | `[]RunningHasRunner`, `[]OncePerDue`, `[]OncePerRunner` | |
| `OnyxSeeding_proofs` | `SeedInductive`, `SeedTypeCorrect` | `[]SeedInv`, `[]SeedTypeOK` | |
| | `LinkedCanGenerate`, `OnePersona`, `DemoOnce` | `[]LinkedSkillsCanGenerate`, `[]OnePersonaPerSkill`, `[]DemoSeededOnce` | |
| `Installation_proofs` | `SchemaFollowsVersion`, `AloneSucceeds` | `[]SchemaMatchesVersion`, `[]AloneMigrationsSucceed` of `MigrationSpec` | `LegsFit`, `LegsCompose` |
| | `HeadServes` | `[]HeadServesModels` of `MigrationSpec` | and `HeadFits` |
| | `FreshEvidence`, `Proven`, `AttemptsLogged` | `[]PublishedHasFreshEvidence`, `[]PublishedIsProven`, `[]EveryAttemptIsLogged` of `PublishSpec` | `ScoresArePerMille` |
| | `InstallationMigrates`, `InstallationSeeds` | `InstallSpec => MigrationSpec`, `InstallSpec => SeedSpec` | |
| | `InstallationHolds` | `InstallTypeOK` and the nine invariants of the run, of `InstallSpec` | all four |

Assumptions. `PromptGovernance`, `ConnectorSync`, `ContextAsk`, `LearningProposals`, `ReplaySchedules`, `OnyxSeeding` and `SchemaMigrations` state theirs as
`ASSUME`s of the module (sets are finite where they are counted, bounds are numbers, names are used once, `None` is no row), which TLC evaluates on every run.
The other hypotheses are in the last column, and are of three kinds:

- facts about the constants, which an MC module has TLC evaluate: `TracesAreFinite` and `NoRowIsNoKey` (`MCLearning`), `ScoresArePerMille` (`MCInstallation`). The
  last asks for a readiness threshold of the service of at least 0.80, the literal of the trigger; without it `AttemptsLogged` is false (section 4);
- facts about the scripts, which are fixed data: statement by statement, each migration is accepted by the schema it starts from and leads to the next one, up and down, on
  both dialects (`LegsFit`), several in one transaction do the same (`LegsCompose`), and the last schema serves the models (`HeadFits`). No
  constant occurs in them. They are folds over sequences, which the prover cannot compute, and TLC does. What any number of processes do with such scripts
  is proved;
- the absence of a hazard of section 4: NULLs last (finding 1), no refused document and no crash (finding 2 and the observation on crashes), one request at a time (the observations
  on promotions that activate nothing and on active connectors without a secret). Each theorem fails without its hypothesis: TLC finds the
  counterexample in `PromptBaselineBug` and `ConnectorMissedBug`, and in `PromptSerial` and `ConnectorSerial` given a second request. Nothing stronger is assumed: `PromotionIsEarned`,
  `RowsFollowTheIndex` and `IndexedAsPulled` hold for any number of overlapping requests, `ActiveStaysConfigured` whatever fails or dies.

The arguments.

*PromptGovernance.* `PromotedWithoutSeenRegression` is not
inductive: it speaks of verdicts and the gate reads drift events and gold rows. `IInv` adds that rows in flight have judged nothing
(`OpenRoundsUnjudged`), that requests work on committed rounds, which never change (`RequestsHaveRounds`), that a completed round's regressions
are all in the drift table (`DriftIsRecorded`), and that a request past the gate has a round without events (`GateSawNoDrift`).
The last is kept because a round's events are written only in the step that commits it. Unfinished rounds have no events and need `Regressions`: the gold row shows
a regression of its round until a later round replays the example (`GoldRowsShowRegressions`), so the gate saw no such row of its round (`GateSawNoGoldRow`), and none appears later, because only rounds not
yet committed write gold rows (`GoldRowsStep`, which holds although the rows that rounds in flight write get mixed). One lemma per action proves the preservation of
`IInv`; the shape shared by the steps of rounds and of requests is proved once (`RoundStepInv`, `QuietRoundStepInv`, `RequestStepInv`).
The refinement maps `active` to the content of the cell and `requests[q].active` to what client `q` read. `ReadActive` is a read,
starting or ending a request forgets, and `Promote` swaps: UPDATE of the version read and INSERT of the target into the index
succeed only if nothing else is active.

`PromotionIsEarned` needs `Baselines`: completed rounds have distinct times no greater than their number (`Times`), so that with NULLs last the order of the query is
the order of completion; a request past the baseline query holds a committed round, the newest one if there was one (`mark`), and past the gate its score
clears that round (`HasBaseline`). Committed rounds never change, so what the request read stays true however late it commits. `TargetIsActive` needs `HoldsTargets`:
a lone request whose target was active when loaded still finds it active, so the assignment that changes nothing is harmless.

*ConnectorSync.* A row marked as ingested, committed (`RowsAreIndexed`) or still in a transaction (`DraftIsIndexed`), has a copy in Onyx, because Onyx forgets nothing; a sync skips only such rows, so
its success leaves none out, however many requests overlap and whatever was rolled back.

Without faults more is true (`Agreement`): rows and index agree except for the sync that holds the row lock, whose uncommitted rows agree with the index, and what that sync
has dealt with is indexed as it was pulled. The lock makes it one sync at a time from `OpenDocumentSet` on, which is enough though pulls overlap. `Serial` adds, for one
request, that the row it loaded is still the committed one (`Reads`), so a partial UPDATE writes what was decided (`FlushedAlone`).

*ContextAsk.* Each transaction hands on to the next what it has committed (`RequestOK`): the topic once resolved has an alias and stays, the nodes and
edges already linked are in the database or in the open transaction. Committed rows are never deleted, so what one
request has seen another cannot take away.

*LearningProposals.* `IInv` adds that a request which has taken a number finds all lower numbers in use (`RequestsOK`), that every base exists
(`BasesExist`), and that what a request has read is still true while it has been alone (`SerialOK`, `AloneOK`). The first gives the version tree although
approvals overlap and fail; the last gives `OneLiveProposal` and `DecisionsAreFinal`, the two that overlapping requests break.

*ReviewDesks (SkillMining, FeedbackGold).* The same split: evidence and gold are right however requests overlap, because rows are written whole in
one commit; uniqueness rests on the check still being true at the commit of a lone request. An identifier needed by half of a group is not outnumbered by the traces without
it (`HalfIsNoMinority`, over cardinalities). A step of the composition is a step of one desk and a stutter of the others (`DesksImplementDesks`), so every theorem about a desk
holds of the three together.

*Publishing.* Confidence is at most the freshness and zero without citations, so passing the confidence threshold bounds both from below; readiness
without a passing example is at most 750 of 1000, below the guard; and the guard's threshold is no lower than the trigger's.

*ReplaySchedules.* The counters
need `Books`: what a runner has not run, is running and has run are different schedules, and a run is visible only if it is in the second or third group (`WellFormed`); as many runs
of a schedule are committed as "running" as there are runners that see theirs committed, and at least as many once something was rolled back (`Counted`, over cardinalities); as long
as runners do not overlap, what one has taken is due and has not been served (`Alone`); however they overlap, a due schedule has not been served, and what has been served and what
runners still have in their batches are together no more than the runners (`Owed`): a runner takes only due schedules, and a commit turns one that had it into a run. A commit in the middle of a batch moves schedules between the groups, and the
cap of `running` is never reached by a step that would need more. TLC checks `Books` with three runners too.

*SchemaMigrations.* `SchemaInv` on PostgreSQL (`TransactionsOK`): schema and revision change together, a process lies between the revision it read and its goal, and at most one open transaction has
updated the row of the revision, which is then still the one it read. The comparison made by the UPDATE of `alembic_version` establishes it, and the row lock
keeps it. So the transaction that commits started from the committed schema, although other processes have committed since it read the
revision. On SQLite (`FileOK`), whose one process commits every statement, the file is exactly where that process is, until a script is torn. A process that nobody disturbed sees the schema
`LegsFit` speaks of, so nothing is refused.

*OnyxSeeding.* `SeedInv` says what a job may rely on: the items of its plan that are behind it exist or are among its drafts (`LinkOK`), which nothing removes; the document set of a
skill precedes its link in the plan (`PlanIsComplete`); a lone job that has lost no answer has listed or made all there is (`OnceOK`), and a name occurs once in the plan; the demo
outputs are added with the topic, whose unique key lets one transaction through (`DemoOK`, `DemoState`). `Counts` bounds the copies: of every name there are, or may still come, as many as there
are processes and faults. Each step turns a maker into a copy or a fault into a copy.

*Publishing, Installation.* The steps of one phase leave the variables of the others alone, so `InstallSpec` implements `MigrationSpec` and `SeedSpec`. It does not implement `PublishSpec`,
where `guarded` never changes: the migrations move it. `GateInv` does not mention `guarded`, every step of the gate keeps it for either value, and the other phases keep it because they publish nothing. So
`InstallationHolds` needs no separate invariant.

TLC checked the inductive invariants `SeedInv` and `Counts` on the instance of `Installation` before they were proved.

Model-checked only: liveness (`IndexCatchesUp`, `EveryDueScheduleRuns`), which the prover cannot treat, and the three facts about the scripts. Every other property of a passing
run is stated by a theorem.

## 6. Not modelled

- *Context watcher*: a difference of two bundles given by the caller; only its tests call it.
- *Go service*: a partial port that writes to the same tables with one transaction per statement; the Python service is the one the compose files deploy.
- *Audit trail*: append-only, written in the transaction of the operation it describes.
- *Authentication, console views, readiness reports, backups, source intelligence, read-only connectors, web client*: queries, presentation and adapters that keep no
  state a rule of the service depends on. The one console endpoint that competes with others is in `ReplaySchedules`.

Modelled in part, and what is missing:

- *Connector sync*: native connectors, provider adapters, sync-run bookkeeping and secrets from the environment.
- *Context engine*: `add_alias`, which no endpoint calls, and the similarity search, which only reads; connectors and model are reduced to the bundle they lead to.
- *LiteLLM router*: the choice of a model by task, which only picks a name.
- *Workflow artifacts*: the text, and the listings of traces and reviews.
- *Skill engine, eval runners, confidence*: the text checks are an arbitrary verdict, freshness a level.
- *Onyx client*: searches and chats, which only read.

Properties that would need more than these models: a third state of a document for the crash described in section 4, and the quality of an artifact as a baseline of a
promotion, which is a matter of policy and not of the protocol.
