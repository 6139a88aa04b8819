# A verification project for git-cg

git-cg (`src/src/git_cg`) writes commit messages: it ranks the staged diff against a matrix of
intents, lets the operator settle an unclear ranking, asks a language model for a plan, forces the
plan into the envelope of the staged paths, corrects it in a bounded loop, shows it for review and
commits, either by itself or as git's `prepare-commit-msg` hook. Around that sits a local evaluation
tree (`.eval/`): accepted messages are bound into bundles, scored, judged, reviewed by humans,
promoted, checkpointed, diagnosed and exported through a file queue. The program is a set of
short-lived processes; what they share are files. A release command cuts versions of it.

Paths below are relative to `src/src/git_cg/`.

## 1. Inventory

| part | state | operations | talks to | what is hard |
|---|---|---|---|---|
| Semantic contract, `regeneration.py` | none | resolve, enforce, lift | called once per cycle by the loop | five sources compete for the primary intent |
| Generation loop, `main.py` | some twenty locals, the message file, the telemetry file | set-up, menu, cycle, gold, review, commit | everything | most locals survive from one cycle to the next; two correction loops share one budget; exits differ by flag |
| Presentation and guards, `commit_quality.py` | the plan | seed, blueprint, overlay, guards, repair, skeleton, offline gates | called by the loop | a chain of rewrites in a fixed order, each of which may undo another; the gates that judge the result are other code |
| Gold lint, `commit_gold.py` | none | modes, report | called by the loop | pass or fail depends on mode, environment, flags and TTY |
| Arbitration menu, `intent_arbitrate.py`, `interaction.py` | frame, rows on offer, lock card, draft, cancel count | nine frames of prompts | the loop, gum | nested ways back, Esc and failures at every prompt |
| Ranking, `intent.py`, `ranking_confidence.py` | none | score, classify confidence | the loop | |
| Telemetry hand-off, `telemetry.py`, `main.record_telemetry` | `.git/GIT_CG_OPIK_STATE.json` | written by one hook, read and cleared by another | the loop, accept binding | commits that never happen leave a state behind |
| Accept-path binding, `eval/binding/`, and its GC, `eval/gc.py` | bundles, cache index, session twins, `.bind.lock` | bind, reuse scan, lock, release, collect | the commit-msg hook | a best-effort lock, writers that go on without it, a collector beside them |
| Export queue, `eval/mirror/queue.py`, `exporter.py` | one JSON row and one `.claim` file per batch | enqueue, claim, mark, reclaim, drain, retry | export plans, drains, the retry command | concurrent processes, check-then-write, leases, crashes, lost answers |
| Export planning, `eval/mirror/` (rest) | none | redact, project, batch, configure, verify | ends in an enqueue | |
| Checkpoints, `eval/checkpoint_store.py` | checkpoint and index files | write, list, prune, delete | run orchestrator | retention against resume, index against file |
| Runs, `eval/run_orchestrator.py` | experiment record, case results | run, resume, recompute | checkpoints, scoring | crash between a result and its checkpoint; two runs on one checkpoint |
| Scoring and gates, `eval/scoring/` | the rows of a bundle | families in order, envelope, gates | runs, Lane C | an exception in one family must cost its rows and nothing else |
| Lane C judge, `eval/lane_c/` | run counters | eligibility, packs, projection, calls, retry | scoring, a judge over HTTP | several closing gates in a row, evidence about calls that were or were not made |
| Topology metrics, `eval/scoring/family_i.py`, `eval/suites` | the thread index of a suite | project, search, judge | scoring | graphs with cycles, orphans and duplicate ids; evidence across cases |
| Review queue, `eval/review_queue.py` | one JSON item and a claim lock per review | enqueue, claim, adjudicate, dismiss | promotion | two reviewers, one of two writes under no lock |
| Promotion, `eval/promote.py` | promotion rows, destination files | promote | reviews, bundles | decision and artefact are two writes; a scan before a decision |
| Eval command line, `eval/cli.py` with diagnose, explain, triage, doctor, brief, replay, train export, dogfood | issue rows, snapshots, briefs, exports, vault | some thirty commands | all of `.eval/` | no lock anywhere, several files per command, exit codes that scripts rely on |
| Release, `release.py` | version files, changelog, notes, tags | execute_release | git, GitHub | five files in a row, other people's tags, repeats |
| Semantic producers, secrets, retries, model client, notifier, Sentry | caches, git | I/O | the loop | |

What makes each part correct:

- contract and loop: an operator's lock decides the intent; a message never loses its contract's
  SemVer; wording passes come back to the intent they reword; the loop ends; what is accepted is
  what is committed; exit codes tell git the truth;
- presentation: what is presented is clean or the skeleton; the overlay is a normal form; a legal
  blueprint survives it; the offline gates find nothing the pipeline should have forced;
- menu: lock, guidance and directive change only as the menu promises, and it ends;
- queue: one uploader at a time, no second upload without a fault, statuses move only along the
  table, no row is stuck, a drain does not raise;
- binding: one session per accepted message, none changed; hand-off: a generation is recorded once;
- runs and checkpoints: no result is claimed that is not there, no case is lost, green means clean,
  the checkpoint a resume needs is kept;
- scoring and judge: the judge moves no gate but its own, its counters are those of its calls; a
  trace called a tree is one;
- review and promotion: one claimant per review, no artefact without decision and approval, a split
  group stays in one destination;
- commands: verdicts tell what was left behind, nothing refers to what is not there, issues move
  along their matrix;
- release: what is tagged as the command advises agrees in every file that could be read.

`PROJECT.json` lists all of them under "components" with what is left out of each, and under
"hazards" the places in the code where these could go wrong.

## 2. Modules

| module | models | kind |
|---|---|---|
| `SemanticContract` | `regeneration.py`, the impact of a matrix row for gold, and the directives that guidances parse to | operators |
| `CommitGeneration` | `_run_commit_generation`, `_interactive_review`, `_abort`, `_apply_standalone_commit`, the hook's exit | state machine, EXTENDS `SemanticContract` |
| `ArbitrationPromise` | what the menu may do to lock, guidance and directives | abstract specification |
| `IntentRanking` | `intent.py`: signals, markers, vetoes, constraints, the order of the rows | operators |
| `IntentArbitration` | `run_intent_arbitration` and its caller's loop | state machine, implements `ArbitrationPromise` |
| `PathClasses` | what the staged paths decide: roles, class, constraints, priors, ceiling, groups, inventory | operators |
| `PresentationPlan` | the rewrites: seed, blueprint, overlay, fill, skeleton | operators, EXTENDS `PathClasses` |
| `PresentationChecks` | guards, repairs, and the ordered offline gates | operators, EXTENDS `PresentationPlan` |
| `GoldLint` | the checks of `commit_gold.py` on a presented plan, with path families of its own | operators, EXTENDS `PresentationChecks` |
| `Presentation` | the pipeline of one invocation, and the two judges of its result | state machine, EXTENDS `GoldLint` |
| `ExportQueue` | `queue.py`, `drain_queue`, `export retry` | state machine of concurrent processes |
| `AcceptPath` | hand-off file, commit-msg hook, binder, bind lock, GC | state machine of concurrent processes |
| `CheckpointStore` | payload and index row of a checkpoint, pruning | operators and file steps |
| `CaseScoring` | `score_bundle` and `compose_gates` as functions of a bundle | operators |
| `RunOrchestrator` | `run_evaluation`: fresh, resume, recompute | concurrent processes over the two above |
| `LaneC` | what may be asked of the judge, and with what | operators |
| `BundleScoring` | `score_bundle` step by step, judge included | state machine, EXTENDS `CaseScoring`, `LaneC` |
| `SpanTopology` | the sixteen topology metrics | operators |
| `SuiteScoring` | a suite case by case, with the depth-first search of spans | state machine, EXTENDS `SpanTopology` |
| `ReviewQueue`, `Promotion` | reviews and claim locks; promotion beside them | concurrent processes, composed |
| `EvalReports`, `EvalStore` | doctors, configuration and report views as functions; the shared files and the processes | operators; state |
| `Diagnostics`, `Retention` | commands that look at runs and keep issues; commands that keep bundles | actions over `EvalStore` |
| `EvalCommands` | the command line: both of the above, runs, gc, and what the handlers of reviews, exports and promotion answer | state machine |
| `Release` | `execute_release` beside people who commit and tag | state machine |
| `CommitGenerationProofs`, `ExportQueueProofs`, `RunOrchestratorProofs`, `AcceptPathProofs`, `EvalCommandsProofs`, `ScoringAndPromotionProofs`, `SuiteScoringProofs`, `PresentationAndReleaseProofs` | theorems | proofs |
| `MC...` | instances for TLC | |

`ArbitrationPromise` is where two components meet. `CommitGeneration` represents the menu by three
actions (abort, re-rank, settle) and is checked and proved to rely on no more than the promise
(`MenuAsPromised`); `IntentArbitration` has the frames and is checked and proved to keep it
(`MenuKeepsPromise`).
`BundleScoring` and `CaseScoring` are the same function at two grains: `JudgeMovesNoGate` says that the
steps with a judge end in the gates of the operators without one, which is what `RunOrchestrator`
relies on; it is checked and proved.

In every module of processes the grain is the file system's: one read, one atomic replace, one
exclusive create or one unlink per action; what a process does between two of them is part of the
action before. A process that may die does so between any two actions, and leaves its files.

### 2.1 CommitGeneration

`pc` follows the function: `start`, `menu`, `blueprint`, then per cycle `resolve`, `model`, `present`,
`policy`, `guards`, `gold`, `write`, `review`, then `finish`, `apply`, `exited`. Every variable is a
local of `_run_commit_generation` under a name of its own kind (`locked` is `locked_intent_id`,
`attempts` is `gold_regen_attempts`, `prev` is the primary of `review_state.commit_plan`, `feedback` is
"`gold_guidance` is not None"), except `verdict` and `auto`, which record the operator's last decision
and the model calls since then, and `committed`, which is git's.

A plan is its intent, its impact, whether it is the guards' skeleton and whether it recommends a
split. Its wording is represented by the gold codes it earns: any set, except that the two codes
that depend on the plan's provenance and impact (`GOLD_SKELETON_FALLBACK_FINAL`,
`GOLD_SEMVER_MATRIX_MISMATCH`) are decided by it. A generation context is a record of what
`GenerationContext` says about the diff. Guidance is a member of a small set with the directive it
parses to. The review's own copy of guidance and directives (`review`) is separate from the loop's,
because the code copies them back only on the way out, and re-parses the directive from the text when
it builds the next `ReviewState`.

Seed, blueprint and overlay are one action with the lift: nothing can observe the plan between
them. Each of them may be skipped by a swallowed exception, in which case the impact is whatever
the last of them left.

### 2.2 IntentArbitration

`frame` is the local of the same name, with `SAVE` for the second prompt of the guidance frame and
`RETURNED`, `OPEN` for the caller's side; `ranking` is the ranking the call was made with and `card` the lock
card with its way back. Its specification is `MenuSpec`, so that one proof module can hold it beside the
loop's. Every prompt may be answered, dismissed or fail, except
that the code maps some of these to the same branch. A score decides only whether the two best rows
are close, as `compute_ranking_confidence` does: a tie, a near tie of three and mixed groups each
need a margin below 12 too, so the margin alone decides.

The ranking itself is `IntentRanking`: a diff is its files (each by the classes of its path and what was
done to it) and the families of words in its lines; from it come the flags of `DiffSignals`, the markers
they and the semantic facts stand for, the vetoes, and every row's score, in tenths of a point so that it
stays whole (ties that only the rounding of floats would break are left to priority and specificity).
The two rank passes of the run are computed by it. `RankingStaysInItsLane`, an ASSUME over every diff of two
files, says that docs, tests and fixtures never count as a change of the product, that a row is ruled out
exactly if a veto takes points from it, and that the best row is always one the diff allows. A veto is
not an order, though: `VetoedRowsInBetween` is a diff that moves a fixture, after which the row for renames,
which is ruled out, ranks above a row that is not. So `IntentArbitration` assumes of its rank passes only
`TopIsAllowed`. The rows are those of `config/gitops_agent_sop.json` with the signals a diff can raise; for another
matrix the best row need not be an allowed one. The quarantine of markers looks at one class at a time, that of words at
the three together: of a diff of one document and one test, the words count for nothing, while the semantic facts still may.

### 2.3 ExportQueue

One row, because rows share nothing. A process is a place (`pc`) and what it is marking the row for
(`goal`). The grain is the file system's: a load and a later write are two actions
(`MarkLoad`/`MarkWrite`, `Enqueue`/`EnqueueWrite`, `Sweep`, `Claim`, `Reload`), an exclusive create
and an unlink one each (`Lock`, `BreakLock`, `Unlock`). Time is not a clock: a lease and a claim file
expire in actions of their own, at any moment if their owner has gone on or died, and as a fault
(`stall`) while it is still at work. Faults are `crash`, `stall`, `auth` (secrets do not resolve),
`fail` (the upload fails) and `lost` (the upload reached the server and its answer was lost, so that the
row is marked failed and sent again); a `profile` names the processes and faults of a behaviour, whether
invocations may overlap and whether retries are forced, and never changes.

The class of the last error (`last_error_class`) is `passing` for network and timeout and `lasting` for
auth, validation and size. `export retry` skips a lasting one unless `--force` is given
(`cli.py:4273`), which is `Retryable`; only secrets that do not resolve determine the class, a failed upload
may have either.

`Guarded` says where the claim protocol can be relied upon: one invocation at a time with any fault,
or overlapping drains whose only faults are failing uploads and lost answers, with one plan and no
retry. Outside it
the code does have the races (two uploads after a stall, a sent row reset by a second plan, a raise),
which is why the exclusive properties are stated under `Guarded`, and only `EventuallySent` for
everything: a row ends up sent, or, where no retry is forced, failed with an error that a retry skips.

### 2.4 Presentation

A path is the set of things the path predicates say of it (`Facts`); a diff is the sequence of its
paths. `Reading` collects once what the code asks of the paths at every call. A plan is its intents
(type, impact, group, scope, judged tokens of the description), the judged tokens of the body, the
breaking flag and whether the glyph is a security one. A body without wording is one the answer left
out, which a blueprint's body then fills; `text` stands for a body with no judged token. The stages are those of `main.py` around the
calls: `load`, `answer`, `seed`, `blueprint`, `overlay`, `lift`, `judge`, `presented`, `linted`, `done`, and
`rejected`. At `load` the operator's blueprint is read, with what may be wrong with the file or its text,
and held against the paths; a refusal ends a strict run and is a reason on record in any other. At
`seed` a low confidence overwrites whatever reason was there. A dirty plan is repaired, asked for again or
replaced by the skeleton. What is presented is put before two judges that are other code: `Lint`, the gold lint
(`GoldLint`), and `Evaluate`, the ordered gates (`evaluate_*` in `commit_quality.py`), which the program runs
elsewhere on the same plan. `JudgesAgree` says where they and the pipeline draw the same envelope, and lists
where they do not: a skeleton knows no concern tags and keeps the claims of secondaries; the lift may
restore an impact above the ceiling; gold holds groups against types as sets, so that a primary in the
wrong group passes if a secondary is in the right one; and a hook among the tests runs for the pipeline and is
a test for the lint. `main.py` calls the overlay without tags or evidence text; the tests and the harness
call it with both, so the inputs have them, and `BlueprintHonoured` is stated for the calls `main.py` makes.

What the instance shows of the code, besides its properties: an allowlist of exactly
`["Miscellaneous"]` is refused also where it is what the types need (`commit_quality.py:1107`); the
skeleton keeps the breaking flag next to impact NONE, the claims of secondaries, and does not look at
concern tags, which is why `JudgesAgree` excuses it; secondaries may keep the group Security without
evidence; a product diff without a runtime path has ceiling PATCH but a forced NONE.

### 2.5 AcceptPath

Actions are the hand-off's (`Draft`, `Truncate` for a generation that dies in the write), the hook's
places (read the state, take or break the lock, look into the cache, scan, persist, write the twin,
release, record, clear) and the collector's (`Collect` selects, `Sweep` deletes later). The lock ages
as an event of the environment. The bundle names its session and message, the index is a cache that
may be lost at any time. `degraded` and `untidy` are history: they say that the protection the
comments describe was given up in this behaviour (a hook went on after the lock timed out, a lock was
broken, the scan window did not reach every bundle; hooks overlapped or died), so that the exclusive
properties can be stated for the others, and `SessionKeepsMessage` for all. Accept events are named
after the bytes of the message: two commits with one text share a session by design of the code.

### 2.6 Runs, checkpoints and scoring

A checkpoint is its payload (the authority) and its index row, written and deleted one after the
other. `RunOrchestrator`'s process walks `first`, `score`, `save`, `final`, `finish`, `prune`, `unlink`, with
a place between any two files. The inputs of a suite are a version (its compat hash) that may be
edited; what a hash stands for is fixed. `CaseScoring` decides the verdict of a case from what is
wrong with its bundle: which families raise, which rows are not valid, which say no. Time is a
clock of whole ticks, for retention by age. `scope`, `greened` and `reclaimed` are history.
`FailedKept` excuses what was reclaimed: a prune that takes a checkpoint for a stale running one decides
first and deletes later, and the run may have turned it to failed in between.

`BundleScoring` runs the families in their order, each inside its try, then the envelope, the judge
(eligibility, universe, packs, pins, calls with one retry), the honesty rows and the gates. The lane's
HTTP is an answer, an error of one of its kinds or an exception. `SuiteScoring` builds the thread
index over the whole suite, then searches each case's spans as `_tree_and_parentage` does, one push
or pop per action; `left` and `walk.starts` are what the two loops still have to visit, smallest first,
which is their order.

### 2.7 ReviewQueue and Promotion

`claim` is an exclusive create, a read, a write and an unlink; `adjudicate` and `dismiss` a read and a
later write. A promotion reads the review, scans the decisions of its split group, records its
decision and writes the artefact, four actions. `claimants` and `approved` are history; `overlapped`
says that two promotions were under way at once.

### 2.8 EvalStore, Diagnostics, Retention, EvalCommands

`job[p]` is a process: its command, its place, what it has read (`seen`, `copy`), what it still has to
write (`todo`) and at the end its exit code and the word `ok` of its envelope. Commands that read once
and print are one action; commands that write several files have one action per file. A process that
has ended is let go (`Return`) before anybody else moves, since it touches nothing shared any more;
this halves the states and removes no interleaving of file accesses. Handlers that hand over to a part
with its own module (reviews, promotion, export queue) are functions from a row and the arguments to
an exit code and the row they leave, taken in one step: what happens between their reads and their
writes is in that module. The doctors and the configuration are operators of `EvalReports`; `ReadingsAgree` in
`MCEvalCommands` is an ASSUME over all environments of the instance: a lane is missing in the provenance that
the doctor shows exactly when the resolver refuses it; the doctors' exit codes are those of their documented
matrix; a captured dogfood sample can be reproduced from what its attachment holds; a remote definition
is created only after a complete listing without it; and a profile of redaction that belongs to the owner needs
the owner and no CI.

### 2.9 Release

One command at a time, over `pyproject.toml`, the lock file, the header comment, the changelog, the
notes and the published release, each a step; others commit and tag between its runs, or between two
of its steps. `head` is what is committed, `disk` the work tree. The person who runs it tags what the
command advised (`advice`) or something else.

The code swallows the failures of what it asks git and of the files it reads, and so does the model:
no tag found (`describe`), no commits (`log`), no tags that forbid the version (`tag -l`), no modified
files (`diff`), a package file that cannot be read. The run remembers what it went on without: `fresh` (it
knew of no tag, so that every tracked file counts as modified, `release.py:63`), `left` (package
files passed over, which the tag keeps) and `whole` (false once something failed or came between);
`collided` records that a run went on with a version that was taken. `BumpClimbs` in `MCRelease` is an ASSUME over all sample
versions: a bump never goes back, except from one pre-release identifier to an earlier one.

## 3. Runs

| run | instance | distinct states | properties |
|---|---|---|---|
| `gen` | 3 intents, 3 kinds of diff, 8 invocations | 2.3 million | `TypeOK`, `ReAnchorAgrees`, `StrictCommitsClean`, `LockHonoured`, `FloorOrSkeleton`, `AcceptedIsPresented`, `ExitTellsTruth`, `MenuAsPromised`, `Responsive` |
| `arb` | 6 intents, the rank passes of 2 diffs, 4 guidances, cancel limit 8 | 19 thousand | `MenuKeepsPromise`, `UnattendedEnds` |
| `present` | 142 diffs over 16 kinds of path, 6 sets of tags, 10 blueprints and every fault of reading one, 23 answers | 2.7 million | `CleanOrSkeleton`, `JudgesAgree`, `OverlayIsStable`, `BlueprintHonoured` |
| `queue` | 2 drains, 2 plans, 1 retry, 4 profiles, up to 3 faults | 1.3 million | `OneUploader`, `UploadedOnce`, `StatusesMoveLegally`, `EventuallySent` |
| `queue_raises` | two drains, one may die | violation | `DrainNeverRaises` |
| `accept` | 2 hooks, 2 messages, 2 sessions, in turn and at once | 1.9 million | `OneSessionPerMessage`, `RecordedOnce`, `SessionKeepsMessage` |
| `evalruns` | 2 runs, 2 checkpoints, 2 cases, 2 versions of the inputs | 1.6 million | `ResultsBehindCheckpoint`, `NoCaseLost`, `CompletedMeansClean`, `FailedKept` |
| `score` | bundles wrong in one place, lanes closed at one gate | 65 thousand | `JudgeMovesNoGate`, `CountersTellTheCalls` |
| `spans` | every graph of up to 4 spans; suites of up to 3 cases | 18 thousand | `TreeSound`, `SharedThreadCaught`, `GoldenIsWitnessed`, `SuiteEnds` |
| `review` | 2 reviewers, 2 promoters, 1 review, 1 split group | 3.7 million | `OneClaimant`, `SplitKept`, `ApprovalBehindArtifact` |
| `commands` | 2 commands, 2 experiments of 2 cases, 2 bundles, 2 metrics, 6 stores | 339 thousand | `VerdictTellsTruth`, `NothingDangles`, `TriageSpeaksOfOneRun`, `IssueMovesByTheMatrix` |
| `release` | 3 commits, 2 tags, 3 runs or swallowed failures | 7.2 million | `TagsAreCuts` |

Bounds, and why they are enough:

- `gen`: three intents give three different matrix impacts (MINOR, PATCH, NONE) and let lock,
  guidance, previous plan and ranking disagree pairwise. The three diffs are a low-confidence product
  change (no force, ceiling PATCH, priors NONE), a docs-only change (type and impact forced) and a
  confident change with a restricted intent set. The invocations are hand-picked: hook or command,
  strict or not, TTY or not, each gold mode, dry run, mixed policy, arbitration off, and each kind of
  blueprint occurs in at least one; the code reads the flags at separate places. One word code and
  one info code make code sets equal, shrink, grow and differ, which is all `GoldVerdict` looks at.
  `RegenBudget` (2) and `StreakLimit` (8) are the code's own numbers; `auto` stops counting at
  `AutoCap` (4). The number of review rounds is not bounded.
- `present`: the labels of `Facts` are every predicate the code asks; one path per combination that
  occurs in a repository, every pair of them, and triples only where three surfaces meet, because the
  code quantifies over paths and counts to two. `MaxRegens` is the code's 2.
- `queue`: two drains are what a race on one row needs; a third adds no role. Each fault strikes once
  and three may strike in one behaviour (`FaultCap`). `uploads` stops at `UploadCap` (4), one above
  what `UploadedOnce` allows. Invocations may be started any number of times.
- `accept`: two hooks race for a lock, a third would only wait. One hook at a time comes with two
  generations and a scan that parses one bundle; two at once with no hand-off.
- `evalruns`: two cases are what a partly done run needs, two checkpoints what retention needs, two
  hashes what an edit needs; `MaxClock` 2 makes a run older than the reclaim bound. Six profiles say
  which of these come together: one run at a time over two ticks, or over edits; suites odd in one place;
  two runs on one checkpoint, on two, and on two over two ticks (`Late`, without deaths), which is where a
  stale running checkpoint turns failed between a prune and its deletion.
- `review`: two of each actor; symmetric reviews and groups add no race, since both are keyed.
- `commands`: `MaxCommands` 2 covers every pairwise race of two commands over every store an earlier
  command leaves; the stores are listed in `MCStores`, with rows and issues that cannot be read.
- `release`: three commits of two kinds, versions up to 3 in each component, a foreign tag in the
  way, starts from nothing and from a candidate. `MaxTries` 3 counts the runs and the steps in which a
  failure is swallowed: a dead run can be repeated and a third cut the next version, or one run can fail
  at two of its steps, or a run be repeated after one that failed at a step. In one step any of its
  reads may fail together.
- `score` and `spans`: functions of one bundle or suite, so that inputs are varied one place at a
  time, and graphs exhaustively up to four spans, which hold every cycle shape beside a root.

`CHECK_DEADLOCK` is off where the system stops: bounded runs, suites and releases end.

Type invariants. `gen` checks `TypeOK`, and `TypeOK` of `CommitGeneration`, `ExportQueue`, `Promotion`,
`RunOrchestrator`, `AcceptPath`, `BundleScoring`, `SuiteScoring`, `Release` and `IntentArbitration` (where it is
`MenuTypeOK`) is proved for every instance; the invariants of `EvalCommandsProofs` and of `Presentation` hold
what their proofs need of the types.

Fairness. `CommitGeneration!FairSpec` has weak fairness on the program's own steps only: a process
goes on when it can, nobody owes it an answer, so `Responsive` ends at a prompt. In
`IntentArbitration` every prompt returns (gum answers, is dismissed, fails or times out); which way
is not assumed, and `UnattendedEnds` excuses behaviours in which somebody selects for ever. In
`ExportQueue` each running process goes on, and expiry, when it is nobody's fault, comes; that drains
are run again and again, and failed rows that a retry would take are retried, is the antecedent of
`EventuallySent` and not an assumption of the specification. `SuiteScoring` has weak fairness on its whole next-state relation:
it is sequential code that only computes. The other specifications have no fairness and no liveness
property: their processes may die at any point.

Each property of a passing run has a mutant in `PROJECT.json`: a definition changed the way a
plausible bug would change the code (a forgotten reset, a check dropped, a limit off by one, the
wrong flag in an exit), which makes TLC report that property.

### What the violated run says

`DrainNeverRaises`: `exporter.py:113` says "Never raises". A reclaim from a stale copy (`queue.py:389`)
raises when the row was reclaimed and sent meanwhile. `GuardedNeverRaises` is what does hold, and is
proved.

### Disagreements met while modelling

These are in the models as the code has them; the properties are stated so as to hold beside them.

Generation and menu:

- `slice-5.5-contract-lifecycle.md:66` calls the lift "a hard floor through persist"; the skeleton runs
  after it (`main.py:3541`) and takes the impact from the path priors. `FloorOrSkeleton` is what holds.
- `main.py:2893` says a user abort must never exit 0. That is so for the menu; Cancel in the review
  (`main.py:3804`) exits 0 without `--strict`, and git commits what the hook had written.
- `intent_arbitrate.py:970` says "Empty draft = clear guidance"; the caller (`main.py:2968`) takes the
  menu's guidance only when it is not empty, so a re-rank's text cannot be cleared afterwards.
- `config/gitops_agent_sop.json:18` wants MAJOR marked as breaking. The overlay clears the flag when it
  demotes (`commit_quality.py:2723`), the lift raises the impact back (`main.py:3331`) and not the flag.
- The SOP says explicit breaking syntax triggers MAJOR; a commit's SemVer trailer wins over it in
  `release.parse_commit_impact`, and "BREAKING-CHANGE:" is listed but not counted.
- The README's "Resolves" for the branch's issue is `Refs` in the code (`main.py:1371`), and
  `plan_persisted_semver`, kept for telemetry, is from before the skeleton.
- A dry or aborted run leaves its hand-off state, against which the next commit is classified.

Reviews, runs and promotion:

- `review_queue.py:676` calls a dismissal terminal; an adjudication that had read the item before
  overwrites it (`review_queue.py:562`). The claim file of a reviewer that died is never aged
  (`review_queue.py:480`), so its review stays pending.
- Overlapping promotions can put one split group into two destinations: `SplitKept` is stated for
  promotions that do not overlap.
- A prune decided before a resume began can delete the checkpoint that is running again; an index row
  without a payload counts towards `keep_last`; a resume refreshes `started_at`.
- `docs/plans/opik-evaluation-harness.md:1282` puts the judge's cohort behind `gate.deterministic_pass`;
  `runner.py:498` authorises it on a provisional gate over the family rows, from before the rows about the
  judge and the last check for evaluator errors. A raise inside the lane resets its counters to "not
  invoked"; duplicate metric ids leave no gates; a suite that requires an honesty metric can never be
  eligible; the prompt pack is hashed when resolved and read again when used (`prompt_pack.py:84`).
- Family I: spans without ids are ignored once any has one; `llm_calls` above zero without a generation
  span is flagged only through the required set; a declared empty required set turns it green.
  `span_counts` beside the spans take precedence over them in the counter check only (`family_i.py:1026`):
  a producer that says it saw no regeneration passes it with a regeneration span in the trace and no
  regeneration counted. `GoldenIsWitnessed` excuses what such a count denies (`Denied`).

Commands:

- `docs/eval/README.md:960` and `diagnose.py:15` call the issue matrix closed; diagnose writes back a row
  it read before, and can undo a suppress or resolve made meanwhile. `IssueMovesByTheMatrix` excuses a
  writer that was overtaken.
- A triage with `--case` explains the newest run, whichever run its failures came from; amend-brief
  with `--doctor` writes green without running it (`brief.py:496`); `train-export --capture-on fail` drops
  nothing, and two bundles of one id with opposite labels end in an uncaught error
  (`mirror/train.py:306`); dogfood from the command line passes no gate result, so `--capture-on`
  filters nothing; a replay whose source goes away between its two reads ends in a traceback; the
  help of compare says a linked comparison is `replay_compare_v1`, the code always says
  `case_result_delta` (`explain.py:591`); a diagnose of a run under way fingerprints what it has so far.

Release:

- With `--publish-gh-release` a publication succeeds only if the tag exists already, which is to say by
  chance: `release.py:1315` requires it, and the command itself leaves tagging to the person who ran it
  (the test that publishes mocks this, `tests/test_release_notes.py:570`). A branch of the tag's name
  passes the requirement. Version comments in headers are bumped again by a repeat; a crash in
  the changelog's write truncates it.
- `inject_canonical_package_versions` "Always targets" both package files "when those files exist"
  (`release.py:257`). One that exists and cannot be read is passed over without a word unless `--verbose`
  (`release.py:305`), the lock file also when it is the name in `pyproject.toml` that cannot be read
  (`release.py:231`), and the commit and the tag are advised all the same. `TagsAreCuts` holds such
  a cut to the file that was written and to its changelog.
- `validate_release` exists to prevent collisions; when `git tag -l` fails it lets every version pass
  (`release.py:1520`). A `git log` that fails is a release without commits (`release.py:57`), a
  `git describe` that fails a first release (`release.py:31`), a `git diff` that fails leaves every
  version comment behind (`release.py:67`).
- On a branch without a tag every tracked file counts as modified (`release.py:63`): each version comment
  moves on, whether or not a commit since touched its file.

## 4. Theorems

TLAPS proves these for every value of the constants that satisfies the named assumptions, all of
which TLC evaluates on the instances: `MatrixAssumption`, `GuidanceAssumption`, `GenerationAssumption`, `CodesAssumption`,
`NoFileAssumption`, `QueueAssumption`, `PromotionAssumption`, `StoreAssumption` (of `CheckpointStore`, and of `EvalStore`), `RunAssumption`,
`AcceptAssumption`, `CasesAssumption`, `StoresAssumption` (the stores at the start are in order), `SuitesAssumption`
(cases are listed, spans come in a topology object, counts of spans are naturals), `ArbitrationAssumption` (rankings are
lists of intents that are not empty), `FactsAssumption`, `AnswersAssumption` and `InputsAssumption` (a
model answers with plans, blueprints name types and impacts), `ReleaseAssumption` (versions have a bound), and that "nothing" is not
something (`NothingAssumption`, `UndecidedAssumption`, `NoneAssumption`, `IssueAssumption`).

**CommitGenerationProofs**, on the contract. The recurring difficulty is "the first element of a set of indices":
`FirstInSet` shows that a non-empty set of naturals has one, from which it follows that
`ResolvedIndex` is an index of a non-empty matrix and the contract is well formed. `LockWins`: an
applicable lock decides the intent. `ResolveStable`: resolving with the last intent as previous plan
and everything else unchanged gives the last intent again; it is what makes the gold loop come
back to its anchor.

**CommitGenerationProofs**, on the loop. The invariants of `gen` are not inductive: `ReAnchorAgrees` speaks of one
place, but depends on nobody having changed lock, directive or previous plan since gold asked for
new wording, and `StrictCommitsClean` on what gold saw before the file was written. `IInv` adds,
place by place, what must hold: the contract in force is the one that lock, directive and previous
plan resolve to; while `feedback` is up the anchor is the previous plan's intent; the file is the last
message wherever the run may still commit; what the review shows is what was presented
(`PresentedInv`); the exit code to come follows from the flags and the place (`ExitInv`); the references on
disk are those in memory; the budget spent bounds the model calls. `Invariance` proves it inductive
with one lemma or step per action; `TypeCorrect`, `ReAnchorSound`, `AutoIsBounded`, `FloorHolds`,
`LockHolds`, `StrictIsClean`, `AcceptedAsPresented`, `ExitIsTrue`, `GoldAbortIsFinal` and `RefsAreKept`
follow from it: every invariant that `gen` checks. `MenuIsAsPromised` is a refinement: initial
states map to initial states of `ArbitrationPromise`, and every step to one of its steps or a stutter.

**CommitGenerationProofs**, on the menu. Any ranking, any scores and any limit on cancels. The refinement needs
more than the types: option A is `top`, read when a prompt is drawn, and a saved guidance narrows the list and
draws the prompt again, so the invariant (`MenuInv`) says that wherever a prompt is, a row the constraints
allow is on offer (`OnOffer`): narrowing by a type of which no row is left keeps the list as it was. The menu's
promise does not depend on `TopIsAllowed`. That a narrowed list is a list of its own entries (`AmongIsList`) rests on `KthExists`:
every place up to the number kept is the place of one entry. A lock card goes back to a frame of the menu only and
holds an intent; the count of cancels stays below the limit; and what the menu will say about guidance
(`Heard`) is what the caller had, nothing, or a text with its own directive. `MenuTypeCorrect` and
`MenuKeepsItsPromise` follow.

**ExportQueueProofs.** `OneUploader` is not inductive either: between the second look and the write of
a claim a drain relies on a row nobody else can change. `QInv` says where each process may be
under each kind of profile (`WellPlaced`, `ProfileInv`), that in guarded circumstances whoever is between
look and write finds the row as it looked (`ThereInv`, `SteadyInv`), that the claim file belongs to the
drain inside it (`ClaimInv`), and what was uploaded and may still be marked (`LegalInv`, `UploadInv`).
`QueueInvariance` proves it inductive; `QueueTypeCorrect`, `OneUploaderAtATime`,
`UploadedOnceOrCrashed`, `GuardedDrainsReturn` and the action property `MovesAreLegal` follow.

**ScoringAndPromotionProofs**, on promotion. Any number of reviewers and promoters. `RInv` is about the queue: whoever is
claiming holds the lock file (`HeldInv`), a claim about to be written is of an item nobody was handed
(`ClaimingInv`), a verdict about to be written is of one that was (`WritingInv`), whoever was handed an item was the only one (`HandedInv`), and an approval is
remembered (`ApprovedInv`). `PInv` is about promotions: the copy of a review that a promotion carries was
once true (`CopyInv`), what is cleared to be minted has its approval (`ClearedInv`), what is being minted has its
decision (`MintingInv`), and while promotions have not overlapped one at most is under way and what it
scanned still stands (`AloneInv`, `ScannedInv`). Claims are written under a lock that adjudicate and
dismiss do not take, which is why `OneClaimant` needs the history `claimants` and not the item as it is.
`PromotionTypeCorrect`, `HandedOutOnce`, `ArtifactsApproved` and `SplitGroupsKept` follow.

**RunOrchestratorProofs.** Any number of overlapping runs, checkpoints, cases and versions of the inputs.
The argument is that an experiment's hash and scope never change once it is minted and a result is
never taken back (`Kept`): so whatever was once known of an experiment stays known, however stale the copy
that knows it. `Inv` says what every result is (`VerdictInv`: what the scorer makes of the inputs behind
the hash), what every run knows (`Knows`), what every checkpoint holds (`Holds`), and that what says
"completed" was once completed and what is doomed may go (`GreenInv`). `RunsKeepFaith` proves it
inductive; `RunTypeCorrect`, `CheckpointHasResults`, `CasesAccountedFor`, `GreenIsClean` (with
`PassingIsClean` about the gates of `CaseScoring`) and the action property `FailedRunsKept` follow.

**AcceptPathProofs.** Any number of hooks, messages, sessions and generations. Three arguments that
hold in different circumstances. Always: whatever speaks for a session (its bundle, its twin, a hook that holds
it) speaks for one message (`Owned`), because a hook adopts a session only where what is on disk is of its
own message and else mints one for which nothing speaks; the cache may name anything. Hence the action
property `SessionsKeepTheirMessage`. While no hook went on without the lock (`degraded`): who is in the section has
the lock file, and what the scan found is still all there is when the bundle is written (`LockedPart`, proved by
`LockIsExclusive`); hence `MessagesKeepTheirSession`. While hooks run one after another and to their end
(`untidy`): a sent generation stays in the hand-off file only under the hook that is about to clear it,
and a hook that has read one holds one that is not sent (`TidyPart`, proved by `HandoffIsCleared`, which needs
that nothing speaks of a generation that is not yet written: `Past`); hence
`GenerationsRecordedOnce`. `OneSessionPerMessage` is not inductive without the first two clauses, nor
`RecordedOnce` without the last two.

**EvalCommandsProofs.** Any number of processes, experiments, cases, metrics, bundles and sources, from any
store that is in order. No command takes a lock, so `IInv` has nothing about exclusion: it says of every
process what its own record promises at its place (`JobOK`), in terms of files that nobody takes away.
An export has the manifest before its rows and its rows before the vault, and what is still to be
written is exactly what is missing (`InExport`); a replay likewise (`InReplay`); a diagnose about to write its
snapshot finds a row of its issue (`InDiagnose`), since rows of issues are replaced and never deleted;
what is about to be written to an issue follows from what was read (`FollowsSeen`), which is
enough for the matrix as long as nobody wrote in between; a triage that has listed failures knows of one
experiment only (`InTriage`). `StoresStaySound` proves it inductive, with one lemma per command.
`VerdictsTellTheTruth`, `FilesNeverDangle`, `TriageStaysInOneRun` and the action property
`IssuesMoveByTheMatrix` follow: every property that `commands` checks. `DoctorExitsAsItSays` is the fact
about the operators of `EvalReports` that the triage's verdict rests on.

**ScoringAndPromotionProofs**, on scoring. Any policy, bundle and configuration of the judge, whatever it answers. That the
judge moves no gate but its own compares the last step with a function of the evidence, so the invariant
has to say what the rows are all the way: while families run they are those of the families that ran,
with the row about errors as good as the errors so far (`FamiliesAt`; H, which holds that row, comes last); the
envelope makes them exactly the `Rows` of `CaseScoring`, and its errors `EvaluatorErrors`
(`EnvelopeStep`, on `KeptRows`); the judge's lane leaves them alone, and an exception of the lane only turns
the row about errors (`RewritePassing`, `HonestyStep`). `JudgeOwnsOneGate` follows at the gates. `CallsInv`
says row by row what a row tells of its calls (`Tells`): the next one has none or one that may be
retried, and only where the judge may be asked at all. `CountersAreTheCalls` is the sum of it.

**SuiteScoringProofs.** Any suite, and any graph of spans of any size. `SearchTellsTrees` is the correctness of
the hand-written depth-first search. The definition it is held against has no search in it: a span
stands under a root if a chain of parents leads there (`Climbs`), and a trace is one tree if one root
stands above every span. The invariant says what the stack is (`StackOk`): the way up from a start, each
step to be left the child of the next, the ids to be left being exactly `visiting`, none twice; the top,
if it is to be left, has its parent left already. So a span met that is in `visiting` closes a set which
parents do not lead out of (`MeetOpen`), and no root is above that (`ClosedUnrooted`); and whoever was left
stands under a root by a chain no longer than the number of spans left (`VisitedOk`, kept by `Leave`), so a
search that ends without a cycle has a root above everyone (`AllLeft`), no start being lost (`StartsOk`).
`FirstWalk`, `StartOk`, `EnterOk`, `MeetLeft`, `MeetOpen` and `Leave` are the steps, about one walk in one graph; the
invariant of the suite (`RowsInv`) carries what was found to the rows of a case until the end.
`ThreadsAreNotShared` needs of it that the index is that of the whole suite, `GoldenStandsOnATrace` that a row
of a case is one of Family I's functions of its evidence; `SuiteTypes` is type correctness.

**PresentationAndReleaseProofs**, on presentation. Any paths, tags, circumstances, blueprints and answers. That
a blueprint is honoured is not inductive, since four rewrites run between its application and the end.
`BlueprintInv` says that the reading of the paths never changes (`SameReading`), that a blueprint in use is
the operator's and legal for those paths (`LegalBlueprint`), and what the plan has when the overlay begins
(`AskedFor`). The overlay is then taken apart: each part of it that rewrites groups, scopes or secondaries leaves the
primary's type, impact and words and the body as they were (`Keeps`, one lemma for each), and the part that
does force a type or cap an impact finds nothing to force, because legality is the same envelope
(`OverlayTypeKeeps`, `OverlayHonours`). Without tags the overlay's ceiling is never below the one
a blueprint was held against (`UntaggedReading`). `BlueprintIsHonoured` follows. `PresentedInv` adds the reason on record
(`Reasoned`) and that a plan without words has no finding of its own (`WordlessIsClean`), which is what a skeleton is;
`PresentedIsClean` follows.

**PresentationAndReleaseProofs**, on release. Any log, any tags, any number of runs that may die anywhere, and any
of the failures the code swallows. A tag is
made from an advice that has outlived its run, over files that others may have committed meanwhile, so
`TagsAreCuts` needs what a run has written by the place it is at, except for the files it has passed over
(`left`), as long as no file is torn (`Injects`), that
an advice nothing has disturbed still starts at the nearest tag, or at none if there is none (`Undisturbed`), that the version
comment is still that of the newest tag while nobody has bumped it (`HeaderInv`), that the changelog lists every version that was
cut, once (`FilesWhole`), and that a version under way is that of no cut unless a run could not list the tags (`collided`).
`ReleaseInv` is inductive with them; `ReleaseTypeCorrect` and `TaggedVersionsAreCuts` follow.

**Only model-checked.** Liveness (`Responsive`, `UnattendedEnds`, `EventuallySent`, `SuiteEnds`): the
prover handles neither fairness nor ENABLED here. `OverlayIsStable` and `JudgesAgree`: both compare whole plans,
secondaries included, after filters and folds over sequences, and what such an operator computes for every
sequence is an induction over data that the installed provers cannot do. Every other invariant and action
property of a passing run is a theorem.

## 5. Not modelled

- Data: wording, labels, rendering, redaction, hashes, fingerprints, prompts; the text rules of gold and
  of the metrics of families A to G, whose outcome is free in the models.
- The network: an upload, a model call or a judge call succeeds, fails, or (for an upload) succeeds and
  is taken for a failure.
- `--recover`, which applies the message file of an earlier invocation.
- Export planning, redaction and composition of batches, the mirror's projections: functions whose
  result is only enqueued.
- The patterns that find words in a diff (`IntentRanking` has families of terms), `scoped_history` and the
  semantic producers: advisory evidence computed once per run.
- The model client with its retries, secrets, the notifier, error reporting and themes: I/O.
- The golden corpus and its encoder are inputs of the suites.
- The parts with status `not_modelled` or `partly` in `PROJECT.json` say what is left out of each.

## 6. Plan

Done: every module of section 2, the generation loop and its menu first, then the queue, the parts
that share files between processes (binding, runs, reviews and promotion, commands, release), and
the pipelines (presentation, scoring, spans); proofs of every invariant and action property that a
passing run checks, but for the two named above, and of both refinements of `ArbitrationPromise`.

Next:

1. `--recover` in `CommitGeneration`: a second invocation over the file of a first.
2. Export planning up to the enqueue, composed with `ExportQueue`: which rows one run may plan.
3. The ranking confidence and `scoped_history` as functions beside `IntentRanking`, whose order is checked over
   diffs of two files and not proved.
4. `OverlayIsStable` and `JudgesAgree` as theorems about plans with at most one secondary, for which no induction
   is needed.
