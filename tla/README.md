# A TLA+ model of agent-workflow-manager

`awm` keeps the working memory of coding agents in one database: an agent opens a
*receipt* for a task (`context`), reports progress on a *plan* and its *tasks* (`work`), runs
the project's tests (`verify`) and its review gates (`review`), and closes the task (`done`).
Several agents work on one project at once, each through processes of its own (the `awm`
command, an `awm-mcp` server), and those processes share nothing but the database, SQLite or
Postgres, and the files of the project. A command is a handful of reads and transactions with
nothing around them. What is hard about this program is what happens between those.

Paths below are relative to `src/internal/` unless they start with `src/`; `backend/` is
`service/backend/`.

## 1. Inventory

| Component | State | Operations | Hard part |
|---|---|---|---|
| work plans: `backend/work.go`, `work_plan_lifecycle.go` | the plan row with status, stages and lists; the plan's tasks; the receipt's work items | `work` in merge and replace mode, auto-open, auto-close | a task's status is stored twice, by two transactions; the auto-close decides from data read earlier; calls can end between any two of them |
| review gate: `backend/review.go` | the append-only attempts; the gate's work item | `review` with and without run | a check-then-act budget, a fingerprint of a tree that changes, a command that runs for minutes between check and write |
| completion: `backend/completion.go`, `scope_runtime.go` | run summaries | `done`, strict and warn | judges a tree, items and attempts read at different moments |
| context and receipts: `backend/context.go` | the receipt's scope, phase, tags and working-tree baseline | `context`, auto-open of `work` | repeating it must converge on one receipt; the baseline is what `done` measures change against |
| verify: `backend/verify.go` | verification batches | `verify` | selection of tests; batch and item are stored separately |
| workflow definitions: `backend/workflows.go` | none (files) | load, match | selection rules |
| sync, tags, rulesets: `backend/sync.go`, `tags.go`, `ruleset.go` | pointers, candidates, tag dictionary, rules | `sync` in three modes | several transactions, any of which can be the last; a difference is read from git and applied later |
| health, inventory, fixes, init: `backend/maintenance.go`, `inventory_health.go`, `health_fix.go`, `bootstrap/scaffold.go` | none of their own | `health`, fixers, `init` | a fix is applied to what was found earlier; fixers run in any order |
| fetch, history, export, status | none | queries | none: read-only |
| storage domain: `storage/domain/domain.go` | none | normalise and merge rows | partial updates; both adapters share it |
| SQLite and Postgres adapters | the tables | one method per operation | isolation differs: SQLite refuses to write on an out-of-date snapshot, Postgres under READ COMMITTED does not |
| migrations: `adapters/sqlite/migrations.go` | the schema and its ledger | apply on open | no transaction: every statement and the ledger record commit by themselves |
| templates and atomic writes: `bootstrap/`, `workspace/`, `fswrite/` | the project's files | scaffold, template operations, write, create | a file is judged and replaced later; a crash between temporary file and rename |
| cli, mcp, http, dispatch, contracts, workspace, runtime, logging | none that lasts | decode, call, encode | none of the above |

How they interact: the adapters (cli, mcp) decode a request and call one method of the
backend service; the service calls repository methods one after the other and, for `verify`
and `review`, calls `Work` on itself to record the result; the repositories are the only
shared state besides the tree. There are no background tasks, no queues and no locks of the
program's own, so every interleaving is one of repository operations and file reads.

What makes each part correct, in a sentence:

- work plans: no report is lost without a trace, the plan and its tasks agree, a plan closes
  when, and only when, its tasks are closed, and a partial update keeps what it did not send;
- review gate: nothing counts as reviewed that no review has passed, a pass is not repeated, and
  a gate does not run more often than it may;
- completion: an accepted run satisfies what the workflow asks, for the tree it was taken of;
- verify and review alike: the stored record and the item tell the same story after a failure;
- sync, health and init: an undisturbed call leaves the index as its sources have it, whatever earlier
  calls that overlapped or were cut short have left;
- migrations: no crash loses a row, and an open that succeeds has the last schema;
- init and atomic writes: the user's text survives, a half-done init is finished by the next one.

`PROJECT.json` lists every component with its status and every hazard with its line.

## 2. Modules

| Module | Models |
|---|---|
| `PlanStatus` | the status vocabulary and the aggregation of task statuses into a plan status |
| `WorkPlans` | `work` and the closing part of `done`, as interleaved repository operations of several processes |
| `TaskMerge` | what one `work` call does to the fields of stored tasks |
| `ReviewGate` | `review` for one runnable gate, the other ways to set its item, and the judgement of `done` |
| `GateLedger` | the abstract gate: what `ReviewGate` promises to those who read it |
| `Completion` | `context`, `verify` and `done` over a tree that is edited and committed meanwhile |
| `PointerIndex` | `sync`, `health` with its fixers and `init` over a project whose files, commits and rulesets change meanwhile |
| `Migrations` | the opening of a SQLite database of an older release, statement by statement |
| `ProjectFiles` | what `init` writes into the project: scaffold, tag dictionary, template operations |
| `Storage` | the normalizations both adapters share and the forms of SQL statement |
| `SqliteStore`, `PostgresStore` | every operation of the repository interface, from the statements of each adapter |
| `StorageParity` | the same calls of both |
| `WorkPlans_proofs`, `ReviewGate_proofs`, `Completion_proofs`, `PointerIndex_proofs`, `Storage_proofs`, `StorageAnswers_proofs`, `ProjectFiles_proofs`, `Migrations_proofs` | theorems and their proofs |
| `MCWorkPlans`, `MCTaskMerge`, `MCReviewGate`, `MCCompletion`, `MCPointerIndex`, `MCMigrations`, `MCProjectFiles`, `MCStorageParity` | payloads, gates, definitions, ruleset files and symmetry for TLC |

`PlanStatus` is extended by the next four; `Storage` extends it too; `PointerIndex`, `Migrations` and `ProjectFiles` share no table with them and stand alone. `WorkPlans` treats a task as its status, and
`TaskMerge` is the same merge with the other fields and without interleaving, so neither has to
carry the detail of the other. `ReviewGate` treats the whole `work` call at the end of a review
as the one write `done` reads; what that call does in detail is `WorkPlans`. `Completion` does the
same with every `work` call. So `done` occurs three times, each time with the part that the module
is about: its auto-close in `WorkPlans`, its judgement of a runnable gate in `ReviewGate`, its
judgement of the changes and of all other gates in `Completion`.

### WorkPlans

Variables and tables: `plan` is `awm_work_plans`, `tasks` is `awm_work_plan_tasks`, `items` is
`awm_work_items`, `receipts` the rows of `awm_receipts` with a scope. Of a plan row the model keeps its status,
one stage field (there are three, treated alike, each with its `stage:*` task) and
`discovered_paths`, which stands for all the fields a merge keeps when they are not sent. `pc`,
`input`, `base` and `back` are the locals of a call: `base` the row its transaction has read,
`back` what it will hand to `syncTerminalWorkPlanStatus`.

One action is one statement or transaction:

| Action | Code |
|---|---|
| `OpenReceipt` | `context` stores the scope |
| `StartWork`, `StartAutoOpen`, `StartDone`, `Precheck` | the head of `Work` and `Done` |
| `PlanRead`, `PlanWrite` | `UpsertWorkPlan`: SELECT, then all writes and COMMIT |
| `ReadBackRow`, `ReadBackTasks` | the `LookupWorkPlan` after it; for `done`, the load of the plan and of the items |
| `WriteItems` | `UpsertWorkItems` |
| `SyncSkip`, `SyncRead`, `SyncWrite` | `syncTerminalWorkPlanStatus` and its upsert |
| `Busy` | SQLITE_BUSY |
| `Fail` | a crash, a cancelled context or a failed statement, between any two of these |

`Serializable` is the one difference between the adapters that matters here. SQLite's deferred
transactions read a snapshot and may write only if nothing was committed since; the busy timeout
does not help in that case, the call fails. `fresh` says that nothing was committed. On Postgres the row is
read without a lock and written whatever happened since.

`lost`, `dirty` and `overlap` are history: which items a call that was cut short never wrote,
whether the last writer of the plan was cut short, and whether two calls ever overlapped. They
occur in the properties, and in no guard.

### TaskMerge

`Apply` is the whole path of a payload: `workPayloadTasks`, `normalizeWorkItems`,
`MergeIncomingWorkPlanTasks`. One list field (`evidence`) stands for the five lists, which are
treated alike; summary and outcome, which follow the rule "non-empty overwrites" of the parent, are left out.
The properties quantify over every payload in every reachable table, so they are
about all pairs of stored tasks and calls, not about those a schedule happens to take.

### ReviewGate

`attempts` is `awm_review_attempts` in the order `ListReviewAttempts` returns it (finish second,
then id), `item` the status of the gate's work item, `accepted` the fingerprints of the runs
stored as `accepted`. A fingerprint is the function from the paths in scope to their contents.
The hash itself, the workflow definition and the runner's files are left out.

| Action | Code |
|---|---|
| `Edit` | the agent changes a file (outside the program) |
| `Discover` | `work` declares discovered paths |
| `DirectWork`, `ManualReview` | `work` with the gate's key; `review` without run |
| `StartReview`, `Assess`, `Execute`, `Save`, `Snapshot` | the steps of `Review` with run |
| `StartDone`, `ListForDone`, `Judge` | the steps of `Done` that concern the gate |
| `Crash` | any of these calls ends where it is |

`Decide` keeps the order of the code's tests, including the jump over the budget check when
the last attempt on the fingerprint failed. Hashing the tree is one step; the code reads file
after file.

`GateLedger` has no processes, steps or files. Its state is the number of attempts, the fingerprints that have a passing one, the
item and the accepted runs; `Record`, `Report`, `SetByHand` and `Accept` change it. `Ledger` in `ReviewGate` is the
refinement mapping: the count is `Len(attempts)`, the passed fingerprints are `Passes`, the number of processes is that of the
agents. `Save` is a `Record`, `Snapshot` a `Report`, a `Judge` that accepts an `Accept`; every other step is a stutter. It is a specification
of its own and translates no code, so it has no entries in the map.

### Completion

`tree` is the working tree and `head` the commit HEAD names, as functions from paths to contents;
`tests` and `workflow` are the project's definitions. `rows` maps a receipt id to its row of
`awm_receipts` (`captured`, `baseline`), the paths its plan declares (`discovered_paths` and
`in_scope`, which `done` joins) and its work items. What the row has of the payload (phase, tags,
initial scope) is hashed into the id and is read from there: `PhaseOf`, `TagsOf`, `ScopeOf`. A baseline maps each path to what a capture
lists of it: nothing, a content, or its deletion. `batches` and `runs` are `awm_verification_batches` and
`awm_runs`, each with the tree that was read for it; these trees, `opened` (head and tree of each
capture that opened a receipt) and `writer` (the batch behind an item) are history and occur in no guard.

| Action | Code |
|---|---|
| `Edit`, `Commit` | the agent changes or commits a file (outside the program) |
| `Open`, `Persist` | `openReceiptScope`: capture and id, then `UpsertReceiptScope` |
| `Declare`, `SetItem` | what `work` changes that `done` reads |
| `StartVerify`, `SelectByName`, `SelectByDelta`, `SaveBatch`, `UpdateItem` | `Verify` |
| `StartDone`, `LoadPlan`, `Detect`, `ListItems`, `Judge` | `Done` |
| `Crash` | any of these calls ends where it is |

The arguments of a call are chosen where the code uses them first, which saves TLC the states that
differ only in an argument not yet used. A capture is one step; the code lists the files and hashes
them one by one. Paths are what a capture can list: `.awm` and what git ignores are outside.

### PointerIndex

`rows` and `rules` are `awm_pointers`: the row of each file, and the rows of each ruleset file, one
per rule. A row is missing, live or stale, and the row of a file has a hash: the blob id
git gives, the SHA-256 of the file, or NULL in a stub. `candidates` is `awm_pointer_candidates`, which nothing reads.
`parent`, `head` and `tree` are HEAD~1, HEAD and the working tree as functions from files to contents;
`ruleFiles` are the ruleset files, each missing, broken or with a set of rules. A rule stands for its id:
a new text under an old id is not told from the old one. Files are those git does not ignore and awm does not manage. A file is in the index of git
exactly if it is in HEAD, and staged changes are changes of the working tree, so that the commands the code gives to git (`diff HEAD`, `ls-files`, `ls-tree`) are comparisons of these functions.

A call is a list of parts. `sync` is `sync`, `rules`, `index`; a fixer of `health` is one of three such lists; `init` is
`cached`, `rules`, `index`. Each part is the reads of one function followed by its transaction:

| Action | Code |
|---|---|
| `Edit`, `Commit`, `EditRules` | the project changes (outside the program) |
| `StartSync`, `StartHealthFix`, `StartInit` | the heads of `Sync`, `healthFix` and `Init` |
| `ListFull`, `ListChanged`, `ListWorkingTree`, `HashFiles`, `Apply` | `collectSyncPaths`, the hashes, `ApplySync` |
| `Discover`, `Parse`, `Put` | `syncCanonicalRulesets`, with one `SyncRulePointers` per ruleset file |
| `ListTree`, `ListCached`, `Seed` | `collectInventoryPaths`; `collectInitCandidatePaths`; `EnsureProjectScaffold` |
| `Inventory`, `Stubs` | `upsertAutoIndexedPaths`: `ListPointerInventory`, then `UpsertPointerStubs` |
| `Return` | the result, or an error or a crash anywhere |

`seen`, and `before` and `calm` in a call, are history: the sets of rules each ruleset file has had, the rows when the call
began, and whether nobody else has written since. They occur in no guard.

### Migrations

`Script` is the list of the 17 migrations as statements on tables and indexes. A table is the set of the columns that
some migration adds, drops or fills, the statuses its CHECK admits and its rows, a row being its status; what no
migration after the one that creates the table touches is left out. `Possible` and `Effect` say which statements SQLite refuses and
what the others do: a duplicate column, a missing table and a CHECK are errors, and `CREATE INDEX IF NOT EXISTS` looks for the
name on whatever table it is. `Left(v)` is the database a release with the first v migrations leaves, with two rows in each table: the
effects of these migrations one after the other (`Passed`, a set only so that TLC evaluates each migration before the next). `Met(C)` lists
the schemas that a call of `New` meets before each statement when no two calls overlap and only migrations of C are cut.

`StartOpen`, `Check`, `Exec`, `Refuse` and `Record` are the steps of `New` and `applyMigrations`, `Cut` ends a call between any two
statements, `Supersede` uses the open database. `cutIn`, `overlap` and `original` are history. The Postgres migrations run in one
transaction and are not modelled.

### ProjectFiles

A text is the sequence of its lines, a path the file it resolves to after symbolic links. A JSON document is a function from the
paths of its keys to what stands there, a map, an array or a leaf: `mergeInitJSONValues` recurs over the maps, and what it does at one
path depends on that path alone, so `Merge` is one definition by key path and needs no recursion. A call of `init` is the list `Ops` of its
operations; each is a read of the file and a judgement (`Judge`, one operator per operation type), in
`appendUniqueLines` a second read, then `MakeTemp` and `Publish`, which are `fswrite.Atomic` and `fswrite.AtomicNew`: a
temporary file, then a rename or a link. `Crash` ends a call at any point, and `Edit` and `Chmod` are the user's. What
`init` does with the index is in `PointerIndex`. Not modelled is the candidates file that `init` writes last, when it is asked
to (`WriteCandidates`): it replaces whatever is at the path the caller names, and no property speaks of that path. `mine`, `raced`, `settled`, and `calm` and `again` in a call, are history.

### Storage, SqliteStore, PostgresStore, StorageParity

A database is a record of tables, a table a function from primary keys to rows, or a sequence where the key is a number the
database draws. An operation takes the database, its input and the instant and gives the database it commits
and what it returns; a failed one gives back the database. These are the operations as transactions that nothing interrupts: what happens
between and inside them is what the modules above are about. `SqliteStore` and `PostgresStore` have the same operations, each from its own
code: seconds against instants, a statement per path against one UPDATE that joins a VALUES list, filters in Go
against filters in SQL, a window function against a lateral join, one INSERT per item against one for all, numbers that a
rolled-back transaction gives back against numbers that are gone. Where the two codes say the same, so do the modules. Texts that are searched are
sets of words, ordered ones numbers; Postgres is taken to compare text by bytes, as SQLite does.

`StorageParity` instantiates both and makes every call of both at the same instant, with any time between two calls.

## 3. Runs

| Run | Bounds | Shows |
|---|---|---|
| `work_sqlite` | 2 processes, 1 receipt, a task and a stage task, 3 calls, 6 payloads, calls can be cut short | the safety of `work` and `done` on SQLite |
| `work_postgres` | the same on Postgres, no cut-short calls, with fairness | drift does not last |
| `review_gate` | 2 processes, 2 files of 2 contents, 3 calls, 2 edits, budget 1, both dedupe modes | the safety of the gate, and that it implements `GateLedger` |
| `review_goto` | 1 process, 3 calls, budget 2 with dedupe | finding 1 |
| `completion` | 2 processes, 1 task, 3 calls, 2 edits or commits, 2 files of 2 contents, git, failing captures | the safety of receipts, `verify` and `done` |
| `commit_hides` | the same with 2 calls | finding 3 |
| `pointer_index` | 2 processes, 2 calls, 2 edits or commits, 2 files of 2 contents, the two default ruleset files with 2 rules, all fixers | the index after `sync`, `health` and `init` |
| `migrations` | 2 processes, 2 or 3 opens, databases of 4 older releases, 2 rows per table | what survives an upgrade cut anywhere |
| `project_files` | 2 processes, 2 calls, 1 edit, 6 files, 3 templates with each kind of operation | what `init` makes of the user's files |
| `storage_parity` | 3 calls about one of four groups of tables, a clock of 2 ticks a second, limits 1 and 2 | both adapters store and answer the same |
| `task_merge` | 2 keys, payloads of one and two entries | the field rules of a merge |
| `parent_clear` | the same | finding 2 |

Why the bounds are enough. Every property of `WorkPlans` relates the calls on one receipt, and
receipts share no row, so one receipt is enough; two processes give every overlap of two calls, and
the third call is the one that runs before or after an overlapping pair. The six payloads are
the kinds the code distinguishes: merge or replace, explicit or derived status, task or stage task,
with or without a kept field. For the gate, budget one is the least that can be exceeded by
one, two edits change a file and change it back, or change a file and the scope, and three calls are a
crashed review, its repetition and a `done`. In `completion` the first tree is any of nine, most of
them dirty, over a commit that has one of the two files; three calls are `context`, `verify` and
`done`, or two of one kind around another; two edits change a file and revert it, before or after a commit. File `p` is out of
scope until it is declared, `q` is a governance file with a test and a gate of its own, so both
verdicts and all selections occur. `Git = FALSE` is left to the proofs: there the capture lists all files. In `pointer_index` two calls are a
broken call and the one that repairs it, two incremental ones, or an overlap; two edits are a change and its commit, a deletion and its
commit, or a change and its reversal, and each ruleset file can be changed, broken, removed or created. The calls name one
ruleset file or none. What a bound leaves out (more calls, other fixers in other orders) is in the proofs, which cover
every property of that run. In `migrations` two opens are a cut one and its
repetition, or two at once; three, from the release before the rebuilds, add a second cut. The releases are: none, before plans
had columns to add, and before each rebuild. In `project_files` two calls are a crashed init and the next one, the same one
again, or two at once; one edit falls before, between or inside them. In `work_postgres`
the calls are not cut short: the run asks what becomes of drift that only overlaps have caused. In `storage_parity` three calls insert a
row, make it stale and bring it back, or write a plan, replace it and merge into it, and the property adds every query, or a
repetition, after them; two ticks a second put two calls into one second or into two. Its only end is the bound on the calls.

`CHECK_DEADLOCK FALSE` stands in the runs of the gate, of the completion, of the index, of the migrations, of the project's files and of the stores: where the calls and
edits are used up there is nothing left to do.

The properties, by hazard:

- tasks and items: `NoOrphanTasks`, `TasksReachItems`, `ItemsAgreeWithTasks`. The last one holds only
  while calls on a receipt do not overlap; with overlap the two tables can disagree for good,
  since two calls may commit in opposite orders in the two tables.
- auto-close: `AutoClosed` (however calls overlap), `CloseOnlyWithoutOpenTasks` and
  `StagesFollowTasks` (for calls that do not overlap), `DriftCloses` (liveness). Where calls overlap, which
  `CloseOnlyWithoutOpenTasks` and `StagesFollowTasks` except, the code breaks what they say, on SQLite too and with no call cut short: the auto-close works from tasks read back before. A task opened in between is closed over, and the plan stays
  closed with it until a later call derives another status; no text speaks of that case. For the stage that is left behind see
  section 4.
- partial updates: `MergeKeepsUnsetFields`, `NotProvidedIsPreserved` (and a reason goes with its
  block), `MostOpenEntryCounts`.
- changes: `DeltaIsExact` (the delta is what has really changed, unless there was a commit), `BaselineIsKept`
  (re-opening a receipt does not make work done since vanish), `AcceptedStaysInScope` and `AcceptedMetGates` (the verdict is about
  the tree of the delta, whatever happens between the steps of `done`).
- verify: `ChangesSelectTests`, `VerdictHasBatch` (the batch is stored before the item).
- gate: `ImplementsLedger` (attempts are recorded one at a time and never forgotten, and what is written afterwards rests on
  them), `AcceptedWasReviewed`, `CompleteNeedsPass` (an attempt is stored before the item),
  `SettledReviewDecides` (the review after a crash repairs the item), `PassIsFinal` (a pass is not
  run again), `BudgetBound` (concurrent reviews exceed the budget, but by no more than one each).
- index: `RulesComeWhole` (calls that overlap or end anywhere mix neither versions nor marks of a ruleset),
  `FullSyncRepairs`, `ChangedSyncKeepsUp` and `WorkingTreeSyncKeepsUp` (what each mode of an undisturbed sync achieves, and
  from what), `RulesFollowFiles` and `EveryFileIndexed`. The last two hold although the parts of a call
  undo each other's work on purpose: a full sync marks every rule stale before the rulesets are read.

- migrations: `NoRowLost` (wherever a rebuild is cut), `ReadyMeansSettled` (an open that succeeds has the last schema), `RefusedOnlyAfterCut`,
  `IndexesRestored`. The exceptions they name are real: see below.
- project files: `UserTextSurvives`, `ReapplyIsIdle` (templates that touch the same file do not undo each other),
  `InitEstablishes` (what a crash leaves, the next init completes).

- stores: `StoresAgree`, `AnswersAgree` and `OrdersAgree` (nothing a service can observe depends on the database, with the exceptions they
  name), `RetriesAreIdle` (a caller that lost the answer may repeat its call).

One consequence the gate's model makes visible: without dedupe, a spent budget sets the item to
`blocked` even when the last attempt passed, so a further `review --run` on a passed
gate un-completes it. No text of the repository says otherwise; `SettledReviewDecides` asks for one direction
only in that mode.

Three more that `Completion` makes visible and no text denies. `done` reads verify:tests as it is
and does not compare the tree the batch ran on with the tree it judges, so an edit after a passing
`verify` goes untested. A `verify` that selects no test leaves an older verdict in place. A capture that
fails hashes like a clean tree, so re-opening a clean tree's receipt while git fails takes its captured
mark away, and `done` then believes the files it is given; `BaselineIsKept` excepts exactly this case.

And of the index. A full sync describes HEAD, so it marks the row of a file that is present but untracked stale. It marks the rules
of all ruleset files stale and then makes live only those of the files it reads: with a ruleset file named, the
rules of the others stay stale; with a broken one, which is an error after the pointers are committed, all that follow
stay stale until the next call that reads them. `sync` of the working tree says nothing of a file that is as in HEAD, so it does
not repair the stale row of one that was deleted and restored. `init` indexes files that git tracks though
they are deleted. A stub has no hash until a later sync lists its file, and a row whose hash was set by one mode is
rewritten by the other even if the file is the same.

And of the migrations. A call cut inside 0006, 0008 or 0011 to 0017 leaves a database that every later open refuses: the migration
begins again and adds a column or creates a table that is there. A call cut after the last statement of 0013 or 0014 and before its record repeats
the rebuild, and the repetition turns around which names are taken, so that six indexes of plans and tasks are missing for good;
no row is lost. Two first opens at once can refuse each other in the same way.

And of the stores, where they differ. A search of the receipts for a word that only the issues of a run hold finds it on Postgres, which searches the
whole summary, and not on SQLite, which searches its outcome. Rows of one second are listed by key on SQLite and by instant on Postgres,
attempts by id and by instant, and a limit then shows different rows. Ids of runs and attempts have gaps on Postgres. A stale bound
within the second of a row gives different candidates; no service sets one. `LookupWorkPlan` by receipt alone takes the plan updated
last, so two plans of one second can give different ones; no service asks without the plan's key, and `AnswersAgree` compares by key. Both
`ListWorkPlans` read `receipt_id` into a string and would fail on a plan without a receipt; `InputAssumption` says that the services
always give one. A repeated `SaveVerificationBatch` fails on both, though its comment
(`adapters/sqlite/repository.go:1849`) says it replaces what was saved, and both `LookupWorkPlan` refuse a call with neither a
plan nor a receipt, though the comment says it returns the project's most recent plan.

Fairness: `FairSpec` assumes weak fairness of the steps of calls that have started, since
a command runs to its end unless it is cut short, which that run excludes. Nothing is assumed about when calls start, or that
any call starts.

Each property has a mutant in `PROJECT.json`, defined just before the operator it replaces: a plausible slip in
that code under which TLC finds the property violated.

## 4. What the code does that its documents deny

1. **`max_attempts` is not a limit under dedupe** (`WithinDocumentedBudget`, `review.go:126`). A
   failed attempt on the current fingerprint jumps to the execution, over the budget check.
   `src/docs/concepts.md:208` says such attempts rerun "until any configured
   `max_attempts` budget is exhausted".
2. **An empty `parent_task_key` does not clear the parent** (`EmptyParentClears`, `work.go:428`).
   The flag is set by `workPayloadTasks` and dropped by `normalizeWorkItems`, which it
   calls on its result. `src/CHANGELOG.md:313` announces the feature.
3. **A commit hides a change from `done`** (`AcceptedChangesInScope`, `scope_runtime.go:150`). Both captures
   list what differs from HEAD, so a file edited and committed in between is in neither.
   `src/docs/concepts.md:123` says the baseline validates "what actually changed".
Three more, seen with the same models and not kept as runs: concurrent merges on Postgres lose fields (`MergeKeepsUnsetFields`
fails with `Serializable = FALSE`; `adapters/postgres/repository.go:542`), since a merge writes back every column as it read it, and
`storage/domain/domain.go:393` says only non-empty input fields overwrite; an overlap of two calls on SQLite leaves a closed plan with a stage
that differs from its stage task (one call reads back a complete stage task, another supersedes it and closes the plan, and the first one's auto-close
then stores the stage and the status it had read; `src/docs/feature-plans.md:62` says completed plans do not retain stale stages), and an
edit between two `context` calls of one task gives two receipts (`context.go:67` says a later agent that opens the same task
converges on the same receipt).

## 5. Proofs

The theorems hold for every value of the constants that satisfies the named assumptions
(`ConstantsAssumption`, `GateAssumption`, `CompletionAssumption`, `IndexAssumption`, `MergeAssumption`, `ProjectAssumption`,
`CatalogAssumption`, `StartsAssumption`, `ParityAssumption`, `InputAssumption`): any number of processes, receipts, keys, files,
contents, definitions and calls.

Five of the assumptions say more than the types of constants. `ParityAssumption` keeps SQL's NULL and the field left out apart from each other and from
numbers and texts (`InputAssumption` only types the inputs of the calls). `MergeAssumption` keeps the empty parent key apart from the keys.
`ProjectAssumption` says of the templates what those under `bootstrap/bootstrap_templates` have in common: none writes `.gitignore`,
`.env.example` or the tag dictionary, what is merged is JSON, and no content that counts as pristine holds anything of the user's
(it is what an earlier version of the template wrote). `CatalogAssumption` says what they are taken together: files that
several operations are about (the `awm-tests.yaml` of the planning and the verify templates, the `awm-rules.yaml` of the planning template and the
starter contract) are replaced when pristine by all of them, and where one takes another's content for pristine, it takes for pristine
whatever the other one replaces; no operation takes its own content for pristine, and none stands for a missing file. Two templates that
create the same file with different contents or modes would break it, and with it `ReapplyIsIdle`. `StartsAssumption` says only that an older release has applied a prefix of the script.

Three more, `LeftAssumption`, `RepeatAssumption` and `RestoreAssumption`, mention no constant of the model: they are facts of the script of
migrations, what each of its 18 prefixes leaves and what a call meets at each of its statements. TLC decides them, once and for all, at the start of the
run `migrations`; unfolding a fold of some eighty statements is not within the provers' reach. A wrong script already fails there, so
the mutants of `RefusedOnlyAfterCut` and `IndexesRestored` are in `Record` and `Check`.

`WorkPlans_proofs`:

- `TypeCorrect`. It rests on `CallsCorrect`, that an agent inside a call has the locals that step needs.
- `TasksHaveReceipts` (`NoOrphanTasks`): a call past the precheck works on an open receipt,
  and receipts stay open.
- `EveryTaskReachesItems` (`TasksReachItems`).
- `PlansAreAutoClosed` (`AutoClosed`), the hard one. The property speaks of plans at rest and
  is far from inductive. `AutoCloseInv` says who is responsible while a plan is drifted: some call on
  the receipt that has written the plan and has still to read it back, or has read back a
  state that needs the sync and has not done it, or whose sync write will store a terminal status. A step
  that discharges one of them must leave the plan closed or another one responsible.
- `SnapshotMergesKeepFields` (`MergeKeepsUnsetFields`), assuming `Serializable`: a
  row read by a fresh snapshot is the stored row.
- `ItemsFollowTasks` (`ItemsAgreeWithTasks`), `ClosedStagesFollow` (`StagesFollowTasks`) and `ClosesOverTerminalTasks`
  (`CloseOnlyWithoutOpenTasks`), from `SeqInv`: on a receipt whose calls never overlapped at most one call is under way; the tables
  agree but for what that call will still write, and this is what it has put into the tasks; what it has read back for the
  auto-close is still what is stored. `StageInv` adds that a stale stage has a call on its way to set it right.

`ReviewGate_proofs`:

- `TypeCorrect`.
- `AcceptedRunsWereReviewed` and `CompleteIsBacked`, from `HistoryInv`: every attempt an agent has
  listed is still stored (attempts are only inserted, at any position), and a call
  about to store `complete` has a passing attempt behind it.
- `BudgetIsBounded`, from `BudgetInv`: the stored attempts and the agents that have passed
  the check and not yet stored theirs are together at most `max + N - 1`; an agent that has listed the attempts
  and not decided has seen no more than are stored.
- `GateImplementsLedger` (`ImplementsLedger`), from the two invariants and `VerdictInv`, that a review about to set the item has a
  status: every step of a call, of an editor or of a crash is a step of `GateLedger` or a stutter. `SaveRecords` is the step that
  needs the budget: a review that stores holds room, so what is held and what is stored is one more than what is stored.
- `SettledReviewsDecide` (`SettledReviewDecides`), from `ClockInv` and `SettledInv`: no stored attempt has finished after the present,
  so the attempt of a review that nobody disturbed is inserted last, and it is then the latest on its fingerprint.
- `PassesAreFinal` (`PassIsFinal`), from `FinalInv`: a review without another one under way has listed what is stored, and executes only
  if the latest attempt on its fingerprint failed; by the property so far, so did all the earlier ones.

`Completion_proofs` proves every property of the run `completion`:

- `TypeCorrect`, with `CallsOpen`: a call that judges or reports is about a receipt that exists.
- `DeltaCorrect` (`DeltaIsExact`) and `BaselineKept` (`BaselineIsKept`), from `BaselineInv`: the baseline of a row is the one its
  id hashes, and that is what the capture saw. This is why overwriting a row is harmless. The step
  from there to the tree is the lemma `CaptureDelta`: two captures over one HEAD differ
  in exactly the files that differ; without git HEAD does not matter.
- `AcceptedScope` and `AcceptedGates`, from `DoneInv`: the files a call judges are the delta of its receipt at
  the tree it has read, its verdict is positive only inside the scope it has read, and a run records both.
- `VerdictBacked` and `ChangesSelect`, from `VerifyInv`: a verdict in an item, in a call of `done` that
  has read it, or in a run is that of a stored batch of the receipt (batches are never removed), and the tests of a call
  that has selected by the delta are those the delta asks for.

`PointerIndex_proofs` proves every property of the run `pointer_index`, for any number of files, ruleset files, rules,
calls and fixers in any order:

- `TypeCorrect` and `TypesHold`. `TypeInv` adds to the types that a call is at a step of its program: the step belongs
  to the part `at`, and what a part needs was set by the steps before it.
- `RulesAreWhole`, from `ReadVersions`: what a call has parsed is a version the ruleset file has had. `ApplySync` marks
  all rules of a file or none.
- `FullSyncIsRepair`, `ChangedSyncFollows` and `WorkingTreeSyncFollows`, from `SyncCorrect`. `SyncCalm` says of an
  undisturbed sync: before its transaction the rows are those it began with and its list is the difference it is to
  apply; after it each row is what the list asks of it, except the missing ones, which the stubs fill in.
- `RulesAreFollowed`, from `RulesCalm`: the ruleset files that the call has put are stored as they are, since only a
  full `ApplySync` undoes that, and it is the first part of its call.
- `FilesAreIndexed`, from `IndexCalm`: between the listing and the stubs each file of the tree is in the list or has a row; rows are never removed.

`Storage_proofs` and `ProjectFiles_proofs` begin with what they need of loops, each with its own copy of the same few lemmas. The loops of the code are folds,
and a fold of the community modules is the `CHOOSE` of a table over subsets of indices. `Induction` is stated with a set of numbers instead of a predicate, which the provers can instantiate;
`FoldTableExists` gives the table, and a property of what the loop holds after k passes follows for every k.

`Storage_proofs` has two components, what `work` does to the fields of a task and the two database adapters. Of `TaskMerge`, for payloads and
tables of any size:

- `MostOpenEntriesCount` (`MostOpenEntryCounts`): `KeptUpTo` says what the table of `normalizeWorkItems` holds after k entries, for each key the last of the most
  open ones among them.
- `NotProvidedPreserved` (`NotProvidedIsPreserved`): the entry that counts is one of the payload's, and the merge keeps what that entry has not.
- `TasksTypeCorrect`.

Of `StorageParity`, for any inputs of the calls, any resolution of the clock and calls at any instants:

- `EquivalentStores` (`StoresAgree`), from `StoresInv`. `StoresMatch` relates the two databases table by table: the same keys, and under
  each key rows that are equal but for their numbers and the part of their instants finer than a second; the logs are as long, the keys of items and tasks
  are pairs. The modules of the adapters say the same thing in different ways, so each operation is first brought
  to one form that both have, a function of the database, the input and the instant it writes (`StubsForm`, `RulesForm`, `ScopeForm`,
  `RunForm`, `ItemsForm`, `PlanForm`). For `ApplySync` that is most of the proof: `LiteSyncForm` follows the loops of SQLite path by path, a row
  that one path has refreshed is not touched by a later one because a path occurs once (`PathsOnce`), and `PgSyncForm` finds
  the same rows in the join of Postgres. What the loops of upserts leave is `UpsertEachForm`, and that no key occurs twice in what
  an input is reduced to (`ByKeyOnce`) is also why the one INSERT of Postgres is never refused. Then
  an operation of that form leaves databases that match when it finds databases that do (`StubsAgree` and the others): it
  selects rows by columns that are equal and writes an instant that is the same second. `MergedAlike` is the case of a plan: tasks that agree
  in status, text and reason merge into equal ones.
- `IdleRetries` (`RetriesAreIdle`), from the same invariant and the same forms. A second upsert finds every row there that it would insert, and sets
  the columns the first one has set to the same values but for the instants (`UpsertEachHolds`, `UpsertEachAgain`); what
  a replaced plan or a ruleset has lost is gone already. `SyncSettles` is stronger: the rows a sync deletes, marks
  or refreshes are no longer selected by its conditions afterwards, so the second one leaves the database as it is. A plan is merged with what its first
  call has stored: merging twice is merging once, field by field (`MergedAgain`), so the tasks (`TasksAgain`) and the status derived from
  them (`StatusesAgain`) are the ones that are there (`PlanAgain`). That the first call leaves a database like that, with the columns of its tables
  and each item under a pair as its key, is part of `StoresInv`.

`StorageAnswers_proofs` goes on with what they answer: `EquivalentAnswers` (`AnswersAgree`) and `EquivalentOrders` (`OrdersAgree`), from `KeptInv`, which adds to `StoresInv` what the answers need of each
database alone (`Kept`): keys are integers and tables finite, so that an ORDER BY is total (`Enumerated`); every row has the instant it is sorted by; the
runs and attempts carry their numbers in the order they were stored, and no run was made after one that is stored later, so that the newest by time is the
newest by number on both clocks, ties within a second included (`NewestIsLast`). Each query is brought to one form: a set of
rows taken from keys (`IsImage`), put into an order, cut at a clamped limit (`Cut`). The two adapters find the same keys (`FreshAgree`,
`FoundPlansAgree`; the SQL condition on one side, the Go loop on the other), and `ListedSameRows` says when two such listings
are the same row by row: when the orders agree on the keys. For receipts, plans and attempts they do if their instants differ in seconds
(`ApartKeys`), which is the hypothesis of `OrdersAgree`; without it the listings still agree as sets.

`ProjectFiles_proofs`, for any templates, files, edits and calls:

- `UserTextIsKept` (`UserTextSurvives`). Each operation by itself makes of a file a content that still has the user's text
  (`JudgeIsGood`: the loops over lines and array elements, the merge of documents). `GoodCall` says that a call about to replace a
  file holds a content made of the file it has read. So a write takes the user's text away only if the user wrote it between the
  read and the write, and then the file is in `raced`. The property alone is not inductive: whether a write is harmless
  depends on what its call has read.
- `EstablishedByInit` (`InitEstablishes`) and `ReappliedIsIdle` (`ReapplyIsIdle`), from `CalmInv`. An operation is `Quiet` when its file, as it is now,
  gives it nothing to write; `CalmCall` says that the operations an undisturbed call has behind it are all quiet, that what it is about to write is
  what its operation makes of the file as it is, and that a call repeated on a settled tree has every operation quiet, those before it too.
  `QuietWhenWritten` shows that an operation that has written its file is quiet (each loop appends all that is missing, and merging twice is merging
  once: `NothingMissingAfter`, `MergeAgain`), and `WriteQuiets` that those of its call before it stay so: operations on other files are
  not concerned, those of the scaffold come first and skip a file that exists, and `CatalogAssumption` settles the rest.
  `QuietFulfilled` says that a quiet operation has been done.

`Migrations_proofs`, for any number of processes, opens and cuts, from any release:

- `RowsAreKept` (`NoRowLost`). `ScriptFits` goes through the 17 migrations: only the rebuilds in 0008, 0013 and 0014 drop or rename a table
  whose rows are kept, at these positions. `EffectDoes` says that every other statement keeps the rows of every table.
  `IInv` says why the rebuilds are safe although nothing keeps two opens apart: the RENAME of 0013 and 0014 needs the old name free and the table it renames
  keeps it taken, so at most one call is between the RENAME and the DROP of one rebuild (`OneInside`); that call has the rows somewhere else when
  it drops, whichever way 0013 and 0014 overlap (`RowSafe`). 0008 begins with a table that may be there, and what keeps a second call
  from its DROP is the INSERT, which finds the keys taken (`LinkSafe`); with no link to keep there is nothing to lose.
- `ReadyIsSettled` (`ReadyMeansSettled`), from `IInv` and `Settling`. The ledger names a prefix of the migrations, and a call has the ledger behind it up to
  the migration it is in (`LedgerFirst`). What a statement did to a table that is never rebuilt stands, whoever overlaps (`OrdinaryStands`). For
  the rebuilt tables the order counts: without overlap the one open call is in a migration the ledger does not name (`OneOpen`), so no
  earlier migration runs again, and a leftover is gone after its last statement and a rebuilt table there to stay (`LeftoversGone`,
  `RebuiltStand`). With all statements done that is every table and every column of the script but the dropped ones, and the rows are where `IInv` says.
- `RefusedAfterCut` (`RefusedOnlyAfterCut`) and `IndexesAreRestored` (`IndexesRestored`). Whether a statement is refused, and which indexes a DROP takes
  along, depends on the exact schema at that statement. `Meets` says that it is one of the schemas of a table, by migration and statement, as long as no
  calls overlap and only migrations of C have been cut. `StepMeets` proves it of every table that `Covers` accepts: it has what a
  release leaves, follows every statement to the next, and for a migration of C leads back to its beginning. So a table made once and for all, from the script
  alone, speaks of any number of processes, opens and cuts. `RepeatAssumption` says that the table for the repeatable
  migrations has no statement refused, and `RestoreAssumption` that with every migration but 0013 and 0014 in C all indexes are there at the end.

TLC has checked each of these invariants before its proof, on the instances of the runs.

Only model-checked:

- `DriftCloses`: liveness.

## 6. What is left

In order of what the next modules add:

1. One `done` that composes its three parts: a strict `done` that is rejected has already
   auto-closed the plan, and keys removed from the plan by a replace stay in the items it judges.
2. The pure parts that the modules now take as given, as operators against a reference definition: the
   tag dictionary and its normalization (`tags.go`), the fingerprint of a gate with all its parts (`review.go`), the
   matching of workflow and test definitions (`workflows.go`, `verify.go`), and the normalizations of `storage/domain`.

Not planned: read-only queries and rendering (fetch, history, export, status, web), request
decoding (cli, mcp, dispatch), configuration and logging, since they change no state the
properties speak of; the hash behind a fingerprint, which is taken to be injective.
