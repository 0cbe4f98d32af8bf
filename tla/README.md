# AI Developer Worker: verification project

TLA+ models of the program in `src/` (a worker that takes tasks from a tracker,
lets Codex implement them and publishes merge requests), the TLC runs that check
them and the TLAPS proofs about them. Paths below are those of the repository;
the TypeScript sources are under `src/src/`.

Check a run with `tlc -workers 2 -config MCx.cfg MCx`, a proof with
`tlapm TaskQueueProofs.tla` (likewise the other seven modules of section 4).

## 1. Inventory

| part | state it keeps | operations | talks to |
|---|---|---|---|
| lifecycle graph (`domain/taskTracker/status.ts`) | none | allowed transitions, logical status | everything that writes a status |
| claim queue and leases (`internalTracker/postgresTaskTracker.ts`, migration 0002) | `tasks.status`, `task_leases`, `task_dependencies` | claimNextTask, claimReviewTask, heartbeat, release, setStatus, addDependency | workers, the human API; rows, locks and unique indexes of PostgreSQL |
| task records (`postgresTaskTracker.ts`, migration 0001) | tasks, revisions, external references, comments, questions, steps, events | create, revise, attach, ask, answer, record | API, bridge, assistant, workers |
| tracker in memory (`domain/taskTracker/inMemoryTaskTracker.ts`) | the same in maps of one process | the same methods | tests and single-process set-ups |
| proposals (`postgresTaskTracker.ts`, `autonomyPolicy.ts`) | `task_proposals`, duplicate signatures, rate windows, idempotency keys | propose, approve, reject, clean up | agents, the human API, the cleanup timer, the queue |
| human API (`observability/taskTrackerHumanApi.ts`) | none of its own | roles, capabilities, create, bulk-create, answer, resume, retry, hold, cancel, approve, reject, edit | tracker, project manager's store |
| internal worker (`domain/internalWorkerOrchestrator.ts`) | the claim, the stage of the handler, the heartbeat timer; outside: tracker records, the working copy and its branches, merge requests | one cycle: import, reconcile reviews, claim, analyse, ask / hold / decompose, implement, gates, publish, fix reviews | queue, git, GitLab, Codex, the external mirror |
| direct-mode worker (`domain/orchestrator.ts`, `integrations/tracker/commentProtocol.ts`) | everything in comments of the issue | resume, review the intake, pick, analyse, implement, publish, wait for answers and reviews | the external tracker, git, GitLab, Codex |
| quality gates (`domain/qualityGates.ts`, `domain/selfReview.ts`) | the coverage report, the working copy | a round of gates, repairs, self-review | both workers |
| comment locks, fleet (`domain/lockBackend.ts`, `fleetOrchestrator.ts`) | lease comments in an external issue | acquire, verify, renew, release; choose an issue | direct-mode workers of a fleet |
| Yandex bridge (`integrations/yandexBridge`) | external references, exported digests | import issues and comments, take commands, mirror | external tracker, internal tracker |
| Telegram assistant (`domain/telegramAssistant`) | drafts, pending actions, turns, queued messages, prompts, deliveries, twin sessions, connections; locks of updates and conversations | update handling, confirm / approve / cancel, turns in the background, scans for notices, retention | Telegram, tracker, Codex |
| Telegram transport (`integrations/telegram`) | offset, processed updates | poll, webhook, send | Telegram |
| project manager (`domain/projectManager`, `postgresProjectManagerStore.ts`) | runs, goals, links, history | run, replan, decide, propose tasks | proposals, Codex |
| memory store (`domain/memoryStore.ts`) | files of a directory shared by processes | make, read, append, replace | both workers' prompts |
| Codex runner (`integrations/codex/runner.ts`, `utils/shell.ts`) | a child process, a temporary directory, timers | run | everybody who asks Codex |
| clients (`integrations/tracker`, `gitlab`, `telegram`, `utils/retry.ts`) | none | requests with retries, pages | everybody |
| observability (`observability/`) | events and their file, alert windows, readiness | record, alert, serve | the process |
| migrations (`internalTracker/migrations.ts`) | the table of versions | run, check | the start-up |
| runtime (`app.ts`) | what is started: server, poller or webhook, timers, pools | start, signal, stop | all of the above |

What is hard in it:

* Several worker processes, API requests, timers and agents share one database,
  and most reads that decide something take no lock.
* A handler runs for hours between a claim and its release, while a timer renews
  its two leases one after the other, people change the status, answer or cancel,
  and reviewers comment, merge or close.
* A process may die at every await; what it leaves in the tracker, in the working
  copy, in files and at GitLab is all the next attempt has.
* Each publishing step (commit, push, open, record, status, reply) may fail on its
  own and is retried from the beginning by a handler that looks at what is there.
* Where the tracker is external, comments are the only memory and the only lock:
  they are read, used and written in separate calls by workers who do not see one
  another.
* Telegram delivers updates again, in any order by webhook; a handler may send a
  message and die before it says so.
* Two stores implement each contract (in memory and in PostgreSQL); the tests run
  mostly on the first, the program on the second.
* Files of the memory are shared by processes without locks; the output of a child
  process arrives in pieces; a signal may come at any await of the start-up and of
  the way out.

What makes each part correct is stated in its module; `PROJECT.json` lists every
component, and under `hazards` what is hard to test, each at its line.

## 2. Modules

| module | models | how |
|---|---|---|
| `TaskStatus` | the lifecycle graph | `AllowedTransitions`, `CanTransition`, `LogicalStatus`; used by all |
| `TaskQueue` | claims and leases in PostgreSQL | one action per statement that other transactions can notice |
| `LeaseLock` | the abstract promise of a lease table | owners of keys taken in bundles, live terms |
| `MemoryTracker` | proposals, claims and leases of the tracker in memory | one action per stretch without an await; implements `LeaseLock` too |
| `TaskRecords` | the records of a task in PostgreSQL | a call is reads and commits of a transaction |
| `MemoryRecords` | the same calls in memory, each one step | the contract `TaskRecords` is compared with |
| `HumanApi` | the HTTP API over `TaskRecords` | a request is authorised, then makes the calls of its handler, each of which may fail |
| `Proposals` | AI proposals | one action per statement that decides something |
| `InternalWorker` | the worker processes, people, reviewers | one action per step between two awaits; the queue's operators through `INSTANCE` |
| `DirectWorker` | one worker of direct mode, people, reviewers | as above; what it remembers is in comments |
| `QualityGates` | gates, repairs, reviews and the push of one task | one action per gate, Codex turn, commit, push |
| `IntakeReview` | reviews of tasks before work | one action per call of the tracker |
| `Fleet` | leases in comments | one action per comment read or written |
| `YandexBridge` | import and mirror | one action per call of either tracker |
| `TelegramUpdates` | how an update is received, marked, acknowledged | a handler is a list of steps; it fails or dies between any two |
| `TelegramActions`, `TelegramTurns`, `TelegramTwin`, `TelegramNotices` | what updates do | each extends `TelegramUpdates` with its steps |
| `TelegramStores` | the two stores of the assistant | every call is made of both |
| `StoreLocks` | their locks, one inside the other | promises in memory, advisory locks and pooled connections in PostgreSQL |
| `ProjectManager` | runs, goals, people | one action per statement of a run |
| `GoalStores` | the two stores of goals | transactions of several statements beside a one-step store |
| `CodexRunner` | one run of the CLI | the child, its pipes, timers, the promise |
| `MemoryFiles` | files of a memory | look, temporary file, rename, append |
| `ApiClients` | one call of a client | requests, retries, pages, others who change the service |
| `Telemetry` | events and alerts | recording, counting, sending, reloading |
| `Migrations` | runs of migrations and start-ups | one transaction per file |
| `AppRuntime` | a process from start to end | one action per await of `runApplicationRuntime`, beside poller, scans, sweeps and signals |
| `Configuration` | a start | one action per section of the settings, one per part that is made of them |
| `TaskQueueProofs`, `ProposalsProofs`, `InternalWorkerProofs`, `MemoryTrackerProofs`, `ProjectManagerProofs`, `TelegramTurnsProofs`, `TelegramActionsProofs`, `ServicesProofs` | theorems | inductive invariants and two refinements; section 4 |
| `MC*` | instances | small sets, bounds |

A definition `Name_Fault` is a seeded fault of `Name`, used only to confirm that a
property depends on the code it is about. No specification refers to one.

`MCFrontEnds`, `MCServices` and `MCProgress` are packs: each
instantiates several modules side by side. A variable `part` says which one a
behaviour is of; it never changes, and the variables of other parts stay 0. A pack
explores exactly what runs of its parts would, in one run.

### TaskQueue

State: `status` is `tasks.status`; `leases` the rows of `task_leases` with
`released_at IS NULL`, each with the ticks until `expires_at`; `txn` the claim
transaction a worker has open: what its first statement saw (`snapshot`), the
lapsed rows it has marked released and therefore locked (`lapsed`), the task row
it has locked. A READ COMMITTED claim is four actions: `Begin` (the UPDATE of lapsed
leases and the snapshot of the candidate query), `LockCandidate` (FOR UPDATE SKIP
LOCKED, which re-checks the columns of the row only), and `Grant`, `Refuse` or
`NoCandidate`; `Rollback` may come any time. Heartbeats, releases, setStatus and
new dependencies run in between unless a row lock holds them up. `Skew` lets the
clocks of workers differ, since `now` is the client's clock. Ticks replace time: `Ttl`
ticks per lease, and a tick changes nothing once every lease is at 0.

`LeaseLock` has no rows, clocks or transactions. `ImplementsLock` maps the owner of a
key to the worker of the unreleased lease, and a live key to one whose lease is
live on every clock. `MemoryTracker!LockStep` is the same refinement for the tracker in
memory, which supersedes leases instead of collecting them.

### TaskRecords, MemoryRecords, HumanApi

A call of `TaskRecords` is a record in `call[c]`: the reads it has made, what each saw
of the committed rows, and the commits left. A transaction's own statements see what is
committed at that moment. `MemoryRecords` has the same calls as one step each, as the
methods in memory await nothing between first look and last write. `AtomicStep` says that
the calls that are one transaction in PostgreSQL are steps of `MemoryRecords`; it is checked
where a key has one spelling, and not for edits, steps, questions, answers and analyses,
which are several transactions. `HumanApi` extends `TaskRecords` by visitors (tokens,
trusted headers, local ones), the role and capabilities of each, and every route that
changes something as the list of calls its handler makes; a call may fail, the process may
die, and the answer is what the caller has to go by.

### Proposals

`call[c]` is the transaction a connection has open and what it has read so far.
`ProposeTask` takes the advisory lock on the idempotency key and looks for duplicates,
`CountWindows` reads the limits, `InsertProposal` writes. Decisions are a read
(`ApproveProposal`, `RejectProposal`) and an unconditional write (`Approve`, `Reject`).
`ListStale` and `CleanNext` are the cleanup job, whose rejections are the same
two steps. `recent` and `today` are the proposals the two limits count; `LeaveWindow`,
`Midnight` and `GrowStale` are time. `SetStatus` and `Claim` are everybody else.
One repository; equal `Content` means a title or evidence the duplicate check would
match; `cleanupProposals` handles fewer rows than its limit.

### InternalWorker

`run[w]` is where worker `w` is in its cycle: the stages are the awaits of `runOnce` and of the
handlers. `notes` is what the tracker stores about the task (latest decision, question and
answer, whether the merge request is on record), `branch` the working copy and GitLab
(uncommitted changes, commits ahead, whether the content as it stands passed the gates, the
merge request and its unresolved notes). `answering` splits recordHumanAnswer at its awaits:
store, read the status, set ready. A cycle lists the tasks under review (`Poll`), then the
leases (`ListLeases`), and goes through what it has found later (`Recover`, `Settle`,
`ClaimReview`). `Move` is setStatus with its lifecycle check; what it throws ends in `Fail`, as
in `processClaimedTask`. `TemporaryError` and `PermanentError` are the two catch branches,
`Crash` and `Restart` the process. `Checkout` follows the git service: a dirty working copy of
another task refuses, a clean one pulls the base, after which merged commits are no longer
ahead.

Abstractions: one answer at a time per task; Codex does not commit; `Verdicts` are the
outcomes after the confidence thresholds; a claim is one step here, since `TaskQueue`
shows what its transaction guarantees (`WorkerAssumption` names what a verdict, a command
and an answer can be); gates are a choice here and detailed in
`QualityGates`; prompts, metrics and events are left out; two tasks of one repository
share one working copy, as workers on one host do.

### DirectWorker

`state` is the logical status of an issue, `says` what the latest comments of each kind say (AI
STATUS, AI ANALYSIS, AI QUESTION with the person's latest command after it, AI MR, AI
DECOMPOSITION, the announcement of a merge), `branch` as in `InternalWorker`. A transition and
the AI STATUS comment after it are two actions, `Turn` and `Tell`; `run.goal` carries what they
write and where the handler goes on; `Head` sets it. `Refuse` is a transition the tracker does
not offer, with the fallback of `finalizeFailure`. `Interrupt` is a temporary error or the
death of the process: both leave everything as it stands, and only the comments bring the next
cycle back.

Abstractions: one `WORKER_ID`, so leases and the check for other workers are left out
(`Fleet` has the leases); issues have no dependencies; TASK_MODE is `auto` or shows in
`Verdicts`; target-issue mode is left out; `skip` acts as `cancel`; a review without any merge
request does not occur, since nobody sets `review` by hand.

### QualityGates, IntakeReview

`QualityGates` follows one task through both orchestrators' publishing. An edit is a whole
content of the working copy; `made` settles, when Codex makes it, which gates it would
pass, its coverage and what a review would say. `tree`, `local` and `remote` are the edit
in the working copy, at the head of the branch and pushed; `report` is the file the
coverage is read from, which outlives edits. `work.path` is a task's way or the way of
review feedback, `work.results` the round as `runQualityGates` returns it. Any cycle may
end anywhere and the next begins with what it finds.

`IntakeReview` reads an issue in two calls (fields, comments), asks Codex, looks again
whether a newer review is there and posts its own with a fingerprint. `issue[i].reviews`
are the fingerprints posted; leases may run out under a worker (`RunOut`), people edit
and comment meanwhile.

### Fleet, YandexBridge

`Fleet`: `lease` is the latest lease comment of an issue and a kind. `Poll` is a poll with its
searches, `Inspect` and `Choose` the selection; `ReadLease`, `Post` and `Verify` are
acquireLease; `Beat` and `Renew` the heartbeat, `GiveBack` the release. The work itself is
`Start` and `Finish`, since `DirectWorker` has what lies between. `YandexBridge`: a cycle
imports issue by issue in the order of the search (`Find`, `Create`, `Accept`, `List`, and per
comment `Store` and `MarkImported`), works, and mirrors (`Export`, `Sync`, each with its record); every call may
fail and end the import or the cycle. A comment knows how many questions had been asked when it
was written, which stands for its time; `IsAnswer` compares the two, `Resumes` decides whether
the task goes on.

### The Telegram modules

`TelegramUpdates` is the frame: `Receive` (a poll from the offset, or any unanswered
update by webhook), `Mark` (the row of processed updates), `Advance` (the offset or the
answer to the webhook), `Fail` and `Crash`. A handler is the list of steps `hand[h]` still
has to do, one per await whose effect outlives the process; the modules that extend it
define the steps. `TelegramActions` has drafts, pending actions, the owner's copies, and
the task a yes becomes; `TelegramTurns` turns, queued messages and the job in the
background, which dies with the process; `TelegramTwin` the sessions, turns and sends
of the digital twin with their audit, and the business connection; `TelegramNotices`
subscriptions with a watermark, deliveries that are reserved, sent and recorded, prompts
and answers.

`TelegramStores` has a row's columns as far as the calls look at them, for the map in
memory (`mem`) and the table (`sql`), and makes each call of both: `said` is what the two
answer. One table at a time, with time, expiry, sweeps, an administrator who purges, and
the daily limit. `StoreLocks` has the plan of each kind of handler (the locks it enters and
leaves, the connections it needs inside), promises chained in a map for the store in
memory, and advisory locks that hold a connection of the process's pool for PostgreSQL.

### ProjectManager, GoalStores

`ProjectManager` has the runs (read, ask Codex, record goals one by one, classify and
complete in a replan), the partial unique index over open goals, links of goals and
tasks, and people who decide or have tasks proposed; a run may fail or die. The goals of one
answer are inserted one after the other within one transaction, each unless an open goal of its
signature is there (`Inserted`). `GoalStores` has
the statements inside the calls of `postgresProjectManagerStore.ts`: row locks, waiting,
rollback, the duplicate key; the store in memory makes the call when the transaction commits.

### CodexRunner, MemoryFiles, ApiClients, Telemetry, Migrations, Configuration, AppRuntime

`CodexRunner`: the child writes `Output` in pieces that end anywhere, may ignore
termination, and may leave somebody who holds its pipes; `timer` and `kill` are the two
timers of `runProcess`; `Close` settles the promise. `MemoryFiles`: a file is its lines;
making a missing file is a look, a temporary file and a rename; a crash may leave a torn
line; people may edit one file. `ApiClients`: a request may take effect without saying
so, be refused, or be throttled with a pause; a list is pages while others add and
remove. `Telemetry`: the store of events with retention and file, the windows of repeated
failures, and sends that are under way while the next event comes. An alert is known by its
rule, issue and stage (the type of its event), while timeouts are counted over all issues and
stages of the repository; severities below the least one are not sent. `Migrations`: runners of
releases that differ by a file, or by a checksum, apply file by file; processes check the
schema and start. `Configuration`: `stage` is what `loadConfig` parses or `buildApplication` makes
next; each section takes its setting from environment, file or default, refuses what does not
fit what was parsed before it, and leaves the rest to those behind it. A setting is `"bad"` when its
parser throws. `AppRuntime`: `phase` is what `runApplicationRuntime` awaits; beside it go
the poller, scans, sweeps and signals, which are told to whoever listens at that moment.

## 3. Runs

Passing runs:

| run | question | instance |
|---|---|---|
| `queue` | are leases exclusive, kept, collected correctly and taken in pairs (`LeaseLock`)? | 2 workers, one clock a tick ahead, `Ttl` 2, 2 tasks of one repository; one worker serves both, the other one of them |
| `worker` | are two workers never at work in one repository, nor two tasks dirty in one working copy, and is only gated content pushed? | 2 workers, 2 tasks of one repository (symmetric), `MaxFix` 1, people, reviewers, errors and crashes, of which a behaviour has up to 2 (`BoundedSpec`) |
| `proposals` | is only approved work executed, are retries answered, how far can the limit be overshot? | 2 connections and the cleanup, window limit 1, 4 ids |
| `frontends` | what people and systems use, and the stores behind: see below | 29 parts |
| `services` | the workers in detail and the services around them: see below | 28 parts |
| `progress` | what must happen in the end | 11 parts |

Parts of `frontends`:

| parts | instance | properties |
|---|---|---|
| `actions`, `hooked` | 3 updates polled or 2 by webhook, everyone, a fault | `TaskIsApproved`, `DecisionsStand` |
| `turns`, `twoturns` | 4 updates polled, without faults; 3 by webhook, answered, with a crash | `OneTurnAtATime`; without a crash also `OnceOnly`, `DecisionsStand` (a cancelled turn is silent) |
| `twin`, `admin` | one message in 3 updates, without faults; 2 updates, a fault and an administrator | `OnceOnly`, `DeliveryIsHonest` |
| `notices`, `replies`, `plain_replies` | 2 scanners and 2 events; answers with and without confirmation | `OnceOnly`, `DecisionsStand` (what is recorded as sent is not sent again) |
| `stores`, `stores_kept` | 2 rows of each of ten tables, 3 ticks, 4 calls | `StoresAreSound` (the two stores answer alike; one caller is given a row to act on; one running turn; the daily limit), `DecisionsStand` |
| `locks`, `locks_polled`, `locks_hooked` | 3 or 4 handlers, a pool of 3, a fault | `StoresAreSound` (one inside a lock, in order of asking, an update handled once, nothing left held, and everyone waits only when the pool is exhausted) |
| `keys`, `edits`, `records`, `whole` | 2 connections, up to 4 calls | `RecordsAgree`, `StoresAgree` |
| `api`, `api_create`, `api_talk` | every route and visitor; creations cut off; two people | `ApiIsHonest` |
| `memory`, `memory_proposals`, `memory_limit` | 2 workers, a task and a proposal; 3 proposals and a worker; 3 proposals of nothing in common | `MemoryIsSound` (nothing unapproved is executed, the limit is overshot by less than the calls that overlap), `StoresAgree` (the leases are those of `LeaseLock`, two live proposals of one title come of a retry only) |
| `files`, `files_curated`, `files_strict`, `files_lax` | 2 processes, 3 appends; a person who edits; strict or not | `FilesAreSound` (what was appended is not lost, files are whole, a prompt is built of what is there) |
| `migrations` | 3 runners of 3 releases, 2 start-ups, a fault | `FilesAreSound` (each file once, in order, no start on half a schema) |

Parts of `services`:

| parts | instance | properties |
|---|---|---|
| `bridge` | 2 workers, an issue, a comment, a question, a fault | `MirrorIsSound` (what is marked is recorded or posted) |
| `bridge_alone`, `bridge_issues` | 1 worker: 2 comments, 2 questions, 2 faults; 2 issues | `MirrorIsSound` (also: a comment imported again keeps its meaning, a task that asked goes on only after an answer to its latest question) |
| `goals`, `plans`, `goal_stores`, `goal_store_alone` | 2 runs, 2 goals, people; 3 calls of the stores by two callers, 5 by one | `GoalsAreSound` (one open goal of a signature, completed only on work done, stores agree, history is complete, links once) |
| `fleet` | a worker that hangs or dies, heartbeats | `TypeOK`; its promises are in `progress` |
| `worker` | 1 worker, 1 task, every error and a crash | `WorkIsSound` (what is under review is on record), `OnlyGatedIsPushed` |
| `direct` | 1 issue, 1 subtask, every decision, error, refusal, interruption, comments and merges | `WorkIsSound`, `OnlyGatedIsPushed` |
| `gates`, `gates_output` | 2 edits, 1 repair of each kind, a cycle cut off | `WorkIsSound` (what is pushed is an edit that passed its gates and its review; rounds are whole and bounded) |
| `intake`, `intake_alone` | 2 workers and an issue, or 1 and 2; 2 changes, a fault | `WorkIsSound` (a review is of one moment, not repeated for nothing, and does not answer itself) |
| `codex`, `codex_args` | 9 symbols, cut anywhere; lists of up to 3 options | `CallsAreSound` (lines whole, nothing left behind, a timeout is reported, one sandbox option) |
| `requests`, `lists` | 5 requests that go wrong; 3 things on pages of 2 | `CallsAreSound` (twice only after a lost answer, patience bounded, lists whole, one flaw of a message does not silence it) |
| `runtime`, `runtime_hooked`, `runtime_once` | 2 failures, 2 signals | `RuntimeIsSound` (no use of closed connections by what is awaited, one of each activity, nothing left, not ready again) |
| `config`, `config_file` | every layer of every setting; without a file and with one of 2 profiles whose names differ in case | `RuntimeIsSound` (`ConfigIsSound`: what the loader lets through can be built and fits together) |
| `alerts`, `alerts_issues`, `alerts_blocked`, `alerts_failed`, `events_kept` | up to 5 events of 2 gates, 2 stages that time out or 2 issues, 3 ticks, 3 faults | `RuntimeIsSound` (alerts are those the windows deserve; those of one rule, issue and stage are a window apart, and what another stage or issue sent silences none; events on record outlive crashes) |

Properties of `progress`: `LapsedLeaseIsCollected` (2 workers, 1 task), `StaleIsDecided` (1
connection and the cleanup, 2 ids), `ApprovedIsDone` (3 updates, 2 faults), `CommentsArrive` (1
worker, 2 comments, 2 faults), `IssueIsTaken` (2 fleet workers, the lease of a dead one),
`AnswerIsActedOn` (direct mode, every fault), and `RestIsReached`, which has five parts: a task
leaves the hands of the internal worker though leases lapse (1 worker), a claim of a worker
that crashes or fails is followed up (2 workers), every turn ends (3 updates, no crash), a
process told to stop does, and every open issue is reviewed as it is (2 issues, 1 change, a
fault).

Runs that show a disagreement (each a finding in `PROJECT.json`, with the line it quotes; those
of the internal worker bound errors and people as `worker` does, so what they find are
behaviours of `FairSpec`):

* `stranded`: a worker that dies after `setStatus(analyzing)` leaves the task in a status
  no claim query accepts; the README says an unfinished task is recovered.
* `answer_lost`: an answer that arrives after the question is stored and before the task
  waits is stored without waking it, and nothing looks at it again.
* `direct_hidden`: the first listed issue that a direct-mode worker owns is the only one
  it looks at in a cycle; if it needs nothing, an answered question of an issue behind it
  is never read, although the README says the worker goes on after the person's command.
* `checkout_shared`: two fleet workers on two issues of one checkout take the repository
  lease each in its own issue's comments and work together.
* `bridge_wedged`: an issue resolved while its task is in a status from which done is not
  allowed makes every later import throw.
* `stale_recovery`: the tasks under review are listed, then the leases, and what was found is
  acted on one by one; a fix that another worker has taken up meanwhile is called stale and
  set back to review under its hands, although its lease has not expired.

Other places where the models show what a reader of the code might not expect. They are
consequences of single steps of the models, so they are told here rather than run.

Workers:

* After heartbeats have failed for a lease time, the handler goes on and a second
  worker claims the repository (`WorkersApart` is stated without lapses).
* A task under review has its merge request on record with one worker (proved). With two it may
  not: one that is set back to review under the hands of a worker that opens its merge
  request anew is under review while that record is dropped (`Recover`, `Open`).
* A review fix that meets a temporary error after its push is to be retried, as the tracker
  is told; the retry finds no new commit to make and fails the task (`Commit`, in both workers).
* In direct mode a decomposition that is cut off creates its issues again (`CreateIssue`,
  the record is written at the end), a stored decision to ask asks again after every
  interruption (`Analyze`), and nothing is done about `/cancel` (`ResolveResumeContext`).
* An unanswered question ends the cycle of a direct-mode worker, so one person who does not
  answer keeps it from all open issues (`ResolveResumeContext`).
* A direct-mode worker that dies between a transition to in_progress of an open issue and
  its AI STATUS comment never finds the issue again (`Owned`).
* A task on manual hold that is resumed is held again, since its stored decision is used
  again (`Analyze`); force-reanalysis adds a decision that no analysis looks for.
* `createChildTasks` runs as `worker_agent`, whom `canOwnerUpdateFieldGroup` does not let
  create a task, so a valid decomposition plan fails (`Plan`).
* A `/cancel` answer makes the task ready like any other answer (`Answer`); a task cancelled
  while it is published is pushed all the same (`Push` reads no status).
* With an open merge request and a clean working copy, a commit whose push failed is
  declared ready for review (`Published`; `finalizeSuccess`, orchestrator.ts:1044).
* `required` of a gate changes words only; a required gate without a command is skipped. A
  coverage command that writes no report lets the one of an earlier edit through. A
  self-review passes by its status, whatever findings it calls blocking. A question asked
  over a dirty working copy is followed by gates and maybe a push, without the answer
  (`QualityGates`).
* An issue whose review of the intake always throws keeps the worker from every other task; without
  leases two workers may both review (`IntakeReview`).
* The fleet never resumes issues that wait or are under review (`Fleet`).
* In internal mode appendFailure is not caught (internalWorkerOrchestrator.ts:1953); in
  direct mode it is.

Tracker and API:

* A replan completes a goal by the links it read; unfinished work that somebody linked while
  Codex ran is not looked at (`ProjectManager`).
* An approval and a rejection of one proposal that overlap both succeed, and the later
  write wins (`Approve`, `Reject`). Two overlapping proposals pass the duplicate check and
  the limits together (`OvershootIsBounded` is what remains), and an approval read before a
  claim puts the claimed task back to ready. A proposal that is made ready by hand is never
  claimable.
* A dependency is never resolved by the program (postgresTaskTracker.ts:1903), and
  addDependency checks no cycle. Claims go by score, so a task may wait for ever
  (queueEligibility.ts:107).
* askClarification, recordAnalysis and recordHumanAnswer are several transactions in
  PostgreSQL. External keys are unique by case and looked up without it. Two creations by a system
  that race answer 500, since 23505 is not translated. recordTaskStep has no unique index.
  A read of updateTaskRevision may be torn. An answer without questionId leaves the question
  open.
* `POST /tasks` and bulk-create read the body before they authenticate; the worker agent's
  token gets 500 for a creation its session says it may make; a bulk creation stops in the
  middle; an answer may be stored and its request refused with 409; a request may fail with 500
  after its effect, when the task is read again.
* In memory a failed proposal that is tried again stands beside a second of its title made
  meanwhile, since the look for duplicates passes over failed ones (`OnlyRetriesMakeTwins`).
* The tracker in memory never removes leases and idempotency keys; its proposeTask yields
  before the task is marked as proposed.
* GoalStores: completeRun and failRun read, then write, without a lock (each run has one
  caller). The store in memory links a goal to a task that does not exist; PostgreSQL
  refuses. `activateGoal` has no caller.

Bridge and Telegram:

* A handler that dies after it has queued a message and before it has marked the update
  handles the update again while the message is still in the queue: the question gets two
  turns, is answered twice, or is answered after a person cancelled it (`TelegramTurns`).
* An ordinary comment after a question counts as an answer, although README.md:225 says it
  does not resume a task. With two workers, one may store a comment while the other, past its
  own import, takes the task and asks: when the comment is imported again after a failure, or
  was listed by both, it stands for the new question as well, and a task goes on without an
  answer to its latest question. `MirrorIsSound` states this of one worker. A permanent error of the mirror after the publication fails a
  published task. An import overwrites what people edited.
* Notices of an event that failed are lost, since the watermark passes it (`TelegramNotices`;
  the runbook, line 305, says so). Messages and turns that wait are stranded after a crash or a
  first turn that failed. An update whose handler always throws blocks the poller.
* The stores of the assistant differ where `TelegramStores` compares modulo: cancelled
  queued messages (deleted in memory, kept until the sweep), an upsert of a draft (replaces
  the row in memory), consumeActiveTaskQuestionPrompt (answers the prompt as it was in
  memory), a second running turn (an index in PostgreSQL only), a twin's turn whose id comes
  again (memory writes over it, PostgreSQL does
  nothing). An action in execution is never swept; a purge makes the daily limit forget.
* Each message holds two connections and needs a third: three handlers on a pool of three
  wait for ever (`WedgedByPool`). Locks of updates, conversations and the lease share the
  32 bits of hashtext.
* Left out of the Telegram modules: an owner to whom no copy can be sent (no task is made
  then), queued messages a no cancels, and the return of a twin's turn without session or
  adapter, which ends like a failed call to Codex.

Process and files:

* A Codex run whose grandchild holds the pipes never returns, timeout or not
  (docs/ENV_CONFIGURATION.md:78 calls it hard); commands of gates have no timeout. A piece
  that ends in the middle of a character breaks it. Nobody listens to errors of the child's
  stdin (utils/shell.ts:109), so a child that closes it before the prompt is written ends the
  process; `CodexRunner` leaves that out.
* The first use of a memory may rename over an entry appended meanwhile. A torn line glues
  the next entry to itself and makes the repository's failures unreadable. saveKnowledge and
  appendReviewLearning have no caller.
* A POST sent again may take effect twice (tracker client, line 570); GitLab's 429 is not
  retried; requests have no timeout; a list may skip what moved to an earlier page. sendMessage
  drops the HTML or the reply target, not both.
* The start-up check never compares checksums and knows no tables of the assistant. A server
  that could not listen makes `observability.stop()` reject and skips the rest of the way
  out. Scans may run with an ended pool.
* A TASK_TRACKER_PROVIDER that is set and blank hides the provider of the file. Most settings are
  the environment's before the file's; `worker.id`, `codex.*` and the tracker's base address are the
  file's first. Low-risk execution switched on in the environment has no effect without a file. That
  a lease outlasts its heartbeat is not checked.
* The key of an alert lacks the gate, and has the stage: timeouts of two stages of one issue
  are two alerts within one window. In internal mode one timeout is two events, both counted
  (`recordCodexRun` and `recordWorkflowEvent`, internalWorkerOrchestrator.ts:1783). A failed send is not tried again in its window; one
  unreadable line drops the whole file of events.

The database's constraints hold what they guard; what the code assumes to be still true
after an await is where it goes wrong.

Bounds. Two workers and two tasks suffice for every pairwise race; a third worker adds
no new kind of conflict because leases and row locks are pairwise. `Ttl` is 1 or 2 ticks,
enough for a lease to be live, renewed and lapsed; with skewed clocks it is 2, for with 1
the slow worker's leases would be lapsed for the fast one as soon as they are taken.
`MaxFix` 0 or 1 has the fix loop entered, repeated and exhausted. Four ids put two calls of
one key beside two other proposals. Two or three updates are a first delivery, its repetition
and what another says in between; one or two faults put a failure before, between and after
any two steps, and the failure of what repairs it. Windows, retentions and pages of 1 or 2 are
reached, passed and left. Every part of a pack was also run alone, and each reaches the
case its seeded faults need.

Fairness. `FairSpec` of the queue: a worker polls for ever, and its transactions do
not all fail. Of the worker: a running process gets on with its cycle (weak), a process
that is down is restarted, it does not crash each time at the same early step (strong on
Poll, ListLeases, ClaimTask, StartAnalysis), time passes, and a stored answer is acted on; nothing
is assumed of people, reviewers or errors. Of the direct worker: it gets on with its
cycle (weak), and is not interrupted each time at the same early step, nor each attempt to
take an issue up refused (strong). Of proposals: the cleanup timer fires, and its
steps are not all cut off by a lost connection. Of Telegram: a handler goes on, which the
poller's loop and Telegram's repetition of unanswered calls provide; jobs in the background go
on while the process lives. Of the bridge, the fleet and the intake: cycles go on, for they
are loops with a sleep; leases of the dead run out. Of the runtime: the main program and the
poller go on. No run assumes that a person acts. In the packs one fair action stands for
an action of each part, and, where two workers appear, strong fairness is asked of the two
together, which is less than the modules ask for.

## 4. Proofs

Every theorem holds for any values of the constants that meet the assumption it names: any number
of workers, tasks, connections, runs, any limits and terms. Each invariant was checked by
TLC on an instance before it was proved.

**Queue** (`TaskQueueProofs`, under `QueueAssumption`, which has any clock skews, ranks and
requested statuses): type correctness, `LeaseExclusive`, `CollectedRowsStayLapsed`,
`LockedRowsAreClaimable`, and the action properties `NoLiveLeaseStolen` and
`StatusFollowsGraph`. The inductive invariant joins the first four: exclusion needs nothing but
the indexes, but that no live lease is stolen needs that the rows a transaction is about to
release stay lapsed, which needs that they are still in the table, locked by this transaction
alone. `QueueImplementsLock` is that the table implements `LeaseLock`, step by step: a grant
takes the task and its repository from nobody; heartbeats renew, releases and the collection of
lapsed rows give up; time expires; every other statement changes no owner. The invariant is
needed for the owner of a key to be one worker.

**Proposals** (`ProposalsProofs`, under `ProposalAssumption`): type correctness,
`ExecutedIsApproved`, `RetriesDoNotCollide` and `OvershootIsBounded`. `CreatedOnce` is what the
advisory lock gives: a key that has made a task is stored, a key being used is used by one call
only. `Overshoot` counts: the proposals of the window and the calls that have passed the check
of the limit and not yet inserted stay together below the limit plus the number of connections,
for a call that passes the check saw room.

**Internal worker** (`InternalWorkerProofs`): `WorkersApart`, `OneTaskDirty` and
`OnlyGatedIsPushed`. The inductive invariant says that a worker holding a claim is covered by
live leases of its own for task and repository, that leases are exclusive, that no other task
is dirty in the checkout from the look at it to the gates, and that between gates and push the
content is the one that passed. It assumes that no lease lapses under a working holder
(`"lapse" \notin Faults`); without heartbeats in time the first two are false, as section 3
says. Type correctness needs no such assumption. `ReviewOnRecord` is
`ReviewIsOnRecord` for one worker (`OneWorker`) with every fault. The record of a task is
dropped when its merge request is opened anew; the invariant says that the task is not under
review then: a claim is on one that is not, and the list of reviews the worker still has to go
through is empty meanwhile. With two workers that list may be another worker's, and the
property fails.

**Tracker in memory** (`MemoryTrackerProofs`, under `MemoryConstants`): type correctness,
`ExecutedIsApproved`, `OvershootIsBounded`, `OnlyRetriesMakeTwins`, and that it implements
`LeaseLock` too, by leases that supersede one another. The invariant: a proposal is recorded
only for a task that exists and waits in triage until then, leases are exclusive, and nothing
is past its claim without an approval. `MemoryConstants` says that tasks and proposals have
different ids, that a term is positive, and that nobody sets the status `claimed` by hand: it
is what claims write.

**Project manager** (`ProjectManagerProofs`, under `ManagerConstants`: runs are no people,
answers are sequences of signatures): type correctness, `OneOpenGoal` and `CompletedOnWork`.
What a run read is stale when it completes a goal. It is sound because links and finished tasks
are only ever added, so a run knows less than there is, and because a run that has completed a
goal reads no more. The goals of an answer are inserted one by one, as many as Codex names,
which needs induction over the answer. The library's induction rules take an operator as
parameter and cannot be used; `SetInduction` states induction for a set of numbers instead and
is proved from the well-foundedness of the numbers.

**Turns of the assistant** (`TelegramTurnsProofs`, under `TurnConstants`: the limits are
numbers): type correctness and `OneTurnAtATime`, for polling and webhook and whatever crashes.
A handler's list of steps is one of those that its kind of update can come to; of handlers
past their first step and jobs that take up a message one at most exists (`Alone`, the
conversation's lock), and while it is about to start a turn none runs (`StartsFree`). Each step
takes nothing, takes the free lock, or starts a turn with it (`LockKept`). Without crashes
also `AnsweredOnce` and `CancelledIsSilent`, from `Placed`: an update is with one handler
while nothing has become of it, then it is queued or one job is at it, and the job knows what
the turn has come to. The attempt to prove them with crashes found the behaviour named in
section 3.

**Notices and answers** (the last section of `TelegramTurnsProofs`, an instance `Notices`, under
`NoticeConstants`: the bounds are numbers): type correctness, `RecordedIsNotRepeated`,
`AnsweredPromptStays` and `AnswerRecordedOnce`, by webhook or polled, for any number of processes
that scan and with all failures and crashes. Two scans may have read the same events and the same
watermark; what keeps them apart is the reservation: a scan between it and its record (`Sending`)
has the event in hand and its delivery says so, no other scan has the same one, and a reservation
becomes stale only when no scan is at it (`ScansStand`). A handler decides by what is recorded
and records later. So at most one is past its decision and not at its end (`Amid`, what the
conversation's lock is for), and an answer that is still to be recorded comes next and is not there
yet (`Unrecorded`); an answer given through the API meanwhile is another one. Prompts stand once
each and apart from the closed ones (`PromptsStand`), since one is put last only after it was
taken out. `RemoveFirst` takes it out in the model for the sake of this proof: of distinct
prompts it is the one, and `Remove` is a recursive operator.

**Requests to the assistant** (`TelegramActionsProofs`, under `ActionConstants`, polled):
`TaskIsApproved` and `DecidedStays`, for any people who say anything in any order, any failures
and crashes. `TaskIsApproved` is not inductive: a step is planned in one state and taken in another.
`Sound` says what each step of a list relies on (that the action it carries out is confirmed, and
by one in whose hands it is; that what it proposes is the request of the update at hand),
`Ordered` what the steps before it see to, and `Good` plans are those whose steps have both.
`Proposed` and `Copied` say whose an action is, that it is decided in later updates than its own,
and that the owner's copy is of one that its person confirmed. `Steady` is what no step takes
back, and keeps plans sound: a yes, the person, the buttons, and the risk of a request whose
time is over. By webhook `TaskIsApproved` does not hold, for an update may be handled again after
its action was confirmed; there `DecidedStays` is model-checked.

`ServicesProofs` has the parts around the internal worker, each as an instance whose constants
and variables are its own:

**Bridge** (`Bridge`, under `BridgeConstants`: the bounds are numbers): `NothingLeftOut`, that
what is marked as imported is with its task and what is marked as exported was posted. Between a look and its record any other worker may have done the same;
the invariant says what a cycle may rely on all the same (`Fit`): the comments it goes through
exist, the one it marks is stored, the question it records is posted. It stays true because
nothing of it is ever taken back (`Grown`). `ImportedAlone`, under `AloneConstants` (one worker;
issues are numbers), is `OneMeaning` and `AnsweredFirst`: a comment imported again after a
failure keeps the meaning it had, and a task that asked goes on only after an answer to its
latest question. A comment stored and not yet marked (`Half`) would change its meaning if the
task asked in between. It does not, since a failed import ends the cycle and the next cycle imports
before it works: what is half imported is still ahead of the worker (`Upcoming`), and nothing
is when it asks (`AloneInv`). The attempt found that `Take` of the model ended a
cycle once per issue; it is written as the code has it now.

**Migrations** (`Schema`, under `SchemaConstants`: a release is a sequence of files):
`SchemaIsSound`, for any number of runners of any releases. The table of versions is read once
and may have grown since; a runner's own reading is a part of it (`Passed`), which is enough
to pass a file over, and the primary key refuses what was applied meanwhile. That a version
takes effect once is that no two effects are of one version, which are those of the rows
(`OnRecord`).

**Direct mode** (`Direct`, under `DirectConstants`: the order is by numbers, nobody sets `review`
by hand): type correctness, `ReviewIsOnRecord` and `OnlyGatedIsPushed`. `OnItsWay` says which stages
belong to a first implementation and which to a review fix; `HasPassed` that from the gates to
the push the content is what passed; `IsSaid` that whoever is at a review, or about to set one, has
the merge request on record; `IsInWork` that a merge request is opened anew, which drops the
record, only for an issue that is not in review.

**From a change to a push** (`Quality`, under `QualityConstants`: the bounds are numbers):
`PushedIsSound`, for any edits Codex may make and any review. `QualityInv` says what each stage
of the work relies on: that the round at hand is of the gates in their order, with nothing run
after a failure; that a round which passed is of the content as it is in the working copy until
that is committed and pushed, but for a coverage that was read from an earlier edit's report
(`CoverageStands`); and that Codex runs are paid for by repairs (`Spent`).
The attempt found two overlapping guards of a CASE in the model (`Status`, `Validate`),
of which TLC takes the first and the language either; they exclude each other now, and so
does the one of `ReadIssue` in `IntakeReview`.

**Review of the intake** (`Intake`, under `IntakeConstants`: workers are finitely many, the bounds are
numbers): `IntakeIsSound`, with and without leases. `Reading` says that what a worker
is about to post is what an issue was at one moment: the comments in its prompt are no newer
than those there are, so if they agree when read again, nobody can have commented in between,
and the fields, read before them both times, belong to that moment. How often a review may be
repeated is a sum that no step overdraws (`Covered`): repetitions made, workers that go on
without their lease (`Orphans`), and an owner about to repeat one (`Twice`) are paid for by leases that
ran out; reviews written and still due (`Due`) by changes, and by two for each such lease.
An owner is alone with an issue (`OneOwner`), so its post uses up what it was due.

**Life of a process** (`Runtime`, under `RuntimeConstants`: polled or by webhook, strict or not, once
or for ever; the bounds are numbers): type correctness and `RuntimeIsSound`, whichever calls fail and
whenever signals come. `PhasesHold` says what there is at each await of `runApplicationRuntime`:
no worker but in its own phase, no poller, interval or webhook behind the one that stops them, and
closed connections only where no poller is left; `FlagsHold` that the flag of a scan or a cleanup
says whether one is under way. The latter holds as long as the process lives, since a signal that
nobody listens to ends it in the middle of a scan. That it ends is `RestIsReached`, with TLC.

**Start** (no prefix, under `Sane`: a repository's key is its own key, and what is checked is a
settings file at all): `ConfigIsSound`, for any names, files and number of profiles. The
sections of the settings are parsed one after the other and some look back, none ahead, so
the invariant says what each parser leaves for those behind it: a profile with a manager means the internal
tracker once the manager is parsed (`ManagerParsed`), the requirements of Yandex are met unless
the tracker is internal (`SecretsParsed`), an assistant has its token and a webhook its
secret (`AssistantParsed`). `NeverBroken` follows: what `buildApplication` asserts it needs not assert.

Only model-checked, and why:

* Liveness: fairness and ENABLED are outside the prover's reach.
* `MemoryRecords` by `TaskRecords` and the comparisons of stores (`TelegramStores`,
  `GoalStores`): they hold for some calls and modulo named differences, so a theorem would
  say little more than the list of cases TLC visits.
* The invariants of the other Telegram modules (`TelegramTwin`, `TelegramStores`, `StoreLocks`), `Fleet`, `MemoryFiles`, `CodexRunner`, `ApiClients`, `Telemetry`, `TaskRecords`,
  `HumanApi`: not proved.

## 5. Plan

Done: the modules of section 2, with the proofs of section 4. Left:

1. Proofs: `DecidedStays` by webhook, the leases of `Fleet`, the files of `MemoryFiles`.
2. Dependency checks of direct mode (`domain/dependencies.ts`) beside `DirectWorker`, and
   several direct-mode workers over the leases of `Fleet`.
3. The limits and policies of the project manager's analyses (`analysisPolicy.ts`).

Not modelled, and why:

* Prompts, their profiles and the parsing of what Codex says: text.
* Of the settings (`config.ts`): commands, limits, paths and texts on which no part of the
  process depends; what they yield are the constants of the modules. `Configuration` has the rest.
* How a message becomes an intent, which project it is about, how risky it is
  (`intentRouter.ts`, `entityResolver.ts`, `riskClassifier.ts`): classification of text, whose
  outcome is chosen freely in `TelegramActions`; profile automation and status answers
  likewise.
* Rendering of HTTP pages, metrics, notices; encryption of the audit.
* Research (`competitorResearch.ts`, Ozon, Wildberries): browsing and scraping for one
  answer, with no state shared with the rest; its turn is one of `TelegramTurns`.
* Artifact retention: deletes what no other component reads.
