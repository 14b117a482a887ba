# Verification of the Gin-Vben-Admin server

TLA+ modules of the parts of the Go server (`src/server`) and of its initializer
scripts where several goroutines, processes and stores have to agree, the TLC
runs that check them on small instances, and theorems about them that TLAPS
checks for every instance. `PROJECT.json` maps every definition to the lines it
models, lists the runs with their properties, a mutation of the code for each
property that the run detects, the disagreements found, and the hazards the
properties are for. Paths below are relative to `src/server/internal/` unless
they start with `docs/`, `scripts/` or `src/` (`scripts/` is `src/admin/scripts/`).

    tlc -config background.cfg MCBackground       # any run: its cfg and its MC module
    tlapm RedisQueueProofs.tla                    # any of the eight *Proofs.tla

## 1. Inventory

The server is one Go process, run as one or several instances over a shared
database (MySQL or PostgreSQL) and Redis. `bootstrap/app.go` (Run, 624-680)
starts in each process: the HTTP server, one task worker that polls the queue
every second, one scheduler that ticks every second, the reconciliation of the
settings every 30 s (706-728, only with Redis) and the file maintenance every
minute (690-704). Nothing else runs in the background but the exporter of spans;
all the rest happens inside HTTP requests. The initializer (`scripts/init.mjs`)
and its supervisor are Node processes beside the server, which share files with
it.

| component | state | what is hard | what makes it correct | status |
|---|---|---|---|---|
| Job queue and worker (`platform/jobs`, `application/jobs`) | Redis: task records, key index, two lists, leases, locks; memory: claims | every command separate, crashes between any two, leases that expire, plain SETs | no two workers on a task, none lost, attempts counted once, one task per key, every task finished | modelled: `RedisQueue`, `JobContract` |
| Task runs (`application/tasks/runs.go`, `execute.go`) | run rows, each linked to a queue task | two stores without a transaction, whole rows written back from stale reads | the policy holds, finished runs stay finished, no run is left behind | modelled: `TaskRuns` |
| Task scheduler (`application/tasks/scheduler.go`, `domain/task/cron.go`) | seen slots, a Redis lease | several servers, one lease, a tick that fails midway | a due definition is started once, a deleted one never | partly: `Scheduler`, `Cron` |
| Login sessions (`application/auth`, `platform/authplatform`) | session in Redis, journal row | rotation across two stores, locks of different names, 3 s TTL | a refresh token buys one pair, an ended session none, nobody is locked out | partly: `Sessions` |
| Lockout, captcha, recovery (`application/auth`) | counters, locks, challenges in Redis; reset tokens in memory | check and count are separate commands | guesses are bounded, a challenge or token is spent once | modelled: `Logins` |
| Settings (`application/settings`) | version rows, a snapshot per process | revision checked before and in the transaction, published after the commit, three scopes | one save per revision, valid combinations, scopes apart, snapshots converge | partly: `Settings`, `SettingScopes` |
| Files (`application/file`, `platform/fileplatform`) | rows, staging and final objects | uploads, PATCH and deletion against three maintenance passes, a crash at each step | ready implies an object, deletion is final, every row settles | partly: `Files` |
| Permissions (`application/iam`) | accounts, roles, policies; a cache of denials with generations | decisions in flight during a change | decisions are those of the tables, administrators stay in their slice | partly: `Access` |
| Menus and routes | the menu tree | moves that race, orphans | a forest, routes are built whatever the table holds | modelled: `Menus` |
| Verification codes (`application/notification`) | registry, challenges, idempotency records (memory) | slow sends, concurrent retries | one valid code, attempts counted once, retries agree | partly: `Verification` |
| Mail (`application/mail`) | messages, accounts; routes (memory) | a provider that answers late or not at all | sent once under its key, records true | partly: `Mail` |
| Imports and exports (`application/imports`) | jobs in memory and database, queue tasks | memory of one process, queue of all | a cancelled job stays so, every job ends | partly: `Imports` |
| Backup (`application/backup`) | two files per backup | crash between renames | a restore is of the backup it reports | modelled: `Backups` |
| Dictionaries | types, items, cache versions | scopes, soft deletion | a scope touches its own rows only | modelled: `Dictionary` |
| Installer (`application/installer`, `platform/installplatform`) | database, `.env`, marker, journal | crash between an effect and its journal entry | all or nothing, restartable | partly: `Installer` |
| Installer leases | `apply.lock`, `admin-init.lock`, tombstone | processes that die, Go and Node | one installs at a time | modelled: `ProcessLease` |
| UI preparation (`installer/ui_prepare.go`, `scripts/init*.mjs`) | profile, receipt, report, journal, dependencies | a switch of files that is interrupted | what is installed is what was chosen; a failure reaches the browser | partly: `UIPreparation`, `UIFailures` |
| Migrations (`platform/migrations`) | the schema | DDL is not transactional on MySQL | reported done is done, failed can be repeated | partly: `Migrations` |
| Start and end of the process (`bootstrap/app.go`) | resources, loops, the listener | order of shutdown | nothing closed is used, requests are served | partly: `Lifecycle` |
| Request spans (`observability`) | a bounded queue and its worker | Reload and Close beside requests | spans are conserved, calls return | modelled: `Observability` |
| Media folders (`application/file/service.go`, `catalog.go`) | a tree of rows, or a map; answers under keys | checks and write apart, a walk over rows that others move | a forest per scope, files in folders that are there, one folder per key | modelled: `Categories` |
| Settings in memory (`settingsplatform/gorm_repository.go` without a database) | rows and a revision per scope in maps | inherited rows, two version sequences | a save overwrites nothing its form has not seen | modelled: `SettingsMemory` |
| SMTP delivery (`platform/notification/smtp.go`) | round robin, cooldowns, one session per attempt | failures after the server took the message, cancellation | told delivered is delivered, no login in the clear | modelled: `Smtp` |
| Monitor and dashboard (`application/monitor`, `application/dashboard`) | goroutines and channels of one request | nested deadlines, probes that never return | shown is measured, nobody waits for ever | partly: `Monitor` |
| Access codes (`domain/iam/model.go`, `application/iam`) | policies, permissions, roles | patterns, aliases, three reads beside changes | listed is what the evaluator grants | modelled: `AccessCodes` |
| User list (`application/iam`, `iamplatform/gorm_store.go`) | the page asked for | count and slice apart, writes between pages, overflow of the offset | a walk repeats and misses nobody that it need not | modelled: `UserPages` |
| Configuration sources (`platform/config`, `application/settings/observability_config.go`) | environment, `.env`, file, defaults, rows | saves that a later start reads | a server that is up has a valid configuration, the deployment has the last word | modelled: `Configuration` |
| Audit log, tenants and organizations, HTTP transport, Vue clients | | append-only rows, query filters, wiring | | not modelled, reasons in `PROJECT.json` |

Interactions. The scheduler and the API call `RunService.EnqueueWithSource`,
which writes a run and enqueues a task; a worker of any process claims the task,
and the executor binding (`execute.go`) reads and writes the run. Imports use
the same queue. `auth` writes Redis, then the journal, then the audit log.
Settings write the database, then the process's snapshot; other processes learn
of it by reconciliation only: no subscriber of the invalidation message is ever
registered. The administration of accounts raises the generation of the
permission cache after each commit. Verification sends its codes through mail.
The installer and the UI preparation exclude each other by the installer's lease
and journal, and server and Node initializer by the two lease files. The
settings of tracing that a server saves are part of the configuration the next
server starts with. The monitor reads the database, Redis and the tasks, and the
dashboard reads the monitor; nothing reads back from them.

## 2. Modules

A module models one component; its head says what of it. Each step is one call
to a store (a database statement or transaction, a Redis command, an operation
on a file) or what happens between two of them under one mutex; what goes on in
one transaction is one step. A call that fails has two outcomes where the store
may have applied it. History variables are named as such in the modules.

### JobContract and RedisQueue
`JobContract` is the promise of `application/jobs/queue.go`, one operation per
step: submit, withdraw, accept, move between open states, complete, fail with a
count. It is the behaviour of `MemoryQueue`, which holds one mutex per operation
and serves when no Redis is configured. `RedisQueue` is shown to implement it,
and `TaskRuns` uses it as its queue.

| TLA+ | code |
|---|---|
| `task`, `keyRef` | `jobs:task:<id>` and `jobs:idempotency:<key>` |
| `pending`, `processing` | the two lists, as bags (position is abstracted; the rotation may take any listed task) |
| `lease`, `claimLock`, `enqueueLock` | `jobs:lease:<id>` and the two families of locks |
| `claims` | `RedisQueue.claims` of each process |
| `pc`, `cur`, `own`, `snap`, `outcome` | the worker goroutine: program point, task, owner token, copy read, how the handler ended |
| `epc`, `ecur`; `cpc`, `ccur`, `cown`, `csnap` | the goroutines that serve Enqueue and Cancel |
| `EnqueueLock` ... `EnqueueUnlock`, `EnqueueFault` | Enqueue, 50-98 |
| `MovePending` ... `DeleteLease`, `ClaimFault` | ClaimPending, 103-180 |
| `ExecuteTask`, `StartRead` ... `PushRetry`, `ExecuteFault` | Worker.Execute with Start, Complete, Fail, Cancel by the owner |
| `CancelRead` ... `CancelFault` | Cancel from a process that may or may not hold the claim |
| `ExpireLease`, `ExpireClaimLock`, `ExpireEnqueueLock` | TTLs of 30 s, 5 s and 5 s |
| `Crash` | the process dies and restarts: locals and claims are gone |

### TaskRuns

| TLA+ | code |
|---|---|
| `run` | `gvba_task_runs`: status, queue task, key, attempts |
| `qtask`, `qkey` | the queue, by `JobContract` |
| `pc`, `loc`; `wpc`, `wloc` | a call of Enqueue, Cancel or Retry with the row it read; a worker with the claimed task and the row |
| `EnqueueCall`, `ListActive`, `ReplaceNext`, `CreateRun`, `PushTask`, `PushFails`, `Relink`, `MarkUnqueued` | EnqueueWithSource, runs.go 253-357; `Admitting` is `admissionMu` |
| `CancelCall` ... `CancelWrite`, `RetryCall` ... `RetryPush` | Cancel (and the cancellations under "replace"), Retry |
| `Claim` ... `SettleTask` | execute.go and MarkRunning, AppendResult, MarkSucceeded, MarkFailed, then the worker's Complete or Fail |
| `CrashWorker`, `CrashClient`, `LateStop` | a process that dies; a shutdown that arrives after the handler has returned |

### Sessions and Logins

| TLA+ | code |
|---|---|
| `cache`, `journal`; `rotLock`, `revLock` | `auth-session:<id>` and the row of `gvba_auth_sessions`; the two locks in Redis (3 s) |
| `LoginCall`, `CacheCreate`, `JournalCreate` | Login |
| `RefreshCall` ... `RotateUnlock`, `JournalRotate` | Refresh and the two Rotate |
| `LogoutCall`, `RevokeCall` ... `RevokeUnlock`, `JournalRevoke`, `Audit` | Logout, RevokeSession, and the revocation after a failed rotation |

A token of `Sessions` is its JTI, a number never handed out twice. `pairs`
records what was returned, `asked` which sessions somebody asked to end.
`Logins` is one request through `CheckRateLimit`, `CaptchaRequired`,
`VerifyCaptcha`, `IsLocked`, `Compare` and the steps of RecordFailure
(`Increment`, `MarkLocked`) or `ResetFailures`; `IssueCaptcha`, `Register`,
`RequestReset`, `Consume`, `UpdatePassword`; `Expire...` are the windows that
end, `Restart` loses the reset tokens, which live in the process.

### Settings and SettingScopes
`Settings` is the race of several requests for one module, step by step; the
revision is the highest version (`table`), `snap` the snapshot and `moduleMu` the
mutex of each server. `SaveCall` ... `SaveCommit`, `Publish` are SaveModule and
ResetModule (`Begin` is the compare inside the transaction, the commit a step of
its own), `UpdateCall` ... `PublishKey` Update and Rollback of one key,
`ReconcileRead` and `ReconcileSwap` the reconciliation. `SettingScopes` is what a
request does over the scopes system, tenant and organization: `UpdateKey`,
`SaveModule`, `ResetModule`, `ClearCredentials`, with deployment sources, apply
modes, tombstones (`Erased`) and module states, each as one step but for its
publication; `Reconcile` and `Restart` rebuild the partitions.

### Files
`row` is `gvba_storage_file_objects`, `staged` and `object` the store, `used` the
usages. `Upload` runs through staging, `Promote`, `PublishKey` and `persistReady`,
each a step with its failures; `Patch` and `Delete` read a row and write it back;
`ReconcilePending`, `ProcessDeleting` and `CleanupPending` are the passes of the
maintenance, candidate by candidate, `Age` is the time after which they may touch
a row, `Crash` ends what a server does. The guards of the writes are those of
`GORMRepository.Update` and `MarkStatus` (`UpdateAccepts`,
`repositoryStatusTransition`).

### Access and Menus
An administrator's request is read, checked (`...Checks`) and written in the
steps of the service: `CreateUser`, `UpdateUser` (a read, then a write of the whole
profile), `SoftDeleteUser` and `UpdateUserStatuses` (a read that the organization is
compared with, then an update by tenant and id alone, `gorm_store.go:257-276,
400-440`), `SaveRole`, `AssignRoleUsers`,
`AssignRolePermissions`, `AssignRoleDataScopes`, `SavePermission`, `SavePolicy`,
`SaveDataScope`, then `Invalidate`, which may fail. A request to be decided is
`Authorize` with `CacheGet`, its reads one by one, `EvaluatePolicies`, `CacheSet`.
`Menus` has Create, Update, Delete and Reorder with their checks, and
`BuildMenuRoutes` over whatever is stored.

### Verification and Mail
Issue is `Reserve` (under the mutex), `Send` (under `sendIdemMu` when keyed),
`Finish`; `Joined` a repeated call; Verify looks and judges in two steps
(`VerifyLooks`, `Verify`). `putCaller`, `putTemplate`, `putPolicy` and the deletions
change the registry between them. Send of `Mail` is `lookupIdempotent`,
`ListAccounts`, `CreateMessage`, then per account `MarkSending`, `Provider` (which
delivers, refuses, or times out after either), `AppendAttempt`, `StoreSent` or
`StoreFailed`; the administration reads an account and writes it back.

### Installer and ProcessLease
`Installer` has the stores one operation at a time (`.env` with its prepared
file and backup, marker, journal, schema, identity rows) and the apply
jobs over them: `Start`, `Preflight`, `Acquire`, `LoadJournal`, then the journalled
effects (`CreateTransaction` ... `CreateMarker`, `RemoveJournal`), the compensation
(`BeginRollback`, `Undo...`, `PersistFailure`) and the recovery of what an earlier
attempt left. `ProcessLease` is `apply.lock` under its flock (`TakeGuard`,
`PublishApply`, `ReclaimApply`, `ReleaseApply`) and `admin-init.lock` with its
tombstone (`Claim`, `Confirm`, `Remove`, `Restore`, ...), by servers and by the Node
initializer (`Node...`).

### Imports, Backups, Scheduler, Cron, Dictionary
`Imports`: `Commit`, `CreateRow`, `Enqueue` of a request, `Claim`, `MarkRunning` ...
`Complete` of the worker, `Cancel` and `Retry` of an operator, and the copies to the
database that each of them writes after its unlock (`Persist...`). `Backups`:
`Dump`, `Seal`, `PublishEnvelope`, `WriteMetadata`, `PublishMetadata`; `ReadMetadata`,
`Decrypt`, `Replay`. `Scheduler`: `Tock` is a second, `TickScopes` the tick's walk over
the scopes with `Acquire`, `List`, `Enqueue`, `Release`, `TickFails`; `Cron`:
expressions, `MatchesCron` and the search `NextExecutions`, over a calendar given as
a constant. `Dictionary`: types and items of two scopes, and BumpVersion as a read
and a write.

### UIPreparation, UIFailures, Migrations, Lifecycle, Observability
`UIPreparation`: jobs of the server (`StartPrepare`, `Launch`, `CompletePreparation`,
`Close`), the initializer's run (`Acquire`, `Preflight`, `Select`, `WriteReport`,
`DropReceipt`, `WriteProfile`, `Commit`, `Undo`, `Install`, `Reset`), a pull that
changes the lockfile, the installation (`Apply...`). `UIFailures`: a failure's way
from the initializer's lines (`StageLine`, `DiagnosticLine`) to the job
(`UpdateFailure`). `Migrations`: four upgrades and their reversals statement by
statement, and what a failing one leaves on each database. `Lifecycle`: `New`,
`Prepare`, `StartLoops`, `Listen`, `Shutdown`, `CloseNext`. `Observability`: `Count`,
`Send`, `Take`, `Exported`, `CompletePending`, `Flush`, `Reload`, `Close` under the
manager's RWMutex.

### Categories, SettingsMemory, Smtp
`Categories`: a request to the folders is `Ask`, then what its handler does, one
statement at a time: `TargetScope`, `LockKey` and `IdemKey` of the catalog,
`CheckParent`, `ReadPath`, `ReadRow`, `CheckTarget`, `WalkUp` (one ancestor per
step), `ListChildren`, `ListFiles`, then `InsertRow`, `WriteRow` or `RemoveRow`.
`ServeInMemory` does all of it under the mutex of a service without a database.
`Fail` refuses the request, but in the walk, which a failing read ends as if it had
reached the root (918-921). `Upload` looks the folder up, `StoreFile` files it.
`SettingsMemory`: `CurrentModule` opens a form, `SaveModule`, `ResetModule` and
`ClearSensitiveKeys` send one back, `Append` writes one key; each holds the mutex.
`Smtp`: `Send` picks the order of the pool, `TryNext` the next account, `Advance` a
stage of the session with its server, `StageFails` the end of the attempt,
`WaitRetry` the pause, `Cancel` the end of the caller's context.

### Monitor, AccessCodes, UserPages, Configuration
`Monitor`: `Ask` launches the collectors, each a waiter with a deadline (`Deliver`)
and a goroutine that measures (`Begin`, `Ping`, `Measure`, `Send`); `Take` is the
request that takes the answers in turn, `AskOverview` the dashboard's call of the
page. `AccessCodes`: `ResolveSubject`, `ReadPermissions`, `Evaluate`, `Return` of one
call beside `Edit`, with the evaluator (`EvaluatePolicies`, `pathMatches`, the aliases
and legacy codes) as operators over paths of a few segments. `UserPages`: `Count`,
`Select` and `NextPage` of a walk beside `CreateUser` and `DeleteUser`; `Wrap` is the
arithmetic of the build's int. `Configuration`: a start is `ReadInConfig`,
`LstatDotEnv`, `OpenDotEnv`, `Load`, then the settings of the database row by row
(`preparePersistedObservability`, `applyObservabilitySetting`,
`ResolveObservabilityConfig`); `Edit` is an operator, `SaveModule` and `Update` an
administrator here or on another server.

### MC modules
They hold the constants, initial states and compositions of the runs. Components
that share no state are checked in one run: a variable `part`, chosen in the
initial state, says which of them moves, the others are at rest
(`MCBackground`, `MCCalls`, `MCShared`, `MCOperators`, `MCAccounts`,
`MCInstalling`, `MCServer`). So the states of such a run are the sum of those of
its parts, never a product. Parts that are never active together share constants
and, where the types agree, variables (a clock, the bound of edits). What the proofs
quantify over is a constant of the union (`BackupJobs`, `ImportKey`, `ImportServers`,
`HttpRequests`, ...), so that its theorems are of any number of them.
The refuting runs use the same modules with a smaller instance of every other part
(`in_interrupted` uses `Installer` itself).

## 3. Runs

Passing runs (distinct states in parentheses):

| run | parts and instances | what it shows |
|---|---|---|
| `background` (316 k, 140 s) | queue: 2 processes, 2 tasks under 1 key, 2 attempts, 1 crash or failed command outside the windows below; runs: 2 triggers, 2 workers, forbid, 1 crash or shutdown; mail: 3 calls of Send and 2 editors on 2 servers | `MutualExclusion`, `TasksHold` (none lost, attempts counted once, one task per key), `AttemptsNeverLost`, `ImplementsContract` (every step of the queue is one of `JobContract`'s or none), `OneHandler`, `MailHolds`, `DeletedForGood`, `EverythingEnds` |
| `calls` (958 k, 110 s) | sessions: 3 calls on 1 session, 3 tokens, 1 crash, failed command or expired lock; admission: 3 triggers, 1 worker, each policy; retry: 3 calls of Enqueue, Cancel and Retry, 1 worker, 1 fault | `SingleUse`, `NoPairAfterEnd`, `NeverLockedOut`, `RunsHold` (the policies, no orphan), `FinishedStays`, `SettledForGood` (a run that settled while nobody worked on it is never revived) |
| `shared` (1.75 M, 185 s) | login, reset; settings of two scopes; dictionary; queue with Cancel and stalls; scheduler: 2 servers, 3 scopes, 1 failing tick or restart; edits: 2 scopes, 2 administrators; cron; folders: moves (2 clients, 3 folders), replays (keys, 2 tenants, 1 lost answer, 1 restart), map (no database); settings in memory | `LoginsHold` (guesses bounded, challenges and tokens spent once), `ScopesHold` (scopes apart, no unseen overwrite, folders a forest), `SchedulesHold` (the due is started when any server ticks its scope; what is listed matches), `FinalOnceQuiet` (only a writer that had read a task before it finished can bring it back), `RowsKept` |
| `operators` (1.32 M, 125 s) | choose: 2 interfaces, 2 faults; serve: 1 crash, 1 pull, requests; report; migrate: 2 databases, 2 faults; configure: 2 edits, 2 saves, a replica; mail: 2 senders, 3 accounts, 2 attempts; monitor and dashboard: 4 and 2 collectors; codes: 4 codes, 6 policies, 3 edits; users: 4 users, 2 writes | `OperatorsHold` (interface, migrations, configuration), `ServicesHold` (mail, monitor, codes, users), `ChoiceFixed` (no change under an installation's journal) |
| `accounts` (240 k, 100 s) | access: 2 administrators, 2 clients; menus: 2 editors, 3 menus, three trees; verification: 3 calls of Issue, 2 of Verify, 1 editor | `DecidedOnRecord`, `OwnSliceOnly`, `RoutesServed`, `CodesHold` (the newest code alone can be valid, retries agree), `SpentForGood`, `EveryIssueAnswers` |
| `installing` (693 k, 170 s) | two servers; one with conflicts, edits of `.env` and two databases; one alone, as it is wired, with an operator who keeps asking; the leases: 2 servers, 2 initializers, 2 deaths | `EffectsHold` (every effect is in the journal, the user's `.env` is kept), `InstalledIsComplete`, `OneInstaller`, `InstalledOrInterrupted` |
| `server` (647 k, 245 s) | settings: 1 server, 2 requests, 2 keys, `max_size <= quota`; files: 1 upload, editor, deleter and maintenance, or 2 uploads under a key; imports: 2 imports, 1 export, Cancel, Retry on one server, or one of them with Cancel beside the worker of a second; backups: 3 and a restore; spans: 2 requests, Flush, Reload, Close; the process in 6 configurations | `SettingsHold` (one winner per revision, valid combinations), `FilesHold`, `ServerHolds`, `KeptForGood` (deletions and cancellations), `Settles` |

Each module's `TypeOK` is checked in one of them.

Runs that TLC refutes, each against a sentence of the repository:

| run | sentence | what happens |
|---|---|---|
| `rq_retry_window` | `platform/cache/redis/client.go:324`: a crash cannot silently lose a task | Fail removes the task from processing, then pushes it to pending; a crash in between leaves it in no list |
| `tr_retry_key` | `application/tasks/scheduler.go:74`: the generated key makes repeated ticks safe | after a Retry the old key is free among the runs but not in the queue: the repeated trigger leaves a run that is pending for ever |
| `st_two_servers` | `application/settings/module.go:165-167`: compare while holding the transaction lock | the compare locks nothing; two servers save one revision |
| `in_interrupted` | `application/installer/apply_test.go:196`: an interrupted job is recovered, then retried | the server's plan reads the journal (`bootstrap/app.go:359`, `profile.go:257`, `plan.go:86`) and refuses every Apply before the recovery; the test's plan does not |
| `mn_cycle` | `application/iam/service.go:2751`: updating a node cannot introduce a cycle | the walk upwards ends before it compares the root: a root is moved below its own child |

`PlanReadsJournal` says whether the plan refuses while there is a journal. The server
is wired so (TRUE), and then no step of the recovery of a journal ever runs:
`in_interrupted` shows it. The instance of one server alone has it TRUE, and
`InstalledOrInterrupted` says what is left of the test's promise: an operator who keeps
asking gets the installation, but where a crash left a journal, or one creation of
the journal reported an error although the record was stored, which blocks every
later attempt too. The other two instances of `Installer` have it FALSE, the plan of
the tests, so that the safety of the recovery is checked; FALSE only adds behaviours
to those of the wired program, so their invariants and the theorems hold for both.

### Bounds
- Two actors of each kind, with one task, key, run or session between them, are
  what the races need: every hazard is between two writers of one record, or a
  writer and its own crash. Admission has three triggers, since under "allow"
  with `Concurrency = 2` the third is the one to refuse; sessions have three
  calls, since two rotations and a revocation meet; Issue has three, since two
  codes supersede each other while a third call joins; three calls of Send are two
  retries under one key.
- `MaxFailures`, `MaxFaults`: one crash, failed command or stall per behaviour, at
  every program point not named below; two where a failing undo is the question
  (UI, migrations, backups). The recovery runs without a further one, and is what
  liveness is about. Leases have `MaxDeaths = 2`: the second process dies while
  it reclaims the lease of the first.
- `MaxAttempts = 2` has a retry and a dead letter; 1 where retries are not the
  question.
- The scheduler has three scopes, so that one is first, one last and one between
  them; two servers, since a scope is left out by all of them when one has the lease
  for what comes before it and another for what comes behind it. Imports have two
  servers, one that knows the job and one that does not.
- Time is a small count where windows matter: `TTL`, `ResendAfter`, `Hour` of
  Verification, `MaxTime` of the scheduler, the monitor and the pool of mail
  accounts, whole windows elsewhere. The calendar
  of `Cron` has two months, leap days every other year and three weekdays, enough
  for each rule of day, weekday and year to match and to miss.
- `Tx = 3`, `JobsKept = 1`: an attempt, its repetition and one more; the next job
  always drops a finished one.
- Initial states that a part enumerates (accounts, menu trees, edits) are sets of
  few members in its MC module, each with the conflict that it is for in a
  comment.
- Symmetry only in runs of invariants and action properties, over names that no
  constant of the run tells apart.
- Deadlock is not checked: every run bounds the number of calls or of requests, and
  stops when they are used up. What has to go on is stated as a liveness property.

### Fairness
- `RedisQueue`: weak fairness of each worker's loop, of an Enqueue in progress,
  and of the expiry of every lease and lock. Worker.Run polls until the process
  ends, a restarted process polls again, and the TTLs are Redis's. New calls,
  Cancel, crashes and faults have none. The rotation takes *some* listed task,
  where the code's list is first in, first out; with one key at most one task is
  accepted, so that the run assumes no fairness among tasks.
- `TaskRuns`: weak fairness of calls in progress and of workers.
- `Settings`: weak fairness of requests in progress and of each server's
  reconciliation (`bootstrap/app.go:706-728`). Without Redis there is none; the
  documents support several instances only with it
  (`docs/development/scheduled-tasks.md:107`).
- `Verification`, `Mail`: weak fairness of each call's steps, strong of Send where
  it waits for a mutex that others keep taking (Go's mutex hands over to a waiter
  that has starved for a millisecond). A provider answers or times out.
- `Files`: of the maintenance and of time only; a request may stop anywhere.
- `Imports`: of requests, operators and workers. `Observability`: of goroutines, and
  of the exporter's answer (an Export over HTTP has a timeout; see below for gRPC).
  `Lifecycle`: of the main goroutine and of the timer of the shutdown.
- `Installer`: of each server's job steps, reconciliation and the operator who asks
  again; the Node initializer ends, and starts again after it left its journal
  envelope behind (strong, since the installation can take the lease meanwhile).
- The other modules state safety only.

### Windows the runs leave out
What the passing runs show holds outside these points, the known windows of the
code. Each is a defect or an accepted risk, and unless said otherwise the model has
the step: either a constant of the run leaves it out, and TLC finds the property
violated with it, or the property excepts by name (a history variable) what went
through it, and still speaks of everything else.

Queue (`LosingPoints`, `SafeFaults` of `MCBackground`; `Exact`, `Faithful`, `Careful`
of the proofs):
- a crash in Fail between the two list operations (`rel2`, `push`): the task is
  lost, `rq_retry_window`; the same for a failed command there;
- a crash in Enqueue between the key and the first push or the withdrawal
  (`append`, `withdraw`): a repeated Enqueue finds the key and answers with a task
  that is in no list;
- a failed lookup by key counts as "not found" (`lookup`): a second task;
- a push whose EXPIRE fails (`expire`) withdraws the record of a task that is listed;
- a failed SET of a lease that Redis applied (`lease`): the claim is given up with
  an unconditional delete, which may hit the lease of the next claimer;
- a process that outlives its lease or its lock (`MayStall`) can run a handler
  beside its successor, the ordinary limit of leases without fencing;
- a Cancel that answers beside a claim: the claimer then stores its older copy as
  running (`application/jobs/queue_test.go:103` asserts the contrary of a queue in one
  process). `FinalOnceQuiet` is what remains true.

Task runs:
- two servers admit two runs of a forbid definition, since `admissionMu` is of one
  process (`docs/development/scheduled-tasks.md:105, 107` promise the policy for
  several instances); every run and theorem has one server;
- Cancel and Retry: a worker writes "running" over a cancelled run that it had
  read, and a new run is admitted while the old handler still runs. `RunsHold` and
  the theorems of the policy are of behaviours in which the definition is only
  triggered (`Triggered`), `SettledForGood` is what holds with them;
- a failed push, or a client that dies between the row and its task (`push`,
  `client`) leave a pending run nobody executes; a shutdown that is noticed after the
  handler has succeeded (`late`, runs.go:611-613) leaves the run active and cancels
  its task;
- under "replace" Enqueue cancels runs that a worker is settling, with whole-row
  writes on both sides: `NoOrphan` and `FinalRuns` do not claim it.

Scheduler and cron: one lease key serves all scopes, and who finds it taken skips
the scope. With three or more a scope in the middle is left out by every server
without any fault, when one holds the lease for what comes before it and another for
what comes behind: `docs/development/scheduled-tasks.md:35` wants the lease to have
one node of several execute a time slice, and then none does. `DueIsStarted` is of
scopes that some server ticked in that second, `EndsAreTicked` says that the first
and the last are left out after a failure only. The instant of a tick that failed is
not tried again, although the log says "retrying next tick"
(`bootstrap/app.go:329`): the server that failed is excused for the scopes it
dropped (`dropped`), and the scope in whose lease it failed for that second
(`broken`), as are all scopes while the lease of a crashed holder lasts; any other
server that ticks has to start what is due. A definition edited between List and
Enqueue aborts the tick; ticks over a second drop ticks; above 10,000 entries the
seen slots are emptied (not modelled). Zones of half an hour violate
`ListsWhatMatches` (`domain/task/cron.go:175` truncates to an hour of UTC).

Sessions and logins: `NeverLockedOut` is of behaviours without a failure, a
crash between the two Rotate leaves a session only a new login can replace. A
lock in Redis outlives a reset of the password; a success in flight deletes a
lock that others set; two identifiers of one account count apart; requests by
user name and by e-mail yield two live reset tokens, and the older one can
overwrite the newer password; a reset ends no session; a failing reset of the
risk counter answers 503 beside a live session (`auth/service.go:124`).
Registering with an unused e-mail always fails (`account_recovery.go:69-76`,
`gorm_user_repository.go:209-224`): the lookup returns an error where the
service expects none.

Settings: two servers, `st_two_servers`. `ModuleValid` holds while only whole
modules are written: Update and Rollback write one key outside `moduleMu`; a
Rollback validates nothing and may return to the `null` of a reset. A tenant's
save is not published to its organizations' partitions before the
reconciliation, which is of the default tenant only; nothing applies
`component_reload`, so its state stays pending; the source after an update is
the one that was read (`settings/service.go:797, 866`).

Files: a PATCH of a pending row writes back the old object key
(`file/service.go:336-338`), and an Update writes a row by its id over a deletion that
came after its look (`fileplatform/gorm_repository.go:440`): what `FilesHold` and
`KeptForGood` say of a row is said of those not `overtaken`. A forced DELETE takes
away a file in use (`forced`), and is not remembered under its Idempotency-Key
(`catalog.go:761-775`). ProcessDeleting deletes the object, then the staging object,
once each; an upload that is promoted after that leaves an object (`late`), one that
stages and breaks off leaves a staging object (`left`), and no row names either again.
A row that CleanupPending gave up keeps the object it names until somebody deletes the
file (`UnderItsKey`).

Folders: each check and the write it allows are statements of their own, and the walk
of the ancestors ends at a read that fails (`file/service.go:918-921`): a move beside
another move, or over an ancestor that could not be read, makes a folder its own
ancestor, which later walks through it follow for ever (913-924), and a rename that
read the row before a move writes the old parent back. `raced` names those writes.
With a database the map of the service stays empty, so that every upload or PATCH that
names a folder is refused (`file/service.go:283-294, 1476-1489`, `bootstrap/app.go:139`).

Access and menus: UpdateUser reads, then writes a whole profile. Deletion and change
of status compare the organization of a row they have read and then update by tenant
and id (`gorm_store.go:257-276`): an administrator of one organization disables an
account that another administrator moves away in between, although
`gorm_store.go:356-357` says the predicates are applied to every row. `OwnSliceOnly`
excepts the accounts that were moved after they had been read. A role's data
scope is shared by all organizations; SaveRole overwrites any role of that ID;
the reads of one decision are separate, so that `DecidedOnRecord` is of
decisions during which the tables did not change. An orphan makes every Reorder
fail; a branch that became a cycle (`mn_cycle`) disappears from the routes.

Verification: a keyed Issue that failed is remembered as failed for ever,
and a slow one holds `sendIdemMu` for all. Mail: the GORM adapter loses
BodyFormat, so that a keyed retry of an HTML message always conflicts; a
delivery whose attempt could not be logged counts as failed and is repeated, the
exception in `MailHolds` (`unclear`); a crash leaves a message pending or
sending for ever; routes are of one process. SMTP: a message that the server took
counts as failed when the reply to its end, or the QUIT, is lost, and goes out again
over the next account (`unheard`, `smtp.go:452-467`). The pool is not wired; the
mailer of one account is (`bootstrap/app.go:185, 274`), which the module has as a
pool of one.

Installer: with two failing calls (`MaxFaults = 2`) an undo that fails leaves an
effect no journal names: CreateMarker reports an error although the marker was
written, and its removal fails (`apply.go:514`), which leaves a marker without an
administrator; or InitializeWithReference reports an error although it committed
(`identity_installer.go:105-118`), RecoverRollback fails, and the Rollback that is
confirmed all the same (134-141) lets the journal be cleared over an administrator
nobody owns. A release that fails three times keeps the lease. The one journal
creation that reports an error and stored the record blocks every later attempt, as
an interruption does (`InstalledOrInterrupted`). `Stalls = TRUE` lets a recovery
of an interrupted reclaim be overtaken, and two processes install
(`admin_init_lease.go:182-190`): the run and the theorem `OneAtATime` exclude
it.

UI preparation: a receipt without a profile is reported, but never repaired by
running again, as the guidance says (`init-state.mjs:1785-1807`,
`init.mjs:141-149`); a pull during the preparation (`PullsAnyTime`) leaves
modules of another lockfile; Close kills pnpm only. `UIFailures`: a failure
after "complete" is told of stage "launch".

Migrations: a catalog query that fails (`MaxBlind = 1`) makes v004 and v005 skip a
table that exists on MySQL. Backups: two backups to one destination race
(`backup/service.go:110-111`); a crash between the renames leaves an envelope
without metadata, which blocks the destination. Imports: the jobs are in the memory
of one process, the queue is everybody's, and another server's worker that gets the
task fails it with ErrJobNotFound (`application/imports/service.go:741`): when it
makes all the attempts the job stays pending for ever without any fault.
`JobsSettled` excepts exactly the jobs whose task is dead with every attempt missed.
The queue's key knows no tenant (`service.go:709`), so that with two tenants
`AcceptedIsQueued` fails; the runs have one. Retry enqueues nothing; Complete
overwrites a cancellation that it did not see. Dictionaries: identifiers are counted
per process, so that a creation after a restart collides and is refused
(`application/dictionary/service.go:653-661`); BumpVersion loses updates.

Settings in memory: an organization with a revision of its own that inherits a later
row of its tenant is refused every save until the row goes (`Overtaken`); rows written
key by key may leave the revision of the module behind (`unmarked`).

Configuration: a setting of tracing written by itself may leave tracing enabled
without an endpoint, a stored API key is sealed and never validates, and a save of
another server may be read half: each makes the next start fail
(`observability_config.go:42-67, 90`, `bootstrap/app.go:631-633`), and `blame` names
them. A key that `.env` or the file fixes can be saved and has no effect
(`app.go:238-242`); an empty variable of the process hides the value of `.env` and
locks the setting of the database as well.

Monitor: the probes that are not configured are passed as interfaces around nil
pointers (`bootstrap/app.go:278`), so that with Redis switched off the operations page
ends the process (`platform/cache/redis/client.go:141`); no probe of the tasks is
wired, so that its status is never "ok"; the deadlines of the page and of the
dashboard around it are equal, and either may come first; `NewUsers` is the total.
Access codes: a policy whose pattern is one of the two media roots opens everything
under the other; an alias can list a canonical code whose path is denied; a code of
method ANY stays listed when every single method is denied. Users: count and slice are
two statements (`torn`).

Spans: an Export over gRPC has no timeout (`Silent`), then Close need not end; a
waiting Reload blocks `RecordHTTP` while Flush waits. Lifecycle: nobody waits
for the loops, so one may use what is closed (`LoopsOutlived`); a listener that
fails closes before the workers stop; a shutdown that times out leaves requests
on a closed database.

### What the definitions simplify
Where a definition has less than its lines, and no property depends on the rest:
- `RedisQueue`: the deletions of a withdrawn task do not fail themselves
  (`redis_queue.go:90, 94`; that needs a second failure in the same call); two GETs in
  a row are one step in `StartRead`, `FinishRead` and `EnqueueCheck`.
- `Access`: `UpdateUserStatuses` and `AssignRoleUsers` read all their rows in one step
  and write them in another; the code does it row by row in one transaction.
- `Settings`: SELECT MAX and INSERT of one appended row are one step, since the unique
  index refuses the second of two; the reconciliation always runs, in the code only
  with Redis and for the default tenant (`bootstrap/app.go:654, 706-728`).
- `Files`: the conflict of a payload under a key in the catalog
  (`catalog.go:170-201`), the keys of PATCH and DELETE, and `ErrObjectExists`.
- `Verification`: a failing random source (969-974, `generateCode`), which after the
  supersession leaves no valid code; Verify reads the clock (1052) before the lock
  (1053), the model under it.
- `Installer`: reading marker and journal does not fail in `CompletedMatches`
  (`apply.go:243, 252-256`). `ProcessLease`: lstat and remove are one step in `Confirm`.
  `UIPreparation`: the server does not take over the lease of a dead initializer in
  `ApplyEnter`; `ProcessLease` has that.
- `Migrations`: the seeds of `CreateSchema` (`schema.go:154, 241-273`).
- `UserPages`: both statements of a page read the primary; the code may read a replica.
- `Configuration`: of each section the keys that its validation relates to others.

## 4. Proofs

Eight modules. `TaskRunsProofs`, `MailProofs` and `InstallerProofs` extend their
component; the other five extend the module of a run, prove its own component, and
then the run's other parts, from the theorems of the three or directly. A theorem
holds for any number of actors, any sets of data and any number of faults; nothing
in it depends on the bounds of the runs. Each assumes the assumption on the
constants that its component names, which TLC evaluates in every run, and what the
last column says. Every safety theorem goes along the same way: an invariant that is
inductive, one lemma per operation for what it keeps, a lemma for the whole step,
and the property as a consequence.

| module | theorem | property | holds if |
|---|---|---|---|
| `RedisQueueProofs` | `TypeCorrect` | `TypeOK` | always |
| | `Exclusion` | `MutualExclusion` | `Exact`: nobody outlives a lease or lock, no SET of a lease fails, nobody cancels |
| | `FinalForGood` | `FinalOnceQuiet` | always |
| | `AttemptsStay` | `AttemptsNeverLost` | `Exact` |
| | `Refinement` | `ImplementsContract` | `Faithful`: `Exact`, and no push to pending fails after it was applied (`expire`) |
| | `NothingIsLost` | `TasksHold` | `Careful`: `Faithful`, no failed lookup, and no crash or fault in the losing windows |
| | `OneHandlerAtATime`, `MailIsKept`, `DeletedAccountsStay` | `OneHandler`, `MailHolds`, `DeletedForGood` of `background` | one server runs the tasks (`MCAssumption`) |
| `TaskRunsProofs` | `TypeCorrect` | types of `TaskRuns` | always |
| | `PolicyKeeps`, `HandlerAlone`, `EndedStay` | `ForbidHolds`, `AllowHolds`; `OneHandler`; `FinalRuns` | `Triggered`: one server, calls of Enqueue only |
| | `PoliciesKeep` | `PolicyHolds`, with "replace" | `Triggered` |
| | `NoneLeftBehind` | `NoOrphan` | `Triggered`, and only workers fail (`SafeFaults`) |
| `SessionsProofs` | `TypeCorrect`, `TokensSingleUse`, `EndedForGood` | `TypeOK`, `SingleUse`, `NoPairAfterEnd` | always |
| | `NobodyLockedOut` | `NeverLockedOut` | always (the property speaks of states before the first failure) |
| | `RunsAreKept`, `FinishedAreKept`, `SettledStays` | `RunsHold`, `FinishedStays`, `SettledForGood` of `calls` | one server; triggered runs in the first two, Cancel and Retry and every fault in the third |
| `ServerProofs` | `TypeCorrect`, `SavesHold` | types of `Settings`, `SettingsHold` | the second: `OneServer` |
| | `ServerSaves` | `SettingsHold` of `server` | `OneServer` |
| | `ServerFiles` | `FilesHold` | always; the property excepts rows that are `overtaken`, `forced`, `late` or `left` |
| | `ServerParts`, `ServerKeeps` | `ServerHolds`, `KeptForGood` | always |
| `MailProofs` | `TypeCorrect`, `SentOnce`, `DeletedAccountStays` | types, `MailHolds`, `DeletedForGood` of `Mail` | always |
| `VerificationProofs` | `TypeCorrect`, `NewestAndAgreed`, `SpentStaysSpent` | `TypeOK` (with the limit per hour), `CodesHold`, `SpentForGood` | always |
| | `DecisionsAreOfTheTables`, `DecidedIsRecorded` | `DecidedOnRecord` | always |
| | `SlicesAreKept` | `OwnSliceOnly` | always; the property excepts accounts moved after they were read |
| | `MenusStayForest`, `RoutesAreServed` | `RoutesServed` | always; `ForestKept` names the cases of `mn_cycle` and of overlapping changes |
| `ProcessLeaseProofs` | `TypeCorrect` | types of the leases | always |
| | `OneAtATime` | `OneInstaller` | no stalled recovery (`~Stalls`) |
| | `EffectsAreKept`, `MarkersAreComplete` | `EffectsHold`, `InstalledIsComplete` of `installing` | always (the clauses on administrators speak of at most one failed call) |
| `InstallerProofs` | `InstallationKept` | the inductive invariant `InstallInv` | always |
| | `InstallerTypes`, `EffectsAreJournaled`, `ContentsAreKept`, `InstallationsAreComplete` | `TypeOK`, `EffectsJournaled`, `UserContentsKept`, `InstalledIsComplete` of `Installer` | as above |

"Always" includes every fault, crash, expired lock and stall of the model. The
conditions of the others are those of section 3, "Windows the runs leave out":
the runs `rq_retry_window` and `st_two_servers` show that `Careful` and
`OneServer` are needed, and each of the rest has a counterexample in TLC.

### The queue
`MutualExclusion` speaks of the worker's program point only. `ExclusionInv` adds
`TokensUnique` (owner tokens in leases, locals and claim maps are below `nextClaim`,
and no two processes share one) and `Sound(p)` of every process: no token before a
lease is set (`Tokenless`), the claim lock is `p`'s at the points that rely on it
(`LockHeld`), the lease carries `p`'s token from its installation to its release,
and nobody holds it between recheck and installation (`LeaseHeld`), and a worker
executes under a claim it remembers (`ClaimRemembered`). The step that matters is
`InstallLease`: the lock is `p`'s and the lease is 0, so no other process holds lease
or lock of the task. For all other steps `OthersSound` reduces the goal to what `p`
does to itself, given that it takes nothing another relies on (`LocksRespected`).

On that rest the proofs about tasks, in layers:
- `IdentityInv`: a task is unknown to everybody until the Enqueue that made its
  identifier has stored it (`Unborn`), and a worker about to write has read a task
  that it may write so (`Working`). That suffices for `FinalForGood`.
- `CountedInv`: every record and every copy has fewer attempts than the limit while
  it is open. Nothing is assumed.
- `AttemptsInv` adds `CurrentCopy`: under the exclusion a worker about to write has
  the current copy, unless the task was withdrawn meanwhile.
- `ContractInv` adds that an Enqueue has its key and, until the push, its task to
  itself (`Enqueuing`) and that what is listed, held or accepted is stored (`Known`).
  With it every step is one of `JobContract`'s or none: the write of a running record
  is its start, the last write of a worker its completion or failure, while locks,
  lists and leases are stutter.
- `TaskInv` adds that an accepted task is the one its key stands for and is kept or
  just being pushed (`Keyed`), that nothing is accepted under a key while another
  call stores a task for it (`Promised`), and that a worker removes a task from the
  list for good only when it is finished (`Settled`).

### Sessions
`TokensInv` adds the order in which tokens are presented and issued: a call always
holds an older token than the one it will issue (`Shaped`), a token that has bought
a pair, or is about to, is older than the one the journal expects (`Spent`,
`PairsInv`), a Refresh that began after the end of its session has the journal
against it (`Ended`), and nobody has a token of a session while Login opens it
(`Opens`). The step that matters is `JournalRotate`: the journal accepts only the
token it expects, so all that was granted before is older. The locks in Redis
appear in no part of it: those properties would hold without them. They matter for
`NobodyLockedOut`, whose `AccessInv` says that as long as nothing failed one call
at most has rotated the session in Redis and not yet returned the pair (`Rotated`),
and that the stores agree when none has (`Settled`).

### Settings
`GoodRows` says that each set of versions has a greatest, which every reading of
"the current row" relies on. `Locking`: a save or reset past the lock holds
`moduleMu`. So nobody has won at the revision of one that is about to commit, or at a
later one (`Checked`, `WinnersInv`); and as long as nobody wrote single keys, what
it has read is what is stored, and the module it checked is the one it leaves
(`Read`, `ValidInv`).

### Task runs
`RunsInv` is of a definition that is only triggered, under "forbid" and "allow".
`RoomInv` is the policy itself. `CallInv`: a call of Enqueue is alone inside
`admissionMu`, has seen room for its run, and until the task is in the queue the run
is as it was created. `RowInv`, `KeyInv`: runs and their keys and queue tasks
correspond. `WorkInv`: a worker has a task to itself, and with it the run, so that what
it has read is still true when it writes. For `NoneLeftBehind`, `LinkInv` says that
an active run has a task still to be executed, or an Enqueue about to push it, and
has attempts left (`Carried`), and that a worker settles a task after its run
(`Settled`).

### Installer leases
`LeaseInv`: the guard is the flock's holder, and a server that has `apply.lock` is
its owner (`ApplyInv`); an initializer that has `admin-init.lock` is its owner, one
process at most reclaims, behind a tombstone, and what it removes is the lease of a
dead one (`AdminInv`); no server is past its look at `admin-init.lock` while an
initializer is inside (`OrderInv`). The exclusion of servers among themselves needs
the flock, that of server and Node only links and renames.

### Mail and verification
`MailInv`: at every program point the deliveries of a call are those that were
taken for failures, and one more only after a success (`Counted`); a record is
written by its call alone and says what happened (`Recorded`); a message is the
only one of its key, and who was answered was answered with it (`KeyInv`); an
account about to be created is not there yet (`FreshInv`).
`CodesInv`: of one scope and recipient only the challenge reserved last is current
(`OrderInv`); a key is in flight or recorded, and every answer is the record's
(`FlightInv`, `RetryInv`); a code that may still be used was never found right nor
guessed at too often (`UseInv`). Lemma `Aging` says that every step but a
reservation lets challenges only age, from which `SpentStaysSpent` follows.

### Files, imports, backups, spans, the process
`ServerInv` is the conjunction of one invariant per part of `MCServer` but the settings,
whose `SavesInv` needs `OneServer`.
- Files: `FileInv(f)` says what object and row of a file owe each other at every
  program point of its upload, `EditorInv` and `CleanerInv` what a request and a pass
  may rely on of the row they have read. Every operation is shown to be a `FileStep`
  for every file, what it may do to a file that is not its own, and each actor's part
  is shown to survive any `FileStep` of another: a rely and guarantee argument, which
  keeps the number of pairs linear. `StageInv` is the same for staging objects, and
  `KeyInv` for the answers under a key. From `FileStep` also follows `ServerKeeps`.
- Imports: rows and attempts are bounded and the copy a worker holds
  keeps its bounds too (`WorkInv`); that a cancellation holds is a step property
  (`StepKeepsCancel`), whose exceptions are a retry and the write of an older copy.
- Backups: a reader that has a dump has the one its metadata described.
- Spans: the counter of each runtime is the number of spans under way to it, a runtime
  is owned by the Reload or Close that swapped it out (`OwnersInv`), and a span
  that counts as queued is in the queue or with the worker of the runtime it was sent
  to (`FateInv`).
- The process: dependencies are registered in one order, whatever the configuration
  leaves out (`OrderInv`), what is open is registered (`OpenInv`), and what is open has
  open what it depends on (`DependedInv`), since closing goes from the end.

### Runs under "replace", and beside everything else
Under "replace" Enqueue cancels run after run, and workers write whole rows back.
The policy then speaks of runs that may be executed: active, with a task that is
(`Live`). `ReplaceInv` says that whatever is live is still to be cancelled by the one
call inside `admissionMu`, and nothing is before its own task is queued (`ReplaceCall`),
and that a copy a worker writes back may be old only if its task is over
(`ReplaceWork`), so that such a write revives the row and not the run.
`SettledStays` is proved with Cancel, Retry and every fault: of a run that is `Over`
nobody who could still write it has a copy from before, and no step changes that
(`OverStays`).
The last sections of `RedisQueueProofs`, `SessionsProofs`, `VerificationProofs` and
`ProcessLeaseProofs` carry theorems of the components over to the runs: a step of the
composition is a step of one part and leaves the variables of the others.

### Permissions and menus
`AccessInv`: types; the members a request is about to write are of its role, one of
each of its users (`MembersRead`); as long as no change waits for its new
generation, what the cache and the requests hold under the current one is denied by
the policies (`CacheInv`); what a request has gathered is true as long as no change
was committed (`JudgeInv`); and an administrator of an organization who is about to
write has only read what is of that organization, or was moved meanwhile
(`SliceInv`). `MenuInv`: a change about to be written has passed the checks on the
tree that was read for it (`MenuChecked`), and the menus are a forest but for the
named cases (`ForestKept`). The ancestors of a menu are the least closed set, since
a recursive definition cannot be proved about; the walk of the code computes it one
step at a time.

### The installation
`InstallInv`: every record of a transaction, in the journal or in a process, says at
least what its transaction may have done (`Records`), and the journal names the one
that has done something without being the installation (`Named`); `.env` and its
backups hold what the user put there or a transaction's file (`StoresInv`); a marker
has its administrator and its file (`Whole`), and nobody would take away the marker
of a completed job (`Committed`); who is inside has the lease (`LeaseKept`). For
each process: what its transaction has come to at each program point, going forward
(`Applying`), with a prepared file (`Preparing`), rolling back (`Undoing`) and on
the way out (`Ending`), and what it holds to be rolled back later (`Holds`). The
hard steps are those at which an effect is there and not yet in the journal: the
record says "may have", and compensation has to be right either way.

### What stays with TLC
- Liveness (`EverythingEnds`, `Settles`, `EveryIssueAnswers`,
  `InstalledOrInterrupted`) and ENABLED: out of the prover's reach.
- What recursive definitions compute for every input (the search of `Cron`, the
  pages of `Migrations`): induction over data is out of reach.
- `LoginsHold`, `ScopesHold`, `SchedulesHold`, `RowsKept`, `OperatorsHold`,
  `ServicesHold` and `ChoiceFixed`, that is `Logins`, `SettingScopes`,
  `SettingsMemory`, `Dictionary`, `Scheduler`, `Cron`, `Categories`, `UIPreparation`,
  `UIFailures`, `Migrations`, `Configuration`, `Smtp`, `Monitor`, `AccessCodes` and
  `UserPages`: checked on the instances above, not proved.

## 5. What the models leave out

- Times, payloads, error texts, log rows, tenants other than one but where a module
  is about scopes.
- Access tokens: `VerifyAccess` reads the token alone, so that a revoked session
  keeps its access until the token expires
  (`docs/manual-acceptance/1.0.0-dev-end-to-end.md:319` expects 401 on the next
  request). There is no state to check, only the difference.
- Database reads are of the primary; replicas that lag are not modelled.
- In `TaskRuns` the queue is the contract, so that what `RedisQueue` shows may be lost
  there is not repeated; a worker that loses its claim counts as a crash.
- In `Settings`: secrets and values fixed by the deployment, which `SettingScopes` has.
- Providers (mail servers, object stores other than the local one, dump programs,
  package managers, the collector of spans): external, by how the code uses them.

## 6. Plan

1. Proofs of the parts of `MCShared` and `MCOperators`: `Logins` (guesses are bounded by
   what is in flight), `SettingScopes`, `Categories` (a forest as long as `raced` is
   empty, with the ancestors as in `VerificationProofs`), then `ChoiceFixed`.
2. Two servers where now one is assumed, as what remains true there: a policy of runs
   up to one run per server, a revision of settings up to one winner per server.
3. Two tenants in `Imports`, and replicas that lag behind in `UserPages` and
   `Configuration`.
