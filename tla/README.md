# Trends.Earth API: a verification development

The Trends.Earth API is a Flask application on PostgreSQL with Celery workers
(Redis as broker). Users upload scripts and run them; an *execution* is a row of
`gefapi/models/execution.py` that an API request creates, a Celery task starts on
Docker Swarm, AWS Batch or openEO, and periodic tasks watch. API threads, workers
and containers share nothing but the rows of the database and the broker's
messages. Rows are read, decided upon and written back without locks, so most of
what is hard lives between two commits. The modules here describe those steps;
paths below are relative to `src/gefapi/`.

## 1. Inventory

| Component | State it keeps | Operations | Interacts with | Hard because | Correct when |
|---|---|---|---|---|---|
| Admission and queue (`services/execution_service.py`, `tasks/queue_processor.py`) | `Execution.status`, `queued_at` | create, dispatch, process queue | broker, run tasks, role changes, rebuilds | count, then act; overlapping processors; commit before send | at most one dispatch; nothing lost silently; FIFO; the queue drains |
| Docker execution (`services/docker_service.py`, `tasks/docker_*_monitoring.py`, `tasks/execution_cleanup.py`) | status, `end_date`, `dispatched_at`, the Swarm service | `docker_run`, reports (PATCH), monitors, stale sweep | container, cancellation | each writer writes what it decided on earlier; redelivery; lost nodes | ends; a settled end is final; services are removed |
| Cancellation (`tasks/execution_cancellation.py`) | `CANCELLING`, the workflow's message | request, workflow, rollback | Docker, Batch, reports | commit and send are not atomic; races the start | a cancelled execution stops |
| Batch execution (`services/batch_service.py`, `tasks/batch_monitoring.py`) | status, `results["batch_jobs"]`, AWS jobs | `batch_run`, monitor, terminate | AWS Batch, S3, cancellation | retry after a terminal status; resubmission; lookback window | FINISHED means a whole pipeline ran; jobs stay reachable; it ends |
| openEO execution (`services/openeo_service.py`, `tasks/openeo_monitoring.py`) | status, `results` | `openeo_run`, monitor | openEO back end, Docker monitor, stale sweep | excluded from no Docker sweep; redelivery submits again | FINISHED means the job did; a running execution is not failed |
| Cleanup sweeps (`tasks/execution_cleanup.py`) | many rows | stale, finished, old failed | Docker | LIMIT without order; rows that stay selected | each row is reached |
| Scripts and builds (`services/script_service.py`, `docker_build`) | `Script.status`, archive, image | upload, update, delete, build, push | S3, registry, executions | a shared file, archive and tag; pushes whose outcome is unknown; lost builders | SUCCESS means the image is that of the archive |
| Script access (`models/script.py`, `utils/script_access.py`) | `public`, access lists | grant, revoke, publish, list, open | users' roles | lists are read, changed and written back | what is listed may be opened; grants restrict |
| Reading executions and logs (`execution_service.py`, `routes/api/v1/executions.py`) | none | pages, export, polls | everything that writes rows | LIMIT and OFFSET over a changing order; ids and dates older than their commit | no row or line is missed that was there |
| Sessions (`services/refresh_token_service.py`, `__init__.py`) | refresh tokens | create, rotate, revoke, clean up | password change | check, then revoke | a token is rotated once; sign-out is final |
| Token blocklist (`__init__.py`) | entries in Redis, a client per process | block, look up, reconnect | Redis | outages; the entry must outlive the token | blocked until expiry; service resumes |
| Users (`services/user_service.py`, `models/user.py`, `tasks/user_cleanup.py`) | user, reset tokens, audit records | register, login, lockout, change, reset, delete, sweeps | sessions, executions | check, then use; columns written back; long sweeps | a token is used once; locks are earned; deletions leave a record |
| Service clients (`services/oauth2_service.py`) | clients | create, revoke, authenticate | | count, then insert | the limit; tokens end |
| Earth Engine and openEO credentials (`routes/api/v1/gee_credentials.py`, `services/gee_service.py`) | columns of the user, consent state, bucket access, the process's client | consent, upload, test, grant, delete | Google, Redis | several systems to clear; a client shared by all requests of a process | deleted credentials leave nothing |
| Bulk email (`services/bulk_email_service.py`) | email status, recipients | draft, verify, send | SparkPost, broker | redelivery in mid-send | each recipient once; the status tells |
| Subscriptions (`tasks/sparkpost_suppression_sync.py`) | `bulk_email_subscribed` | sync, edit, unsubscribe | SparkPost | a window of events read again and again | opt-outs are honoured |
| Rate limits (`utils/rate_limiting.py`, `services/rate_limit_event_service.py`) | counters in Redis, events | refuse, record, list, reset | all routes | two stores; check, then insert | a refusal shows in the list |
| Statistics and caches (`services/stats_service.py`, `tasks/stats_refresh.py`, `services/docker_service.py`) | values in Redis | get, refresh, clear, swarm status | database, Docker | a cached value built from cached values | no value is older than its lifetimes allow |
| News, boundaries, groups, filters, admin routes, configuration, migrations | see `PROJECT.json` | CRUD, queries, calls to other services | | few or no races | |

`PROJECT.json` lists every component with its status, and under `hazards` each
place where the code can go wrong in a way a test would hardly reach.

## 2. Modules

| Module | What it is |
|---|---|
| `ExecutionQueue` | API threads that create executions, overlapping queue processors, the broker, role changes and rebuilds |
| `Admission` | what the queue promises for one execution; `ExecutionQueue` implements it |
| `Cancellation` | the cancel request of one execution; shared by the next three |
| `DockerExecution` | one execution on Docker Swarm: `docker_run`, container, workflow, three sweeps |
| `BatchExecution` | one execution on AWS Batch: `batch_run`, jobs, monitor, workflow |
| `OpenEOExecution` | one execution on an openEO back end: `openeo_run`, jobs, its monitor, the Docker monitor, the sweep |
| `CleanupSweeps` | the three sweeps over a table of executions, with their LIMIT |
| `ScriptBuilds` | uploads, archive, `docker_build`, pushes and deletions of one slug |
| `ScriptAccess` | publication and access lists of one script, who lists, opens and manages it |
| `ExecutionPages` | a client that walks over the pages of a list, and the export |
| `LogPolling` | writers of one log and a client that polls it |
| `Sessions` | the refresh tokens of one user |
| `TokenBlocklist` | the blocklist of access tokens, with outages of Redis |
| `Accounts` | the rows of one email address: login, lockout, passwords, resets, roles, deletion, sweeps |
| `ServiceClients` | the OAuth2 clients of one user and their access tokens |
| `UserCredentials` | Earth Engine and openEO credentials of one user |
| `BulkEmail` | one bulk email: claim, send task, edits, deletion, verification codes |
| `Subscriptions` | the subscription of one user and the sync with SparkPost |
| `RateLimits` | the limits of one endpoint, its events and resets |
| `Caches` | the cached statistics and the status of the swarm |
| `MCExecutionQueue`, `MCDockerExecution`, `MCBatchExecution`, `MCBulkEmail`, `MCOpenEO` | values of the constants of one module for TLC |
| `MCRecovery`, `MCSettles`, `MCLifecycles`, `MCServices` | several parts in one run, see section 3 |
| `ExecutionQueueProofs`, `DockerExecutionProofs`, `BatchExecutionProofs`, `AccountsProofs` | the theorems about one module |
| `ServicesProofs` | the theorems about `Sessions`, `TokenBlocklist`, `ServiceClients` and `RateLimits`, as `MCServices` composes them |
| `UserDataProofs` | the theorems about `Subscriptions`, `LogPolling`, `ScriptAccess` and `UserCredentials`, as `MCServices` composes them, and the types of all its parts |
| `LifecyclesProofs` | the theorems about `Caches`, `OpenEOExecution` and `ExecutionPages`, as `MCLifecycles` composes them, and about the types of all its parts |
| `DeliveryProofs` | the theorems about `BulkEmail` and `ScriptBuilds`, as `MCLifecycles` composes them |

### ExecutionQueue

`status`, `queuedAt` and `pending` are the row and the broker; `req[h]` is an API
thread in `create_execution`, `run[p]` one run of `process_queued_executions`.
Each query and each commit is a step. `CreateCheck` counts the user's active
executions, `CreateCommit` inserts the row, waiting or not, by that count, and
`CreateDispatch` sends the run task. A processor reads the waiting users
(`ProcStart`), counts (`ProcCount`), selects as many rows as it saw slots
(`ProcSelect`), and for each clears `queued_at` and commits (`ProcClear`), then
sends (`ProcDispatch`). `ProcDispatchFail` and `ProcCrash` are an exception and a
lost worker between the two. What happens to a dispatched execution is abstracted
to its effects on the status (`RunTask`, `Progress`, `CancelRequest`,
`CancelDone`, `StaleCleanup`): the queue reads nothing else of it.

Abstracted: `sent` and `lost` are history variables; the reads that
`create_execution` makes before its count are one step; the test of the script's
status and the clearing of `queued_at` are one step, so a rebuild falls before or
after both; limits do not change while the processor runs; the stale sweep does not
take a row whose creating request is still running (three days old). Batch
executions are not told apart, although the stale sweep leaves them alone; no
property of this module relies on the sweep.

### Cancellation, DockerExecution

`CancelCheck`, `CancelMark`, `CancelSend` are the request's read, commit and send;
`CancelRollback` is the broker refusing, `CancelDies` the API process dying.
In `DockerExecution`, `worker[w]` is a Celery worker with the task it executes.
`docker_run` is `RunReady` (READY, whatever the status was), the upload, and
`RunCreate`; the container's reports go through `UpdateExecution`, which looks at
no status. A sweep is a selection, a look at Docker and a commit with any delay
between; it carries in `spared` whether the row it loaded keeps its status, since
the ORM writes only columns that changed. Faults (`MaxFaults`) are lost workers
whose message is delivered again, Docker, S3 and broker failures, containers that
die without reporting, lost nodes, and the hard time limit of the workflow.

The service is `booting`, `working`, `complete`, `failed` (a task Docker calls
failed or rejected) or `shutdown` (the node went away; restart policy `none`
starts no other). `age` counts days, 3 standing for every age past the stale
limit, so that the 24 hour, 48 hour and three day windows differ; `dispatched`
tells the grace period from later.

Abstracted: one execution is seen, so the LIMITs of the sweeps are not (see
section 6); an administrator's PATCH of the status is not a step; Earth Engine
tasks found in the logs are not modelled.

### BatchExecution

`recorded` is `results["batch_jobs"]`, `jobs` the jobs AWS holds, in order of
submission, each with its step and its dependency; `runTasks[n]` the messages of
retry `n`. `SubmitStep` submits one job, `BatchRecord` stores the ids and writes
RUNNING, `BatchFail` is the `except` of `batch_run`: FAILED, the ids overwritten by
the error, and a retry. The monitor holds the ids it read (`MonitorSelect`), judges
their states (`Verdict`) and writes the results back (`MonitorCommit`). `ACTIVE`
stands for the five states that `_BATCH_CANCELLABLE` names. Results files that
name a `batch_jobs` of their own are not modelled. Neither the stale sweep nor the
Docker monitors look at batch executions, so the module has no such step.

### BulkEmail

`SendClaim` is the transaction of `POST /send` that locks the row, `SendDispatch`
the message after its commit; `EditRead` and `UpdateCommit` or `DeleteCommit` are the
two ends of a PATCH or DELETE, which take no lock. `TaskStart` reads the row and the
recipients once; `SendBatch`, `BatchRefused` and `AllSent` are the loop and its two
ends, `TaskEnd` the acknowledgement, after which alone a lost worker (`Crash`) does no
harm. Workers may have been started without `SPARKPOST_API_KEY` (`keyless`): for them
`send_html_email` sends nothing and returns an error, which the loop does not look at, so
that the batch is `withheld` and the task goes on to SENT. The subject and text are a version number, the recipients a number of batches
that may change at any time; `delivered[b]` is the sequence of versions in which SparkPost
took batch `b` (`HandOver`, a history variable); `worker[w]` keeps the columns it read, since the session
writes a column only where it differs from them. The row that `restore_to_draft`
creates is another email. Test sends and lists of recipients are left out.

### OpenEOExecution, CleanupSweeps

`openeo_run` is `RunStart`, `SubmitJob`, `RecordJob` (the job id and READY),
`LogSubmission`, the `except` `RunFail`, which writes back
the results it loaded; `WorkerLost` sends the message again, and a
redelivery submits a second job. `MonitorSelect`, `Poll` and `MonitorCommit` are
`monitor_openeo_jobs`: the verdict over the job's status is FINISHED, FAILED, RUNNING
or none. `DockerMonitorSelect` and `DockerMonitorCommit`, `StaleSelect` and
`StaleCommit` are the sweeps for Docker that also take these rows, `WorkflowStart`
and `WorkflowWrite` the cancel workflow, which leaves the job alone. Credentials are
there or not at each poll.

`CleanupSweeps` sees the rows that `DockerExecution` cannot: a query returns any
`Limit` of the rows that match, rows are ended or get older in between, CANCELLED rows
stay selected. One sweep is one step, since what it reads and writes of a row is
interleaved in `DockerExecution`.

### ScriptBuilds, ScriptAccess

An upload is `Save` (the shared path on disk), `ReadConfig`, `CommitRow`,
`PushArchive` (the file as it is then), `Dispatch`; a build is `Fetch`, `MarkBuilding`,
`BuildImage`, `Push`, `VerifyPush` and `EndBuild`. Archives are numbered, the image is
the number of the archive it was built from. A push may end with the image taken by
the registry or not; `Verified` compares the digest with the one before. When the HEAD for
that digest fails (`BuildUnread`), the code takes the tag for one that is not there, and any
image in the registry verifies. A row that
goes away under a task makes it fail where the code adds a line to its log. What the
build executes is not seen.

`ScriptAccess` loads the row (`Load`) and commits what differs (`Commit`); the lists
are sets of users and roles, and NULL, which restricts nothing. `CanAccess` is the
test of a single script, `Listed` the filter of the list.

### ExecutionPages, LogPolling

The order of a page is that of the chosen sort, running before ended by default;
there are no ties, as times and ids are in the order
of creation. `Rows` is LIMIT and OFFSET: the rows that as many others come before as the
offset says, and up to `PageSize` more. `walk` is what the client saw.
In `LogPolling` a writer takes its date, then its id, then commits; the client asks
after the last id or date it has.

### Sessions, TokenBlocklist, Accounts, ServiceClients, UserCredentials

`Sessions`: a login inserts a row, `Validate`, `Revoke` and `Issue` are the three
transactions of a refresh with rotation; a sign-out of all sessions and a password
change read the rows (`SignOutRead`) and revoke them (`SignOutCommit`); `GetsOlder`
moves a row to the ages the two daily tasks look at. A commit over a row that is gone
is rolled back.

`TokenBlocklist`: `client[p]` is the process's Redis client, `throttled[p]` that the
last attempt to connect is less than five seconds ago. The lifetime of the entry is
the token's plus a buffer. The in-memory set of a development environment is left out.

`Accounts`: each handler loads the row (`LoginRead`, `ChangePassword`, `ResetRead`,
`DeleteRead`), hashes, and commits the columns that differ (`Column`). A password is
correct or not; the counts of failed logins at which an account locks are parameters
(5 and 10 in the code). Deletion, by the user, an administrator or a sweep, writes the
audit record whose hash `CleanupHashes` removes later. The two weekly cleanup tasks start
at the same time in workers of their own, so each `s` in `Sweepers` is a run of either:
it selects a row (`SweepUnverified`, `SweepNeverLoggedIn`) and deletes it when its turn
comes (`SweepDelete`). A row that is first in turn is still loaded then, and is deleted and
audited again if it is gone; after the commit for a row of another address it is read anew,
and the task ends if it, or the other row, is gone (`SweepEnds`).

`ServiceClients`: `CreateCount` and `CreateClient`, `Authenticate` and `IssueToken` are
two steps each; a token is not looked up again, so revocation only ends new ones.

`UserCredentials`: the consent flow (`InitiateOAuth`, two callbacks, `CallbackStore`),
keys, projects, `GrantBucketWrite` and `RevokeBucketWrite`, deletion by the user and by
an administrator, and the tests of credentials. `ee[p]` is the account of the Earth
Engine client of process `p`. Encryption is left out: a key decrypts.

### Subscriptions, RateLimits, Caches

`Subscriptions`: time is counted in starts of the task, which reads the events of its
window; `LoadUsers` and `SyncEnds` are the two ends of its transaction, `EditRead` and
`UpdatePrefs` those of a request. `RateLimits`: an endpoint has a set of limits, named by
their windows. The counters are Flask-Limiter's, modelled by their effects: a request
counts for the limits in turn until one is full, which refuses it. `RecordRead` and
`RecordInsert` are the look for an event and its insertion, and two callers that overlap
insert two. `Existing` has the three lookups of `record_event`, by key, by user and by
address; the events of a caller are a set of records with their age, the window of their
limit and whether a reset ended them. A reset clears counters, then events. `Caches`: a value is
its age. Operations read the cache, compute and store in steps of their own; sections
are cached by themselves and within what is built from them.

## 3. Runs

| Run | Instance | Shows |
|---|---|---|
| `queue_safety` | 1 user with 1 slot whose role may change, 3 executions, 2 API threads, 1 processor, 1 script that may be rebuilt, 1 fault | type, inductive invariant, no silent loss, refinement of `Admission` |
| `queue_overlap` | 1 user with 2 slots, 4 executions, 1 API thread, 2 processors | one dispatch per processor, FIFO |
| `queue_limit` | 2 executions, 2 API threads, limit 1 | **violated**: the limit |
| `docker_safety` | 2 workers, 2 cancel requests, 0 or 1 run task, 1 fault | type; grace period; a settled terminal status is final |
| `docker_recovery` | 1 worker, 1 request, 0 or 1 run task, 1 fault; 3 rows with a LIMIT of 2; fairness | every Docker execution ends, its service is removed; stale rows are reached as long as CANCELLED ones do not fill the LIMIT |
| `docker_cancelled` | 2 workers, 1 request | **violated**: a cancellation stops the container |
| `lifecycles` | 2 workers; Batch: 2 steps, 1 request, 1 AWS error, 1 fault. openEO: 1 request, 1 fault. Email: 2 senders, 1 editor, 2 batches, 1 refusal, 1 fault. Scripts: 2 uploads, 2 rows, 2 builders, 1 fault. Pages: 3 executions, 2 users, 1 administrator. Caches: 2 processes | FINISHED means a whole pipeline, jobs tracked, finality of Batch; FINISHED means done of openEO; one sender, bounded deliveries, SENT means delivered; an uploaded script is what was built; pages are complete; cached values are fresh |
| `settles` | email: 2 requests, 2 workers, 2 batches, 1 refusal, 1 fault. Batch: 2 steps, 1 retry, 2 AWS errors, 1 request. Blocklist: 2 processes, 1 token. Queue: 3 executions, 1 slot; fairness | SENDING ends; a dispatched Batch execution comes to rest; processes come back to Redis; each waiting execution leaves the queue |
| `services` | 2 threads; 1 address with 2 cleanup runs, 1 reset token and 2 wrong passwords; 2 sessions; 1 token; 2 users of a script; 3 clients under a limit of 1; 2 opt-outs; 1 consent flow; 3 log lines; 2 callers behind one address, one of them without a session, an administrator and an exempt monitor, under limits of 1 request in 1 tick and in 2 | one property of each part, see below |
| `batch_abandoned` | 1 worker, 1 job, time passes | **violated**: ended jobs are reported |
| `email_edited` | 1 request, 1 editor, 1 worker | **violated**: what was delivered is what the row says |
| `openeo_failed` | 1 worker | **violated**: an openEO execution whose job runs is not failed |

The five violated properties are what the documentation or a comment says; the
findings in `PROJECT.json` quote it and tell what the code does.

*What `services` shows.* Where a handler checks and acts in two transactions, the
number of threads bounds how often a single use can happen, and no more: reset and
refresh tokens (`SingleUseBounded`), clients above the limit (`ClientsBounded`). An
account is locked only after that many failed logins (`LockEarned`), although each
login writes back a count it loaded earlier. After a sign-out no token of before is valid (`SignOutFinal`).
A listed access token is refused until it expires, through outages
(`BlockedUntilExpiry`). Grants hold and listed scripts can be opened (`AccessHolds`). An
opt-out the user did not take back is honoured (`OptOutHonoured`). Deleting credentials
leaves no token, key or account in the columns of the user, unless requests on them
overlapped (`ErasedWhenDeleted`; access to the bucket may stay, see below). A polling client
sees each line once (`PolledOnce`). A deleted account has its audit record
(`DeletionAudited`); the requests and the two cleanup runs that have loaded the row may
write one each, and the bound is met. `record_event` inserts an event for a refusal only if
it finds none, so that a refused caller is on the list of active limits
(`RefusedIsListed`) unless what it found was ended by a reset, is an event of the shorter
limit that is over, or is one of another caller at the same address. Where a property
has an exception (requests that overlapped,
something that failed), the module's comment says which, and the exception is one that
TLC shows to be needed.

*Several parts in one run.* `MCRecovery`, `MCSettles`, `MCLifecycles` and `MCServices`
instantiate several modules. The parts share no row (or, in `services`, write different
columns of the user row), so their interleavings add nothing: `focus`, chosen in the
initial state, names the part that moves, the others stay as they are, and the run
explores the parts one after the other. Where `Init` leaves a part a choice, it is fixed
while another part is in focus. A property of a part says `focus = part => ...` or is
trivially kept by the parts that rest. Instantiated modules see their constants in the
`WITH` of the MC module. `MCServices` and `MCLifecycles` take those values as constants of
their own, with the least assumptions they need (`ServicesAssumption`,
`LifecyclesAssumption`), so that the theorems about them speak of every value and the
configuration of some.

*Bounds.* Races in this code are between a reader and one or two writers: two
threads, two processors or two workers with one more actor (container, user, time)
reach each of them. Three executions with a limit of one, or four with two, make a
user wait, fill a freed slot and leave another waiting behind; two requests or two
roles bring a user above the limit while an execution still waits. One user is
enough for TLC, since users meet only in the loop of the processor, and the theorems
hold for any number of them. A run task is delivered twice by the redelivery after a
lost worker. One fault shows each failure alone at each step; the crash of a
`batch_run` resubmits the pipeline, so that stale and fresh job ids meet. One AWS error
makes a retry from a terminal status; two exhaust one retry in `settles`. A second
request can resend a FAILED email, two batches leave it half delivered, and a second
worker takes the redelivered message while the first request is still on its way. Two
uploads of one slug, each with its build, overlap in all ways. Three executions on pages
of one make a row move across the border of a page in both directions. Windows and
lifetimes are two or three ticks, so that "before", "within" and "after" differ. A short and a
long limit of one request each, and two callers at one address, give each of the lookups of
`record_event` something to find; one row and two cleanup runs meet in every order with a
request, the rows of other addresses being seen by their effect on the session only.
`CHECK_DEADLOCK FALSE`: requests and executions are used up and the system rests.
`SYMMETRY` is over workers or threads only, which no definition tells apart, and in
runs without liveness.

*Fairness.* Workers finish what they took (weak fairness of their steps). A message
in the broker is taken, and a task that beat starts at an interval is run, even
though other tasks keep taking the workers in between (strong fairness). In `settles` the
strong conditions of different parts are merged (`Task`): only one part moves, so each
speaks for that part alone. Accepted HTTP requests are served. In `docker_recovery`
days pass while an execution is neither FINISHED nor FAILED, which is what the stale
sweep needs; once it is ended time may stand still, because the completed monitor, every
three minutes, runs hundreds of times within its 48 hours. The stale sweep over many
rows is started every hour. Jobs of AWS Batch end, at the latest at the
`attemptDurationSeconds` that `submit_pipeline` sets, and AWS starts them. Each API
process is asked again and again, the five seconds between two attempts to connect pass,
and users log in anew. Nothing is assumed of users otherwise, of containers (one may hang
for ever), of Redis, of openEO jobs or of faults. `QueueDrains` assumes a single
processor that is started again and executions that end.

*Stated, without a run.* Some properties are stated in their modules although they do
not hold, beside the weaker one that does. Seven say what a line of the repository
says: `DeletionCancels` of `Accounts` (an execution started while its user is being
deleted goes on; `routes/api/v1/users.py:724`), `ValidMeansOwn` of `UserCredentials`
(the Earth Engine client of a process is that of whoever's request initialised it first,
`services/gee_service.py:73-78`) and `DeletedMeansRevoked` of the same module (an
account may keep its access to the bucket after the credentials are gone);
`SweptNeverLoggedIn` of `Accounts` (a cleanup task deletes who "has never logged in",
`tasks/user_cleanup.py:51`; a user who logs in between its query and the turn of the row is
deleted all the same); `RefusedShows` of `RateLimits` (the endpoint of
`routes/api/v1/admin.py:27` shows the limits that are active; as long as nothing was reset
a refused caller may still be missing, the last two exceptions of `RefusedIsListed`);
`SentWasTaken` of `BulkEmail` ("updates the BulkEmail status to SENT on success",
`services/bulk_email_service.py:351`; without `SPARKPOST_API_KEY`
`services/email_service.py:29-38` answers with an error that nobody looks at, and an email
is SENT that SparkPost never had); and `PushVerified` of `ScriptBuilds` (the state before a
push is captured "to detect tag updates", `services/docker_service.py:584`; when that HEAD
fails, an older image passes for the one that was to be pushed). Two drop the
condition of a property that is checked: `GrantsRestrictAlways` of `ScriptAccess`
(requests on the lists may overlap) and `EachStaleReached` of `CleanupSweeps` (CANCELLED
rows may fill the LIMIT, `tasks/execution_cleanup.py:54`). They can be put into a
configuration of their module to see the trace.

## 4. What is proved

Every safety and action property of the passing runs, type invariants included, is a
theorem for all values of the constants: any number of users, threads, workers, rows, retries and faults. Assumed are
the `ASSUME`s of the modules (finite sets of processes, natural numbers as limits) and
the hypotheses named below. Each invariant is `Init => IInv`, `IInv /\ [Next]_vars =>
IInv'` and `IInv => Inv`, with a lemma per action or group of actions; "frame" lemmas say
once what an action leaves alone. `TLC` has checked the properties first.

**`ExecutionQueueProofs`.** `TypeCorrect`: the number of slots a processor computes is
never negative, since `ProcSelect` follows the test of `ProcFull`. `DispatchBounded`,
`SingleDispatch`: an execution is dispatched at most once per overlapping processor. `DispatchBound` alone is not
inductive: nothing in it says why a second processor cannot pick up an execution again.
`DispatchInv` counts for each execution the dispatches made plus the claims on it
(processors that hold it in their batch or have cleared it): a claim is made only while
`queued_at` is set, `queued_at` is never set again, and an execution in the queue has not
been dispatched. `NothingLostSilently`: a committed execution outside the queue was
dispatched, is held by whom will dispatch it, or was hit by a fault. `FifoAdmitted`:
with one API thread, no administrators and no rebuilds a user's executions leave the
queue in the order in which they joined it, however many processors overlap. `FifoInv`
says that timestamps follow the commits and that a processor in the middle of a batch
leaves only later executions to others. Each hypothesis is needed: two threads commit out
of the order of their timestamps, the batch of an administrator has no order, and an
execution skipped for its script is overtaken. `PromiseKept`: with one processor
`ExecutionQueue` implements `Admission` under the mapping `Stage`: an execution waits at
most once, is admitted once and for good, its run task is sent at most once and only after
that, and only a fault keeps an admitted one from being sent. `Admission` says nothing of
the limit or of room under it: that is `LimitRespected` and `QueueDrains`; by `LoneInv` what the
processor holds is still in the queue and what is lost is in nobody's hands, so that each
step is a step of the promise or a stutter.

**`DockerExecutionProofs`.** `TypeCorrect`; `SettledFinal`, which is inductive by itself;
`GracePeriodRespected` for at most one dispatch (`Dispatches \subseteq {0, 1}`: what
`SingleDispatch` gives): by `GraceInv`, while there was no fault, an execution dispatched
recently is in the hands of no monitor of failed services, since before its dispatch
nothing that the monitor selects is true of it.

**`BatchExecutionProofs`.** `TypeCorrect`, `WholePipeline`, `StepsInOrder`: `PipelineInv`
says that a job succeeded only if the job of the step before it on which it depends did
(`InOrder`), that the ids
a row or a monitor holds include one of the last step, and that a verdict FINISHED was
read off such a job; successes and ids outlive every change of the list of jobs (`Kept`).
`EveryJobTracked` (`TrackInv`): when the pipeline is submitted once, whoever holds ids
holds all of them, or is the task that is about to record them. `SettledFinal`.

**`AccountsProofs`.** `TypeCorrect`; `LocksEarned` (`LockInv`: what a login found is less
than the wrong passwords by the time it writes its count back); `DeletionsAudited`
(`AuditInv`: a deleted row has a record, and its records plus the requests and the cleanup
runs that still have it loaded are at most all the threads and runs: nobody loads a row
that is gone); `ResetsBounded` (`ResetInv`: the uses of a token
plus the requests that found it valid are at most the threads, and a valid token has no
use).

**`ServicesProofs`.** `SignedOutStays` (`SignInv`: a sign-out under way has read every
active session up to where it looked) and `UsedOnce` (`RotateInv`, with `ResetsBounded`'s
count for `Accounts`); `BlockedToTheEnd` (`BlockInv`: a listed token has an entry that
lasts as long as the token); `ClientsLimited` (`LimitInv`: active clients plus requests
that counted; `EndInv`: what is left of the newest token plus the time since the client
ended is at most a lifetime); `RefusalsListed` (`RefusalInv`: a refusal that is yet to be
recorded is younger than the window of its limit, and who is told of it has an event that
was found or inserted), with the exceptions of section 3, for any callers, addresses,
windows and quotas.

**`UserDataProofs`.** `OptOutsHonoured` under `MaxGap <= Lookback`, the condition under
which the window of the task has no holes; `LinesPolledOnce` (`LogInv`); `ListsHold`
(`AccessInv`: unless requests overlapped at most one is under way, and in the row and in
what it will write naming users or roles restricts the script); `CredentialsErased`
(`CredentialsInv`); `ServicesCorrect`, the types of all parts (the invariants above, and
in `BoundsInv` the bounds that they do not need: lifetimes of tokens and entries, ages of
opt-outs, numbers of lines).

**`LifecyclesProofs`.** `CachesFresh` (`AgeInv` bounds the age of a value by what it was
built from, the time in the cache and the time since its computation began, for entries,
computations under way and values handed to a task); `OpenEODone` (a verdict FINISHED was
read of a job that finished, and jobs stay finished); `PagesMissNothing` (`PagesInv`:
while no row was deleted, or ended under a filter or order that sees it, a row that is
due is not before the offset of the next page, because the number of rows ahead of it
only grows; `EndsInv` makes the default order total; the lemma `FullPage` counts the rows
of a page); `LifecyclesCorrect`, the types of all parts (`PartsInv`: the invariants of this
section, and the bounds that they do not need. For the pages, `PageBounds`: an end is
counted by the executions that ended or are gone, and a page that is full has a row with
fewer rows ahead of it than there are. For the builds, `ScriptBounds` in `DeliveryProofs`:
messages plus uploads under way are at most the uploads plus the faults).

**`DeliveryProofs`.** `EmailOneSender` (`TakerInv`: SENDING has a taker unless a worker
was lost; `LoneInv`: without faults requests, messages and tasks that send are one while
the row says SENDING, none otherwise); `EmailDelivered` (`CountInv`: what the row counts,
and what a task has passed, was delivered, or withheld by a worker without an API key); `EmailDeliveredOnce` (`OnceInv`: deliveries of
a batch, plus claims, messages and tasks that still have it to come, are at most the
accepted sends plus the faults: each action moves one of them, and only an accepted
request or a lost worker adds one); `UploadsAreBuilt` (`BuildsInv`, by what was `mixed`:
unless builds overlapped, a row was deleted under an upload or something other than a
builder failed (the HEAD before a push, say), a builder is alone, what it
fetched is the archive or another build is to come, and a row that says SUCCESS over
another image has a build to come; unless uploads overlapped the configuration of the row
is that of the archive or the upload that will push it is under way).

## 5. What is only checked

Liveness (`QueueDrains`, `ExecutionEnds`, `ServiceReclaimed`, `StaleReached`,
`ComesToRest`, `SendingEnds`, `Reconnects`) needs `ENABLED`, which the prover does not
handle. No module declares a RECURSIVE operator.

## 6. Plan

1. Abstract: one lifecycle of an execution (open, cancelling, ended, reopened by a
   redelivery) that Docker, Batch and openEO executions implement.
2. Prove that the exceptions of the conditional properties are the only ones: each
   conditional property without its condition fails by a step that the condition names.

## 7. Not modelled

The components marked `not_modelled` in `PROJECT.json`: news, boundaries and groups are
CRUD and queries by single statements; migrations and deployment are generated or
scripts. Inside modelled components: filters, sorting other than the sorts of
`ExecutionPages`, parsing and validation of parameters, serialization, the text of logs
and emails, Earth Engine tasks, job definitions and array jobs, encryption, the numbers
of the configuration, the queries of the statistics, the notebooks and the setup
scripts.
