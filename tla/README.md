# Verification of kenkui-server

TLA+ models of kenkui-server, the runs that model-check them with TLC, and
theorems about them that TLAPS proves. The server turns EPUBs into audiobooks:
clients admit *jobs*, jobs are rendered by *attempts* running in processes of
their own, and what the processes share is in a database and, when hosted, in a
bucket.

Paths below are relative to the repository; `kenkui_server/` stands for
`src/kenkui_server/`.

## 1. The system

| part | state it keeps | operations | talks to |
|---|---|---|---|
| Job state machine (`jobs/models.py`, `jobs/transitions.py`) | none (pure) | `transition` | everything that changes a job |
| Repositories, SQLite (`storage/repositories.py`, `storage/database.py`) | jobs, job_events, dispatches, execution_leases, artifacts, job_failures, job_idempotency, assets, inspections | admission, guarded update with event, cancellation, dispatch update and close, claim, renew, release | API, supervisor, workers |
| Local supervisor (`compute/local.py`) | a thread, its children | `start`, pass, spawn, reap, `close` | repositories, worker processes |
| Managed workers (`compute/managed_worker.py`) | a pipe to the API | kill the worker's process group when the pipe closes | supervisor, worker |
| Worker (`worker.py`) | where it is, the versions it read, the output file | one attempt | repositories, the kenkui library |
| Dispatchers (`jobs/dispatcher.py`) | none | `submit`, `recover` | repositories, runner |
| Hosted repositories (`storage/postgres.py`, `storage/postgres_execution.py`) | as SQLite, plus credit accounts, authorizations, ledger, lots, payment events, identities, notifications | admission with debit, update with settlement, claim | API, Modal functions |
| Modal submission (`compute/modal.py`, `deploy/modal_app.py`) | none | `start`; recovery every minute, retention every hour | repositories, Modal |
| Hosted worker (`compute/hosted.py`) | uploaded objects | publish before completing, checkpoints, notify after completing | R2, repositories |
| Credit lots (`storage/credit_lots.py`) | lots, allocations | grant, reserve, finalize | billing repository |
| Checkpoints (`storage/checkpoints.py`) | job_checkpoints, R2 objects | restore, save | worker |
| Assets (`api/assets.py`, `storage/assets.py`) | assets, inspections, objects | upload, replace a cover, inspect | R2, repositories |
| Retention (`storage/retention.py`) | deletion marks | sweep of sources, artifacts, abandoned objects, checkpoints | R2, database |
| Notifications (`notifications/`, `api/notifications.py`) | one claim per job and channel, address and preference of a reader | claim, send, mark delivered, change preference, unsubscribe | worker, SMTP |
| Event stream (`api/jobs.py`) | position of each client | list events, read snapshot | repositories |
| Payments (`billing/`) | payment events | webhook, grant, pricing | Stripe, billing repository |
| Authentication, schemas, voices, wiring | none of their own | | |

Processes never call each other while a job runs; they meet in the database.
Control flows through four records of a job:

* the **job row**, changed only by an update that compares its version and
  appends one event (two storage moves, in claims and in cancellations, are
  made without `transition`, and a hosted claim compares no version);
* the **dispatch**, the runnable side of the job, with a version of its own;
* the **lease**, a token with an expiry time and a count of attempts; a claim
  replaces the token, and job updates of other attempts are refused;
* in hosted mode the **authorization**, credits reserved at admission and
  settled or released by the transaction that ends the job.

What is hard: attempts that overlap because a lease expires under a running
worker; workers, supervisors and API processes that die between any two steps;
cancellation racing completion; dispatch updates that do not look at the lease;
output files unlinked by late handlers; PostgreSQL transactions that read
before they wait; objects that are written and deleted outside the transactions
that name them; submissions, acknowledgements, connections and mails that get
lost. The complete
list, each hazard at its line with the properties that watch it, is in
`PROJECT.json`.

What makes each component correct:

* *executor*: a job changes by legal moves only, each with one event; a
  terminal job never changes (in hosted mode: except by one claim that overtakes
  it); an artifact appears exactly with success, is the newest attempt's, and
  its file stays; every job ends; a requested cancellation ends in `cancelled`;
  claims keep live attempts within the limit;
* *credits*: conserved; reserved while the job is unfinished; spent exactly on
  published jobs; finalized in the end;
* *event stream*: a client receives the history once and in order, and all of
  it if it reconnects;
* *ledger*: lots, ledger and balance agree; one grant per reference; hosted
  storage does what the in-memory repository does;
* *checkpoints*: no checkpoint of a lost lease or a cancelled job is committed,
  the committed one stays until the next is, a restore finds its object;
* *retention*: nothing in use is deleted, every object keeps a row until it is
  deleted, and everything with a row is deleted in the end;
* *notifications*: at most one mail, only of a completion that was committed,
  only where it is wanted.

## 2. Modules

| module | models |
|---|---|
| `JobTransitions` | statuses, event types, `Legal` moves of `transition`, the two `StorageMoves` |
| `JobLifecycle` | the abstract specification: what an executor promises of a job if it acts on what it has read under a lock; the local one does |
| `HostedLifecycle` | what the hosted executor promises: the same, except that a claim may overtake a job |
| `WorkerProgram` | the control flow of `LocalJobRunner._run` as tables: where each read and each commit leads |
| `JobTables` | the tables both executors share, the workers' memory, and the updates both make |
| `JobTablesProofs` | lemmas about those updates, for both executors |
| `LocalExecution` | API processes, supervisor threads, worker processes over SQLite |
| `LocalExecutionProofs` | its theorems |
| `HostedExecution` | claims, submissions, containers and credits over PostgreSQL |
| `HostedExecutionProofs` | its theorems |
| `CreditLedger` | the credits of accounts: allowances, packs bought through Stripe, lots, admissions, ends of jobs, the ledger |
| `CreditLedgerProofs` | its theorems |
| `CreditBook` | the abstract specification of credit storage: the in-memory repository of `billing/models.py` |
| `Pricing`, `PricingProofs` | what a job costs, and its theorem |
| `HostedCheckpoints` | what attempts leave in the bucket: checkpoints in two transactions around an upload, the registered output |
| `Retention` | sources, admissions and the hourly sweep, over `HostedCheckpoints` |
| `RetentionProofs` | theorems about both |
| `EventStream` | responses, connections and clients of one job's events |
| `CompletionMail` | the notifier of a finished job against the reader's address and preference |
| `JobFeed` | both over the moves of `JobLifecycle` |
| `JobFeedProofs` | its theorems |
| `SumFacts` | lemmas about sums over finite sets, of any size |
| `MCLocalExecution`, `MCHostedExecution`, `MCCreditLedger`, `MCRetention`, `MCJobFeed` | values of the constants for TLC |

```
JobTransitions <- WorkerProgram <- JobTables <- LocalExecution <- LocalExecutionProofs
       ^                            ^   ^------ HostedExecution <- HostedExecutionProofs
       |                            '---------- JobTablesProofs (used by both proofs)
       |------------- JobLifecycle  (INSTANCEd by LocalExecution)
       |                  ^------ HostedLifecycle  (INSTANCEd by HostedExecution)
       |                  |              ^------ JobFeed <- JobFeedProofs
       |                  '------ EventStream, CompletionMail <- JobFeed
       '------------- HostedCheckpoints <- Retention <- RetentionProofs

CreditLedger <- CreditLedgerProofs     (INSTANCEs CreditBook)
SumFacts <- CreditLedgerProofs, HostedExecutionProofs
Pricing <- PricingProofs, MCCreditLedger
```

### State and actions

A job is absent, then has a status, a version, and its history `events`.
`artifact[j]` is the attempt whose file the artifact row names, 0 if there is no
row; `failure[j]` the failure code. A claim draws a fresh token and counts one
more attempt, so the attempt number stands for the token and worker `<<j, a>>`
is the process started with attempt `a`'s token. A worker remembers its point
in the program, the job version it read (`seen`) and the dispatch version it
read (`dver`); everything else it uses it reads again. Each read
(`repositories.jobs.get`) and each transaction is a step; what happens between
them is local and belongs to the step before. `WorkerProgram` names the points.

*Local.* Every method of `Repositories` runs in one `BEGIN IMMEDIATE`
transaction or one query, hence is one step. Expiry is a flag: `Expire` clears
it at any time. Here a renewal only keeps a live lease live, as it reads the
clock inside `BEGIN IMMEDIATE`, when nobody else can claim. A server is an API
process (`down`, `up`, `closing`) with its supervisor thread (`none`,
`scanning`, `spawning` between a committed claim and `Popen`, `stopping`,
`ended`), the children it spawned and those it has asked to cancel. `Managed`
is `stop_workers_on_close`; `SupervisorMayFail` says whether an exception may
end a supervisor thread (a locked database or a failing disk raises there).
One pass is not one step: claims and reaping of different jobs interleave with
everything else.

*Hosted.* A job update first locks the lease row (`Lock`, i.e. `check_lease`
`FOR UPDATE`) and commits later; the lease may expire and others may act in
between. A claim takes the advisory lock, reads the clock and the job
(`BeginClaim`), waits for the lease row, and then ends as `ClaimAttempt`,
`ClaimExhausts` or `ClaimGivesUp`; it uses the *first* reading of the job.
Other transactions may touch the claim's job in between, as they may in
PostgreSQL at READ COMMITTED. `HostedLifecycle` says what is left of a job's
life then: `Overtake` ends a job once more, or ends one that was asked to cancel
as failed.

`renew_execution` reads the clock as an argument of its statement, before it
waits for the pool, the network and the row, so a renewal is not one step with
its clock. A lease is `live`, `expired`, `released`, or `renewing`: expired, but
the heartbeat read the clock before, and its statement is still on the way
(`ExpireUnderway`). `Renew` makes such a lease live again, unless a claim or a
release got there first. A renewal that arrives in time is the absence of
`Expire`. A claim keeps in `past` the leases that its own reading of the clock
takes for expired; a renewal that arrives while it waits removes its lease
(`Recounted`), since the claim reads the rows after its wait.

A completing worker uploads before it locks (`Publish`). `ConnectionLost` breaks a transaction,
committed or not; `SubmissionLost` loses an attempt between its claim and Modal.
`settled`, `released` and `reserved` are the states of `credit_authorizations`;
`available` is the account's balance. One account is modelled, as accounts
share nothing but the global limit. The clocks of API and workers are taken to
agree, which the code takes for granted as well.

*Credits.* `HostedExecution` has one balance and asks when a job is charged;
`CreditLedger` drops workers and asks how several accounts are kept. Its tables
are `balance` (`available_credits`), `ledger` (an entry per reference used),
`lots` and `allocation` (which lots a job's credits come from),
`authorization` and `idempotency`. Every transaction locks the row of its
account first, so it is one step, except an admission: `BeginAdmission` takes
the lock and makes the readings that decide it, `Admit` or `Refuse` ends it.
That shows what the lock protects. A job is the request that may create it; a
client that repeats a request has another member of `Jobs` with the same key
and specification. `Init` is what the migration to lots
(`0004_credit_lots.sql`) leaves: old accounts with one `legacy` lot, partly
reserved by the jobs then unfinished. `Finalize` is `settle` or `release` in the
transaction that ends a job; `Finalize` of a job already finalized changes
nothing and is left out, and so is a grant of a reference already used. `Served`
says that `account_for_identity` succeeds: when the operator deploys another
`KENKUI_BETA_CREDITS` (`Redeploy`) the grant of an account that has the earlier
amount is a `payment_reference_conflict`, and all its billed requests fail until
the value is restored. Checkout Sessions, their delayed payments and their
webhook events are Stripe's, modelled from how `billing/stripe.py` uses them:
events arrive in any order and any number of times. `CreditBook` is the same
storage without a database, each operation one step on one account, as
`InMemoryBillingRepository` keeps it; `FollowsBook` says that every step of the
ledger is a step of the book. It is stated as an action property, because the
migrated tables do not begin empty.

*Objects.* `store` is the bucket, a set of (kind, row id). `HostedCheckpoints`
keeps of the execution what objects depend on: a claim is one step together with
the attempt's first update, the lease is live or not, and a container is at a
point of `render_job`. `HostedCheckpointStore.save` is `BeginSave`, `Insert`,
`UploadCheckpoint`, `BeginSelect`, `Select`; a `Begin` is the check after which
the transaction holds the lease row, so a claim waits but a cancellation does
not. `restore` is `Restore`, then `Download` outside the transaction. `_publish`
is `RegisterOutput`, `UploadOutput`, and `Complete` commits the artifact. Each
upload may raise before or after the object is stored, each transaction may be
rolled back or committed without an answer, and a container may die anywhere.

`Retention` adds the sources (the object before its row in `PutSource` and
`RecordAsset`; a new cover makes another source) and admission in two steps: the
preflight of `create_job`, which looks at the object but not at `deleted_at`,
and `Admit`, which locks the asset row. A sweep is one of four transactions in
any order: `SweepSelect` takes any expired rows (LIMIT and SKIP LOCKED),
`SweepLock` has them locked, `SweepDelete` removes one object, `SweepCommit`
changes the rows. Only sources need the two first steps, as nobody else locks
the rows of the other kinds once they are expired. Time is `rest[j]`, how long
the job has been over: 24 hours, 7 days, 30 days. The age of a row is not kept,
a sweep may find any row old enough whose container has stopped; a container
lives for 24 hours at most (`timeout` of `render_job`), which is the age at
which rows expire.

*News.* `EventStream` is the loop of `stream_events`: `List` reads the history,
`SendNext` sends what is new, `Check` reads the snapshot and ends the response
if the job is over. `wire` holds what was sent and not received; `Break` loses
it, `Reload` loses what the page had received as well. `CompletionMail` takes
the four calls of the notifier as steps; `SendRaises` says that the mail server
may have accepted what it raised on, and `NotifierFails` that the container dies.
`wanted` is a history variable: the addresses at which mail was wanted since the
notifier began. `JobFeed` composes both with the moves of `HostedLifecycle`; the
move to success is split as in the worker, `Rendered` reads the job, and
`Succeed`, `SucceedUnheard` (the acknowledgement is lost) or `LoseRace` ends it.
`Move` includes `Overtake`: the jobs are those of `HostedLifecycle`, which
`HostedExecution` is proved to implement, as mail exists in hosted mode only.
What `NewsIsCommitted` says is that the news is of a commit. It does not say that
the book can be downloaded for ever after: `get_artifact` refuses a job that a
claim has overtaken, and the retention sweep removes the artifact after 30 days.
A second notifier of one job cannot exist while a job is completed once, so the
branch of `ClaimMail` that finds a claimed row is there because it is in the
code, and no property rests on it.

*Prices.* `CreditsForCharacters` is the formula of `billing/pricing.py`; the
prices of `MCCreditLedger` are computed by it.

## 3. Runs

| run | instance | what it shows |
|---|---|---|
| `LocalAttempts` | 1 job, 2 API processes, 2 attempts, versions to 3, 1 interruption | safety of every interleaving of attempts, cancellation, expiry and deaths; refinement of `JobLifecycle` |
| `LocalLimit` | 2 jobs, 1 attempt each, limit 1, 2 API processes with a supervisor each, 1 interruption | the supervisors together keep to the limit on live attempts |
| `LocalLiveness` | 1 job, 2 attempts, managed workers, shutdown and crash | every job ends; a requested cancellation ends as `cancelled` |
| `LocalSupervisorLost` | 2 jobs, 1 API process, supervisor may fail | **violation**, see below |
| `HostedAttempts` | 1 job, 2 attempts, overlapping claims, 1 interruption | reservations follow the job under the claim race, and end; exactly published jobs are charged; the newest attempt publishes, once; refinement of `HostedLifecycle` |
| `HostedAccount` | 2 jobs of different price, balance for one of them or the other, overlapping claims, a late renewal | credits conserved; no claim starts an attempt beyond the global limit |
| `CreditLedger` | an old account with 2 unfinished jobs, a request and its repetition, 2 packs; a new account; 2 allowances; limit 2 | lots, ledger, allocations and balance agree; a key creates one job; the limit per account holds; grants are spent first, the ledger only grows, and what is paid is credited; every step is a step of `CreditBook` |
| `HostedClaimRace` | 1 job, 2 attempts, overlapping claims | **violation**, see below |
| `HostedRenewal` | 2 jobs, 1 attempt each, limit 1, a late renewal | **violation**, see below |
| `StorageSweep` | 1 source, 1 job, 2 attempts, 1 key saved at most once by each, 1 failed sweep or upload | nothing the job needs is deleted, nothing loses its row, and everything is reclaimed |
| `SourceRace` | 1 source, 1 job, 1 attempt, no checkpoints | **violation**, see below |
| `JobFeed` | 1 job of at most 3 events, 1 client, 2 addresses, 2 broken connections or reloads | events once, in order and all of them; one wanted mail; no news but of a committed completion, also if a claim overtakes the job |

Bounds. Two attempts are one overlap of an old and a new attempt; a third adds
only another old one, and the theorems of both modes hold for any number. `MaxVersion`
stops progress reports once the version is reached, never another move; at 2 or
3 it leaves at least one report between any two other moves; where only limits
and balances matter it is 1. `MaxInterruptions` counts deaths, lost connections,
late renewals and shutdowns together. One job suffices where jobs do not meet;
where they do (limit, balance) two compete. The two servers of
`LocalAttempts` and `LocalLimit` are interchangeable and no property of these
runs is a liveness property, so their symmetry is sound. In `CreditLedger` prices 1 and 2 over an
allowance of 2 and packs of 1 and 2 make jobs share a lot, one job draw on
several lots, and requests meet a balance, or a limit, that is full at first and
free later. The repeated request has the same specification; one with another
(`idempotency_conflict`) is refused at the same place and only answered
differently. In `StorageSweep` two attempts give a key two versions, so that a
version is superseded while the first attempt may still download it, and an
output that is abandoned beside one that is published; the four transactions of
a sweep meet every step of an attempt. In `JobFeed` three events are a job that
runs, reports or is cancelled, and ends, and two breaks lose an event and the
response that was to repeat it; jobs and clients share nothing but the history,
so one of each is enough.

`CHECK_DEADLOCK FALSE` is set everywhere: a system whose jobs have all ended,
with its bounds used up, really stops.

Fairness. Supervisor passes repeat every 0.1 s and Modal calls the recovery
function every minute, so claims of a claimable job are fair; a booted server
is part of the liveness claim (`WF(Boot)`), since nothing else recovers. Worker
steps are weakly fair: the process runs. A render ends although its progress
reports may interrupt it again and again (strong fairness). A lease expires
when no living worker renews it. In hosted mode `BeginClaim` is strongly fair,
because the recovery function visits every unfinished dispatch while other
claims come and go. Nothing is assumed of a renewal. In
`CreditLedger` transactions end (they hold no lock for ever), and Stripe repeats
an event until the webhook answers, hence strong fairness of delivery: the
account's lock comes and goes. In `StorageSweep` claims, containers and the
sweep go on, `retain_objects` runs every hour whatever became of the last run
(weak fairness of `SweepStep`), time passes, and a renderer does not save and
restore for ever (strong fairness of `RegisterOutput`: a book has finitely many
chapters). In `JobFeed` responses go on, the network delivers what it holds,
and the client reconnects when a response ends before the event that ends the
job, as a browser's EventSource does; no job is assumed to end. Nothing is
assumed of users, deaths, losses or expiry under a living worker.

### Violations

`LocalSupervisorLost`. `start` promises "Schedule committed work; scanning also
recovers failed process starts." An exception that ends `_supervise` leaves
`self._thread` set, so later calls of `start` do nothing. In the trace a first
job starts the supervisor, an exception ends it, and a second job is submitted:
nobody claims it, although the process serves, until it is restarted or another
process scans the database. If `start` replaced a thread that has ended, the
same run would be green (258 672 states). `LocalLimit` and `LocalLiveness`
assume `SupervisorMayFail = FALSE`; the safety run does not.

`HostedClaimRace`. A worker of the last attempt locks its live lease to
complete; the lease then expires; a claim starts, reads the job as `running`
and waits for the lease row; the worker commits `succeeded` and settles; the
claim goes on with its first reading, finds the attempts exhausted and sets the
job to `failed` by id alone. The client sees a failed job, charged, with an
artifact it cannot download. `deploy/README.md` expects "released allowance
after failure/cancellation and exactly one settlement after success".

The same reading has two more effects, which no run of their own shows but
`HostedLifecycle` leaves room for. A claim that reads `running` and then waits
while a cancellation is requested ends the job as `failed`, although `README.md`
says "the worker later publishes terminal `cancelled`"; so the hosted executor
has no counterpart of `CancellationEnds`. And a claim with attempts left starts
another attempt at a job that has succeeded meanwhile; that attempt finds the job
over and stops, so that `PublishedOnceByNewest` compares an artifact with the
newest attempt at the moment it is published. What survives the race is checked
and proved: the history, the reservation, `ChargedIfPublished`,
`PublishedOnceByNewest`, and `HostedLifecycle`.

`HostedRenewal`. The heartbeat of a first attempt reads the clock and waits for
its connection; its lease expires; a claim of another job counts no live lease
and starts a second attempt; the renewal arrives, compares the expiry with its
old reading, and the first lease is live again. With a limit of one, two
attempts render. `deploy/README.md` says "Current defaults are two simultaneous
jobs globally". No claim counts too little (`ClaimsWithinLimit`): the
renewal alone adds a live lease.

`SourceRace`. A source is a day old and no job needs it. The sweep's SELECT takes
its snapshot; a user who still has the book open creates a job, whose admission
locks the asset row, finds `deleted_at` NULL and commits; the sweep then locks
the row, which was locked and not updated, so READ COMMITTED does not evaluate
NOT EXISTS again; the object is deleted and the job can only fail, although
`retention.py` says "Lock the asset during deletion; admission takes the same
row lock". The same follows if a sweep deletes the object and is rolled back
while an admission is past its preflight. `ObjectsTracked`, `ArtifactKept`,
`RestoreFinds` and the others of `StorageSweep` hold all the same.

## 4. Proofs

`LocalExecutionProofs` proves, for all sets of jobs and servers, limits, bounds
and modes that satisfy the named assumptions (attempts and limit positive,
jobs finite, bounds natural, modes Boolean):

* `TypeCorrect`, `Inductive`: `Spec => []TypeOK` and `Spec => []IInv`;
* `HistoryCorrect`, `OutcomeCorrect`, `PublishedFileSafe`, `DispatchCorrect`,
  `NewestPublishesSafe`: the parts of `IInv` a reader cares about;
* `NewestMarks`: the action property `NewestAttemptMarks`;
* `LimitCorrect`: `ActiveWithinLimit`, with the finite-set theorems;
* `Implements`: `Spec => LifecycleSpec`, the refinement, each step mapped to a
  move of the abstract job or to a stutter.

The argument. None of the table invariants is inductive alone, because a worker
acts on what it read earlier. `IInv` adds what its memory can still be worth:
its job snapshot is outdated or its commit is legal (`SnapshotSound`); one that
skips the attempt does so for a job that will not run again (`SkipSound`); one
about to complete has its file (`OutputWritten`); one about to mark its
dispatch is the newest attempt or has an outdated dispatch version
(`DispatchSnapshotSound`); and nothing refers to a job not yet admitted
(`UnadmittedIdle`). The proofs go
through four steps: `Frame` and the shape lemmas say which tables an action can
change and how; typing is preserved action by action; then each conjunct of
`IInv`, one step per action that can disturb it; then the temporal theorems.

`CreditLedgerProofs` proves, for all accounts, requests, sessions, allowances
and limits that satisfy the assumptions of the module:

* `LedgerPermanent`: `LedgerAppendOnly`, from the unique reference alone;
* `AdmissionsSerial`: `Spec => []IInv`, where `IInv` says that an admission
  under way holds its account's lock alone and that what it read under it, the
  jobs with its key and the count of unfinished jobs, is still so
  (`ReadingsCurrent`), and that the key rows are the admitted jobs with a key
  (`KeysRecorded`). Without the first, two admissions could pass the same check;
  without the second, a missing row would say nothing;
* `RetriesSafe` and `LimitSafe`, that is `OneJobPerKey` and
  `AccountWithinLimit`, which are parts of it.

On top of these it proves what the ledger and the lots sum up to: `BooksAgree`
(`Spec => []BooksInv`), and from it `TypeCorrect`, `LotsBalance`,
`LedgerBalance`, `LotsAllocations`, `FinalizeNeverBlocked` (a reservation can
always be settled from the lots it was taken from), `GrantsFirst`, and
`StorageFollows`, that is `FollowsBook`: the refinement of `CreditBook`.
`BooksInv` is `IInv` with `Books`: types, the three sums, and two facts without
which they are not inductive. `AllocationsSound`: what a reserved job takes, it
takes from lots of its own account, and that adds up to its price; with the
sums, no lot is short of it when the job is finalized. `UnaskedFree`: a request
that was not answered has taken nothing, so an admission adds to nothing.
The proof goes from one lot to the account:

* `TurnsFill`: of the lots that come first in `Precedes`, however many, the
  shares add up to the debt or to all they have, whichever is less; by induction
  over the sets of lots closed under `Precedes`. So the debt is filled when the
  account's lots have that much (`SharesFill`), and a share computed from the
  sum of what earlier lots have, as SQL does, is the one the loop of the book
  computes from what they gave (`GivenInTurn`);
* `ReserveLotsFacts`, `FinalizeLotsFacts`, `AppendLotFacts`: what an operation
  does to the lots of one account and to what they have in all; `TakenMoved`: a
  job that moves changes what is taken from a lot by its share; `EntryRecorded`:
  an entry changes the sum of the ledger by its credits;
* one step per action that moves credits, and for the initial state what
  migration `0004_credit_lots.sql` makes of existing balances.

`SumFacts` holds the facts about sums over finite sets that both credit proofs
use: equal summands, one summand changed, two sums added, a sum split, a bound.
They need induction over finite sets, which the library states with an operator
parameter that no installed prover can instantiate. They are proved without it:
strict inclusion on the subsets of a finite set is well founded, so a least
subset outside the *set* of the good ones would exist, and does not.

`HostedExecutionProofs` proves, for all jobs, attempts and limits and however
claims overlap, `TypeCorrect`, `HistoryCorrect`, `ReservationCorrect`
(`ReservedWhileUnfinished`), `ChargedCorrect` (`ChargedIfPublished`),
`NewestPublishes` (`PublishedOnceByNewest`), `LimitRespected`
(`ClaimsWithinLimit`), `Conserved` (`CreditsConserved`) and `Implements`
(`Spec => LifecycleSpec`, the refinement of `HostedLifecycle`), from `Inductive`.
Its `IInv` adds to the invariants of the tables what is still true of a reading
when it is used:

* `SnapshotSound`: what a container remembers of its job is outdated, or its
  commit is legal; `LockNewest`: only the newest attempt has the lease row
  locked. Both together make a completion one of the newest attempt on a running
  job, hence the first.
* `PastSound`: a lease that a claim takes for expired is not live when the claim
  counts, although it may be again as soon as it has counted.
* `ClaimSound`: the job a claim read as unfinished has ended once at most since,
  and a cancellation it has read about was requested; with `QueuedFirst` and
  `UnfinishedUnended` (no event of an unfinished job ends it), this is what
  `Overtake` of `HostedLifecycle` allows.
* `UnadmittedIdle`, `UnadmittedNew`: nothing refers to a job not yet admitted.

`RetentionProofs` proves, for all jobs, checkpoints and times, `TypeCorrect`,
`TrackedCorrect` (`ObjectsTracked`), `ArtifactSafe` (`ArtifactKept`),
`RestoreSafe` (`RestoreFinds`) and `NewestKept` (the action property
`NewestCheckpointKept`, which speaks of committed versions, that is of rows; that
their objects are in the bucket is `ReadyStored` and `RestoreSafe`). They relate an object of the bucket and the rows that
name it, which are changed in different steps by a container, an upload and the sweep, so
`IInv` says what each point of their programs knows: `SweepSound` (what a
sweep has selected stays expired until it commits, what it has deleted stays
deleted), `VersionSound` and `OutputSound` (a version or an output on its way
has its row, and its object once it is uploaded), `SavesNumbered` (so no two
versions share a row), `ReadyStored` (a selected version of a job that is not
over can be restored), `LockHeld`, `BegunOnce`, `AdmittedOnce` and `RestQuiet`
(time counts for a job once it is over and its containers are gone). The proof first
gives the shape of every action per variable, then typing, then one lemma per
conjunct.

`JobTablesProofs` holds what the local and the hosted proofs share: facts about
`JobTransitions` and the operators of `JobTables`.

Every invariant above was checked by TLC on the runs of its module before it was
proved (`IInv` of the hosted module on 261 336 and 2 698 495 states, `IInv` of `Retention` on 1 142 369 and 231 502, `BooksInv` on
126 954).

`PricingProofs` proves `PriceCoversCost` for every length of a book and every
cost: the price is the least number of whole credits that covers the cost with
its margin, and is zero exactly for a book without speech.

`JobFeedProofs` proves, for all jobs, clients, addresses and bounds, the three
invariants of `JobFeed`: `ReceivedInOrder`, `MailedOnce` and `HeardIsCommitted`. None
is inductive. `FlowOK` says that what a client has received, followed by what is
on the wire for it, counts 1, 2, ... within the history, and that an open
response has sent just that: without it a reconnection could skip or repeat.
`NotifierOK` says that no mail is out until the notifier is past sending, that
it sends to an address wanted since it began, and that it exists only for a job
that was completed. `JobsOK` says that a job with a success in its history has
ended and keeps its artifact row. The jobs may move at any step, so `Later` (histories only grow, a
success stays) is all the streams and the mail rely on.

Only model-checked: the liveness properties (`EveryJobEnds`,
`CancellationEnds`, `ReservationEnds`, `PaidIsCredited`, `ObjectsReclaimed`,
`EveryEventDelivered`). They rest on fairness, and fairness on `ENABLED`, which
is out of the prover's reach. Every invariant, action property and refinement
that a passing run checks is also stated by a theorem.

## 5. Not modelled, and the plan

Not modelled on purpose: wording, progress counts, job specs and casting,
HTTP routing and error mapping, EPUB parsing, reading covers, voices, SMTP,
external identity providers, schema generation, polling intervals, digests of
checkpoints (a corrupt download is one that raises), the preview of prices.
`PROJECT.json` gives the reason for each.

Left out of modelled parts, and what that means:

* a source whose upload handler dies before it inserts the row stays in the
  bucket for ever. The model has the step; the properties speak of objects with
  a row, since the code promises no more;
* jobs that were over before migration `0003_retention.sql` keep `terminal_at`
  NULL, so their sources and artifacts never expire; the model has no such jobs;
* the in-memory `RetentionWorker` and `CreditAwareJobAdmission` are not used by
  the server;
* a mail that is claimed and not sent is never sent: at most once is the design;
* the order in which a recovery pass visits jobs, and the pass that a raising
  claim ends; the models visit every unfinished job again and again.

Next: the safety half of the liveness properties as theorems, that is, that a
job, a reservation or an object that has not ended always has an actor whose
step would bring it on.

## 6. Running

`tlc -config <run>.cfg <module>` checks a run (modules and configurations are
listed in `PROJECT.json`). `tlapm <module>.tla` checks the proofs of `SumFacts`,
`JobTablesProofs`, `LocalExecutionProofs`, `HostedExecutionProofs`,
`CreditLedgerProofs`, `RetentionProofs`, `PricingProofs` and `JobFeedProofs`. The
modules contain, before some actions, a mutated form of the action named as
such: replacing the action by it makes the property that `PROJECT.json` lists
with it fail, which shows that the property has teeth.
