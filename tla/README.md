# Specifications of WoL-Monkey

WoL-Monkey wakes machines of a local network. An API process (FastAPI on gunicorn, one
worker process, one event loop) serves browsers and token holders; a separate worker
process sends the packets and polls the machines; both share a PostgreSQL database and
nothing else. The modules here model the parts of it where order, failure and concurrency
matter, check them with TLC on small instances and prove what matters most with TLAPS.

## 1. Inventory

| Component | State it keeps | Operations | What makes it hard |
|---|---|---|---|
| Wake requests: `app/api/wake.py`, `app/services/wake.py` | rows of `wake_attempts`, `wake_jobs`; the request's transaction | `wake_machine` (insert attempt, commit, enqueue), `wake_machine_direct` (insert, send, answer) | two transactions in one request; an exception rolls back what was recorded |
| Job queue: `worker/job_queue.py` | `wake_jobs.status` | `claim_next`, `mark_done`, `mark_error`, `enqueue` | several workers; `FOR UPDATE SKIP LOCKED`; each operation in a session of its own |
| Worker loop: `worker/main.py` | `_shutdown`, the job at hand, an open transaction | `run_worker`, `_process_job`, the signal handler | the job is marked done in another transaction than the work's; crashes between any two steps |
| Ensure-online poller: `app/services/ensure_online.py` | a copy of the machine, the attempt polled | `run` | row locks held while it polls; edits and deletions meanwhile; a deadline counted from another row's birth, with that row's timeout |
| Wake attempts: `app/domain/wake_attempt.py`, `SqlWakeAttemptRepository` | `wake_attempts.status` | `create`, `update_status`, `get_active_for_machine` | the transition table is asked by nobody |
| Machine records: `app/api/machines.py`, `app/api/web.py` | rows of `machines` | create, update, delete | deletion against foreign keys of rows being inserted; unique MAC addresses; two editors of one row; a flush that fails inside a handler that answers |
| Setup wizard: `app/services/setup_state.py`, `app/api/setup.py`, `app/api/web.py` | the row of `setup_state`, accounts, settings, open pages | `advance`, `go_back`, `setup_page`, the forms, `/api/setup/*` | read-modify-write of one row under READ COMMITTED, pages submitted late or twice |
| Login rate limiter: `app/api/auth.py`, `app/api/web.py` | `_rate_buckets`, in the process | `_check_login_rate`, the login form beside it | a sliding window; boundaries; restarts; a second way in that does not ask it |
| Accounts, sessions, tokens: `app/services/auth.py`, `app/security/` | `users`, `sessions`, `api_tokens` | `create_admin`, `login`, `logout`, `validate_session`, token operations | expiry and revocation against use; two secrets per session; answers that leave before the commit |
| Settings: `app/services/settings.py` | `settings` | `set`, `get` | several rows written by one request, each locked until its end; settings that are written and never read |
| State probe: `app/infra/state_probe.py` | none; child processes | `probe` | concurrent probes with timeouts; a second round under the address; pings that outlive their timeout |
| Host network: `app/api/system.py` | none | `list_interfaces`, `discover_hosts` over `/proc/net` | up to six reads for one answer, of tables that change meanwhile; byte orders, masks and a sort decide to whom an address belongs |
| Wake strategies: `app/infra/wake_strategy.py` | none | send a packet | pure output |
| Transactions: `app/persistence/database.py` | a session per request | commit on return, rollback on exception | a lost connection at any point |

How they interact. A queued wake goes from the request through `wake_attempts` and
`wake_jobs` to whichever worker claims the job, which creates an attempt of its own, sends
the packet and, if asked, polls the machine with the prober; the client polls the attempt it
was given. A direct wake does the first half inside the request, and no polling. Operators edit and delete
machines at any time through the API process. The wizard's handlers call the account,
settings and machine components inside one transaction per request. The login endpoint of the
API calls the limiter before the accounts; the form of the login page goes straight to the accounts.

What makes each correct:

- *Queue and worker*: a job is claimed once and by one worker; it has at most one packet; a
  queued job is eventually claimed, a running one eventually reported on; nobody sees half of
  a job's work; what is marked done has its outcome recorded.
- *Attempts*: a terminal status stays; the poller polls the attempt of its own packet or a
  newer one, for the full window of the polled one; rows refer to rows that exist.
- *Wizard*: the columns of its row agree; it is not completed without an account; the account
  and its step come together; requests never wait for each other in a circle.
- *Limiter*: in no window of 60 s does `POST /api/auth/login` let more than five attempts of one address through to the password;
  it refuses nobody without a full window behind them. (The form `POST /auth/login` is not limited: see the findings.)
- *Sessions and tokens*: nobody is let in by what was revoked or had expired when he came; what is
  revoked stays so; a CSRF token is good for its own session, for an hour.
- *Machines and settings*: no two machines with a MAC address; an edit neither undoes another nor is
  undone unseen; a deleted machine does not come back; the answer is what is stored; requests that wait for each other end.
- *Prober and its callers*: a verdict comes in time; a machine that keeps answering is found; processes do not
  pile up.
- *Host network*: an answer says nothing that was not true while it was made; a clearly routed
  address is listed under its interface, and there only.

`PROJECT.json` lists the hazards behind these, each at its line.

## 2. Modules

| Module | Models | Extends |
|---|---|---|
| `WakePipeline` | wake requests, queue, worker loop, poller, attempts, deletion of machines | standard modules |
| `JobLedger` | the abstract promise of the queue | - |
| `AttemptLifecycle` | the abstract lifecycle of a wake attempt | - |
| `SetupWizard` | the wizard's handlers and their transactions | standard modules |
| `LoginRateLimiter` | the limiter | standard modules |
| `AuthSessions` | login, logout, sessions, API tokens, CSRF tokens, and the requests that present them | standard modules |
| `MachineStore` | creation, edit and deletion of machines by API and forms, the settings page | standard modules, `Functions` |
| `StateProbe` | the prober under the poll loop or the status request, in time | standard modules |
| `HostNetwork` | `GET /system/interfaces` and `/system/discover` over a kernel that changes | standard modules, `SequencesExt` |
| `MCWakePipeline`, `MCSetupWizard`, `MCLoginRateLimiter`, `MCAuthSessions`, `MCMachineStore`, `MCHostNetwork` | instances: kinds of requests, names, symmetry | the above, some `TLC` |
| `WakePipelineProofs`, `WakeWorkProofs`, `SetupWizardProofs`, `LoginRateLimiterProofs`, `AuthSessionsProofs`, `MachineStoreProofs`, `StateProbeProofs`, `HostNetworkProofs` | theorems and proofs (`WakeWorkProofs` extends `WakePipelineProofs`) | the above, `FiniteSetTheorems`, `SequenceTheorems`, `WellFoundedInduction`, `TLAPS` |

Each definition with the suffix of a mistake (`ClaimableUnlocked`, `ApiCallsSwapped`, ...) that a
comment calls *Mutant* is a version of the code with a plausible bug; no action uses it.
Putting it in the place of the definition next to it makes a property fail, which shows that the
property watches that piece of code.

### WakePipeline, JobLedger and AttemptLifecycle

*The database.* `status` and `job` are the committed columns of `wake_attempts` and `wake_jobs`,
`info` the columns of an attempt that never change, `machine` the machines. A worker's open
transaction is `txn`, the statuses it has written; `View` puts them over the committed ones. A
row written by an open transaction is locked: `RowFree`. The foreign keys are `Referenced`: a
machine cannot be deleted while a transaction holds an uncommitted attempt of it. A worker's
attempts are named in order of their `started_at`, which is what `get_active_for_machine`
orders by; a job is named by its attempt (`attempt_id` is unique), and `stamp` is its place in the
queue's order.

*The API.* `WakeInsert`, `WakeCommit`, `EnqueueInsert` or `EnqueueRefused`, and `EnqueueCommit` are
`wake_machine` up to each point where another process can come in between; `DirectCreate`,
`DirectSent`, `DirectFailed` and `DirectCommit` are `wake_machine_direct`. `RequestFails` is a lost
connection and `ApiCrash` the end of the process with all its requests. `ToggleEnabled`,
`DeleteCheck` and `DeleteMachine` are the operator's; the check and the delete are two statements.

*The worker.* `pc` follows `run_worker`:
`idle -> claiming -> claimed -> creating -> sending -> picking -> starting -> polling -> probing -> processed ->
committing -> idle`, with `failing` for the handler of line 108 and `down` for a stopped process.
`ClaimLock`/`ClaimCommit` are the two halves of `claim_next` with the row lock between them,
`WakeRefused` and `WakeAllowed` are the look-up of the machine in `WakeService.wake`, `WakeCreate` and `CreateRefused` the
`INSERT` after it (a machine that was deleted in between has the foreign key refuse it, and the session is `poisoned`),
`WakeSent` and `WakeFailed` the packet, `PickActive` the search on
line 69, `StartWaking`, `PollTimeout`, `PollProbe`, `ProbeOnline`, `ProbeOffline` the poller, `MarkDone`,
`Commit`, `MarkError` the end of the loop body. `ClaimFails`, `WakePoisoned`, `WorkFails`,
`CommitFails` and `MarkErrorFails` are a connection lost at each place (the exception that
`_process_job` swallows leaves a session that cannot commit: `poisoned`); `WorkerCrash`,
`Restart`, `Signal` and `Exit` are the process's own life.

*Time.* `Tick` makes every attempt one tick older, up to `MaxTimeout`, at any moment: the age of an
attempt is what `ensure_online.py` compares with `poll_timeout_s`. Each attempt has a `timeout` of its own in `info`, which its
request chose, and the poller takes that of the attempt it polls, be it another request's.

*Abstracted.* The answer of a probe and of a strategy is a free choice; payloads, actors and
strategies are left out; ages above the longest timeout are one; the API's look-up of a machine and its `INSERT` are one step,
since a request whose `INSERT` fails leaves nothing; `error_message` and `finished_at` follow
`status`.

`JobLedger` says what the table promises: `absent -> queued -> running -> done | error`, one holder,
reported on by the holder only, never back to the queue, and no promise that a holder finishes.
`LedgerKept` is `WakePipeline` implementing it, with the worker that works on a job as its holder.

`AttemptLifecycle` says what anybody but the worker sees of an attempt. It appears `pending` or `sent` with a request's commit,
or with a worker's, and then already `sent`, `failed`, `online` or `timeout`. A worker that polled another attempt settles that one in
the commit that adds its own, and only a `pending` or `sent` one. Nothing else changes it, until its machine is gone; then no request
under way and no worker brings it back. `LifecycleKept` is `WakePipeline` with a single worker implementing it:
an attempt is `purged` from the moment its machine is, whether its row was ever committed or not.

### SetupWizard

A request is the sequence of calls left of its handler (`Forms`, `Pages`, `ApiCalls`): `guard` and
`open` are the two checks for completion, `show` the check of `setup_page`, `advance` and `back` the
calls of the service, `count` and `user` those of `create_admin`, `settings` and `machine` the rest. `req`
holds its transaction: the row it has written (`mine`), the account, settings and machine it has
inserted. `advance` takes three steps, because the code reads the row twice with an await between
and writes at the end: `Read` the steps done, `Load` the row to be changed, `Flush` the columns that
differ (`Merge`) into the newest version of the row. An `UPDATE` waits for whoever has written the row;
an `INSERT` of a key waits for whoever has inserted it, and fails if that one commits (`InsertRow`,
`CreateUser`, `InsertSettings`). `Commit` publishes everything at once; `Fails` is a lost connection.
Pages that were shown can be submitted for ever (`shown`).

*Abstracted.* Passwords, validation and the values of settings; the session that `setup_admin_post`
opens is a row of the same transaction, and whoever has an account can log in, so a machine can be
added as soon as there is one. `GET /` and `/api/setup/status` insert the row as `GET /setup/{step}` does and
change nothing else.

### LoginRateLimiter

`admitted` is the log of attempts that got as far as the password since the process started, `buckets` the lists, as
positions in the log. `Admit` and `Refuse` are the two outcomes of `_check_login_rate`, which `POST /api/auth/login` begins with;
`FormLogin` is `login_post`, the form of the login page, which calls `AuthService.login` without it. The properties that hold are
about the attempts that came through the API (`During`). `Fresh` is the list
comprehension of line 51. A check is one step because nothing in it awaits, the lock is held,
and there is one process (`Dockerfile`, line 50). `Restart` empties the lists.

### AuthSessions

*Rows.* `session` and `token` are the committed rows, `machine` the one that tokens may be bound to. An
identifier is `named` from its insert to the commit. `given` and `pages` are what clients know:
secrets and CSRF tokens. Clients present anything they have been given, at any
later time.

*Requests.* `req` holds what a request presents (`cred`, `csrf`, `target`), who let it in (`by`), its
writes, which are its row locks, and the statement that waits for a lock (`wants`). `over` and `stale` record
what was known of its credentials when it arrived; no action depends on them.
`ValidateSession`, `SessionInvalid`, `require_csrf` and `validate_api_token` let a request in or not; the
session comes first and the bearer token second, where both are taken. A page validates twice (`Page`). The
rest is one action per handler up to each `await` that can wait: `logout`, `logout_post`, `create_token`,
`revoke_token`, `delete_machine` with `TokensUnbound`, and the direct wake.

*The end of a request.* `Answer` and `Commit` come in either order if `AnswerFirst`: `get_db_session`
commits after its `yield`, which FastAPI 0.106 to 0.117 runs before the answer is sent and later versions
after it. `pyproject.toml` admits both, the `Dockerfile` installs the newest. (The requests of `WakePipeline`
commit explicitly before they go on, and its properties speak of tables; pages of `SetupWizard` are
requested anew after each answer.)

*Abstracted.* Secrets, names and scopes of tokens, addresses; one account, which nobody deletes. The
forms of the pages other than the wizard's and `/auth/*` change nothing here (`Other`). An `INSERT` into
`sessions` and an `UPDATE` of the account do not exclude each other, so only the latter is a lock.

### MachineStore

*Requests.* A request is the list of its statements (`create_machine`, `update_machine`, `delete_machine`,
`settings_post`): one for a machine, whether from the API or a form, and one per setting for the settings
page, in the order of the handler. `asked` is the list and `k` the place in it; `wrote` is what the open
transaction has written, and its row locks.

*Steps.* `Get` is `session.get`. `Updated` is the flush: the `UPDATE` names the columns whose values differ from those
read (`Changed`), an IP address always among them, since it is read back as an object that equals no string (`Inet`), and waits for whoever has written the row. One that changes the address then puts it into the unique index
(`Indexed`), and an `INSERT` does so at once (`Inserted`): both wait for whoever has written that address or is giving it up
(`MacHolders`), and fail if it is taken (`MacTaken`). `Refreshed` is what `session.refresh` reads, and
the request's answer. A row that is `Gone` makes an `UPDATE` fail and a `DELETE` do nothing. `Commit` publishes, `Refused` is an error
of the flush, `DeadlockDetected` PostgreSQL giving up one of two that wait for each other, `Fails` a lost
connection. `over` is history: the columns that others have committed since the request read the row.

*Abstracted.* `mac` stands for the unique column and `name` for the other nine, with values of IP address columns (`Inet`) and of others; spellings of an address are one value;
validation refuses a request before it begins. The foreign keys of a machine with attempts or
tokens are in `WakePipeline` and `AuthSessions`. A `PATCH` without columns and the lists only read.

### StateProbe

One tick is a second; whatever needs no waiting happens within a tick, and a tick passes only while everybody
waits (`Waiting`). `GiveUp` and `Probe` are the head of the poll loop; the status request (`caller`) has a single probe. `Ask` starts
the ping and the connection of a round; `PingEnds`, `PingGivenUp` and `TcpEnds` are their outcomes; `AskAddress` is the second round,
which there is for a machine with a host name; `Online`, `Offline` and `WakesUp` end a probe and
the pause. `left` has the age of each ping that was given up and still runs; `steady` tells for how long the address has answered
without a break, and is history: a ping to the address can fail only if the machine has been silent since the round began (`MayFail`), one to the
host name always.

Closing a connection over which nothing was sent needs no waiting, although `wait_closed` (line 98) has no timeout (`TcpEnds`).

`WakePipeline` leaves out time within a poll and takes any answer of the prober; its `PollProbe`, `ProbeOnline`
and `ProbeOffline` are the probes of this module.

### HostNetwork

The kernel is modelled as its tables (`link`, `busy`, `own`, `routes`, `hosts`) and the text it makes of them under
`/proc/net`: `RouteFile`, with the bytes of numbers swapped as a little-endian host shows them, and `FibTrieFile`, the leaves
of the trie with the lines under each, of which the parser looks at the first (`LocalIps`). Each action that reads is one call of
`_proc` with the parser's work on what it returned: `parse_wireless_names`, `FlagsRoute`, `FlagsDev`, `IpsTrie`, `IpsRoute`, and
`list_interfaces` or `discover_hosts`, which answer. `Comes` is the sort of line 134, `Assigned` the loop after it. Between two
reads the kernel may change (`AddressAdded`, `LinkRemoved`, ...). `was` and `held` are history: what was true at some time since the
request began, and the addresses that all that time had the most specific route through their own interface.

*Abstracted.* An address has two bytes of `HalfWidth` bits and is the set of its ones, as are networks and masks: `&` is an
intersection, `bin(mask).count("1")` a cardinality, 127 the high byte with all ones but the highest. Splitting of lines,
MAC addresses and the choice between the two mounts are left out, and all reads succeed.

## 3. Runs

| Run | Instance | Shows |
|---|---|---|
| `WakePipeline_one` | 1 machine, 1 worker, 2 requests of all kinds, 2 faults, 1 edit, fairness | types; a queued job for every answered request; an attendant for every running job; partial work invisible; outcomes recorded; refinement of `AttemptLifecycle` (terminal statuses final, among others); with fairness, every queued job is claimed |
| `WakePipeline_two` | 2 workers, 2 concurrent clients, requests of all kinds, 1 fault, 1 edit | one holder, one packet, references (the polled attempt exists), refinement of `JobLedger` |
| `WakePipeline_contend` | 2 workers, 2 polled jobs for one machine with timeouts of 1 and 2 ticks, 1 edit, fairness | own attempt or newer; the full window of the polled attempt; every running job is reported on |
| `SetupWizard_browser` | 2 concurrent requests, 11 requests, 2 names, 1 fault | types; an account before completion; the first account comes with its step |
| `SetupWizard_live` | 2 concurrent requests, 5 requests, API clients, 1 fault, fairness | no circle of waiting requests |
| `AuthSessions_gate` | 2 concurrent requests, 5 requests, 2 sessions, 1 token, 1 fault, 2 ticks | types; nobody let in by what is over; CSRF tokens; revocation for good; references |
| `AuthSessions_live` | 2 concurrent requests, 4 requests, 1 session, 1 token, 1 fault, fairness | every request ends, although a direct wake and a deletion lock in opposite orders |
| `LoginRateLimiter_window` | 2 addresses, window 3, limit 2, 6 ticks, 5 attempts, the form among them | types; sliding window and deserved refusals of the API |
| `MachineStore_edit` | 2 concurrent requests on any content of 3 machines with 2 addresses, or of 2 settings; 1 fault; fairness | types; unique addresses; edits do not undo each other; answers are stored; only exchanges of addresses deadlock; every request ends |
| `StateProbe_poll` | the shipped timeouts, a poll timeout of 20 s, an attempt up to 22 s old, pings of 12 s | types; verdicts in time; steady machines found; few pings left |
| `HostNetwork_read` | 3 interfaces or 2, up to 2 addresses of 3 in networks of 3 lengths, a default route or none, 1 change | types; names, flags and hosts in answers were true; so were addresses, and those beyond doubt are listed, once |

One run ends in a counterexample: it checks a sentence of the repository that the code does not
keep. `PROJECT.json` quotes it under `findings`.

| Run | Sentence | Why it fails |
|---|---|---|
| `LoginRateLimiter_forms` | `README.md:212`: logins are limited per address | the login page's form never asks the limiter (`web.py:207`) |

`CompletedHasAdmin` is checked for the pages alone: a client of `/api/setup/complete` completes the wizard at
any step.

Other disagreements met while modelling; the models behave as the code does, and no run is spent
on them:

- `api/wake.py:89` creates an attempt to return at once, and `GET /wake-attempts/{id}` shows it. The worker does not pass its
  identifier to `WakeService.wake`, which creates a second attempt and records the outcome there (`WakeCreate`): the one that was returned stays `pending`,
  unless another job of the machine happens to poll it.
- `poll_timeout_s` (`api/wake.py:38`) is each request's own. A worker that finds a newer active attempt of the machine polls that
  one, with its timeout (`ensure_online.py:61`): a job that asked for 600 s may be given up after 10. `FullWindow` says what is left.
- A failure between the commit of an attempt and that of its job leaves an attempt without a job (`api/wake.py:99-104`), a worker that dies leaves its
  job `running` (`job_queue.py:28`), and one that dies between `mark_done` and the commit of the work leaves a job `done` without a record of its packet
  (`main.py:106-107`). Nothing repairs any of them. `AttemptIsQueued`, `RunningIsAttended` and `DoneIsRecorded` are therefore stated for
  runs without a failure: they show that refusals, deletions and exceptions that the code handles do not do the same.
- `docs/guides/ssh-auto-wake.md:13-15` says that the direct wake with `ensure_online` polls until the machine responds, then returns.
  `wake_machine_direct` stores `ensure_online`, calls no poller and answers once the packet is sent: the attempt stays `sent` (`DirectSent`).
- `models.py:97` has attempts deleted with their machine (`ondelete="CASCADE"`). The relationship of line 76 has neither
  `cascade` nor `passive_deletes`: the ORM first sets `machine_id` of every attempt to NULL, which the column
  refuses, and a machine that was ever woken cannot be deleted (`DeleteMachine`).
- `CHANGELOG.md:58` has every setup endpoint answer 410 after completion. The handlers of the pages do not
  ask, and `advance` writes `completed=False` for every step but the last: the form of a page still open
  reopens the wizard (`Forms`, `Advanced`).
- `templates/tokens.html:123` says that scripts stop working immediately when their token is revoked. The answer
  may leave before the commit (`Answer`), and a request that follows it may still be let in.
- The docstring of `discover_hosts` (`system.py:280`) says that a device must be online and reachable to appear: hosts
  that stopped answering appear with `is_reachable` false, and so do those entered by hand (`discover_hosts`).
- `api/machines.py:72-81` checks neither address of a `PATCH`, unlike line 54 of a `POST`; `None` stands for a column that is not
  named, so that a host name once given can only be cleared in the form.
- `web.py:323` answers a machine form whose flush failed with a page and a message, without the `rollback` that
  line 398 does: the commit that follows raises, and depending on the version of FastAPI the browser gets the
  page or an error (`Refused`).
- `wake_attempt.py:28` and `test_domain.py:52` have nobody go from `pending` to `waking` or `online`. No code asks `can_transition_to`:
  a worker polls the newest active attempt of the machine (`PickActive`), which may be the `pending` one of a later
  request, and commits it as `online` (`WorkOn`).
- `wake_attempt.py:31-33` lets nothing follow a terminal status. `TerminalIsFinal` and `LifecycleKept` hold with one worker, which
  is what `docker-compose.yml` starts, and fails with two: they may poll the same attempt, and
  `update_status` overwrites a committed `online` with `timeout`.
- `services/auth.py:50` says that an account already exists. Two admin forms submitted together both count
  none and create one each (`Count`, `CreateUser`).
- `README.md:205` has a CSRF token on every mutating endpoint, `README.md:207` a session with it for every
  write: the forms of the pages ask for a session alone (`Other`), the direct wake for a token (`DirectAttempt`).
- `wake_attempt.py:28` lets `pending` become `sent` or `failed`; the poller sets `waking` on the newest
  active attempt, which may be another request's pending one (`StartWaking`).
- `services/wake.py:72-77` records a failed packet; `wake_machine_direct` turns the error into an
  `HTTPException`, and the record is rolled back (`DirectFailed`).
- `README.md:74` promises back navigation on each step; back at the admin step the account stays and its
  form is refused (`WentBack`, `Count`). It also says one cannot jump ahead (`ApiCalls`).
- `README.md:71` makes adding a machine the fourth step; the form of `machine_form.html:54` drops
  `from=setup`, and the step stays to be done (`Forms`).
- Two wizard requests that flush different columns of `setup_state` leave a row that neither of them
  wrote, such as a completed wizard at an earlier step (`Merge`).

**Bounds.** `MaxRequests`, `MaxFaults` and `MaxEdits` bound the events, `MaxTimeout` the ages, in the guards
of the actions that count. Two jobs and two workers are what exclusion, overtaking and repetition
need, and the second request's own attempt is one that is neither that of the worker that finds it nor its
rival's (with three jobs, `PollsOwnOrNewer` and `FullWindow` rest on their proofs); one fault reaches each place where one can happen, the second of `one` one during
recovery from the first. A timeout of one tick tells a fresh attempt from one whose time is up, and one of two from a shorter one of another attempt. In the wizard, four pages shown and four submitted complete it; eleven
requests leave three for stale tabs and going back. Five are enough for `SetupWizard_live`, since API calls reach
any step without pages. In `AuthSessions_gate` five requests are a login, another or the creation of a token, and the pair that
races; in `AuthSessions_live` four are a login, a bound token and the two that lock in opposite orders. Two ticks
are a session's life and one more. The limiter's instance lasts two windows, with more attempts than two windows
admit. `MachineStore_edit` starts with any machines, so that two requests are any two that meet; three machines let two edits
leave a third alone or take its address. `MaxSteady` of `StateProbe_poll` exceeds the longest time the property speaks of, and
`PingLife` a cycle, so that pings of two probes can be left at once. `elapsed` has no bound but the
verdict, which `VerdictInTime` shows to come. Sixteen addresses of four bits hold a loopback, networks within networks and the two ends that the
parser leaves out; one change falls between any two of the six reads. When a bound is used up the model may have nothing left to do: the runs of the wizard, the sessions, the machines and
the host network therefore do not check for deadlock; those of the other modules do, since the worker loop and
restarts go on for ever.

**Fairness.** `WakePipeline!FairSpec`: weak fairness of each request, each worker (its loop runs
until it is killed and Docker's `restart: unless-stopped` brings it back) and of time. There is none for
faults, signals, requests or edits. `SetupWizard!FairSpec`, `AuthSessions!FairSpec` and `MachineStore!FairSpec`: strong fairness of each request, because
PostgreSQL hands a row lock to those who wait for it in the order in which they came.

## 4. Proofs

`WakePipelineProofs` proves, for any number of machines, clients, workers and requests and any bounds
that satisfy `BoundsAssumption`:

- `TypeCorrect`: `Spec => []TypeOK`;
- `JobsAreHeldOnce`: `Spec => []JobHeldOnce`;
- `PacketsAreSentOnce`: `Spec => []OnePacketPerJob`;
- `Invariance`: `Spec => []IInv`, from which the three follow.

`OnePacketPerJob` alone is not inductive: a state with a sent packet and a worker about to send the
same job's again satisfies it. `IInv` adds what rules that out, in the order of the argument:
identifiers are handed out once (`Fresh`, `Issued`); a request's job is unknown to all workers
until it is committed (`NotYetQueued`); a worker that works on a job has it no longer queued
(`HeldIsClaimed`), so nobody else can claim it (`JobHeldOnce`); and a job with a packet is neither queued
nor held by a worker at a place before the packet (`SpentIsPast`). The shapes
(`WorkerShape`, `RequestShape`, `RowShape`) tie the variables of a worker, request and row together. The
steps fall into a few families, each a lemma: `RequestInsertStep`, `RequestEndsStep`, `FrameStep`,
`MoveOnStep` and `LetGoStep`; `InvStep` has a case for every action.

`LoginRateLimiterProofs` proves of the API's endpoint, whatever comes through the form meanwhile, for any addresses, window, limit and bounds that satisfy
`LimiterAssumption`: `LimiterTypes` (`TypeOK`), `WindowsAreBounded` (`SlidingWindow`), `RefusalsAreDeserved`
(`RefusedWhenFull`). The invariant says that no attempt lies in the future (`ClockIsAhead`),
that a list has only attempts of its address that came by the API (`ListsAreApart`), and that one of those which a list no longer
holds is at least a window old (`DroppedIsOld`). Lemma `FreshIsWindow` is the heart: the pruned list is
exactly the window that ends now. A new attempt is then in no other window than those that
end now or later.

`StateProbeProofs` proves, for any timeouts, intervals and delays that satisfy `ProbeAssumption`: `ProbeTypes`
(`TypeOK`), `VerdictsAreInTime` (`VerdictInTime`), `SteadyMachinesAreFound` (`SteadyIsFound`). The verdict's time is not inductive, since it
says nothing of a poll under way: `Budget` counts how much of the last cycle is used up in each round and in
the pause. Likewise `Failure` carries from the failed ping to the verdict how long ago the machine was silent. `Stage` says
where the caller can be. The step that matters is `Tick`: `Waiting` keeps a round within `Round` seconds.

For the pings left behind, `LeftPingsAreFew` (`FewPingsLeft`) needs to know how far apart they are. `Spacing` says it for
each place of the cycle: at most `2 * n` of them are younger than so long and `n` cycles, and at most one more
is younger than so much longer. The cycle in question is the shortest one, two pings that are given up and a pause (`ShortCycle`), since
connections may be refused at once. The longest one (`Cycle`) is not a bound if `TcpTimeout` exceeds
`PingWait`: TLC finds a counterexample with a ping timeout of 0 s and a connection timeout of 8 s; with the shipped timeouts the two
are equal. `SpacedOlder`, `SpacedMore` and `SpacedLess` are a tick, a ping more and a ping fewer.

`WakeWorkProofs` proves of `WakePipeline`, for the same constants, what becomes of a job's work: `ReferencesAlwaysHold`
(`ReferencesHold`), `NoOlderAttemptIsPolled` (`PollsOwnOrNewer`), `PartialWorkStaysInvisible`
(`PartialWorkInvisible`), `FatesAreRecorded` (`DoneIsRecorded`), `AttemptsAreQueued` (`AttemptIsQueued`),
`RunningJobsAreAttended` (`RunningIsAttended`), and for steps `WindowIsFull` (`FullWindow`). `WInv` (`WorkInvariance`) extends `IInv`
to the open transactions: which rows a worker has written and locked at each place of `run_worker`
(`LocalShape`, `OpenRows`, `Written`), what the rows they refer to must still be (`Referring`, `RequestRows`; a foreign
key of an uncommitted row keeps the machine), and which fate is on record where (`FailedRows`, `FatesRecorded`).
An attempt is at least as old as those created after it (`Elders`): since the poller polls its own attempt or a newer
one, whatever time the polled one has had, its own has had too; the polled one's own timeout is how long that is.

- `QueueKeepsLedger`: `Spec => LedgerKept`, that `WakePipeline` implements `JobLedger`, for workers none of which is called
  `"nobody"`, the name that the mapping gives to the absence of one. The initial state maps to the ledger's; each action is
  a step of the ledger or leaves it alone. `HeldStatus` is what the mapping needs: what the row of a worker's job may say
  at each place, so that the worker that the mapping chooses is the only one there is.
- `TerminalStaysTerminal`: `Spec => TerminalIsFinal` for a single worker, which is what `docker-compose.yml` starts. With two it is
  false (see the list above). `OneOpen` says what the one open transaction may still overwrite.
- `AttemptsKeepLifecycle`: `Spec => LifecycleKept`, that `WakePipeline` implements `AttemptLifecycle`, for a single worker likewise.
  The lifecycle has a worker's commit as one step, so the proof needs what its transaction holds by then: the polled attempt
  settled, and its own `sent` if that is another (`WorkIsDone`), nothing else written (`OpenRows`) and nothing terminal
  overwritten (`OneOpen`). `StageIsStatus` rests on `Referring`: whatever is, or is about to be, in the table has a machine.

`SetupWizardProofs` proves `TypeCorrect` (`TypeOK`) for all callers, and for visitors who only use the pages (`Scripts = FALSE`, as in
`SetupWizard_browser`; a client of `/api/setup/complete` makes both false) `WizardEndsWithAdmin` (`CompletedHasAdmin`) and
`FirstAccountIsRecorded` (`FirstAccountComesWithStep`). The invariant `NoAccount`: as long as no account is committed, every row
that is committed, read or about to be written is at one of the first two steps (`Early`), so that only their pages
are shown and only their forms sent (`EarlyRequest`). The request that goes further brings the account along, in the same
commit. `WizardAssumption` has no account called `"nobody"`, the name that means none.

`AuthSessionsProofs` proves, for any numbers of sessions, tokens, requests and lifetimes and for both values of `AnswerFirst`: `TypeCorrect`
(`TypeOK`), `OnlyTheLivingLetIn` (`LetInByTheLiving`), `CsrfIsOfItsSession` (`CsrfOpensItsSession`), `ReferencesAlwaysHold`
(`ReferencesHold`), `RevokedStaysRevoked` (`NeverRevived`). `IInv` says of the tables that no two requests hold rows
that are in each other's way (`Locks`) and that each row is inserted by one request (`Inserts`), and of each request that its
writes still fit what is committed, that what was over when it arrived still is, and that whoever let it in was not.
That a token is not revived rests on its touch being an `UPDATE` of another column than its revocation.

`MachineStoreProofs` proves, for any machines, addresses, settings and requests that satisfy `StoreAssumption` (the keys
of the settings page are distinct, and no machine is one): `TypeCorrect` (`TypeOK`), `MacsAreUnique` (`UniqueMacs`), `OnlySwapsDeadlock`
(`CirclesAreSwaps`), `NothingIsUndone` (`EditsDoNotUndo`), `AnswersAreStored` (`AnswerIsStored`). `UniqueMacs` speaks of committed rows
and is not inductive: a transaction may be about to commit an address that another row has. `IInv` says that the addresses a
transaction has put into the index are new to the rows and to all other transactions (`ClaimIsNew`), that the rows of its writes
are locked and as they were (`RowLocks`, `Pending`), and what it has read, named and will answer (`ReadStays`, `NamedStays`,
`Answered`). For the circles, a request that waits for a setting has written earlier ones only, and one for a machine nothing before it waits for the index.

`HostNetworkProofs` proves, for any interfaces, addresses of any width, prefixes, tables and changes of them, `TypeCorrect` (`TypeOK`),
`AnswersWereTrue` (`ReportedWasTrue`) and `AddressesAreAssigned` (`AddressesAreRight`). The facts of each moment are never
forgotten (`Remembered`), and what the request has made of the files it has read is among them (`Gathered`): what a
file says is true when it is read, and the answer joins only such facts. For the addresses that must be listed,
what was beyond doubt all the time still is at every read (`Lasting`), so the trie shows it and the loop over the routes ends at its own
interface (`Known`). The latter is `AssignedToOwn`: the parser turns every route of the file back into the kernel's (`ParsedRoutes`,
by `SwappedTwice` and `MaskSize`), the routes are those of the addresses and default ones (`Routing`, which every change
keeps: `AddressesKeepTables`, `LinksKeepTables`), so the address has a route of its own, and the first match in the order of the sort is at
least as specific. That there is a first match is `LeastNat`, from the library's theorem that `<` on the naturals is well
founded. `Shapes` strengthens `TypeOK`, of which two conjuncts hold only because what has not been read is empty.

The proofs take the assumptions named above and nothing else; TLC evaluates those of the constants in every run.

Only model-checked:

- liveness (`QueuedIsClaimed`, `RunningIsFinished`, `RequestsEnd` of three modules), which is out of reach of the prover;
- what the run that expects a violation shows.

Every invariant and every action property that the passing runs check is a theorem.

## 5. Plan

All of it is done, in this order:

1. `WakePipeline`, `JobLedger`: the core, with its proofs.
2. `SetupWizard`.
3. `LoginRateLimiter`, with its proofs.
4. `AttemptLifecycle`, which a single worker's pipeline implements.
5. `AuthSessions`.
6. `MachineStore`: the machine forms and API, and the settings page, with their transactions.
7. `StateProbe`, with its proofs.
8. `HostNetwork`.
9. Proofs of what the runs check of `WakePipeline`, `SetupWizard`, `AuthSessions`, `MachineStore`, `StateProbe` and `HostNetwork`.
10. Proofs that `WakePipeline` implements `JobLedger` and `AttemptLifecycle`.

An abstract wizard, a cursor over five steps that `SetupWizard` would implement with one request at a time, was given up: the
form of a page once shown is accepted at any later time, so the cursor of a wizard that has been through its steps may go from
any one to any other. What the wizard does promise, an administrator before the end, is `CompletedHasAdmin` and
`FirstAccountComesWithStep`, which are proved for any number of requests.

## 6. Not modelled

- Packet bytes, `etherwake` and sockets (`app/infra/wake_strategy.py`): a call with arguments, no state and no retry; their
  success or failure is a free choice of `WakeSent`, `WakeFailed`, `DirectSent` and `DirectFailed`.
- Templates, routing, health, configuration, logging: no state of their own. The forms that write are in
  `SetupWizard`, `AuthSessions` and `MachineStore`.
- `allow_api_tokens` and `session_lifetime_hours` (settings read by nobody), and the empty lists that the limiter
  keeps for addresses that once tried to log in: nothing depends on either.
- Password hashing and random tokens: library calls on secrets.
- Migrations: run by an operator before the processes start.
- `audit_events` and `probe_results`: tables no code uses; `SetupStateService.reset`, `delete_expired` and
  `revoke_all_for_user`: called by nobody.
- Tests, documentation scripts, Docker and CI files.
