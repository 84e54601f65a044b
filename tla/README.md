# aqsh in TLA+

aqsh runs shell scripts as asynchronous tasks: an HTTP API puts a task into an
asynq queue in Redis, workers take it out, run its script, stream the script's
output into a Redis stream and store its result; clients poll the status and
follow the log over SSE. This directory specifies the parts of aqsh where
several processes, goroutines or requests meet, model-checks them with TLC, and
proves their safety properties with TLAPS.

Paths are relative to the repository's root as it is kept beside this directory
(`src/`).

## 1. The system

| Component (source) | State it keeps | Operations | What makes it hard | Module |
|---|---|---|---|---|
| Submit (`internal/api/api.go` handleSubmitTask) | none of its own; puts a task in Redis | check the caller, check values_url inputs, validate, enqueue | remote lists that change, a failure half way | `Service`, `Submission`, `Execution` |
| Task definitions (api.go handleGetTaskDef, handleListTasks) | fills the values cache | list the tasks, show the allowed values | shares the cache with submissions | `Submission`, `Service` |
| values_url (`internal/api/values.go`) | a map URL -> list, deadline | get, set, fetch | stale, shared and overwritten entries | `Submission` |
| Status (api.go handleGetExecution) | none; reads asynq's record, `aqsh:meta:<id>` | find the queue, show state, sender, result, started_at | which attempt's data is shown; the queues it looks in | `Service`, `Execution`, `TaskLifecycle` |
| Log streaming (api.go handleGetLogs, `internal/logs`) | per connection: lastID, a batch | XREAD, send, end at eof | reconnection, expiry, retries, endings that never come | `LogFollow` |
| Worker (`internal/worker/worker.go`) | per attempt: context, child process, two pipes, result file | set started_at, run, relay lines, write eof, store the result | an attempt that timed out keeps running next to its retry; crashes; ignored errors; whose variables a script sees | `Execution`, `Service` |
| Log streams (`internal/logs/logs.go`) | Redis stream per execution, its TTL | Write, WriteEOF, Read | writers of several attempts | `Execution`, `LogFollow` |
| asynq and Redis (external) | task record, retry count, lease, result | dequeue, retry, archive, recover, requeue | at-least-once execution | `Execution` |
| Native authentication (`internal/auth/kubernetes.go`) | cache of reviews, semaphore | Authenticate, review | staleness of revoked tokens, leaked slots | `ReviewCache`, `Identity` |
| Middleware, caller, access log (`internal/auth/auth.go`, api.go) | the request's principal | strip headers, authenticate, authorize, log | forged headers in either mode, open routes, names joined and split | `Identity`, `Service` |
| Task configuration (`internal/tasks/tasks.go`) | loaded once | Load, Resolve, ValidatePayload | merge rules, numeric edges, defaults | `TaskConfig` |
| Process life (`cmd/aqsh/main.go`, api.go Run, worker.go Run) | errgroup, two servers, two signal channels | start, refuse, signal, shutdown | one half stops, the other does not | `Process`, `Service` |
| Environment configuration (`internal/config`, `internal/auth/config.go`) | read once | Load, Validate | a flag over the environment; settings that must not be ignored | `Process` |
| Health, metrics, coverage (api.go) | none | ping, export | open without credentials | `Service` (health only) |

How they interact: API and workers share nothing but Redis. Everything they
write there is keyed by the task id (asynq's record, `aqsh:meta:<id>`,
`aqsh:logs:<id>`), so one execution is the unit of the core modules; on a
worker's disk the result file's path is made of the task id as well, and is
shared by all attempts that run there. Within the API process requests share
two caches, the review cache of native authentication and the values cache.

## 2. The modules

### TaskLifecycle, the promise

What a client that polls `GET /executions/{id}` may rely on: the statuses of
`docs/api.md` ("Status Values") and the order of README's "Life of a Task", at
most `max_retry` counted failures, "failed" only once they are used up,
"completed" only behind a stored exit code of 0, and (`FairSpec`) no status but
the two final ones lasts for ever.

### Execution, one execution with all its attempts

| Part of the model | Code |
|---|---|
| `st`, `retried`, `requeues`, `cur`, `result` | asynq's record of the task; `cur` numbers the dequeues, `result` is what `ResultWriter().Write` stored last |
| `startedAt`, `log`, `trimmed`, `ttl` | the meta key and the log stream; `trimmed` counts the entries of expired streams, as stream ids are never reused |
| `file` | per worker, `aqsh-result-<id>` in its results directory |
| `pc`, `ctx`, `host`, `script`, `left`, `pipe`, `scan`, `ret` | per attempt: the next statement of `handleTask`, its context, its process, its script, what that has left to print and has in its pipes, its Scanners, its locals |
| `Begin`, `EarlyError`, `StartScript`, `Relay`, `ScanStop`, `Join`, `AddEOF`, `SetExpire`, `Collect`, `Report` | `startedAtMiddleware`, `handleTask`, `executeScript`, `WriteEOF`, `readResultFile`, statement by statement between two waits or two shared accesses |
| `Emit`, `WriteResultFile`, `ScriptExit` | the script (external) |
| `Submit`, `Dequeue`, `Forward`, `Finish`, `ReturnStale`, `Deadline`, `LeaseLost`, `Recover`, `Crash`, `Shutdown` | the enqueue with its Timeout and MaxRetry, and what asynq does with the task |
| `MetaExpires`, `StreamExpires` | Redis drops the keys |

The point of the model is that asynq stops *waiting* for an attempt whose
deadline has passed but does not stop its goroutines: `Deadline` ends the
context and counts the failure, and the attempt's `Handler` steps go on next to
the retry's. What keeps them apart is that every Redis call in the worker is
made with the attempt's context (`MaySucceed`, `MayFail`).

Assumptions of the model:

- A Redis command sent with a context that is done fails; a command, or the
  pair HSET/EXPIRE of the meta key, is one step. Redis keeps what it has
  acknowledged.
- `ResultWriter.Write` checks the context and writes in one step. In asynq the
  two are consecutive statements.
- `Deadline` merges the end of the context with asynq's bookkeeping of it. The
  two steps apart are covered too: `LeaseLost` ends the context and `Recover`
  does the bookkeeping, with anything in between.
- asynq's recoverer takes a task only some 30 s after its lease has expired, so
  the worker that lost it has seen its own context cancelled (`Recover` needs
  `ctx = "done"`).
- Scripts die with the worker process (they share its container); the results
  directory may or may not survive.
- Exit codes are 0 and 1, 1 standing for all others, -1 included.
- asynq's removal of finished tasks after `ResultRetention` is not modelled.

### LogFollow, readers of the log

Extends `Execution` by clients that open `GET /executions/{id}/logs`, read
batches (`Read`, `Deliver`), lose their connection (`Cut`) and reconnect with
`Last-Event-ID` (`Open`). The eof event is sent without an id and drops the
rest of the batch.

### Submission, requests on a task definition

`POST /tasks/{name}` and `GET /tasks/{name}` as loops over the task's inputs,
over one values cache. A list is identified by what it depends on: the template,
the caller (if the template names `${identity}` or `${groups}`) and another
input's value (if it names `${input.x}`). The service's lists change with its
`answer`; a list that a request holds is the pair of its URL and the state it
was made in. The steps of a handler that do not wait take no time, so a list is
cached at the moment it arrives; the fetch itself takes up to `FetchTimeout`.
`ValidatePayload` may refuse any payload; what it accepts is not decided here.

### ReviewCache, native authentication

`Authenticate` and `review` of concurrent requests: lookup under the mutex,
comparison with the clock after it, semaphore, network, store. Time may pass
between any two steps. The endpoint's answer for a token changes
(`Change`); some answers are rejections.

### TaskConfig, the task definitions

`Load` with its includes, `validateInputs`, `Resolve`, and what
`ValidatePayload` accepts and turns into environment variables, as operators.
A directory is the files as the YAML parser leaves them; Go's iteration over
maps has no influence on the outcome but on the error's text, so a file is
merged in one step. Numbers are counted in halves, so that an int can be given
a fraction; the width of int64 is `IntMin .. IntMax`, and a float beyond it
becomes either end, as Go leaves the conversion to the processor.

### Identity, who a request is from

What `review` accepts of a TokenReview status and the principal it makes, what
the middleware takes for a bearer token, `caller`, `splitGroups` and the
authorization rule, as operators. Names are sequences of marks, because the
properties are about the separators in them: commas join groups (for the queue,
scripts and URLs) and slashes qualify names with their cluster.

### Process, from start to exit

| Part of the model | Code |
|---|---|
| `started`, a deployment | environment, `-mode` flag and files of the process |
| `cfg`, `conf` | `config.Config` after the flag's override; the tasks |
| `pc`, `code`, `ctx`, `failed` | main's statement, its exit code, the errgroup's context and error |
| `api`, `closer`, `reviewer`, `worker` | the two `Run`s, the goroutine that calls `srv.Shutdown`, the authenticator |
| `toMain`, `toWorker` | main's signal channel and asynq's |
| `Configure`, `LoadTasks`, `Connect`, `Watch`, `Launch`, `Exit` | main, each with the `os.Exit(1)` it may end in |
| `PrepareApi`, `Listen`, `BeginShutdown`, `StopListening`, `ServeFails` | the API's `Run`; `ListenAndServe` fails at once, after Shutdown, or on an error of its listener at any time |
| `StartWorker`, `AttendSignals`, `WorkerHears`, `StopWorker` | asynq's `Server.Run` (external: Start, waitForSignals, Shutdown) |
| `Signal`, `MainHears` | a SIGINT or SIGTERM goes to the channels that have been registered by then, and kills the process if none has |

A set but empty variable differs from an unset one for `loadAuthEnv` only, and
`env.auth` keeps that difference. Variables of a Kubernetes service of the name
are left out of `env.auth`, as the code skips them.

### Service, what a process does for its callers

Extends `Process` by requests and tasks, so a request goes from the connection
to the queue and on to the script's environment while the process starts, fails
or is told to stop around it. `Arrive`, `Open` or `Authenticate`, then
`Health`, `List`, `Status` or `Submit` and `Enqueue`; `StartTask`, `FinishTask`,
`HandBack` (asynq's Shutdown gives unfinished tasks back) and `RunElsewhere` (in
mode api) are the workers. One request is in flight at a time: requests share
nothing but the queue and the two caches, which `ReviewCache` and `Submission`
are about. `senders` is a history variable: the request, as it was sent, behind
each task. A body that does not decode is answered like a payload that is not
accepted.

## 3. The runs

| Run | Bounds | What it asks | Distinct states |
|---|---|---|---|
| `execution_faults` | 2 workers (symmetric), 1 retry, 1 line, Redis errors, long lines, result files, crashes, expiring meta key | types; completed means exit code 0 of the last attempt; the log is ordered by attempt and no line follows its attempt's marker; only the current attempt writes | 3.8 million |
| `execution_fair` | 1 worker, 1 retry, 1 requeue, 1 line, expiring stream, no Redis errors; fairness | every attempt is charged; one live attempt; the marker vouches for all output; a completed task's log is closed; started_at is the completing attempt's; refinement of `TaskLifecycle!FairSpec`; every task ends | 0.9 million |
| `log_follow` | 1 client, 2 connections, batches of 2, 1 retry, 1 line | lines once and in order over reconnections; eof only after the attempt's whole output; readers of a completed task are released | 1.0 million |
| `review_cache` | 2 requests, 2 tokens, 3 answers (one a rejection), TTL 2, capacity 1, 1 slot, time to 3 | staleness bounded by the TTL; entries fresh, bounded, not replaced while live | 3.8 million |
| `review_uncached` | 3 requests, 2 slots, TTL 0; fairness | slots are exact; every call returns | 7 thousand |
| `submission` | 2 requests (symmetric), 2 callers, 2 inputs (one cached, one dependent), 2 states of the service, time to 3 | cache entries fresh; nothing queued that was not granted; dependencies checked first; own lists only | 2.7 million |
| `service` | 54 deployments (24 environments, 6 pairs of mode and flag, 14 task directories, 4 sets of native requests with 9 reviews, 6 sets of requests with headers and payloads), 2 tasks, 2 signals, numbers within -2 .. 10 around an int64 of -4 .. 4; fairness | settings take effect or the API does not start; credentials are apart from scripts; tasks are loaded exactly; a task, a script, a status and a log line name their request's sender; clusters cannot be mistaken; the environment is within the inputs; no task is running at exit, after a failed API either; a signal ends the process, or at least its API | 270 thousand |
| `execution_archived`, `execution_data`, `log_follow_eof`, `log_follow_failed`, `submission_own_ttl` | smallest bounds that show it | the findings of section 5 | - |

Why these bounds: the interactions of `Execution` are between one attempt and
the next (what a given-up attempt does to its retry), which two attempts show;
`execution_fair` has three (a retry and a requeue). One line per attempt, on
either pipe, distinguishes "before the marker", "after the marker" and "lost",
and with two pipes makes the two relays race. A second worker matters only for
the result file and for crashes. In `LogFollow` two connections are one
reconnection, and the stream can hold more entries than a batch. In
`ReviewCache` and `Submission` the clock runs past the life of an entry plus a
review or a fetch, so that an entry can be stored late, hit at its last moment,
missed just after, and replaced. `MaxRequeues`, `MaxLines`, `MaxOpens`,
`LastVersion`, `MaxTime`, `MaxTasks` and `MaxSignals` are bounds of the model,
not of the code. In `Service` two tasks are what it takes to mistake one sender
for another, and two signals to send a second one when the first has reached
main only. The deployments vary one thing at a time from one that works: each
authentication variable with a value that must be taken and one that must be
refused, each way an include can fail, names with each separator, numbers on
both sides of each bound.

`CHECK_DEADLOCK FALSE` is set for the runs of `Execution`, `LogFollow` and
`Service`: an execution does end, and so does a process. `ReviewCache` and `Submission` always accept another
request.

### Fairness

- `Execution!FairSpec`: weak fairness of asynq's own loops only, i.e. dequeue,
  forward, recover, the deadline timer and the processor that waits for a
  result. Nothing is assumed of scripts or of `handleTask`: a script may hang for
  ever, and the deadline is what `Terminates` rests on (its mutant takes the
  deadline away).
- `LogFollow!FollowSpec`: the handler's loop goes on while its connection
  stands. Nothing is assumed of clients, workers or scripts, so
  `CompletedReaderReleased` follows from the marker that is already there.
- `ReviewCache!FairSpec`: goroutines run, and the request timeout ends waits for
  a slot or for the endpoint (`Config.Validate` requires 1 ms to 1 min). Nothing
  is assumed of the endpoint or of a slot's becoming free.
- `Service!FairSpec`: main, the API's goroutines and asynq's signal handler run,
  and asynq's Shutdown returns, as it waits for its tasks no longer than its own
  timeout. Nothing is assumed of requests, scripts, Redis or signals. `Stops` is
  stated from the moment the worker's channel has a signal (or main's, without a
  worker): one that comes in the start-up window of section 5 closes the API
  only, and that is the second half of `Stops`.

## 4. The proofs

Eight modules prove the theorems below with TLAPS, which state every safety
property that a passing run checks. Each holds for every value of
the constants that meets the named assumptions of its module, where TLC's runs
look at one small instance. A theorem about a run's property is about the very definition that the run
checks, and each inductive invariant was checked by TLC on the runs' instances
before it was proved. There is one lemma per action or group of actions, and one
(`NextIInv`, or the `...Next` lemmas) that puts them together.

### ExecutionProofs and LogProofs

For all numbers of workers, retries, requeues and lines and with all faults
switched on or off:

| Theorem | Statement |
|---|---|
| `TypeCorrect` | `Spec => []TypeOK` |
| `ChargedForEachAttempt` | `Spec => []AttemptsCharged` |
| `OneAttemptLive` | `Spec => []OneLiveAttempt` |
| `CompletedMeansExitZero` | `Spec => []CompletedExitZero` |
| `WritesAreCurrent` | `Spec => OnlyCurrentWrites`, an action property |
| `LogIsByAttempt` | `Spec => []LogByAttempt` |
| `MarkerEndsAttempt` | `Spec => []EofEndsAttempt` |

The assumptions are `WorkersAssumption` (the name for "no host" is no worker),
`BoundsAssumption` (the bounds are natural numbers) and `SwitchesAssumption`.

None of the invariants is inductive alone. `IInv` is the conjunction of the
first four with three more:

- `PipesBounded`: what a script has left to print and what is in its pipes never
  exceeds `MaxLines`; `TypeOK` needs it for a line that enters a pipe.
- `HostKnown`: an attempt past "idle" runs on a worker; `TypeOK` needs it when
  the attempt touches its result file.
- `NilMeansStored`: an attempt with a live context that is about to return nil
  has stored exit code 0. `CompletedExitZero` needs it in `Finish`, which looks
  at the handler's return value only; and `NilMeansStored` in turn needs
  `OneLiveAttempt`, as nobody else may overwrite the result in between.

`AttemptsCharged` is what keeps `cur + 1` within `Attempts` in `Dequeue`:
the type invariant rests on the retry accounting. `WritesAreCurrent` needs only
that each writing step has a live context and `OneLiveAttempt`.

`LogProofs` adds to `IInv` what the order of the log rests on:

- `Unstarted`: an attempt beyond `cur` is idle and has no host.
- `Drained`: outside of the "stream" step an attempt has no running script and no
  line that a relay could still append; so whoever relays has not passed `Join`.
- `LogBounded`: no entry is of an attempt beyond `cur`. An entry is appended only
  by the live attempt, which is `cur` by `OneLiveAttempt`, and is thus the latest.
- `MarkerLate`: an attempt whose marker is in the log is past `AddEOF`, so neither
  a relay nor a second marker of it can follow.

A step either leaves the log alone (`QuietStep`), appends an entry of the live
attempt (`AppendKeepsOrder`), or drops the stream (`StreamExpires`).

### LifecycleProofs

| Theorem | Hypotheses | Statement |
|---|---|---|
| `LifecycleImplemented` | none | `Spec => ImplementsLifecycle` |
| `StartShownIsOwn` | no Redis errors | `Spec => []StartedAtOwn` |
| `CompletedLogEnds` | no Redis errors | `Spec => []CompletedLogClosed` |
| `MarkerVouchesForOutput` | no Redis errors, no lines over 64 KiB | `Spec => []EofAccountsForOutput` |

`LifecycleImplemented` is the safety part of the refinement that
`execution_fair` checks: each action maps to the step of `TaskLifecycle` it
implements (`Submit`, `Dequeue` to `Start`, `Forward` to `Again`, `Shutdown` to
`Requeue`, `Deadline`, `Recover` and a failing `Finish` to `Retry` or `Fail`, a
`Finish` of nil to `Complete`, a `Report` to `Store`), and every other one leaves
what is shown alone. That `Complete` finds a shown exit code of 0 is
`NilMeansStored`; that `Report` stores a code at all is `CodeKnown` (whoever
reports has waited for a script that has exited).

The hypotheses of the other three are those that the comments of the properties
state: the worker ignores the errors of its HSET and XADD, and its Scanner
gives up on a line over 64 KiB, so that none of the three holds with such faults
(section 5 and `execution_faults`). They need:

- `StartKept`: the live attempt, once past `Begin`, is the one whose start is
  shown. It holds since a given-up attempt's HSET fails.
- `LogClosed`: a live attempt that has passed `AddEOF`, and may still succeed,
  finds its marker at the end of the log and, past `SetExpire`, an expiry on it.
  Once the task is completed no attempt is live (`OneLiveAttempt`), so that the
  log can only expire (`CompletedStays`).
- `LinesKept`, which counts: of an attempt whose context has not ended, the
  lines in the log, those in the two pipes and those not yet printed add up to
  `MaxLines`; with `Drained`, both pipes are empty at `AddEOF`. Lines are lost
  as soon as the context ends, but no marker follows then. `Unbegun` (an attempt
  not dequeued has no context) covers the step to the next attempt. After the
  marker `MarkerLate` keeps the attempt from printing or relaying.

### FollowProofs

For all numbers of clients, connections and entries per read, over the whole of
`Execution`:

| Theorem | Hypotheses | Statement |
|---|---|---|
| `ReadersTyped` | none | `FollowSpec => []FollowTypeOK` |
| `ResumesInOrder` | none | `FollowSpec => []ResumesWhereItLeftOff` |
| `EofMeansAll` | no Redis errors, no lines over 64 KiB | `FollowSpec => []EofAfterWholeOutput` |

The assumption is `ReaderAssumption` (a read returns at least one entry if there
is any). Readers do not write, so that `FollowSpec => Spec` (`WatchedRun`) and all
of the above holds under their eyes. What the proofs need of the stream is
`StreamGrows`: a step appends, or takes all of it away for good, as ids are never
reused. `ResumesWhereItLeftOff` is not inductive: between a read and the delivery
the batch is what counts. So the invariant says that a handler has read up to the
last line that its client has received (`ReadTo`, the code's `lastID`), that the
batch follows it without a gap but for what had expired (`BatchFollows`), that
while nothing has expired the client has exactly the log's beginning
(`CopiesLog`), and that a client that was told "eof" is at a marker
(`ToldAtMarker`). `EofAfterWholeOutput` then follows: what the client has is the
log before the marker, `EofEndsAttempt` says that no line of the attempt comes
after it, and `MarkerVouchesForOutput` how many there are.

`ReadAfter` is written with the position of the first entry to return, rather
than as a filter of the stream, since the prover has no facts about `SelectSeq`.

### ReviewCacheProofs

For any number of requests, tokens, answers and slots, and for every TTL,
capacity and timeout:

| Theorem | Statement |
|---|---|
| `CacheTypeCorrect` | `Spec => []TypeOK` |
| `SlotsCounted` | `Spec => []SlotsExact` |
| `CacheWithinCapacity` | `Spec => []CacheBounded` |
| `CacheHoldsRecentAnswers` | `Spec => []EntriesFresh` |
| `RevocationReflected` | `Spec => []ServedRecently` |
| `LiveEntriesKept` | `Spec => LiveEntryKept`, an action property |

The assumptions are those of the module (`VersionsAssumption`,
`ConfigAssumption`, `RejectedAssumption`). Requests and tokens need not be
finitely many: that the sets which are counted are finite is part of the
invariant (`Bounded`), as they are filled one by one. `ServedRecently` depends on
what a call holds while others store, evict and the endpoint changes its mind:
`CopyFresh` (an entry that was copied is as good as it was, whatever has become
of the cache), `ReceivedSince` (what a review received was the answer after the
call had begun, and only an accepted one is stored) and `CacheInUse` (with a TTL
of 0 nothing is looked up or stored). Two lemmas carry them over a change of the
endpoint's answer: what was an answer since some moment remains so
(`AnsweredStays`), and was so since any earlier one (`AnsweredEarlier`). A step
of one call leaves the others' locals alone, so it is enough to look at that call
(`StepIsOneCall`, `FreshFrame`).

### SubmissionProofs

For every list of inputs, any number of requests, callers, values and states of
the remote service:

| Theorem | Statement |
|---|---|
| `SubmissionTypeCorrect` | `Spec => []TypeOK` |
| `ListsAreTheCallersOwn` | `Spec => []OwnLists` |
| `CachedListsFresh` | `Spec => []EntriesFresh` |
| `QueuedOnlyIfGranted` | `Spec => []EnqueuedGranted` |
| `DependenciesCheckedFirst` | `Spec => []DependenciesGranted` |

The assumptions are `InputsAssumption`, `PayloadsAssumption` and
`NumbersAssumption`.
`EnqueuedGranted` is about the end of a loop over the inputs, and its invariant is
the loop's: `Checked` says that each input the loop has left behind was granted,
by a list whose age is bounded by the life of *some* input with the same
template (`StateSinceFor`), since the cache keeps one entry per URL, whoever set
its deadline. `Fetching` bounds the age of an answer by the fetch it came with,
`EntryFresh` that of an entry by its deadline, with the same input as witness for
both of its bounds, and `IdleClean` says that a request starts without lists.
`DependenciesGranted` follows from `Checked` as a dependency comes earlier in the
loop. Again a step is one of one call (`OthersInv`), or of the clock or the
service (`WorldIInv`).

### OperatorProofs

What the pure operators of `Identity` and `TaskConfig` compute, for data of every
size:

| Theorem | Hypotheses | Statement |
|---|---|---|
| `GroupsReadBack` | names that `GroupName` lets through | `SplitGroups` reads back a list of names from its CSV form |
| `OneClusterOneUser` | cluster names without a slash | a qualified name has one cluster and one user |
| `LoadsEveryFile` | patterns find files of the directory | `Load` gathers the tasks of the main and of each matched file, and succeeds if and only if they fit together (`Fit`) |

These speak of sequences of any length. `FlattenSeq` and the loop in `Load` are
recursive functions, and the library's induction theorems, which have an
operator as parameter, cannot be used. The induction is on the least
counterexample instead: < is well-founded on the naturals (`LeastNatural`, from
the library's `WFMin`, whose parameters are sets), so a statement that holds at 0
and is passed on from n to n + 1 has no first failure (`NoFirstFailure`, `UpTo`).
A recursive function is a CHOOSE, so each proof first shows that a function with
its equations exists (`PartialsExist`, `TurnsExist`). `GroupsReadBack` then rests
on `Joined`: where in the joined text each name begins and ends, and that there
are no commas but between names. `LoadsEveryFile` rests on `Gathered`, the loop's
invariant: what has been gathered from the files loaded so far, in whatever
order the patterns found them and however often.

### ServiceProofs

For all deployments, requests, numbers of tasks and of signals:

| Theorem | Statement |
|---|---|
| `ServiceTyped` | `Spec => []ServiceTypeOK` |
| `ReviewerAlone` | `Spec => []CredentialsApart` |
| `WorkerAwaited` | `Spec => []TasksAwaited` |
| `NoSilentPolicy` | `Spec => []SettingsEffective` |
| `SenderQueued` | `Spec => []QueuedForSender` |
| `ScriptToldSender` | `Spec => []ScriptTold` |
| `SenderLogged` | `Spec => []LoggedSender` |
| `ClustersKeptApart` | `Spec => []ClustersApart` |
| `TasksLoaded` | `Spec => []LoadExact` |
| `InputsKept` | `Spec => []EnvWithinInputs` |

The assumptions are about what a process is given, never about what it does with
it: `DeploymentsAssumption` (an authentication variable that is a duration either
parses or does not, and has a number of milliseconds), `FilesAssumption` (there
is a main file, patterns find files of the directory, a task has a list of
inputs, bounds are numbers), `RequestsAssumption` (names are texts; a token that
can be sent has a review; a JSON null is `Null` and a JSON number a number),
`IntAssumption`, `TasksAssumption` and `SignalsAssumption`.

`CredentialsApart` is not inductive: the worker is launched by main, the
credentials are read by the API's `Run`, and what relates the two is the
configuration. So the inductive invariant `IInv` says that nothing of either
server is there before `Launch` (`NothingEarly`), that each server is one the
mode asks for (`ModeObeyed`), that the configuration is still the deployment's
(`ConfigKept`), and that an API that was prepared passed `Validate`
(`ApiPrepared`). `TasksAwaited` follows from `WorkerFirst` (main has not ended
before the worker) and `RunByWorker` (only a worker that is up has running
tasks); `TasksTyped` says that `tasks` is a sequence of records with a state,
which `Append` needs. `SettingsEffective` then follows from `ConfigKept` and
`ApiPrepared` by the definitions of `AuthEnvOk` and `ValidConfig`.

The four theorems about senders rest on `RequestInv`, which follows a request
through its steps while the process may stop and workers take tasks between any
two of them:

- `AskedWhenSettled`: whenever there is a request, an answer or a task, the
  configuration is the deployment's, valid, and will not change.
- `InFlight`: the request that the handlers work on is the one that was sent, as
  far as they look at it; past the middleware it is one that native
  authentication lets through (`Vouched`) and its principal is that of its own
  review; past the handler's checks its caller may run the task, its payload is
  accepted, and the environment is one the payload may become.
- `TasksAsked`: each task in the queue has all of this of the request that put it
  there, and its script's environment, if it has run, is made of it (`AskedBy`).
- `Answered`: an answer and its log line have the caller of their own request, or
  nobody; a status shows the task that was asked for.

What remains is about names. `CallerOf` joins the groups that `Attested` has as a
set, and `GroupsReadBack` says they are read back, since `Accepted` has let each
of them through; a group that is qualified with its cluster is still such a name
(`QualifiedGroup`). `ClustersApart` is `OneClusterOneUser`, with `ValidAuth` and
`Accepted` for the hypothesis that no cluster name has a slash. `ScriptTold` adds
that aqsh's variables come last (`OwnVarsLast`) and that natively every sender
has a name (`NativelyNamed`).

`TasksLoaded` needs an invariant of main (`ConfLoaded`: what it has of the tasks
is what `Load` returns, unless it has ended before that) and `LoadsEveryFile`.
`InputsKept` puts all of it together: a task that has run was accepted
(`TasksAsked`) by definitions that are those of the files (`TasksLoaded`), so that
its inputs are a list with numbers for bounds (`InputsRead`), each variable has
the value of the last input that names it (`SuppliedBy`), aqsh's own variables
override none but the reserved ones (`ScriptVariables`), and a valid value is
within its definition (`ValueAsDefined`). The arithmetic of the cut to int64 is
`CutExactly` and `CutWithin`. It was this proof that showed how much can be said
of an int input: what was submitted is within the bounds, and what the script
sees is that without its fraction unless it is beyond int64 (`Cut`), so that it
is within the bounds too if both are there, are whole and are int64s (`Whole`). Beyond int64 the conversion may return either end of the range, so a
single bound, or one outside of the range, does not hold.

### Only model-checked

Liveness: `Terminates`, `CompletedReaderReleased`, `CallsReturn`, `Stops` and the
fair half of the refinement (`ImplementsFairLifecycle`) are outside the prover's
reach, as is `ENABLED`. The violations of section 5 are TLC's as well: the proofs
state the hypotheses without which they occur (no Redis errors, no long lines),
not that they do.

## 5. Findings

With a run that exhibits them:

1. `execution_archived`: a result is stored only by an attempt whose context is
   live, and nothing clears it, so a task archived after a timeout shows the
   exit code and the data of an earlier attempt. README.md:96 has the worker
   store the "final result".
2. `execution_data`: the result file is neither removed nor truncated before a
   script starts, and attempts share its path, so data left by a crashed or
   lingering attempt is stored for one whose script wrote none. README.md:254
   says the field is then omitted.
3. `log_follow_eof`: every attempt, also one that is retried, ends in an eof
   marker, and readers stop at the first marker; since the eof event carries no
   id, a new connection stops there again, and the retry's lines cannot be read.
   docs/api.md:180 says the connection is closed when the execution completes or
   fails.
4. `log_follow_failed`: the marker is written with the attempt's context, so an
   attempt that timed out, or that could not start its script, leaves none; the
   readers of the failed execution wait for ever, and its stream has no expiry.
5. `submission_own_ttl`: a list is kept as long as the input that stored it
   says, also for inputs with a shorter `values_cache` and the same URL;
   docs/input-rbac-design.md:142 says the time is per input.

Noted while modelling, without a run:

- `follow=false` reads with `BLOCK 0`, which Redis takes as no limit; the return
  for "no entries" (api.go:417) is not reached and the request blocks until
  there is an entry. docs/api.md:186 describes the parameter otherwise.
- A line over 64 KiB ends the Scanner without an error: the rest of that pipe is
  lost, and a script that fills the pipe hangs until its deadline (`ScanStop`).
- The expiry set by an earlier attempt's marker can remove the stream under a
  retry that is still running (`StreamExpires`; this is why
  `EofAccountsForOutput` and `EofAfterWholeOutput` speak of `trimmed = 0`).
- `retry_delay` is resolved but never given to asynq (api.go:229-234).
- A cascading input whose dependency was left to its default is refused as
  unresolved (api.go:194): defaults are applied only afterwards.
- A fetch that times out while the body is read is answered 502, not 504: the
  error then has no "timeout" in it (api.go:200).
- An Enqueue whose reply is lost is answered 503 though the task will run.
- An `int` input accepts fractions and truncates them, after the bounds were
  checked, and a number beyond int64 becomes whatever the conversion gives: with
  only one bound set, or a fractional one or one beyond int64, the script may see
  a number outside of it. Defaults are not validated; an unknown `type` is not
  checked at all. `EnvWithinInputs` says what is left: within int64 the script
  sees the submitted number without its fraction, and no other.
- A task whose `timeout` or `retry_delay` does not parse is loaded all the same
  (`Load` looks at `values_cache` only): submitting it gives 404, and `GET /tasks`
  panics, as handleListTasks ignores the error of Resolve (api.go:426).
- For a sender without a name (or without groups) the worker does not set
  `AQSH_IDENTITY` (or `AQSH_GROUPS`), so one of the worker's own environment, or
  of an input with that `env`, is what the script sees. `ScriptTold`
  allows this for such senders, from these two sources and no other; behind the
  native authentication every sender has a name.
- `AQSH_REQUIRE_IDENTITY` counts as false for anything but "true" and "1" ("TRUE"
  included), and numbers and durations outside of `AQSH_AUTH_` that do not parse
  are replaced by their defaults; only the authentication settings fail.
- In mode both, with worker queues that do not include "default", tasks without
  a queue of their own are accepted and stay pending.
- handleGetExecution answers 404 for any error of Redis.
- asynq learns of signals only when its server has started: a signal between
  main's `Notify` and that moment reaches main alone. The API then stops, and in
  modes worker and both the process goes on until a second signal. `Stops` claims
  no exit for that window, only that the API ends. An API that fails in mode both
  also leaves the worker running, without an API (`TasksAwaited` says that it
  takes no task with it).
- A task submitted to a queue outside the API's `AQSH_WORKER_QUEUES` is accepted
  (202) and then reported as not found.
- The values cache has no bound: an entry goes only when its own URL is asked
  for again.
- `ListenAndServe` returns as soon as `Shutdown` begins, so a regular shutdown of
  a process with an API ends as a "runtime error" with exit code 1, and requests
  in flight are cut off by the exit when there is no worker to wait for.

## 6. What is not modelled

- Parsing and formatting: JSON, YAML, URLs, durations, TokenReview and values_url
  responses, SSE framing. Where the outcome matters it is a choice or part of the
  input (parses or not, accepted, rejected, failed).
- Metrics and the coverage endpoint, the registration of queues (SADD) and of the
  metrics collector: exporters and I/O without state of aqsh's.
- Settings that only name addresses, paths, sizes and retentions.
- Connection pools: a blocked XREAD holds a connection; the pool's limit is not
  in the model, and nothing in the code bounds the number of readers.
- Several requests in flight at once within `Service`: what they share is in
  `ReviewCache` and `Submission`.
- Retries, crashes and deadlines of tasks within `Service`: they are in
  `Execution`.
- Tasks of other origin within `Service`: the queue is empty at the start and only
  this process fills it. So a process whose API cannot listen has nothing to run;
  `TasksAwaited` sees the other failure of the API, that of its listener.

## 7. Plan

In this order:

1. Lemmas about `TaskConfig` that say more about single values: what `Setting` and
   `MaxRetry` make of each combination of a task's own settings and the defaults.
2. `Execution`: what each attempt's script wrote to its result file, to state what
   of it may be shown, and the removal of the file by an attempt that lingers
   (worker.go:143).
