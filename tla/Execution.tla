------------------------------ MODULE Execution ------------------------------
(***************************************************************************)
(* One execution of one task, from the API's enqueue to its final state:   *)
(* asynq's record of it in Redis, the keys aqsh writes beside that record  *)
(* (aqsh:meta:<id> and the log stream aqsh:logs:<id>), and every attempt   *)
(* at running its script.  Everything the code shares between processes is *)
(* keyed by the task id, so one execution is the whole of the interaction. *)
(*                                                                         *)
(* An attempt is one call of handleTask (worker.go) by one worker process, *)
(* and its pc names the statement it is about to execute.  asynq gives up  *)
(* on an attempt whose context is done, but does not stop its goroutine:   *)
(* a timed-out attempt lives on next to the attempt that retries it.       *)
(***************************************************************************)
EXTENDS Naturals, Sequences, FiniteSets

CONSTANTS
  Workers,      \* worker processes, each with a results directory of its own
  NoWorker,     \* the host of an attempt that has not started
  MaxRetry,     \* taskDef.MaxRetry, as passed to asynq.MaxRetry
  MaxRequeues,  \* bound: shutdowns that hand a live attempt back to the queue
  MaxLines,     \* bound: lines an attempt's script prints
  RedisFaults,  \* BOOLEAN: writes to aqsh's keys may fail with a live context
  ResultFiles,  \* BOOLEAN: scripts may write $AQSH_RESULT_FILE
  LongLines,    \* BOOLEAN: scripts may print a line over the Scanner's 64 KiB
  Expiring      \* the keys whose time to live may pass while we look

ASSUME WorkersAssumption == NoWorker \notin Workers
ASSUME BoundsAssumption ==
  MaxRetry \in Nat /\ MaxRequeues \in Nat /\ MaxLines \in Nat
ASSUME SwitchesAssumption ==
  /\ {RedisFaults, ResultFiles, LongLines} \subseteq BOOLEAN
  /\ Expiring \subseteq {"meta", "logs"}

VARIABLES
  \* asynq's record of the task, in Redis
  st,           \* its state: "none" before Submit
  retried,      \* failures counted against max_retry
  requeues,     \* live attempts handed back to the queue
  cur,          \* the attempt that asynq last dequeued it for (0: none yet)
  result,       \* what ResultWriter().Write last stored
  \* the keys aqsh adds, in Redis
  startedAt,    \* whose HSET started_at the meta key holds (0: no key)
  log,          \* the entries of the log stream
  trimmed,      \* entries of the streams that expired before this one
  ttl,          \* the stream has an expiry
  \* the workers and the attempts they run
  file,         \* per worker: whose data is in the result file (0: no file)
  pc, ctx, host, script, left, pipe, scan, ret

taskVars == <<st, retried, requeues, cur, result>>
keyVars  == <<startedAt, log, trimmed, ttl>>
procVars == <<script, left, pipe, scan>>
vars     == <<taskVars, keyVars, file, pc, ctx, host, procVars, ret>>

Attempts == 1 .. MaxRetry + MaxRequeues + 1
Streams  == {"stdout", "stderr"}

\* Where handleTask stands; "dead": the process died under it.
PCs == {"idle", "begin", "prepare", "stream", "eof", "expire", "collect",
        "report", "return", "done", "dead"}

Codes     == {0, 1}    \* 1: every other code, also -1 (killed, no status)
NoCode    == 2
Entry     == [attempt : Attempts, kind : Streams \cup {"eof"}]
Result    == [attempt : Attempts \cup {0}, code : Codes \cup {NoCode},
              data : Attempts \cup {0}]
NoResult  == [attempt |-> 0, code |-> NoCode, data |-> 0]
\* What handleTask holds: the script's exit code, the result file's content
\* (whose data it is; 0: none), and whether it returns an error to asynq.
Ret       == [code : Codes \cup {NoCode}, data : Attempts \cup {0}, err : BOOLEAN]
NoRet     == [code |-> NoCode, data |-> 0, err |-> FALSE]

Terminal == {"completed", "archived"}

TypeOK ==
  /\ st \in {"none", "pending", "active", "retry"} \cup Terminal
  /\ retried \in 0 .. MaxRetry
  /\ requeues \in 0 .. MaxRequeues
  /\ cur \in Attempts \cup {0}
  /\ result \in Result
  /\ startedAt \in Attempts \cup {0}
  /\ log \in Seq(Entry)
  /\ trimmed \in Nat
  /\ ttl \in BOOLEAN
  /\ file \in [Workers -> Attempts \cup {0}]
  /\ pc \in [Attempts -> PCs]
  /\ ctx \in [Attempts -> {"none", "live", "done"}]
  /\ host \in [Attempts -> Workers \cup {NoWorker}]
  /\ script \in [Attempts -> {"none", "run", "exited"}]
  /\ left \in [Attempts -> 0 .. MaxLines]
  /\ pipe \in [Attempts -> [Streams -> 0 .. MaxLines]]
  /\ scan \in [Attempts -> [Streams -> {"open", "stopped"}]]
  /\ ret \in [Attempts -> Ret]

Init ==
  /\ st = "none" /\ retried = 0 /\ requeues = 0 /\ cur = 0
  /\ result = NoResult
  /\ startedAt = 0 /\ log = <<>> /\ trimmed = 0 /\ ttl = FALSE
  /\ file = [w \in Workers |-> 0]
  /\ pc = [n \in Attempts |-> "idle"]
  /\ ctx = [n \in Attempts |-> "none"]
  /\ host = [n \in Attempts |-> NoWorker]
  /\ script = [n \in Attempts |-> "none"]
  /\ left = [n \in Attempts |-> MaxLines]
  /\ pipe = [n \in Attempts |-> [s \in Streams |-> 0]]
  /\ scan = [n \in Attempts |-> [s \in Streams |-> "open"]]
  /\ ret = [n \in Attempts |-> NoRet]

-----------------------------------------------------------------------------
\* The API: the end of handleSubmitTask, once the request is accepted.

\* Mutation: the task gets an id of its own from the request, and a request
\* that is repeated puts a failed task back into the queue.
SubmitAgain ==
  /\ st \in {"none", "archived"}
  /\ st' = "pending"
  /\ UNCHANGED <<retried, requeues, cur, result, keyVars, file, pc, ctx, host,
                 procVars, ret>>

Submit ==
  /\ st = "none"
  /\ st' = "pending"
  /\ UNCHANGED <<retried, requeues, cur, result, keyVars, file, pc, ctx, host,
                 procVars, ret>>

-----------------------------------------------------------------------------
\* asynq, as worker.Run configures it: what its processor, its recoverer and
\* its forwarder do with the record of the task.

\* Retry the task or archive it, as asynq's handleFailedMessage does.
HandleFailed ==
  /\ IF retried < MaxRetry
       THEN st' = "retry" /\ retried' = retried + 1
       ELSE st' = "archived" /\ retried' = retried
  /\ UNCHANGED <<requeues, cur, result>>

\* The handlers in A have returned or died: their locals and their scripts
\* are gone (left stays, as a record of what the script has printed).
Gone(A, at) ==
  /\ pc' = [n \in Attempts |-> IF n \in A THEN at ELSE pc[n]]
  /\ ctx' = [n \in Attempts |-> IF n \in A THEN "done" ELSE ctx[n]]
  /\ script' = [n \in Attempts |-> IF n \in A THEN "none" ELSE script[n]]
  /\ pipe' = [n \in Attempts |-> IF n \in A THEN [s \in Streams |-> 0]
                                            ELSE pipe[n]]
  /\ scan' = [n \in Attempts |-> IF n \in A THEN [s \in Streams |-> "open"]
                                            ELSE scan[n]]
  /\ ret' = [n \in Attempts |-> IF n \in A THEN NoRet ELSE ret[n]]
  /\ UNCHANGED <<left, host>>

Dequeue(w) ==
  /\ st = "pending"
  /\ st' = "active"
  /\ cur' = cur + 1
  /\ pc' = [pc EXCEPT ![cur + 1] = "begin"]
  /\ ctx' = [ctx EXCEPT ![cur + 1] = "live"]
  /\ host' = [host EXCEPT ![cur + 1] = w]
  /\ UNCHANGED <<retried, requeues, result, keyVars, file, procVars, ret>>

\* Mutation: handleSubmitTask enqueues without a timeout.
NoDeadline(n) == FALSE /\ ctx[n] = "live" /\ UNCHANGED vars

\* taskDef.Timeout has passed: asynq counts a failure and stops waiting for
\* the handler, whose goroutine keeps running with a context that is done.
Deadline(n) ==
  /\ ctx[n] = "live"
  /\ ctx' = [ctx EXCEPT ![n] = "done"]
  /\ HandleFailed
  /\ UNCHANGED <<keyVars, file, pc, host, procVars, ret>>

\* The worker could not extend the lease: its context is cancelled, and the
\* task stays active in Redis until another server's recoverer sees it.
LeaseLost(n) ==
  /\ ctx[n] = "live"
  /\ ctx' = [ctx EXCEPT ![n] = "done"]
  /\ UNCHANGED <<taskVars, keyVars, file, pc, host, procVars, ret>>

\* The recoverer finds an active task whose lease has expired.
Recover ==
  /\ st = "active"
  /\ ctx[cur] = "done"
  /\ HandleFailed
  /\ UNCHANGED <<keyVars, file, pc, ctx, host, procVars, ret>>

\* The retry delay has passed.
Forward ==
  /\ st = "retry"
  /\ st' = "pending"
  /\ UNCHANGED <<retried, requeues, cur, result, keyVars, file, pc, ctx, host,
                 procVars, ret>>

\* asynq still waits for the handler's result when it arrives.
Finish(n) ==
  /\ pc[n] = "return"
  /\ ctx[n] = "live"
  /\ IF ret[n].err
       THEN HandleFailed
       ELSE st' = "completed" /\ UNCHANGED <<retried, requeues, cur, result>>
  /\ Gone({n}, "done")
  /\ UNCHANGED <<keyVars, file>>

\* The handler of an attempt that asynq has given up on returns to nobody.
ReturnStale(n) ==
  /\ pc[n] = "return"
  /\ ctx[n] = "done"
  /\ Gone({n}, "done")
  /\ UNCHANGED <<taskVars, keyVars, file>>

\* The attempts whose handler is in the memory of w.
On(w) == {n \in Attempts : host[n] = w /\ pc[n] \notin {"done", "dead"}}

\* The process of w dies, and the scripts with it.  Its results directory
\* may outlive it (a restarted container) or not (a new one).
Crash(w) ==
  /\ On(w) # {} \/ file[w] # 0
  /\ Gone(On(w), "dead")
  /\ \E kept \in {file[w], 0} : file' = [file EXCEPT ![w] = kept]
  /\ UNCHANGED <<taskVars, keyVars>>

\* Mutation: the task goes back to the queue, but nothing ends its attempt.
ShutdownDetached(w) ==
  /\ requeues < MaxRequeues
  /\ \E n \in On(w) : ctx[n] = "live"
  /\ st' = "pending"
  /\ requeues' = requeues + 1
  /\ UNCHANGED <<retried, cur, result, keyVars, file, pc, ctx, host, procVars, ret>>

\* asynq's own signal handler stops w: an attempt still running when the
\* shutdown timeout ends goes back to the queue, uncounted, and w exits.
Shutdown(w) ==
  /\ requeues < MaxRequeues
  /\ \E n \in On(w) : ctx[n] = "live"
  /\ st' = "pending"
  /\ requeues' = requeues + 1
  /\ Gone(On(w), "dead")
  /\ \E kept \in {file[w], 0} : file' = [file EXCEPT ![w] = kept]
  /\ UNCHANGED <<retried, cur, result, keyVars>>

\* Redis drops the keys whose time to live has passed.
MetaExpires ==
  /\ "meta" \in Expiring
  /\ startedAt # 0
  /\ startedAt' = 0
  /\ UNCHANGED <<taskVars, log, trimmed, ttl, file, pc, ctx, host, procVars, ret>>

StreamExpires ==
  /\ "logs" \in Expiring
  /\ ttl
  /\ log' = <<>>
  /\ trimmed' = trimmed + Len(log)
  /\ ttl' = FALSE
  /\ UNCHANGED <<taskVars, startedAt, file, pc, ctx, host, procVars, ret>>

-----------------------------------------------------------------------------
\* The worker: the statements of startedAtMiddleware, handleTask and
\* executeScript, for attempt n.

\* Mutation: the Redis calls use a context that outlives the attempt's.
MaySucceedDetached(n) == n \in Attempts

\* A command sent to Redis with n's context succeeds, or fails.
MaySucceed(n) == ctx[n] = "live"
MayFail(n)    == ctx[n] = "done" \/ RedisFaults

At(n, from, to) == pc[n] = from /\ pc' = [pc EXCEPT ![n] = to]

\* Mutation: HSETNX, which keeps the start of the first attempt.
BeginOnce(n) ==
  /\ At(n, "begin", "prepare")
  /\ \/ MaySucceed(n) /\ startedAt' = IF startedAt = 0 THEN n ELSE startedAt
     \/ MayFail(n) /\ UNCHANGED startedAt
  /\ UNCHANGED <<taskVars, log, trimmed, ttl, file, ctx, host, procVars, ret>>

\* startedAtMiddleware: HSET and EXPIRE, errors ignored.
Begin(n) ==
  /\ At(n, "begin", "prepare")
  /\ \/ MaySucceed(n) /\ startedAt' = n
     \/ MayFail(n) /\ UNCHANGED startedAt
  /\ UNCHANGED <<taskVars, log, trimmed, ttl, file, ctx, host, procVars, ret>>

\* The payload does not decode, the task is no longer in this worker's
\* tasks.yaml, or (from MkdirAll on) the script cannot be started; the
\* deferred os.Remove runs only once it has been registered.
EarlyError(n) ==
  /\ At(n, "prepare", "return")
  /\ ret' = [ret EXCEPT ![n].err = TRUE]
  /\ \E kept \in {file[host[n]], 0} : file' = [file EXCEPT ![host[n]] = kept]
  /\ UNCHANGED <<taskVars, keyVars, ctx, host, procVars>>

\* cmd.Start refuses a context that is done.
StartScript(n) ==
  /\ At(n, "prepare", "stream")
  /\ ctx[n] = "live"
  /\ script' = [script EXCEPT ![n] = "run"]
  /\ UNCHANGED <<taskVars, keyVars, file, ctx, host, left, pipe, scan, ret>>

\* The script (or a descendant that holds its pipes, which the kill at the
\* deadline does not reach) prints a line.
Emit(n, s) ==
  /\ script[n] = "run"
  /\ left[n] > 0
  /\ left' = [left EXCEPT ![n] = @ - 1]
  /\ pipe' = [pipe EXCEPT ![n][s] = @ + 1]
  /\ UNCHANGED <<taskVars, keyVars, file, pc, ctx, host, script, scan, ret>>

\* The script writes $AQSH_RESULT_FILE, a path made of the task id alone.
WriteResultFile(n) ==
  /\ ResultFiles
  /\ script[n] = "run"
  /\ file' = [file EXCEPT ![host[n]] = n]
  /\ UNCHANGED <<taskVars, keyVars, pc, ctx, host, procVars, ret>>

\* The script has exited and nobody holds the write ends of its pipes.
ScriptExit(n) ==
  /\ script[n] = "run"
  /\ script' = [script EXCEPT ![n] = "exited"]
  /\ \E c \in Codes : ret' = [ret EXCEPT ![n].code = c]
  /\ UNCHANGED <<taskVars, keyVars, file, pc, ctx, host, left, pipe, scan>>

\* One round of streamLines: a line is read and XADDed, or the XADD fails
\* and, its error being ignored, the line is lost.
Relay(n, s) ==
  /\ script[n] # "none"
  /\ scan[n][s] = "open"
  /\ pipe[n][s] > 0
  /\ pipe' = [pipe EXCEPT ![n][s] = @ - 1]
  /\ \/ MaySucceed(n) /\ log' = Append(log, [attempt |-> n, kind |-> s])
     \/ MayFail(n) /\ UNCHANGED log
  /\ UNCHANGED <<taskVars, startedAt, trimmed, ttl, file, pc, ctx, host, script,
                 left, scan, ret>>

\* The next line is longer than the Scanner's buffer: Scan returns false and
\* nothing reads this pipe any more.
ScanStop(n, s) ==
  /\ LongLines
  /\ script[n] # "none"
  /\ scan[n][s] = "open"
  /\ pipe[n][s] > 0
  /\ scan' = [scan EXCEPT ![n][s] = "stopped"]
  /\ UNCHANGED <<taskVars, keyVars, file, pc, ctx, host, script, left, pipe, ret>>

\* Mutation: wg.Add(1), so that only the relay of stdout is waited for.
JoinStdout(n) ==
  /\ At(n, "stream", "eof")
  /\ script[n] = "exited"
  /\ scan[n]["stdout"] = "stopped" \/ pipe[n]["stdout"] = 0
  /\ UNCHANGED <<taskVars, keyVars, file, ctx, host, procVars, ret>>

\* wg.Wait and cmd.Wait return.
Join(n) ==
  /\ At(n, "stream", "eof")
  /\ script[n] = "exited"
  /\ \A s \in Streams : scan[n][s] = "stopped" \/ pipe[n][s] = 0
  /\ UNCHANGED <<taskVars, keyVars, file, ctx, host, procVars, ret>>

\* WriteEOF: the XADD of the marker, with the attempt's own context ...
AddEOF(n) ==
  /\ \/ /\ MaySucceed(n)
        /\ At(n, "eof", "expire")
        /\ log' = Append(log, [attempt |-> n, kind |-> "eof"])
     \/ /\ MayFail(n)
        /\ At(n, "eof", "collect")
        /\ UNCHANGED log
  /\ UNCHANGED <<taskVars, startedAt, trimmed, ttl, file, ctx, host, procVars, ret>>

\* Mutation: the EXPIRE is forgotten.
SetNoExpire(n) ==
  /\ At(n, "expire", "collect")
  /\ UNCHANGED <<taskVars, keyVars, file, ctx, host, procVars, ret>>

\* ... and, only if that succeeded, the EXPIRE of the stream.
SetExpire(n) ==
  /\ At(n, "expire", "collect")
  /\ \/ MaySucceed(n) /\ ttl' = (log # <<>>)
     \/ MayFail(n) /\ UNCHANGED ttl
  /\ UNCHANGED <<taskVars, startedAt, log, trimmed, file, ctx, host, procVars, ret>>

\* readResultFile (no data if the file is too large or unreadable, or if
\* cmd.Wait gave no exit status), then the deferred os.Remove.
Collect(n) ==
  /\ At(n, "collect", "report")
  /\ \E d \in {file[host[n]], 0} : ret' = [ret EXCEPT ![n].data = d]
  /\ file' = [file EXCEPT ![host[n]] = 0]
  /\ UNCHANGED <<taskVars, keyVars, ctx, host, procVars>>

\* Mutation: the result is stored and its exit code is not looked at.
ReportAnyCode(n) ==
  /\ At(n, "report", "return")
  /\ \/ /\ MaySucceed(n)
        /\ result' = [attempt |-> n, code |-> ret[n].code, data |-> ret[n].data]
        /\ UNCHANGED ret
     \/ /\ MayFail(n)
        /\ ret' = [ret EXCEPT ![n].err = TRUE]
        /\ UNCHANGED result
  /\ UNCHANGED <<st, retried, requeues, cur, keyVars, file, ctx, host, procVars>>

\* handleTask stores the result, then returns an error if that failed or if
\* the exit code is not 0.
Report(n) ==
  /\ At(n, "report", "return")
  /\ \/ /\ MaySucceed(n)
        /\ result' = [attempt |-> n, code |-> ret[n].code, data |-> ret[n].data]
        /\ ret' = [ret EXCEPT ![n].err = (ret[n].code # 0)]
     \/ /\ MayFail(n)
        /\ ret' = [ret EXCEPT ![n].err = TRUE]
        /\ UNCHANGED result
  /\ UNCHANGED <<st, retried, requeues, cur, keyVars, file, ctx, host, procVars>>

-----------------------------------------------------------------------------
Handler(n) ==
  \/ Begin(n) \/ EarlyError(n) \/ StartScript(n)
  \/ \E s \in Streams : Relay(n, s) \/ ScanStop(n, s)
  \/ Join(n) \/ AddEOF(n) \/ SetExpire(n) \/ Collect(n) \/ Report(n)

Script(n) ==
  \/ \E s \in Streams : Emit(n, s)
  \/ WriteResultFile(n) \/ ScriptExit(n)

Asynq ==
  \/ Recover \/ Forward
  \/ \E w \in Workers : Dequeue(w) \/ Crash(w) \/ Shutdown(w)
  \/ \E n \in Attempts : Deadline(n) \/ LeaseLost(n) \/ Finish(n) \/ ReturnStale(n)

Next ==
  \/ Submit
  \/ Asynq
  \/ MetaExpires \/ StreamExpires
  \/ \E n \in Attempts : Handler(n) \/ Script(n)

Spec == Init /\ [][Next]_vars

\* What asynq's loops run for ever: dequeue, forward, recover, the deadline
\* timer and the wait for the handler.  No fairness for scripts or handlers.
Fairness ==
  /\ WF_vars(\E w \in Workers : Dequeue(w))
  /\ WF_vars(Forward)
  /\ WF_vars(Recover)
  /\ \A n \in Attempts : WF_vars(Deadline(n)) /\ WF_vars(Finish(n))

FairSpec == Spec /\ Fairness

-----------------------------------------------------------------------------
\* What the API shows of the task, and the promise it implements.

stateToStatus ==
  CASE st = "none"     -> "unknown"
    [] st = "active"   -> "running"
    [] st = "retry"    -> "retrying"
    [] st = "archived" -> "failed"
    [] OTHER           -> st

ShownExit ==
  CASE result.code = NoCode -> "none"
    [] result.code = 0      -> "zero"
    [] OTHER                -> "nonzero"

Lifecycle == INSTANCE TaskLifecycle WITH
  status <- stateToStatus, exit <- ShownExit

\* Every step of the workers and of asynq is a step of the documented life of
\* a task, or does not show (docs/api.md, "Status Values"; README, "Life of a
\* Task"): no failure beyond max_retry, no status after a final one.
ImplementsLifecycle == Lifecycle!Spec

\* The same, and no status but "completed" and "failed" lasts for ever.
ImplementsFairLifecycle == Lifecycle!FairSpec

\* A submitted task ends, whatever its scripts do and whichever workers die:
\* the deadline (asynq.Timeout in handleSubmitTask) is what ends an attempt.
Terminates == st = "pending" ~> st \in Terminal

-----------------------------------------------------------------------------
\* Safety.

\* Each dequeue is paid for: an attempt beyond the first costs a failure
\* counted against max_retry or a requeue, and only a task whose failures
\* have reached max_retry is archived.
AttemptsCharged ==
  /\ cur = retried + requeues + (IF st \in {"active"} \cup Terminal THEN 1 ELSE 0)
  /\ st = "archived" => retried = MaxRetry

\* At most one attempt may still write to Redis, and asynq waits for it:
\* the goroutine of a timed-out attempt cannot touch what its retry writes.
OneLiveAttempt ==
  \A n \in Attempts : ctx[n] = "live" => n = cur /\ st = "active"

\* "completed" means that the attempt asynq last started stored exit code 0
\* (docs/api.md: "Finished successfully (exit code 0)"), not one that was
\* retried: handleTask stores the result before it returns nil.
CompletedExitZero ==
  st = "completed" => result.attempt = cur /\ result.code = 0

\* The log stream holds the attempts' lines one attempt after the other,
\* though the goroutines of a given-up attempt go on relaying its output.
LogByAttempt ==
  \A i, j \in 1 .. Len(log) : i < j => log[i].attempt <= log[j].attempt

\* The EOF marker ends its attempt: no line of the attempt follows it, as
\* executeScript waits for both relaying goroutines before WriteEOF.
EofEndsAttempt ==
  \A i, j \in 1 .. Len(log) :
    i < j /\ log[i].kind = "eof" => log[i].attempt < log[j].attempt

EofLogged(n)   == \E i \in 1 .. Len(log) : log[i] = [attempt |-> n, kind |-> "eof"]
LinesLogged(n) ==
  Cardinality({i \in 1 .. Len(log) : log[i].attempt = n /\ log[i].kind # "eof"})

\* The EOF marker vouches for the output: when an attempt's marker is in the
\* stream, so is every line its script printed, to either pipe (README,
\* "Streams output to Redis Streams"; holds without Redis errors, without
\* lines over 64 KiB, and until the expiry an earlier attempt's marker started
\* takes the stream away).
EofAccountsForOutput ==
  \A n \in Attempts :
    EofLogged(n) /\ trimmed = 0 => LinesLogged(n) = MaxLines - left[n]

\* A completed task's stream ends in the marker of the attempt that completed
\* it and will expire, so that a reader of a completed task is always told
\* where to stop (without Redis errors; until the stream expires).
CompletedLogClosed ==
  st = "completed" /\ log # <<>> =>
    ttl /\ log[Len(log)] = [attempt |-> cur, kind |-> "eof"]

\* The started_at shown for a completed task is that of the attempt that
\* completed it, never of one retried (without Redis errors).
StartedAtOwn == st = "completed" => startedAt \in {0, cur}

ResultFromCurrent == result' # result => st = "active" /\ result'.attempt = cur
StartFromCurrent  == startedAt' \notin {startedAt, 0} => st = "active" /\ startedAt' = cur
LogFromCurrent    ==
  Len(log') > Len(log) => st = "active" /\ log'[Len(log')].attempt = cur

\* Only the attempt asynq waits for changes what clients can read: a step
\* that stores a result, sets started_at or appends to the log is a step of
\* attempt cur while the task is active (the context passed to every Redis
\* call in worker.go and logs.go is what keeps the others out).
OnlyCurrentWrites ==
  [][ /\ ResultFromCurrent /\ StartFromCurrent /\ LogFromCurrent ]_vars

-----------------------------------------------------------------------------
\* What the documents say and the code does not do (see README, "Findings").

\* README: the worker "Stores final result in task".
ArchivedResultFinal == st = "archived" => result.attempt \in {0, cur}

\* README: the data of a result are the content of the file its script wrote,
\* and "Field omitted: Script did not write to $AQSH_RESULT_FILE".
ResultDataOwn == result.data \in {0, result.attempt}

=============================================================================
