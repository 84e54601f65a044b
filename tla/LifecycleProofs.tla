---------------------------- MODULE LifecycleProofs ----------------------------
(***************************************************************************)
(* What a client of GET /executions/{id} and of the log stream can rely    *)
(* on: the workers and asynq implement the documented life of a task, and, *)
(* as long as Redis accepts what a live attempt writes, a completed task   *)
(* shows its own attempt's start and its own attempt's complete output.    *)
(***************************************************************************)
EXTENDS LogProofs, FiniteSetTheorems, SequenceTheorems

\* A script that has exited has an exit code, and the handler that has waited
\* for it holds the code until it reports.
CodeKnown ==
  \A n \in Attempts :
    /\ script[n] = "exited" => ret[n].code \in Codes
    /\ pc[n] \in {"eof", "expire", "collect", "report"} => script[n] = "exited"

\* The live attempt, once it has begun, is the one whose start is shown.
StartKept ==
  \A n \in Attempts :
    ctx[n] = "live" /\ pc[n] \notin {"idle", "begin"} => startedAt \in {0, n}

\* The log is empty, or ends in n's marker.
EndsWith(n) == log = <<>> \/ log[Len(log)] = [attempt |-> n, kind |-> "eof"]

\* n has written its marker, and may still succeed.
Closing(n) ==
  pc[n] \in {"expire", "collect", "report"} \/ (pc[n] = "return" /\ ~ret[n].err)

\* The live attempt's marker closes the log, which is then made to expire
\* before the attempt can succeed.
LogClosed ==
  \A n \in Attempts : ctx[n] = "live" /\ Closing(n) =>
    EndsWith(n) /\ (pc[n] # "expire" /\ log # <<>> => ttl)

\* No line is lost between the script of a live attempt and the log.
LinesKept ==
  \A n \in Attempts : ctx[n] # "done" /\ trimmed = 0 =>
    LinesLogged(n) + pipe[n]["stdout"] + pipe[n]["stderr"] + left[n] = MaxLines

\* An attempt that asynq has not started has no context.
Unbegun == \A n \in Attempts : n > cur => ctx[n] = "none"

\* Without lines over 64 KiB no relay stops.
ScansOpen == \A n \in Attempts, s \in Streams : scan[n][s] = "open"

-----------------------------------------------------------------------------
\* The exit code.

\* Storing an error or the data leaves the code that a handler holds.
LEMMA CodeStays ==
  ASSUME ret \in [Attempts -> Ret], NEW n \in Attempts,
         \/ \E b : ret' = [ret EXCEPT ![n].err = b]
         \/ \E d : ret' = [ret EXCEPT ![n].data = d]
  PROVE  \A m \in Attempts : ret'[m].code = ret[m].code
<1>1. \A m \in Attempts : ret[m] \in Ret
  OBVIOUS
<1> QED
  BY <1>1 DEF Ret

LEMMA CodeKnownNext == IInv /\ CodeKnown /\ [Next]_vars => CodeKnown'
<1> SUFFICES ASSUME IInv, CodeKnown, [Next]_vars PROVE CodeKnown'
  OBVIOUS
<1> DEFINE Held == {"eof", "expire", "collect", "report"}
<1>0. TypeOK
  BY DEF IInv
<1>1. ASSUME script' = script, \A m \in Attempts : ret'[m].code = ret[m].code,
             \A m \in Attempts : pc'[m] \in Held => pc[m] \in Held
      PROVE  CodeKnown'
  BY <1>1 DEF CodeKnown
<1>2. CASE Submit \/ Recover \/ Forward \/ MetaExpires \/ StreamExpires \/ UNCHANGED vars
  BY <1>1, <1>2 DEF Submit, Recover, Forward, MetaExpires, StreamExpires, vars, procVars
<1>3. ASSUME NEW w \in Workers, Dequeue(w) PROVE CodeKnown'
  BY <1>0, <1>1, <1>3 DEF Dequeue, TypeOK, procVars
<1>4. ASSUME NEW A \in SUBSET Attempts, NEW at \in {"done", "dead"}, Gone(A, at)
      PROVE  CodeKnown'
  BY <1>0, <1>4 DEF Gone, CodeKnown, TypeOK
<1>5. ASSUME NEW w \in Workers, Crash(w) \/ Shutdown(w) PROVE CodeKnown'
  <2>1. On(w) \in SUBSET Attempts
    BY DEF On
  <2> QED
    BY <1>4, <1>5, <2>1 DEF Crash, Shutdown
<1>6. ASSUME NEW n \in Attempts, Finish(n) \/ ReturnStale(n) PROVE CodeKnown'
  BY <1>4, <1>6 DEF Finish, ReturnStale
<1>7. ASSUME NEW n \in Attempts,
             \/ Deadline(n) \/ LeaseLost(n) \/ Begin(n) \/ AddEOF(n) \/ SetExpire(n)
             \/ WriteResultFile(n) \/ \E s \in Streams : Relay(n, s) \/ ScanStop(n, s) \/ Emit(n, s)
      PROVE  CodeKnown'
  <2>1. script' = script /\ ret' = ret
    BY <1>7 DEF Deadline, LeaseLost, Begin, AddEOF, SetExpire, WriteResultFile, Relay,
       ScanStop, Emit, procVars
  <2>2. \A m \in Attempts : pc'[m] \in Held => pc[m] \in Held
    BY <1>0, <1>7 DEF Deadline, LeaseLost, Begin, AddEOF, SetExpire, WriteResultFile, Relay,
       ScanStop, Emit, At, TypeOK
  <2> QED
    BY <1>1, <2>1, <2>2
<1>8. ASSUME NEW n \in Attempts, EarlyError(n) \/ Collect(n) \/ Report(n)
      PROVE  CodeKnown'
  <2>1. script' = script /\ \A m \in Attempts : pc'[m] \in Held => pc[m] \in Held
    BY <1>0, <1>8 DEF EarlyError, Collect, Report, At, TypeOK, procVars
  <2>2. \A m \in Attempts : ret'[m].code = ret[m].code
    BY <1>0, <1>8, CodeStays DEF EarlyError, Collect, Report, TypeOK
  <2> QED
    BY <1>1, <2>1, <2>2
<1>9. ASSUME NEW n \in Attempts, StartScript(n) PROVE CodeKnown'
  BY <1>0, <1>9 DEF StartScript, At, CodeKnown, TypeOK
<1>10. ASSUME NEW n \in Attempts, Join(n) PROVE CodeKnown'
  BY <1>0, <1>10 DEF Join, At, CodeKnown, TypeOK, procVars
<1>11. ASSUME NEW n \in Attempts, ScriptExit(n) PROVE CodeKnown'
  <2>1. PICK c \in Codes : ret' = [ret EXCEPT ![n].code = c]
    BY <1>11 DEF ScriptExit
  <2>2. ret'[n].code = c /\ \A m \in Attempts \ {n} : ret'[m] = ret[m]
    <3>1. ret[n] \in Ret /\ ret \in [Attempts -> Ret]
      BY <1>0 DEF TypeOK
    <3> QED
      BY <2>1, <3>1 DEF Ret
  <2>3. pc' = pc /\ script' = [script EXCEPT ![n] = "exited"]
    BY <1>11 DEF ScriptExit
  <2> QED
    BY <1>0, <2>2, <2>3 DEF CodeKnown, TypeOK
<1> QED
  BY <1>2, <1>3, <1>5, <1>6, <1>7, <1>8, <1>9, <1>10, <1>11 DEF Next, Asynq, Handler, Script

-----------------------------------------------------------------------------
\* The refinement.

\* What is shown of the task is what its record and its result say.
LEMMA Shown ==
  /\ st = "none" => stateToStatus = "unknown"
  /\ st = "pending" => stateToStatus = "pending"
  /\ st = "active" => stateToStatus = "running"
  /\ st = "retry" => stateToStatus = "retrying"
  /\ st = "completed" => stateToStatus = "completed"
  /\ st = "archived" => stateToStatus = "failed"
  /\ result.code = NoCode => ShownExit = "none"
  /\ result.code = 0 => ShownExit = "zero"
  /\ result.code \in Codes => ShownExit \in {"zero", "nonzero"}
BY DEF stateToStatus, ShownExit, NoCode, Codes

LEMMA InitImplements == Init => Lifecycle!Init
BY Shown DEF Init, Lifecycle!Init, NoResult

\* A step that changes nothing of what is shown is a stutter.
LEMMA Hidden ==
  ASSUME st' = st, retried' = retried, result' = result
  PROVE  UNCHANGED Lifecycle!vars
BY DEF Lifecycle!vars, stateToStatus, ShownExit

\* asynq's bookkeeping of a failure retries the task, or fails it when
\* max_retry is used up.
LEMMA FailureImplements ==
  ASSUME TypeOK, st = "active", HandleFailed
  PROVE  Lifecycle!Next
<1>1. retried \in Nat /\ MaxRetry \in Nat /\ retried <= MaxRetry
  BY BoundsAssumption DEF TypeOK
<1>2. stateToStatus = "running" /\ ShownExit' = ShownExit
  BY Shown DEF HandleFailed, ShownExit
<1>3. CASE retried < MaxRetry
  <2>1. stateToStatus' = "retrying" /\ retried' = retried + 1
    BY <1>3 DEF HandleFailed, stateToStatus
  <2> QED
    BY <1>2, <1>3, <2>1 DEF Lifecycle!Next, Lifecycle!Leave, Lifecycle!Retry
<1>4. CASE ~(retried < MaxRetry)
  <2>1. stateToStatus' = "failed" /\ retried' = retried /\ retried = MaxRetry
    BY <1>1, <1>4 DEF HandleFailed, stateToStatus
  <2> QED
    BY <1>2, <2>1 DEF Lifecycle!Next, Lifecycle!Leave, Lifecycle!Fail
<1> QED
  BY <1>3, <1>4

LEMMA SubmitImplements == ASSUME Submit PROVE Lifecycle!Submit
<1>1. stateToStatus = "unknown" /\ stateToStatus' = "pending" /\ ShownExit' = ShownExit
  BY DEF Submit, stateToStatus, ShownExit
<1> QED
  BY <1>1 DEF Submit, Lifecycle!Submit

LEMMA DequeueImplements == ASSUME NEW w \in Workers, Dequeue(w) PROVE Lifecycle!Start
<1>1. stateToStatus = "pending" /\ stateToStatus' = "running" /\ ShownExit' = ShownExit
  BY DEF Dequeue, stateToStatus, ShownExit
<1> QED
  BY <1>1 DEF Dequeue, Lifecycle!Start

LEMMA ForwardImplements == ASSUME Forward PROVE Lifecycle!Again
<1>1. stateToStatus = "retrying" /\ stateToStatus' = "pending" /\ ShownExit' = ShownExit
  BY DEF Forward, stateToStatus, ShownExit
<1> QED
  BY <1>1 DEF Forward, Lifecycle!Again

\* A shutdown takes the task back only from a live attempt.
LEMMA ShutdownImplements ==
  ASSUME IInv, NEW w \in Workers, Shutdown(w)
  PROVE  Lifecycle!Requeue
<1>1. st = "active"
  BY DEF IInv, Shutdown, OneLiveAttempt, On
<1>2. stateToStatus = "running" /\ stateToStatus' = "pending" /\ ShownExit' = ShownExit
  BY <1>1 DEF Shutdown, stateToStatus, ShownExit
<1> QED
  BY <1>2 DEF Shutdown, Lifecycle!Requeue

\* A handler's nil completes the task, whose stored exit code is 0; its error
\* is a failure.
LEMMA FinishImplements ==
  ASSUME IInv, NEW n \in Attempts, Finish(n)
  PROVE  Lifecycle!Next
<1>1. TypeOK /\ st = "active"
  BY DEF IInv, Finish, OneLiveAttempt
<1>2. CASE HandleFailed
  BY <1>1, <1>2, FailureImplements
<1>3. CASE ~ret[n].err
  <2>1. result.code = 0 /\ result' = result /\ retried' = retried /\ st' = "completed"
    BY <1>3 DEF IInv, Finish, NilMeansStored
  <2>2. /\ stateToStatus = "running" /\ stateToStatus' = "completed"
        /\ ShownExit = "zero" /\ ShownExit' = ShownExit
    BY <1>1, <2>1 DEF stateToStatus, ShownExit, NoCode
  <2> QED
    BY <2>1, <2>2 DEF Lifecycle!Next, Lifecycle!Leave, Lifecycle!Complete
<1> QED
  BY <1>2, <1>3 DEF Finish

\* A result is stored only by the attempt that asynq waits for, with the code
\* of a script that has exited.
LEMMA ReportImplements ==
  ASSUME IInv, CodeKnown, NEW n \in Attempts, Report(n)
  PROVE  [Lifecycle!Next]_(Lifecycle!vars)
<1>1. CASE result' = result
  BY <1>1, Hidden DEF Report
<1>2. CASE /\ MaySucceed(n)
           /\ result' = [attempt |-> n, code |-> ret[n].code, data |-> ret[n].data]
  <2>1. st = "active" /\ ret[n].code \in Codes
    BY <1>2, LiveIsCurrent DEF CodeKnown, Report, At
  <2>2. result'.code \in Codes /\ st' = st /\ retried' = retried
    BY <1>2, <2>1 DEF Report
  <2>3. /\ stateToStatus = "running" /\ stateToStatus' = stateToStatus
        /\ ShownExit' \in {"zero", "nonzero"}
    BY <2>1, <2>2 DEF stateToStatus, ShownExit, Codes, NoCode
  <2> QED
    BY <2>2, <2>3 DEF Lifecycle!Next, Lifecycle!Store
<1> QED
  BY <1>1, <1>2 DEF Report

LEMMA NextImplements ==
  IInv /\ CodeKnown /\ [Next]_vars => [Lifecycle!Next]_(Lifecycle!vars)
<1> SUFFICES ASSUME IInv, CodeKnown, [Next]_vars PROVE [Lifecycle!Next]_(Lifecycle!vars)
  OBVIOUS
<1>1. CASE Submit \/ Forward \/ \E w \in Workers : Dequeue(w) \/ Shutdown(w)
  BY <1>1, SubmitImplements, ForwardImplements, DequeueImplements, ShutdownImplements
     DEF Lifecycle!Next, Lifecycle!Leave
<1>2. CASE Recover \/ \E n \in Attempts : Deadline(n)
  <2>1. TypeOK /\ st = "active" /\ HandleFailed
    BY <1>2 DEF IInv, Recover, Deadline, OneLiveAttempt
  <2> QED
    BY <2>1, FailureImplements
<1>3. ASSUME NEW n \in Attempts, Finish(n) PROVE [Lifecycle!Next]_(Lifecycle!vars)
  BY <1>3, FinishImplements
<1>4. ASSUME NEW n \in Attempts, Report(n) PROVE [Lifecycle!Next]_(Lifecycle!vars)
  BY <1>4, ReportImplements
<1>5. CASE \/ UNCHANGED vars \/ MetaExpires \/ StreamExpires
           \/ \E w \in Workers : Crash(w)
           \/ \E n \in Attempts : LeaseLost(n) \/ ReturnStale(n) \/ Script(n)
  BY <1>5, Hidden DEF vars, taskVars, MetaExpires, StreamExpires, Crash, LeaseLost,
     ReturnStale, Script, Emit, WriteResultFile, ScriptExit
<1>6. ASSUME NEW n \in Attempts,
             \/ Begin(n) \/ EarlyError(n) \/ StartScript(n) \/ Join(n) \/ AddEOF(n)
             \/ SetExpire(n) \/ Collect(n) \/ \E s \in Streams : Relay(n, s) \/ ScanStop(n, s)
      PROVE  [Lifecycle!Next]_(Lifecycle!vars)
  BY <1>6, Hidden DEF Begin, EarlyError, StartScript, Join, AddEOF, SetExpire, Collect,
     Relay, ScanStop, taskVars
<1> QED
  BY <1>1, <1>2, <1>3, <1>4, <1>5, <1>6 DEF Next, Asynq, Handler

\* Whatever the workers, their attempts and their faults do, what the API shows
\* of a task is the documented life of a task.
THEOREM LifecycleImplemented == Spec => ImplementsLifecycle
<1>1. Init => CodeKnown
  BY DEF Init, CodeKnown
<1>2. Spec => []CodeKnown
  BY <1>1, Invariant, CodeKnownNext, PTL DEF Spec
<1> QED
  BY <1>2, Invariant, InitImplements, NextImplements, PTL
     DEF Spec, ImplementsLifecycle, Lifecycle!Spec

-----------------------------------------------------------------------------
\* Without Redis errors a live attempt's commands succeed.
LEMMA LiveSucceeds ==
  ASSUME ~RedisFaults, NEW n \in Attempts, MayFail(n)
  PROVE  ctx[n] # "live"
BY DEF MayFail

\* Only a handler's return completes a task.
LEMMA Completing ==
  ASSUME [Next]_vars, st # "completed", st' = "completed"
  PROVE  \E n \in Attempts : Finish(n)
BY DEF Next, Asynq, Handler, Script, Submit, Recover, Forward, Dequeue, Crash, Shutdown,
   Deadline, LeaseLost, ReturnStale, HandleFailed, MetaExpires, StreamExpires, Begin,
   EarlyError, StartScript, Relay, ScanStop, Join, AddEOF, SetExpire, Collect, Report, Emit,
   WriteResultFile, ScriptExit, taskVars, vars

\* Nobody is left to write to the keys of a completed task: they only expire.
LEMMA CompletedStays ==
  ASSUME IInv, [Next]_vars, st = "completed"
  PROVE  /\ cur' = cur /\ startedAt' \in {0, startedAt}
         /\ log' = <<>> \/ (log' = log /\ ttl' = ttl)
<1>1. \A n \in Attempts : ctx[n] # "live"
  BY DEF IInv, OneLiveAttempt
<1> QED
  BY <1>1 DEF Next, Asynq, Handler, Script, Submit, Recover, Forward, Dequeue, Crash, Shutdown,
     Deadline, LeaseLost, Finish, ReturnStale, HandleFailed, MetaExpires, StreamExpires, Begin,
     MaySucceed, EarlyError, StartScript, Relay, ScanStop, Join, AddEOF, SetExpire, Collect,
     Report, Emit, WriteResultFile, ScriptExit, taskVars, keyVars, vars

-----------------------------------------------------------------------------
\* The shown start.

LEMMA StartKeptNext == ~RedisFaults /\ IInv /\ StartKept /\ [Next]_vars => StartKept'
<1> SUFFICES ASSUME ~RedisFaults, IInv, StartKept, [Next]_vars PROVE StartKept'
  OBVIOUS
<1> DEFINE Begun == PCs \ {"idle", "begin"}
<1>0. TypeOK /\ TypeOK'
  BY NextIInv DEF IInv
<1>1. ASSUME startedAt' \in {0, startedAt},
             \A m \in Attempts : ctx'[m] = "live" /\ pc'[m] \in Begun =>
               ctx[m] = "live" /\ pc[m] \in Begun
      PROVE  StartKept'
  BY <1>0, <1>1 DEF StartKept, TypeOK
<1>2. CASE Submit \/ Recover \/ Forward \/ MetaExpires \/ StreamExpires \/ UNCHANGED vars
  BY <1>1, <1>2 DEF Submit, Recover, Forward, MetaExpires, StreamExpires, vars, keyVars
<1>3. ASSUME NEW w \in Workers, Dequeue(w) PROVE StartKept'
  BY <1>0, <1>1, <1>3 DEF Dequeue, TypeOK, keyVars
<1>4. ASSUME NEW A \in SUBSET Attempts, NEW at \in {"done", "dead"}, Gone(A, at),
             startedAt' = startedAt
      PROVE  StartKept'
  BY <1>1, <1>4 DEF Gone
<1>5. ASSUME NEW w \in Workers, Crash(w) \/ Shutdown(w) PROVE StartKept'
  <2>1. On(w) \in SUBSET Attempts
    BY DEF On
  <2> QED
    BY <1>4, <1>5, <2>1 DEF Crash, Shutdown, keyVars
<1>6. ASSUME NEW n \in Attempts, Finish(n) \/ ReturnStale(n) PROVE StartKept'
  BY <1>4, <1>6 DEF Finish, ReturnStale, keyVars
<1>7. ASSUME NEW n \in Attempts, Deadline(n) \/ LeaseLost(n) \/ Script(n)
      PROVE  StartKept'
  BY <1>0, <1>1, <1>7 DEF Deadline, LeaseLost, Script, Emit, WriteResultFile, ScriptExit,
     TypeOK, keyVars
<1>8. ASSUME NEW n \in Attempts, Begin(n) PROVE StartKept'
  <2>1. pc[n] = "begin" /\ ctx' = ctx /\ \A m \in Attempts \ {n} : pc'[m] = pc[m]
    BY <1>0, <1>8 DEF Begin, At, TypeOK
  <2>2. CASE ctx[n] = "live"
    <3>1. startedAt' = n
      BY <1>8, <2>2, LiveSucceeds DEF Begin
    <3>2. \A m \in Attempts : ctx'[m] = "live" => m = n
      BY <2>1, <2>2 DEF IInv, OneLiveAttempt
    <3> QED
      BY <3>1, <3>2 DEF StartKept
  <2>3. CASE ctx[n] # "live"
    <3>1. startedAt' = startedAt
      BY <1>8, <2>3 DEF Begin, MaySucceed
    <3> QED
      BY <2>1, <2>3, <3>1 DEF StartKept
  <2> QED
    BY <2>2, <2>3
<1>9. ASSUME NEW n \in Attempts,
             \/ EarlyError(n) \/ StartScript(n) \/ Join(n) \/ AddEOF(n) \/ SetExpire(n)
             \/ Collect(n) \/ Report(n) \/ \E s \in Streams : Relay(n, s) \/ ScanStop(n, s)
      PROVE  StartKept'
  BY <1>0, <1>1, <1>9 DEF EarlyError, StartScript, Join, AddEOF, SetExpire, Collect, Report,
     Relay, ScanStop, At, TypeOK, keyVars
<1> QED
  BY <1>2, <1>3, <1>5, <1>6, <1>7, <1>8, <1>9 DEF Next, Asynq, Handler

LEMMA StartedAtOwnNext ==
  ~RedisFaults /\ IInv /\ StartKept /\ StartedAtOwn /\ [Next]_vars => StartedAtOwn'
<1> SUFFICES ASSUME IInv, StartKept, StartedAtOwn, [Next]_vars, st' = "completed"
             PROVE  startedAt' \in {0, cur'}
  BY DEF StartedAtOwn
<1>1. CASE st = "completed"
  <2>1. startedAt \in {0, cur} /\ cur' = cur /\ startedAt' \in {0, startedAt}
    BY <1>1, CompletedStays DEF StartedAtOwn
  <2> QED
    BY <2>1
<1>2. CASE st # "completed"
  <2>1. PICK n \in Attempts : Finish(n)
    BY <1>2, Completing
  <2>2. n = cur /\ ctx[n] = "live" /\ pc[n] = "return"
    BY <2>1 DEF Finish, IInv, OneLiveAttempt
  <2>3. startedAt \in {0, n} /\ startedAt' = startedAt /\ cur' = cur
    BY <2>1, <2>2 DEF StartKept, Finish, HandleFailed, keyVars
  <2> QED
    BY <2>2, <2>3
<1> QED
  BY <1>1, <1>2

\* The started_at of a completed task is that of the attempt that completed it,
\* or its key has expired, as long as Redis accepts what that attempt writes.
THEOREM StartShownIsOwn ==
  ASSUME ~RedisFaults
  PROVE  Spec => []StartedAtOwn
<1>1. Init => StartKept /\ StartedAtOwn
  BY DEF Init, StartKept, StartedAtOwn
<1>2. IInv /\ StartKept /\ StartedAtOwn /\ [Next]_vars => (StartKept /\ StartedAtOwn)'
  BY StartKeptNext, StartedAtOwnNext
<1> QED
  BY <1>1, <1>2, Invariant, PTL DEF Spec

-----------------------------------------------------------------------------
\* The end of the log.

LEMMA Appended ==
  ASSUME IInv, NEW n \in Attempts, NEW k \in Streams \cup {"eof"},
         log' = Append(log, [attempt |-> n, kind |-> k])
  PROVE  /\ Len(log) \in Nat /\ Len(log') = Len(log) + 1
         /\ log'[Len(log')] = [attempt |-> n, kind |-> k]
         /\ \A i \in 1 .. Len(log) : log'[i] = log[i]
<1>1. log \in Seq(Entry) /\ [attempt |-> n, kind |-> k] \in Entry
  BY DEF IInv, TypeOK, Entry
<1> QED
  BY <1>1, AppendProperties, LenProperties

LEMMA LogClosedNext == ~RedisFaults /\ LInv /\ LogClosed /\ [Next]_vars => LogClosed'
<1> SUFFICES ASSUME ~RedisFaults, LInv, LogClosed, [Next]_vars PROVE LogClosed'
  OBVIOUS
<1>0. TypeOK /\ IInv
  BY DEF LInv, IInv
<1>1. ASSUME log' = log, ttl' = ttl,
             \A m \in Attempts : ctx'[m] = "live" /\ Closing(m)' =>
               ctx[m] = "live" /\ Closing(m) /\ (pc'[m] # "expire" => pc[m] # "expire")
      PROVE  LogClosed'
  BY <1>1 DEF LogClosed, EndsWith
<1>2. CASE Submit \/ Recover \/ Forward \/ MetaExpires \/ UNCHANGED vars
  BY <1>1, <1>2 DEF Submit, Recover, Forward, MetaExpires, Closing, vars, keyVars
<1>3. CASE StreamExpires
  BY <1>3 DEF StreamExpires, LogClosed, EndsWith
<1>4. ASSUME NEW w \in Workers, Dequeue(w) PROVE LogClosed'
  BY <1>0, <1>1, <1>4 DEF Dequeue, TypeOK, Closing, keyVars
<1>5. ASSUME NEW A \in SUBSET Attempts, NEW at \in {"done", "dead"}, Gone(A, at),
             log' = log, ttl' = ttl
      PROVE  LogClosed'
  BY <1>1, <1>5 DEF Gone, Closing
<1>6. ASSUME NEW w \in Workers, Crash(w) \/ Shutdown(w) PROVE LogClosed'
  <2>1. On(w) \in SUBSET Attempts
    BY DEF On
  <2> QED
    BY <1>5, <1>6, <2>1 DEF Crash, Shutdown, keyVars
<1>7. ASSUME NEW n \in Attempts, Finish(n) \/ ReturnStale(n) PROVE LogClosed'
  BY <1>5, <1>7 DEF Finish, ReturnStale, keyVars
<1>8. ASSUME NEW n \in Attempts, Deadline(n) \/ LeaseLost(n) \/ Begin(n) \/ StartScript(n)
             \/ Join(n) \/ WriteResultFile(n) \/ \E s \in Streams : Emit(n, s) \/ ScanStop(n, s)
      PROVE  LogClosed'
  BY <1>0, <1>1, <1>8 DEF Deadline, LeaseLost, Begin, StartScript, Join, WriteResultFile, Emit,
     ScanStop, At, Closing, TypeOK, keyVars, procVars
<1>9. ASSUME NEW n \in Attempts, ScriptExit(n) PROVE LogClosed'
  <2>1. PICK c \in Codes : ret' = [ret EXCEPT ![n].code = c]
    BY <1>9 DEF ScriptExit
  <2>2. \A m \in Attempts : ret'[m].err <=> ret[m].err
    <3>1. \A m \in Attempts : ret[m] \in Ret
      BY <1>0 DEF TypeOK
    <3>2. ret'[n] = [ret[n] EXCEPT !.code = c] /\ \A m \in Attempts \ {n} : ret'[m] = ret[m]
      BY <1>0, <2>1 DEF TypeOK
    <3>3. ret'[n].err <=> ret[n].err
      BY <3>1, <3>2 DEF Ret
    <3> QED
      BY <3>2, <3>3
  <2> QED
    BY <1>1, <1>9, <2>2 DEF ScriptExit, Closing, keyVars
<1>10. ASSUME NEW n \in Attempts, EarlyError(n) PROVE LogClosed'
  <2>1. ret'[n].err /\ pc'[n] = "return"
        /\ \A m \in Attempts \ {n} : ret'[m] = ret[m] /\ pc'[m] = pc[m]
    <3>1. ret[n] \in Ret
      BY <1>0 DEF TypeOK
    <3> QED
      BY <1>0, <1>10, <3>1 DEF EarlyError, At, TypeOK, Ret
  <2> QED
    BY <1>1, <1>10, <2>1 DEF EarlyError, Closing, keyVars
<1>11. ASSUME NEW n \in Attempts, Collect(n) \/ Report(n) PROVE LogClosed'
  <2>1. /\ pc[n] \in {"collect", "report"} /\ pc'[n] # "expire" /\ ctx' = ctx
        /\ \A m \in Attempts \ {n} : ret'[m] = ret[m] /\ pc'[m] = pc[m]
    BY <1>0, <1>11 DEF Collect, Report, At, TypeOK
  <2> QED
    BY <1>1, <1>11, <2>1 DEF Collect, Report, Closing, keyVars
<1>12. ASSUME NEW n \in Attempts, SetExpire(n) PROVE LogClosed'
  <2>1. /\ pc[n] = "expire" /\ pc'[n] = "collect" /\ ctx' = ctx /\ ret' = ret /\ log' = log
        /\ \A m \in Attempts \ {n} : pc'[m] = pc[m]
    BY <1>0, <1>12 DEF SetExpire, At, TypeOK
  <2>2. CASE ctx[n] = "live"
    <3>1. ttl' <=> log # <<>>
      BY <1>12, <2>2, LiveSucceeds DEF SetExpire
    <3>2. \A m \in Attempts : ctx'[m] = "live" => m = n
      BY <1>0, <2>1, <2>2 DEF IInv, OneLiveAttempt
    <3> QED
      BY <2>1, <2>2, <3>1, <3>2 DEF LogClosed, EndsWith, Closing
  <2>3. CASE ctx[n] # "live"
    <3>1. ttl' = ttl
      BY <1>12, <2>3 DEF SetExpire, MaySucceed
    <3> QED
      BY <1>1, <2>1, <2>3, <3>1 DEF Closing
  <2> QED
    BY <2>2, <2>3
<1>13. ASSUME NEW n \in Attempts, AddEOF(n) PROVE LogClosed'
  <2>1. /\ pc[n] = "eof" /\ ctx' = ctx /\ ret' = ret /\ ttl' = ttl
        /\ \A m \in Attempts \ {n} : pc'[m] = pc[m]
    BY <1>0, <1>13 DEF AddEOF, At, TypeOK
  <2>2. CASE ctx[n] = "live"
    <3>1. /\ log' = Append(log, [attempt |-> n, kind |-> "eof"]) /\ pc'[n] = "expire"
      BY <1>0, <1>13, <2>2, LiveSucceeds DEF AddEOF, At, TypeOK
    <3>2. EndsWith(n)'
      BY <1>0, <3>1, Appended DEF EndsWith
    <3>3. \A m \in Attempts : ctx'[m] = "live" => m = n
      BY <1>0, <2>1, <2>2 DEF IInv, OneLiveAttempt
    <3> QED
      BY <3>1, <3>2, <3>3 DEF LogClosed
  <2>3. CASE ctx[n] # "live"
    <3>1. log' = log
      BY <1>13, <2>3 DEF AddEOF, MaySucceed
    <3> QED
      BY <1>1, <2>1, <2>3, <3>1 DEF Closing
  <2> QED
    BY <2>2, <2>3
<1>14. ASSUME NEW n \in Attempts, NEW s \in Streams, Relay(n, s) PROVE LogClosed'
  <2>1. pc[n] = "stream" /\ UNCHANGED <<pc, ctx, ret, ttl>>
    BY <1>0, <1>14, RelaysStream DEF Relay, LInv
  <2>2. CASE ctx[n] = "live"
    <3>1. \A m \in Attempts : ctx'[m] = "live" => m = n
      BY <1>0, <2>1, <2>2 DEF IInv, OneLiveAttempt
    <3> QED
      BY <2>1, <3>1 DEF LogClosed, Closing
  <2>3. CASE ctx[n] # "live"
    <3>1. log' = log
      BY <1>14, <2>3 DEF Relay, MaySucceed
    <3> QED
      BY <1>1, <2>1, <3>1 DEF Closing
  <2> QED
    BY <2>2, <2>3
<1> QED
  BY <1>2, <1>3, <1>4, <1>6, <1>7, <1>8, <1>9, <1>10, <1>11, <1>12, <1>13, <1>14
     DEF Next, Asynq, Handler, Script

LEMMA CompletedLogClosedNext ==
  LInv /\ LogClosed /\ CompletedLogClosed /\ [Next]_vars => CompletedLogClosed'
<1> SUFFICES ASSUME LInv, LogClosed, CompletedLogClosed, [Next]_vars,
                    st' = "completed", log' # <<>>
             PROVE  ttl' /\ log'[Len(log')] = [attempt |-> cur', kind |-> "eof"]
  BY DEF CompletedLogClosed
<1>0. IInv
  BY DEF LInv
<1>1. CASE st = "completed"
  BY <1>0, <1>1, CompletedStays DEF CompletedLogClosed
<1>2. CASE st # "completed"
  <2>1. PICK n \in Attempts : Finish(n)
    BY <1>2, Completing
  <2>2. /\ n = cur /\ ctx[n] = "live" /\ pc[n] = "return" /\ ~ret[n].err
        /\ log' = log /\ ttl' = ttl /\ cur' = cur
    BY <1>0, <2>1 DEF Finish, HandleFailed, IInv, OneLiveAttempt, keyVars
  <2> QED
    BY <2>2 DEF LogClosed, Closing, EndsWith
<1> QED
  BY <1>1, <1>2

\* The log of a completed task is empty, its time having passed, or ends in the
\* marker of the attempt that completed it and will expire, as long as Redis
\* accepts what that attempt writes.
THEOREM CompletedLogEnds ==
  ASSUME ~RedisFaults
  PROVE  Spec => []CompletedLogClosed
<1>1. Init => LogClosed /\ CompletedLogClosed
  BY DEF Init, LogClosed, CompletedLogClosed
<1>2. LInv /\ LogClosed /\ CompletedLogClosed /\ [Next]_vars
        => (LogClosed /\ CompletedLogClosed)'
  BY LogClosedNext, CompletedLogClosedNext
<1> QED
  BY <1>1, <1>2, LogInvariant, PTL DEF Spec

-----------------------------------------------------------------------------
\* What the marker vouches for.

\* The places of n's lines in the log.
LinesAt(n) == {i \in 1 .. Len(log) : log[i].attempt = n /\ log[i].kind # "eof"}

LEMMA LinesCounted ==
  ASSUME TypeOK, NEW n \in Attempts
  PROVE  IsFiniteSet(LinesAt(n)) /\ LinesLogged(n) = Cardinality(LinesAt(n))
         /\ LinesLogged(n) \in Nat
<1>1. Len(log) \in Nat
  BY LenProperties DEF TypeOK
<1>2. IsFiniteSet(1 .. Len(log)) /\ LinesAt(n) \subseteq 1 .. Len(log)
  BY <1>1, FS_Interval DEF LinesAt
<1>3. IsFiniteSet(LinesAt(n))
  BY <1>2, FS_Subset
<1> QED
  BY <1>3, FS_CardinalityType DEF LinesLogged, LinesAt

\* An entry that is appended counts for its attempt, unless it is a marker.
LEMMA LinesAppend ==
  ASSUME IInv, NEW n \in Attempts, NEW k \in Streams \cup {"eof"},
         log' = Append(log, [attempt |-> n, kind |-> k]), NEW m \in Attempts
  PROVE  LinesLogged(m)' = LinesLogged(m) + (IF m = n /\ k # "eof" THEN 1 ELSE 0)
<1> DEFINE e == [attempt |-> n, kind |-> k]
<1>1. /\ Len(log) \in Nat /\ Len(log') = Len(log) + 1 /\ log'[Len(log) + 1] = e
      /\ \A i \in 1 .. Len(log) : log'[i] = log[i]
  BY Appended
<1>2. \A i : i \in 1 .. Len(log') <=> i \in 1 .. Len(log) \/ i = Len(log) + 1
  BY <1>1
<1>3. Len(log) + 1 \notin 1 .. Len(log)
  BY <1>1
<1>4. /\ IsFiniteSet(LinesAt(m)) /\ LinesLogged(m) = Cardinality(LinesAt(m))
      /\ LinesLogged(m) \in Nat
  BY LinesCounted DEF IInv
<1>5. LinesLogged(m)' = Cardinality(LinesAt(m)')
  BY DEF LinesLogged, LinesAt
<1>6. CASE m = n /\ k # "eof"
  <2>1. LinesAt(m)' = LinesAt(m) \cup {Len(log) + 1}
    BY <1>1, <1>2, <1>6 DEF LinesAt
  <2>2. Len(log) + 1 \notin LinesAt(m)
    BY <1>3 DEF LinesAt
  <2>3. Cardinality(LinesAt(m)') = Cardinality(LinesAt(m)) + 1
    BY <1>4, <2>1, <2>2, FS_AddElement
  <2> QED
    BY <1>4, <1>5, <1>6, <2>3
<1>7. CASE ~(m = n /\ k # "eof")
  <2>1. LinesAt(m)' = LinesAt(m)
    BY <1>1, <1>2, <1>7 DEF LinesAt
  <2> QED
    BY <1>4, <1>5, <1>7, <2>1
<1> QED
  BY <1>6, <1>7

LEMMA ScansOpenNext == ~LongLines /\ IInv /\ ScansOpen /\ [Next]_vars => ScansOpen'
<1> SUFFICES ASSUME ~LongLines, IInv, ScansOpen, [Next]_vars PROVE ScansOpen'
  OBVIOUS
<1>1. CASE scan' = scan
  BY <1>1 DEF ScansOpen
<1>2. ASSUME NEW A \in SUBSET Attempts, NEW at \in {"done", "dead"}, Gone(A, at)
      PROVE  ScansOpen'
  BY <1>2 DEF Gone, ScansOpen
<1>3. ASSUME NEW w \in Workers, Crash(w) \/ Shutdown(w) PROVE ScansOpen'
  <2>1. On(w) \in SUBSET Attempts
    BY DEF On
  <2> QED
    BY <1>2, <1>3, <2>1 DEF Crash, Shutdown
<1>4. ASSUME NEW n \in Attempts, Finish(n) \/ ReturnStale(n) PROVE ScansOpen'
  BY <1>2, <1>4 DEF Finish, ReturnStale
<1>5. CASE \/ Submit \/ Recover \/ Forward \/ MetaExpires \/ StreamExpires \/ UNCHANGED vars
           \/ \E w \in Workers : Dequeue(w)
           \/ \E n \in Attempts : Deadline(n) \/ LeaseLost(n) \/ Script(n) \/ Handler(n)
  BY <1>1, <1>5 DEF Submit, Recover, Forward, MetaExpires, StreamExpires, Dequeue, Deadline,
     LeaseLost, Script, Emit, WriteResultFile, ScriptExit, Handler, Begin, EarlyError,
     StartScript, Relay, ScanStop, Join, AddEOF, SetExpire, Collect, Report, procVars, vars
<1> QED
  BY <1>3, <1>4, <1>5 DEF Next, Asynq

LEMMA UnbegunNext == LInv /\ Unbegun /\ [Next]_vars => Unbegun'
<1> SUFFICES ASSUME LInv, Unbegun, [Next]_vars PROVE Unbegun'
  OBVIOUS
<1>0. TypeOK /\ IInv /\ Unstarted /\ cur \in Nat /\ Attempts \subseteq Nat
  BY DEF LInv, IInv, TypeOK, Attempts
<1>1. ASSUME cur' = cur, \A n \in Attempts : n > cur => ctx'[n] = ctx[n]
      PROVE  Unbegun'
  BY <1>1 DEF Unbegun
<1>2. ASSUME NEW w \in Workers, Dequeue(w) PROVE Unbegun'
  <2> SUFFICES ASSUME NEW n \in Attempts, n > cur' PROVE ctx'[n] = "none"
    BY DEF Unbegun
  <2>1. n > cur /\ n # cur + 1
    <3>1. n \in Nat /\ cur' = cur + 1
      BY <1>0, <1>2 DEF Dequeue
    <3> QED
      BY <1>0, <3>1
  <2>2. ctx'[n] = ctx[n]
    BY <1>0, <1>2, <2>1 DEF Dequeue, TypeOK
  <2> QED
    BY <2>1, <2>2 DEF Unbegun
<1>3. ASSUME NEW w \in Workers, Crash(w) \/ Shutdown(w) PROVE Unbegun'
  <2>1. \A n \in Attempts : n > cur => n \notin On(w)
    BY <1>0, WorkersAssumption DEF On, Unstarted, WorkersAssumption
  <2>2. cur' = cur /\ Gone(On(w), "dead")
    BY <1>3 DEF Crash, Shutdown, taskVars
  <2> QED
    BY <1>1, <2>1, <2>2 DEF Gone
<1>4. ASSUME NEW n \in Attempts, Finish(n) \/ ReturnStale(n) PROVE Unbegun'
  <2>1. cur' = cur /\ pc[n] # "idle" /\ Gone({n}, "done")
    BY <1>4 DEF Finish, ReturnStale, HandleFailed, taskVars
  <2>2. \A m \in Attempts : m > cur => m # n
    BY <1>0, <2>1 DEF Unstarted
  <2> QED
    BY <1>1, <2>1, <2>2 DEF Gone
<1>5. ASSUME NEW n \in Attempts, Deadline(n) \/ LeaseLost(n) PROVE Unbegun'
  <2>1. cur' = cur /\ n = cur /\ ctx' = [ctx EXCEPT ![n] = "done"]
    BY <1>0, <1>5 DEF Deadline, LeaseLost, HandleFailed, taskVars, IInv, OneLiveAttempt
  <2>2. \A m \in Attempts : m > cur => m # n
    BY <1>0, <2>1
  <2> QED
    BY <1>0, <1>1, <2>1, <2>2 DEF TypeOK
<1>6. CASE \/ Submit \/ Recover \/ Forward \/ MetaExpires \/ StreamExpires \/ UNCHANGED vars
           \/ \E n \in Attempts : Handler(n) \/ Script(n)
  BY <1>1, <1>6 DEF Submit, Recover, Forward, MetaExpires, StreamExpires, HandleFailed,
     Handler, Begin, EarlyError, StartScript, Relay, ScanStop, Join, AddEOF, SetExpire,
     Collect, Report, Script, Emit, WriteResultFile, ScriptExit, taskVars, vars
<1> QED
  BY <1>2, <1>3, <1>4, <1>5, <1>6 DEF Next, Asynq

LEMMA LinesKeptNext ==
  ~RedisFaults /\ IInv /\ Unbegun /\ LinesKept /\ [Next]_vars => LinesKept'
<1> SUFFICES ASSUME ~RedisFaults, IInv, Unbegun, LinesKept, [Next]_vars PROVE LinesKept'
  OBVIOUS
<1> DEFINE Sum(m) == LinesLogged(m) + pipe[m]["stdout"] + pipe[m]["stderr"] + left[m]
<1>0. TypeOK
  BY DEF IInv
<1>1. \A m \in Attempts : /\ LinesLogged(m) \in Nat /\ left[m] \in Nat
                          /\ \A s \in Streams : pipe[m][s] \in Nat
  BY <1>0, LinesCounted, BoundsAssumption DEF TypeOK, BoundsAssumption
<1>2. ASSUME trimmed' = 0 => trimmed = 0,
             \A m \in Attempts : ctx'[m] # "done" /\ trimmed' = 0 =>
               ctx[m] # "done" /\ Sum(m)' = Sum(m)
      PROVE  LinesKept'
  BY <1>2 DEF LinesKept
<1>3. ASSUME log' = log, left' = left, trimmed' = trimmed,
             \A m \in Attempts : ctx'[m] # "done" => ctx[m] # "done" /\ pipe'[m] = pipe[m]
      PROVE  LinesKept'
  <2>1. \A m \in Attempts : LinesLogged(m)' = LinesLogged(m)
    BY <1>3 DEF LinesLogged
  <2> QED
    BY <1>2, <1>3, <2>1
<1>4. CASE Submit \/ Recover \/ Forward \/ MetaExpires \/ UNCHANGED vars
  BY <1>3, <1>4 DEF Submit, Recover, Forward, MetaExpires, vars, keyVars, procVars
<1>5. CASE StreamExpires
  <2>1. ASSUME trimmed' = 0 PROVE trimmed = 0 /\ log' = log
    <3>1. Len(log) \in Nat /\ trimmed \in Nat /\ trimmed' = trimmed + Len(log)
      BY <1>0, <1>5, LenProperties DEF StreamExpires, TypeOK
    <3>2. trimmed = 0 /\ Len(log) = 0
      BY <2>1, <3>1
    <3> QED
      BY <1>0, <1>5, <3>2, EmptySeq DEF StreamExpires, TypeOK
  <2>2. trimmed' = 0 => \A m \in Attempts : LinesLogged(m)' = LinesLogged(m)
    BY <2>1 DEF LinesLogged
  <2> QED
    BY <1>2, <1>5, <2>1, <2>2 DEF StreamExpires, procVars
<1>6. ASSUME NEW w \in Workers, Dequeue(w) PROVE LinesKept'
  <2>1. cur \in Nat
    BY <1>0 DEF TypeOK, Attempts
  <2>2. \A m \in Attempts : m = cur + 1 => ctx[m] = "none"
    BY <2>1 DEF Unbegun
  <2>3. \A m \in Attempts : ctx'[m] # "done" => ctx[m] # "done"
    BY <1>0, <1>6, <2>2 DEF Dequeue, TypeOK
  <2> QED
    BY <1>3, <1>6, <2>3 DEF Dequeue, keyVars, procVars
<1>7. ASSUME NEW A \in SUBSET Attempts, NEW at \in {"done", "dead"}, Gone(A, at),
             log' = log, trimmed' = trimmed
      PROVE  LinesKept'
  BY <1>3, <1>7 DEF Gone
<1>8. ASSUME NEW w \in Workers, Crash(w) \/ Shutdown(w) PROVE LinesKept'
  <2>1. On(w) \in SUBSET Attempts
    BY DEF On
  <2> QED
    BY <1>7, <1>8, <2>1 DEF Crash, Shutdown, keyVars
<1>9. ASSUME NEW n \in Attempts, Finish(n) \/ ReturnStale(n) PROVE LinesKept'
  BY <1>7, <1>9 DEF Finish, ReturnStale, keyVars
<1>10. ASSUME NEW n \in Attempts,
              \/ Deadline(n) \/ LeaseLost(n) \/ WriteResultFile(n) \/ ScriptExit(n)
              \/ Begin(n) \/ EarlyError(n) \/ StartScript(n) \/ Join(n) \/ SetExpire(n)
              \/ Collect(n) \/ Report(n) \/ \E s \in Streams : ScanStop(n, s)
       PROVE  LinesKept'
  BY <1>0, <1>3, <1>10 DEF Deadline, LeaseLost, WriteResultFile, ScriptExit, Begin,
     EarlyError, StartScript, Join, SetExpire, Collect, Report, ScanStop, TypeOK, keyVars,
     procVars
<1>11. ASSUME NEW n \in Attempts, AddEOF(n) PROVE LinesKept'
  <2>1. UNCHANGED <<left, pipe, ctx, trimmed>>
    BY <1>11 DEF AddEOF, procVars
  <2>2. \A m \in Attempts : LinesLogged(m)' = LinesLogged(m)
    <3>1. CASE log' = log
      BY <3>1 DEF LinesLogged
    <3>2. CASE log' = Append(log, [attempt |-> n, kind |-> "eof"])
      BY <1>1, <3>2, LinesAppend
    <3> QED
      BY <1>11, <3>1, <3>2 DEF AddEOF
  <2> QED
    BY <1>2, <2>1, <2>2
<1>12. ASSUME NEW n \in Attempts, NEW s \in Streams, Emit(n, s) PROVE LinesKept'
  <2>1. /\ UNCHANGED <<log, ctx, trimmed>>
        /\ left'[n] = left[n] - 1 /\ pipe'[n] = [pipe[n] EXCEPT ![s] = pipe[n][s] + 1]
        /\ \A m \in Attempts \ {n} : left'[m] = left[m] /\ pipe'[m] = pipe[m]
    BY <1>0, <1>12 DEF Emit, TypeOK, keyVars
  <2>2. pipe'[n]["stdout"] + pipe'[n]["stderr"] = pipe[n]["stdout"] + pipe[n]["stderr"] + 1
    <3>1. pipe[n] \in [Streams -> 0 .. MaxLines]
      BY <1>0 DEF TypeOK
    <3> QED
      BY <1>1, <2>1, <3>1 DEF Streams
  <2>3. \A m \in Attempts : LinesLogged(m)' = LinesLogged(m)
    BY <2>1 DEF LinesLogged
  <2>4. pipe'[n]["stdout"] \in Nat /\ pipe'[n]["stderr"] \in Nat
    <3>1. pipe[n] \in [Streams -> 0 .. MaxLines]
      BY <1>0 DEF TypeOK
    <3> QED
      BY <1>1, <2>1, <3>1 DEF Streams
  <2>5. Sum(n)' = Sum(n)
    <3>1. pipe[n]["stdout"] \in Nat /\ pipe[n]["stderr"] \in Nat
      BY <1>1 DEF Streams
    <3> QED
      BY <1>1, <2>1, <2>2, <2>3, <2>4, <3>1
  <2>6. \A m \in Attempts : Sum(m)' = Sum(m)
    BY <2>1, <2>3, <2>5
  <2> QED
    BY <1>2, <2>1, <2>6
<1>13. ASSUME NEW n \in Attempts, NEW s \in Streams, Relay(n, s) PROVE LinesKept'
  <2>1. /\ UNCHANGED <<left, ctx, trimmed>>
        /\ pipe'[n] = [pipe[n] EXCEPT ![s] = pipe[n][s] - 1]
        /\ \A m \in Attempts \ {n} : pipe'[m] = pipe[m]
    BY <1>0, <1>13 DEF Relay, TypeOK
  <2>2. CASE ctx[n] = "live"
    <3>1. log' = Append(log, [attempt |-> n, kind |-> s])
      BY <1>13, <2>2, LiveSucceeds DEF Relay
    <3>2. s \in Streams \cup {"eof"} /\ s # "eof"
      BY DEF Streams
    <3>3. \A m \in Attempts \ {n} : LinesLogged(m)' = LinesLogged(m)
      BY <1>1, <3>1, <3>2, LinesAppend
    <3>4. LinesLogged(n)' = LinesLogged(n) + 1
      BY <3>1, <3>2, LinesAppend
    <3>5. /\ pipe[n]["stdout"] \in Nat /\ pipe[n]["stderr"] \in Nat /\ pipe[n][s] > 0
          /\ pipe[n] \in [Streams -> 0 .. MaxLines]
      BY <1>0, <1>1, <1>13 DEF Streams, TypeOK, Relay
    <3>6. /\ pipe'[n]["stdout"] + pipe'[n]["stderr"]
               = pipe[n]["stdout"] + pipe[n]["stderr"] - 1
          /\ pipe'[n]["stdout"] \in Nat /\ pipe'[n]["stderr"] \in Nat
      BY <2>1, <3>5 DEF Streams
    <3>7. Sum(n)' = Sum(n)
      BY <1>1, <2>1, <3>4, <3>5, <3>6
    <3>8. \A m \in Attempts : Sum(m)' = Sum(m)
      BY <2>1, <3>3, <3>7
    <3> QED
      BY <1>2, <2>1, <3>8
  <2>3. CASE ctx[n] # "live"
    <3>1. log' = log /\ ctx[n] = "done"
      BY <1>13, <2>3 DEF Relay, MaySucceed, MayFail
    <3> QED
      BY <1>3, <2>1, <3>1
  <2> QED
    BY <2>2, <2>3
<1> QED
  BY <1>4, <1>5, <1>6, <1>8, <1>9, <1>10, <1>11, <1>12, <1>13 DEF Next, Asynq, Handler, Script

LEMMA EofAccountsNext ==
  ~RedisFaults /\ LInv /\ ScansOpen /\ LinesKept /\ EofAccountsForOutput /\ [Next]_vars
    => EofAccountsForOutput'
<1> SUFFICES ASSUME ~RedisFaults, LInv, ScansOpen, LinesKept, EofAccountsForOutput, [Next]_vars
             PROVE  EofAccountsForOutput'
  OBVIOUS
<1>0. TypeOK /\ IInv /\ Drained /\ MarkerLate
  BY DEF LInv, IInv, LogOrder
<1>1. \A m \in Attempts : EofLogged(m) => pc[m] \in Late
  BY <1>0 DEF EofLogged, MarkerLate
<1>2. ASSUME log' = log, trimmed' = trimmed,
             \A m \in Attempts : pc[m] \in Late => left'[m] = left[m]
      PROVE  EofAccountsForOutput'
  BY <1>1, <1>2 DEF EofAccountsForOutput, EofLogged, LinesLogged
<1>3. CASE StreamExpires
  <2>1. Len(log') = 0
    BY <1>3 DEF StreamExpires
  <2> QED
    BY <2>1 DEF EofAccountsForOutput, EofLogged
<1>4. CASE \/ Submit \/ Recover \/ Forward \/ MetaExpires \/ UNCHANGED vars
           \/ \E w \in Workers : Dequeue(w) \/ Crash(w) \/ Shutdown(w)
           \/ \E n \in Attempts : Deadline(n) \/ LeaseLost(n) \/ Finish(n) \/ ReturnStale(n)
  BY <1>2, <1>4 DEF Submit, Recover, Forward, MetaExpires, vars, Dequeue, Crash, Shutdown,
     Deadline, LeaseLost, Finish, ReturnStale, Gone, keyVars, procVars
<1>5. ASSUME NEW n \in Attempts,
             \/ Begin(n) \/ EarlyError(n) \/ StartScript(n) \/ Join(n) \/ SetExpire(n)
             \/ Collect(n) \/ Report(n) \/ WriteResultFile(n) \/ ScriptExit(n)
             \/ \E s \in Streams : ScanStop(n, s)
      PROVE  EofAccountsForOutput'
  BY <1>2, <1>5 DEF Begin, EarlyError, StartScript, Join, SetExpire, Collect, Report,
     WriteResultFile, ScriptExit, ScanStop, keyVars, procVars
<1>6. ASSUME NEW n \in Attempts, NEW s \in Streams, Emit(n, s)
      PROVE  EofAccountsForOutput'
  <2>1. pc[n] = "stream" /\ pc[n] \notin Late
    BY <1>0, <1>6 DEF Emit, Drained, Late
  <2>2. \A m \in Attempts \ {n} : left'[m] = left[m]
    BY <1>0, <1>6 DEF Emit, TypeOK
  <2> QED
    BY <1>2, <1>6, <2>1, <2>2 DEF Emit, keyVars
<1>7. ASSUME NEW n \in Attempts, NEW k \in Streams \cup {"eof"},
             log' = Append(log, [attempt |-> n, kind |-> k]),
             trimmed' = trimmed, left' = left, pc[n] \notin Late,
             k = "eof" /\ trimmed = 0 => LinesLogged(n) = MaxLines - left[n]
      PROVE  EofAccountsForOutput'
  <2> SUFFICES ASSUME NEW m \in Attempts, EofLogged(m)', trimmed' = 0
               PROVE  LinesLogged(m)' = MaxLines - left'[m]
    BY DEF EofAccountsForOutput
  <2>1. PICK i \in 1 .. Len(log') : log'[i] = [attempt |-> m, kind |-> "eof"]
    BY DEF EofLogged
  <2>2. /\ Len(log) \in Nat /\ Len(log') = Len(log) + 1
        /\ log'[Len(log')] = [attempt |-> n, kind |-> k]
        /\ \A j \in 1 .. Len(log) : log'[j] = log[j]
    BY <1>0, <1>7, Appended
  <2>3. LinesLogged(m) \in Nat
    BY <1>0, LinesCounted
  <2>4. CASE i \in 1 .. Len(log)
    <3>1. EofLogged(m) /\ m # n
      BY <1>1, <1>7, <2>1, <2>2, <2>4 DEF EofLogged
    <3>2. LinesLogged(m)' = LinesLogged(m)
      BY <1>0, <1>7, <2>3, <3>1, LinesAppend
    <3> QED
      BY <1>7, <3>1, <3>2 DEF EofAccountsForOutput
  <2>5. CASE i = Len(log')
    <3>1. [attempt |-> n, kind |-> k] = [attempt |-> m, kind |-> "eof"]
      BY <2>1, <2>2, <2>5
    <3>2. m = n /\ k = "eof"
      BY <3>1
    <3>3. LinesLogged(m)' = LinesLogged(m)
      BY <1>0, <1>7, <2>3, <3>2, LinesAppend
    <3> QED
      BY <1>7, <3>2, <3>3
  <2> QED
    BY <2>1, <2>2, <2>4, <2>5
<1>8. ASSUME NEW n \in Attempts, NEW s \in Streams, Relay(n, s)
      PROVE  EofAccountsForOutput'
  <2>1. pc[n] \notin Late /\ s \in Streams \cup {"eof"} /\ s # "eof"
    BY <1>0, <1>8, RelaysStream DEF Relay, Late, Streams
  <2>2. trimmed' = trimmed /\ left' = left
    BY <1>8 DEF Relay
  <2>3. CASE log' = log
    BY <1>2, <2>2, <2>3
  <2>4. CASE log' = Append(log, [attempt |-> n, kind |-> s])
    BY <1>7, <2>1, <2>2, <2>4
  <2> QED
    BY <1>8, <2>3, <2>4 DEF Relay
<1>9. ASSUME NEW n \in Attempts, AddEOF(n) PROVE EofAccountsForOutput'
  <2>1. /\ pc[n] = "eof" /\ pc[n] \notin Late
        /\ trimmed' = trimmed /\ left' = left
    BY <1>9 DEF AddEOF, At, Late, procVars
  <2>2. CASE log' = log
    BY <1>2, <2>1, <2>2
  <2>3. CASE MaySucceed(n) /\ log' = Append(log, [attempt |-> n, kind |-> "eof"])
    <3>1. ASSUME trimmed = 0 PROVE LinesLogged(n) = MaxLines - left[n]
      <4>1. pipe[n]["stdout"] = 0 /\ pipe[n]["stderr"] = 0
        BY <1>0, <2>1 DEF Drained, ScansOpen, Streams
      <4>2. LinesLogged(n) + 0 + 0 + left[n] = MaxLines
        BY <2>3, <3>1, <4>1 DEF LinesKept, MaySucceed
      <4>3. LinesLogged(n) \in Nat /\ left[n] \in Nat /\ MaxLines \in Nat
        BY <1>0, LinesCounted, BoundsAssumption DEF TypeOK, BoundsAssumption
      <4> QED
        BY <4>2, <4>3
    <3> QED
      BY <1>7, <2>1, <2>3, <3>1
  <2> QED
    BY <1>9, <2>2, <2>3 DEF AddEOF
<1> QED
  BY <1>3, <1>4, <1>5, <1>6, <1>8, <1>9 DEF Next, Asynq, Handler, Script

\* When an attempt's marker is in the log, so is every line its script has
\* printed, as long as Redis accepts what a live attempt writes and no line is
\* over 64 KiB: the relays are waited for, and a context that has ended leaves
\* no marker behind.
THEOREM MarkerVouchesForOutput ==
  ASSUME ~RedisFaults, ~LongLines
  PROVE  Spec => []EofAccountsForOutput
<1>1. Init => Unbegun /\ ScansOpen /\ LinesKept /\ EofAccountsForOutput
  <2> SUFFICES ASSUME Init PROVE Unbegun /\ ScansOpen /\ LinesKept /\ EofAccountsForOutput
    OBVIOUS
  <2>1. Len(log) = 0 /\ Unbegun /\ ScansOpen
    BY DEF Init, Unbegun, ScansOpen
  <2>2. \A n \in Attempts : LinesLogged(n) = 0 /\ ~EofLogged(n)
    <3>1. \A n \in Attempts :
            {i \in 1 .. Len(log) : log[i].attempt = n /\ log[i].kind # "eof"} = {}
      BY <2>1
    <3> QED
      BY <2>1, <3>1, FS_EmptySet DEF LinesLogged, EofLogged
  <2>3. LinesKept
    BY <2>2, BoundsAssumption DEF Init, LinesKept, Streams, BoundsAssumption
  <2> QED
    BY <2>1, <2>2, <2>3 DEF EofAccountsForOutput
<1>2. /\ Unbegun /\ ScansOpen /\ LinesKept /\ EofAccountsForOutput /\ LInv /\ [Next]_vars
        => (Unbegun /\ ScansOpen /\ LinesKept /\ EofAccountsForOutput)'
  <2>1. LInv => IInv
    BY DEF LInv
  <2> QED
    BY <2>1, UnbegunNext, ScansOpenNext, LinesKeptNext, EofAccountsNext
<1> QED
  BY <1>1, <1>2, LogInvariant, PTL DEF Spec
================================================================================
