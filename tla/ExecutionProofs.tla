--------------------------- MODULE ExecutionProofs ---------------------------
(***************************************************************************)
(* What Execution promises for every number of workers, retries, requeues  *)
(* and lines, and whichever faults are switched on.                        *)
(***************************************************************************)
EXTENDS Execution, TLAPS

\* A script prints no more lines than it has: what is left and what is in
\* its pipes stays within the bound.
PipesBounded ==
  \A n \in Attempts : left[n] + pipe[n]["stdout"] + pipe[n]["stderr"] <= MaxLines

\* A handler that has started runs on a worker.
HostKnown == \A n \in Attempts : pc[n] # "idle" => host[n] \in Workers

\* A handler that is about to return nil to a processor that waits for it has
\* stored its exit code 0 as the task's result.
NilMeansStored ==
  \A n \in Attempts :
    ctx[n] = "live" /\ pc[n] = "return" /\ ~ret[n].err
      => result.attempt = n /\ result.code = 0

\* The inductive invariant.
IInv ==
  /\ TypeOK
  /\ PipesBounded
  /\ HostKnown
  /\ AttemptsCharged
  /\ OneLiveAttempt
  /\ NilMeansStored
  /\ CompletedExitZero

USE BoundsAssumption, WorkersAssumption, SwitchesAssumption
    DEF BoundsAssumption, WorkersAssumption, SwitchesAssumption

LEMMA InitIInv == Init => IInv
<1> SUFFICES ASSUME Init PROVE IInv
  OBVIOUS
<1>1. TypeOK
  <2>1. log \in Seq(Entry)
    BY DEF Init
  <2>2. result \in Result /\ NoRet \in Ret
    BY DEF Init, Result, NoResult, Ret, NoRet, Codes, NoCode
  <2>3. pipe \in [Attempts -> [Streams -> 0 .. MaxLines]]
    BY DEF Init
  <2>4. left \in [Attempts -> 0 .. MaxLines]
    BY DEF Init
  <2>5. /\ retried \in 0 .. MaxRetry /\ requeues \in 0 .. MaxRequeues
        /\ cur \in Attempts \cup {0} /\ trimmed \in Nat
    BY DEF Init
  <2> QED
    BY <2>1, <2>2, <2>3, <2>4, <2>5 DEF Init, TypeOK, PCs

<1>2. PipesBounded /\ HostKnown /\ AttemptsCharged /\ OneLiveAttempt
  BY DEF Init, PipesBounded, HostKnown, AttemptsCharged, OneLiveAttempt, Attempts,
         Streams, Terminal
<1>3. NilMeansStored /\ CompletedExitZero
  BY DEF Init, NilMeansStored, CompletedExitZero
<1> QED
  BY <1>1, <1>2, <1>3 DEF IInv

LEMMA SubmitIInv == IInv /\ Submit => IInv'
BY DEF IInv, Submit, TypeOK, PipesBounded, HostKnown, AttemptsCharged,
       OneLiveAttempt, NilMeansStored, CompletedExitZero, Terminal, keyVars, procVars

LEMMA DequeueIInv == ASSUME NEW w \in Workers, IInv, Dequeue(w) PROVE IInv'
<1>1. cur + 1 \in Attempts
  BY DEF IInv, Dequeue, TypeOK, AttemptsCharged, Terminal, Attempts
<1>2. TypeOK'
  BY <1>1 DEF IInv, Dequeue, TypeOK, PCs, keyVars, procVars
<1>3. PipesBounded' /\ HostKnown'
  BY <1>1 DEF IInv, Dequeue, TypeOK, PipesBounded, HostKnown, keyVars, procVars
<1>4. AttemptsCharged'
  BY DEF IInv, Dequeue, TypeOK, AttemptsCharged, Terminal
<1>5. OneLiveAttempt' /\ NilMeansStored' /\ CompletedExitZero'
  BY <1>1 DEF IInv, Dequeue, TypeOK, OneLiveAttempt, NilMeansStored, CompletedExitZero
<1> QED
  BY <1>2, <1>3, <1>4, <1>5 DEF IInv

\* asynq's bookkeeping of a failure keeps the count of attempts.
LEMMA FailureCharged ==
  ASSUME TypeOK, AttemptsCharged, st = "active", HandleFailed
  PROVE  AttemptsCharged'
<1>1. cur = retried + requeues + 1
  BY DEF AttemptsCharged
<1>2. retried \in Nat /\ requeues \in Nat /\ retried <= MaxRetry
  BY DEF TypeOK
<1>3. CASE retried < MaxRetry
  BY <1>1, <1>2, <1>3 DEF HandleFailed, AttemptsCharged, Terminal
<1>4. CASE ~(retried < MaxRetry)
  BY <1>1, <1>2, <1>4 DEF HandleFailed, AttemptsCharged, Terminal
<1> QED
  BY <1>3, <1>4

LEMMA DeadlineIInv == ASSUME NEW n \in Attempts, IInv, Deadline(n) PROVE IInv'
<1>1. TypeOK'
  BY DEF IInv, Deadline, HandleFailed, TypeOK, Terminal, keyVars, procVars
<1>2. PipesBounded' /\ HostKnown'
  BY DEF IInv, Deadline, HandleFailed, TypeOK, PipesBounded, HostKnown, procVars
<1>3. AttemptsCharged'
  BY FailureCharged DEF IInv, Deadline, OneLiveAttempt
<1>4. OneLiveAttempt' /\ NilMeansStored' /\ CompletedExitZero'
  BY DEF IInv, Deadline, HandleFailed, TypeOK, OneLiveAttempt, NilMeansStored,
         CompletedExitZero
<1> QED
  BY <1>1, <1>2, <1>3, <1>4 DEF IInv

LEMMA LeaseLostIInv == ASSUME NEW n \in Attempts, IInv, LeaseLost(n) PROVE IInv'
<1>1. TypeOK' /\ PipesBounded' /\ HostKnown' /\ AttemptsCharged'
  BY DEF IInv, LeaseLost, TypeOK, PipesBounded, HostKnown, AttemptsCharged, taskVars,
         keyVars, procVars
<1>2. OneLiveAttempt' /\ NilMeansStored' /\ CompletedExitZero'
  BY DEF IInv, LeaseLost, TypeOK, OneLiveAttempt, NilMeansStored, CompletedExitZero,
         taskVars
<1> QED
  BY <1>1, <1>2 DEF IInv

LEMMA RecoverIInv == ASSUME IInv, Recover PROVE IInv'
<1>1. TypeOK' /\ PipesBounded' /\ HostKnown'
  BY DEF IInv, Recover, HandleFailed, TypeOK, PipesBounded, HostKnown, Terminal,
         keyVars, procVars
<1>2. AttemptsCharged'
  BY FailureCharged DEF IInv, Recover
<1>3. OneLiveAttempt' /\ NilMeansStored' /\ CompletedExitZero'
  BY DEF IInv, Recover, HandleFailed, OneLiveAttempt, NilMeansStored, CompletedExitZero
<1> QED
  BY <1>1, <1>2, <1>3 DEF IInv

LEMMA ForwardIInv == ASSUME IInv, Forward PROVE IInv'
BY DEF IInv, Forward, TypeOK, PipesBounded, HostKnown, AttemptsCharged, OneLiveAttempt,
       NilMeansStored, CompletedExitZero, Terminal, keyVars, procVars

\* When handlers return or die, what is left of them is well typed, bounded and
\* not live, and the others are as they were.
LEMMA GoneHandlers ==
  ASSUME IInv, NEW A \in SUBSET Attempts, NEW at \in {"done", "dead"}, Gone(A, at)
  PROVE  /\ pc' \in [Attempts -> PCs]
         /\ ctx' \in [Attempts -> {"none", "live", "done"}]
         /\ host' \in [Attempts -> Workers \cup {NoWorker}]
         /\ script' \in [Attempts -> {"none", "run", "exited"}]
         /\ left' \in [Attempts -> 0 .. MaxLines]
         /\ pipe' \in [Attempts -> [Streams -> 0 .. MaxLines]]
         /\ scan' \in [Attempts -> [Streams -> {"open", "stopped"}]]
         /\ ret' \in [Attempts -> Ret]
         /\ PipesBounded'
         /\ \A k \in Attempts : ctx'[k] = "live" =>
              k \notin A /\ ctx[k] = "live" /\ pc'[k] = pc[k] /\ ret'[k] = ret[k]
         /\ \A k \in Attempts : pc[k] # "idle" => host'[k] \in Workers
         /\ \A k \in Attempts : pc'[k] # "idle" => pc[k] # "idle" \/ k \in A
<1>1. pc' \in [Attempts -> PCs] /\ ctx' \in [Attempts -> {"none", "live", "done"}]
  BY DEF IInv, TypeOK, Gone, PCs
<1>2. /\ host' \in [Attempts -> Workers \cup {NoWorker}]
      /\ script' \in [Attempts -> {"none", "run", "exited"}]
      /\ left' \in [Attempts -> 0 .. MaxLines]
      /\ scan' \in [Attempts -> [Streams -> {"open", "stopped"}]]
  BY DEF IInv, TypeOK, Gone
<1>3. pipe' \in [Attempts -> [Streams -> 0 .. MaxLines]]
  <2> 0 \in 0 .. MaxLines
    OBVIOUS
  <2> QED
    BY DEF IInv, TypeOK, Gone
<1>4. ret' \in [Attempts -> Ret]
  <2> NoRet \in Ret
    BY DEF NoRet, Ret, NoCode
  <2> QED
    BY DEF IInv, TypeOK, Gone
<1>5. PipesBounded'
  BY DEF IInv, TypeOK, Gone, PipesBounded, Streams
<1>6. /\ \A k \in Attempts : ctx'[k] = "live" =>
           k \notin A /\ ctx[k] = "live" /\ pc'[k] = pc[k] /\ ret'[k] = ret[k]
      /\ \A k \in Attempts : pc[k] # "idle" => host'[k] \in Workers
      /\ \A k \in Attempts : pc'[k] # "idle" => pc[k] # "idle" \/ k \in A
  BY DEF IInv, Gone, HostKnown
<1> QED
  BY <1>1, <1>2, <1>3, <1>4, <1>5, <1>6

LEMMA FinishIInv == ASSUME NEW n \in Attempts, IInv, Finish(n) PROVE IInv'
<1>1. Gone({n}, "done") /\ pc[n] = "return" /\ n = cur /\ st = "active"
  BY DEF IInv, Finish, OneLiveAttempt
<1>2. TypeOK'
  BY <1>1, GoneHandlers DEF IInv, Finish, HandleFailed, TypeOK, Terminal, keyVars
<1>3. PipesBounded' /\ HostKnown'
  BY <1>1, GoneHandlers DEF HostKnown
<1>4. OneLiveAttempt' /\ NilMeansStored'
  BY <1>1, GoneHandlers DEF IInv, OneLiveAttempt, NilMeansStored
<1>5. CASE ret[n].err
  <2>1. HandleFailed
    BY <1>5 DEF Finish
  <2>2. AttemptsCharged' /\ CompletedExitZero'
    BY <1>1, <2>1, FailureCharged DEF IInv, HandleFailed, CompletedExitZero
  <2> QED
    BY <1>2, <1>3, <1>4, <2>2 DEF IInv
<1>6. CASE ~ret[n].err
  <2>1. /\ st' = "completed" /\ retried' = retried /\ requeues' = requeues
        /\ cur' = cur /\ result' = result
    BY <1>6 DEF Finish
  <2>2. AttemptsCharged'
    BY <1>1, <2>1 DEF IInv, AttemptsCharged, Terminal
  <2>3. CompletedExitZero'
    BY <1>1, <1>6, <2>1 DEF IInv, Finish, NilMeansStored, CompletedExitZero
  <2> QED
    BY <1>2, <1>3, <1>4, <2>2, <2>3 DEF IInv
<1> QED
  BY <1>5, <1>6

\* Updating one field of what a handler holds keeps it well typed.
LEMMA RetUpdates ==
  ASSUME NEW n \in Attempts, ret \in [Attempts -> Ret]
  PROVE  /\ \A b \in BOOLEAN : [ret EXCEPT ![n].err = b] \in [Attempts -> Ret]
         /\ \A c \in Codes : [ret EXCEPT ![n].code = c] \in [Attempts -> Ret]
         /\ \A d \in Attempts \cup {0} :
              [ret EXCEPT ![n].data = d] \in [Attempts -> Ret]
<1>1. ret[n] \in Ret
  OBVIOUS
<1>2. \A b \in BOOLEAN : [ret[n] EXCEPT !.err = b] \in Ret
  BY <1>1 DEF Ret
<1>3. \A c \in Codes : [ret[n] EXCEPT !.code = c] \in Ret
  BY <1>1 DEF Ret
<1>4. \A d \in Attempts \cup {0} : [ret[n] EXCEPT !.data = d] \in Ret
  BY <1>1 DEF Ret
<1> QED
  BY <1>2, <1>3, <1>4

\* Appending an attempt's line or marker keeps the log well typed.
LEMMA LogAppend ==
  ASSUME NEW n \in Attempts, NEW k \in Streams \cup {"eof"}, log \in Seq(Entry)
  PROVE  Append(log, [attempt |-> n, kind |-> k]) \in Seq(Entry)
<1>1. [attempt |-> n, kind |-> k] \in Entry
  BY DEF Entry
<1> QED
  BY <1>1

LEMMA ReturnStaleIInv == ASSUME NEW n \in Attempts, IInv, ReturnStale(n) PROVE IInv'
<1>1. Gone({n}, "done") /\ pc[n] = "return" /\ ctx[n] = "done"
  BY DEF ReturnStale
<1>2. TypeOK' /\ PipesBounded' /\ HostKnown'
  BY <1>1, GoneHandlers DEF IInv, ReturnStale, TypeOK, HostKnown, taskVars, keyVars
<1>3. OneLiveAttempt' /\ NilMeansStored' /\ AttemptsCharged' /\ CompletedExitZero'
  BY <1>1, GoneHandlers DEF IInv, ReturnStale, OneLiveAttempt, NilMeansStored,
     AttemptsCharged, CompletedExitZero, taskVars
<1> QED
  BY <1>2, <1>3 DEF IInv

\* The attempts on a worker have started, or have never been there.
LEMMA OnStarted ==
  ASSUME IInv, NEW w \in Workers
  PROVE  On(w) \in SUBSET Attempts /\ \A n \in On(w) : host[n] = w
BY DEF On

LEMMA CrashIInv == ASSUME NEW w \in Workers, IInv, Crash(w) PROVE IInv'
<1>1. Gone(On(w), "dead") /\ On(w) \in SUBSET Attempts
  BY OnStarted DEF Crash
<1>2. TypeOK'
  BY <1>1, GoneHandlers DEF IInv, Crash, TypeOK, taskVars, keyVars
<1>3. HostKnown'
  BY <1>1, OnStarted, GoneHandlers DEF IInv, HostKnown, Gone
<1>4. /\ PipesBounded' /\ OneLiveAttempt' /\ NilMeansStored'
      /\ AttemptsCharged' /\ CompletedExitZero'
  BY <1>1, GoneHandlers DEF IInv, Crash, OneLiveAttempt, NilMeansStored,
     AttemptsCharged, CompletedExitZero, taskVars
<1> QED
  BY <1>2, <1>3, <1>4 DEF IInv

LEMMA ShutdownIInv == ASSUME NEW w \in Workers, IInv, Shutdown(w) PROVE IInv'
<1>1. Gone(On(w), "dead") /\ On(w) \in SUBSET Attempts
  BY OnStarted DEF Shutdown
<1>2. st = "active" /\ cur \in On(w)
  BY <1>1 DEF IInv, Shutdown, OneLiveAttempt
<1>3. TypeOK'
  BY <1>1, GoneHandlers DEF IInv, Shutdown, TypeOK, keyVars
<1>4. HostKnown'
  BY <1>1, OnStarted, GoneHandlers DEF IInv, HostKnown, Gone
<1>5. AttemptsCharged'
  BY <1>2 DEF IInv, Shutdown, TypeOK, AttemptsCharged, Terminal
<1>6. PipesBounded' /\ OneLiveAttempt' /\ NilMeansStored' /\ CompletedExitZero'
  BY <1>1, <1>2, GoneHandlers DEF IInv, Shutdown, OneLiveAttempt, NilMeansStored,
     CompletedExitZero
<1> QED
  BY <1>3, <1>4, <1>5, <1>6 DEF IInv

LEMMA MetaExpiresIInv == ASSUME IInv, MetaExpires PROVE IInv'
BY DEF IInv, MetaExpires, TypeOK, PipesBounded, HostKnown, AttemptsCharged,
       OneLiveAttempt, NilMeansStored, CompletedExitZero, taskVars, procVars

LEMMA StreamExpiresIInv == ASSUME IInv, StreamExpires PROVE IInv'
<1>1. log' \in Seq(Entry) /\ trimmed' \in Nat
  BY DEF IInv, StreamExpires, TypeOK
<1> QED
  BY <1>1 DEF IInv, StreamExpires, TypeOK, PipesBounded, HostKnown, AttemptsCharged,
     OneLiveAttempt, NilMeansStored, CompletedExitZero, taskVars, procVars

LEMMA BeginIInv ==
  ASSUME NEW n \in Attempts, IInv, Begin(n)
  PROVE  IInv'
<1>1. TypeOK'
  BY DEF IInv, Begin, At, TypeOK, PCs, Ret, taskVars, keyVars, procVars
<1>2. PipesBounded' /\ HostKnown'
  BY DEF IInv, Begin, At, TypeOK, PipesBounded, HostKnown, procVars, Streams
<1>3. AttemptsCharged' /\ OneLiveAttempt'
  BY DEF IInv, Begin, AttemptsCharged, OneLiveAttempt, taskVars
<1>4. NilMeansStored' /\ CompletedExitZero'
  BY DEF IInv, Begin, At, TypeOK, Ret, NilMeansStored, CompletedExitZero,
         OneLiveAttempt, MaySucceed, taskVars
<1> QED
  BY <1>1, <1>2, <1>3, <1>4 DEF IInv

LEMMA EarlyErrorIInv ==
  ASSUME NEW n \in Attempts, IInv, EarlyError(n)
  PROVE  IInv'
<1>0. ret' \in [Attempts -> Ret]
  <2>1. ret \in [Attempts -> Ret]
    BY DEF IInv, TypeOK
  <2> QED
    BY <2>1, RetUpdates DEF EarlyError
<1>f. file' \in [Workers -> Attempts \cup {0}]
  <2>1. file \in [Workers -> Attempts \cup {0}] /\ host[n] \in Workers
    BY DEF IInv, TypeOK, HostKnown, EarlyError, At
  <2> QED
    BY <2>1 DEF EarlyError
<1>1. TypeOK'
  BY <1>0, <1>f DEF IInv, EarlyError, At, TypeOK, PCs, Ret, taskVars, keyVars,
         procVars
<1>2. PipesBounded' /\ HostKnown'
  BY DEF IInv, EarlyError, At, TypeOK, PipesBounded, HostKnown, procVars, Streams
<1>3. AttemptsCharged' /\ OneLiveAttempt'
  BY DEF IInv, EarlyError, AttemptsCharged, OneLiveAttempt, taskVars
<1>4. NilMeansStored' /\ CompletedExitZero'
  BY DEF IInv, EarlyError, At, TypeOK, Ret, NilMeansStored, CompletedExitZero,
         OneLiveAttempt, MaySucceed, taskVars
<1> QED
  BY <1>1, <1>2, <1>3, <1>4 DEF IInv

LEMMA StartScriptIInv ==
  ASSUME NEW n \in Attempts, IInv, StartScript(n)
  PROVE  IInv'
<1>1. TypeOK'
  BY DEF IInv, StartScript, At, TypeOK, PCs, Ret, taskVars, keyVars, procVars
<1>2. PipesBounded' /\ HostKnown'
  BY DEF IInv, StartScript, At, TypeOK, PipesBounded, HostKnown, procVars, Streams
<1>3. AttemptsCharged' /\ OneLiveAttempt'
  BY DEF IInv, StartScript, AttemptsCharged, OneLiveAttempt, taskVars
<1>4. NilMeansStored' /\ CompletedExitZero'
  BY DEF IInv, StartScript, At, TypeOK, Ret, NilMeansStored, CompletedExitZero,
         OneLiveAttempt, MaySucceed, taskVars
<1> QED
  BY <1>1, <1>2, <1>3, <1>4 DEF IInv

LEMMA EmitIInv ==
  ASSUME NEW n \in Attempts, NEW s \in Streams, IInv, Emit(n, s)
  PROVE  IInv'
<1>0. pipe' \in [Attempts -> [Streams -> 0 .. MaxLines]]
  <2>1. pipe[n][s] + 1 \in 0 .. MaxLines
    BY DEF IInv, Emit, TypeOK, PipesBounded, Streams
  <2>2. [pipe[n] EXCEPT ![s] = pipe[n][s] + 1] \in [Streams -> 0 .. MaxLines]
    BY <2>1 DEF IInv, TypeOK
  <2> QED
    BY <2>2 DEF IInv, Emit, TypeOK
<1>l. left' \in [Attempts -> 0 .. MaxLines]
  BY DEF IInv, Emit, TypeOK
<1>1. TypeOK'
  BY <1>0, <1>l DEF IInv, Emit, At, TypeOK, PCs, Ret, taskVars, keyVars, procVars,
         Streams
<1>2. PipesBounded' /\ HostKnown'
  BY DEF IInv, Emit, At, TypeOK, PipesBounded, HostKnown, procVars, Streams
<1>3. AttemptsCharged' /\ OneLiveAttempt'
  BY DEF IInv, Emit, AttemptsCharged, OneLiveAttempt, taskVars
<1>4. NilMeansStored' /\ CompletedExitZero'
  BY DEF IInv, Emit, At, TypeOK, Ret, NilMeansStored, CompletedExitZero,
         OneLiveAttempt, MaySucceed, taskVars
<1> QED
  BY <1>1, <1>2, <1>3, <1>4 DEF IInv

LEMMA WriteResultFileIInv ==
  ASSUME NEW n \in Attempts, IInv, WriteResultFile(n)
  PROVE  IInv'
<1>1. TypeOK'
  BY DEF IInv, WriteResultFile, At, TypeOK, PCs, Ret, taskVars, keyVars, procVars
<1>2. PipesBounded' /\ HostKnown'
  BY DEF IInv, WriteResultFile, At, TypeOK, PipesBounded, HostKnown, procVars,
         Streams
<1>3. AttemptsCharged' /\ OneLiveAttempt'
  BY DEF IInv, WriteResultFile, AttemptsCharged, OneLiveAttempt, taskVars
<1>4. NilMeansStored' /\ CompletedExitZero'
  BY DEF IInv, WriteResultFile, At, TypeOK, Ret, NilMeansStored, CompletedExitZero,
         OneLiveAttempt, MaySucceed, taskVars
<1> QED
  BY <1>1, <1>2, <1>3, <1>4 DEF IInv

LEMMA ScriptExitIInv ==
  ASSUME NEW n \in Attempts, IInv, ScriptExit(n)
  PROVE  IInv'
<1>0. ret' \in [Attempts -> Ret]
  <2>1. ret \in [Attempts -> Ret]
    BY DEF IInv, TypeOK
  <2> QED
    BY <2>1, RetUpdates DEF ScriptExit
<1>1. TypeOK'
  BY <1>0 DEF IInv, ScriptExit, At, TypeOK, PCs, Ret, taskVars, keyVars, procVars
<1>2. PipesBounded' /\ HostKnown'
  BY DEF IInv, ScriptExit, At, TypeOK, PipesBounded, HostKnown, procVars, Streams
<1>3. AttemptsCharged' /\ OneLiveAttempt'
  BY DEF IInv, ScriptExit, AttemptsCharged, OneLiveAttempt, taskVars
<1>4. NilMeansStored' /\ CompletedExitZero'
  BY DEF IInv, ScriptExit, At, TypeOK, Ret, NilMeansStored, CompletedExitZero,
         OneLiveAttempt, MaySucceed, taskVars
<1> QED
  BY <1>1, <1>2, <1>3, <1>4 DEF IInv

LEMMA RelayIInv ==
  ASSUME NEW n \in Attempts, NEW s \in Streams, IInv, Relay(n, s)
  PROVE  IInv'
<1>0. log' \in Seq(Entry)
  <2>1. log \in Seq(Entry)
    BY DEF IInv, TypeOK
  <2> QED
    BY <2>1, LogAppend DEF Relay
<1>1. TypeOK'
  BY <1>0 DEF IInv, Relay, At, TypeOK, PCs, Ret, taskVars, keyVars, procVars
<1>2. PipesBounded' /\ HostKnown'
  BY DEF IInv, Relay, At, TypeOK, PipesBounded, HostKnown, procVars, Streams
<1>3. AttemptsCharged' /\ OneLiveAttempt'
  BY DEF IInv, Relay, AttemptsCharged, OneLiveAttempt, taskVars
<1>4. NilMeansStored' /\ CompletedExitZero'
  BY DEF IInv, Relay, At, TypeOK, Ret, NilMeansStored, CompletedExitZero,
         OneLiveAttempt, MaySucceed, taskVars
<1> QED
  BY <1>1, <1>2, <1>3, <1>4 DEF IInv

LEMMA ScanStopIInv ==
  ASSUME NEW n \in Attempts, NEW s \in Streams, IInv, ScanStop(n, s)
  PROVE  IInv'
<1>1. TypeOK'
  BY DEF IInv, ScanStop, At, TypeOK, PCs, Ret, taskVars, keyVars, procVars
<1>2. PipesBounded' /\ HostKnown'
  BY DEF IInv, ScanStop, At, TypeOK, PipesBounded, HostKnown, procVars, Streams
<1>3. AttemptsCharged' /\ OneLiveAttempt'
  BY DEF IInv, ScanStop, AttemptsCharged, OneLiveAttempt, taskVars
<1>4. NilMeansStored' /\ CompletedExitZero'
  BY DEF IInv, ScanStop, At, TypeOK, Ret, NilMeansStored, CompletedExitZero,
         OneLiveAttempt, MaySucceed, taskVars
<1> QED
  BY <1>1, <1>2, <1>3, <1>4 DEF IInv

LEMMA JoinIInv ==
  ASSUME NEW n \in Attempts, IInv, Join(n)
  PROVE  IInv'
<1>1. TypeOK'
  BY DEF IInv, Join, At, TypeOK, PCs, Ret, taskVars, keyVars, procVars
<1>2. PipesBounded' /\ HostKnown'
  BY DEF IInv, Join, At, TypeOK, PipesBounded, HostKnown, procVars, Streams
<1>3. AttemptsCharged' /\ OneLiveAttempt'
  BY DEF IInv, Join, AttemptsCharged, OneLiveAttempt, taskVars
<1>4. NilMeansStored' /\ CompletedExitZero'
  BY DEF IInv, Join, At, TypeOK, Ret, NilMeansStored, CompletedExitZero,
         OneLiveAttempt, MaySucceed, taskVars
<1> QED
  BY <1>1, <1>2, <1>3, <1>4 DEF IInv

LEMMA AddEOFIInv ==
  ASSUME NEW n \in Attempts, IInv, AddEOF(n)
  PROVE  IInv'
<1>0. log' \in Seq(Entry)
  <2>1. log \in Seq(Entry)
    BY DEF IInv, TypeOK
  <2> QED
    BY <2>1, LogAppend DEF AddEOF
<1>1. TypeOK'
  BY <1>0 DEF IInv, AddEOF, At, TypeOK, PCs, Ret, taskVars, keyVars, procVars
<1>2. PipesBounded' /\ HostKnown'
  BY DEF IInv, AddEOF, At, TypeOK, PipesBounded, HostKnown, procVars, Streams
<1>3. AttemptsCharged' /\ OneLiveAttempt'
  BY DEF IInv, AddEOF, AttemptsCharged, OneLiveAttempt, taskVars
<1>4. NilMeansStored' /\ CompletedExitZero'
  BY DEF IInv, AddEOF, At, TypeOK, Ret, NilMeansStored, CompletedExitZero,
         OneLiveAttempt, MaySucceed, taskVars
<1> QED
  BY <1>1, <1>2, <1>3, <1>4 DEF IInv

LEMMA SetExpireIInv ==
  ASSUME NEW n \in Attempts, IInv, SetExpire(n)
  PROVE  IInv'
<1>1. TypeOK'
  BY DEF IInv, SetExpire, At, TypeOK, PCs, Ret, taskVars, keyVars, procVars
<1>2. PipesBounded' /\ HostKnown'
  BY DEF IInv, SetExpire, At, TypeOK, PipesBounded, HostKnown, procVars, Streams
<1>3. AttemptsCharged' /\ OneLiveAttempt'
  BY DEF IInv, SetExpire, AttemptsCharged, OneLiveAttempt, taskVars
<1>4. NilMeansStored' /\ CompletedExitZero'
  BY DEF IInv, SetExpire, At, TypeOK, Ret, NilMeansStored, CompletedExitZero,
         OneLiveAttempt, MaySucceed, taskVars
<1> QED
  BY <1>1, <1>2, <1>3, <1>4 DEF IInv

LEMMA CollectIInv ==
  ASSUME NEW n \in Attempts, IInv, Collect(n)
  PROVE  IInv'
<1>0. ret' \in [Attempts -> Ret]
  <2>1. ret \in [Attempts -> Ret] /\ file[host[n]] \in Attempts \cup {0}
    BY DEF IInv, Collect, At, HostKnown, TypeOK
  <2> QED
    BY <2>1, RetUpdates DEF Collect
<1>f. file' \in [Workers -> Attempts \cup {0}]
  <2>1. file \in [Workers -> Attempts \cup {0}] /\ host[n] \in Workers
    BY DEF IInv, TypeOK, HostKnown, Collect, At
  <2> QED
    BY <2>1 DEF Collect
<1>1. TypeOK'
  BY <1>0, <1>f DEF IInv, Collect, At, TypeOK, PCs, Ret, taskVars, keyVars, procVars
<1>2. PipesBounded' /\ HostKnown'
  BY DEF IInv, Collect, At, TypeOK, PipesBounded, HostKnown, procVars, Streams
<1>3. AttemptsCharged' /\ OneLiveAttempt'
  BY DEF IInv, Collect, AttemptsCharged, OneLiveAttempt, taskVars
<1>4. NilMeansStored' /\ CompletedExitZero'
  BY DEF IInv, Collect, At, TypeOK, Ret, NilMeansStored, CompletedExitZero,
         OneLiveAttempt, MaySucceed, taskVars
<1> QED
  BY <1>1, <1>2, <1>3, <1>4 DEF IInv

LEMMA ReportIInv ==
  ASSUME NEW n \in Attempts, IInv, Report(n)
  PROVE  IInv'
<1>0. ret' \in [Attempts -> Ret] /\ result' \in Result
  <2>1. ret \in [Attempts -> Ret] /\ result \in Result
    BY DEF IInv, TypeOK
  <2>2. [attempt |-> n, code |-> ret[n].code, data |-> ret[n].data] \in Result
    BY <2>1 DEF Ret, Result
  <2>3. ret' \in [Attempts -> Ret]
    BY <2>1, RetUpdates DEF Report
  <2> QED
    BY <2>1, <2>2, <2>3 DEF Report
<1>1. TypeOK'
  BY <1>0 DEF IInv, Report, At, TypeOK, PCs, Ret, taskVars, keyVars, procVars
<1>2. PipesBounded' /\ HostKnown'
  BY DEF IInv, Report, At, TypeOK, PipesBounded, HostKnown, procVars, Streams
<1>3. AttemptsCharged' /\ OneLiveAttempt'
  BY DEF IInv, Report, AttemptsCharged, OneLiveAttempt, taskVars
<1>4. /\ \A k \in Attempts \ {n} : ret'[k] = ret[k] /\ pc'[k] = pc[k]
      /\ ctx' = ctx /\ cur' = cur /\ st' = st /\ ret[n] \in Ret
  BY DEF IInv, TypeOK, Report, At
<1>5. CASE /\ MaySucceed(n)
           /\ result' = [attempt |-> n, code |-> ret[n].code, data |-> ret[n].data]
           /\ ret' = [ret EXCEPT ![n].err = (ret[n].code # 0)]
  <2>1. n = cur /\ st = "active"
    BY <1>5 DEF IInv, OneLiveAttempt, MaySucceed
  <2>2. result'.attempt = n /\ result'.code = ret[n].code
    BY <1>5
  <2>3. ret'[n].err = (ret[n].code # 0)
    BY <1>4, <1>5 DEF IInv, TypeOK, Ret
  <2>4. ~ret'[n].err => result'.code = 0
    BY <2>2, <2>3
  <2>5. \A k \in Attempts : ctx'[k] = "live" => k = n
    BY <1>4, <2>1 DEF IInv, OneLiveAttempt
  <2>6. NilMeansStored'
    BY <2>2, <2>4, <2>5 DEF NilMeansStored
  <2>7. CompletedExitZero'
    BY <1>4, <2>1 DEF CompletedExitZero
  <2> QED
    BY <1>1, <1>2, <1>3, <2>6, <2>7 DEF IInv
<1>6. CASE ret' = [ret EXCEPT ![n].err = TRUE] /\ result' = result
  <2>1. ret'[n].err
    BY <1>4, <1>6 DEF IInv, TypeOK, Ret
  <2>2. NilMeansStored'
    BY <1>4, <1>6, <2>1 DEF IInv, NilMeansStored
  <2>3. CompletedExitZero'
    BY <1>4, <1>6 DEF IInv, CompletedExitZero
  <2> QED
    BY <1>1, <1>2, <1>3, <2>2, <2>3 DEF IInv
<1> QED
  BY <1>5, <1>6 DEF Report

\* Every step keeps the invariant: one step of the proof per action of Next.
LEMMA NextIInv == IInv /\ [Next]_vars => IInv'
<1> SUFFICES ASSUME IInv, [Next]_vars PROVE IInv'
  OBVIOUS
<1>1. CASE Submit
  BY <1>1, SubmitIInv
<1>2. CASE Recover
  BY <1>2, RecoverIInv
<1>3. CASE Forward
  BY <1>3, ForwardIInv
<1>4. ASSUME NEW w \in Workers, Dequeue(w) \/ Crash(w) \/ Shutdown(w) PROVE IInv'
  BY <1>4, DequeueIInv, CrashIInv, ShutdownIInv
<1>5. ASSUME NEW n \in Attempts,
             Deadline(n) \/ LeaseLost(n) \/ Finish(n) \/ ReturnStale(n)
      PROVE  IInv'
  BY <1>5, DeadlineIInv, LeaseLostIInv, FinishIInv, ReturnStaleIInv
<1>6. CASE MetaExpires \/ StreamExpires
  BY <1>6, MetaExpiresIInv, StreamExpiresIInv
<1>7. ASSUME NEW n \in Attempts, Handler(n) PROVE IInv'
  BY <1>7, BeginIInv, EarlyErrorIInv, StartScriptIInv, RelayIInv, ScanStopIInv,
     JoinIInv, AddEOFIInv, SetExpireIInv, CollectIInv, ReportIInv DEF Handler
<1>8. ASSUME NEW n \in Attempts, Script(n) PROVE IInv'
  BY <1>8, EmitIInv, WriteResultFileIInv, ScriptExitIInv DEF Script
<1>9. CASE UNCHANGED vars
  BY <1>9 DEF IInv, TypeOK, PipesBounded, HostKnown, AttemptsCharged, OneLiveAttempt,
     NilMeansStored, CompletedExitZero, vars, taskVars, keyVars, procVars
<1> QED
  BY <1>1, <1>2, <1>3, <1>4, <1>5, <1>6, <1>7, <1>8, <1>9 DEF Next, Asynq

\* The invariant holds in every reachable state.
LEMMA Invariant == Spec => []IInv
BY InitIInv, NextIInv, PTL DEF Spec

\* Every variable keeps its type; among them the number of attempts, which
\* max_retry and the requeues bound.
THEOREM TypeCorrect == Spec => []TypeOK
<1>1. IInv => TypeOK
  BY DEF IInv
<1> QED
  BY <1>1, Invariant, PTL

\* Each dequeue is paid for by a failure or a requeue, and an archived task
\* has failed max_retry times and once more.
THEOREM ChargedForEachAttempt == Spec => []AttemptsCharged
<1>1. IInv => AttemptsCharged
  BY DEF IInv
<1> QED
  BY <1>1, Invariant, PTL

\* At most one attempt has a live context, and it is the one asynq waits for.
THEOREM OneAttemptLive == Spec => []OneLiveAttempt
<1>1. IInv => OneLiveAttempt
  BY DEF IInv
<1> QED
  BY <1>1, Invariant, PTL

\* A completed task shows exit code 0, stored by its last attempt.
THEOREM CompletedMeansExitZero == Spec => []CompletedExitZero
<1>1. IInv => CompletedExitZero
  BY DEF IInv
<1> QED
  BY <1>1, Invariant, PTL

-----------------------------------------------------------------------------
\* The attempts that were given up on cannot write.

\* An attempt that may write to Redis is the one asynq waits for.
LEMMA LiveIsCurrent ==
  ASSUME IInv, NEW n \in Attempts, MaySucceed(n)
  PROVE  n = cur /\ st = "active"
BY DEF IInv, OneLiveAttempt, MaySucceed

\* A step that appends to the log appends an entry of a live attempt.
LEMMA AppendStep ==
  ASSUME IInv, NEW n \in Attempts, MaySucceed(n), NEW k \in Streams \cup {"eof"},
         log' = Append(log, [attempt |-> n, kind |-> k])
  PROVE  LogFromCurrent
<1>1. log \in Seq(Entry)
  BY DEF IInv, TypeOK
<1>2. log'[Len(log')] = [attempt |-> n, kind |-> k]
  BY <1>1
<1> QED
  BY <1>2, LiveIsCurrent DEF LogFromCurrent

LEMMA CurrentStep ==
  IInv /\ Next => ResultFromCurrent /\ StartFromCurrent /\ LogFromCurrent
<1> SUFFICES ASSUME IInv, Next
             PROVE  ResultFromCurrent /\ StartFromCurrent /\ LogFromCurrent
  OBVIOUS
<1> USE DEF ResultFromCurrent, StartFromCurrent
<1>0. ASSUME log' = log PROVE LogFromCurrent
  <2>1. Len(log') = Len(log) /\ Len(log) \in Nat
    BY <1>0 DEF IInv, TypeOK
  <2> QED
    BY <2>1 DEF LogFromCurrent
<1>1. CASE Submit \/ Asynq
  BY <1>1, <1>0 DEF Submit, Asynq, Recover, Forward, Dequeue, Crash, Shutdown, Deadline,
     LeaseLost, Finish, ReturnStale, HandleFailed, taskVars, keyVars
<1>2. CASE MetaExpires
  BY <1>2, <1>0 DEF MetaExpires, taskVars
<1>3. CASE StreamExpires
  <2>1. Len(log') = 0 /\ Len(log) \in Nat
    BY <1>3 DEF StreamExpires, IInv, TypeOK
  <2> QED
    BY <1>3, <2>1 DEF StreamExpires, LogFromCurrent, taskVars
<1>4. ASSUME NEW n \in Attempts, Begin(n)
      PROVE  ResultFromCurrent /\ StartFromCurrent /\ LogFromCurrent
  BY <1>4, <1>0, LiveIsCurrent DEF Begin, taskVars
<1>5. ASSUME NEW n \in Attempts, Report(n)
      PROVE  ResultFromCurrent /\ StartFromCurrent /\ LogFromCurrent
  BY <1>5, <1>0, LiveIsCurrent DEF Report, keyVars
<1>6. ASSUME NEW n \in Attempts, NEW s \in Streams, Relay(n, s)
      PROVE  ResultFromCurrent /\ StartFromCurrent /\ LogFromCurrent
  BY <1>6, <1>0, AppendStep DEF Relay, taskVars
<1>7. ASSUME NEW n \in Attempts, AddEOF(n)
      PROVE  ResultFromCurrent /\ StartFromCurrent /\ LogFromCurrent
  BY <1>7, <1>0, AppendStep DEF AddEOF, taskVars
<1>8. ASSUME NEW n \in Attempts,
             \/ EarlyError(n) \/ StartScript(n) \/ Join(n) \/ SetExpire(n)
             \/ Collect(n) \/ Script(n) \/ \E s \in Streams : ScanStop(n, s)
      PROVE  ResultFromCurrent /\ StartFromCurrent /\ LogFromCurrent
  BY <1>8, <1>0 DEF EarlyError, StartScript, Join, SetExpire, Collect, Script, Emit,
     WriteResultFile, ScriptExit, ScanStop, taskVars, keyVars
<1> QED
  BY <1>1, <1>2, <1>3, <1>4, <1>5, <1>6, <1>7, <1>8 DEF Next, Handler

\* Results, start times and log entries come from the attempt asynq waits for,
\* though earlier attempts' goroutines are still running.
THEOREM WritesAreCurrent == Spec => OnlyCurrentWrites
BY Invariant, CurrentStep, PTL DEF Spec, OnlyCurrentWrites

==============================================================================
