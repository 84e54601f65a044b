------------------------------ MODULE LogProofs ------------------------------
(***************************************************************************)
(* The order of the log stream, for every number of workers, retries,      *)
(* requeues and lines, and with Redis errors and over-long lines: it holds *)
(* one attempt after the other, and an attempt's marker ends it.           *)
(***************************************************************************)
EXTENDS ExecutionProofs

\* Where an attempt may stand once its marker is in the log.
Late == {"expire", "collect", "report", "return", "done", "dead"}

\* The log knows of no attempt that asynq has not started.
LogBounded == \A i \in 1 .. Len(log) : log[i].attempt <= cur

\* An attempt whose marker is in the log is past AddEOF.
MarkerLate ==
  \A i \in 1 .. Len(log) : log[i].kind = "eof" => pc[log[i].attempt] \in Late

\* Attempts that asynq has not started are nowhere.
Unstarted ==
  \A n \in Attempts : n > cur => pc[n] = "idle" /\ host[n] = NoWorker

\* Before StartScript and after Join there is no script, and nothing in a
\* pipe that a relaying goroutine still reads.
Drained ==
  \A n \in Attempts : pc[n] # "stream" =>
    /\ script[n] # "run"
    /\ \A s \in Streams : scan[n][s] = "stopped" \/ pipe[n][s] = 0

LogOrder == LogBounded /\ MarkerLate /\ LogByAttempt /\ EofEndsAttempt

\* The inductive invariant, on top of IInv.
LInv == IInv /\ Unstarted /\ Drained /\ LogOrder

LEMMA InitLInv == Init => LInv
<1> SUFFICES ASSUME Init PROVE LInv
  OBVIOUS
<1>1. Unstarted /\ Drained
  BY DEF Init, Unstarted, Drained
<1>2. Len(log) = 0
  BY DEF Init
<1>3. LogOrder
  BY <1>2 DEF LogOrder, LogBounded, MarkerLate, LogByAttempt, EofEndsAttempt
<1> QED
  BY <1>1, <1>3, InitIInv DEF LInv

-----------------------------------------------------------------------------
\* Scripts and pipes.

LEMMA GoneDrained ==
  ASSUME TypeOK, Drained, NEW A \in SUBSET Attempts, NEW at \in {"done", "dead"},
         Gone(A, at)
  PROVE  Drained'
<1> SUFFICES ASSUME NEW n \in Attempts, pc'[n] # "stream"
             PROVE  /\ script'[n] # "run"
                    /\ \A s \in Streams : scan'[n][s] = "stopped" \/ pipe'[n][s] = 0
  BY DEF Drained
<1>1. CASE n \in A
  BY <1>1 DEF Gone, TypeOK
<1>2. CASE n \notin A
  BY <1>2 DEF Gone, TypeOK, Drained
<1> QED
  BY <1>1, <1>2

LEMMA UnstartedNext == IInv /\ Unstarted /\ [Next]_vars => Unstarted'
<1> SUFFICES ASSUME IInv, Unstarted, [Next]_vars PROVE Unstarted'
  OBVIOUS
<1>0. TypeOK /\ cur \in Nat /\ Attempts \subseteq Nat
  BY DEF IInv, TypeOK, Attempts
<1>1. ASSUME cur' = cur, host' = host,
             \A n \in Attempts : pc[n] = "idle" /\ host[n] = NoWorker => pc'[n] = "idle"
      PROVE  Unstarted'
  BY <1>1 DEF Unstarted
<1>2. CASE \/ Submit \/ Recover \/ Forward \/ MetaExpires \/ StreamExpires \/ UNCHANGED vars
  BY <1>1, <1>2 DEF Submit, Recover, Forward, MetaExpires, StreamExpires, HandleFailed,
     taskVars, vars
<1>3. ASSUME NEW w \in Workers, Dequeue(w) PROVE Unstarted'
  <2> DEFINE new == cur + 1
  <2>1. ASSUME NEW n \in Attempts, n > new PROVE n > cur /\ n # new
    <3>1. n \in Nat
      BY <1>0
    <3> QED
      BY <1>0, <2>1, <3>1
  <2>2. \A n \in Attempts : n # new => pc'[n] = pc[n] /\ host'[n] = host[n]
    BY <1>3 DEF Dequeue, TypeOK
  <2> QED
    BY <1>3, <2>1, <2>2 DEF Dequeue, Unstarted
<1>4. ASSUME NEW w \in Workers, Crash(w) \/ Shutdown(w) PROVE Unstarted'
  <2>1. \A n \in Attempts : host[n] = NoWorker => n \notin On(w)
    BY WorkersAssumption DEF On, WorkersAssumption
  <2>2. cur' = cur /\ Gone(On(w), "dead")
    BY <1>4 DEF Crash, Shutdown, taskVars
  <2>3. \A n \in Attempts : host[n] = NoWorker => pc'[n] = pc[n]
    BY <2>1, <2>2 DEF Gone
  <2>4. host' = host
    BY <2>2 DEF Gone
  <2> QED
    BY <1>1, <2>2, <2>3, <2>4
<1>5. ASSUME NEW n \in Attempts, Finish(n) \/ ReturnStale(n) PROVE Unstarted'
  <2>1. cur' = cur /\ pc[n] # "idle" /\ Gone({n}, "done")
    BY <1>5 DEF Finish, ReturnStale, HandleFailed, taskVars
  <2>2. host' = host /\ \A m \in Attempts \ {n} : pc'[m] = pc[m]
    BY <2>1 DEF Gone
  <2> QED
    BY <1>1, <2>1, <2>2
<1>6. ASSUME NEW n \in Attempts, Deadline(n) \/ LeaseLost(n) \/ Script(n)
      PROVE  Unstarted'
  BY <1>1, <1>6 DEF Deadline, LeaseLost, HandleFailed, Script, Emit, WriteResultFile,
     ScriptExit, taskVars
<1>7. ASSUME NEW n \in Attempts, Handler(n) PROVE Unstarted'
  <2>1. cur' = cur /\ host' = host
    BY <1>7 DEF Handler, Begin, EarlyError, StartScript, Relay, ScanStop, Join, AddEOF,
       SetExpire, Collect, Report, taskVars
  <2>2. \A m \in Attempts : pc[m] = "idle" => pc'[m] = pc[m]
    BY <1>0, <1>7 DEF Handler, Begin, EarlyError, StartScript, Relay, ScanStop, Join,
       AddEOF, SetExpire, Collect, Report, At, TypeOK
  <2> QED
    BY <1>1, <2>1, <2>2
<1> QED
  BY <1>2, <1>3, <1>4, <1>5, <1>6, <1>7 DEF Next, Asynq

\* A line that is in a pipe and can still be relayed has its handler waiting.
LEMMA RelaysStream ==
  ASSUME TypeOK, Drained, NEW n \in Attempts, NEW s \in Streams,
         scan[n][s] = "open", pipe[n][s] > 0
  PROVE  pc[n] = "stream"
<1>1. pipe[n][s] # 0
  BY DEF TypeOK
<1> QED
  BY <1>1 DEF Drained

LEMMA DrainedNext == IInv /\ Unstarted /\ Drained /\ [Next]_vars => Drained'
<1> SUFFICES ASSUME IInv, Unstarted, Drained, [Next]_vars PROVE Drained'
  OBVIOUS
<1> USE DEF IInv
<1>0. ASSUME UNCHANGED procVars, \A n \in Attempts : pc'[n] = "stream" <=> pc[n] = "stream"
      PROVE  Drained'
  BY <1>0 DEF Drained, procVars
<1>1. CASE Submit \/ Recover \/ Forward \/ MetaExpires \/ StreamExpires \/ UNCHANGED vars
  BY <1>1, <1>0 DEF Submit, Recover, Forward, MetaExpires, StreamExpires, vars
<1>2. ASSUME NEW w \in Workers, Dequeue(w) PROVE Drained'
  <2>1. \A n \in Attempts : n = cur + 1 => n > cur /\ pc[n] = "idle"
    BY DEF Unstarted, TypeOK, Attempts
  <2>2. \A n \in Attempts : pc'[n] = "stream" <=> pc[n] = "stream"
    BY <1>2, <2>1 DEF Dequeue, TypeOK
  <2> QED
    BY <1>0, <1>2, <2>2 DEF Dequeue
<1>3. ASSUME NEW w \in Workers, Crash(w) \/ Shutdown(w) PROVE Drained'
  <2>1. On(w) \in SUBSET Attempts
    BY DEF On
  <2> QED
    BY <1>3, <2>1, GoneDrained DEF Crash, Shutdown
<1>4. ASSUME NEW n \in Attempts, Deadline(n) \/ LeaseLost(n) PROVE Drained'
  BY <1>4, <1>0 DEF Deadline, LeaseLost
<1>5. ASSUME NEW n \in Attempts, Finish(n) \/ ReturnStale(n) PROVE Drained'
  BY <1>5, GoneDrained DEF Finish, ReturnStale
<1>6. ASSUME NEW n \in Attempts,
             \/ Begin(n) \/ EarlyError(n) \/ AddEOF(n) \/ SetExpire(n) \/ Collect(n)
             \/ Report(n) \/ WriteResultFile(n)
      PROVE  Drained'
  BY <1>6, <1>0 DEF Begin, EarlyError, AddEOF, SetExpire, Collect, Report,
     WriteResultFile, At, TypeOK
<1>7. ASSUME NEW n \in Attempts, StartScript(n) \/ Join(n) PROVE Drained'
  BY <1>7 DEF StartScript, Join, At, Drained, TypeOK, procVars
<1>8. ASSUME NEW n \in Attempts, ScriptExit(n) PROVE Drained'
  BY <1>8 DEF ScriptExit, Drained, TypeOK
<1>9. ASSUME NEW n \in Attempts, NEW s \in Streams, Emit(n, s) \/ Relay(n, s)
      PROVE  Drained'
  <2>1. pc[n] = "stream"
    <3>1. CASE Emit(n, s)
      BY <3>1 DEF Emit, Drained
    <3>2. CASE Relay(n, s)
      BY <3>2, RelaysStream DEF Relay
    <3> QED
      BY <1>9, <3>1, <3>2
  <2>2. /\ pc' = pc /\ script' = script /\ scan' = scan
        /\ \A k \in Attempts \ {n} : pipe'[k] = pipe[k]
    BY <1>9 DEF Emit, Relay, TypeOK
  <2> QED
    BY <2>1, <2>2 DEF Drained
<1>10. ASSUME NEW n \in Attempts, NEW s \in Streams, ScanStop(n, s) PROVE Drained'
  <2>1. pc[n] = "stream"
    BY <1>10, RelaysStream DEF ScanStop
  <2>2. /\ pc' = pc /\ script' = script /\ pipe' = pipe
        /\ \A k \in Attempts \ {n} : scan'[k] = scan[k]
    BY <1>10 DEF ScanStop, TypeOK
  <2> QED
    BY <2>1, <2>2 DEF Drained
<1> QED
  BY <1>1, <1>2, <1>3, <1>4, <1>5, <1>6, <1>7, <1>8, <1>9, <1>10
     DEF Next, Asynq, Handler, Script

-----------------------------------------------------------------------------
\* The log.

LEMMA EntryAttempt ==
  ASSUME log \in Seq(Entry)
  PROVE  \A i \in 1 .. Len(log) : log[i].attempt \in Attempts /\ log[i].attempt \in Nat
<1> SUFFICES ASSUME NEW i \in 1 .. Len(log)
             PROVE  log[i].attempt \in Attempts /\ log[i].attempt \in Nat
  OBVIOUS
<1>1. log[i] \in Entry
  OBVIOUS
<1>2. log[i].attempt \in Attempts
  BY <1>1 DEF Entry
<1> QED
  BY <1>2 DEF Attempts

\* A step that leaves the log alone keeps its order, if it takes no started
\* attempt back to before its marker.
LEMMA QuietStep ==
  ASSUME LInv, log' = log, cur' \in Nat, cur <= cur',
         \A n \in Attempts : n <= cur /\ pc[n] \in Late => pc'[n] \in Late
  PROVE  LogOrder'
<1> USE DEF LInv, LogOrder
<1>1. log \in Seq(Entry) /\ cur \in Nat
  BY DEF IInv, TypeOK, Attempts
<1>2. \A i \in 1 .. Len(log) : log[i].attempt \in Attempts /\ log[i].attempt \in Nat
  BY <1>1, EntryAttempt
<1>3. LogBounded'
  BY <1>1, <1>2 DEF LogBounded
<1>4. MarkerLate'
  BY <1>1, <1>2 DEF MarkerLate, LogBounded
<1>5. LogByAttempt' /\ EofEndsAttempt'
  BY DEF LogByAttempt, EofEndsAttempt
<1> QED
  BY <1>3, <1>4, <1>5

\* An entry of the attempt asynq waits for, appended before its marker.
LEMMA AppendKeepsOrder ==
  ASSUME LInv, NEW n \in Attempts, MaySucceed(n), pc[n] \notin Late,
         NEW k \in Streams \cup {"eof"},
         log' = Append(log, [attempt |-> n, kind |-> k]),
         cur' = cur, k = "eof" => pc'[n] \in Late,
         \A m \in Attempts \ {n} : pc'[m] = pc[m]
  PROVE  LogOrder'
<1> USE DEF LInv, LogOrder
<1> DEFINE e == [attempt |-> n, kind |-> k]
<1>1. log \in Seq(Entry) /\ cur \in Nat /\ n \in Nat
  BY DEF IInv, TypeOK, Attempts
<1>2. n = cur
  BY LiveIsCurrent
<1>3. /\ Len(log') = Len(log) + 1 /\ Len(log) \in Nat
      /\ log'[Len(log) + 1] = e
      /\ \A i \in 1 .. Len(log) : log'[i] = log[i]
  BY <1>1
<1>4. \A i \in 1 .. Len(log) : log[i].attempt \in Attempts /\ log[i].attempt \in Nat
  BY <1>1, EntryAttempt
<1>5. \A i \in 1 .. Len(log') : i \in 1 .. Len(log) \/ (i = Len(log) + 1 /\ log'[i] = e)
  BY <1>3
<1>6. \A i \in 1 .. Len(log) : log[i].attempt <= n
  BY <1>2 DEF LogBounded
<1>7. \A i \in 1 .. Len(log) : log[i].kind = "eof" => log[i].attempt # n
  BY DEF MarkerLate
<1>8. LogBounded'
  BY <1>1, <1>2, <1>3, <1>5 DEF LogBounded
<1>9. MarkerLate'
  BY <1>3, <1>4, <1>5, <1>7 DEF MarkerLate
<1>10. ASSUME NEW i \in 1 .. Len(log'), NEW j \in 1 .. Len(log'), i < j
       PROVE  /\ i \in 1 .. Len(log) /\ log'[i] = log[i]
              /\ \/ j \in 1 .. Len(log) /\ log'[j] = log[j]
                 \/ log'[j].attempt = n
  BY <1>10, <1>3, <1>5
<1>11. LogByAttempt'
  BY <1>6, <1>10 DEF LogByAttempt
<1>12. EofEndsAttempt'
  <2> SUFFICES ASSUME NEW i \in 1 .. Len(log'), NEW j \in 1 .. Len(log'),
                      i < j, log'[i].kind = "eof"
               PROVE  log'[i].attempt < log'[j].attempt
    BY DEF EofEndsAttempt
  <2>1. i \in 1 .. Len(log) /\ log'[i] = log[i] /\ log[i].attempt < n
    BY <1>1, <1>4, <1>6, <1>7, <1>10
  <2>2. CASE j \in 1 .. Len(log) /\ log'[j] = log[j]
    BY <2>1, <2>2 DEF EofEndsAttempt
  <2>3. CASE log'[j].attempt = n
    BY <2>1, <2>3
  <2> QED
    BY <1>10, <2>2, <2>3
<1> QED
  BY <1>8, <1>9, <1>11, <1>12

LEMMA OrderNext == LInv /\ [Next]_vars => LogOrder'
<1> SUFFICES ASSUME LInv, [Next]_vars PROVE LogOrder'
  OBVIOUS
<1>0. /\ TypeOK /\ cur \in Nat /\ cur + 1 \in Nat /\ cur <= cur + 1
  BY DEF LInv, IInv, TypeOK, Attempts
<1>1. CASE Submit \/ Recover \/ Forward \/ MetaExpires \/ UNCHANGED vars
  BY <1>0, <1>1, QuietStep DEF Submit, Recover, Forward, MetaExpires, HandleFailed,
     vars, taskVars, keyVars
<1>2. CASE StreamExpires
  <2>1. Len(log') = 0
    BY <1>2 DEF StreamExpires
  <2> QED
    BY <2>1 DEF LogOrder, LogBounded, MarkerLate, LogByAttempt, EofEndsAttempt
<1>3. ASSUME NEW w \in Workers, Dequeue(w) PROVE LogOrder'
  <2>1. \A n \in Attempts : n <= cur => pc'[n] = pc[n]
    BY <1>0, <1>3 DEF Dequeue, TypeOK, Attempts
  <2> QED
    BY <1>0, <1>3, <2>1, QuietStep DEF Dequeue, keyVars
<1>4. ASSUME NEW A \in SUBSET Attempts, NEW at \in {"done", "dead"}, Gone(A, at),
             log' = log, cur' = cur
      PROVE  LogOrder'
  <2>1. \A n \in Attempts : pc[n] \in Late => pc'[n] \in Late
    BY <1>4 DEF Gone, Late
  <2> QED
    BY <1>0, <1>4, <2>1, QuietStep
<1>5. ASSUME NEW w \in Workers, Crash(w) \/ Shutdown(w) PROVE LogOrder'
  <2>1. On(w) \in SUBSET Attempts
    BY DEF On
  <2> QED
    BY <1>4, <1>5, <2>1 DEF Crash, Shutdown, taskVars, keyVars
<1>6. ASSUME NEW n \in Attempts, Finish(n) \/ ReturnStale(n) PROVE LogOrder'
  BY <1>4, <1>6 DEF Finish, ReturnStale, HandleFailed, taskVars, keyVars
<1>7. ASSUME NEW n \in Attempts, Deadline(n) \/ LeaseLost(n) \/ Script(n)
      PROVE  LogOrder'
  BY <1>0, <1>7, QuietStep DEF Deadline, LeaseLost, HandleFailed, Script, Emit,
     WriteResultFile, ScriptExit, taskVars, keyVars
<1>8. ASSUME NEW n \in Attempts,
             \/ Begin(n) \/ EarlyError(n) \/ StartScript(n) \/ Join(n)
             \/ SetExpire(n) \/ Collect(n) \/ Report(n)
             \/ \E s \in Streams : ScanStop(n, s)
      PROVE  LogOrder'
  <2>1. \A m \in Attempts : pc[m] \in Late => pc'[m] \in Late
    BY <1>0, <1>8 DEF Begin, EarlyError, StartScript, Join, SetExpire, Collect, Report,
       ScanStop, At, Late, TypeOK
  <2>2. log' = log /\ cur' = cur
    BY <1>8 DEF Begin, EarlyError, StartScript, Join, SetExpire, Collect, Report,
       ScanStop, taskVars, keyVars
  <2> QED
    BY <1>0, <2>1, <2>2, QuietStep
<1>9. ASSUME NEW n \in Attempts, NEW s \in Streams, Relay(n, s) PROVE LogOrder'
  <2>1. pc' = pc /\ cur' = cur
    BY <1>9 DEF Relay, taskVars
  <2>2. CASE MaySucceed(n) /\ log' = Append(log, [attempt |-> n, kind |-> s])
    <3>1. pc[n] = "stream"
      BY <1>0, <1>9, RelaysStream DEF Relay, LInv
    <3>2. pc[n] \notin Late /\ s \in Streams \cup {"eof"} /\ s # "eof"
      BY <3>1 DEF Late, Streams
    <3> QED
      BY <2>1, <2>2, <3>2, AppendKeepsOrder
  <2>3. CASE log' = log
    BY <1>0, <2>1, <2>3, QuietStep
  <2> QED
    BY <1>9, <2>2, <2>3 DEF Relay
<1>10. ASSUME NEW n \in Attempts, AddEOF(n) PROVE LogOrder'
  <2>1. cur' = cur /\ pc[n] = "eof" /\ pc'[n] \in Late
        /\ \A m \in Attempts \ {n} : pc'[m] = pc[m]
    BY <1>0, <1>10 DEF AddEOF, At, taskVars, Late, TypeOK
  <2>2. pc[n] \notin Late
    BY <2>1 DEF Late
  <2>3. CASE MaySucceed(n) /\ log' = Append(log, [attempt |-> n, kind |-> "eof"])
    BY <2>1, <2>2, <2>3, AppendKeepsOrder
  <2>4. CASE log' = log
    BY <1>0, <2>1, <2>4, QuietStep
  <2> QED
    BY <1>10, <2>3, <2>4 DEF AddEOF
<1> QED
  BY <1>1, <1>2, <1>3, <1>5, <1>6, <1>7, <1>8, <1>9, <1>10 DEF Next, Asynq, Handler

LEMMA LogInvariant == Spec => []LInv
<1>1. LInv /\ [Next]_vars => LInv'
  BY NextIInv, UnstartedNext, DrainedNext, OrderNext DEF LInv
<1> QED
  BY <1>1, InitLInv, PTL DEF Spec

\* The log holds the attempts one after the other, though goroutines of a
\* given-up attempt are still relaying its output.
THEOREM LogIsByAttempt == Spec => []LogByAttempt
<1>1. LInv => LogByAttempt
  BY DEF LInv, LogOrder
<1> QED
  BY <1>1, LogInvariant, PTL

\* No line of an attempt follows its marker: wg.Wait comes before WriteEOF.
THEOREM MarkerEndsAttempt == Spec => []EofEndsAttempt
<1>1. LInv => EofEndsAttempt
  BY DEF LInv, LogOrder
<1> QED
  BY <1>1, LogInvariant, PTL

==============================================================================
