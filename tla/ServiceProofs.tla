---------------------------- MODULE ServiceProofs ----------------------------
(***************************************************************************)
(* What an aqsh process promises whatever it is started with, whoever asks *)
(* it for what, and however many signals and tasks there are.              *)
(***************************************************************************)
EXTENDS Service, OperatorProofs

Preparing == {"start", "configured", "loaded", "connected", "watching"}

\* Before main has launched the servers there is nothing of them.
NothingEarly == pc \in Preparing => api = "off" /\ worker = "off" /\ reviewer = FALSE

\* From its loading on, and as long as there is an API, the configuration is
\* what the deployment says.
ConfigKept == pc \in (Preparing \ {"start"}) \cup {"waiting"} \/ api # "off"
                => cfg = Settings(deployment)

\* Each server is one that the mode asks for.
ModeObeyed ==
  /\ api # "off" => cfg.mode \in {"api", "both"}
  /\ worker # "off" => cfg.mode \in {"worker", "both"}

\* An API that has been prepared has a valid configuration, and the reviewer's
\* credentials only natively.
ApiPrepared == api \in {"prepared", "listening"} => ValidConfig(cfg) /\ reviewer = Native

\* main has not ended before the worker.
WorkerFirst == pc = "exited" => worker \in {"off", "stopped"}

TasksTyped ==
  /\ tasks \in Seq({tasks[k] : k \in DOMAIN tasks})
  /\ \A k \in DOMAIN tasks : "state" \in DOMAIN tasks[k]

\* Only a worker that is up runs tasks.
RunByWorker ==
  \A k \in DOMAIN tasks :
    tasks[k].state = "running" => worker \in {"unattended", "attended", "stopping"}

\* The inductive invariant, of the process and of its tasks.
ProcessInv ==
  /\ NothingEarly
  /\ ConfigKept
  /\ ModeObeyed
  /\ ApiPrepared
  /\ CredentialsApart
  /\ WorkerFirst

IInv == ProcessInv /\ TasksTyped /\ RunByWorker

-----------------------------------------------------------------------------
LEMMA InitIInv == Init => IInv
<1> SUFFICES ASSUME Init PROVE IInv
  OBVIOUS
<1>1. ProcessInv
  BY DEF Init, ProcessInit, ProcessInv, NothingEarly, ConfigKept, ModeObeyed, ApiPrepared,
         CredentialsApart, WorkerFirst, Preparing
<1>2. TasksTyped /\ RunByWorker
  BY DEF Init, TasksTyped, RunByWorker
<1> QED
  BY <1>1, <1>2 DEF IInv

-----------------------------------------------------------------------------
\* The process.

\* main's step: what it configures and launches, and when it ends.
LEMMA MainInv == ProcessInv /\ MainStep => ProcessInv'
<1> SUFFICES ASSUME ProcessInv, MainStep PROVE ProcessInv'
  OBVIOUS
<1> USE DEF ProcessInv, Preparing, Proceed, Advance
<1>1. CASE Configure
  <2>1. pc = "start" /\ UNCHANGED <<api, worker, reviewer>> /\ cfg' = Settings(deployment)'
    BY <1>1 DEF Configure, servers, deployment, Settings
  <2> QED
    BY <1>1, <2>1 DEF Configure, NothingEarly, ConfigKept, ModeObeyed, ApiPrepared,
       CredentialsApart, WorkerFirst
<1>2. CASE LoadTasks \/ Connect \/ Watch
  <2>1. pc \in Preparing /\ UNCHANGED <<api, worker, reviewer, cfg, started>>
    BY <1>2 DEF LoadTasks, Connect, Watch, servers, loaded
  <2>2. pc' \in {"loaded", "connected", "watching", "exited"} /\ pc # "start"
    BY <1>2 DEF LoadTasks, Connect, Watch
  <2>3. ValidConfig(cfg)' = ValidConfig(cfg) /\ Settings(deployment)' = Settings(deployment)
    BY <2>1 DEF deployment, Settings
  <2> QED
    BY <2>1, <2>2, <2>3 DEF NothingEarly, ConfigKept, ModeObeyed, ApiPrepared, CredentialsApart,
       WorkerFirst
<1>3. CASE Launch
  <2>1. pc = "watching" /\ pc' = "waiting" /\ UNCHANGED <<reviewer, cfg, started>>
    BY <1>3 DEF Launch, loaded
  <2>2. Settings(deployment)' = Settings(deployment)
    BY <2>1 DEF deployment, Settings
  <2>3. NothingEarly' /\ WorkerFirst' /\ ConfigKept'
    BY <2>1, <2>2 DEF NothingEarly, WorkerFirst, ConfigKept
  <2>4. ModeObeyed' /\ ApiPrepared' /\ CredentialsApart'
    BY <1>3, <2>1 DEF Launch, NothingEarly, ModeObeyed, ApiPrepared, CredentialsApart
  <2> QED
    BY <2>3, <2>4
<1>4. CASE Exit
  <2>1. pc' = "exited" /\ UNCHANGED <<api, worker, reviewer, cfg, started>>
    BY <1>4 DEF Exit, servers, loaded
  <2>2. Settings(deployment)' = Settings(deployment) /\ Native' = Native
    BY <2>1 DEF deployment, Settings, Native
  <2> QED
    BY <1>4, <2>1, <2>2 DEF Exit, NothingEarly, ConfigKept, ModeObeyed, ApiPrepared,
       CredentialsApart, WorkerFirst
<1> QED
  BY <1>1, <1>2, <1>3, <1>4 DEF MainStep

\* A step that leaves the configuration, the servers and where main is alone.
LEMMA ProcessStutter ==
  ProcessInv /\ UNCHANGED <<started, cfg, pc, api, worker, reviewer>> => ProcessInv'
BY DEF ProcessInv, NothingEarly, ConfigKept, ModeObeyed, ApiPrepared, CredentialsApart,
       WorkerFirst, deployment, Settings, ValidConfig, Native

\* A signal to a process that has not registered for it ends it, which no part
\* of the invariant speaks of.
LEMMA SignalInv == ProcessInv /\ (Signal \/ MainHears) => ProcessInv'
<1> SUFFICES ASSUME ProcessInv, Signal \/ MainHears PROVE ProcessInv'
  OBVIOUS
<1>1. CASE UNCHANGED pc
  BY <1>1, ProcessStutter DEF Signal, MainHears, loaded, servers
<1>2. CASE ~UNCHANGED pc
  <2>1. pc' = "killed" /\ UNCHANGED <<started, cfg, api, worker, reviewer>>
    BY <1>2 DEF Signal, MainHears, loaded, servers
  <2>2. Settings(deployment)' = Settings(deployment) /\ Native' = Native
    BY <2>1 DEF deployment, Settings, Native
  <2> QED
    BY <2>1, <2>2 DEF ProcessInv, NothingEarly, ConfigKept, ModeObeyed, ApiPrepared,
       CredentialsApart, WorkerFirst, Preparing
<1> QED
  BY <1>1, <1>2

\* The API's Run; the credentials are read in a process whose mode has no worker.
LEMMA ApiInv ==
  ProcessInv /\ (ApiStep \/ ServeFails \/ BeginShutdown) => ProcessInv'
<1> SUFFICES ASSUME ProcessInv, ApiStep \/ ServeFails \/ BeginShutdown
             PROVE  ProcessInv'
  OBVIOUS
<1> USE DEF ProcessInv
<1>1. CASE BeginShutdown
  BY <1>1, ProcessStutter DEF BeginShutdown, loaded
<1>2. CASE ApiStep \/ ServeFails
  <2>1. api # "off" /\ api' # "off" /\ UNCHANGED <<started, cfg, pc, worker>>
    BY <1>2 DEF ApiStep, PrepareApi, Listen, StopListening, ServeFails, ApiReturns, loaded
  <2>2. /\ Settings(deployment)' = Settings(deployment) /\ Native' = Native
        /\ ValidConfig(cfg)' = ValidConfig(cfg)
    BY <2>1 DEF deployment, Settings, Native
  <2>3. NothingEarly' /\ ConfigKept' /\ ModeObeyed' /\ WorkerFirst'
    BY <2>1, <2>2 DEF NothingEarly, ConfigKept, ModeObeyed, WorkerFirst
  <2>4. ApiPrepared' /\ CredentialsApart'
    <3>1. CASE PrepareApi /\ api' = "prepared"
      <4>1. ValidConfig(cfg) /\ reviewer' = Native
        BY <3>1 DEF PrepareApi, ApiReturns
      <4>2. Native => cfg.mode = "api" /\ worker = "off"
        BY <2>1, <4>1 DEF ValidConfig, Native, ModeObeyed
      <4> QED
        BY <2>1, <2>2, <4>1, <4>2 DEF ApiPrepared, CredentialsApart
    <3>2. CASE UNCHANGED reviewer /\ (api = "prepared" \/ api' = "returned")
      BY <2>1, <2>2, <3>2 DEF ApiPrepared, CredentialsApart
    <3> QED
      BY <1>2, <3>1, <3>2 DEF ApiStep, PrepareApi, Listen, StopListening, ServeFails, ApiReturns
  <2> QED
    BY <2>3, <2>4
<1> QED
  BY <1>1, <1>2

\* The worker's Run.
LEMMA WorkerInv ==
  ASSUME ProcessInv, NEW from, NEW to \in {"unattended", "attended", "stopping", "stopped"},
         WorkerStep(from, to), from # "off"
  PROVE  ProcessInv'
<1>1. /\ worker # "off" /\ worker' \in {"unattended", "attended", "stopping", "stopped"}
      /\ pc # "exited" /\ UNCHANGED <<started, cfg, pc, api, reviewer>>
  BY DEF WorkerStep, Running, loaded
<1>2. Settings(deployment)' = Settings(deployment) /\ ValidConfig(cfg)' = ValidConfig(cfg)
  BY <1>1 DEF deployment, Settings
<1> QED
  BY <1>1, <1>2 DEF ProcessInv, NothingEarly, ConfigKept, ModeObeyed, ApiPrepared,
     CredentialsApart, WorkerFirst, Native

LEMMA ProcessNextInv == ProcessInv /\ (ProcessNext \/ StopWorker) => ProcessInv'
<1> SUFFICES ASSUME ProcessInv, ProcessNext \/ StopWorker PROVE ProcessInv'
  OBVIOUS
<1>1. CASE StartWorker \/ AttendSignals \/ WorkerHears \/ StopWorker
  BY <1>1, WorkerInv DEF StartWorker, AttendSignals, WorkerHears, StopWorker
<1> QED
  BY <1>1, MainInv, SignalInv, ApiInv DEF ProcessNext

-----------------------------------------------------------------------------
\* The tasks.

\* Steps of the process that do not end tasks: the worker goes on, or there was
\* none to run any.
LEMMA TasksKeptInv == IInv /\ ProcessNext /\ UNCHANGED tasks => TasksTyped' /\ RunByWorker'
<1> SUFFICES ASSUME IInv, ProcessNext, UNCHANGED tasks PROVE TasksTyped' /\ RunByWorker'
  OBVIOUS
<1>1. worker \in {"unattended", "attended", "stopping"}
        => worker' \in {"unattended", "attended", "stopping"}
  BY DEF IInv, ProcessInv, NothingEarly, Preparing, ProcessNext, MainStep, ApiStep,
     Configure, LoadTasks, Connect, Watch, Launch, Exit, Signal, MainHears, PrepareApi,
     Listen, StopListening, ServeFails, BeginShutdown, StartWorker, AttendSignals, WorkerHears, WorkerStep,
     Proceed, Advance, servers
<1> QED
  BY <1>1 DEF IInv, TasksTyped, RunByWorker

\* What a sequence of tasks becomes.
LEMMA AppendTask ==
  ASSUME TasksTyped, NEW t, "state" \in DOMAIN t, tasks' = Append(tasks, t)
  PROVE  /\ TasksTyped'
         /\ \A k \in DOMAIN tasks' : tasks'[k] = t \/ (k \in DOMAIN tasks /\ tasks'[k] = tasks[k])
<1> DEFINE S == {tasks[k] : k \in DOMAIN tasks} \cup {t}
<1>1. tasks \in Seq(S) /\ t \in S
  BY DEF TasksTyped
<1>2. /\ Len(tasks') = Len(tasks) + 1 /\ Len(tasks) \in Nat
      /\ tasks' \in Seq(S)
      /\ \A k \in 1 .. Len(tasks) : tasks'[k] = tasks[k]
      /\ tasks'[Len(tasks) + 1] = t
  BY <1>1, AppendProperties, LenProperties
<1>3. DOMAIN tasks' = 1 .. Len(tasks) + 1 /\ DOMAIN tasks = 1 .. Len(tasks)
  BY <1>1, <1>2, LenProperties
<1>4. \A k \in DOMAIN tasks' : tasks'[k] = t \/ (k \in DOMAIN tasks /\ tasks'[k] = tasks[k])
  BY <1>2, <1>3
<1>5. tasks' = [k \in 1 .. Len(tasks) + 1 |-> tasks'[k]]
  BY <1>2, <1>3, LenProperties
<1>6. tasks' \in Seq({tasks'[k] : k \in DOMAIN tasks'})
  BY <1>2, <1>5, OwnElements
<1> QED
  BY <1>4, <1>6 DEF TasksTyped

\* A step that changes tasks one by one keeps the sequence.
LEMMA SameLength ==
  ASSUME TasksTyped, DOMAIN tasks' = DOMAIN tasks, tasks' = [k \in DOMAIN tasks |-> tasks'[k]],
         \A k \in DOMAIN tasks : "state" \in DOMAIN tasks'[k]
  PROVE  TasksTyped'
<1>1. DOMAIN tasks = 1 .. Len(tasks) /\ Len(tasks) \in Nat
  BY LenProperties DEF TasksTyped
<1>2. tasks' \in Seq({tasks'[k] : k \in DOMAIN tasks'})
  BY <1>1, OwnElements
<1> QED
  BY <1>2 DEF TasksTyped

\* A task is queued when it is new.
LEMMA EnqueueInv == IInv /\ Enqueue => TasksTyped' /\ RunByWorker'
<1> SUFFICES ASSUME IInv, Enqueue PROVE TasksTyped' /\ RunByWorker'
  OBVIOUS
<1>1. worker' = worker
  BY DEF Enqueue, processes, servers
<1>2. CASE tasks' = Append(tasks, NewTask)
  <2>1. "state" \in DOMAIN NewTask /\ NewTask.state = "queued"
    BY DEF NewTask
  <2> HIDE DEF NewTask
  <2> QED
    BY <1>1, <1>2, <2>1, AppendTask DEF IInv, RunByWorker
<1>3. CASE UNCHANGED tasks
  BY <1>1, <1>3 DEF IInv, TasksTyped, RunByWorker
<1> QED
  BY <1>2, <1>3 DEF Enqueue

\* It is running when the process's own worker has taken it, and as long as
\* nothing else happens to it.
LEMMA TaskStepInv ==
  ASSUME IInv, NEW k \in DOMAIN tasks, StartTask(k) \/ RunElsewhere(k) \/ FinishTask(k)
  PROVE  TasksTyped' /\ RunByWorker'
<1>1. worker' = worker
  BY DEF StartTask, RunElsewhere, FinishTask, processes, servers
<1>2. PICK t : /\ tasks' = [tasks EXCEPT ![k] = t]
               /\ "state" \in DOMAIN t
               /\ t.state = "running" => worker \in {"unattended", "attended"}
  BY DEF StartTask, RunElsewhere, FinishTask, Started, IInv, TasksTyped
<1>3. /\ DOMAIN tasks' = DOMAIN tasks /\ tasks' = [j \in DOMAIN tasks |-> tasks'[j]]
      /\ tasks'[k] = t /\ \A j \in DOMAIN tasks : j # k => tasks'[j] = tasks[j]
  BY <1>2
<1>4. TasksTyped'
  BY <1>2, <1>3, SameLength DEF IInv, TasksTyped
<1>5. RunByWorker'
  BY <1>1, <1>2, <1>3 DEF IInv, RunByWorker
<1> QED
  BY <1>4, <1>5

\* asynq's Shutdown leaves none running.
LEMMA HandBackInv == IInv /\ HandBack => TasksTyped' /\ RunByWorker'
<1> SUFFICES ASSUME IInv, HandBack PROVE TasksTyped' /\ RunByWorker'
  OBVIOUS
<1>1. \A k \in DOMAIN tasks : "state" \in DOMAIN tasks[k]
  BY DEF IInv, TasksTyped
<1>2. /\ DOMAIN tasks' = DOMAIN tasks /\ tasks' = [k \in DOMAIN tasks |-> tasks'[k]]
      /\ \A k \in DOMAIN tasks :
           "state" \in DOMAIN tasks'[k] /\ tasks'[k].state # "running"
  BY <1>1 DEF HandBack
<1> QED
  BY <1>2, SameLength DEF IInv, RunByWorker

-----------------------------------------------------------------------------
LEMMA NextIInv == IInv /\ [Next]_vars => IInv'
<1> SUFFICES ASSUME IInv, [Next]_vars PROVE IInv'
  OBVIOUS
<1> USE DEF IInv
<1>1. CASE ProcessNext /\ UNCHANGED requests
  <2>1. ProcessInv'
    BY <1>1, ProcessNextInv
  <2> QED
    BY <1>1, <2>1, TasksKeptInv DEF requests
<1>2. CASE HandBack
  <2>1. ProcessInv'
    BY <1>2, ProcessNextInv DEF HandBack
  <2> QED
    BY <1>2, <2>1, HandBackInv
<1>3. ASSUME UNCHANGED processes PROVE ProcessInv'
  BY <1>3, ProcessStutter DEF processes, servers, loaded
<1>4. CASE Enqueue
  BY <1>4, <1>3, EnqueueInv DEF Enqueue
<1>5. ASSUME NEW k \in DOMAIN tasks, StartTask(k) \/ RunElsewhere(k) \/ FinishTask(k)
      PROVE  IInv'
  BY <1>5, <1>3, TaskStepInv DEF StartTask, RunElsewhere, FinishTask
<1>6. ASSUME UNCHANGED <<processes, tasks>> PROVE IInv'
  BY <1>6, <1>3 DEF TasksTyped, RunByWorker, processes, servers
<1>7. ASSUME NEW r \in Requests, Arrive(r) PROVE IInv'
  BY <1>7, <1>6 DEF Arrive
<1>8. CASE Open \/ Authenticate \/ Health \/ List \/ Status \/ Submit \/ CutOff
  BY <1>8, <1>6 DEF Open, Authenticate, Health, List, Status, Submit, CutOff
<1>9. CASE UNCHANGED vars
  BY <1>9, <1>6 DEF vars, requests
<1> QED
  BY <1>1, <1>2, <1>4, <1>5, <1>7, <1>8, <1>9 DEF Next, Handler

LEMMA Invariant == Spec => []IInv
BY InitIInv, NextIInv, PTL DEF Spec

-----------------------------------------------------------------------------
\* The credentials of the API's reviewer are never in a process that runs
\* scripts, or will: "Validate prevents loading reviewer credentials into a
\* process that runs tasks" (config.go).
THEOREM ReviewerAlone == Spec => []CredentialsApart
<1>1. IInv => CredentialsApart
  BY DEF IInv, ProcessInv
<1> QED
  BY <1>1, Invariant, PTL

\* main waits for its worker, and the worker for its scripts, also when the API
\* has failed: a process that ends by itself leaves no task running.
THEOREM WorkerAwaited == Spec => []TasksAwaited
<1>1. IInv => TasksAwaited
  BY DEF IInv, ProcessInv, WorkerFirst, RunByWorker, TasksAwaited
<1> QED
  BY <1>1, Invariant, PTL

\* What the loaded times come from.
LEMMA LoadedAuth ==
  ASSUME NEW e
  PROVE  /\ LoadAuth(e).requestTimeout = Auth(e, "REQUEST_TIMEOUT", RequestTimeout).ms
         /\ LoadAuth(e).cacheTTL = Auth(e, "CACHE_TTL", CacheTTL).ms
BY DEF LoadAuth

\* An API gets no further than its Run's Validate under settings that say
\* something else than what it does.
LEMMA EffectiveSettings == IInv /\ started \in DOMAIN Deployments => SettingsEffective
<1> SUFFICES ASSUME IInv, started \in DOMAIN Deployments PROVE SettingsEffective
  OBVIOUS
<1>0. CASE api \notin {"prepared", "listening"}
  BY <1>0, Zenon DEF SettingsEffective
<1> SUFFICES ASSUME api \in {"prepared", "listening"} PROVE SettingsEffective
  BY <1>0
<1> DEFINE env == deployment.env
<1>1. /\ cfg = Settings(deployment) /\ ValidConfig(cfg) /\ cfg.mode # "worker"
      /\ reviewer = Native
  BY DEF IInv, ProcessInv, ConfigKept, ModeObeyed, ApiPrepared
<1>2. /\ cfg.authMode = Or(env.authMode, "trusted-header") /\ cfg.auth = LoadAuth(env)
      /\ AuthEnvOk(env)
  BY <1>1 DEF ValidConfig, Settings
<1>3. /\ env.authMode \in {"", "trusted-header", "kubernetes"}
      /\ reviewer <=> env.authMode = "kubernetes"
  BY <1>1, <1>2 DEF ValidConfig, Or, Native
<1>4. /\ DOMAIN env.auth # {} => reviewer
      /\ DOMAIN env.auth \subseteq AuthKeys
      /\ \A key \in DOMAIN env.auth \cap Flags : env.auth[key] = "true" \/ env.auth[key] = "false"
  BY <1>2, <1>3 DEF AuthEnvOk, BoolTexts
<1>5. /\ Auth(env, "REQUEST_TIMEOUT", RequestTimeout) = Ms(cfg.auth.requestTimeout)
      /\ Auth(env, "CACHE_TTL", CacheTTL) = Ms(cfg.auth.cacheTTL)
  <2>1. \A key \in DOMAIN env.auth \cap Durations :
          env.auth[key] \in [parses : BOOLEAN, ms : Int] /\ env.auth[key].parses
    BY <1>2, DeploymentsAssumption DEF AuthEnvOk, deployment
  <2>2. \A d \in [parses : BOOLEAN, ms : Int] : d.parses => d = Ms(d.ms)
    BY DEF Ms
  <2>3. RequestTimeout = Ms(RequestTimeout.ms) /\ CacheTTL = Ms(CacheTTL.ms)
    BY DEF Ms, RequestTimeout, CacheTTL
  <2>4. ASSUME NEW key \in Durations, NEW t, t = Ms(t.ms)
        PROVE  Auth(env, key, t) = Ms(Auth(env, key, t).ms)
    BY <2>1, <2>2, <2>4 DEF Auth
  <2>5. /\ cfg.auth.requestTimeout = Auth(env, "REQUEST_TIMEOUT", RequestTimeout).ms
        /\ cfg.auth.cacheTTL = Auth(env, "CACHE_TTL", CacheTTL).ms
    BY <1>2, LoadedAuth
  <2> QED
    BY <2>3, <2>4, <2>5 DEF Durations
<1>6. ASSUME reviewer
      PROVE  /\ cfg.auth.requestTimeout \in 1 .. Minute
             /\ cfg.auth.cacheTTL \in 0 .. Minute
             /\ cfg.auth.includeCluster => (cfg.auth.trustExtra <=> cfg.auth.cluster = <<>>)
  <2>1. ValidAuth(cfg.auth)
    BY <1>1, <1>6 DEF ValidConfig, Native
  <2>2. cfg.auth.includeCluster => (cfg.auth.trustExtra <=> cfg.auth.cluster = <<>>)
    BY <2>1, Zenon DEF ValidAuth
  <2>3. cfg.auth.requestTimeout \in 1 .. Minute /\ cfg.auth.cacheTTL \in 0 .. Minute
    BY <2>1, Zenon DEF ValidAuth
  <2> QED
    BY <2>2, <2>3, Zenon
<1> QED
  BY <1>1, <1>3, <1>4, <1>5, <1>6, Zenon DEF SettingsEffective

\* The deployment is never another one.
LEMMA StartedStep ==
  [Next]_vars => UNCHANGED started
<1> SUFFICES ASSUME [Next]_vars PROVE UNCHANGED started
  OBVIOUS
<1>1. ASSUME NEW k \in DOMAIN tasks, StartTask(k) \/ RunElsewhere(k) \/ FinishTask(k)
      PROVE  UNCHANGED started
  BY <1>1 DEF StartTask, RunElsewhere, FinishTask, processes, loaded
<1>2. CASE ProcessNext \/ HandBack
  BY <1>2 DEF ProcessNext, MainStep, ApiStep, Configure, LoadTasks, Connect, Watch,
     Launch, Exit, Signal, MainHears, PrepareApi, Listen, StopListening, ServeFails, BeginShutdown,
     StartWorker, AttendSignals, WorkerHears, StopWorker, HandBack, WorkerStep, loaded
<1>3. ASSUME UNCHANGED processes PROVE UNCHANGED started
  BY <1>3 DEF processes, loaded
<1> QED
  BY <1>1, <1>2, <1>3 DEF Next, Handler, Arrive, Open, Authenticate, Health, List, Status,
     Submit, Enqueue, CutOff, vars

LEMMA StartedKnown == Spec => [](started \in DOMAIN Deployments)
<1>1. Init => started \in DOMAIN Deployments
  BY DEF Init, ProcessInit
<1>2. started \in DOMAIN Deployments /\ [Next]_vars => (started \in DOMAIN Deployments)'
  BY StartedStep
<1> QED
  BY <1>1, <1>2, PTL DEF Spec

\* "Authentication settings fail on invalid input instead of silently changing
\* policy" (auth.go in config), for every environment and flag.
THEOREM NoSilentPolicy == Spec => []SettingsEffective
BY Invariant, StartedKnown, EffectiveSettings, PTL

-----------------------------------------------------------------------------
\* The requests.

\* An API has been prepared: its configuration is valid and will not change.
Settled ==
  /\ pc \notin Preparing
  /\ cfg = Settings(deployment) /\ ValidConfig(cfg) /\ cfg.mode # "worker"

ReviewOf(r) == deployment.reviews[r.credentials[1]]

\* A request that native authentication lets through.
Vouched(r) == Native => Bears(r) /\ Accepted(cfg.auth, ReviewOf(r))

\* Whom the handlers take for its caller, and on what principal.
PrincipalFor(r) == IF Native THEN PrincipalOf(cfg.auth, ReviewOf(r)) ELSE NoPrincipal
CallerOf(r)     == Caller(Native, r, PrincipalFor(r))

\* A request that has passed without being asked for credentials.
Passed(r) == Native /\ r.kind = "health"

\* The request in flight is what was sent, as far as the handlers look at it.
InFlight ==
  LET r == req.asSent
  IN req # NoRequest =>
       /\ req.at \in {"arrived", "identified", "accepted"}
       /\ r \in Requests
       /\ req.at # "accepted" =>
            req = [at |-> req.at, r |-> req.r, asSent |-> r, principal |-> req.principal]
       /\ r.kind = "submit" => Len(tasks) < MaxTasks
       /\ r.kind = "status" => r.of \in DOMAIN tasks
       /\ req.at = "arrived" => req.r = r /\ req.principal = NoPrincipal
       /\ req.at # "arrived" /\ Passed(r) => req.r = r /\ req.principal = NoPrincipal
       /\ req.at # "arrived" /\ ~Passed(r) =>
            /\ Vouched(r)
            /\ req.r = IF Native THEN Stripped(r) ELSE r
            /\ req.principal = PrincipalFor(r)
       /\ req.at = "accepted" =>
            /\ r.kind = "submit" /\ Resolves(conf, r.task)
            /\ MayRun(conf.tasks[r.task], CallerOf(r), PrincipalFor(r))
            /\ Accepts(conf.tasks[r.task].input, r.payload)
            /\ req.env \in Envs(conf.tasks[r.task].input, r.payload)

\* A task is what its sender asked for, and may ask for.
AskedBy(t, r) ==
  /\ t = [name |-> t.name, queue |-> t.queue, timeout |-> t.timeout,
          maxRetry |-> t.maxRetry, identity |-> t.identity, groups |-> t.groups,
          env |-> t.env, state |-> t.state, script |-> t.script]
  /\ r \in Requests
  /\ Vouched(r)
  /\ t.name = r.task /\ Resolves(conf, r.task)
  /\ MayRun(conf.tasks[r.task], CallerOf(r), PrincipalFor(r))
  /\ Accepts(conf.tasks[r.task].input, r.payload)
  /\ t.env \in Envs(conf.tasks[r.task].input, r.payload)
  /\ t.identity = CallerOf(r).identity /\ t.groups = CallerOf(r).groups
  /\ t.state \in States
  /\ t.script = <<>> \/ t.script = ScriptEnv(t, deployment.environ)

TasksAsked ==
  /\ senders \in Seq(Requests)
  /\ Len(tasks) = Len(senders) /\ Len(tasks) <= MaxTasks
  /\ \A k \in DOMAIN tasks : AskedBy(tasks[k], senders[k])

\* The last answer is logged for its sender, or for no one.
Answered ==
  LET r == answer.asSent
  IN answer # NoAnswer =>
       /\ r \in Requests
       /\ answer.code \in {200, 202, 400, 401, 403, 404, 502, 503, 504}
       /\ answer.caller = NoOne \/ (Vouched(r) /\ answer.caller = CallerOf(r))
       /\ answer.code \in {200, 202} /\ r.kind # "health" =>
            Vouched(r) /\ answer.caller = CallerOf(r)
       /\ answer.code = 200 /\ r.kind = "status" =>
            /\ r.of \in DOMAIN tasks
            /\ answer.shown = [identity |-> tasks[r.of].identity,
                               groups |-> tasks[r.of].groups]

\* Nothing is asked of a process before it is settled.
AskedWhenSettled == (req # NoRequest \/ answer # NoAnswer \/ tasks # <<>>) => Settled

RequestInv == AskedWhenSettled /\ InFlight /\ TasksAsked /\ Answered

\* What is assumed of a request that is sent.
LEMMA RequestShape ==
  ASSUME started \in DOMAIN Deployments, NEW r \in Requests
  PROVE  /\ r.kind \in {"submit", "list", "health", "status"}
         /\ r = [kind |-> r.kind, task |-> r.task, of |-> r.of,
                 credentials |-> r.credentials, userHeader |-> r.userHeader,
                 groupsHeader |-> r.groupsHeader, payload |-> r.payload]
         /\ Bears(r) => r.credentials[1] \in DOMAIN deployment.reviews
BY RequestsAssumption, Zenon DEF Requests, deployment

\* What a settled process keeps.
LEMMA SettledStep ==
  Settled /\ [Next]_vars => Settled' /\ UNCHANGED <<started, cfg, conf>>
<1> SUFFICES ASSUME Settled, [Next]_vars PROVE Settled' /\ UNCHANGED <<started, cfg, conf>>
  OBVIOUS
<1>0. ASSUME UNCHANGED <<started, cfg, conf>>, pc' \notin Preparing PROVE Settled'
  <2>1. Settings(deployment)' = Settings(deployment) /\ cfg' = cfg
    BY <1>0 DEF deployment, Settings
  <2> QED
    BY <1>0, <2>1 DEF Settled
<1>1. ASSUME UNCHANGED processes PROVE Settled' /\ UNCHANGED <<started, cfg, conf>>
  BY <1>0, <1>1 DEF processes, loaded, Settled
<1>2. CASE ProcessNext \/ HandBack
  <2>1. ~ (Configure \/ LoadTasks \/ Connect \/ Watch \/ Launch)
    BY DEF Configure, LoadTasks, Connect, Watch, Launch, Proceed, Advance, Settled, Preparing
  <2>2. UNCHANGED <<started, cfg, conf>> /\ pc' \notin Preparing
    BY <1>2, <2>1 DEF ProcessNext, MainStep, ApiStep, Exit, Proceed, Signal, MainHears,
       PrepareApi, Listen, StopListening, ServeFails, BeginShutdown, StartWorker, AttendSignals,
       WorkerHears, StopWorker, HandBack, WorkerStep, loaded, Settled, Preparing
  <2> QED
    BY <1>0, <2>2
<1>3. ASSUME NEW k \in DOMAIN tasks, StartTask(k) \/ RunElsewhere(k) \/ FinishTask(k)
      PROVE  UNCHANGED processes
  BY <1>3 DEF StartTask, RunElsewhere, FinishTask
<1> QED
  BY <1>1, <1>2, <1>3 DEF Next, Handler, Arrive, Open, Authenticate, Health, List, Status,
     Submit, Enqueue, CutOff, vars

\* A process that listens is settled.
LEMMA ListeningSettled == IInv /\ api = "listening" => Settled
BY DEF IInv, ProcessInv, NothingEarly, ConfigKept, ModeObeyed, ApiPrepared, Settled

\* What the operators on requests and tasks depend on.
LEMMA SameContext ==
  ASSUME UNCHANGED <<started, cfg, conf>>
  PROVE  /\ deployment' = deployment /\ Native' = Native /\ Requests' = Requests
         /\ cfg' = cfg /\ conf' = conf
         /\ \A r : Vouched(r)' <=> Vouched(r)
         /\ \A r : CallerOf(r)' = CallerOf(r)
         /\ \A r : PrincipalFor(r)' = PrincipalFor(r)
         /\ \A r : Passed(r)' <=> Passed(r)
BY DEF deployment, Native, Requests, Vouched, CallerOf, PrincipalFor, ReviewOf, Passed

\* Nothing of what a script is given depends on more of its task than this.
LEMMA SameScript ==
  ASSUME NEW t, NEW u, NEW environ, t.identity = u.identity, t.groups = u.groups, t.env = u.env
  PROVE  ScriptEnv(t, environ) = ScriptEnv(u, environ)
BY DEF ScriptEnv, OwnVars

\* A task remains its sender's while it is run.
LEMMA AskedKept ==
  ASSUME UNCHANGED <<started, cfg, conf>>, NEW k, AskedBy(tasks[k], senders[k]),
         senders'[k] = senders[k],
         tasks'[k] = [tasks[k] EXCEPT !.state = tasks'[k].state, !.script = tasks'[k].script],
         tasks'[k].state \in States,
         \/ tasks'[k].script = <<>>
         \/ tasks'[k].script = ScriptEnv(tasks[k], deployment.environ)
  PROVE  AskedBy(tasks[k], senders[k])'
<1> DEFINE t == tasks[k]
           state == tasks'[k].state
           script == tasks'[k].script
           u == [name |-> t.name, queue |-> t.queue, timeout |-> t.timeout,
                 maxRetry |-> t.maxRetry, identity |-> t.identity, groups |-> t.groups,
                 env |-> t.env, state |-> state, script |-> script]
<1>1. /\ deployment' = deployment /\ Native' = Native /\ Requests' = Requests
      /\ cfg' = cfg /\ conf' = conf
  BY SameContext
<1>2. tasks'[k] = u
  BY DEF AskedBy
<1>3. script = <<>> \/ script = ScriptEnv(u, deployment.environ)
  <2>1. ScriptEnv(t, deployment.environ) = ScriptEnv(u, deployment.environ)
    BY SameScript
  <2> QED
    BY <2>1
<1>4. /\ Vouched(senders[k])' = Vouched(senders[k])
      /\ CallerOf(senders[k])' = CallerOf(senders[k])
      /\ PrincipalFor(senders[k])' = PrincipalFor(senders[k])
  BY <1>1 DEF Vouched, CallerOf, PrincipalFor, ReviewOf
<1> QED
  BY <1>1, <1>2, <1>3, <1>4 DEF AskedBy

LEMMA TasksFrame ==
  ASSUME TasksAsked, UNCHANGED <<started, cfg, conf, tasks, senders>>
  PROVE  TasksAsked'
<1>1. ASSUME NEW k \in DOMAIN tasks PROVE AskedBy(tasks[k], senders[k])'
  <2>1. AskedBy(tasks[k], senders[k])
    BY DEF TasksAsked
  <2>2. tasks'[k] = [tasks[k] EXCEPT !.state = tasks[k].state, !.script = tasks[k].script]
    BY <2>1 DEF AskedBy
  <2> QED
    BY <2>1, <2>2, AskedKept DEF AskedBy
<1>2. Requests' = Requests
  BY SameContext
<1> QED
  BY <1>1, <1>2 DEF TasksAsked

\* Under which name a request in flight is logged.
LEMMA LoggedAs ==
  ASSUME InFlight, req # NoRequest
  PROVE  LET r == req.asSent
             c == Caller(Native, req.r, req.principal)
         IN /\ c = NoOne \/ (Vouched(r) /\ c = CallerOf(r))
            /\ req.at # "arrived" /\ ~Passed(r) => Vouched(r) /\ c = CallerOf(r)
<1> DEFINE r == req.asSent
           c == Caller(Native, req.r, req.principal)
<1>1. CASE req.at = "arrived" \/ Passed(r)
  <2>1. req.r = r /\ req.principal = NoPrincipal
    BY <1>1 DEF InFlight
  <2>2. CASE Native
    BY <1>1, <2>1, <2>2 DEF Caller, NoOne, NoPrincipal
  <2>3. CASE ~Native
    BY <1>1, <2>1, <2>3 DEF CallerOf, PrincipalFor, Vouched, Passed
  <2> QED
    BY <2>2, <2>3
<1>2. CASE req.at # "arrived" /\ ~Passed(r)
  <2>1. /\ Vouched(r) /\ req.r = IF Native THEN Stripped(r) ELSE r
        /\ req.principal = PrincipalFor(r)
    BY <1>2 DEF InFlight
  <2>2. c = CallerOf(r)
    BY <2>1 DEF CallerOf, PrincipalFor, Caller, PrincipalOf
  <2> QED
    BY <2>1, <2>2
<1> QED
  BY <1>1, <1>2

\* An answer to the request in flight.

LEMMA RespondInv ==
  ASSUME InFlight, req # NoRequest, UNCHANGED <<started, cfg, conf>>,
         answer' = [code |-> answer'.code, asSent |-> req.asSent,
                    caller |-> Caller(Native, req.r, req.principal)],
         answer'.code \in {200, 202, 400, 401, 403, 404, 502, 503, 504},
         answer'.code \in {200, 202} /\ req.asSent.kind # "health" => req.at # "arrived",
         answer'.code = 200 => req.asSent.kind # "status"
  PROVE  Answered'
<1> DEFINE r == req.asSent
           c == Caller(Native, req.r, req.principal)
<1>1. answer'.asSent = r /\ answer'.caller = c
  OBVIOUS
<1>2. /\ c = NoOne \/ (Vouched(r) /\ c = CallerOf(r))
      /\ req.at # "arrived" /\ ~Passed(r) => Vouched(r) /\ c = CallerOf(r)
  BY LoggedAs
<1>3. r.kind # "health" => ~Passed(r)
  BY DEF Passed
<1>4. /\ Vouched(answer.asSent)' <=> Vouched(r)
      /\ CallerOf(answer.asSent)' = CallerOf(r)
      /\ r \in Requests /\ Requests' = Requests
  <2>1. /\ deployment' = deployment /\ Native' = Native /\ cfg' = cfg
        /\ r \in Requests /\ Requests' = Requests
    BY SameContext DEF InFlight
  <2> HIDE DEF r
  <2>2. answer'.asSent = r
    BY <1>1
  <2> QED
    BY <2>1, <2>2 DEF Vouched, CallerOf, PrincipalFor, ReviewOf
<1> HIDE DEF r, c
<1> QED
  BY <1>1, <1>2, <1>3, <1>4 DEF Answered, r

\* Steps that keep who is asked for.
LEMMA AnsweredFrame ==
  ASSUME Answered, UNCHANGED <<started, cfg, conf, answer>>,
         \A k \in DOMAIN tasks : /\ k \in DOMAIN tasks'
                                 /\ tasks'[k].identity = tasks[k].identity
                                 /\ tasks'[k].groups = tasks[k].groups
  PROVE  Answered'
<1>1. /\ Vouched(answer.asSent)' <=> Vouched(answer.asSent)
      /\ CallerOf(answer.asSent)' = CallerOf(answer.asSent)
      /\ Requests' = Requests
  <2>1. deployment' = deployment /\ Native' = Native /\ cfg' = cfg /\ Requests' = Requests
    BY SameContext
  <2> QED
    BY <2>1 DEF Vouched, CallerOf, PrincipalFor, ReviewOf
<1> QED
  BY <1>1 DEF Answered

LEMMA InFlightFrame ==
  ASSUME InFlight, UNCHANGED <<started, cfg, conf, req>>,
         DOMAIN tasks \subseteq DOMAIN tasks', Len(tasks') = Len(tasks)
  PROVE  InFlight'
<1> DEFINE r == req.asSent
<1>1. /\ Vouched(r)' <=> Vouched(r)
      /\ CallerOf(r)' = CallerOf(r)
      /\ PrincipalFor(r)' = PrincipalFor(r)
      /\ Passed(r)' <=> Passed(r)
      /\ Native' = Native /\ Requests' = Requests
  <2>1. deployment' = deployment /\ Native' = Native /\ cfg' = cfg /\ Requests' = Requests
    BY SameContext
  <2> QED
    BY <2>1 DEF Vouched, CallerOf, PrincipalFor, ReviewOf, Passed
<1> QED
  BY <1>1 DEF InFlight

\* A request is sent to a process that listens.
LEMMA ArriveInv ==
  ASSUME IInv, started \in DOMAIN Deployments, RequestInv, NEW r \in Requests, Arrive(r)
  PROVE  RequestInv'
<1>1. Settled /\ Settled' /\ UNCHANGED <<started, cfg, conf>>
  <2>1. [Next]_vars
    BY DEF Next
  <2> QED
    BY <2>1, ListeningSettled, SettledStep DEF Arrive
<1>2. TasksAsked'
  BY <1>1, TasksFrame DEF Arrive, RequestInv
<1>3. Answered'
  BY DEF Arrive, Answered
<1>4. InFlight'
  <2>1. Requests' = Requests
    BY <1>1, SameContext
  <2>2. req' = [at |-> "arrived", r |-> r, asSent |-> r, principal |-> NoPrincipal]
    BY DEF Arrive
  <2>3. /\ req'.at = "arrived" /\ req'.asSent = r /\ req'.r = r
        /\ req'.principal = NoPrincipal
    BY <2>2
  <2>4. /\ r.kind = "submit" => Len(tasks') < MaxTasks
        /\ r.kind = "status" => r.of \in DOMAIN tasks'
    BY DEF Arrive
  <2> QED
    BY <2>1, <2>2, <2>3, <2>4 DEF InFlight
<1> QED
  BY <1>1, <1>2, <1>3, <1>4 DEF RequestInv, AskedWhenSettled

\* What handlers read of a request is what was sent.
LEMMA ReadAsSent ==
  ASSUME InFlight, started \in DOMAIN Deployments, req # NoRequest
  PROVE  /\ req.r.kind = req.asSent.kind /\ req.r.task = req.asSent.task
         /\ req.r.of = req.asSent.of /\ req.r.payload = req.asSent.payload
         /\ req.asSent.kind \in {"submit", "list", "health", "status"}
         /\ req.at = "arrived" => req.r.credentials = req.asSent.credentials
<1> DEFINE r == req.asSent
<1>1. r \in Requests
  BY DEF InFlight
<1> HIDE DEF r
<1>2. /\ r.kind \in {"submit", "list", "health", "status"}
      /\ r = [kind |-> r.kind, task |-> r.task, of |-> r.of,
              credentials |-> r.credentials, userHeader |-> r.userHeader,
              groupsHeader |-> r.groupsHeader, payload |-> r.payload]
  BY <1>1, RequestShape
<1>3. req.r = r \/ req.r = Stripped(r)
  BY DEF InFlight, r
<1>4. req.at = "arrived" => req.r = r
  BY DEF InFlight, r
<1>5. /\ Stripped(r).kind = r.kind /\ Stripped(r).task = r.task
      /\ Stripped(r).of = r.of /\ Stripped(r).payload = r.payload
  BY <1>2 DEF Stripped
<1> QED
  BY <1>2, <1>3, <1>4, <1>5 DEF r

\* A request in flight is in a settled process.
LEMMA ServedSettled ==
  ASSUME RequestInv, req # NoRequest, [Next]_vars
  PROVE  Settled' /\ UNCHANGED <<started, cfg, conf>>
BY SettledStep DEF RequestInv, AskedWhenSettled

\* Steps that answer the request in flight.
LEMMA AnswerStep ==
  ASSUME RequestInv, req # NoRequest, [Next]_vars, UNCHANGED <<tasks, senders>>,
         req' = NoRequest, Answered'
  PROVE  RequestInv'
<1>1. Settled' /\ UNCHANGED <<started, cfg, conf>>
  BY ServedSettled
<1>2. TasksAsked'
  BY <1>1, TasksFrame DEF RequestInv
<1>3. InFlight'
  BY DEF InFlight
<1> QED
  BY <1>1, <1>2, <1>3 DEF RequestInv, AskedWhenSettled

\* Steps that take the request in flight further.
LEMMA PassStep ==
  ASSUME RequestInv, req # NoRequest, [Next]_vars, UNCHANGED <<answer, tasks, senders>>,
         InFlight'
  PROVE  RequestInv'
<1>1. Settled' /\ UNCHANGED <<started, cfg, conf>>
  BY ServedSettled
<1>2. TasksAsked'
  BY <1>1, TasksFrame DEF RequestInv
<1>3. Answered'
  BY <1>1, AnsweredFrame DEF RequestInv
<1> QED
  BY <1>1, <1>2, <1>3 DEF RequestInv, AskedWhenSettled

\* What the operators on the request in flight are after a step that keeps it.
LEMMA SentContext ==
  ASSUME UNCHANGED <<started, cfg, conf>>, req'.asSent = req.asSent
  PROVE  /\ Vouched(req.asSent)' <=> Vouched(req.asSent)
         /\ CallerOf(req.asSent)' = CallerOf(req.asSent)
         /\ PrincipalFor(req.asSent)' = PrincipalFor(req.asSent)
         /\ Passed(req.asSent)' <=> Passed(req.asSent)
         /\ Native' = Native /\ Requests' = Requests /\ conf' = conf
<1>1. deployment' = deployment /\ Native' = Native /\ cfg' = cfg /\ Requests' = Requests
  BY SameContext
<1> QED
  BY <1>1 DEF Vouched, CallerOf, PrincipalFor, ReviewOf, Passed

\* What Pass makes of a request that has arrived.
LEMMA PassedOn ==
  ASSUME NEW q, NEW r, NEW p, NEW x, NEW y,
         q = [at |-> "arrived", r |-> r, asSent |-> r, principal |-> p]
  PROVE  [q EXCEPT !.at = "identified", !.r = x, !.principal = y]
           = [at |-> "identified", r |-> x, asSent |-> r, principal |-> y]
<1> DEFINE w == [q EXCEPT !.at = "identified", !.r = x, !.principal = y]
           v == [at |-> "identified", r |-> x, asSent |-> r, principal |-> y]
           F == {"at", "r", "asSent", "principal"}
<1>1. DOMAIN q = F /\ q.asSent = r
  OBVIOUS
<1>2. /\ DOMAIN w = F
      /\ w.at = "identified" /\ w.r = x /\ w.asSent = r /\ w.principal = y
  BY <1>1
<1>3. w = [f \in F |-> w[f]]
  BY <1>1
<1>4. v = [f \in F |-> v[f]]
  OBVIOUS
<1>5. v.at = "identified" /\ v.r = x /\ v.asSent = r /\ v.principal = y
  OBVIOUS
<1> HIDE DEF w, v
<1>6. w = v
  BY <1>2, <1>3, <1>4, <1>5
<1> QED
  BY <1>6 DEF w, v

LEMMA OpenInv ==
  ASSUME IInv, started \in DOMAIN Deployments, RequestInv, Open
  PROVE  RequestInv'
<1> DEFINE r == req.asSent
<1>1. [Next]_vars /\ req # NoRequest /\ InFlight
  BY DEF Next, Open, Serving, NoRequest, RequestInv
<1>2. UNCHANGED <<started, cfg, conf, answer, tasks, senders>>
  BY <1>1, ServedSettled DEF Open
<1>3. /\ req.at = "arrived" /\ req.r = r /\ req.principal = NoPrincipal
      /\ r \in Requests
      /\ req = [at |-> "arrived", r |-> r, asSent |-> r, principal |-> NoPrincipal]
      /\ r.kind = "submit" => Len(tasks) < MaxTasks
      /\ r.kind = "status" => r.of \in DOMAIN tasks
  BY <1>1 DEF Open, InFlight
<1>4. req' = [at |-> "identified", r |-> r, asSent |-> r, principal |-> NoPrincipal]
  <2>1. req' = [req EXCEPT !.at = "identified", !.r = r, !.principal = NoPrincipal]
    BY <1>3 DEF Open, Pass
  <2>2. req = [at |-> "arrived", r |-> r, asSent |-> r, principal |-> NoPrincipal]
    BY <1>3
  <2> HIDE DEF r
  <2> QED
    BY <2>1, <2>2, PassedOn
<1>5. req'.asSent = r
  BY <1>4
<1>6. Passed(r) \/ (Vouched(r) /\ NoPrincipal = PrincipalFor(r) /\ ~Native)
  BY <1>3 DEF Open, Passed, Vouched, PrincipalFor
<1>7. /\ Vouched(req.asSent)' <=> Vouched(r)
      /\ CallerOf(req.asSent)' = CallerOf(r)
      /\ PrincipalFor(req.asSent)' = PrincipalFor(r)
      /\ Passed(req.asSent)' <=> Passed(r)
      /\ Native' = Native /\ Requests' = Requests
  BY <1>2, <1>5, SentContext
<1>8. InFlight'
  <2> HIDE DEF r
  <2> QED
    BY <1>2, <1>3, <1>4, <1>6, <1>7 DEF InFlight
<1> QED
  BY <1>1, <1>2, <1>8, PassStep

LEMMA AuthenticateInv ==
  ASSUME IInv, started \in DOMAIN Deployments, RequestInv, Authenticate
  PROVE  RequestInv'
<1> DEFINE r == req.asSent
<1>1. [Next]_vars /\ req # NoRequest /\ InFlight
  BY DEF Next, Authenticate, Serving, NoRequest, RequestInv
<1>2. UNCHANGED <<started, cfg, conf, tasks, senders>>
  BY <1>1, ServedSettled DEF Authenticate
<1>3. /\ req.at = "arrived" /\ req.r = r /\ req.principal = NoPrincipal
      /\ r \in Requests /\ Native /\ r.kind # "health"
      /\ req = [at |-> "arrived", r |-> r, asSent |-> r, principal |-> NoPrincipal]
      /\ r.kind = "submit" => Len(tasks) < MaxTasks
      /\ r.kind = "status" => r.of \in DOMAIN tasks
  BY <1>1 DEF Authenticate, InFlight
<1>4. CASE \E status \in {401, 503} : Respond(status)
  <2>1. /\ req' = NoRequest /\ answer'.code \in {401, 503}
        /\ answer' = [code |-> answer'.code, asSent |-> req.asSent,
                      caller |-> Caller(Native, req.r, req.principal)]
    BY <1>4 DEF Respond
  <2>2. Answered'
    BY <1>1, <1>2, <2>1, RespondInv
  <2> QED
    BY <1>1, <1>2, <2>1, <2>2, AnswerStep
<1>5. CASE ~ \E status \in {401, 503} : Respond(status)
  <2>1. /\ Bears(r) /\ Accepted(cfg.auth, ReviewOf(r)) /\ UNCHANGED answer
        /\ req' = [req EXCEPT !.at = "identified", !.r = Stripped(r),
                              !.principal = PrincipalOf(cfg.auth, ReviewOf(r))]
    BY <1>3, <1>5 DEF Authenticate, Pass, ReviewOf
  <2>2. Vouched(r) /\ PrincipalOf(cfg.auth, ReviewOf(r)) = PrincipalFor(r) /\ ~Passed(r)
    BY <1>3, <2>1 DEF Vouched, PrincipalFor, Passed
  <2>3. req' = [at |-> "identified", r |-> Stripped(r), asSent |-> r,
                principal |-> PrincipalFor(r)]
    <3>1. req' = [req EXCEPT !.at = "identified", !.r = Stripped(r),
                             !.principal = PrincipalFor(r)]
      BY <2>1, <2>2
    <3>2. req = [at |-> "arrived", r |-> r, asSent |-> r, principal |-> NoPrincipal]
      BY <1>3
    <3> HIDE DEF r
    <3> QED
      BY <3>1, <3>2, PassedOn
  <2>4. req'.asSent = r
    BY <2>3
  <2>5. /\ Vouched(req.asSent)' <=> Vouched(r)
        /\ CallerOf(req.asSent)' = CallerOf(r)
        /\ PrincipalFor(req.asSent)' = PrincipalFor(r)
        /\ Passed(req.asSent)' <=> Passed(r)
        /\ Native' = Native /\ Requests' = Requests
    BY <1>2, <2>4, SentContext
  <2>6. InFlight'
    <3> HIDE DEF r
    <3> QED
      BY <1>2, <1>3, <2>2, <2>3, <2>5 DEF InFlight
  <2> QED
    BY <1>1, <1>2, <2>1, <2>6, PassStep
<1> QED
  BY <1>4, <1>5

\* The handlers' answers.
LEMMA HandledAnswer ==
  ASSUME RequestInv, Next, req # NoRequest, req.at # "arrived",
         UNCHANGED <<tasks, senders>>, req' = NoRequest,
         NEW status \in {200, 202, 400, 401, 403, 404, 502, 503, 504},
         status = 200 => req.asSent.kind # "status",
         answer' = [code |-> status, asSent |-> req.asSent,
                    caller |-> Caller(Native, req.r, req.principal)]
  PROVE  RequestInv'
<1>1. UNCHANGED <<started, cfg, conf>> /\ [Next]_vars /\ InFlight
  BY ServedSettled DEF RequestInv
<1>2. answer'.code = status
  OBVIOUS
<1>3. Answered'
  BY <1>1, <1>2, RespondInv
<1> QED
  BY <1>1, <1>3, AnswerStep

LEMMA HealthListInv ==
  ASSUME IInv, started \in DOMAIN Deployments, RequestInv, Health \/ List
  PROVE  RequestInv'
<1>1. /\ Next /\ [Next]_vars /\ req # NoRequest /\ InFlight /\ req.at = "identified"
      /\ UNCHANGED <<tasks, senders>>
  BY DEF Next, Handler, Health, List, Handling, Serving, NoRequest, RequestInv
<1>2. req.asSent.kind \in {"health", "list"}
  BY <1>1, ReadAsSent DEF Health, List, Handling
<1>3. CASE Respond(200)
  BY <1>1, <1>2, <1>3, HandledAnswer DEF Respond
<1>4. CASE req' = NoRequest /\ UNCHANGED answer
  <2>1. UNCHANGED <<started, cfg, conf>>
    BY <1>1, ServedSettled
  <2>2. Answered'
    BY <1>1, <1>4, <2>1, AnsweredFrame DEF RequestInv
  <2> QED
    BY <1>1, <1>4, <2>2, AnswerStep
<1> QED
  BY <1>3, <1>4 DEF Health, List

\* A status shows the task's sender, to a sender that is known.
LEMMA StatusInv ==
  ASSUME IInv, started \in DOMAIN Deployments, RequestInv, Status
  PROVE  RequestInv'
<1> DEFINE r == req.asSent
           k == r.of
<1>1. /\ Next /\ [Next]_vars /\ req # NoRequest /\ InFlight /\ req.at = "identified"
      /\ req.r.kind = "status" /\ UNCHANGED <<tasks, senders>>
  BY DEF Next, Handler, Status, Handling, Serving, NoRequest, RequestInv
<1>2. r.kind = "status" /\ req.r.of = k /\ k \in DOMAIN tasks
  BY <1>1, ReadAsSent DEF InFlight
<1>3. UNCHANGED <<started, cfg, conf>>
  BY <1>1, ServedSettled
<1>4. CASE Respond(404)
  BY <1>1, <1>2, <1>4, HandledAnswer DEF Respond
<1>5. CASE /\ req' = NoRequest
           /\ answer' = [code |-> 200, asSent |-> r, caller |-> caller,
                         shown |-> [identity |-> tasks[k].identity,
                                    groups |-> tasks[k].groups]]
  <2>1. /\ Vouched(r) /\ caller = CallerOf(r)
    BY <1>1, <1>2, LoggedAs DEF Passed, caller
  <2>2. /\ answer'.asSent = r /\ answer'.caller = CallerOf(r) /\ answer'.code = 200
        /\ answer'.shown = [identity |-> tasks'[k].identity, groups |-> tasks'[k].groups]
    BY <1>1, <1>5, <2>1
  <2>3. /\ Vouched(answer.asSent)' <=> Vouched(r)
        /\ CallerOf(answer.asSent)' = CallerOf(r)
        /\ r \in Requests /\ Requests' = Requests
    <3>1. /\ deployment' = deployment /\ Native' = Native /\ cfg' = cfg
          /\ r \in Requests /\ Requests' = Requests
      BY <1>1, <1>3, SameContext DEF InFlight
    <3> HIDE DEF r
    <3> QED
      BY <2>2, <3>1 DEF Vouched, CallerOf, PrincipalFor, ReviewOf
  <2>4. Answered'
    <3> HIDE DEF r
    <3> QED
      BY <1>1, <1>2, <2>1, <2>2, <2>3 DEF Answered
  <2> QED
    BY <1>1, <1>5, <2>4, AnswerStep
<1> QED
  BY <1>2, <1>4, <1>5 DEF Status

\* A submission is refused, or accepted as what its sender may ask for.
LEMMA SubmitInv ==
  ASSUME IInv, started \in DOMAIN Deployments, RequestInv, Submit
  PROVE  RequestInv'
<1> DEFINE r == req.asSent
<1>1. /\ Next /\ [Next]_vars /\ req # NoRequest /\ InFlight /\ req.at = "identified"
      /\ req.r.kind = "submit" /\ UNCHANGED <<tasks, senders>>
  BY DEF Next, Handler, Submit, Handling, Serving, NoRequest, RequestInv
<1>2. /\ r.kind = "submit" /\ req.r.task = r.task /\ req.r.payload = r.payload
      /\ ~Passed(r)
  BY <1>1, ReadAsSent DEF Passed
<1>3. UNCHANGED <<started, cfg, conf>>
  BY <1>1, ServedSettled
<1>4. CASE \E status \in {400, 401, 403, 404, 502, 504} : Respond(status)
  BY <1>1, <1>2, <1>4, HandledAnswer DEF Respond
<1>5. CASE ~ \E status \in {400, 401, 403, 404, 502, 504} : Respond(status)
  <2>1. PICK env \in Envs(Def.input, req.r.payload) :
          Permitted /\ Accepts(Def.input, req.r.payload) /\ Accept(env)
    BY <1>5 DEF Submit
  <2>2. /\ Vouched(r) /\ caller = CallerOf(r) /\ req.principal = PrincipalFor(r)
    BY <1>1, <1>2, LoggedAs DEF caller, InFlight
  <2>3. /\ Def = conf.tasks[r.task] /\ Resolves(conf, r.task)
        /\ MayRun(conf.tasks[r.task], CallerOf(r), PrincipalFor(r))
        /\ Accepts(conf.tasks[r.task].input, r.payload)
        /\ env \in Envs(conf.tasks[r.task].input, r.payload)
    BY <1>2, <2>1, <2>2 DEF Def, Permitted
  <2>4. /\ req'.at = "accepted" /\ req'.asSent = r /\ req'.r = req.r
        /\ req'.principal = req.principal /\ req'.env = env /\ UNCHANGED answer
    BY <2>1 DEF Accept
  <2>5. /\ Vouched(req.asSent)' <=> Vouched(r)
        /\ CallerOf(req.asSent)' = CallerOf(r)
        /\ PrincipalFor(req.asSent)' = PrincipalFor(r)
        /\ Passed(req.asSent)' <=> Passed(r)
        /\ Native' = Native /\ Requests' = Requests /\ conf' = conf
    BY <1>3, <2>4, SentContext
  <2>6. /\ r \in Requests /\ Len(tasks) < MaxTasks
        /\ req.r = IF Native THEN Stripped(r) ELSE r
    BY <1>1, <1>2 DEF InFlight
  <2>7. InFlight'
    <3> HIDE DEF r
    <3> QED
      BY <1>1, <1>2, <2>2, <2>3, <2>4, <2>5, <2>6 DEF InFlight
  <2> QED
    BY <1>1, <2>4, <2>7, PassStep
<1> QED
  BY <1>4, <1>5

LEMMA Appended ==
  ASSUME NEW S, NEW s \in Seq(S), NEW x \in S
  PROVE  /\ Append(s, x) \in Seq(S) /\ Len(s) \in Nat /\ Len(Append(s, x)) = Len(s) + 1
         /\ DOMAIN s = 1 .. Len(s) /\ DOMAIN Append(s, x) = 1 .. Len(s) + 1
         /\ \A k \in 1 .. Len(s) : Append(s, x)[k] = s[k]
         /\ Append(s, x)[Len(s) + 1] = x
<1>1. /\ Append(s, x) \in Seq(S) /\ Len(s) \in Nat /\ Len(Append(s, x)) = Len(s) + 1
      /\ DOMAIN s = 1 .. Len(s)
      /\ \A k \in 1 .. Len(s) : Append(s, x)[k] = s[k]
      /\ Append(s, x)[Len(s) + 1] = x
  BY AppendProperties, LenProperties
<1>2. DOMAIN Append(s, x) = 1 .. Len(Append(s, x))
  BY <1>1, LenProperties
<1> QED
  BY <1>1, <1>2

\* A task that is queued is what the request in flight asks for.
LEMMA QueuedAsked ==
  ASSUME IInv, started \in DOMAIN Deployments, RequestInv, req # NoRequest,
         req.at = "accepted", UNCHANGED <<started, cfg, conf>>,
         tasks' = Append(tasks, NewTask), senders' = Append(senders, req.asSent)
  PROVE  TasksAsked'
<1> DEFINE r == req.asSent
           n == Len(tasks)
<1>1. /\ InFlight /\ TasksAsked /\ TasksTyped
  BY DEF RequestInv, IInv
<1>2. /\ r.kind = "submit" /\ Resolves(conf, r.task) /\ r \in Requests /\ n < MaxTasks
      /\ MayRun(conf.tasks[r.task], CallerOf(r), PrincipalFor(r))
      /\ Accepts(conf.tasks[r.task].input, r.payload)
      /\ req.env \in Envs(conf.tasks[r.task].input, r.payload)
      /\ Vouched(r) /\ req.r = (IF Native THEN Stripped(r) ELSE r)
  BY <1>1 DEF InFlight, Passed
<1>3. req.r.task = r.task /\ caller = CallerOf(r)
  <2>1. caller = CallerOf(r)
    BY <1>1, <1>2, LoggedAs DEF caller, Passed
  <2>2. req.r.task = r.task
    BY <1>1, ReadAsSent
  <2> QED
    BY <2>1, <2>2
<1>4. /\ n \in Nat /\ Len(tasks') = n + 1 /\ DOMAIN tasks = 1 .. n /\ DOMAIN tasks' = 1 .. n + 1
      /\ \A k \in 1 .. n : tasks'[k] = tasks[k]
      /\ tasks'[n + 1] = NewTask
  <2> DEFINE S == {tasks[k] : k \in DOMAIN tasks} \cup {NewTask}
  <2>1. tasks \in Seq(S) /\ NewTask \in S
    BY <1>1 DEF TasksTyped
  <2> HIDE DEF S, NewTask
  <2> QED
    BY <2>1, Appended
<1>5. /\ Len(senders) = n /\ senders' \in Seq(Requests) /\ Len(senders') = n + 1
      /\ \A k \in 1 .. n : senders'[k] = senders[k]
      /\ senders'[n + 1] = r
  <2>1. senders \in Seq(Requests) /\ Len(senders) = n /\ r \in Requests
    BY <1>1, <1>2 DEF TasksAsked
  <2> HIDE DEF r, n
  <2> QED
    BY <2>1, Appended DEF r
<1>6. ASSUME NEW k \in 1 .. n PROVE AskedBy(tasks[k], senders[k])'
  <2>1. AskedBy(tasks[k], senders[k])
    BY <1>1, <1>4 DEF TasksAsked
  <2>2. tasks'[k] = tasks[k] /\ senders'[k] = senders[k]
    BY <1>4, <1>5
  <2>3. tasks'[k] = [tasks[k] EXCEPT !.state = tasks'[k].state, !.script = tasks'[k].script]
    BY <2>1, <2>2 DEF AskedBy
  <2>4. /\ tasks'[k].state \in States
        /\ \/ tasks'[k].script = <<>>
           \/ tasks'[k].script = ScriptEnv(tasks[k], deployment.environ)
    BY <2>1, <2>2 DEF AskedBy
  <2> QED
    BY <2>1, <2>2, <2>3, <2>4, AskedKept
<1>7. ASSUME NEW k, k = n + 1 PROVE AskedBy(tasks[k], senders[k])'
  <2>1. tasks'[k] = NewTask /\ senders'[k] = r
    BY <1>4, <1>5, <1>7
  <2>2. /\ deployment' = deployment /\ Native' = Native /\ Requests' = Requests
        /\ cfg' = cfg /\ conf' = conf
    BY SameContext
  <2>3. NewTask = [name |-> r.task, queue |-> NewTask.queue, timeout |-> NewTask.timeout,
                   maxRetry |-> NewTask.maxRetry, identity |-> CallerOf(r).identity,
                   groups |-> CallerOf(r).groups, env |-> req.env, state |-> "queued",
                   script |-> <<>>]
    BY <1>3 DEF NewTask
  <2> HIDE DEF r, NewTask
  <2>4. /\ Vouched(senders[k])' <=> Vouched(r)
        /\ CallerOf(senders[k])' = CallerOf(r)
        /\ PrincipalFor(senders[k])' = PrincipalFor(r)
    BY <2>1, <2>2 DEF Vouched, CallerOf, PrincipalFor, ReviewOf
  <2> QED
    BY <1>2, <2>1, <2>2, <2>3, <2>4 DEF AskedBy, States
<1>8. ASSUME NEW k \in DOMAIN tasks' PROVE AskedBy(tasks[k], senders[k])'
  <2>1. k \in 1 .. n \/ k = n + 1
    <3> HIDE DEF n
    <3> QED
      BY <1>4, <1>8
  <2>2. CASE k \in 1 .. n
    BY <1>6, <2>2, Zenon
  <2>3. CASE k = n + 1
    BY <1>7, <2>3, Zenon
  <2> QED
    BY <2>1, <2>2, <2>3
<1>9. Requests' = Requests
  BY SameContext
<1>10. n + 1 <= MaxTasks
  BY <1>2, <1>4, TasksAssumption
<1> HIDE DEF n
<1> QED
  BY <1>4, <1>5, <1>8, <1>9, <1>10 DEF TasksAsked

LEMMA EnqueueRequestInv ==
  ASSUME IInv, started \in DOMAIN Deployments, RequestInv, Enqueue
  PROVE  RequestInv'
<1> DEFINE r == req.asSent
<1>1. /\ Next /\ [Next]_vars /\ req # NoRequest /\ InFlight /\ req.at = "accepted"
  BY DEF Next, Handler, Enqueue, Serving, NoRequest, RequestInv
<1>2. r.kind = "submit"
  BY <1>1 DEF InFlight
<1>3. UNCHANGED <<started, cfg, conf>> /\ Settled'
  BY <1>1, ServedSettled
<1>4. /\ req' = NoRequest /\ answer'.code \in {202, 503}
      /\ answer' = [code |-> answer'.code, asSent |-> req.asSent,
                    caller |-> Caller(Native, req.r, req.principal)]
  BY DEF Enqueue, Respond
<1>5. Answered'
  BY <1>1, <1>2, <1>3, <1>4, RespondInv
<1>6. InFlight'
  BY <1>4 DEF InFlight
<1>7. TasksAsked'
  <2>1. CASE UNCHANGED <<tasks, senders>>
    BY <1>3, <2>1, TasksFrame DEF RequestInv
  <2>2. CASE tasks' = Append(tasks, NewTask) /\ senders' = Append(senders, req.asSent)
    BY <1>1, <1>3, <2>2, QueuedAsked
  <2> QED
    BY <2>1, <2>2 DEF Enqueue
<1> QED
  BY <1>3, <1>5, <1>6, <1>7 DEF RequestInv, AskedWhenSettled

\* A request that is cut off is not answered.
LEMMA CutOffInv ==
  ASSUME IInv, started \in DOMAIN Deployments, RequestInv, CutOff
  PROVE  RequestInv'
<1>1. /\ [Next]_vars /\ req # NoRequest /\ req' = NoRequest
      /\ UNCHANGED <<answer, tasks, senders>>
  BY DEF Next, CutOff
<1>2. UNCHANGED <<started, cfg, conf>>
  BY <1>1, ServedSettled
<1>3. Answered'
  BY <1>1, <1>2, AnsweredFrame DEF RequestInv
<1> QED
  BY <1>1, <1>3, AnswerStep

\* Running a task changes nothing of what was asked.
LEMMA RunningKeeps ==
  ASSUME RequestInv, [Next]_vars, tasks # <<>>, UNCHANGED <<req, answer, senders>>,
         DOMAIN tasks' = DOMAIN tasks, Len(tasks') = Len(tasks),
         \A k \in DOMAIN tasks :
           /\ tasks'[k] = [tasks[k] EXCEPT !.state = tasks'[k].state,
                                           !.script = tasks'[k].script]
           /\ tasks'[k].state \in States
           /\ \/ tasks'[k].script = tasks[k].script
              \/ tasks'[k].script = ScriptEnv(tasks[k], deployment.environ)
  PROVE  RequestInv'
<1>1. Settled' /\ UNCHANGED <<started, cfg, conf>>
  BY SettledStep DEF RequestInv, AskedWhenSettled
<1>2. TasksAsked'
  <2>1. ASSUME NEW k \in DOMAIN tasks PROVE AskedBy(tasks[k], senders[k])'
    <3>1. AskedBy(tasks[k], senders[k])
      BY DEF RequestInv, TasksAsked
    <3>2. \/ tasks'[k].script = <<>>
          \/ tasks'[k].script = ScriptEnv(tasks[k], deployment.environ)
      BY <3>1 DEF AskedBy
    <3>3. /\ senders'[k] = senders[k] /\ tasks'[k].state \in States
          /\ tasks'[k] = [tasks[k] EXCEPT !.state = tasks'[k].state,
                                          !.script = tasks'[k].script]
      OBVIOUS
    <3> QED
      BY <1>1, <3>1, <3>2, <3>3, AskedKept
  <2>2. Requests' = Requests
    BY <1>1, SameContext
  <2> QED
    BY <2>1, <2>2 DEF RequestInv, TasksAsked
<1>3. ASSUME NEW k \in DOMAIN tasks
      PROVE  tasks'[k].identity = tasks[k].identity /\ tasks'[k].groups = tasks[k].groups
  <2>1. AskedBy(tasks[k], senders[k])
    BY DEF RequestInv, TasksAsked
  <2>2. tasks'[k] = [tasks[k] EXCEPT !.state = tasks'[k].state, !.script = tasks'[k].script]
    OBVIOUS
  <2> QED
    BY <2>1, <2>2 DEF AskedBy
<1>4. Answered'
  BY <1>1, <1>3, AnsweredFrame DEF RequestInv
<1>5. InFlight'
  BY <1>1, InFlightFrame DEF RequestInv
<1> QED
  BY <1>1, <1>2, <1>4, <1>5 DEF RequestInv, AskedWhenSettled

\* What becomes of the one task that is run.
LEMMA OneTaskRun ==
  ASSUME RequestInv, NEW k \in DOMAIN tasks, NEW state \in States,
         \/ tasks' = [tasks EXCEPT ![k] = Started(@, state)]
         \/ tasks' = [tasks EXCEPT ![k].state = state]
  PROVE  /\ DOMAIN tasks' = DOMAIN tasks /\ tasks' = [j \in DOMAIN tasks |-> tasks'[j]]
         /\ \A j \in DOMAIN tasks :
              /\ tasks'[j] = [tasks[j] EXCEPT !.state = tasks'[j].state,
                                              !.script = tasks'[j].script]
              /\ tasks'[j].state \in States
              /\ \/ tasks'[j].script = tasks[j].script
                 \/ tasks'[j].script = ScriptEnv(tasks[j], deployment.environ)
<1>1. \A j \in DOMAIN tasks : AskedBy(tasks[j], senders[j])
  BY DEF RequestInv, TasksAsked
<1>2. /\ DOMAIN tasks' = DOMAIN tasks /\ tasks' = [j \in DOMAIN tasks |-> tasks'[j]]
      /\ \A j \in DOMAIN tasks : j # k => tasks'[j] = tasks[j]
      /\ tasks'[k] = Started(tasks[k], state) \/ tasks'[k] = [tasks[k] EXCEPT !.state = state]
  OBVIOUS
<1>3. ASSUME NEW j \in DOMAIN tasks, j # k
      PROVE  /\ tasks'[j] = [tasks[j] EXCEPT !.state = tasks'[j].state,
                                             !.script = tasks'[j].script]
             /\ tasks'[j].state \in States
             /\ tasks'[j].script = tasks[j].script
  BY <1>1, <1>2, <1>3 DEF AskedBy
<1>4. /\ tasks'[k] = [tasks[k] EXCEPT !.state = tasks'[k].state,
                                      !.script = tasks'[k].script]
      /\ tasks'[k].state \in States
      /\ \/ tasks'[k].script = tasks[k].script
         \/ tasks'[k].script = ScriptEnv(tasks[k], deployment.environ)
  <2>1. tasks[k] = [name |-> tasks[k].name, queue |-> tasks[k].queue,
                    timeout |-> tasks[k].timeout, maxRetry |-> tasks[k].maxRetry,
                    identity |-> tasks[k].identity, groups |-> tasks[k].groups,
                    env |-> tasks[k].env, state |-> tasks[k].state,
                    script |-> tasks[k].script]
    BY <1>1 DEF AskedBy
  <2>2. CASE tasks'[k] = Started(tasks[k], state)
    <3> DEFINE env == ScriptEnv(tasks[k], deployment.environ)
    <3>1. tasks'[k] = [tasks[k] EXCEPT !.state = state, !.script = env]
      BY <2>2 DEF Started
    <3> HIDE DEF env
    <3>2. tasks'[k].state = state /\ tasks'[k].script = env
      BY <2>1, <3>1
    <3> QED
      BY <3>1, <3>2 DEF env
  <2>3. CASE tasks'[k] = [tasks[k] EXCEPT !.state = state]
    <3>1. tasks'[k].state = state /\ tasks'[k].script = tasks[k].script
      BY <2>1, <2>3
    <3> QED
      BY <2>1, <2>3, <3>1
  <2> QED
    BY <1>2, <2>2, <2>3
<1> QED
  BY <1>2, <1>3, <1>4

LEMMA LengthKept ==
  ASSUME TasksTyped, DOMAIN tasks' = DOMAIN tasks, tasks' = [j \in DOMAIN tasks |-> tasks'[j]],
         NEW k \in DOMAIN tasks
  PROVE  Len(tasks') = Len(tasks) /\ tasks # <<>>
<1>1. DOMAIN tasks = 1 .. Len(tasks) /\ Len(tasks) \in Nat
  BY LenProperties DEF TasksTyped
<1>2. Len(tasks') = Len(tasks)
  BY <1>1, OwnElements
<1> QED
  BY <1>1, <1>2

LEMMA RunInv ==
  ASSUME IInv, RequestInv, NEW k \in DOMAIN tasks,
         StartTask(k) \/ RunElsewhere(k) \/ FinishTask(k)
  PROVE  RequestInv'
<1>1. [Next]_vars /\ UNCHANGED <<req, answer, senders>>
  BY DEF Next, StartTask, RunElsewhere, FinishTask
<1>2. PICK state \in States : \/ tasks' = [tasks EXCEPT ![k] = Started(@, state)]
                              \/ tasks' = [tasks EXCEPT ![k].state = state]
  BY DEF StartTask, RunElsewhere, FinishTask, States
<1>3. /\ DOMAIN tasks' = DOMAIN tasks /\ tasks' = [j \in DOMAIN tasks |-> tasks'[j]]
      /\ \A j \in DOMAIN tasks :
           /\ tasks'[j] = [tasks[j] EXCEPT !.state = tasks'[j].state,
                                           !.script = tasks'[j].script]
           /\ tasks'[j].state \in States
           /\ \/ tasks'[j].script = tasks[j].script
              \/ tasks'[j].script = ScriptEnv(tasks[j], deployment.environ)
  BY <1>2, OneTaskRun
<1>4. Len(tasks') = Len(tasks) /\ tasks # <<>>
  BY <1>3, LengthKept DEF IInv
<1> QED
  BY <1>1, <1>3, <1>4, RunningKeeps

\* A step of the process, of which requests and tasks know nothing.
LEMMA ApartInv ==
  ASSUME RequestInv, [Next]_vars, UNCHANGED <<req, answer, tasks, senders>>
  PROVE  RequestInv'
<1>1. CASE Settled
  <2>1. Settled' /\ UNCHANGED <<started, cfg, conf>>
    BY <1>1, SettledStep
  <2>2. TasksAsked' /\ Answered' /\ InFlight'
    BY <2>1, TasksFrame, AnsweredFrame, InFlightFrame DEF RequestInv
  <2> QED
    BY <2>1, <2>2 DEF RequestInv, AskedWhenSettled
<1>2. CASE ~Settled
  <2>1. req = NoRequest /\ answer = NoAnswer /\ tasks = <<>>
    BY <1>2 DEF RequestInv, AskedWhenSettled
  <2>2. Requests' = Requests
    BY StartedStep DEF Requests, deployment
  <2>3. TasksAsked'
    BY <2>1, <2>2 DEF RequestInv, TasksAsked
  <2> QED
    BY <2>1, <2>3 DEF RequestInv, AskedWhenSettled, Answered, InFlight
<1> QED
  BY <1>1, <1>2

\* A task that is handed back is queued again, with its sender.
LEMMA HandedBack ==
  ASSUME IInv, RequestInv, HandBack
  PROVE  RequestInv'
<1>1. [Next]_vars /\ UNCHANGED <<req, answer, senders>>
  BY DEF Next, HandBack
<1>2. \A j \in DOMAIN tasks : AskedBy(tasks[j], senders[j])
  BY DEF RequestInv, TasksAsked
<1>3. /\ DOMAIN tasks' = DOMAIN tasks /\ tasks' = [j \in DOMAIN tasks |-> tasks'[j]]
      /\ \A j \in DOMAIN tasks :
           \/ tasks'[j] = [tasks[j] EXCEPT !.state = "queued"]
           \/ tasks'[j] = tasks[j]
  BY DEF HandBack
<1>4. ASSUME NEW j \in DOMAIN tasks
      PROVE  /\ tasks'[j] = [tasks[j] EXCEPT !.state = tasks'[j].state,
                                             !.script = tasks'[j].script]
             /\ tasks'[j].state \in States
             /\ tasks'[j].script = tasks[j].script
  BY <1>2, <1>3 DEF AskedBy, States
<1>5. CASE tasks # <<>>
  <2>1. \E j \in DOMAIN tasks : TRUE
    <3>1. DOMAIN tasks = 1 .. Len(tasks) /\ Len(tasks) \in Nat
      BY LenProperties DEF IInv, TasksTyped
    <3> QED
      BY <1>5, <3>1, EmptySeq DEF IInv, TasksTyped
  <2>2. Len(tasks') = Len(tasks)
    BY <1>3, <2>1, LengthKept DEF IInv
  <2> QED
    BY <1>1, <1>3, <1>4, <1>5, <2>2, RunningKeeps
<1>6. CASE tasks = <<>>
  <2>1. tasks' = tasks
    BY <1>3, <1>6
  <2> QED
    BY <1>1, <2>1, ApartInv
<1> QED
  BY <1>5, <1>6

LEMMA InitRequestInv == Init => RequestInv
<1> SUFFICES ASSUME Init PROVE RequestInv
  OBVIOUS
<1>1. req = NoRequest /\ answer = NoAnswer /\ tasks = <<>> /\ senders = <<>>
  BY DEF Init
<1>2. /\ DOMAIN <<>> = {} /\ Len(<<>>) = 0 /\ <<>> \in Seq(Requests)
      /\ 0 <= MaxTasks
  BY TasksAssumption
<1>3. TasksAsked
  BY <1>1, <1>2 DEF TasksAsked
<1> QED
  BY <1>1, <1>3 DEF RequestInv, AskedWhenSettled, InFlight, Answered

LEMMA NextRequestInv ==
  IInv /\ started \in DOMAIN Deployments /\ RequestInv /\ [Next]_vars => RequestInv'
<1> SUFFICES ASSUME IInv, started \in DOMAIN Deployments, RequestInv, [Next]_vars
             PROVE  RequestInv'
  OBVIOUS
<1>1. CASE ProcessNext /\ UNCHANGED requests
  BY <1>1, ApartInv DEF requests
<1>2. CASE UNCHANGED vars
  BY <1>2, ApartInv DEF vars, requests
<1>3. ASSUME NEW r \in Requests, Arrive(r) PROVE RequestInv'
  BY <1>3, ArriveInv
<1>4. CASE Open \/ Authenticate
  BY <1>4, OpenInv, AuthenticateInv
<1>5. CASE Handler
  BY <1>5, HealthListInv, StatusInv, SubmitInv, EnqueueRequestInv DEF Handler
<1>6. CASE CutOff
  BY <1>6, CutOffInv
<1>7. ASSUME NEW k \in DOMAIN tasks, StartTask(k) \/ RunElsewhere(k) \/ FinishTask(k)
      PROVE  RequestInv'
  BY <1>7, RunInv
<1>8. CASE HandBack
  BY <1>8, HandedBack
<1> QED
  BY <1>1, <1>2, <1>3, <1>4, <1>5, <1>6, <1>7, <1>8 DEF Next

LEMMA RequestInvariant == Spec => [](IInv /\ started \in DOMAIN Deployments /\ RequestInv)
<1>1. Spec => [](IInv /\ started \in DOMAIN Deployments)
  BY Invariant, StartedKnown, PTL
<1> QED
  BY <1>1, InitRequestInv, NextRequestInv, PTL DEF Spec

-----------------------------------------------------------------------------
\* Names.

LEMMA TextsAreNames == Seq(STRING) \subseteq Name
<1> SUFFICES ASSUME NEW s \in Seq(STRING) PROVE s \in Name
  OBVIOUS
<1>1. STRING \subseteq Mark
  BY DEF Mark
<1>2. Len(s) \in Nat /\ s \in [1 .. Len(s) -> STRING]
  BY LenProperties
<1>3. s \in [1 .. Len(s) -> Mark]
  BY <1>1, <1>2
<1> QED
  BY <1>2, <1>3 DEF Name

\* What is asked of a review about a token that was accepted.
LEMMA ReviewNames ==
  ASSUME started \in DOMAIN Deployments, NEW r \in Requests, Bears(r)
  PROVE  /\ ReviewOf(r).user \in Name
         /\ ReviewOf(r).groups \in Seq(Name)
         /\ \A k \in DOMAIN ReviewOf(r).groups : ReviewOf(r).groups[k] \in Name
         /\ Len(ReviewOf(r).clusters) = 1 => ReviewOf(r).clusters[1] \in Name
<1> DEFINE s == ReviewOf(r)
<1>1. r.credentials[1] \in DOMAIN deployment.reviews
  BY RequestShape
<1>2. /\ s.user \in Seq(STRING) /\ s.groups \in Seq(Seq(STRING))
      /\ s.clusters \in Seq(Seq(STRING))
  BY <1>1, RequestsAssumption, Zenon DEF ReviewOf, deployment
<1> HIDE DEF s
<1>3. /\ Len(s.groups) \in Nat /\ s.groups \in [1 .. Len(s.groups) -> Seq(STRING)]
      /\ Len(s.clusters) \in Nat /\ s.clusters \in [1 .. Len(s.clusters) -> Seq(STRING)]
  BY <1>2, LenProperties
<1>4. s.groups \in [1 .. Len(s.groups) -> Name]
  BY <1>3, TextsAreNames
<1>5. s.groups \in Seq(Name) /\ \A k \in DOMAIN s.groups : s.groups[k] \in Name
  BY <1>3, <1>4
<1>6. Len(s.clusters) = 1 => s.clusters[1] \in Name
  BY <1>3, TextsAreNames
<1> QED
  BY <1>2, <1>5, <1>6, TextsAreNames DEF s

\* The cluster by which names are qualified is one segment.
LEMMA QualifyingCluster ==
  ASSUME Settled, started \in DOMAIN Deployments, NEW r \in Requests,
         Native, Vouched(r), cfg.auth.includeCluster
  PROVE  LET c == Cluster(cfg.auth, ReviewOf(r)) IN c \in Name /\ ClusterName(c)
<1>1. Bears(r) /\ Accepted(cfg.auth, ReviewOf(r))
  BY DEF Vouched
<1>2. CASE cfg.auth.trustExtra
  <2>1. Len(ReviewOf(r).clusters) = 1 /\ ClusterName(ReviewOf(r).clusters[1])
    BY <1>1, <1>2 DEF Accepted
  <2> QED
    BY <1>1, <1>2, <2>1, ReviewNames DEF Cluster
<1>3. CASE ~cfg.auth.trustExtra
  <2> DEFINE c == cfg.auth.cluster
  <2>1. ValidAuth(cfg.auth)
    BY Zenon DEF Settled, ValidConfig, Native
  <2>2. c # <<>> /\ ClusterName(c)
    BY <1>3, <2>1, Zenon DEF ValidAuth
  <2>3. c = Auth(deployment.env, "CLUSTER_NAME", <<>>)
    BY DEF Settled, Settings, LoadAuth
  <2>4. "CLUSTER_NAME" \in DOMAIN deployment.env.auth
          => deployment.env.auth["CLUSTER_NAME"] \in Seq(STRING)
    BY RequestsAssumption, Zenon DEF deployment
  <2>5. c \in Name
    BY <2>2, <2>3, <2>4, TextsAreNames DEF Auth
  <2> QED
    BY <1>3, <2>2, <2>5 DEF Cluster
<1> QED
  BY <1>2, <1>3

\* The groups of a principal are names that a list of names keeps.
LEMMA PrincipalGroups ==
  ASSUME Settled, started \in DOMAIN Deployments, NEW r \in Requests, Native, Vouched(r)
  PROVE  LET gs == PrincipalFor(r).groups
         IN gs \in Seq(Name) /\ \A k \in DOMAIN gs : GroupName(gs[k])
<1> DEFINE s  == ReviewOf(r)
           p  == Prefix(cfg.auth, s)
           gs == [k \in DOMAIN s.groups |-> p \o s.groups[k]]
<1>1. Bears(r) /\ Accepted(cfg.auth, s)
  BY DEF Vouched
<1>2. /\ s.groups \in Seq(Name)
      /\ \A k \in DOMAIN s.groups : s.groups[k] \in Name /\ GroupName(s.groups[k])
  BY <1>1, ReviewNames DEF Accepted
<1>3. ASSUME NEW k \in DOMAIN s.groups
      PROVE  p \o s.groups[k] \in Name /\ GroupName(p \o s.groups[k])
  <2> DEFINE g == s.groups[k]
  <2>1. g \in Name /\ GroupName(g)
    BY <1>2
  <2>2. CASE cfg.auth.includeCluster
    <3> DEFINE c == Cluster(cfg.auth, s)
    <3>1. c \in Name /\ ClusterName(c)
      BY <2>2, QualifyingCluster
    <3>2. p = c \o <<Slash>>
      BY <2>2 DEF Prefix
    <3> HIDE DEF c, g, p
    <3>3. (c \o <<Slash>>) \o g \in Name /\ GroupName((c \o <<Slash>>) \o g)
      BY <2>1, <3>1, QualifiedGroup
    <3>4. p \o g \in Name /\ GroupName(p \o g)
      BY <3>2, <3>3
    <3> QED
      BY <3>4 DEF g
  <2>3. CASE ~cfg.auth.includeCluster
    <3>1. p = <<>>
      BY <2>3 DEF Prefix
    <3> HIDE DEF p, g
    <3>2. p \o g = g
      BY <2>1, <3>1, ConcatEmptySeq DEF Name
    <3> QED
      BY <2>1, <3>2 DEF g
  <2> QED
    BY <2>2, <2>3
<1>4. PrincipalFor(r).groups = gs
  BY DEF PrincipalFor, PrincipalOf
<1>5. gs \in Seq(Name) /\ \A k \in DOMAIN gs : GroupName(gs[k])
  <2>1. Len(s.groups) \in Nat /\ DOMAIN s.groups = 1 .. Len(s.groups)
    BY <1>2, LenProperties
  <2> HIDE DEF p, s
  <2> QED
    BY <1>3, <2>1
<1> QED
  BY <1>4, <1>5

\* Whom the handlers take for the caller is who was attested.
LEMMA AttestedCaller ==
  ASSUME Settled, started \in DOMAIN Deployments, NEW r \in Requests, Vouched(r)
  PROVE  /\ Names(CallerOf(r), Attested(r))
         /\ GroupsFor(CallerOf(r), PrincipalFor(r)) = Attested(r).groups
<1>1. CASE ~Native
  BY <1>1 DEF CallerOf, PrincipalFor, NoPrincipal, Caller, Attested, Names, GroupsFor
<1>2. CASE Native
  <2> DEFINE s  == ReviewOf(r)
             p  == Prefix(cfg.auth, s)
             gs == PrincipalFor(r).groups
             named == {gs[k] : k \in DOMAIN gs}
             attested == {p \o g : g \in ToSet(s.groups)}
  <2>1. SplitGroups(Csv(gs)) = named
    <3>1. gs \in Seq(Name) /\ \A k \in DOMAIN gs : GroupName(gs[k])
      BY <1>2, PrincipalGroups
    <3> HIDE DEF gs
    <3> QED
      BY <3>1, GroupsReadBack
  <2>2. PrincipalFor(r) = [verified |-> TRUE, identity |-> p \o s.user,
                           groups |-> [k \in DOMAIN s.groups |-> p \o s.groups[k]]]
    BY <1>2 DEF PrincipalFor, PrincipalOf
  <2>3. /\ PrincipalFor(r).verified /\ PrincipalFor(r).identity = p \o s.user
        /\ gs = [k \in DOMAIN s.groups |-> p \o s.groups[k]]
    <3> HIDE DEF p, s
    <3> QED
      BY <2>2
  <2>4. named = attested
    <3> HIDE DEF p, s, gs
    <3>1. DOMAIN gs = DOMAIN s.groups /\ \A k \in DOMAIN gs : gs[k] = p \o s.groups[k]
      BY <2>3
    <3> QED
      BY <3>1, Zenon DEF ToSet
  <2>5. Attested(r).identity = p \o s.user /\ Attested(r).groups = attested
    <3>1. Attested(r) = [identity |-> p \o s.user, groups |-> attested]
      BY <1>2 DEF Attested, ReviewOf, Prefix, Slash
    <3> HIDE DEF p, s, attested
    <3> QED
      BY <3>1
  <2>6. CallerOf(r).identity = p \o s.user /\ CallerOf(r).groups = Csv(gs)
    <3> HIDE DEF p, s
    <3> QED
      BY <2>3 DEF CallerOf, Caller
  <2>7. GroupsFor(CallerOf(r), PrincipalFor(r)) = named
    BY <2>3 DEF GroupsFor
  <2> HIDE DEF p, s, gs, named, attested
  <2> QED
    BY <2>1, <2>4, <2>5, <2>6, <2>7 DEF Names
<1> QED
  BY <1>1, <1>2

-----------------------------------------------------------------------------
\* A task that is there is asked of a settled process.
LEMMA TaskAsked ==
  ASSUME IInv, started \in DOMAIN Deployments, RequestInv, NEW k \in DOMAIN tasks
  PROVE  /\ Settled /\ AskedBy(tasks[k], senders[k])
         /\ senders[k] \in Requests /\ Vouched(senders[k])
         /\ Names(tasks[k], Attested(senders[k]))
         /\ GroupsFor(CallerOf(senders[k]), PrincipalFor(senders[k]))
              = Attested(senders[k]).groups
<1>1. AskedBy(tasks[k], senders[k])
  BY DEF RequestInv, TasksAsked
<1>2. tasks # <<>>
  OBVIOUS
<1>3. Settled
  BY <1>2 DEF RequestInv, AskedWhenSettled
<1>4. senders[k] \in Requests /\ Vouched(senders[k])
  BY <1>1 DEF AskedBy
<1>5. /\ Names(CallerOf(senders[k]), Attested(senders[k]))
      /\ GroupsFor(CallerOf(senders[k]), PrincipalFor(senders[k])) = Attested(senders[k]).groups
  BY <1>3, <1>4, AttestedCaller
<1>6. Names(tasks[k], Attested(senders[k]))
  BY <1>1, <1>5 DEF AskedBy, Names
<1> QED
  BY <1>1, <1>3, <1>4, <1>5, <1>6

\* "The same verified identity/groups flow into task authorization, [...] queued
\* identity/groups" (docs/authentication.md), for names of every length and every
\* list of groups: what is joined in the queue is read back as it was attested.
THEOREM SenderQueued == Spec => []QueuedForSender
<1> SUFFICES ASSUME IInv, started \in DOMAIN Deployments, RequestInv
             PROVE  QueuedForSender
  BY RequestInvariant, PTL
<1> SUFFICES ASSUME NEW k \in DOMAIN tasks
             PROVE  LET who == Attested(senders[k])
                        def == conf.tasks[tasks[k].name]
                    IN /\ Native => Len(senders[k].credentials) = 1
                       /\ Names(tasks[k], who)
                       /\ def.allowedUsers \cup def.allowedGroups # {} =>
                            \/ who.identity \in def.allowedUsers
                            \/ who.groups \cap def.allowedGroups # {}
  BY DEF QueuedForSender
<1> DEFINE r == senders[k]
           def == conf.tasks[tasks[k].name]
<1>1. /\ AskedBy(tasks[k], r) /\ Vouched(r) /\ Names(tasks[k], Attested(r))
      /\ GroupsFor(CallerOf(r), PrincipalFor(r)) = Attested(r).groups
  BY TaskAsked
<1>2. Native => Len(r.credentials) = 1
  BY <1>1 DEF Vouched, Bears
<1>3. MayRun(def, CallerOf(r), PrincipalFor(r)) /\ CallerOf(r).identity = Attested(r).identity
  BY <1>1 DEF AskedBy, Names
<1>4. def.allowedUsers \cup def.allowedGroups # {} =>
        Attested(r).identity \in def.allowedUsers \/ Attested(r).groups \cap def.allowedGroups # {}
  <2> HIDE DEF r, def
  <2> QED
    BY <1>1, <1>3 DEF MayRun
<1> QED
  BY <1>1, <1>2, <1>4

\* aqsh's own variables come last.
LEMMA OwnVarsLast ==
  ASSUME NEW t, NEW environ
  PROVE  LET s == ScriptEnv(t, environ)
             others == DOMAIN t.env \cup DOMAIN environ
         IN /\ s["AQSH_TASK_ID"] = Text(<<"id">>)
            /\ t.identity # <<>> => s["AQSH_IDENTITY"] = Text(t.identity)
            /\ t.groups # <<>> => s["AQSH_GROUPS"] = Text(t.groups)
            /\ t.identity = <<>> =>
                 ("AQSH_IDENTITY" \in DOMAIN s => "AQSH_IDENTITY" \in others)
            /\ t.groups = <<>> =>
                 ("AQSH_GROUPS" \in DOMAIN s => "AQSH_GROUPS" \in others)
<1> DEFINE own == OwnVars(t)
<1>1. /\ "AQSH_TASK_ID" \in DOMAIN own /\ own["AQSH_TASK_ID"] = Text(<<"id">>)
      /\ t.identity # <<>> =>
           "AQSH_IDENTITY" \in DOMAIN own /\ own["AQSH_IDENTITY"] = Text(t.identity)
      /\ t.groups # <<>> => "AQSH_GROUPS" \in DOMAIN own /\ own["AQSH_GROUPS"] = Text(t.groups)
  BY DEF OwnVars, Reserved
<1>2. /\ t.identity = <<>> => "AQSH_IDENTITY" \notin DOMAIN own
      /\ t.groups = <<>> => "AQSH_GROUPS" \notin DOMAIN own
  BY DEF OwnVars
<1> HIDE DEF own
<1>3. /\ \A n \in DOMAIN own : ScriptEnv(t, environ)[n] = own[n]
      /\ \A n \in DOMAIN ScriptEnv(t, environ) :
           n \in DOMAIN own \/ n \in DOMAIN t.env \cup DOMAIN environ
  BY DEF ScriptEnv, Over, own
<1> QED
  BY <1>1, <1>2, <1>3

\* Who is natively let through has a name, also when it is qualified.
LEMMA NativelyNamed ==
  ASSUME Native, NEW r \in Requests, Vouched(r), started \in DOMAIN Deployments
  PROVE  Attested(r).identity # <<>>
<1> DEFINE s == ReviewOf(r)
           p == IF cfg.auth.includeCluster THEN Cluster(cfg.auth, s) \o <<"/">> ELSE <<>>
<1>1. Accepted(cfg.auth, s) /\ r.credentials[1] \in DOMAIN deployment.reviews
  BY RequestShape DEF Vouched
<1>2. s.user # <<>>
  BY <1>1 DEF Accepted, UserName
<1>3. Attested(r).identity = p \o s.user
  BY DEF Attested, ReviewOf
<1> QED
  BY <1>1, <1>2, <1>3

\* "AQSH_IDENTITY/AQSH_GROUPS in scripts" are those of the sender, whatever the
\* inputs and the worker's environment are called; a script of a nameless one
\* has a name at most from a variable that is so called.
THEOREM ScriptToldSender == Spec => []ScriptTold
<1> SUFFICES ASSUME IInv, started \in DOMAIN Deployments, RequestInv
             PROVE  ScriptTold
  BY RequestInvariant, PTL
<1> SUFFICES ASSUME NEW k \in DOMAIN tasks, DOMAIN tasks[k].script # {}
             PROVE  LET t      == tasks[k]
                        s      == t.script
                        who    == Attested(senders[k])
                        others == EnvNames(conf.tasks[t.name].input)
                                    \cup DOMAIN deployment.environ
                    IN /\ s["AQSH_TASK_ID"] = Text(<<"id">>)
                       /\ who.identity # <<>> => s["AQSH_IDENTITY"].text = who.identity
                       /\ who.identity = <<>> =>
                            /\ ~Native
                            /\ "AQSH_IDENTITY" \in DOMAIN s => "AQSH_IDENTITY" \in others
                       /\ who.groups # {} =>
                            SplitGroups(s["AQSH_GROUPS"].text) = who.groups
                       /\ who.groups = {} /\ "AQSH_GROUPS" \in DOMAIN s =>
                            \/ "AQSH_GROUPS" \in others
                            \/ SplitGroups(s["AQSH_GROUPS"].text) = {}
  BY DEF ScriptTold
<1> DEFINE t       == tasks[k]
           s       == t.script
           who     == Attested(senders[k])
           names   == EnvNames(conf.tasks[t.name].input)
           environ == deployment.environ
<1>1. /\ AskedBy(t, senders[k]) /\ Names(t, who)
      /\ senders[k] \in Requests /\ Vouched(senders[k])
  BY TaskAsked
<1>2. s = ScriptEnv(t, environ) /\ DOMAIN t.env = names
  <2>1. s # <<>>
    OBVIOUS
  <2>2. s = ScriptEnv(t, environ)
    BY <1>1, <2>1 DEF AskedBy
  <2>3. t.env \in Envs(conf.tasks[t.name].input, senders[k].payload)
    BY <1>1, Zenon DEF AskedBy
  <2>4. DOMAIN t.env = names
    BY <2>3 DEF Envs
  <2> QED
    BY <2>2, <2>4
<1>3. /\ s["AQSH_TASK_ID"] = Text(<<"id">>)
      /\ t.identity # <<>> => s["AQSH_IDENTITY"] = Text(t.identity)
      /\ t.groups # <<>> => s["AQSH_GROUPS"] = Text(t.groups)
      /\ t.identity = <<>> =>
           ("AQSH_IDENTITY" \in DOMAIN s => "AQSH_IDENTITY" \in names \cup DOMAIN environ)
      /\ t.groups = <<>> =>
           ("AQSH_GROUPS" \in DOMAIN s => "AQSH_GROUPS" \in names \cup DOMAIN environ)
  BY <1>2, OwnVarsLast
<1>4. Native => who.identity # <<>>
  BY <1>1, NativelyNamed
<1>5. t.identity = who.identity /\ SplitGroups(t.groups) = who.groups
  BY <1>1 DEF Names
<1>6. SplitGroups(<<>>) = {}
  BY EmptyList, CsvOfNone
<1>7. \A n : Text(n).text = n
  BY DEF Text
<1> HIDE DEF t, s, who, names, environ
<1>8. /\ s["AQSH_TASK_ID"] = Text(<<"id">>)
      /\ who.identity # <<>> => s["AQSH_IDENTITY"].text = who.identity
      /\ who.identity = <<>> =>
           /\ ~Native
           /\ "AQSH_IDENTITY" \in DOMAIN s => "AQSH_IDENTITY" \in names \cup DOMAIN environ
  BY <1>3, <1>4, <1>5, <1>7
<1>9. /\ who.groups # {} => SplitGroups(s["AQSH_GROUPS"].text) = who.groups
      /\ who.groups = {} /\ "AQSH_GROUPS" \in DOMAIN s =>
           \/ "AQSH_GROUPS" \in names \cup DOMAIN environ
           \/ SplitGroups(s["AQSH_GROUPS"].text) = {}
  <2>1. CASE t.groups = <<>>
    BY <1>3, <1>5, <1>6, <2>1
  <2>2. CASE t.groups # <<>>
    BY <1>3, <1>5, <1>7, <2>2
  <2> QED
    BY <2>1, <2>2
<1> QED
  BY <1>8, <1>9 DEF t, s, who, names, environ

\* "[...] execution responses and access logs": nothing is logged or shown under
\* a name that only headers give.
THEOREM SenderLogged == Spec => []LoggedSender
<1> SUFFICES ASSUME IInv, started \in DOMAIN Deployments, RequestInv
             PROVE  LoggedSender
  BY RequestInvariant, PTL
<1> SUFFICES ASSUME answer.code # 0 PROVE LoggedSender
  BY DEF LoggedSender
<1> DEFINE r == answer.asSent
<1>1. answer # NoAnswer /\ Answered /\ Settled /\ r \in Requests
  BY DEF NoAnswer, RequestInv, AskedWhenSettled, Answered
<1>2. Vouched(r) => /\ Native => Bears(r)
                    /\ Names(CallerOf(r), Attested(r))
                    /\ CallerOf(r).identity = Attested(r).identity
  BY <1>1, AttestedCaller DEF Vouched, Names
<1>3. \/ answer.caller = NoOne
      \/ (Native => Bears(r)) /\ Names(answer.caller, Attested(r))
  BY <1>1, <1>2 DEF Answered
<1>4. answer.code \in {200, 202} /\ r.kind # "health" =>
        answer.caller.identity = Attested(r).identity
  BY <1>1, <1>2 DEF Answered
<1>5. ASSUME answer.code = 200, r.kind = "status"
      PROVE  Names(answer.shown, Attested(senders[r.of]))
  <2> DEFINE k == r.of
  <2>1. /\ k \in DOMAIN tasks
        /\ answer.shown = [identity |-> tasks[k].identity, groups |-> tasks[k].groups]
    BY <1>1, <1>5 DEF Answered
  <2>2. Names(tasks[k], Attested(senders[k]))
    BY <2>1, TaskAsked
  <2> HIDE DEF k
  <2>3. Names(answer.shown, Attested(senders[k]))
    BY <2>1, <2>2 DEF Names
  <2> QED
    BY <2>3 DEF k
<1> QED
  BY <1>3, <1>4, <1>5 DEF LoggedSender

\* With qualification on, tasks with one identity come from one user of one
\* cluster, and the groups of different clusters are spelled differently, whatever
\* users, groups and clusters are called.
THEOREM ClustersKeptApart == Spec => []ClustersApart
<1> SUFFICES ASSUME IInv, started \in DOMAIN Deployments, RequestInv
             PROVE  ClustersApart
  BY RequestInvariant, PTL
<1> SUFFICES ASSUME Native, cfg.auth.includeCluster, NEW j \in DOMAIN tasks,
                    NEW k \in DOMAIN tasks
             PROVE  LET s == ReviewOf(senders[j])
                        u == ReviewOf(senders[k])
                    IN Cluster(cfg.auth, s) # Cluster(cfg.auth, u) \/ s.user # u.user =>
                         /\ tasks[j].identity # tasks[k].identity
                         /\ Cluster(cfg.auth, s) # Cluster(cfg.auth, u) =>
                              SplitGroups(tasks[j].groups) \cap SplitGroups(tasks[k].groups) = {}
  BY DEF ClustersApart, ReviewOf
<1> DEFINE s == ReviewOf(senders[j])
           u == ReviewOf(senders[k])
           c == Cluster(cfg.auth, s)
           d == Cluster(cfg.auth, u)
           nameJ == (c \o <<Slash>>) \o s.user
           nameK == (d \o <<Slash>>) \o u.user
           ofJ == {(c \o <<Slash>>) \o g : g \in ToSet(s.groups)}
           ofK == {(d \o <<Slash>>) \o g : g \in ToSet(u.groups)}
<1>1. /\ senders[j] \in Requests /\ Vouched(senders[j]) /\ Bears(senders[j])
      /\ senders[k] \in Requests /\ Vouched(senders[k]) /\ Bears(senders[k]) /\ Settled
      /\ Names(tasks[j], Attested(senders[j])) /\ Names(tasks[k], Attested(senders[k]))
  BY TaskAsked DEF Vouched
<1>2. /\ c \in Name /\ ~ Has(c, {Slash})
      /\ d \in Name /\ ~ Has(d, {Slash})
  <2>1. ASSUME NEW x, ClusterName(x) PROVE ~ Has(x, {Slash})
    BY <2>1 DEF ClusterName, Has
  <2> QED
    BY <1>1, <2>1, QualifyingCluster
<1>3. /\ s.user \in Name /\ \A i \in DOMAIN s.groups : s.groups[i] \in Name
      /\ u.user \in Name /\ \A i \in DOMAIN u.groups : u.groups[i] \in Name
  BY <1>1, ReviewNames
<1>4. /\ Attested(senders[j]) = [identity |-> nameJ, groups |-> ofJ]
      /\ Attested(senders[k]) = [identity |-> nameK, groups |-> ofK]
  BY DEF Attested, ReviewOf, Slash
<1>5. /\ tasks[j].identity = nameJ /\ tasks[k].identity = nameK
      /\ SplitGroups(tasks[j].groups) = ofJ /\ SplitGroups(tasks[k].groups) = ofK
  <2> HIDE DEF s, u, c, d, nameJ, nameK, ofJ, ofK
  <2> QED
    BY <1>1, <1>4 DEF Names
<1> HIDE DEF s, u, c, d
<1>6. c # d \/ s.user # u.user => tasks[j].identity # tasks[k].identity
  BY <1>2, <1>3, <1>5, OneClusterOneUser
<1>7. ASSUME c # d
      PROVE  SplitGroups(tasks[j].groups) \cap SplitGroups(tasks[k].groups) = {}
  <2>1. ASSUME NEW g \in ToSet(s.groups), NEW h \in ToSet(u.groups)
        PROVE  (c \o <<Slash>>) \o g # (d \o <<Slash>>) \o h
    <3>1. g \in Name /\ h \in Name
      BY <1>3 DEF ToSet
    <3> QED
      BY <1>2, <1>7, <3>1, OneClusterOneUser
  <2> DEFINE G == ToSet(s.groups)
             H == ToSet(u.groups)
             P(g) == (c \o <<Slash>>) \o g
             Q(h) == (d \o <<Slash>>) \o h
  <2>2. \A g \in G, h \in H : P(g) # Q(h)
    BY <2>1
  <2>3. /\ SplitGroups(tasks[j].groups) = {P(g) : g \in G}
        /\ SplitGroups(tasks[k].groups) = {Q(h) : h \in H}
    BY <1>5
  <2> HIDE DEF G, H, P, Q
  <2> QED
    BY <2>2, <2>3, Zenon
<1> QED
  BY <1>6, <1>7 DEF s, u, c, d

-----------------------------------------------------------------------------
\* Types.

LEMMA LoadedShape ==
  ASSUME NEW dir
  PROVE  DOMAIN Load(dir).conf = {"defaults", "tasks"}
BY DEF Load

LEMMA MainTyped == ProcessTypeOK /\ MainStep => ProcessTypeOK'
<1> SUFFICES ASSUME ProcessTypeOK, MainStep PROVE ProcessTypeOK'
  OBVIOUS
<1>0. UNCHANGED started /\ deployment' = deployment
  BY DEF MainStep, Configure, LoadTasks, Connect, Watch, Launch, Exit, loaded, deployment
<1>1. CASE Configure
  <2>1. cfg' = Settings(deployment) /\ Settings(deployment)' = Settings(deployment)
    BY <1>0, <1>1 DEF Configure, Settings
  <2> QED
    BY <1>0, <1>1, <2>1 DEF Configure, Proceed, ProcessTypeOK, servers, signals
<1>2. ASSUME UNCHANGED cfg
      PROVE  cfg' \in {Unloaded, Settings(deployment)'} /\ Unloaded' = Unloaded
  BY <1>0, <1>2 DEF ProcessTypeOK, Settings, Unloaded, LoadAuth
<1>3. CASE LoadTasks
  <2>1. DOMAIN conf' = {"defaults", "tasks"}
    BY <1>3, LoadedShape DEF LoadTasks, ProcessTypeOK
  <2> QED
    BY <1>0, <1>2, <1>3, <2>1 DEF LoadTasks, Proceed, ProcessTypeOK, servers, signals
<1>4. CASE Connect \/ Watch \/ Exit
  BY <1>0, <1>2, <1>4 DEF Connect, Watch, Exit, Proceed, Advance, ProcessTypeOK, servers,
     signals, loaded
<1>5. CASE Launch
  BY <1>0, <1>2, <1>5 DEF Launch, Advance, ProcessTypeOK, signals, loaded
<1> QED
  BY <1>1, <1>3, <1>4, <1>5 DEF MainStep

LEMMA ProcessTyped ==
  ProcessTypeOK /\ (ProcessNext \/ StopWorker \/ UNCHANGED processes) => ProcessTypeOK'
<1> SUFFICES ASSUME ProcessTypeOK, ProcessNext \/ StopWorker \/ UNCHANGED processes, ~MainStep
             PROVE  ProcessTypeOK'
  BY MainTyped
<1>1. UNCHANGED loaded
  BY DEF ProcessNext, ApiStep, Signal, MainHears, PrepareApi, Listen, StopListening, ServeFails,
     BeginShutdown, StartWorker, AttendSignals, WorkerHears, StopWorker, WorkerStep, processes
<1>2. /\ started' \in DOMAIN Deployments /\ cfg' \in {Unloaded, Settings(deployment)}'
      /\ DOMAIN conf' = {"defaults", "tasks"}
  BY <1>1 DEF loaded, ProcessTypeOK, Unloaded, Settings, deployment, LoadAuth
<1>3. CASE Signal
  <2>1. sent' \in 0 .. MaxSignals
    BY <1>3, SignalsAssumption DEF Signal, ProcessTypeOK
  <2> QED
    BY <1>2, <1>3, <2>1 DEF Signal, Arrives, ProcessTypeOK, servers
<1>4. CASE MainHears \/ ApiStep \/ ServeFails \/ BeginShutdown
  <2>1. reviewer' \in BOOLEAN
    <3>1. CASE UNCHANGED reviewer
      BY <3>1 DEF ProcessTypeOK
    <3>2. CASE reviewer' = Native
      BY <3>2 DEF Native
    <3> QED
      BY <1>4, <3>1, <3>2 DEF MainHears, ApiStep, PrepareApi, Listen, StopListening, ServeFails,
         BeginShutdown
  <2>2. failed' \in BOOLEAN
    BY <1>4 DEF MainHears, ApiStep, PrepareApi, Listen, StopListening, ServeFails, ApiReturns,
       BeginShutdown, ProcessTypeOK
  <2>3. /\ ctx' \in {"live", "done"} /\ UNCHANGED <<pc, code, worker, toWorker, sent>>
        /\ toMain' \in {"empty", "pending", "heard"}
        /\ api' \in {"off", "starting", "prepared", "listening", "returned"}
        /\ closer' \in {"off", "waiting", "closing"}
    BY <1>4 DEF MainHears, ApiStep, PrepareApi, Listen, StopListening, ServeFails, ApiReturns,
       BeginShutdown, ProcessTypeOK, signals
  <2> QED
    BY <1>2, <2>1, <2>2, <2>3 DEF ProcessTypeOK
<1>5. CASE StartWorker \/ AttendSignals \/ WorkerHears \/ StopWorker
  BY <1>2, <1>5 DEF StartWorker, AttendSignals, WorkerHears, StopWorker, WorkerStep,
     ProcessTypeOK, signals
<1>6. CASE UNCHANGED processes
  BY <1>2, <1>6 DEF processes, servers, signals, ProcessTypeOK
<1> QED
  BY <1>3, <1>4, <1>5, <1>6 DEF ProcessNext

LEMMA ProcessTypeInvariant == Spec => []ProcessTypeOK
<1>1. Init => ProcessTypeOK
  <2> SUFFICES ASSUME ProcessInit PROVE ProcessTypeOK
    BY DEF Init
  <2>1. sent \in 0 .. MaxSignals
    BY SignalsAssumption DEF ProcessInit
  <2>2. DOMAIN conf = {"defaults", "tasks"}
    BY DEF ProcessInit, NoConf
  <2> QED
    BY <2>1, <2>2 DEF ProcessInit, ProcessTypeOK
<1>2. ProcessTypeOK /\ [Next]_vars => ProcessTypeOK'
  <2> SUFFICES ASSUME ProcessTypeOK, [Next]_vars
               PROVE  ProcessNext \/ StopWorker \/ UNCHANGED processes
    BY ProcessTyped
  <2>1. ASSUME NEW k \in DOMAIN tasks, StartTask(k) \/ RunElsewhere(k) \/ FinishTask(k)
        PROVE  UNCHANGED processes
    BY <2>1 DEF StartTask, RunElsewhere, FinishTask
  <2> QED
    BY <2>1 DEF Next, Handler, Arrive, Open, Authenticate, Health, List, Status, Submit,
       Enqueue, CutOff, HandBack, vars
<1> QED
  BY <1>1, <1>2, PTL DEF Spec

\* The types of the service, of which the request in flight is what was sent.
THEOREM ServiceTyped == Spec => []ServiceTypeOK
<1> SUFFICES ASSUME IInv, started \in DOMAIN Deployments, RequestInv, ProcessTypeOK
             PROVE  ServiceTypeOK
  BY RequestInvariant, ProcessTypeInvariant, PTL
<1>1. req.at \in {"none", "arrived", "identified", "accepted"}
  BY DEF RequestInv, InFlight, NoRequest
<1>2. req.at # "none" =>
        /\ req.r.kind \in {"submit", "list", "health", "status"}
        /\ req.asSent \in Requests
        /\ req.principal.verified => Native
  <2> SUFFICES ASSUME req.at # "none"
               PROVE  /\ req.r.kind \in {"submit", "list", "health", "status"}
                      /\ req.asSent \in Requests
                      /\ req.principal.verified => Native
    OBVIOUS
  <2>1. req # NoRequest /\ InFlight
    BY DEF NoRequest, RequestInv
  <2>2. req.principal \in {NoPrincipal, PrincipalFor(req.asSent)}
    BY <2>1 DEF InFlight
  <2>3. req.principal.verified => Native
    BY <2>2 DEF PrincipalFor, NoPrincipal
  <2> QED
    BY <2>1, <2>3, ReadAsSent DEF InFlight
<1>3. answer.code \in {0, 200, 202, 400, 401, 403, 404, 502, 503, 504}
  BY DEF RequestInv, Answered, NoAnswer
<1>4. Len(tasks) = Len(senders) /\ Len(tasks) \in 0 .. MaxTasks
  <2>1. Len(tasks) \in Nat
    BY LenProperties DEF IInv, TasksTyped
  <2>2. Len(tasks) = Len(senders) /\ Len(tasks) <= MaxTasks
    BY DEF RequestInv, TasksAsked
  <2> QED
    BY <2>1, <2>2, TasksAssumption
<1>5. ASSUME NEW k \in DOMAIN tasks
      PROVE  /\ tasks[k].state \in States
             /\ Resolves(conf, tasks[k].name)
             /\ DOMAIN tasks[k].env = EnvNames(conf.tasks[tasks[k].name].input)
             /\ senders[k] \in Requests
  <2>1. AskedBy(tasks[k], senders[k])
    BY TaskAsked
  <2>2. \A inputs, payload : \A env \in Envs(inputs, payload) : DOMAIN env = EnvNames(inputs)
    BY DEF Envs
  <2> QED
    BY <2>1, <2>2 DEF AskedBy
<1> QED
  BY <1>1, <1>2, <1>3, <1>4, <1>5 DEF ServiceTypeOK

-----------------------------------------------------------------------------
\* The task definitions.

\* What main has of them is what Load gives it, unless it has ended before that.
ConfLoaded ==
  LET result == Load(deployment.dir)
  IN /\ conf # NoConf => result.ok /\ conf = result.conf
     /\ pc \in {"start", "configured"} => conf = NoConf
     /\ pc \notin {"start", "configured", "exited", "killed"} => conf = result.conf
     /\ pc = "exited" /\ ValidConfig(cfg) /\ result.ok => conf = result.conf

LEMMA MainLoads == ConfLoaded /\ MainStep => ConfLoaded'
<1> SUFFICES ASSUME ConfLoaded, MainStep PROVE ConfLoaded'
  OBVIOUS
<1> DEFINE result == Load(deployment.dir)
<1>1. result' = result
  BY DEF MainStep, Configure, LoadTasks, Connect, Watch, Launch, Exit, loaded, deployment
<1> HIDE DEF result
<1> USE DEF ConfLoaded
<1>2. CASE Configure
  <2>1. UNCHANGED conf /\ pc = "start"
    BY <1>2 DEF Configure, Proceed
  <2>2. pc' = "configured" \/ (pc' = "exited" /\ ~ ValidConfig(cfg)')
    BY <1>2 DEF Configure, Proceed
  <2> QED
    BY <1>1, <2>1, <2>2 DEF result
<1>3. CASE LoadTasks
  <2>1. pc = "configured" /\ conf = NoConf
    BY <1>3 DEF LoadTasks, Proceed
  <2>2. \/ result.ok /\ pc' = "loaded" /\ conf' = result.conf
        \/ ~ result.ok /\ pc' = "exited" /\ conf' = conf
    BY <1>3 DEF LoadTasks, Proceed, result
  <2> QED
    BY <1>1, <2>1, <2>2 DEF result
<1>4. CASE Connect \/ Watch \/ Launch \/ Exit
  <2>1. UNCHANGED <<cfg, conf>> /\ pc \in {"loaded", "connected", "watching", "waiting"}
    BY <1>4 DEF Connect, Watch, Launch, Exit, Proceed, Advance, loaded
  <2>2. pc' \in {"connected", "watching", "waiting", "exited"}
    BY <1>4 DEF Connect, Watch, Launch, Exit, Proceed, Advance
  <2> QED
    BY <1>1, <2>1, <2>2 DEF result
<1> QED
  BY <1>2, <1>3, <1>4 DEF MainStep

LEMMA NextLoads == ConfLoaded /\ [Next]_vars => ConfLoaded'
<1> SUFFICES ASSUME ConfLoaded, [Next]_vars, ~ (MainStep /\ UNCHANGED requests)
             PROVE  ConfLoaded'
  BY MainLoads
<1>1. UNCHANGED <<started, cfg, conf>> /\ (UNCHANGED pc \/ pc' = "killed")
  <2>1. ASSUME UNCHANGED processes PROVE UNCHANGED <<started, cfg, conf, pc>>
    BY <2>1 DEF processes, loaded
  <2>2. ASSUME NEW k \in DOMAIN tasks, StartTask(k) \/ RunElsewhere(k) \/ FinishTask(k)
        PROVE  UNCHANGED processes
    BY <2>2 DEF StartTask, RunElsewhere, FinishTask
  <2>3. CASE (ProcessNext /\ ~ MainStep) \/ HandBack
    BY <2>3 DEF ProcessNext, ApiStep, Signal, MainHears, PrepareApi, Listen, StopListening, ServeFails,
       BeginShutdown, StartWorker, AttendSignals, WorkerHears, StopWorker, HandBack,
       WorkerStep, loaded
  <2> QED
    BY <2>1, <2>2, <2>3 DEF Next, Handler, Arrive, Open, Authenticate, Health, List, Status,
       Submit, Enqueue, CutOff, vars
<1>2. Load(deployment.dir)' = Load(deployment.dir) /\ ValidConfig(cfg)' = ValidConfig(cfg)
  BY <1>1 DEF deployment
<1> QED
  BY <1>1, <1>2 DEF ConfLoaded

LEMMA ConfInvariant == Spec => []ConfLoaded
<1>1. Init => ConfLoaded
  BY DEF Init, ProcessInit, ConfLoaded
<1> QED
  BY <1>1, NextLoads, PTL DEF Spec

\* main goes on with the tasks of the main file and of every included file, each
\* as its one file has it; and it does so unless a pattern, a file or a pair of
\* files is at fault (Load, tasks.go), however many patterns, files and tasks.
THEOREM TasksLoaded == Spec => []LoadExact
<1> SUFFICES ASSUME started \in DOMAIN Deployments, ConfLoaded PROVE LoadExact
  BY StartedKnown, ConfInvariant, PTL
<1> DEFINE dir      == deployment.dir
           main     == Main(dir)
           included == Included(dir)
           parts    == included \cup {dir.main}
           tasksOf(f) == TasksOf(dir, f)
           sound    == /\ \A f \in parts : dir.files[f].ok /\ ValidInputs(dir.files[f].tasks)
                       /\ \A f \in included : /\ dir.files[f].include = <<>>
                                              /\ dir.files[f].defaults = NoDefaults
                       /\ \A f, g \in parts : f # g => tasksOf(f) \cap tasksOf(g) = {}
                       /\ \A p \in DOMAIN main.include : main.include[p].local
           result   == Load(dir)
<1>2. main.include \in Seq([local : BOOLEAN, matches : Seq(DOMAIN dir.files)])
  BY FilesAssumption, Zenon DEF deployment
<1>3. /\ result = [ok |-> result.ok, conf |-> [defaults |-> main.defaults,
                                                tasks |-> result.conf.tasks]]
      /\ result.ok <=> Fit(dir, included)
      /\ DOMAIN result.conf.tasks = UNION {tasksOf(f) : f \in parts}
      /\ result.ok => \A f \in parts : \A name \in tasksOf(f) :
                        result.conf.tasks[name] = dir.files[f].tasks[name]
  <2> HIDE DEF dir
  <2> QED
    BY <1>2, LoadsEveryFile
<1>4. sound <=> Fit(dir, included)
  <2> DEFINE files == \A f \in included :
                        /\ dir.files[f].ok /\ dir.files[f].include = <<>>
                        /\ dir.files[f].defaults = NoDefaults
                        /\ ValidInputs(dir.files[f].tasks)
             apart == \A f, g \in parts : f # g => tasksOf(f) \cap tasksOf(g) = {}
             paths == \A p \in DOMAIN main.include : main.include[p].local
  <2>1. MainAlone(dir).ok <=> main.ok /\ ValidInputs(main.tasks) /\ paths
    BY DEF MainAlone
  <2>2. Fit(dir, included) <=> MainAlone(dir).ok /\ files /\ apart
    <3> HIDE DEF dir, included
    <3> QED
      BY Zenon DEF Fit
  <2>3. sound <=> main.ok /\ ValidInputs(main.tasks) /\ files /\ apart /\ paths
    <3>1. main = dir.files[dir.main]
      BY DEF Main
    <3> HIDE DEF dir, main, included, apart, paths, tasksOf
    <3> QED
      BY <3>1 DEF apart, paths
  <2> HIDE DEF sound, files, apart, paths
  <2> QED
    BY <2>1, <2>2, <2>3
<1>5. result.conf.defaults = main.defaults
  <2> HIDE DEF result, main
  <2> QED
    BY <1>3
<1>6. /\ conf # NoConf => result.ok /\ conf = result.conf
      /\ pc = "exited" /\ ValidConfig(cfg) /\ result.ok => conf = result.conf
  BY DEF ConfLoaded
<1>7. ASSUME result.ok, conf = NoConf, conf = result.conf
      PROVE  \A f \in parts : tasksOf(f) = {}
  <2>1. DOMAIN result.conf.tasks = {}
    BY <1>7 DEF NoConf
  <2> HIDE DEF parts, tasksOf, result
  <2> QED
    BY <1>3, <2>1
<1>8. /\ conf # NoConf =>
           /\ sound
           /\ conf.defaults = main.defaults
           /\ DOMAIN conf.tasks = UNION {tasksOf(f) : f \in parts}
           /\ \A f \in parts : \A name \in tasksOf(f) :
                conf.tasks[name] = dir.files[f].tasks[name]
      /\ pc = "exited" /\ ValidConfig(cfg) /\ conf = NoConf =>
           ~sound \/ \A f \in parts : tasksOf(f) = {}
  <2> HIDE DEF dir, main, included, parts, tasksOf, sound, result
  <2> QED
    BY <1>3, <1>4, <1>5, <1>6, <1>7
<1> QED
  BY <1>8, Zenon DEF LoadExact, Main, Included, TasksOf

-----------------------------------------------------------------------------
\* What a script finds under the names of its inputs.

\* int64(v) does not leave whole bounds within int64, wherever v is between them.
LEMMA CutWithin ==
  ASSUME NEW h \in Int, NEW a \in IntMin .. IntMax, NEW b \in IntMin .. IntMax,
         2 * a <= h, h <= 2 * b, NEW n \in Int64(h)
  PROVE  n \in a .. b
<1> DEFINE m == IF h >= 0 THEN h \div 2 ELSE -((-h) \div 2)
<1>1. m \in Int /\ a <= m /\ m <= b
  <2> USE IntAssumption
  <2>1. CASE h >= 0
    <3>1. (h \div 2) \in Int /\ 2 * (h \div 2) <= h /\ h <= 2 * (h \div 2) + 1
      OBVIOUS
    <3> DEFINE q == h \div 2
    <3>2. m = q /\ q \in Int /\ 2 * q <= h /\ h <= 2 * q + 1
      BY <2>1, <3>1
    <3> HIDE DEF m, q
    <3> QED
      BY <3>2
  <2>2. CASE h < 0
    <3>1. ((-h) \div 2) \in Int /\ 2 * ((-h) \div 2) <= -h /\ -h <= 2 * ((-h) \div 2) + 1
      BY <2>2
    <3> DEFINE q == (-h) \div 2
    <3>2. m = -q /\ q \in Int /\ 2 * q <= -h /\ -h <= 2 * q + 1
      BY <2>2, <3>1
    <3> HIDE DEF m, q
    <3> QED
      BY <3>2
  <2> QED
    BY <2>1, <2>2
<1>2. Int64(h) = IF m \in IntMin .. IntMax THEN {m} ELSE {IntMin, IntMax}
  BY Zenon DEF Int64
<1> HIDE DEF m
<1>3. m \in IntMin .. IntMax
  BY <1>1, IntAssumption
<1> QED
  BY <1>1, <1>2, <1>3

LEMMA CutIsInt == \A h \in Int : Int64(h) \subseteq Int
<1> TAKE h \in Int
<1> DEFINE m == IF h >= 0 THEN h \div 2 ELSE -((-h) \div 2)
<1>1. Int64(h) = IF m \in IntMin .. IntMax THEN {m} ELSE {IntMin, IntMax}
  BY Zenon DEF Int64
<1> HIDE DEF m
<1> QED
  BY <1>1, IntAssumption

\* A number that is near an int64 keeps all but its fraction.
LEMMA CutExactly ==
  ASSUME NEW h \in 2 * IntMin .. 2 * IntMax, NEW n \in Int64(h)
  PROVE  n \in Int /\ h - 2 * n \in (IF h > 0 THEN {0, 1} ELSE {-1, 0})
<1> DEFINE m == IF h >= 0 THEN h \div 2 ELSE -((-h) \div 2)
<1>0. h \in Int
  BY IntAssumption
<1>1. /\ m \in IntMin .. IntMax
      /\ m \in Int /\ h - 2 * m \in (IF h > 0 THEN {0, 1} ELSE {-1, 0})
  <2> USE IntAssumption
  <2>1. CASE h >= 0
    <3>1. (h \div 2) \in Int /\ 2 * (h \div 2) <= h /\ h <= 2 * (h \div 2) + 1
      BY <1>0
    <3> DEFINE q == h \div 2
    <3>2. m = q /\ q \in Int /\ 2 * q <= h /\ h <= 2 * q + 1
      BY <2>1, <3>1
    <3> HIDE DEF m, q
    <3> QED
      BY <2>1, <3>2
  <2>2. CASE h < 0
    <3>1. ((-h) \div 2) \in Int /\ 2 * ((-h) \div 2) <= -h /\ -h <= 2 * ((-h) \div 2) + 1
      BY <1>0, <2>2
    <3> DEFINE q == (-h) \div 2
    <3>2. m = -q /\ q \in Int /\ 2 * q <= -h /\ -h <= 2 * q + 1
      BY <1>0, <2>2, <3>1
    <3> HIDE DEF m, q
    <3> QED
      BY <2>2, <3>2
  <2> QED
    BY <1>0, <2>1, <2>2
<1>2. Int64(h) = IF m \in IntMin .. IntMax THEN {m} ELSE {IntMin, IntMax}
  BY Zenon DEF Int64
<1> HIDE DEF m
<1> QED
  BY <1>1, <1>2

\* The value v of an input i for which s was submitted, as EnvWithinInputs has it.
AsDefined(i, s, v) ==
  \/ s = Null /\ v = i.default /\ (i.required => v # NoText)
  \/ i.type = "int" /\ v.kind = "number"
     /\ (i.min.set => s.num >= i.min.num) /\ (i.max.set => s.num <= i.max.num)
     /\ (s.num \in 2 * IntMin .. 2 * IntMax => Cut(s.num, v.num))
     /\ (Whole(i.min) /\ Whole(i.max) => v.num \in i.min.num .. i.max.num)
  \/ i.type = "float" /\ v = s
     /\ (i.min.set => v.num >= i.min.num) /\ (i.max.set => v.num <= i.max.num)
  \/ i.type \in {"", "string"} /\ v = s /\ v.text \in i.pattern
     /\ (i.enum # {} => v.text \in i.enum)
  \/ i.type = "bool" /\ v = s /\ v.kind = "bool"
  \/ i.type \notin CheckedTypes /\ v = s

LEMMA NumberCut ==
  ASSUME NEW i, i.min.num \in Int, i.max.num \in Int,
         NEW h \in Int, WithinBounds(i, h), NEW n \in Int64(h)
  PROVE  /\ h \in 2 * IntMin .. 2 * IntMax => Cut(h, 2 * n)
         /\ Whole(i.min) /\ Whole(i.max) => 2 * n \in i.min.num .. i.max.num
<1> DEFINE lo == i.min.num
           hi == i.max.num
<1>1. n \in Int
  BY CutIsInt
<1>2. ASSUME Whole(i.min), Whole(i.max) PROVE 2 * n \in lo .. hi
  <2>1. /\ lo % 2 = 0 /\ lo \div 2 \in IntMin .. IntMax /\ lo \in Int
        /\ hi % 2 = 0 /\ hi \div 2 \in IntMin .. IntMax /\ hi \in Int
        /\ lo <= h /\ h <= hi
    BY <1>2 DEF Whole, WithinBounds
  <2> HIDE DEF lo, hi
  <2>2. \A x \in Int : x % 2 = 0 => 2 * (x \div 2) = x
    OBVIOUS
  <2>3. 2 * (lo \div 2) = lo /\ 2 * (hi \div 2) = hi
    BY <2>1, <2>2
  <2>4. PICK a \in IntMin .. IntMax, b \in IntMin .. IntMax : 2 * a = lo /\ 2 * b = hi
    BY <2>1, <2>3
  <2>5. n \in a .. b
    BY <2>1, <2>4, CutWithin
  <2> QED
    BY <1>1, <2>4, <2>5, IntAssumption
<1>3. ASSUME h \in 2 * IntMin .. 2 * IntMax PROVE Cut(h, 2 * n)
  <2>1. h - 2 * n \in (IF h > 0 THEN {0, 1} ELSE {-1, 0})
    BY <1>3, CutExactly
  <2>2. (2 * n) % 2 = 0
    BY <1>1
  <2> QED
    BY <2>1, <2>2 DEF Cut
<1> QED
  BY <1>2, <1>3

LEMMA ValueAsDefined ==
  ASSUME NEW i, NEW s, NEW v, i.min.num \in Int, i.max.num \in Int,
         s.kind = "null" => s = Null, s.kind = "number" => s.num \in Int,
         Valid(i, s), v \in EnvValues(i, s)
  PROVE  AsDefined(i, s, v)
<1>1. CASE s.kind = "null"
  BY <1>1 DEF Valid, EnvValues, AsDefined
<1>2. CASE s.kind = "number" /\ i.type = "int"
  <2>1. WithinBounds(i, s.num) /\ s.num \in Int
    BY <1>2 DEF Valid, CheckedTypes
  <2>2. EnvValues(i, s) = {Number(2 * n) : n \in Int64(s.num)}
    BY <1>2 DEF EnvValues
  <2>3. PICK n \in Int64(s.num) : v = Number(2 * n)
    BY <2>2
  <2>4. v.kind = "number" /\ v.num = 2 * n
    BY <2>3 DEF Number
  <2>5. /\ s.num \in 2 * IntMin .. 2 * IntMax => Cut(s.num, 2 * n)
        /\ Whole(i.min) /\ Whole(i.max) => 2 * n \in i.min.num .. i.max.num
    BY <2>1, NumberCut
  <2>6. (i.min.set => s.num >= i.min.num) /\ (i.max.set => s.num <= i.max.num)
    BY <2>1 DEF WithinBounds
  <2> QED
    BY <1>2, <2>4, <2>5, <2>6, Zenon DEF AsDefined
<1>3. CASE s.kind # "null" /\ ~ (s.kind = "number" /\ i.type = "int")
  <2>1. v = s
    BY <1>3 DEF EnvValues
  <2>2. CASE i.type = "float" /\ s.kind = "number" /\ WithinBounds(i, s.num)
    BY <2>1, <2>2, Zenon DEF AsDefined, WithinBounds
  <2>3. CASE i.type = "bool" /\ s.kind = "bool"
    BY <2>1, <2>3, Zenon DEF AsDefined
  <2>4. CASE i.type \notin CheckedTypes
    BY <2>1, <2>4, Zenon DEF AsDefined
  <2>5. CASE /\ i.type \in {"", "string"} /\ s.text \in i.pattern
             /\ i.enum # {} => s.text \in i.enum
    BY <2>1, <2>5, Zenon DEF AsDefined
  <2> QED
    BY <1>3, <2>2, <2>3, <2>4, <2>5 DEF Valid
<1> QED
  BY <1>1, <1>2, <1>3

\* The input that supplies a variable is one of the inputs, and names it.
LEMMA SuppliedBy ==
  ASSUME NEW inputs, NEW n \in Nat, DOMAIN inputs = 1 .. n, NEW e \in EnvNames(inputs)
  PROVE  \E j \in DOMAIN inputs : inputs[j].env = e /\ Supplier(inputs, e) = inputs[j]
<1> DEFINE K == {j \in DOMAIN inputs : inputs[j].env = e}
<1>1. K # {} /\ K \in SUBSET (0 .. n)
  <2>1. \E j \in DOMAIN inputs : inputs[j].env = e
    BY DEF EnvNames
  <2>2. DOMAIN inputs \subseteq 0 .. n
    OBVIOUS
  <2> QED
    BY <2>1, <2>2, Zenon
<1>2. PICK g \in K : \A m \in K : m <= g
  BY <1>1, GreatestNatural
<1>3. K \in SUBSET Int
  BY <1>1
<1>4. Max(K) = g
  <2> HIDE DEF K
  <2> QED
    BY <1>2, <1>3, MaxIs
<1> QED
  BY <1>2, <1>4 DEF Supplier

\* The variables of a script, and where each has its value from.
LEMMA ScriptVariables ==
  ASSUME NEW t, NEW environ, NEW inputs, NEW payload, t.env \in Envs(inputs, payload)
  PROVE  LET script == ScriptEnv(t, environ)
         IN /\ DOMAIN script \subseteq DOMAIN environ \cup Reserved \cup EnvNames(inputs)
            /\ \A e \in EnvNames(inputs) \ Reserved :
                 LET i == Supplier(inputs, e)
                 IN script[e] \in EnvValues(i, Field(payload, i.name))
<1> DEFINE own == OwnVars(t)
           script == ScriptEnv(t, environ)
           names == EnvNames(inputs)
<1>1. /\ DOMAIN t.env = names
      /\ \A e \in names : LET i == Supplier(inputs, e)
                          IN t.env[e] \in EnvValues(i, Field(payload, i.name))
  BY DEF Envs
<1>2. DOMAIN own \subseteq Reserved
  BY DEF OwnVars
<1>3. script = Over(own, Over(t.env, environ))
  BY DEF ScriptEnv
<1> HIDE DEF own, script, names
<1>4. /\ DOMAIN script = DOMAIN own \cup names \cup DOMAIN environ
      /\ \A e \in names : e \notin DOMAIN own => script[e] = t.env[e]
  BY <1>1, <1>3 DEF Over
<1> QED
  BY <1>1, <1>2, <1>4, Zenon DEF script, names

\* The definitions that main has have inputs as FilesAssumption has them.
LEMMA InputsRead ==
  ASSUME started \in DOMAIN Deployments, LoadExact, NEW name \in DOMAIN conf.tasks
  PROVE  LET inputs == conf.tasks[name].input
         IN /\ DOMAIN inputs = 1 .. Len(inputs) /\ Len(inputs) \in Nat
            /\ \A k \in DOMAIN inputs : inputs[k].min.num \in Int /\ inputs[k].max.num \in Int
<1> DEFINE dir   == deployment.dir
           main  == Main(dir)
           parts == Included(dir) \cup {dir.main}
<1>1. /\ dir.main \in DOMAIN dir.files
      /\ main.include \in Seq([local : BOOLEAN, matches : Seq(DOMAIN dir.files)])
      /\ \A f \in DOMAIN dir.files : \A task \in DOMAIN dir.files[f].tasks :
           LET inputs == dir.files[f].tasks[task].input
           IN /\ DOMAIN inputs = 1 .. Len(inputs) /\ Len(inputs) \in Nat
              /\ \A k \in DOMAIN inputs : inputs[k].min.num \in Int /\ inputs[k].max.num \in Int
  BY FilesAssumption, Zenon DEF deployment
<1>2. parts \subseteq DOMAIN dir.files
  <2> HIDE DEF main, dir
  <2>1. ASSUME NEW p \in DOMAIN main.include
        PROVE  ToSet(main.include[p].matches) \subseteq DOMAIN dir.files
    <3> DEFINE include  == main.include
               patterns == [local : BOOLEAN, matches : Seq(DOMAIN dir.files)]
    <3>1. include[p] \in patterns
      <4>1. include \in Seq(patterns) /\ p \in DOMAIN include
        BY <1>1, <2>1
      <4> HIDE DEF include, patterns
      <4> QED
        BY <4>1, ElementOfSeq, LenProperties
    <3>2. main.include[p].matches \in Seq(DOMAIN dir.files)
      BY <3>1
    <3> QED
      BY <3>2 DEF ToSet
  <2>2. Included(dir) = UNION {ToSet(main.include[p].matches) : p \in DOMAIN main.include}
    BY DEF Included, main
  <2> QED
    BY <1>1, <2>1, <2>2
<1>3. conf # NoConf
  <2>1. conf = NoConf => conf.tasks = <<>>
    BY DEF NoConf
  <2> QED
    BY <2>1
<1>4. /\ DOMAIN conf.tasks = UNION {TasksOf(dir, f) : f \in parts}
      /\ \A f \in parts : \A task \in TasksOf(dir, f) :
           conf.tasks[task] = dir.files[f].tasks[task]
  BY <1>3, Zenon DEF LoadExact, Main, Included, TasksOf
<1> HIDE DEF dir, main, parts
<1>5. PICK f \in parts : name \in TasksOf(dir, f)
  BY <1>4
<1>6. conf.tasks[name] = dir.files[f].tasks[name] /\ f \in DOMAIN dir.files
  BY <1>2, <1>4, <1>5
<1> QED
  BY <1>1, <1>5, <1>6 DEF TasksOf

\* README, "Input validation prevents": whatever a script finds under the name of
\* one of its inputs is what was submitted and has been found valid (Validate,
\* GetEnvValue, ValidatePayload, tasks.go; cmd.Env, worker.go), or the default;
\* and it finds nothing else there.
THEOREM InputsKept == Spec => []EnvWithinInputs
<1> SUFFICES ASSUME IInv, started \in DOMAIN Deployments, RequestInv, LoadExact
             PROVE  EnvWithinInputs
  BY RequestInvariant, TasksLoaded, PTL
<1> SUFFICES ASSUME NEW k \in DOMAIN tasks, DOMAIN tasks[k].script # {}
             PROVE  LET script == tasks[k].script
                        inputs == conf.tasks[tasks[k].name].input
                    IN /\ DOMAIN script \subseteq DOMAIN deployment.environ \cup Reserved
                                                  \cup EnvNames(inputs)
                       /\ \A e \in EnvNames(inputs) \ Reserved :
                            LET i == Supplier(inputs, e)
                                s == Field(senders[k].payload, i.name)
                            IN AsDefined(i, s, script[e])
  BY Zenon DEF EnvWithinInputs, AsDefined
<1> DEFINE t       == tasks[k]
           r       == senders[k]
           inputs  == conf.tasks[t.name].input
           environ == deployment.environ
<1>1. AskedBy(t, r)
  BY DEF RequestInv, TasksAsked
<1>2. /\ r \in Requests /\ t.name \in DOMAIN conf.tasks
      /\ Accepts(inputs, r.payload) /\ t.env \in Envs(inputs, r.payload)
  BY <1>1, Zenon DEF AskedBy, Resolves
<1>3. t.script = ScriptEnv(t, environ)
  <2>1. t.script # <<>>
    OBVIOUS
  <2> QED
    BY <1>1, <2>1 DEF AskedBy
<1>4. \A n \in DOMAIN r.payload :
        /\ r.payload[n].kind = "null" => r.payload[n] = Null
        /\ r.payload[n].kind = "number" => r.payload[n].num \in Int
  BY <1>2, RequestsAssumption, Zenon DEF Requests, deployment
<1>5. /\ DOMAIN inputs = 1 .. Len(inputs) /\ Len(inputs) \in Nat
      /\ \A j \in DOMAIN inputs : inputs[j].min.num \in Int /\ inputs[j].max.num \in Int
  BY <1>2, InputsRead
<1> HIDE DEF r, inputs, environ
<1>6. /\ DOMAIN t.script \subseteq DOMAIN environ \cup Reserved \cup EnvNames(inputs)
      /\ \A e \in EnvNames(inputs) \ Reserved :
           LET i == Supplier(inputs, e)
           IN t.script[e] \in EnvValues(i, Field(r.payload, i.name))
  <2> HIDE DEF t
  <2> QED
    BY <1>2, <1>3, ScriptVariables
<1>7. ASSUME NEW e \in EnvNames(inputs) \ Reserved
      PROVE  LET i == Supplier(inputs, e)
                 s == Field(r.payload, i.name)
             IN AsDefined(i, s, t.script[e])
  <2>1. PICK j \in DOMAIN inputs : Supplier(inputs, e) = inputs[j]
    <3> DEFINE n == Len(inputs)
    <3>1. n \in Nat /\ DOMAIN inputs = 1 .. n
      BY <1>5
    <3> HIDE DEF n
    <3> QED
      BY <3>1, SuppliedBy
  <2> DEFINE i == inputs[j]
             s == Field(r.payload, i.name)
             v == t.script[e]
  <2>2. Valid(i, s)
    BY <1>2 DEF Accepts
  <2>3. v \in EnvValues(i, s)
    BY <1>6, <2>1
  <2>4. i.min.num \in Int /\ i.max.num \in Int
    BY <1>5
  <2>5. (s.kind = "null" => s = Null) /\ (s.kind = "number" => s.num \in Int)
    BY <1>4 DEF Field, Null
  <2> HIDE DEF i, s, v, t
  <2>6. AsDefined(i, s, v)
    BY <2>2, <2>3, <2>4, <2>5, ValueAsDefined
  <2> QED
    BY <2>1, <2>6, Zenon DEF i, s, v
<1> QED
  BY <1>6, <1>7, Zenon DEF t, r, inputs, environ
==============================================================================
