------------------------------- MODULE Process -------------------------------
(***************************************************************************)
(* One aqsh process from its start to its exit: the settings it takes from *)
(* the environment and the command line (internal/config), what it refuses *)
(* to start with, its two servers under one errgroup (cmd/aqsh/main.go,    *)
(* Run in api.go and worker.go), and how signals end it.                   *)
(*                                                                         *)
(* A deployment is what the process is started with: its environment, its  *)
(* -mode flag and the files it reads.  Signals are SIGINT and SIGTERM.     *)
(***************************************************************************)
EXTENDS Identity, TaskConfig

CONSTANTS
  Deployments,   \* what the process may be started with, a function
  MaxSignals     \* bound: signals sent to it

\* env.auth holds the AQSH_AUTH_ variables that are there, but AQSH_AUTH_MODE
\* and those of a Kubernetes service of that name (authServiceLinkEnv); env has
\* "" for a variable that is not set.
Texts     == {"URL", "CA_FILE", "TOKEN_FILE", "CLUSTER_NAME"}
Flags     == {"ALLOW_HTTP", "TRUST_CLUSTER_EXTRA", "INCLUDE_CLUSTER_IN_IDENTITY"}
Durations == {"REQUEST_TIMEOUT", "CACHE_TTL"}
AuthKeys  == Texts \cup Flags \cup Durations \cup {"AUDIENCES"}

ASSUME DeploymentsAssumption ==
  \A d \in DOMAIN Deployments :
    \A key \in DOMAIN Deployments[d].env.auth \cap Durations :
      Deployments[d].env.auth[key] \in [parses : BOOLEAN, ms : Int]
ASSUME SignalsAssumption == MaxSignals \in Nat

\* Of a tasks directory: there is a main file, patterns find files, a task has a
\* list of inputs, and their bounds are numbers.
ASSUME FilesAssumption ==
  \A d \in DOMAIN Deployments :
    LET dir == Deployments[d].dir
    IN /\ dir.main \in DOMAIN dir.files
       /\ Main(dir).include \in Seq([local : BOOLEAN, matches : Seq(DOMAIN dir.files)])
       /\ \A f \in DOMAIN dir.files : \A name \in DOMAIN dir.files[f].tasks :
            LET inputs == dir.files[f].tasks[name].input
            IN /\ DOMAIN inputs = 1 .. Len(inputs) /\ Len(inputs) \in Nat
               /\ \A k \in DOMAIN inputs : inputs[k].min.num \in Int /\ inputs[k].max.num \in Int

VARIABLES
  started,    \* which deployment it was started with
  cfg,        \* config.Config, once main has loaded it
  conf,       \* tasksCfg, once main has loaded it
  pc,         \* main: the step it has done
  code,       \* its exit code
  ctx,        \* the errgroup's context: "live" or "done"
  failed,     \* a server has returned an error (the errgroup's)
  api,        \* apiServer.Run
  closer,     \* the goroutine in it that calls srv.Shutdown
  reviewer,   \* the API holds the reviewer's credentials
  worker,     \* workerServer.Run, that is asynq's Server.Run
  toMain,     \* main's signal channel and its goroutine
  toWorker,   \* asynq's signal channel
  sent        \* signals sent so far

deployment == Deployments[started]

servers   == <<ctx, failed, api, closer, reviewer, worker>>
signals   == <<toMain, toWorker, sent>>
loaded    == <<started, cfg, conf>>
processes == <<loaded, pc, code, servers, signals>>

-----------------------------------------------------------------------------
\* config.Load and loadAuthEnv.

Or(value, default) == IF value # "" THEN value ELSE default

\* getEnvBool: anything else counts as false.
IsTrue(text) == text \in {"true", "1"}

\* strconv.ParseBool; two texts stand for those it knows.
ParseBool(text) == text = "true"
BoolTexts       == {"true", "false"}

\* The value of an authentication variable, or its default.
Auth(env, key, default) == IF key \in DOMAIN env.auth THEN env.auth[key] ELSE default

\* Durations are [parses, ms].
Ms(n) == [parses |-> TRUE, ms |-> n]

RequestTimeout == Ms(5000)
CacheTTL       == Ms(10000)
Minute         == 60000

\* Mutation: a text that is no truth value or duration is as good as no text.
LenientAuthEnvOk(env) ==
  DOMAIN env.auth # {} =>
    /\ env.authMode = "kubernetes"
    /\ DOMAIN env.auth \subseteq AuthKeys

\* loadAuthEnv's error: any of these variables is one outside of native mode.
AuthEnvOk(env) ==
  \A key \in DOMAIN env.auth :
    /\ env.authMode = "kubernetes"
    /\ key \in AuthKeys
    /\ key \in Flags => env.auth[key] \in BoolTexts
    /\ key \in Durations => env.auth[key].parses
    /\ key = "REQUEST_TIMEOUT" => env.auth[key].ms # 0

LoadAuth(env) ==
  [url            |-> Auth(env, "URL", ""),
   caFile         |-> Auth(env, "CA_FILE", ""),
   tokenFile      |-> Auth(env, "TOKEN_FILE", ""),
   cluster        |-> Auth(env, "CLUSTER_NAME", <<>>),
   allowHTTP      |-> ParseBool(Auth(env, "ALLOW_HTTP", "false")),
   trustExtra     |-> ParseBool(Auth(env, "TRUST_CLUSTER_EXTRA", "false")),
   includeCluster |-> ParseBool(Auth(env, "INCLUDE_CLUSTER_IN_IDENTITY", "false")),
   requestTimeout |-> Auth(env, "REQUEST_TIMEOUT", RequestTimeout).ms,
   cacheTTL       |-> Auth(env, "CACHE_TTL", CacheTTL).ms,
   audiences      |-> Auth(env, "AUDIENCES", <<>>)]

\* config.Load, and main's -mode flag over it.
Settings(d) ==
  [mode            |-> Or(d.flag, Or(d.env.mode, "both")),
   authMode        |-> Or(d.env.authMode, "trusted-header"),
   auth            |-> LoadAuth(d.env),
   authEnvOk       |-> AuthEnvOk(d.env),
   workerQueues    |-> IF d.env.queues = {} THEN {"default"} ELSE d.env.queues,
   requireIdentity |-> IsTrue(d.env.requireIdentity)]

Unloaded == [mode |-> "", authMode |-> "", auth |-> LoadAuth([auth |-> <<>>]),
             authEnvOk |-> TRUE, workerQueues |-> {}, requireIdentity |-> FALSE]

-----------------------------------------------------------------------------
\* auth.Config.Validate and Config.Validate.

\* validEndpoint; a URL is known by its scheme, "" or another text if it is
\* none or has credentials, a query or a fragment.
ValidEndpoint(url, allowHTTP) == url = "https" \/ (allowHTTP /\ url = "http")

ValidAuth(a) ==
  /\ a.audiences # <<>>
  /\ \A k \in DOMAIN a.audiences :
       a.audiences[k] # <<>> /\ Trim(a.audiences[k]) = a.audiences[k]
  /\ a.requestTimeout \in 1 .. Minute
  /\ a.cacheTTL \in 0 .. Minute
  /\ a.cluster # <<>> => ClusterName(a.cluster)
  /\ a.includeCluster /\ ~a.trustExtra => a.cluster # <<>>
  /\ a.trustExtra => a.cluster = <<>>
  /\ a.tokenFile # ""
  /\ ValidEndpoint(a.url, a.allowHTTP)

\* Mutation: native authentication is checked, but not the mode it is used in.
ValidInAnyMode(c) ==
  /\ c.mode \in {"api", "worker", "both"}
  /\ \/ c.mode = "worker"
     \/ /\ c.authEnvOk
        /\ \/ c.authMode = "trusted-header"
           \/ c.authMode = "kubernetes" /\ ValidAuth(c.auth)

\* Workers do not need the API's authentication settings, and may have wrong
\* ones.
ValidConfig(c) ==
  /\ c.mode \in {"api", "worker", "both"}
  /\ \/ c.mode = "worker"
     \/ /\ c.authEnvOk
        /\ \/ c.authMode = "trusted-header"
           \/ c.authMode = "kubernetes" /\ c.mode = "api" /\ ValidAuth(c.auth)

Native == cfg.authMode = "kubernetes"

\* asynq.NewServer drops queue names that are blank, and serves "default" if
\* none is left.
Blanks == {"", " "}
ServedQueues ==
  IF cfg.workerQueues \subseteq Blanks THEN {"default"} ELSE cfg.workerQueues \ Blanks

-----------------------------------------------------------------------------
ProcessTypeOK ==
  /\ started \in DOMAIN Deployments
  /\ cfg \in {Unloaded, Settings(deployment)}
  /\ DOMAIN conf = {"defaults", "tasks"}
  /\ pc \in {"start", "configured", "loaded", "connected", "watching", "waiting",
             "exited", "killed"}
  /\ code \in {0, 1}
  /\ ctx \in {"live", "done"}
  /\ failed \in BOOLEAN
  /\ api \in {"off", "starting", "prepared", "listening", "returned"}
  /\ closer \in {"off", "waiting", "closing"}
  /\ reviewer \in BOOLEAN
  /\ worker \in {"off", "starting", "unattended", "attended", "stopping", "stopped"}
  /\ toMain \in {"empty", "pending", "heard"}
  /\ toWorker \in {"empty", "pending", "heard"}
  /\ sent \in 0 .. MaxSignals

ProcessInit ==
  /\ started \in DOMAIN Deployments
  /\ cfg = Unloaded
  /\ conf = NoConf
  /\ pc = "start"
  /\ code = 0
  /\ ctx = "live"
  /\ failed = FALSE
  /\ api = "off"
  /\ closer = "off"
  /\ reviewer = FALSE
  /\ worker = "off"
  /\ toMain = "empty"
  /\ toWorker = "empty"
  /\ sent = 0

-----------------------------------------------------------------------------
\* main, up to its errgroup.

\* A step of main, and one that may end in os.Exit(1) instead.
Advance(from, to) == pc = from /\ pc' = to /\ UNCHANGED code

Proceed(from, to, ok) ==
  /\ pc = from
  /\ IF ok THEN pc' = to /\ UNCHANGED code
           ELSE pc' = "exited" /\ code' = 1

Configure ==
  /\ cfg' = Settings(deployment)
  /\ Proceed("start", "configured", ValidConfig(cfg'))
  /\ UNCHANGED <<started, conf, servers, signals>>

LoadTasks ==
  /\ LET result == Load(deployment.dir)
     IN /\ Proceed("configured", "loaded", result.ok)
        /\ conf' = IF result.ok THEN result.conf ELSE conf
  /\ UNCHANGED <<started, cfg, servers, signals>>

\* The Ping, which may fail.
Connect ==
  /\ \E ok \in BOOLEAN : Proceed("loaded", "connected", ok)
  /\ UNCHANGED <<loaded, servers, signals>>

\* signal.Notify
Watch ==
  /\ Advance("connected", "watching")
  /\ UNCHANGED <<loaded, servers, signals>>

\* The servers' goroutines are started.
Launch ==
  /\ Advance("watching", "waiting")
  /\ api' = IF cfg.mode \in {"api", "both"} THEN "starting" ELSE "off"
  /\ worker' = IF cfg.mode \in {"worker", "both"} THEN "starting" ELSE "off"
  /\ UNCHANGED <<loaded, ctx, failed, closer, reviewer, signals>>

\* Mutation: main does not wait for the second server when one has failed.
ExitAtFirstError ==
  /\ api \in {"off", "returned"}
  /\ worker \in {"off", "stopped"} \/ failed
  /\ Proceed("waiting", "exited", ~failed)
  /\ UNCHANGED <<loaded, servers, signals>>

\* g.Wait returns when both servers have.  The API never returns without an
\* error (ListenAndServe has none to return), so a process with an API exits
\* with 1 also after a regular shutdown.
Exit ==
  /\ api \in {"off", "returned"}
  /\ worker \in {"off", "stopped"}
  /\ Proceed("waiting", "exited", ~failed)
  /\ UNCHANGED <<loaded, servers, signals>>

-----------------------------------------------------------------------------
\* Signals.

Running == pc \notin {"exited", "killed"}

Arrives(channel) == IF channel = "empty" THEN "pending" ELSE channel

\* Before Notify a signal kills the process; afterwards it goes to every
\* channel that has been registered.
Signal ==
  /\ Running
  /\ sent < MaxSignals
  /\ sent' = sent + 1
  /\ IF pc \in {"watching", "waiting"}
     THEN /\ toMain' = Arrives(toMain)
          /\ toWorker' = IF worker = "attended" THEN Arrives(toWorker) ELSE toWorker
          /\ UNCHANGED pc
     ELSE /\ pc' = "killed"
          /\ UNCHANGED <<toMain, toWorker>>
  /\ UNCHANGED <<loaded, code, servers>>

\* Mutation: main's goroutine only notes the signal.
MainHearsOnly ==
  /\ Running
  /\ toMain = "pending"
  /\ toMain' = "heard"
  /\ UNCHANGED <<loaded, pc, code, servers, toWorker, sent>>

\* main's goroutine takes one signal, and cancels.
MainHears ==
  /\ Running
  /\ toMain = "pending"
  /\ toMain' = "heard"
  /\ ctx' = "done"
  /\ UNCHANGED <<loaded, pc, code, failed, api, closer, reviewer, worker,
                 toWorker, sent>>

-----------------------------------------------------------------------------
\* The API's Run.

\* It returns an error, which ends the context of the group.
ApiReturns == api' = "returned" /\ failed' = TRUE /\ ctx' = "done"

\* auth.New: the CA file, if there is one, and the token file are readable.
CanReview ==
  /\ ValidAuth(cfg.auth)
  /\ cfg.auth.caFile # "" => cfg.auth.caFile \in deployment.readable
  /\ cfg.auth.tokenFile \in deployment.readable

\* Validate (again), the authenticator, the goroutine that will shut down.
PrepareApi ==
  /\ Running
  /\ api = "starting"
  /\ IF ValidConfig(cfg) /\ (Native => CanReview)
     THEN /\ api' = "prepared"
          /\ closer' = "waiting"
          /\ reviewer' = Native
          /\ UNCHANGED <<ctx, failed>>
     ELSE ApiReturns /\ UNCHANGED <<closer, reviewer>>
  /\ UNCHANGED <<loaded, pc, code, worker, signals>>

\* ListenAndServe: the address is taken, Shutdown was faster, or it listens.
Listen ==
  /\ Running
  /\ api = "prepared"
  /\ \/ closer = "waiting" /\ api' = "listening" /\ UNCHANGED <<ctx, failed>>
     \/ ApiReturns
  /\ UNCHANGED <<loaded, pc, code, closer, reviewer, worker, signals>>

\* srv.Shutdown: the listener is closed; the requests in flight get 5 s.
BeginShutdown ==
  /\ Running
  /\ closer = "waiting"
  /\ ctx = "done"
  /\ closer' = "closing"
  /\ UNCHANGED <<loaded, pc, code, ctx, failed, api, reviewer, worker, signals>>

\* ListenAndServe returns at once, whatever Shutdown is still waiting for.
StopListening ==
  /\ Running
  /\ api = "listening"
  /\ closer = "closing"
  /\ ApiReturns
  /\ UNCHANGED <<loaded, pc, code, closer, reviewer, worker, signals>>

\* Serve gives up on its listener (an error of Accept that is not a temporary
\* one); the requests in flight go on.
ServeFails ==
  /\ Running
  /\ api = "listening"
  /\ ApiReturns
  /\ UNCHANGED <<loaded, pc, code, closer, reviewer, worker, signals>>

-----------------------------------------------------------------------------
\* The worker's Run: asynq's server, which is not given the context.

WorkerStep(from, to) ==
  /\ Running
  /\ worker = from
  /\ worker' = to
  /\ UNCHANGED <<loaded, pc, code, ctx, failed, api, closer, reviewer>>

\* Server.Start: it takes tasks.
StartWorker == WorkerStep("starting", "unattended") /\ UNCHANGED signals

\* waitForSignals: only from here on it learns of signals.
AttendSignals == WorkerStep("unattended", "attended") /\ UNCHANGED signals

WorkerHears ==
  /\ toWorker = "pending"
  /\ toWorker' = "heard"
  /\ WorkerStep("attended", "stopping")
  /\ UNCHANGED <<toMain, sent>>

\* Server.Shutdown has returned: its tasks have ended or are back in the queue.
StopWorker == WorkerStep("stopping", "stopped") /\ UNCHANGED signals

-----------------------------------------------------------------------------
MainStep == Configure \/ LoadTasks \/ Connect \/ Watch \/ Launch \/ Exit
ApiStep  == PrepareApi \/ Listen \/ StopListening

\* StopWorker is left to who knows of tasks.
ProcessNext ==
  \/ MainStep \/ Signal \/ MainHears
  \/ ApiStep \/ BeginShutdown \/ ServeFails
  \/ StartWorker \/ AttendSignals \/ WorkerHears

-----------------------------------------------------------------------------
\* "Validate prevents loading reviewer credentials into a process that runs
\* tasks" (config.go): the API of a process holds them only if there is, and
\* will be, no worker in it, whichever of environment and flag set the mode.
CredentialsApart == reviewer => worker = "off" /\ cfg.mode = "api"

\* "Authentication settings fail on invalid input instead of silently
\* changing policy" (auth.go in config): a process whose API has got as far as
\* serving runs under the mode that its environment names, natively if and only
\* if it says so, and each authentication variable of its environment is known
\* and has the effect it spells; the times are those that waiting requests
\* and the review cache rely on.
SettingsEffective ==
  api \in {"prepared", "listening"} =>
    LET env == deployment.env
    IN /\ env.authMode \in {"", "trusted-header", "kubernetes"}
       /\ reviewer <=> env.authMode = "kubernetes"
       /\ DOMAIN env.auth # {} => reviewer
       /\ DOMAIN env.auth \subseteq AuthKeys
       /\ \A key \in DOMAIN env.auth \cap Flags :
            env.auth[key] = "true" \/ env.auth[key] = "false"
       /\ Auth(env, "REQUEST_TIMEOUT", RequestTimeout) = Ms(cfg.auth.requestTimeout)
       /\ Auth(env, "CACHE_TTL", CacheTTL) = Ms(cfg.auth.cacheTTL)
       /\ reviewer => /\ cfg.auth.requestTimeout \in 1 .. Minute
                      /\ cfg.auth.cacheTTL \in 0 .. Minute
                      /\ cfg.auth.includeCluster =>
                           (cfg.auth.trustExtra <=> cfg.auth.cluster = <<>>)

\* Load (tasks.go): main goes on with the tasks of the main file and of every
\* included file, each as its one file has it; and it does so unless a pattern,
\* a file or a pair of files is at fault.
LoadExact ==
  LET dir      == deployment.dir
      main     == dir.files[dir.main]
      included == UNION {ToSet(main.include[p].matches) : p \in DOMAIN main.include}
      parts    == included \cup {dir.main}
      tasksOf(f) == DOMAIN dir.files[f].tasks
      sound    == /\ \A f \in parts : dir.files[f].ok /\ ValidInputs(dir.files[f].tasks)
                  /\ \A f \in included : /\ dir.files[f].include = <<>>
                                         /\ dir.files[f].defaults = NoDefaults
                  /\ \A f, g \in parts : f # g => tasksOf(f) \cap tasksOf(g) = {}
                  /\ \A p \in DOMAIN main.include : main.include[p].local
  IN /\ conf # NoConf =>
          /\ sound
          /\ conf.defaults = main.defaults
          /\ DOMAIN conf.tasks = UNION {tasksOf(f) : f \in parts}
          /\ \A f \in parts : \A name \in tasksOf(f) :
               conf.tasks[name] = dir.files[f].tasks[name]
     /\ pc = "exited" /\ ValidConfig(cfg) /\ conf = NoConf =>
          ~sound \/ \A f \in parts : tasksOf(f) = {}
===============================================================================
