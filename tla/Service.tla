------------------------------- MODULE Service -------------------------------
(***************************************************************************)
(* What an aqsh process does for its callers while it runs: a request goes *)
(* through the access log, the authentication middleware and its handler   *)
(* (handler, api.go); what a submission puts in the queue is run by the    *)
(* process's own worker or, in mode api, by a worker elsewhere             *)
(* (executeScript, worker.go).  Process starts and stops under it, so a    *)
(* request may be cut off after any step.                                  *)
(*                                                                         *)
(* Requests do not share anything here but the queue, so one is in flight  *)
(* at a time; the caches that concurrent requests share are in ReviewCache *)
(* and Submission, and an execution's retries in Execution.                *)
(***************************************************************************)
EXTENDS Process

CONSTANTS
  MaxTasks   \* bound: tasks put in the queue

ASSUME TasksAssumption == MaxTasks \in Nat

\* Names are texts, a token that is sent can be asked about, and JSON's null is
\* nothing else.
ASSUME RequestsAssumption ==
  \A d \in DOMAIN Deployments :
    LET D == Deployments[d]
        names == Seq(STRING)
    IN /\ "CLUSTER_NAME" \in DOMAIN D.env.auth => D.env.auth["CLUSTER_NAME"] \in names
       /\ \A t \in DOMAIN D.reviews :
            /\ D.reviews[t].user \in names
            /\ D.reviews[t].groups \in Seq(names)
            /\ D.reviews[t].clusters \in Seq(names)
       /\ \A r \in D.requests :
            /\ r.kind \in {"submit", "list", "health", "status"}
            /\ Bears(r) => r.credentials[1] \in DOMAIN D.reviews
            /\ \A n \in DOMAIN r.payload :
                 /\ r.payload[n].kind = "null" => r.payload[n] = Null
                 /\ r.payload[n].kind = "number" => r.payload[n].num \in Int
            /\ r = [kind |-> r.kind, task |-> r.task, of |-> r.of,
                    credentials |-> r.credentials, userHeader |-> r.userHeader,
                    groupsHeader |-> r.groupsHeader, payload |-> r.payload]

VARIABLES
  req,      \* the request in flight
  answer,   \* the last one answered, with its line in the access log
  tasks,    \* the tasks in Redis, in the order of their enqueuing
  senders   \* the requests that put them there, as they were sent

requests == <<req, answer, tasks, senders>>
vars     == <<processes, requests>>

NoOne     == [identity |-> <<>>, groups |-> <<>>]
NoRequest == [at |-> "none"]
NoAnswer  == [code |-> 0]

\* A request is [kind, task, of, credentials, userHeader, groupsHeader, payload];
\* kind is "submit" (of a task of that name), "list", "health" or "status" (of
\* the task of that number).
Requests == deployment.requests

\* The variables that the worker sets itself.
Reserved == {"AQSH_TASK_ID", "AQSH_RESULT_FILE", "AQSH_IDENTITY", "AQSH_GROUPS"}

States == {"queued", "running", "done"}

ServiceTypeOK ==
  /\ ProcessTypeOK
  /\ req.at \in {"none", "arrived", "identified", "accepted"}
  /\ req.at # "none" =>
       /\ req.r.kind \in {"submit", "list", "health", "status"}
       /\ req.asSent \in Requests
       /\ req.principal.verified => Native
  /\ answer.code \in {0, 200, 202, 400, 401, 403, 404, 502, 503, 504}
  /\ Len(tasks) = Len(senders) /\ Len(tasks) \in 0 .. MaxTasks
  /\ \A k \in DOMAIN tasks :
       /\ tasks[k].state \in States
       /\ Resolves(conf, tasks[k].name)
       /\ DOMAIN tasks[k].env = EnvNames(conf.tasks[tasks[k].name].input)
       /\ senders[k] \in Requests

Init ==
  /\ ProcessInit
  /\ req = NoRequest
  /\ answer = NoAnswer
  /\ tasks = <<>>
  /\ senders = <<>>

-----------------------------------------------------------------------------
\* Requests.

Serving == Running /\ req.at # "none"

\* A connection is accepted; the request waits to be authenticated.
Arrive(r) ==
  /\ Running
  /\ api = "listening"
  /\ req.at = "none"
  /\ r.kind = "submit" => Len(tasks) < MaxTasks
  /\ r.kind = "status" => r.of \in DOMAIN tasks
  /\ req' = [at |-> "arrived", r |-> r, asSent |-> r, principal |-> NoPrincipal]
  /\ answer' = NoAnswer
  /\ UNCHANGED <<processes, tasks, senders>>

\* The request is answered, and accessLog names its caller.
Respond(status) ==
  /\ req' = NoRequest
  /\ answer' = [code |-> status, asSent |-> req.asSent,
                caller |-> Caller(Native, req.r, req.principal)]

\* What the handlers see of a request: the middleware takes away its
\* credentials and the headers that forward an identity.
Stripped(r) == [r EXCEPT !.credentials = <<>>, !.userHeader = <<>>,
                         !.groupsHeader = <<>>]

Pass(r, p) == req' = [req EXCEPT !.at = "identified", !.r = r, !.principal = p]

\* Middleware, or no middleware in trusted-header mode.  GET /health and
\* /metrics pass without credentials.
Open ==
  /\ Serving /\ req.at = "arrived"
  /\ ~Native \/ req.r.kind = "health"
  /\ Pass(req.r, NoPrincipal)
  /\ UNCHANGED <<processes, answer, tasks, senders>>

\* The review of its token: a principal, 401, or 503 if the endpoint cannot
\* be asked.
Authenticate ==
  /\ Serving /\ req.at = "arrived"
  /\ Native /\ req.r.kind # "health"
  /\ \/ /\ ~Bears(req.r)
        /\ Respond(401)
     \/ /\ Bears(req.r)
        /\ LET s == deployment.reviews[req.r.credentials[1]]
           IN \/ /\ Accepted(cfg.auth, s)
                 /\ Pass(Stripped(req.r), PrincipalOf(cfg.auth, s))
                 /\ UNCHANGED answer
              \/ ~Accepted(cfg.auth, s) /\ Respond(401)
              \/ Respond(503)
  /\ UNCHANGED <<processes, tasks, senders>>

Handling(kind) == Serving /\ req.at = "identified" /\ req.r.kind = kind

caller == Caller(Native, req.r, req.principal)

\* handleHealth answers 200 also when Redis does not.
Health ==
  /\ Handling("health")
  /\ Respond(200)
  /\ UNCHANGED <<processes, tasks, senders>>

\* handleListTasks does not look at Resolve's error: with a task that has no
\* resolved form it panics, and the connection is closed without an answer.
List ==
  /\ Handling("list")
  /\ IF \A name \in DOMAIN conf.tasks : Resolves(conf, name)
     THEN Respond(200)
     ELSE req' = NoRequest /\ UNCHANGED answer
  /\ UNCHANGED <<processes, tasks, senders>>

\* handleGetExecution asks for the task in "default" and the worker queues;
\* any error, of Redis too, is "not found".
Status ==
  LET k == req.r.of
  IN /\ Handling("status")
     /\ \/ /\ tasks[k].queue \in {"default"} \cup cfg.workerQueues
           /\ req' = NoRequest
           /\ answer' = [code |-> 200, asSent |-> req.asSent, caller |-> caller,
                         shown |-> [identity |-> tasks[k].identity,
                                    groups |-> tasks[k].groups]]
        \/ Respond(404)
     /\ UNCHANGED <<processes, tasks, senders>>

-----------------------------------------------------------------------------
\* handleSubmitTask.

Def == conf.tasks[req.r.task]

\* Some submitted value has to be in a list that is fetched (Submission says
\* when), and is not, or the list cannot be asked for or had.
MayLackValue ==
  \E k \in DOMAIN Def.input :
    Def.input[k].url /\ Field(req.r.payload, Def.input[k].name) # Null

Unidentified == cfg.requireIdentity /\ caller.identity = <<>>

\* Mutation: Resolve's error is not looked at.
PermittedUnresolved ==
  /\ ~Unidentified
  /\ req.r.task \in DOMAIN conf.tasks
  /\ MayRun(Def, caller, req.principal)

Permitted ==
  /\ ~Unidentified
  /\ Resolves(conf, req.r.task)
  /\ MayRun(Def, caller, req.principal)

\* The environment is made; ValidatePayload has accepted.
Accept(env) ==
  /\ req' = [at |-> "accepted", r |-> req.r, asSent |-> req.asSent,
            principal |-> req.principal, env |-> env]
  /\ UNCHANGED answer

\* Up to ValidatePayload: refused, or accepted with an environment.
Submit ==
  /\ Handling("submit")
  /\ \/ Unidentified /\ Respond(401)
     \/ ~Unidentified /\ ~Resolves(conf, req.r.task) /\ Respond(404)
     \/ /\ ~Unidentified /\ Resolves(conf, req.r.task)
        /\ ~MayRun(Def, caller, req.principal)
        /\ Respond(403)
     \/ /\ Permitted /\ MayLackValue
        /\ \E status \in {400, 403, 502, 504} : Respond(status)
     \/ Permitted /\ ~Accepts(Def.input, req.r.payload) /\ Respond(400)
     \/ /\ Permitted /\ Accepts(Def.input, req.r.payload)
        /\ \E env \in Envs(Def.input, req.r.payload) : Accept(env)
  /\ UNCHANGED <<processes, tasks, senders>>

NewTask ==
  [name |-> req.r.task, queue |-> Queue(conf, req.r.task),
   timeout |-> Timeout(conf, req.r.task), maxRetry |-> MaxRetry(conf, req.r.task),
   identity |-> caller.identity, groups |-> caller.groups, env |-> req.env,
   state |-> "queued", script |-> <<>>]

\* The Enqueue: 202, or 503 with or without Redis having taken the task.
Enqueue ==
  /\ Serving /\ req.at = "accepted"
  /\ \/ /\ tasks' = Append(tasks, NewTask)
        /\ senders' = Append(senders, req.asSent)
        /\ Respond(202) \/ Respond(503)
     \/ Respond(503) /\ UNCHANGED <<tasks, senders>>
  /\ UNCHANGED processes

\* The process is gone, and its requests with it.
CutOff ==
  /\ ~Running
  /\ req # NoRequest
  /\ req' = NoRequest
  /\ UNCHANGED <<processes, answer, tasks, senders>>

-----------------------------------------------------------------------------
\* Tasks.

\* aqsh's variables for the script of t; those of the caller are only set if
\* there is one.
OwnVars(t) ==
  LET values == [AQSH_TASK_ID  |-> <<"id">>, AQSH_RESULT_FILE |-> <<"file">>,
                 AQSH_IDENTITY |-> t.identity, AQSH_GROUPS |-> t.groups]
  IN [n \in {m \in Reserved : values[m] # <<>>} |-> Text(values[n])]

\* Mutation: the variables of the inputs come last.
ScriptEnvInputsLast(t, environ) == Over(t.env, Over(OwnVars(t), environ))

\* cmd.Env: the worker's own environment, then the inputs, then aqsh's
\* variables.
ScriptEnv(t, environ) == Over(OwnVars(t), Over(t.env, environ))

Started(t, state) ==
  [t EXCEPT !.state = state, !.script = ScriptEnv(t, deployment.environ)]

\* The process's worker takes a task out of a queue it serves, and runs its
\* script.
StartTask(k) ==
  /\ Running
  /\ worker \in {"unattended", "attended"}
  /\ tasks[k].state = "queued"
  /\ tasks[k].queue \in ServedQueues
  /\ tasks' = [tasks EXCEPT ![k] = Started(@, "running")]
  /\ UNCHANGED <<processes, req, answer, senders>>

\* A worker elsewhere, with the same definitions, runs it.
RunElsewhere(k) ==
  /\ cfg.mode = "api"
  /\ tasks[k].state = "queued"
  /\ tasks' = [tasks EXCEPT ![k] = Started(@, "done")]
  /\ UNCHANGED <<processes, req, answer, senders>>

FinishTask(k) ==
  /\ Running
  /\ tasks[k].state = "running"
  /\ tasks' = [tasks EXCEPT ![k].state = "done"]
  /\ UNCHANGED <<processes, req, answer, senders>>

\* asynq's Shutdown: what has not ended after its timeout goes back to the
\* queue.
HandBack ==
  /\ StopWorker
  /\ tasks' = [k \in DOMAIN tasks |->
                 IF tasks[k].state = "running" THEN [tasks[k] EXCEPT !.state = "queued"]
                                               ELSE tasks[k]]
  /\ UNCHANGED <<req, answer, senders>>

-----------------------------------------------------------------------------
Handler == Health \/ List \/ Status \/ Submit \/ Enqueue

Next ==
  \/ ProcessNext /\ UNCHANGED requests
  \/ \E r \in Requests : Arrive(r)
  \/ Open \/ Authenticate \/ Handler \/ CutOff
  \/ \E k \in DOMAIN tasks : StartTask(k) \/ RunElsewhere(k) \/ FinishTask(k)
  \/ HandBack

Spec == Init /\ [][Next]_vars

\* Goroutines run, and asynq's Shutdown returns (it has a timeout).  Nothing is
\* assumed of requests, of scripts, of Redis, or of anybody sending a signal.
Fairness ==
  /\ WF_vars(Exit /\ UNCHANGED requests)
  /\ WF_vars(MainHears /\ UNCHANGED requests)
  /\ WF_vars(Launch /\ UNCHANGED requests)
  /\ WF_vars(ApiStep /\ UNCHANGED requests)
  /\ WF_vars(BeginShutdown /\ UNCHANGED requests)
  /\ WF_vars(WorkerHears /\ UNCHANGED requests)
  /\ WF_vars(HandBack)

FairSpec == Spec /\ Fairness

-----------------------------------------------------------------------------
\* What was attested of the sender of task k: by the review of its token, or,
\* in trusted-header mode, by the headers.
Attested(r) ==
  IF Native
  THEN LET s == deployment.reviews[r.credentials[1]]
           p == IF cfg.auth.includeCluster THEN Cluster(cfg.auth, s) \o <<"/">> ELSE <<>>
       IN [identity |-> p \o s.user, groups |-> {p \o g : g \in ToSet(s.groups)}]
  ELSE [identity |-> r.userHeader, groups |-> SplitGroups(r.groupsHeader)]

Names(record, attested) ==
  /\ record.identity = attested.identity
  /\ SplitGroups(record.groups) = attested.groups

\* "The same verified identity/groups flow into task authorization, [...]
\* queued identity/groups" (docs/authentication.md): every task names the sender
\* of the request that queued it, in a form from which the groups can be read
\* back, and is one that this sender may run.
QueuedForSender ==
  \A k \in DOMAIN tasks :
    LET who == Attested(senders[k])
        def == conf.tasks[tasks[k].name]
    IN /\ Native => Len(senders[k].credentials) = 1
       /\ Names(tasks[k], who)
       /\ def.allowedUsers \cup def.allowedGroups # {} =>
            who.identity \in def.allowedUsers \/ who.groups \cap def.allowedGroups # {}

\* "AQSH_IDENTITY/AQSH_GROUPS in scripts" are the same: a script is told the
\* sender of its task, and its own task, whatever the inputs and the worker's
\* environment are called.  Only without native authentication can a sender have
\* no name; and where there is no name, or no group, the script finds one only
\* if the task's definition or the worker's environment has such a variable.
ScriptTold ==
  \A k \in DOMAIN tasks :
    LET t      == tasks[k]
        s      == t.script
        who    == Attested(senders[k])
        others == EnvNames(conf.tasks[t.name].input) \cup DOMAIN deployment.environ
    IN DOMAIN s # {} =>
         /\ s["AQSH_TASK_ID"] = Text(<<"id">>)
         /\ who.identity # <<>> => s["AQSH_IDENTITY"].text = who.identity
         /\ who.identity = <<>> =>
              ~Native /\ ("AQSH_IDENTITY" \in DOMAIN s => "AQSH_IDENTITY" \in others)
         /\ who.groups # {} => SplitGroups(s["AQSH_GROUPS"].text) = who.groups
         /\ who.groups = {} /\ "AQSH_GROUPS" \in DOMAIN s =>
              "AQSH_GROUPS" \in others \/ SplitGroups(s["AQSH_GROUPS"].text) = {}

\* "[...] execution responses and access logs" too: a request is logged under
\* its verified sender, or under no name; never under one that only its headers
\* give, whether it was let in, refused, or needed no credentials.  A status
\* shows the sender of the task.
LoggedSender ==
  answer.code # 0 =>
    LET r == answer.asSent
    IN /\ \/ answer.caller = NoOne
          \/ (Native => Bears(r)) /\ Names(answer.caller, Attested(r))
       /\ answer.code \in {200, 202} /\ r.kind # "health" =>
            answer.caller.identity = Attested(r).identity
       /\ answer.code = 200 /\ r.kind = "status" =>
            Names(answer.shown, Attested(senders[r.of]))

\* docs/authentication.md: cluster names exclude "/" so that they are one
\* segment of a qualified name.  With qualification on, tasks with one identity
\* come from one user of one cluster, and no group of one cluster is spelled
\* like one of another.
ClustersApart ==
  Native /\ cfg.auth.includeCluster =>
    \A j, k \in DOMAIN tasks :
      LET s == deployment.reviews[senders[j].credentials[1]]
          u == deployment.reviews[senders[k].credentials[1]]
      IN Cluster(cfg.auth, s) # Cluster(cfg.auth, u) \/ s.user # u.user =>
           /\ tasks[j].identity # tasks[k].identity
           /\ Cluster(cfg.auth, s) # Cluster(cfg.auth, u) =>
                SplitGroups(tasks[j].groups) \cap SplitGroups(tasks[k].groups) = {}

\* A bound that is a whole number, and an int64.
Whole(bound) == bound.set /\ bound.num % 2 = 0 /\ bound.num \div 2 \in IntMin .. IntMax

\* Cut to a whole number, towards zero.
Cut(from, to) ==
  to % 2 = 0 /\ from - to \in (IF from > 0 THEN {0, 1} ELSE {-1, 0})

\* README, "Input validation prevents": a script's variables are those of the
\* worker, of aqsh and of the task's inputs, and each of its inputs has the
\* value that was submitted and is what its definition asks for, or the default
\* if none was submitted.  For a number of type int that is the submitted one,
\* which is within the bounds, without its fraction, unless it is beyond int64.
\* So it stays within bounds that are whole, if there are two and within int64.
EnvWithinInputs ==
  \A k \in DOMAIN tasks : DOMAIN tasks[k].script # {} =>
    LET script == tasks[k].script
        inputs == conf.tasks[tasks[k].name].input
    IN /\ DOMAIN script \subseteq DOMAIN deployment.environ \cup Reserved
                                  \cup EnvNames(inputs)
       /\ \A e \in EnvNames(inputs) \ Reserved :
            LET i == Supplier(inputs, e)
                s == Field(senders[k].payload, i.name)
                v == script[e]
            IN \/ s = Null /\ v = i.default /\ (i.required => v # NoText)
               \/ i.type = "int" /\ v.kind = "number"
                  /\ (i.min.set => s.num >= i.min.num) /\ (i.max.set => s.num <= i.max.num)
                  /\ (s.num \in 2 * IntMin .. 2 * IntMax => Cut(s.num, v.num))
                  /\ (Whole(i.min) /\ Whole(i.max) => v.num \in i.min.num .. i.max.num)
               \/ i.type = "float" /\ v = s
                  /\ (i.min.set => v.num >= i.min.num) /\ (i.max.set => v.num <= i.max.num)
               \/ i.type \in {"", "string"} /\ v = s /\ v.text \in i.pattern
                  /\ (i.enum # {} => v.text \in i.enum)
               \/ i.type = "bool" /\ v = s /\ v.kind = "bool"
               \/ i.type \notin CheckedTypes /\ v = s

\* main waits for both servers: a process that ends by itself has no task
\* running, not when its API has failed while it served, nor after a signal.
TasksAwaited ==
  pc = "exited" => \A k \in DOMAIN tasks : tasks[k].state # "running"

\* A signal that reaches the worker's own handler, or main's in a process
\* without a worker, ends the process, whatever requests are in flight.  One
\* that reaches only main, between its Notify and asynq's, still closes the API.
Stops ==
  /\ toWorker # "empty" \/ (toMain # "empty" /\ cfg.mode = "api") ~> pc = "exited"
  /\ toMain # "empty" /\ pc = "waiting" ~> api \in {"off", "returned"}
===============================================================================
