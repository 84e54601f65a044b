------------------------------ MODULE MCService ------------------------------
EXTENDS Service

MCIntMin == -4

None == [n \in {} |-> <<>>]

\* Names.
alice  == <<"b">>
gs     == <<"g">>
inA    == <<"a">>

-----------------------------------------------------------------------------
\* Task definitions.

In(name, env, type) ==
  [name |-> name, env |-> env, type |-> type, required |-> FALSE,
   pattern |-> {<<"x">>, <<"y">>, <<"z">>}, enum |-> {}, min |-> NoBound,
   max |-> NoBound, default |-> NoText, url |-> FALSE, cache |-> ""]

Plain ==
  [timeout |-> "", maxRetry |-> NoRetry, retryDelay |-> "", queue |-> "",
   allowedUsers |-> {}, allowedGroups |-> {}, input |-> <<>>]

Inputs ==
  << [In("n", "N", "int") EXCEPT !.min = Bound(-2), !.max = Bound(4)],
     [In("m", "M", "int") EXCEPT !.min = Bound(0), !.required = TRUE,
                                 !.default = Number(9)],
     [In("s", "S", "string") EXCEPT !.required = TRUE, !.enum = {<<"x">>, <<"w">>}],
     [In("f", "F", "float") EXCEPT !.max = Bound(3)],
     In("b", "B", "bool"), In("u", "S2", "text"), In("v", "S2", "") >>

Open1     == [Plain EXCEPT !.maxRetry = 0]
Forgetful == [Plain EXCEPT !.queue = "q",
                           !.input = <<In("id", "AQSH_IDENTITY", "string")>>]
Typed     == [Plain EXCEPT !.input = Inputs]
Closed    == [Plain EXCEPT !.allowedUsers = {inA \o <<"/">> \o alice},
                           !.allowedGroups = {<<"h">>, inA \o <<"/", "g">>}]
Late      == [Plain EXCEPT !.timeout = BadDuration]
Fetched   == [Plain EXCEPT !.input = <<[In("l", "L", "string") EXCEPT !.url = TRUE]>>]

File(defs) == [ok |-> TRUE, include |-> <<>>, defaults |-> NoDefaults, tasks |-> defs]
Pattern(files) == [local |-> TRUE, matches |-> files]

\* A directory with these tasks in its main file.
Dir(defs) == [main |-> "main", files |-> [f \in {"main"} |->
               [File(defs) EXCEPT !.defaults.maxRetry = 3]]]

\* A main file that includes by these patterns, and the files i and j.
Including(patterns, i, j) ==
  [main |-> "main",
   files |-> [f \in {"main", "i", "j"} |->
     IF f = "main" THEN [File([n \in {"open"} |-> Open1]) EXCEPT !.include = patterns]
     ELSE IF f = "i" THEN i ELSE j]]

One(name) == File([n \in {name} |-> Plain])
BothOnce  == <<Pattern(<<"i", "j">>)>>
Twice     == <<Pattern(<<"i">>), Pattern(<<"i", "j">>)>>
WithUrl(enum, cache, url) ==
  File([n \in {"b"} |-> [Plain EXCEPT !.input =
    <<[In("l", "L", "string") EXCEPT !.enum = enum, !.cache = cache, !.url = url]>>]])

Directories ==
  << Dir(None),
    Including(BothOnce, One("a"), One("b")),
    Including(Twice, One("a"), One("b")),
    Including(BothOnce, One("a"), One("a")),
    Including(BothOnce, One("open"), One("b")),
    Including(<<Pattern(<<"i", "main">>)>>, One("a"), One("b")),
    Including(<<Pattern(<<"i">>), [local |-> FALSE, matches |-> <<>>]>>, One("a"), One("b")),
    Including(BothOnce, One("a"), [One("b") EXCEPT !.ok = FALSE]),
    Including(BothOnce, One("a"), [One("b") EXCEPT !.include = BothOnce]),
    Including(BothOnce, One("a"), [One("b") EXCEPT !.defaults.queue = "q"]),
    Including(BothOnce, One("a"), WithUrl({<<"x">>}, "", TRUE)),
    Including(BothOnce, One("a"), WithUrl({}, "1m", FALSE)),
    Including(BothOnce, One("a"), WithUrl({}, BadDuration, TRUE)),
    Including(BothOnce, One("a"), WithUrl({}, "1m", TRUE)) >>

-----------------------------------------------------------------------------
\* Environments.

NoEnv == [mode |-> "", authMode |-> "", auth |-> None, queues |-> {},
          requireIdentity |-> ""]

GoodAuth == [URL |-> "https", TOKEN_FILE |-> "token", AUDIENCES |-> <<<<"a">>>>]

With(auth) == [NoEnv EXCEPT !.mode = "api", !.authMode = "kubernetes", !.auth = auth]

AuthSettings ==
  << GoodAuth,
    [TOKEN_FILE |-> "token", AUDIENCES |-> <<<<"a">>>>],
    [URL |-> "https", AUDIENCES |-> <<<<"a">>>>],
    [URL |-> "https", TOKEN_FILE |-> "token"],
    [GoodAuth EXCEPT !.AUDIENCES = <<<<"a">>, <<" ", "a">>>>],
    [GoodAuth EXCEPT !.TOKEN_FILE = "gone"],
    [CA_FILE |-> "ca"] @@ GoodAuth,
    [CA_FILE |-> "gone"] @@ GoodAuth,
    [ALLOW_HTTP |-> "true"] @@ [GoodAuth EXCEPT !.URL = "http"],
    [ALLOW_HTTP |-> "false"] @@ [GoodAuth EXCEPT !.URL = "http"],
    [ALLOW_HTTP |-> "yes please"] @@ GoodAuth,
    [REQUEST_TIMEOUT |-> Ms(1)] @@ GoodAuth,
    [REQUEST_TIMEOUT |-> Ms(0)] @@ GoodAuth,
    [REQUEST_TIMEOUT |-> Ms(60001)] @@ GoodAuth,
    [REQUEST_TIMEOUT |-> [parses |-> FALSE, ms |-> 7000]] @@ GoodAuth,
    [CACHE_TTL |-> Ms(0)] @@ GoodAuth,
    [CACHE_TTL |-> Ms(60001)] @@ GoodAuth,
    [CLUSTER_NAME |-> <<"a", "/", "b">>] @@ GoodAuth,
    [CLUSTER_NAME |-> inA, TRUST_CLUSTER_EXTRA |-> "true"] @@ GoodAuth,
    [INCLUDE_CLUSTER_IN_IDENTITY |-> "true"] @@ GoodAuth,
    [CLIENT_ID |-> "x"] @@ GoodAuth >>

Modes == <<<<"api", "">>, <<"api", "both">>, <<"api", "worker">>, <<"", "">>, <<"both", "api">>,
          <<"", "all">>>>

Environments ==
  [k \in DOMAIN AuthSettings |-> With(AuthSettings[k])]
  \o << [NoEnv EXCEPT !.authMode = "oidc"], [NoEnv EXCEPT !.auth = GoodAuth],
        [NoEnv EXCEPT !.mode = "worker", !.auth = GoodAuth] >>

WithoutRequests(env, flag, dir) ==
  [env |-> env, flag |-> flag, dir |-> dir, readable |-> {"token", "ca"},
   environ |-> None, reviews |-> None, requests |-> {}]

ConfigDeployments ==
  [k \in DOMAIN Environments |-> WithoutRequests(Environments[k], "", Dir(None))]
  \o [k \in DOMAIN Modes |->
       WithoutRequests([With(GoodAuth) EXCEPT !.mode = Modes[k][1]], Modes[k][2],
                       Dir(None))]
  \o [k \in DOMAIN Directories |-> WithoutRequests(NoEnv, "", Directories[k])]

-----------------------------------------------------------------------------
\* Requests under native authentication, with headers that are not to count.

Request(kind, task, of) ==
  [kind |-> kind, task |-> task, of |-> of, credentials |-> <<>>,
   userHeader |-> <<"z">>, groupsHeader |-> <<"h">>, payload |-> None]
Bearing(r, t) == [r EXCEPT !.credentials = <<t>>]

Review(cluster, user, groups) ==
  [authenticated |-> TRUE, audience |-> TRUE, user |-> user, groups |-> groups,
   clusters |-> <<cluster>>]

Reviews ==
  [ta |-> Review(inA, <<"b", "/", "c">>, <<gs>>),
   tb |-> Review(<<"a", "/", "b">>, <<"c">>, <<gs>>),
   tc |-> Review(<<"c">>, <<"b", "/", "c">>, <<gs>>),
   td |-> Review(inA, alice, <<>>),
   te |-> Review(inA, <<"c">>, <<gs, <<"f", ",", "h">>>>),
   tf |-> [Review(inA, alice, <<>>) EXCEPT !.authenticated = FALSE],
   tg |-> [Review(inA, alice, <<gs>>) EXCEPT !.audience = FALSE],
   th |-> [Review(inA, alice, <<>>) EXCEPT !.clusters = <<>>],
   ti |-> Review(inA, <<"b", "\n">>, <<>>) ]

Submission(name) == Request("submit", name, 0)

Served(sendable, auth, defs) ==
  [WithoutRequests(With(auth), "", Dir(defs)) EXCEPT
     !.requests = sendable, !.reviews = Reviews,
     !.environ = [n \in {"AQSH_IDENTITY", "PATH"} |-> Text(<<"root">>)]]

Federated == [TRUST_CLUSTER_EXTRA |-> "true",
              INCLUDE_CLUSTER_IN_IDENTITY |-> "true"] @@ GoodAuth
Direct    == [CLUSTER_NAME |-> inA, INCLUDE_CLUSTER_IN_IDENTITY |-> "true"] @@ GoodAuth

Opened   == [n \in {"open"} |-> Open1]
Shut     == [n \in {"closed"} |-> Closed]

NativeDeployments ==
  << Served({Bearing(Submission("open"), t) : t \in DOMAIN Reviews}, Federated, Opened),
    Served({Bearing(Submission("closed"), t) : t \in {"ta", "tb", "td"}}
           \cup {Submission("closed")}, Federated, Shut),
    Served({Bearing(Submission("closed"), t) : t \in {"td", "te", "tg"}}, Direct, Shut),
    Served({Bearing(Submission("open"), "te"), Bearing(Submission("open"), "td"),
            Bearing(Request("status", "", 1), "ta"), Submission("open"),
            [Submission("open") EXCEPT !.credentials = <<"td", "ta">>],
            [Submission("open") EXCEPT !.credentials = <<NotBearer>>],
            Request("health", "", 0), Bearing(Request("list", "", 0), "ta")},
           GoodAuth, Opened) >>

-----------------------------------------------------------------------------
\* Requests in trusted-header mode, to a process that runs tasks as well.

Local(env, sendable, defs) ==
  [WithoutRequests(env, "", Dir(defs)) EXCEPT !.requests = sendable]

Payload(s, n, m) == [k \in {"s", "n", "m"} |->
  IF k = "s" THEN s ELSE IF k = "n" THEN n ELSE m]
JSON(kind) == [kind |-> kind, text |-> <<>>, num |-> 1]

Numbers ==
  { Payload(Text(<<"x">>), Number(h), Null) : h \in {-3, -2, 3, 4, 5} }
  \cup { Payload(Text(<<"x">>), Null, Number(h)) : h \in {0, 3, 20} }

Others ==
  { Payload(Text(t), Null, Null) : t \in {<<"y">>, <<"w">>} }
  \cup { None, [k \in {"s", "other"} |-> Text(<<"x">>)],
         [k \in {"s", "f"} |-> IF k = "s" THEN Text(<<"x">>) ELSE Number(3)],
         [k \in {"s", "f"} |-> IF k = "s" THEN Text(<<"x">>) ELSE Number(4)],
         [k \in {"s", "b", "u", "v"} |->
            IF k = "s" THEN Text(<<"x">>) ELSE IF k = "v" THEN Null ELSE JSON("bool")],
         [k \in {"s", "u", "v"} |->
            IF k = "u" THEN JSON("other") ELSE Text(<<"x">>)],
         [k \in {"s"} |-> JSON("bool")] }

Calling(name, payload) == [Submission(name) EXCEPT !.payload = payload]
Anonymous(r) == [r EXCEPT !.userHeader = <<>>, !.groupsHeader = <<>>]

LocalDeployments ==
  << Local(NoEnv, {Calling("typed", p) : p \in Numbers}, [n \in {"typed"} |-> Typed]),
    Local(NoEnv, {Calling("typed", p) : p \in Others}, [n \in {"typed"} |-> Typed]),
    Local([NoEnv EXCEPT !.queues = {"q"}],
          {Calling("id", [k \in {"id"} |-> Text(<<"x">>)]),
           Anonymous(Calling("id", [k \in {"id"} |-> Text(<<"x">>)])),
           Request("status", "", 1)},
          [n \in {"id"} |-> Forgetful]),
    Local([NoEnv EXCEPT !.queues = {" "}],
          {Submission("open"), Submission("late"), Submission("none"),
           Request("list", "", 0), Request("status", "", 1)},
          [n \in {"open", "late"} |-> IF n = "open" THEN Open1 ELSE Late]),
    Local([NoEnv EXCEPT !.requireIdentity = "true"],
          {Anonymous(Submission("closed")), Submission("closed"),
           [Submission("closed") EXCEPT !.groupsHeader = <<"g", ",", " ", "k">>],
           [Submission("closed") EXCEPT !.groupsHeader = <<"g", ",", ",", " ", "h">>]},
          Shut),
    Local([NoEnv EXCEPT !.requireIdentity = "TRUE"],
          {Anonymous(Calling("list", [k \in {"l"} |-> Text(<<"x">>)])),
           Anonymous(Calling("list", [k \in {"l"} |-> Null]))},
          [n \in {"list"} |-> Fetched]) >>

MCDeployments == ConfigDeployments \o NativeDeployments \o LocalDeployments
===============================================================================
