------------------------------ MODULE Submission ------------------------------
(***************************************************************************)
(* Requests on one task definition: POST /tasks/{name}, which checks every *)
(* submitted value of an input with a values_url against the list that a   *)
(* remote service returns for the caller (handleSubmitTask, api.go), and   *)
(* GET /tasks/{name}, which shows those lists (handleGetTaskDef).  They    *)
(* share the cache of values.go, keyed by the substituted URL.             *)
(*                                                                         *)
(* The service's lists change while requests run; versions number its      *)
(* successive states.  Identities, groups and values are abstract: what a  *)
(* list depends on is the template, the caller if the template names it,   *)
(* and the value of another input if the template names that.              *)
(***************************************************************************)
EXTENDS Integers, Sequences, FiniteSets

CONSTANTS
  Calls,           \* request goroutines
  Callers, NoOne,  \* identities (with their groups); NoOne has neither
  Values,          \* strings a field may have
  Absent, Other,   \* a field that is missing or null; one that is no string
  Inputs,          \* taskDef.Input, in order
  NoURL,           \* the template of an input without values_url
  Payloads,        \* the payloads submitted
  AllowedCallers,  \* who is in allowed_users or allowed_groups ({}: open)
  RequireIdentity, \* BOOLEAN
  LastVersion,     \* bound: the states the service goes through
  Grants,          \* Grants[v]: <<template, caller, dependency, value>> in state v
  FetchTimeout,    \* defaultValuesURLTimeout
  MaxTime          \* bound: the clock stops there

N         == Len(Inputs)
Versions  == 1 .. LastVersion
Anybody   == Callers \cup {NoOne}
Templates == {Inputs[i].template : i \in 1 .. N} \ {NoURL}

\* dep: the input that the template names (0: none); ttl: values_cache;
\* needed: required and without a default.
ASSUME InputsAssumption ==
  /\ Inputs \in Seq([template : Templates \cup {NoURL}, dep : Nat, ttl : Nat,
                     byCaller : BOOLEAN, needed : BOOLEAN])
  /\ \A i \in 1 .. N : Inputs[i].dep \in 0 .. N
ASSUME CallersAssumption == NoOne \notin Callers /\ AllowedCallers \subseteq Callers
ASSUME PayloadsAssumption ==
  /\ Absent \notin Values /\ Other \notin Values /\ Absent # Other
  /\ Payloads \subseteq [1 .. N -> Values \cup {Absent, Other}]
ASSUME NumbersAssumption ==
  /\ LastVersion \in Nat \ {0} /\ FetchTimeout \in Nat /\ MaxTime \in Nat
  /\ RequireIdentity \in BOOLEAN
  /\ DOMAIN Grants = Versions

VARIABLES
  now,      \* the clock
  answer,   \* the service's state at this moment
  ended,    \* when each earlier state ended
  cache,    \* s.valCache.entries
  pc,       \* where each call stands
  kind,     \* "submit" or "show"
  who,      \* its caller
  payload,  \* its payload
  at,       \* the input its loop has come to
  started,  \* when it arrived
  sent,     \* when its last fetch began
  list,     \* the answer its last fetch received
  used      \* the answer each input was checked against, or shown with

locals == <<kind, who, payload, at, started, sent, list, used>>
vars   == <<now, answer, ended, cache, pc, locals>>

URL      == [template : Templates, caller : Anybody, dep : Values \cup {Absent}]
Answer   == [url : URL, version : Versions]
Entry    == [list : Answer, expires : Nat]
NoAnswer == [version |-> 0]
Times    == 0 .. MaxTime

TypeOK ==
  /\ now \in Times
  /\ answer \in Versions
  /\ ended \in [Versions -> Times]
  /\ DOMAIN cache \subseteq URL /\ \A u \in DOMAIN cache : cache[u] \in Entry
  /\ pc \in [Calls -> {"idle", "input", "fetch", "answered", "enqueue"}]
  /\ kind \in [Calls -> {"submit", "show"}]
  /\ who \in [Calls -> Anybody]
  /\ payload \in [Calls -> [1 .. N -> Values \cup {Absent, Other}]]
  /\ at \in [Calls -> 1 .. N + 1]
  /\ started \in [Calls -> Times]
  /\ sent \in [Calls -> Times]
  /\ list \in [Calls -> Answer \cup {NoAnswer}]
  /\ used \in [Calls -> [1 .. N -> Answer \cup {NoAnswer}]]

NoPayload == [i \in 1 .. N |-> Absent]
Unused    == [i \in 1 .. N |-> NoAnswer]

Init ==
  /\ now = 0
  /\ answer = 1
  /\ ended = [v \in Versions |-> 0]
  /\ cache = <<>>
  /\ pc = [c \in Calls |-> "idle"]
  /\ kind = [c \in Calls |-> "show"]
  /\ who = [c \in Calls |-> NoOne]
  /\ payload = [c \in Calls |-> NoPayload]
  /\ at = [c \in Calls |-> 1]
  /\ started = [c \in Calls |-> 0]
  /\ sent = [c \in Calls |-> 0]
  /\ list = [c \in Calls |-> NoAnswer]
  /\ used = [c \in Calls |-> Unused]

-----------------------------------------------------------------------------
\* The world outside: the clock and the service behind the URLs.

Tick ==
  /\ now < MaxTime
  /\ now' = now + 1
  /\ UNCHANGED <<answer, ended, cache, pc, locals>>

Change ==
  /\ answer < LastVersion
  /\ answer' = answer + 1
  /\ ended' = [ended EXCEPT ![answer] = now]
  /\ UNCHANGED <<now, cache, pc, locals>>

\* The values in a list.
Granted(a) ==
  {x \in Values :
     <<a.url.template, a.url.caller, a.url.dep, x>> \in Grants[a.version]}

-----------------------------------------------------------------------------
\* A request's input i.

Value(c, i) == payload[c][i]

\* substituteURL: the template with the caller and the values collected so
\* far put in.
UrlOf(c, i) ==
  [template |-> Inputs[i].template,
   caller   |-> IF Inputs[i].byCaller THEN who[c] ELSE NoOne,
   dep      |-> IF Inputs[i].dep = 0 THEN Absent ELSE Value(c, Inputs[i].dep)]

\* inputValues holds the strings of the inputs up to i.
Resolved(c, i) ==
  \/ Inputs[i].dep = 0
  \/ /\ kind[c] = "submit"
     /\ Inputs[i].dep \in 1 .. i
     /\ Value(c, Inputs[i].dep) \in Values

\* Nothing to fetch: no values_url, no value, or (GET) not a list that can be
\* shown without a payload.
Skipped(c, i) ==
  \/ Inputs[i].template = NoURL
  \/ kind[c] = "submit" /\ Value(c, i) = Absent
  \/ kind[c] = "show" /\ ~Resolved(c, i)

\* Mutation: the cache is keyed by the template.
TemplateKey(u) == [u EXCEPT !.caller = NoOne]

Key(u) == u

\* The entry that valuesCache.get returns: it is used up to and including the
\* moment it expires.
Live(u) == Key(u) \in DOMAIN cache /\ now <= cache[Key(u)].expires

MayRun(w) ==
  /\ ~(RequireIdentity /\ w = NoOne)
  /\ AllowedCallers = {} \/ w \in AllowedCallers

-----------------------------------------------------------------------------
\* The handlers, for call c.

\* The request is answered; the handler's locals are gone.
Return(c) ==
  /\ pc' = [pc EXCEPT ![c] = "idle"]
  /\ kind' = [kind EXCEPT ![c] = "show"]
  /\ who' = [who EXCEPT ![c] = NoOne]
  /\ payload' = [payload EXCEPT ![c] = NoPayload]
  /\ at' = [at EXCEPT ![c] = 1]
  /\ started' = [started EXCEPT ![c] = 0]
  /\ sent' = [sent EXCEPT ![c] = 0]
  /\ list' = [list EXCEPT ![c] = NoAnswer]
  /\ used' = [used EXCEPT ![c] = Unused]

\* A request arrives that is not answered at once (401 or 403, for a caller
\* who may not run the task; no lists, for a GET by NoOne): nothing is fetched
\* before the caller of a submission has been checked.
Enter(c, k, w, p) ==
  /\ pc[c] = "idle"
  /\ pc' = [pc EXCEPT ![c] = "input"]
  /\ kind' = [kind EXCEPT ![c] = k]
  /\ who' = [who EXCEPT ![c] = w]
  /\ payload' = [payload EXCEPT ![c] = p]
  /\ started' = [started EXCEPT ![c] = now]
  /\ UNCHANGED <<now, answer, ended, cache, at, sent, list, used>>

Submit(c, w) == MayRun(w) /\ \E p \in Payloads : Enter(c, "submit", w, p)
Show(c, w)   == w # NoOne /\ Enter(c, "show", w, NoPayload)

\* The loop has come to an input.
AtInput(c) == pc[c] = "input" /\ at[c] <= N

\* The loop goes on with the next input, and forgets the fetch of this one.
Onward(c) ==
  /\ pc' = [pc EXCEPT ![c] = "input"]
  /\ at' = [at EXCEPT ![c] = @ + 1]
  /\ sent' = [sent EXCEPT ![c] = 0]
  /\ list' = [list EXCEPT ![c] = NoAnswer]
  /\ UNCHANGED <<kind, who, payload, started>>

Skip(c) ==
  /\ AtInput(c)
  /\ Skipped(c, at[c])
  /\ Onward(c)
  /\ UNCHANGED <<now, answer, ended, cache, used>>

\* 400: not a string, or the URL still names an input.
Refuse(c) ==
  /\ AtInput(c)
  /\ ~Skipped(c, at[c])
  /\ Value(c, at[c]) = Other \/ ~Resolved(c, at[c])
  /\ Return(c)
  /\ UNCHANGED <<now, answer, ended, cache>>

\* The input needs its list.
Needs(c) ==
  /\ AtInput(c)
  /\ ~Skipped(c, at[c])
  /\ Value(c, at[c]) # Other
  /\ Resolved(c, at[c])

\* Mutation: an entry is trusted without looking for the value in it.
PassUnchecked(c, a) == Onward(c) /\ used' = [used EXCEPT ![c][at[c]] = a]

\* The list a is at hand: a submitted value must be in it (403 if it is not),
\* GET shows it.
Pass(c, a) ==
  \/ /\ kind[c] = "submit" /\ Value(c, at[c]) \notin Granted(a)
     /\ Return(c)
  \/ /\ kind[c] = "submit" => Value(c, at[c]) \in Granted(a)
     /\ Onward(c)
     /\ used' = [used EXCEPT ![c][at[c]] = a]

\* Mutation: a hit renews the entry.
HitRenewing(c) ==
  LET i == at[c]
      k == Key(UrlOf(c, i))
  IN /\ Needs(c)
     /\ Inputs[i].ttl > 0
     /\ Live(UrlOf(c, i))
     /\ Pass(c, cache[k].list)
     /\ cache' = [cache EXCEPT ![k].expires = now + Inputs[i].ttl]
     /\ UNCHANGED <<now, answer, ended>>

\* The cache has a list for this URL, whichever input's values_cache set its
\* deadline.
Hit(c) ==
  LET i == at[c]
  IN /\ Needs(c)
     /\ Inputs[i].ttl > 0
     /\ Live(UrlOf(c, i))
     /\ Pass(c, cache[Key(UrlOf(c, i))].list)
     /\ UNCHANGED <<now, answer, ended, cache>>

\* The entries other than k's, and those entries with e for k.
Without(k) == [u \in DOMAIN cache \ {k} |-> cache[u]]
With(k, e) == [u \in DOMAIN cache \cup {k} |-> IF u = k THEN e ELSE cache[u]]

\* It has none; an expired one is deleted.
Miss(c) ==
  LET i == at[c]
      u == UrlOf(c, i)
  IN /\ Needs(c)
     /\ Inputs[i].ttl = 0 \/ ~Live(u)
     /\ cache' = IF Inputs[i].ttl > 0 THEN Without(Key(u)) ELSE cache
     /\ pc' = [pc EXCEPT ![c] = "fetch"]
     /\ sent' = [sent EXCEPT ![c] = now]
     /\ UNCHANGED <<now, answer, ended, kind, who, payload, at, started, list, used>>

InTime(c) == now <= sent[c] + FetchTimeout

\* The service makes up its list.
Serve(c) ==
  /\ pc[c] = "fetch"
  /\ InTime(c)
  /\ pc' = [pc EXCEPT ![c] = "answered"]
  /\ list' = [list EXCEPT ![c] = [url |-> UrlOf(c, at[c]), version |-> answer]]
  /\ UNCHANGED <<now, answer, ended, cache, kind, who, payload, at, started, sent,
                 used>>

\* The list arrives, and is cached for the input's values_cache from now.
Receive(c) ==
  LET i == at[c]
  IN /\ pc[c] = "answered"
     /\ InTime(c)
     /\ cache' = IF Inputs[i].ttl > 0
                 THEN With(Key(UrlOf(c, i)),
                           [list |-> list[c], expires |-> now + Inputs[i].ttl])
                 ELSE cache
     /\ Pass(c, list[c])
     /\ UNCHANGED <<now, answer, ended>>

\* Mutation: a fetch that fails is cached like one that succeeds.
FetchFailsCached(c) ==
  /\ pc[c] \in {"fetch", "answered"}
  /\ \/ kind[c] = "submit" /\ Return(c)
     \/ kind[c] = "show" /\ Onward(c) /\ UNCHANGED used
  /\ cache' = IF Inputs[at[c]].ttl > 0
              THEN With(Key(UrlOf(c, at[c])),
                        [list |-> list[c], expires |-> now + Inputs[at[c]].ttl])
              ELSE cache
  /\ UNCHANGED <<now, answer, ended>>

\* Mutation: a submission goes on without the list, as GET does.
FetchFailsOpen(c) ==
  /\ pc[c] \in {"fetch", "answered"}
  /\ Onward(c)
  /\ UNCHANGED <<now, answer, ended, cache, used>>

\* The fetch fails: timeout, connection, status, size or format; nothing is
\* cached.  502 or 504 for a submission; GET goes on with the next input.
FetchFails(c) ==
  /\ pc[c] \in {"fetch", "answered"}
  /\ \/ kind[c] = "submit" /\ Return(c)
     \/ kind[c] = "show" /\ Onward(c) /\ UNCHANGED used
  /\ UNCHANGED <<now, answer, ended, cache>>

\* The loop is over: GET answers, POST goes on to ValidatePayload, which may
\* also refuse what has no values_url (patterns, bounds, unknown fields).
Validate(c) ==
  /\ pc[c] = "input"
  /\ at[c] = N + 1
  /\ \/ Return(c)
     \/ /\ kind[c] = "submit"
        /\ \A i \in 1 .. N : Inputs[i].needed => Value(c, i) # Absent
        /\ pc' = [pc EXCEPT ![c] = "enqueue"]
        /\ UNCHANGED locals
  /\ UNCHANGED <<now, answer, ended, cache>>

\* The Enqueue is sent, and its outcome answered: 202, or 503 (also when Redis
\* has taken the task and its reply is lost).
Enqueue(c) ==
  /\ pc[c] = "enqueue"
  /\ Return(c)
  /\ UNCHANGED <<now, answer, ended, cache>>

-----------------------------------------------------------------------------
Handler(c) ==
  \/ Skip(c) \/ Refuse(c) \/ Hit(c) \/ Miss(c) \/ Receive(c) \/ FetchFails(c)
  \/ Validate(c) \/ Enqueue(c)

Next ==
  \/ Tick \/ Change
  \/ \E c \in Calls :
       \/ Handler(c) \/ Serve(c)
       \/ \E w \in Anybody : Submit(c, w) \/ Show(c, w)

Spec == Init /\ [][Next]_vars

-----------------------------------------------------------------------------
\* v was the service's state at some moment not before `when`.
StateSince(v, when) == v = answer \/ (v < answer /\ ended[v] >= when)

\* ... not before `when`, less one fetch and the values_cache of an input with
\* template t: any input of that template may have set the deadline of the
\* entry that another one uses.
StateSinceFor(t, v, when) ==
  \E i \in 1 .. N :
    Inputs[i].template = t /\ StateSince(v, when - Inputs[i].ttl - FetchTimeout)

\* What the cache holds under a URL is what the service returned for that
\* URL, at most one fetch before the entry was set.
EntriesFresh ==
  \A u \in DOMAIN cache :
    /\ cache[u].list.url = u
    /\ StateSinceFor(u.template, cache[u].list.version, cache[u].expires)

\* The remote URL is fetched with user context, and the submitted value must
\* be in the returned list (docs/api.md): what is put in the queue was submitted
\* by a caller who may run the task, and each of its values with a values_url
\* was granted to that caller, with the values it depends on, no longer ago
\* than the longest values_cache and one fetch.
EnqueuedGranted ==
  \A c \in Calls : pc[c] = "enqueue" =>
    /\ MayRun(who[c])
    /\ \A i \in 1 .. N :
         Inputs[i].template # NoURL /\ Value(c, i) # Absent =>
           /\ used[c][i] # NoAnswer
           /\ Value(c, i) \in Granted([url |-> UrlOf(c, i),
                                       version |-> used[c][i].version])
           /\ StateSinceFor(Inputs[i].template, used[c][i].version, started[c])

\* Cascading inputs are checked in order: by the time a submission's value is
\* sent to the service inside another input's URL, it has itself been found
\* in the list of its own input, if that has a values_url.
DependenciesGranted ==
  \A c \in Calls : kind[c] = "submit" /\ pc[c] \in {"fetch", "answered"} =>
    LET j == Inputs[at[c]].dep
    IN j \notin {0, at[c]} /\ Inputs[j].template # NoURL =>
         used[c][j] # NoAnswer /\ Value(c, j) \in Granted(used[c][j])

\* Whatever fills the cache, each input of a call is checked against, or shown
\* with, the list of its own URL: no caller is given another caller's list
\* where the template names the caller ("Cache key: fully-substituted URL",
\* docs/input-rbac-design.md).
OwnLists ==
  \A c \in Calls, i \in 1 .. N :
    used[c][i] # NoAnswer => used[c][i].url = UrlOf(c, i)

-----------------------------------------------------------------------------
\* What the documents say and the code does not do (see README, "Findings").

\* docs/input-rbac-design.md: the TTL is "configurable per-input".  An input
\* is checked against a list no older than its own values_cache and a fetch.
OwnCacheTime ==
  \A c \in Calls, i \in 1 .. N : used[c][i] # NoAnswer =>
    StateSince(used[c][i].version, started[c] - Inputs[i].ttl - FetchTimeout)

===============================================================================
