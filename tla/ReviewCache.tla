----------------------------- MODULE ReviewCache -----------------------------
(***************************************************************************)
(* Native authentication: concurrent requests call Authenticate            *)
(* (kubernetes.go), which asks a TokenReview endpoint who the bearer of a  *)
(* token is and caches successful answers for CacheTTL.  The endpoint's    *)
(* answer for a token changes while the requests run (a token is revoked,  *)
(* a group membership changes): versions number its successive answers.    *)
(*                                                                         *)
(* Each step of a call is one stretch of code without a wait: up to taking *)
(* k.mu, under k.mu, between the unlock and the clock, at the semaphore,   *)
(* on the network.  Time passes between any two of them.                   *)
(***************************************************************************)
EXTENDS Integers, FiniteSets

CONSTANTS
  Calls,     \* request goroutines
  Tokens,
  LastVersion, \* bound: the answers the endpoint gives, one after another
  Rejected,  \* those that are "not authenticated" (or an unusable answer)
  CacheTTL,  \* 0 disables the cache
  Capacity,  \* maxCachedReviews
  Slots,     \* maxConcurrentReviews
  MaxTime    \* bound: the clock stops there

Versions == 1 .. LastVersion

ASSUME VersionsAssumption == LastVersion \in Nat \ {0}
ASSUME ConfigAssumption ==
  CacheTTL \in Nat /\ Capacity \in Nat /\ Slots \in Nat \ {0} /\ MaxTime \in Nat
ASSUME RejectedAssumption == Rejected \subseteq Versions

VARIABLES
  now,       \* the clock, k.now()
  answer,    \* the endpoint's answer for each token at this moment
  ended,     \* when it stopped giving each earlier answer
  cache,     \* k.cache
  inFlight,  \* the slots taken in k.inFlight
  pc,        \* where each call stands
  tok,       \* its token
  started,   \* its time of entry, and its variable started
  entry,     \* its copy of the cache entry
  got,       \* the answer its review received (0: none)
  out        \* what it returned

calls == <<pc, tok, started, entry, got, out>>
vars  == <<now, answer, ended, cache, inFlight, calls>>

Entry   == [version : Versions, expires : Nat]
NoEntry == [version |-> 0, expires |-> 0]
Times   == 0 .. MaxTime

\* What Authenticate returns: a principal (of an accepted version), or one of
\* the two errors; 0 before its first return.
Unauthenticated == -1
Unavailable     == -2
Outcomes == Versions \cup {0, Unauthenticated, Unavailable}

PCs == {"idle", "lookup", "check", "wait", "sent", "answered", "store"}

TypeOK ==
  /\ now \in Times
  /\ answer \in [Tokens -> Versions]
  /\ ended \in [Tokens -> [Versions -> Times]]
  /\ cache \in [Tokens -> Entry \cup {NoEntry}]
  /\ inFlight \in 0 .. Slots
  /\ pc \in [Calls -> PCs]
  /\ tok \in [Calls -> Tokens]
  /\ started \in [Calls -> Times]
  /\ entry \in [Calls -> Entry \cup {NoEntry}]
  /\ got \in [Calls -> Versions \cup {0}]
  /\ out \in [Calls -> Outcomes]

Init ==
  /\ now = 0
  /\ answer = [t \in Tokens |-> 1]
  /\ ended = [t \in Tokens |-> [v \in Versions |-> 0]]
  /\ cache = [t \in Tokens |-> NoEntry]
  /\ inFlight = 0
  /\ pc = [c \in Calls |-> "idle"]
  /\ tok \in [Calls -> Tokens]
  /\ started = [c \in Calls |-> 0]
  /\ entry = [c \in Calls |-> NoEntry]
  /\ got = [c \in Calls |-> 0]
  /\ out = [c \in Calls |-> 0]

Cached == {t \in Tokens : cache[t] # NoEntry}

-----------------------------------------------------------------------------
\* The world outside: the clock, and the endpoint's answers.

Tick ==
  /\ now < MaxTime
  /\ now' = now + 1
  /\ UNCHANGED <<answer, ended, cache, inFlight, calls>>

Change(t) ==
  /\ answer[t] + 1 \in Versions
  /\ answer' = [answer EXCEPT ![t] = @ + 1]
  /\ ended' = [ended EXCEPT ![t][answer[t]] = now]
  /\ UNCHANGED <<now, cache, inFlight, calls>>

-----------------------------------------------------------------------------
\* Authenticate and review, for call c.

Goto(c, from, to) == pc[c] = from /\ pc' = [pc EXCEPT ![c] = to]

\* The call returns to the middleware; its locals are gone.
Return(c, from, o) ==
  /\ Goto(c, from, "idle")
  /\ out' = [out EXCEPT ![c] = o]
  /\ entry' = [entry EXCEPT ![c] = NoEntry]
  /\ got' = [got EXCEPT ![c] = 0]

\* A request with token t arrives.  started is read here, before the lookup;
\* without a cache the review begins at once.
Enter(c, t) ==
  /\ Goto(c, "idle", IF CacheTTL = 0 THEN "wait" ELSE "lookup")
  /\ tok' = [tok EXCEPT ![c] = t]
  /\ started' = [started EXCEPT ![c] = now]
  /\ out' = [out EXCEPT ![c] = 0]
  /\ UNCHANGED <<now, answer, ended, cache, inFlight, entry, got>>

\* The request's context is already done when Authenticate is called.
EnterDone(c, t) ==
  /\ pc[c] = "idle"
  /\ tok' = [tok EXCEPT ![c] = t]
  /\ started' = [started EXCEPT ![c] = now]
  /\ out' = [out EXCEPT ![c] = Unavailable]
  /\ UNCHANGED <<now, answer, ended, cache, inFlight, pc, entry, got>>

\* The entry is copied under k.mu ...
Lookup(c) ==
  /\ Goto(c, "lookup", IF cache[tok[c]] = NoEntry THEN "wait" ELSE "check")
  /\ entry' = [entry EXCEPT ![c] = cache[tok[c]]]
  /\ UNCHANGED <<now, answer, ended, cache, inFlight, tok, started, got, out>>

\* Mutation: an entry is still used at the moment it expires.
CheckInclusive(c) ==
  \/ /\ now <= entry[c].expires
     /\ Return(c, "check", entry[c].version)
     /\ UNCHANGED <<now, answer, ended, cache, inFlight, tok, started>>
  \/ /\ now > entry[c].expires
     /\ Goto(c, "check", "wait")
     /\ UNCHANGED <<now, answer, ended, cache, inFlight, tok, started, entry,
                    got, out>>

\* ... and its deadline compared with the clock after the unlock.
Check(c) ==
  \/ /\ now < entry[c].expires
     /\ Return(c, "check", entry[c].version)
     /\ UNCHANGED <<now, answer, ended, cache, inFlight, tok, started>>
  \/ /\ now >= entry[c].expires
     /\ Goto(c, "check", "wait")
     /\ UNCHANGED <<now, answer, ended, cache, inFlight, tok, started, entry,
                    got, out>>

\* review: a slot is free.
Acquire(c) ==
  /\ Goto(c, "wait", "sent")
  /\ inFlight < Slots
  /\ inFlight' = inFlight + 1
  /\ UNCHANGED <<now, answer, ended, cache, tok, started, entry, got, out>>

\* Mutation: the wait for a slot does not select on ctx.Done().
NoGiveUp(c) ==
  /\ FALSE
  /\ Return(c, "wait", Unavailable)
  /\ UNCHANGED <<now, answer, ended, cache, inFlight, tok, started>>

\* Mutation: the deferred release is registered before the select.
GiveUpReleasing(c) ==
  /\ Return(c, "wait", Unavailable)
  /\ inFlight' = inFlight - 1
  /\ UNCHANGED <<now, answer, ended, cache, tok, started>>

\* The request timeout passes, or the client goes, before a slot is free.
GiveUp(c) ==
  /\ Return(c, "wait", Unavailable)
  /\ UNCHANGED <<now, answer, ended, cache, inFlight, tok, started>>

\* The endpoint decides on the token.
Answer(c) ==
  /\ Goto(c, "sent", "answered")
  /\ got' = [got EXCEPT ![c] = answer[tok[c]]]
  /\ UNCHANGED <<now, answer, ended, cache, inFlight, tok, started, entry, out>>

\* Mutation: the slot is released on success only.
FailKeepingSlot(c) ==
  \E p \in {"sent", "answered"} :
    /\ Return(c, p, Unavailable)
    /\ UNCHANGED <<now, answer, ended, cache, inFlight, tok, started>>

\* The review fails, answered or not: the reviewer token cannot be read, the
\* timeout passes, the connection breaks, the status is not 2xx, the body is
\* too large or does not decode.
Fail(c) ==
  \E p \in {"sent", "answered"} :
    /\ Return(c, p, Unavailable)
    /\ inFlight' = inFlight - 1
    /\ UNCHANGED <<now, answer, ended, cache, tok, started>>

\* The answer is received and its review returns, releasing its slot: not
\* authenticated, accepted without a cache, or accepted and to be cached.
Receive(c) ==
  /\ pc[c] = "answered"
  /\ inFlight' = inFlight - 1
  /\ \/ /\ got[c] \in Rejected
        /\ Return(c, "answered", Unauthenticated)
     \/ /\ got[c] \notin Rejected
        /\ CacheTTL = 0
        /\ Return(c, "answered", got[c])
     \/ /\ got[c] \notin Rejected
        /\ CacheTTL # 0
        /\ Goto(c, "answered", "store")
        /\ UNCHANGED <<entry, got, out>>
  /\ UNCHANGED <<now, answer, ended, cache, tok, started>>

\* The entries that are left when those past their deadline are deleted.
Purged == [t \in Tokens |-> IF now < cache[t].expires THEN cache[t] ELSE NoEntry]
Size(k) == Cardinality({t \in Tokens : k[t] # NoEntry})

\* Mutation: the lifetime is counted from the end of the review.
StoreFromNow(c) ==
  /\ cache' = IF /\ Purged[tok[c]] = NoEntry
                 /\ Size(Purged) < Capacity
              THEN [Purged EXCEPT ![tok[c]] =
                      [version |-> got[c], expires |-> now + CacheTTL]]
              ELSE Purged
  /\ Return(c, "store", got[c])
  /\ UNCHANGED <<now, answer, ended, inFlight, tok, started>>

\* Mutation: an off-by-one in the comparison with maxCachedReviews.
StoreOneTooMany(c) ==
  /\ cache' = IF /\ Purged[tok[c]] = NoEntry
                 /\ Size(Purged) <= Capacity
                 /\ now < started[c] + CacheTTL
              THEN [Purged EXCEPT ![tok[c]] =
                      [version |-> got[c], expires |-> started[c] + CacheTTL]]
              ELSE Purged
  /\ Return(c, "store", got[c])
  /\ UNCHANGED <<now, answer, ended, inFlight, tok, started>>

\* Mutation: a concurrent miss replaces the entry.
StoreReplacing(c) ==
  /\ cache' = IF /\ Purged[tok[c]] # NoEntry \/ Size(Purged) < Capacity
                 /\ now < started[c] + CacheTTL
              THEN [Purged EXCEPT ![tok[c]] =
                      [version |-> got[c], expires |-> started[c] + CacheTTL]]
              ELSE Purged
  /\ Return(c, "store", got[c])
  /\ UNCHANGED <<now, answer, ended, inFlight, tok, started>>

\* Under k.mu: expired entries go, and the answer is kept if the token has no
\* entry, there is room, and its lifetime, counted from started, is not over.
Store(c) ==
  /\ cache' = IF /\ Purged[tok[c]] = NoEntry
                 /\ Size(Purged) < Capacity
                 /\ now < started[c] + CacheTTL
              THEN [Purged EXCEPT ![tok[c]] =
                      [version |-> got[c], expires |-> started[c] + CacheTTL]]
              ELSE Purged
  /\ Return(c, "store", got[c])
  /\ UNCHANGED <<now, answer, ended, inFlight, tok, started>>

-----------------------------------------------------------------------------
Step(c) ==
  \/ Lookup(c) \/ Check(c) \/ Acquire(c) \/ GiveUp(c)
  \/ Answer(c) \/ Fail(c) \/ Receive(c) \/ Store(c)

Next ==
  \/ Tick
  \/ \E t \in Tokens : Change(t)
  \/ \E c \in Calls : Step(c) \/ \E t \in Tokens : Enter(c, t) \/ EnterDone(c, t)

Spec == Init /\ [][Next]_vars

\* Goroutines run.  A call that waits or has sent its review is ended by the
\* timeout at the latest (Config.Validate: between 1ms and 1m), hence the
\* fairness of GiveUp and Fail; nothing is assumed of slots or the endpoint.
FairSpec ==
  /\ Spec
  /\ \A c \in Calls :
       /\ WF_vars(Lookup(c)) /\ WF_vars(Check(c)) /\ WF_vars(Store(c))
       /\ WF_vars(GiveUp(c)) /\ WF_vars(Fail(c))

-----------------------------------------------------------------------------
\* v was the endpoint's answer for t at some moment not before `when`.
AnswerSince(t, v, when) ==
  v = answer[t] \/ (v < answer[t] /\ ended[t][v] >= when)

\* Revocation and membership changes are reflected within the TTL
\* (docs/authentication.md): a principal that a call returns was the
\* endpoint's answer less than CacheTTL before the call began, or later.
ServedRecently ==
  \A c \in Calls : out[c] \in Versions =>
    /\ out[c] \notin Rejected
    /\ AnswerSince(tok[c], out[c],
                   IF CacheTTL = 0 THEN started[c] ELSE started[c] - CacheTTL + 1)

\* An entry's lifetime is counted from the start of the review that made it:
\* what it holds was the endpoint's answer in that time, and never a denial.
EntriesFresh ==
  \A t \in Cached :
    /\ cache[t].version \notin Rejected
    /\ AnswerSince(t, cache[t].version, cache[t].expires - CacheTTL)
    /\ cache[t].expires <= now + CacheTTL

\* The cache holds at most maxCachedReviews entries, whatever calls end at once.
CacheBounded == Cardinality(Cached) <= Capacity

\* The semaphore counts the reviews on the network: no path out of review
\* leaks a slot or releases one it did not take.
SlotsExact ==
  inFlight = Cardinality({c \in Calls : pc[c] \in {"sent", "answered"}})

\* "Keep an existing entry's deadline even if concurrent cache misses
\* succeed": an entry that is still live is not replaced or removed.
LiveEntryKept ==
  [][\A t \in Cached : now < cache[t].expires => cache'[t] = cache[t]]_vars

\* Every call returns, also while others hold all the slots ("review bounds
\* in-flight requests, including the capacity wait in the timeout").
CallsReturn == \A c \in Calls : pc[c] # "idle" ~> pc[c] = "idle"

==============================================================================
