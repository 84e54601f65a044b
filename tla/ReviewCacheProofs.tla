--------------------------- MODULE ReviewCacheProofs ---------------------------
(***************************************************************************)
(* What native authentication promises for any number of requests, tokens, *)
(* answers and slots, and for every lifetime and size of the cache.        *)
(***************************************************************************)
EXTENDS ReviewCache, FiniteSetTheorems, TLAPS

\* The calls whose review is on the network, which hold a slot each.
Reviewing == {c \in Calls : pc[c] \in {"sent", "answered"}}

\* The cache is in use only when there is one.
CacheInUse(c) == pc[c] \in {"lookup", "check", "store"} => CacheTTL # 0

\* A call's copy of an entry is as good as the entry was when it was copied,
\* whatever has become of it and of the endpoint's answer since.
CopyFresh(c) ==
  pc[c] = "check" =>
    /\ entry[c] \in Entry
    /\ entry[c].version \notin Rejected
    /\ AnswerSince(tok[c], entry[c].version, entry[c].expires - CacheTTL)
    /\ entry[c].expires <= now + CacheTTL

\* What a review received was the endpoint's answer after the call had begun.
ReceivedSince(c) ==
  pc[c] \in {"answered", "store"} =>
    /\ got[c] \in Versions
    /\ AnswerSince(tok[c], got[c], started[c])
    /\ pc[c] = "store" => got[c] \notin Rejected

\* ServedRecently, of one call.
Since(c) == IF CacheTTL = 0 THEN started[c] ELSE started[c] - CacheTTL + 1
Served(c) ==
  out[c] \in Versions => out[c] \notin Rejected /\ AnswerSince(tok[c], out[c], Since(c))

CallFresh(c) ==
  started[c] <= now /\ CacheInUse(c) /\ CopyFresh(c) /\ ReceivedSince(c) /\ Served(c)

\* The inductive invariant.  The sets are finite because they are filled one
\* by one; Calls and Tokens need not be.
Bounded ==
  /\ IsFiniteSet(Reviewing) /\ SlotsExact
  /\ IsFiniteSet(Cached) /\ CacheBounded

Fresh == EntriesFresh /\ \A c \in Calls : CallFresh(c)

IInv == TypeOK /\ Bounded /\ Fresh

-----------------------------------------------------------------------------
\* The configuration, and the times it is counted in.

LEMMA Constants ==
  /\ Versions \subseteq Nat \ {0} /\ 1 \in Versions
  /\ Rejected \subseteq Versions
  /\ CacheTTL \in Nat /\ Capacity \in Nat /\ Slots \in Nat \ {0} /\ MaxTime \in Nat
BY VersionsAssumption, ConfigAssumption, RejectedAssumption DEF Versions

\* An entry is never mistaken for the absence of one.
LEMMA EntryTyped ==
  /\ NoEntry \notin Entry
  /\ \A e \in Entry : e.version \in Versions /\ e.expires \in Nat
  /\ \A v \in Versions, x \in Nat : [version |-> v, expires |-> x] \in Entry
BY Constants DEF Entry, NoEntry

\* What the endpoint answered at or after some past moment remains something
\* it answered since then when its answer changes.
LEMMA AnsweredStays ==
  ASSUME TypeOK, NEW u \in Tokens, Change(u),
         NEW t \in Tokens, NEW v \in Versions, NEW when \in Int,
         when <= now, AnswerSince(t, v, when)
  PROVE  v = answer'[t] \/ (v < answer'[t] /\ ended'[t][v] >= when)
<1>1. /\ answer \in [Tokens -> Versions] /\ ended \in [Tokens -> [Versions -> Times]]
      /\ now \in Nat /\ Versions \subseteq Nat
  BY Constants DEF TypeOK, Times
<1>2. CASE t # u
  BY <1>1, <1>2 DEF Change, AnswerSince
<1>3. CASE t = u
  <2>1. answer'[t] = answer[t] + 1
    BY <1>1, <1>3 DEF Change
  <2>2. ended'[t] = [ended[t] EXCEPT ![answer[t]] = now]
    BY <1>1, <1>3 DEF Change
  <2>3. ended[t] \in [Versions -> Times] /\ answer[t] \in Versions
    BY <1>1
  <2>4. CASE v = answer[t]
    <3>1. ended'[t][v] = now
      BY <2>2, <2>3, <2>4
    <3>2. v < answer'[t]
      BY <2>1, <2>3, <2>4, <1>1
    <3> QED
      BY <3>1, <3>2, <1>1
  <2>5. CASE v # answer[t]
    <3>1. v < answer[t] /\ ended[t][v] >= when /\ ended'[t][v] = ended[t][v]
      BY <2>5, <2>2, <2>3 DEF AnswerSince
    <3>2. answer[t] \in Nat /\ v \in Nat
      BY <1>1
    <3>3. v < answer'[t]
      BY <3>1, <3>2, <2>1
    <3> QED
      BY <3>1, <3>3
  <2> QED
    BY <2>4, <2>5
<1> QED
  BY <1>2, <1>3

\* What was an answer since some moment was one since an earlier moment.
LEMMA AnsweredEarlier ==
  ASSUME TypeOK, NEW t \in Tokens, NEW v \in Versions,
         NEW when \in Int, NEW earlier \in Int, earlier <= when,
         AnswerSince(t, v, when)
  PROVE  AnswerSince(t, v, earlier)
<1>1. ended[t][v] \in Int
  BY Constants DEF TypeOK, Times
<1> QED
  BY <1>1 DEF AnswerSince

LEMMA InitIInv == Init => IInv
<1> SUFFICES ASSUME Init PROVE IInv
  OBVIOUS
<1>1. TypeOK
  <2>1. 0 \in Times /\ 0 \in 0 .. Slots
    BY Constants DEF Times
  <2> QED
    BY <2>1, Constants DEF Init, TypeOK, PCs, Outcomes
<1>2. Reviewing = {} /\ {c \in Calls : pc[c] \in {"sent", "answered"}} = {}
  BY DEF Init, Reviewing
<1>3. Cached = {}
  BY DEF Init, Cached
<1>4. Bounded
  <2>1. IsFiniteSet(Reviewing) /\ IsFiniteSet(Cached)
    BY <1>2, <1>3, FS_EmptySet
  <2>2. SlotsExact
    BY <1>2, FS_EmptySet DEF SlotsExact, Init
  <2>3. CacheBounded
    BY <1>3, FS_EmptySet, Constants DEF CacheBounded
  <2> QED
    BY <2>1, <2>2, <2>3 DEF Bounded
<1>5. Fresh
  BY <1>3, Constants DEF Init, Fresh, EntriesFresh, CallFresh, CacheInUse, CopyFresh,
     ReceivedSince, Served
<1> QED
  BY <1>1, <1>4, <1>5 DEF IInv

-----------------------------------------------------------------------------
\* The semaphore.

\* No step but Acquire, Fail and Receive moves a call onto or off the network.
LEMMA SlotsStep ==
  ASSUME IInv, [Next]_vars
  PROVE  IsFiniteSet(Reviewing)' /\ SlotsExact' /\ inFlight' \in 0 .. Slots
<1>0. /\ pc \in [Calls -> PCs] /\ inFlight \in 0 .. Slots /\ Slots \in Nat
      /\ IsFiniteSet(Reviewing) /\ inFlight = Cardinality(Reviewing)
  BY Constants DEF IInv, TypeOK, Bounded, SlotsExact, Reviewing
<1> SUFFICES /\ IsFiniteSet(Reviewing')
             /\ inFlight' = Cardinality(Reviewing') /\ inFlight' \in 0 .. Slots
  BY DEF SlotsExact, Reviewing
<1>1. ASSUME NEW c \in Calls, pc[c] = "wait", pc' = [pc EXCEPT ![c] = "sent"],
             inFlight < Slots, inFlight' = inFlight + 1
      PROVE  /\ IsFiniteSet(Reviewing')
             /\ inFlight' = Cardinality(Reviewing') /\ inFlight' \in 0 .. Slots
  <2>1. Reviewing' = Reviewing \cup {c} /\ c \notin Reviewing
    BY <1>0, <1>1 DEF Reviewing
  <2> QED
    BY <1>0, <1>1, <2>1, FS_AddElement
<1>2. ASSUME NEW c \in Calls, pc[c] \in {"sent", "answered"},
             NEW to, to \notin {"sent", "answered"}, pc' = [pc EXCEPT ![c] = to],
             inFlight' = inFlight - 1
      PROVE  /\ IsFiniteSet(Reviewing')
             /\ inFlight' = Cardinality(Reviewing') /\ inFlight' \in 0 .. Slots
  <2>1. Reviewing' = Reviewing \ {c} /\ c \in Reviewing
    BY <1>0, <1>2 DEF Reviewing
  <2>2. IsFiniteSet(Reviewing') /\ Cardinality(Reviewing') = inFlight - 1
    BY <1>0, <2>1, FS_RemoveElement
  <2>3. Cardinality(Reviewing') \in Nat
    BY <2>2, FS_CardinalityType
  <2> QED
    BY <1>0, <1>2, <2>2, <2>3
<1>3. ASSUME inFlight' = inFlight,
             \/ pc' = pc
             \/ \E c \in Calls, to \in PCs :
                  /\ pc' = [pc EXCEPT ![c] = to]
                  /\ to \in {"sent", "answered"} <=> pc[c] \in {"sent", "answered"}
      PROVE  /\ IsFiniteSet(Reviewing')
             /\ inFlight' = Cardinality(Reviewing') /\ inFlight' \in 0 .. Slots
  <2>1. Reviewing' = Reviewing
    BY <1>0, <1>3 DEF Reviewing
  <2> QED
    BY <1>0, <1>3, <2>1
<1>4. CASE UNCHANGED vars \/ Tick \/ \E t \in Tokens : Change(t)
  BY <1>3, <1>4 DEF vars, calls, Tick, Change
<1>5. ASSUME NEW c \in Calls,
             \/ Lookup(c) \/ Check(c) \/ GiveUp(c) \/ Answer(c) \/ Store(c)
             \/ \E t \in Tokens : Enter(c, t) \/ EnterDone(c, t)
      PROVE  /\ IsFiniteSet(Reviewing')
             /\ inFlight' = Cardinality(Reviewing') /\ inFlight' \in 0 .. Slots
  BY <1>3, <1>5 DEF Lookup, Check, GiveUp, Answer, Store, Enter, EnterDone, Return, Goto, PCs
<1>6. ASSUME NEW c \in Calls, Acquire(c) \/ Fail(c) \/ Receive(c)
      PROVE  /\ IsFiniteSet(Reviewing')
             /\ inFlight' = Cardinality(Reviewing') /\ inFlight' \in 0 .. Slots
  BY <1>1, <1>2, <1>6 DEF Acquire, Fail, Receive, Return, Goto
<1> QED
  BY <1>4, <1>5, <1>6 DEF Next, Step

-----------------------------------------------------------------------------
\* Types.

\* A return ends the call and clears its locals.
LEMMA ReturnTyped ==
  ASSUME TypeOK, NEW c \in Calls, NEW from, NEW o \in Outcomes, Return(c, from, o)
  PROVE  /\ pc' \in [Calls -> PCs] /\ out' \in [Calls -> Outcomes]
         /\ entry' \in [Calls -> Entry \cup {NoEntry}]
         /\ got' \in [Calls -> Versions \cup {0}]
BY DEF TypeOK, Return, Goto, PCs

\* Purging leaves each token its entry, if that is live, or none.
LEMMA PurgedTyped ==
  ASSUME TypeOK
  PROVE  /\ Purged \in [Tokens -> Entry \cup {NoEntry}]
         /\ \A t \in Tokens : Purged[t] # NoEntry =>
              t \in Cached /\ Purged[t] = cache[t] /\ now < cache[t].expires
         /\ \A t \in Cached : now < cache[t].expires => Purged[t] = cache[t]
BY DEF TypeOK, Purged, Cached

\* Store leaves what a purge leaves, and perhaps the answer of its call.
LEMMA StoreCases ==
  ASSUME NEW c \in Calls, Store(c)
  PROVE  \/ cache' = Purged
         \/ /\ Purged[tok[c]] = NoEntry
            /\ Size(Purged) < Capacity
            /\ cache' = [Purged EXCEPT ![tok[c]] =
                           [version |-> got[c], expires |-> started[c] + CacheTTL]]
BY DEF Store

LEMMA TypeStep ==
  ASSUME IInv, [Next]_vars
  PROVE  TypeOK'
<1>0. TypeOK
  BY DEF IInv
<1>1. inFlight' \in 0 .. Slots
  BY SlotsStep
<1> SUFFICES /\ now' \in Times
             /\ answer' \in [Tokens -> Versions]
             /\ ended' \in [Tokens -> [Versions -> Times]]
             /\ cache' \in [Tokens -> Entry \cup {NoEntry}]
             /\ pc' \in [Calls -> PCs]
             /\ tok' \in [Calls -> Tokens]
             /\ started' \in [Calls -> Times]
             /\ entry' \in [Calls -> Entry \cup {NoEntry}]
             /\ got' \in [Calls -> Versions \cup {0}]
             /\ out' \in [Calls -> Outcomes]
  BY <1>1 DEF TypeOK
<1>2. CASE UNCHANGED vars
  BY <1>0, <1>2 DEF vars, calls, TypeOK
<1>3. CASE Tick
  BY <1>0, <1>3, Constants DEF Tick, calls, TypeOK, Times
<1>4. ASSUME NEW t \in Tokens, Change(t)
      PROVE  /\ answer' \in [Tokens -> Versions]
             /\ ended' \in [Tokens -> [Versions -> Times]]
             /\ UNCHANGED <<now, cache, calls>>
  <2>1. answer \in [Tokens -> Versions] /\ ended \in [Tokens -> [Versions -> Times]]
        /\ now \in Times
    BY <1>0 DEF TypeOK
  <2>2. ended' = [ended EXCEPT ![t] = [ended[t] EXCEPT ![answer[t]] = now]]
    BY <1>4 DEF Change
  <2>3. [ended[t] EXCEPT ![answer[t]] = now] \in [Versions -> Times]
    BY <2>1
  <2> QED
    BY <1>4, <2>1, <2>2, <2>3 DEF Change
<1>5. ASSUME NEW c \in Calls, NEW t \in Tokens, Enter(c, t) \/ EnterDone(c, t)
      PROVE  /\ pc' \in [Calls -> PCs] /\ tok' \in [Calls -> Tokens]
             /\ started' \in [Calls -> Times] /\ out' \in [Calls -> Outcomes]
             /\ UNCHANGED <<now, answer, ended, cache, entry, got>>
  BY <1>0, <1>5 DEF Enter, EnterDone, Goto, TypeOK, PCs, Outcomes
<1>6. ASSUME NEW c \in Calls, Lookup(c) \/ Acquire(c) \/ Answer(c)
      PROVE  /\ pc' \in [Calls -> PCs]
             /\ entry' \in [Calls -> Entry \cup {NoEntry}]
             /\ got' \in [Calls -> Versions \cup {0}]
             /\ UNCHANGED <<now, answer, ended, cache, tok, started, out>>
  <2>1. cache[tok[c]] \in Entry \cup {NoEntry} /\ answer[tok[c]] \in Versions
    BY <1>0 DEF TypeOK
  <2>2. CASE Lookup(c)
    BY <1>0, <2>1, <2>2 DEF Lookup, Goto, TypeOK, PCs
  <2>3. CASE Acquire(c)
    BY <1>0, <2>3 DEF Acquire, Goto, TypeOK, PCs
  <2>4. CASE Answer(c)
    BY <1>0, <2>1, <2>4 DEF Answer, Goto, TypeOK, PCs
  <2> QED
    BY <1>6, <2>2, <2>3, <2>4
<1>7. ASSUME NEW c \in Calls, Check(c) \/ GiveUp(c) \/ Fail(c) \/ Receive(c)
      PROVE  /\ pc' \in [Calls -> PCs] /\ out' \in [Calls -> Outcomes]
             /\ entry' \in [Calls -> Entry \cup {NoEntry}]
             /\ got' \in [Calls -> Versions \cup {0}]
             /\ UNCHANGED <<now, answer, ended, cache, tok, started>>
  <2>1. {entry[c].version, got[c], Unauthenticated, Unavailable} \subseteq Outcomes
    BY <1>0 DEF TypeOK, Outcomes, Entry, NoEntry
  <2>2. UNCHANGED <<now, answer, ended, cache, tok, started>>
    BY <1>7 DEF Check, GiveUp, Fail, Receive
  <2>3. CASE \E from, o : o \in Outcomes /\ Return(c, from, o)
    BY <1>0, <2>2, <2>3, ReturnTyped
  <2>4. CASE \E from, to : to \in PCs /\ Goto(c, from, to) /\ UNCHANGED <<entry, got, out>>
    BY <1>0, <2>2, <2>4 DEF Goto, TypeOK
  <2> QED
    BY <1>7, <2>1, <2>3, <2>4 DEF Check, GiveUp, Fail, Receive, PCs
<1>8. ASSUME NEW c \in Calls, Store(c)
      PROVE  /\ cache' \in [Tokens -> Entry \cup {NoEntry}]
             /\ pc' \in [Calls -> PCs] /\ out' \in [Calls -> Outcomes]
             /\ entry' \in [Calls -> Entry \cup {NoEntry}]
             /\ got' \in [Calls -> Versions \cup {0}]
             /\ UNCHANGED <<now, answer, ended, tok, started>>
  <2>1. got[c] \in Versions /\ started[c] \in Nat /\ tok[c] \in Tokens
    BY <1>0, <1>8 DEF IInv, Fresh, CallFresh, ReceivedSince, Store, Return, Goto, TypeOK, Times
  <2>2. started[c] + CacheTTL \in Nat
    BY <2>1, Constants
  <2> DEFINE kept == [version |-> got[c], expires |-> started[c] + CacheTTL]
  <2>5. kept \in Entry
    BY <2>1, <2>2, EntryTyped
  <2>3. cache' \in [Tokens -> Entry \cup {NoEntry}]
    <3> HIDE DEF kept
    <3>1. cache' = Purged \/ cache' = [Purged EXCEPT ![tok[c]] = kept]
      BY <1>8, StoreCases DEF kept
    <3> QED
      BY <1>0, <2>1, <2>5, <3>1, PurgedTyped
  <2>4. Return(c, "store", got[c]) /\ got[c] \in Outcomes
    BY <1>8, <2>1 DEF Store, Outcomes
  <2> QED
    BY <1>0, <1>8, <2>3, <2>4, ReturnTyped DEF Store
<1>9. CASE \E t \in Tokens : Change(t)
  BY <1>0, <1>4, <1>9 DEF TypeOK, calls
<1>10. CASE \E c \in Calls : \E t \in Tokens : Enter(c, t) \/ EnterDone(c, t)
  BY <1>0, <1>5, <1>10 DEF TypeOK
<1>11. CASE \E c \in Calls : Step(c)
  BY <1>0, <1>6, <1>7, <1>8, <1>11 DEF TypeOK, Step
<1> QED
  BY <1>2, <1>3, <1>9, <1>10, <1>11 DEF Next

-----------------------------------------------------------------------------
\* The cache.

\* A purge only removes entries, and Store adds one only where there is room.
LEMMA CacheStep ==
  ASSUME IInv, [Next]_vars
  PROVE  IsFiniteSet(Cached)' /\ CacheBounded'
<1>0. /\ TypeOK /\ IsFiniteSet(Cached) /\ Cardinality(Cached) <= Capacity
      /\ Capacity \in Nat
  BY Constants DEF IInv, Bounded, CacheBounded
<1> SUFFICES IsFiniteSet(Cached') /\ Cardinality(Cached') <= Capacity
  BY DEF CacheBounded
<1>1. CASE UNCHANGED cache
  BY <1>0, <1>1 DEF Cached
<1>2. ASSUME NEW c \in Calls, Store(c)
      PROVE  IsFiniteSet(Cached') /\ Cardinality(Cached') <= Capacity
  <2> DEFINE Live == {t \in Tokens : Purged[t] # NoEntry}
  <2>1. Live \subseteq Cached
    BY <1>0, PurgedTyped
  <2>2. /\ IsFiniteSet(Live) /\ Cardinality(Live) <= Cardinality(Cached)
        /\ Cardinality(Live) \in Nat /\ Cardinality(Cached) \in Nat
    BY <1>0, <2>1, FS_Subset, FS_CardinalityType
  <2>3. CASE cache' = Purged
    <3>1. Cached' = Live
      BY <2>3 DEF Cached
    <3> QED
      BY <1>0, <2>2, <3>1
  <2>4. CASE /\ Size(Purged) < Capacity
             /\ cache' = [Purged EXCEPT ![tok[c]] =
                            [version |-> got[c], expires |-> started[c] + CacheTTL]]
    <3>1. got[c] \in Versions /\ started[c] \in Nat /\ tok[c] \in Tokens
      BY <1>0, <1>2 DEF IInv, Fresh, CallFresh, ReceivedSince, Store, Return, Goto, TypeOK, Times
    <3>2. [version |-> got[c], expires |-> started[c] + CacheTTL] # NoEntry
      <4>1. started[c] + CacheTTL \in Nat
        BY <3>1, Constants
      <4> QED
        BY <3>1, <4>1, EntryTyped
    <3>3. Cached' = Live \cup {tok[c]}
      BY <1>0, <2>4, <3>1, <3>2, PurgedTyped DEF Cached
    <3>4. Cardinality(Live) < Capacity
      BY <2>4 DEF Size
    <3> HIDE DEF Live
    <3>5. /\ IsFiniteSet(Live \cup {tok[c]})
          /\ Cardinality(Live \cup {tok[c]}) \in {Cardinality(Live), Cardinality(Live) + 1}
      BY <2>2, FS_AddElement
    <3> QED
      BY <1>0, <2>2, <3>3, <3>4, <3>5
  <2> QED
    BY <1>2, <2>3, <2>4, StoreCases
<1>3. ASSUME NEW c \in Calls, Step(c)
      PROVE  Store(c) \/ UNCHANGED cache
  BY <1>3 DEF Step, Lookup, Check, Acquire, GiveUp, Answer, Fail, Receive
<1>4. Tick \/ (\E t \in Tokens : Change(t)) \/ UNCHANGED vars => UNCHANGED cache
  BY DEF Tick, Change, vars
<1>5. ASSUME NEW c \in Calls, NEW t \in Tokens, Enter(c, t) \/ EnterDone(c, t)
      PROVE  UNCHANGED cache
  BY <1>5 DEF Enter, EnterDone
<1> QED
  BY <1>1, <1>2, <1>3, <1>4, <1>5 DEF Next

-----------------------------------------------------------------------------
\* How old what is cached, copied, received and returned may be.

\* The clock and the endpoint: what was good enough remains so.
LEMMA WorldFresh ==
  ASSUME IInv, Tick \/ \E u \in Tokens : Change(u)
  PROVE  Fresh'
<1>0. /\ TypeOK /\ Fresh /\ now \in Nat /\ CacheTTL \in Nat
      /\ UNCHANGED <<cache, pc, tok, started, entry, got, out>>
  BY Constants DEF IInv, TypeOK, Times, Tick, Change, calls
<1>1. now' \in Nat /\ now <= now'
  BY <1>0 DEF Tick, Change
<1>2. ASSUME NEW t \in Tokens, NEW v \in Versions, NEW when \in Int, when <= now,
             AnswerSince(t, v, when)
      PROVE  v = answer'[t] \/ (v < answer'[t] /\ ended'[t][v] >= when)
  <2>1. CASE Tick
    BY <1>2, <2>1 DEF Tick, AnswerSince
  <2>2. CASE \E u \in Tokens : Change(u)
    BY <1>0, <1>2, <2>2, AnsweredStays
  <2> QED
    BY <2>1, <2>2
<1>4. EntriesFresh'
  <2> SUFFICES ASSUME NEW t \in Tokens, cache[t] # NoEntry
               PROVE  /\ cache[t].version \notin Rejected
                      /\ AnswerSince(t, cache[t].version, cache[t].expires - CacheTTL)'
                      /\ cache[t].expires <= now' + CacheTTL
    BY <1>0 DEF EntriesFresh, Cached
  <2>1. cache[t].version \in Versions /\ cache[t].expires \in Nat
    BY <1>0, EntryTyped DEF TypeOK
  <2>2. /\ cache[t].version \notin Rejected
        /\ AnswerSince(t, cache[t].version, cache[t].expires - CacheTTL)
        /\ cache[t].expires <= now + CacheTTL
    BY <1>0 DEF Fresh, EntriesFresh, Cached
  <2>3. cache[t].expires - CacheTTL \in Int /\ cache[t].expires - CacheTTL <= now
    BY <1>0, <2>1, <2>2
  <2>4. cache[t].expires <= now' + CacheTTL
    BY <1>0, <1>1, <2>1, <2>2
  <2> QED
    BY <1>0, <1>2, <2>1, <2>2, <2>3, <2>4 DEF AnswerSince
<1>5. ASSUME NEW c \in Calls
      PROVE  CallFresh(c)'
  <2>0. /\ CallFresh(c) /\ started[c] \in Nat /\ started[c] <= now /\ tok[c] \in Tokens
    BY <1>0 DEF Fresh, CallFresh, TypeOK, Times
  <2>1. started[c] <= now'
    BY <1>0, <1>1, <2>0
  <2>2. CopyFresh(c)'
    <3> SUFFICES ASSUME pc[c] = "check"
                 PROVE  /\ entry[c] \in Entry
                        /\ entry[c].version \notin Rejected
                        /\ AnswerSince(tok[c], entry[c].version, entry[c].expires - CacheTTL)'
                        /\ entry[c].expires <= now' + CacheTTL
      BY <1>0 DEF CopyFresh
    <3>1. /\ entry[c] \in Entry
          /\ entry[c].version \notin Rejected
          /\ AnswerSince(tok[c], entry[c].version, entry[c].expires - CacheTTL)
          /\ entry[c].expires <= now + CacheTTL
      BY <2>0 DEF CallFresh, CopyFresh
    <3>2. entry[c].version \in Versions /\ entry[c].expires \in Nat
      BY <3>1, EntryTyped
    <3>3. /\ entry[c].expires - CacheTTL \in Int /\ entry[c].expires - CacheTTL <= now
          /\ entry[c].expires <= now' + CacheTTL
      BY <1>0, <1>1, <3>1, <3>2
    <3> QED
      BY <1>0, <1>2, <2>0, <3>1, <3>2, <3>3 DEF AnswerSince
  <2>3. ReceivedSince(c)'
    BY <1>0, <1>2, <2>0 DEF CallFresh, ReceivedSince, AnswerSince
  <2>4. Served(c)'
    <3>1. Since(c) \in Int /\ Since(c) <= now /\ Since(c)' = Since(c)
      BY <1>0, <2>0 DEF Since
    <3> QED
      BY <1>0, <1>2, <2>0, <3>1 DEF CallFresh, Served, AnswerSince
  <2> QED
    BY <1>0, <2>0, <2>1, <2>2, <2>3, <2>4 DEF CallFresh, CacheInUse
<1> QED
  BY <1>4, <1>5 DEF Fresh

\* Of the calls only c is touched, and nothing of the world.
OnlyCall(c) ==
  /\ UNCHANGED <<now, answer, ended>>
  /\ \A d \in Calls \ {c} :
       /\ pc'[d] = pc[d] /\ tok'[d] = tok[d] /\ started'[d] = started[d]
       /\ entry'[d] = entry[d] /\ got'[d] = got[d] /\ out'[d] = out[d]

\* A call's step leaves the other calls as good as they were: what is left to
\* show of it concerns the call itself, and the cache.
LEMMA FreshFrame ==
  ASSUME Fresh, NEW c \in Calls, OnlyCall(c), EntriesFresh', CallFresh(c)'
  PROVE  Fresh'
<1>1. ASSUME NEW d \in Calls \ {c}, CallFresh(d)
      PROVE  CallFresh(d)'
  BY <1>1 DEF OnlyCall, CallFresh, CacheInUse, CopyFresh, ReceivedSince, Served, Since, AnswerSince
<1> QED
  BY <1>1 DEF Fresh

LEMMA StepIsOneCall ==
  ASSUME TypeOK, NEW c \in Calls, Step(c) \/ \E t \in Tokens : Enter(c, t) \/ EnterDone(c, t)
  PROVE  OnlyCall(c)
BY DEF TypeOK, OnlyCall, Step, Lookup, Check, Acquire, GiveUp, Answer, Fail, Receive, Store,
   Enter, EnterDone, Return, Goto

\* Without a store, the entries stay as good as they were.
LEMMA EntriesStay ==
  ASSUME Fresh, UNCHANGED <<now, answer, ended, cache>>
  PROVE  EntriesFresh'
BY DEF Fresh, EntriesFresh, AnswerSince, Cached

\* A call enters: no copy, no answer yet.
LEMMA EnterFresh ==
  ASSUME IInv, NEW c \in Calls, NEW t \in Tokens, Enter(c, t) \/ EnterDone(c, t)
  PROVE  CallFresh(c)'
<1> USE DEF CallFresh, CacheInUse, CopyFresh, ReceivedSince, Served, Since
<1>1. TypeOK /\ now \in Nat
  BY DEF IInv, TypeOK, Times
<1>2. /\ started'[c] = now /\ now' = now /\ out'[c] \in {0, Unavailable}
      /\ pc'[c] \in {"wait", "lookup", "idle"} /\ (pc'[c] = "lookup" => CacheTTL # 0)
  BY <1>1 DEF Enter, EnterDone, Goto, TypeOK
<1>3. out'[c] \notin Versions
  BY <1>2, Constants DEF Unavailable
<1> QED
  BY <1>1, <1>2, <1>3

\* The copy of an entry is as good as the entry.
LEMMA LookupFresh ==
  ASSUME IInv, NEW c \in Calls, Lookup(c)
  PROVE  CallFresh(c)'
<1> USE DEF CallFresh, CacheInUse, CopyFresh, ReceivedSince, Served, Since
<1>1. TypeOK /\ Fresh /\ CallFresh(c) /\ EntriesFresh
  BY DEF IInv, Fresh
<1>2. /\ UNCHANGED <<now, answer, ended, cache, tok, started, out>>
      /\ entry'[c] = cache[tok[c]] /\ pc[c] = "lookup"
      /\ pc'[c] = IF cache[tok[c]] = NoEntry THEN "wait" ELSE "check"
      /\ tok[c] \in Tokens
  BY <1>1 DEF Lookup, Goto, TypeOK
<1>3. CASE cache[tok[c]] = NoEntry
  BY <1>1, <1>2, <1>3 DEF AnswerSince
<1>4. CASE cache[tok[c]] # NoEntry
  <2>1. /\ cache[tok[c]] \in Entry
        /\ cache[tok[c]].version \notin Rejected
        /\ AnswerSince(tok[c], cache[tok[c]].version, cache[tok[c]].expires - CacheTTL)
        /\ cache[tok[c]].expires <= now + CacheTTL
    BY <1>1, <1>2, <1>4 DEF EntriesFresh, Cached, TypeOK
  <2> QED
    BY <1>1, <1>2, <1>4, <2>1 DEF AnswerSince
<1> QED
  BY <1>3, <1>4

\* An entry is used only before its deadline, and so is young enough.
LEMMA CheckFresh ==
  ASSUME IInv, NEW c \in Calls, Check(c)
  PROVE  CallFresh(c)'
<1> USE DEF CallFresh, CacheInUse, CopyFresh, ReceivedSince, Served, Since
<1>1. TypeOK /\ Fresh /\ CallFresh(c)
  BY DEF IInv, Fresh
<1>2. /\ UNCHANGED <<now, answer, ended, tok, started>> /\ pc[c] = "check"
      /\ tok[c] \in Tokens /\ started[c] \in Nat /\ now \in Nat /\ CacheTTL \in Nat
  BY <1>1, Constants DEF Check, Goto, Return, TypeOK, Times
<1>3. /\ entry[c] \in Entry
      /\ entry[c].version \notin Rejected
      /\ AnswerSince(tok[c], entry[c].version, entry[c].expires - CacheTTL)
      /\ started[c] <= now /\ CacheTTL # 0
  BY <1>1, <1>2
<1>4. entry[c].version \in Versions /\ entry[c].expires \in Nat
  BY <1>3, EntryTyped
<1>5. CASE now < entry[c].expires /\ Return(c, "check", entry[c].version)
  <2>1. pc'[c] = "idle" /\ out'[c] = entry[c].version
    BY <1>1, <1>5 DEF Return, Goto, TypeOK
  <2>2. /\ started[c] - CacheTTL + 1 <= entry[c].expires - CacheTTL
        /\ started[c] - CacheTTL + 1 \in Int /\ entry[c].expires - CacheTTL \in Int
    BY <1>2, <1>3, <1>4, <1>5
  <2>3. AnswerSince(tok[c], entry[c].version, started[c] - CacheTTL + 1)
    BY <1>1, <1>2, <1>3, <1>4, <2>2, AnsweredEarlier
  <2> QED
    BY <1>2, <1>3, <2>1, <2>3 DEF AnswerSince
<1>6. CASE Goto(c, "check", "wait") /\ UNCHANGED <<entry, got, out>>
  <2>1. pc'[c] = "wait"
    BY <1>1, <1>6 DEF Goto, TypeOK
  <2> QED
    BY <1>1, <1>2, <1>6, <2>1 DEF AnswerSince
<1> QED
  BY <1>5, <1>6 DEF Check

\* The endpoint answers now, after the call began; a call that has failed
\* returns nobody.
LEMMA ReviewFresh ==
  ASSUME IInv, NEW c \in Calls, Acquire(c) \/ GiveUp(c) \/ Answer(c) \/ Fail(c)
  PROVE  CallFresh(c)'
<1> USE DEF CallFresh, CacheInUse, CopyFresh, ReceivedSince, Served, Since
<1>1. TypeOK /\ Fresh /\ CallFresh(c)
  BY DEF IInv, Fresh
<1>2. UNCHANGED <<now, answer, ended, tok, started>> /\ tok[c] \in Tokens
  BY <1>1 DEF Acquire, GiveUp, Answer, Fail, TypeOK
<1>3. CASE Acquire(c)
  <2>1. pc'[c] = "sent" /\ UNCHANGED <<entry, got, out>>
    BY <1>1, <1>3 DEF Acquire, Goto, TypeOK
  <2> QED
    BY <1>1, <1>2, <2>1 DEF AnswerSince
<1>4. CASE GiveUp(c) \/ Fail(c)
  <2>1. pc'[c] = "idle" /\ out'[c] = Unavailable
    BY <1>1, <1>4 DEF GiveUp, Fail, Return, Goto, TypeOK
  <2>2. Unavailable \notin Versions
    BY Constants DEF Unavailable
  <2> QED
    BY <1>1, <1>2, <2>1, <2>2
<1>5. CASE Answer(c)
  <2>1. /\ pc'[c] = "answered" /\ got'[c] = answer[tok[c]] /\ answer[tok[c]] \in Versions
        /\ UNCHANGED <<entry, out>>
    BY <1>1, <1>2, <1>5 DEF Answer, Goto, TypeOK
  <2> QED
    BY <1>1, <1>2, <2>1 DEF AnswerSince
<1> QED
  BY <1>3, <1>4, <1>5

\* A received answer is returned, or to be stored, unless it is a denial.
LEMMA ReceiveFresh ==
  ASSUME IInv, NEW c \in Calls, Receive(c)
  PROVE  CallFresh(c)'
<1> USE DEF CallFresh, CacheInUse, CopyFresh, ReceivedSince, Served, Since
<1>1. TypeOK /\ Fresh /\ CallFresh(c)
  BY DEF IInv, Fresh
<1>2. /\ UNCHANGED <<now, answer, ended, tok, started>> /\ pc[c] = "answered"
      /\ got[c] \in Versions /\ AnswerSince(tok[c], got[c], started[c])
  BY <1>1 DEF Receive
<1>3. CASE Return(c, "answered", Unauthenticated)
  <2>1. pc'[c] = "idle" /\ out'[c] = Unauthenticated
    BY <1>1, <1>3 DEF Return, Goto, TypeOK
  <2>2. Unauthenticated \notin Versions
    BY Constants DEF Unauthenticated
  <2> QED
    BY <1>1, <1>2, <2>1, <2>2
<1>4. CASE got[c] \notin Rejected /\ CacheTTL = 0 /\ Return(c, "answered", got[c])
  <2>1. pc'[c] = "idle" /\ out'[c] = got[c]
    BY <1>1, <1>4 DEF Return, Goto, TypeOK
  <2> QED
    BY <1>1, <1>2, <1>4, <2>1 DEF AnswerSince
<1>5. CASE /\ got[c] \notin Rejected /\ CacheTTL # 0
           /\ Goto(c, "answered", "store") /\ UNCHANGED <<entry, got, out>>
  <2>1. pc'[c] = "store"
    BY <1>1, <1>5 DEF Goto, TypeOK
  <2> QED
    BY <1>1, <1>2, <1>5, <2>1 DEF AnswerSince
<1> QED
  BY <1>3, <1>4, <1>5 DEF Receive

\* The entry that is made is as old as its call, and so is the answer returned.
LEMMA StoreFresh ==
  ASSUME IInv, NEW c \in Calls, Store(c)
  PROVE  EntriesFresh' /\ CallFresh(c)'
<1> USE DEF CallFresh, CacheInUse, CopyFresh, ReceivedSince, Served, Since
<1>1. TypeOK /\ Fresh /\ CallFresh(c)
  BY DEF IInv, Fresh
<1>2. /\ UNCHANGED <<now, answer, ended, tok, started>> /\ pc[c] = "store"
      /\ Return(c, "store", got[c]) /\ tok[c] \in Tokens
      /\ started[c] \in Nat /\ now \in Nat /\ CacheTTL \in Nat
  BY <1>1, Constants DEF Store, Return, Goto, TypeOK, Times
<1>3. /\ got[c] \in Versions /\ got[c] \notin Rejected
      /\ AnswerSince(tok[c], got[c], started[c])
      /\ started[c] <= now /\ CacheTTL # 0
  BY <1>1, <1>2
<1>4. CallFresh(c)'
  <2>1. pc'[c] = "idle" /\ out'[c] = got[c]
    BY <1>1, <1>2 DEF Return, Goto, TypeOK
  <2>2. AnswerSince(tok[c], got[c], started[c] - CacheTTL + 1)
    <3>1. started[c] - CacheTTL + 1 \in Int /\ started[c] - CacheTTL + 1 <= started[c]
      BY <1>2, <1>3
    <3> QED
      BY <1>1, <1>2, <1>3, <3>1, AnsweredEarlier
  <2> QED
    BY <1>2, <1>3, <2>1, <2>2 DEF AnswerSince
<1>5. EntriesFresh'
  <2> DEFINE kept == [version |-> got[c], expires |-> started[c] + CacheTTL]
  <2>1. ASSUME NEW t \in Tokens, Purged[t] # NoEntry
        PROVE  /\ Purged[t].version \notin Rejected
               /\ AnswerSince(t, Purged[t].version, Purged[t].expires - CacheTTL)
               /\ Purged[t].expires <= now + CacheTTL
    BY <1>1, <2>1, PurgedTyped DEF Fresh, EntriesFresh
  <2>2. /\ kept.version \notin Rejected
        /\ AnswerSince(tok[c], kept.version, kept.expires - CacheTTL)
        /\ kept.expires <= now + CacheTTL
    <3>1. kept.version = got[c] /\ kept.expires = started[c] + CacheTTL
      OBVIOUS
    <3> HIDE DEF kept
    <3>2. kept.expires - CacheTTL = started[c] /\ kept.expires <= now + CacheTTL
      BY <1>2, <1>3, <3>1
    <3> QED
      BY <1>3, <3>1, <3>2
  <2> HIDE DEF kept
  <2>3. ASSUME NEW t \in Tokens, cache'[t] # NoEntry
        PROVE  (Purged[t] # NoEntry /\ cache'[t] = Purged[t]) \/ (t = tok[c] /\ cache'[t] = kept)
    <3>1. cache' = Purged \/ cache' = [Purged EXCEPT ![tok[c]] = kept]
      BY StoreCases DEF kept
    <3> QED
      BY <1>1, <1>2, <2>3, <3>1, PurgedTyped
  <2> QED
    BY <1>2, <2>1, <2>2, <2>3 DEF EntriesFresh, Cached, AnswerSince
<1> QED
  BY <1>4, <1>5

LEMMA FreshStep ==
  ASSUME IInv, [Next]_vars
  PROVE  Fresh'
<1>0. TypeOK /\ Fresh
  BY DEF IInv
<1>1. CASE UNCHANGED vars
  BY <1>0, <1>1 DEF vars, calls, Fresh, CallFresh, CacheInUse, EntriesFresh, CopyFresh,
     ReceivedSince, Served, Since, AnswerSince, Cached
<1>2. CASE Tick \/ \E u \in Tokens : Change(u)
  BY <1>2, WorldFresh
<1>3. ASSUME NEW c \in Calls, NEW t \in Tokens, Enter(c, t) \/ EnterDone(c, t)
      PROVE  Fresh'
  <2>1. OnlyCall(c) /\ EntriesFresh'
    BY <1>0, <1>3, StepIsOneCall, EntriesStay DEF Enter, EnterDone
  <2> QED
    BY <1>0, <1>3, <2>1, EnterFresh, FreshFrame
<1>4. ASSUME NEW c \in Calls, Step(c)
      PROVE  Fresh'
  <2>1. OnlyCall(c)
    BY <1>0, <1>4, StepIsOneCall
  <2>2. CallFresh(c)'
    BY <1>4, LookupFresh, CheckFresh, ReviewFresh, ReceiveFresh, StoreFresh DEF Step
  <2>3. EntriesFresh'
    <3>1. CASE Store(c)
      BY <3>1, StoreFresh
    <3>2. CASE ~Store(c)
      <4>1. UNCHANGED <<now, answer, ended, cache>>
        BY <1>4, <3>2 DEF Step, Lookup, Check, Acquire, GiveUp, Answer, Fail, Receive
      <4> QED
        BY <1>0, <4>1, EntriesStay
    <3> QED
      BY <3>1, <3>2
  <2> QED
    BY <1>0, <2>1, <2>2, <2>3, FreshFrame
<1> QED
  BY <1>1, <1>2, <1>3, <1>4 DEF Next

-----------------------------------------------------------------------------
LEMMA NextIInv == IInv /\ [Next]_vars => IInv'
<1> SUFFICES ASSUME IInv, [Next]_vars PROVE IInv'
  OBVIOUS
<1>1. TypeOK'
  BY TypeStep
<1>2. Bounded'
  BY SlotsStep, CacheStep DEF Bounded
<1>3. Fresh'
  BY FreshStep
<1> QED
  BY <1>1, <1>2, <1>3 DEF IInv

\* The invariant holds in every reachable state.
LEMMA Invariant == Spec => []IInv
BY InitIInv, NextIInv, PTL DEF Spec

\* Every variable keeps its type; among them the semaphore, which takes no
\* more reviews than it has slots.
THEOREM CacheTypeCorrect == Spec => []TypeOK
<1>1. IInv => TypeOK
  BY DEF IInv
<1> QED
  BY <1>1, Invariant, PTL

\* Whatever ends a review, its slot is released, and only its own.
THEOREM SlotsCounted == Spec => []SlotsExact
<1>1. IInv => SlotsExact
  BY DEF IInv, Bounded
<1> QED
  BY <1>1, Invariant, PTL

\* However many calls end at once, the cache does not outgrow its capacity.
THEOREM CacheWithinCapacity == Spec => []CacheBounded
<1>1. IInv => CacheBounded
  BY DEF IInv, Bounded
<1> QED
  BY <1>1, Invariant, PTL

\* An entry holds an answer that was given within the lifetime that is left
\* to it, and no denial.
THEOREM CacheHoldsRecentAnswers == Spec => []EntriesFresh
<1>1. IInv => EntriesFresh
  BY DEF IInv, Fresh
<1> QED
  BY <1>1, Invariant, PTL

\* A principal returned by a call was the endpoint's answer less than the
\* cache's lifetime before the call began, or later, and never a denial.
THEOREM RevocationReflected == Spec => []ServedRecently
<1>1. IInv => ServedRecently
  BY DEF IInv, Fresh, CallFresh, Served, Since, ServedRecently
<1> QED
  BY <1>1, Invariant, PTL

\* No call, however late it stores its answer, replaces or removes an entry
\* that is live.
LEMMA KeepStep ==
  IInv /\ [Next]_vars =>
    [\A t \in Cached : now < cache[t].expires => cache'[t] = cache[t]]_vars
<1> SUFFICES ASSUME IInv, Next, NEW t \in Cached, now < cache[t].expires
             PROVE  cache'[t] = cache[t]
  OBVIOUS
<1>0. TypeOK /\ t \in Tokens /\ cache[t] # NoEntry
  BY DEF IInv, Cached
<1>1. CASE UNCHANGED cache
  BY <1>1
<1>2. ASSUME NEW c \in Calls, Store(c)
      PROVE  cache'[t] = cache[t]
  <2>1. Purged \in [Tokens -> Entry \cup {NoEntry}] /\ Purged[t] = cache[t]
    BY <1>0, PurgedTyped
  <2> QED
    BY <1>0, <1>2, <2>1, StoreCases
<1>3. UNCHANGED cache \/ \E c \in Calls : Store(c)
  BY DEF Next, Step, Tick, Change, Enter, EnterDone, Lookup, Check, Acquire, GiveUp, Answer,
     Fail, Receive
<1> QED
  BY <1>1, <1>2, <1>3

\* An entry that is still live keeps its answer and its deadline.
THEOREM LiveEntriesKept == Spec => LiveEntryKept
BY Invariant, KeepStep, PTL DEF Spec, LiveEntryKept
================================================================================
