--------------------------- MODULE SubmissionProofs ---------------------------
(***************************************************************************)
(* What the handlers of /tasks/{name} promise for every task definition,   *)
(* caller and payload, however many requests share the cache of lists and  *)
(* however the service behind the URLs changes its mind.                   *)
(***************************************************************************)
EXTENDS Submission, SequenceTheorems, TLAPS

\* An entry holds what the service returned for the entry's URL, at most one
\* fetch before some input with this template had it cached.
EntryFresh(u, e) ==
  /\ e.list.url = u
  /\ \E i \in 1 .. N :
       /\ Inputs[i].template = u.template
       /\ StateSince(e.list.version, e.expires - Inputs[i].ttl - FetchTimeout)
       /\ e.expires <= now + Inputs[i].ttl

CacheFresh == \A u \in DOMAIN cache : EntryFresh(u, cache[u])

\* An idle call has no locals.
IdleClean(c) == pc[c] = "idle" => at[c] = 1 /\ used[c] = Unused

\* A fetch is for an input that needs its list; its answer is for the URL that
\* the input still has, and younger than the fetch.
Fetching(c) ==
  pc[c] \in {"fetch", "answered"} =>
    /\ at[c] <= N
    /\ ~Skipped(c, at[c])
    /\ Value(c, at[c]) # Other
    /\ Resolved(c, at[c])
    /\ started[c] <= sent[c] /\ sent[c] <= now
    /\ pc[c] = "answered" =>
         /\ list[c] \in Answer
         /\ list[c].url = UrlOf(c, at[c])
         /\ StateSince(list[c].version, sent[c])

\* The loop's invariant, of a submission: who submitted it may, and each input
\* that the loop has left behind was checked against its list, or has none.
CheckedInput(c, i) ==
  Inputs[i].template # NoURL /\ Value(c, i) # Absent =>
    /\ used[c][i] # NoAnswer
    /\ Value(c, i) \in Granted(used[c][i])
    /\ StateSinceFor(Inputs[i].template, used[c][i].version, started[c])

Checked(c) ==
  /\ pc[c] = "enqueue" => kind[c] = "submit" /\ at[c] = N + 1
  /\ pc[c] # "idle" /\ kind[c] = "submit" =>
       /\ MayRun(who[c])
       /\ \A i \in 1 .. N : i < at[c] => CheckedInput(c, i)

\* Each list that was used is that of its input's URL.
OwnList(c) == \A i \in 1 .. N : used[c][i] # NoAnswer => used[c][i].url = UrlOf(c, i)

CallInv(c) ==
  started[c] <= now /\ IdleClean(c) /\ Fetching(c) /\ Checked(c) /\ OwnList(c)

\* The inductive invariant.
IInv == TypeOK /\ CacheFresh /\ \A c \in Calls : CallInv(c)

-----------------------------------------------------------------------------
\* The configuration.

LEMMA InputTyped ==
  /\ N \in Nat
  /\ \A i \in 1 .. N :
       /\ Inputs[i].template \in Templates \cup {NoURL}
       /\ Inputs[i].dep \in 0 .. N /\ Inputs[i].ttl \in Nat
  /\ NoURL \notin Templates
<1>1. N \in Nat
  BY InputsAssumption, LenProperties DEF N
<1>2. ASSUME NEW i \in 1 .. N
      PROVE  Inputs[i] \in [template : Templates \cup {NoURL}, dep : Nat, ttl : Nat,
                            byCaller : BOOLEAN, needed : BOOLEAN]
  BY InputsAssumption, ElementOfSeq DEF N
<1> QED
  BY <1>1, <1>2, InputsAssumption DEF Templates

LEMMA Numbers ==
  /\ Versions \subseteq Nat \ {0} /\ 1 \in Versions
  /\ LastVersion \in Nat /\ FetchTimeout \in Nat /\ MaxTime \in Nat /\ 0 \in Times
  /\ Times \subseteq Nat
BY NumbersAssumption DEF Versions, Times

\* A list is never mistaken for the absence of one.
LEMMA AnswerTyped ==
  /\ NoAnswer \notin Answer
  /\ \A a \in Answer : a.url \in URL /\ a.version \in Versions
  /\ \A u \in URL, v \in Versions : [url |-> u, version |-> v] \in Answer
BY Numbers DEF Answer, NoAnswer

LEMMA EntryTyped ==
  /\ \A e \in Entry : e.list \in Answer /\ e.expires \in Nat
  /\ \A a \in Answer, x \in Nat : [list |-> a, expires |-> x] \in Entry
BY DEF Entry

\* An input that needs its list has a URL to fetch it from.
LEMMA UrlTyped ==
  ASSUME TypeOK, NEW c \in Calls, NEW i \in 1 .. N,
         Inputs[i].template # NoURL, Resolved(c, i)
  PROVE  UrlOf(c, i) \in URL /\ UrlOf(c, i).template = Inputs[i].template
<1>1. Inputs[i].template \in Templates
  BY InputTyped
<1>2. (IF Inputs[i].byCaller THEN who[c] ELSE NoOne) \in Anybody
  BY DEF TypeOK, Anybody
<1>3. (IF Inputs[i].dep = 0 THEN Absent ELSE Value(c, Inputs[i].dep)) \in Values \cup {Absent}
  BY DEF Resolved
<1> QED
  BY <1>1, <1>2, <1>3 DEF UrlOf, URL

-----------------------------------------------------------------------------
\* How old an answer may be.

\* What was the service's state since some moment was so since an earlier one.
LEMMA SinceEarlier ==
  ASSUME TypeOK, NEW v \in Versions, NEW when \in Int, NEW earlier \in Int,
         earlier <= when, StateSince(v, when)
  PROVE  StateSince(v, earlier)
<1>1. ended \in [Versions -> Times] /\ Times \subseteq Int
  BY Numbers DEF TypeOK
<1>2. ended[v] \in Int
  BY <1>1
<1> QED
  BY <1>2 DEF StateSince

\* When the service changes its state, what was its state since some past
\* moment remains so.
LEMMA SinceStays ==
  ASSUME TypeOK, Tick \/ Change, NEW v \in Versions, NEW when \in Int, when <= now,
         StateSince(v, when)
  PROVE  v = answer' \/ (v < answer' /\ ended'[v] >= when)
<1>1. /\ answer \in Versions /\ ended \in [Versions -> Times] /\ now \in Nat
      /\ v \in Nat /\ answer \in Nat
  BY Numbers DEF TypeOK
<1>2. CASE Tick
  BY <1>2 DEF Tick, StateSince
<1>3. CASE Change
  <2>1. answer' = answer + 1 /\ ended' = [ended EXCEPT ![answer] = now]
    BY <1>3 DEF Change
  <2>2. CASE v = answer
    <3>1. ended'[v] = now /\ v < answer'
      BY <1>1, <2>1, <2>2
    <3> QED
      BY <1>1, <3>1
  <2>3. CASE v # answer
    <3>1. v < answer /\ ended[v] >= when /\ ended'[v] = ended[v]
      BY <1>1, <2>1, <2>3 DEF StateSince
    <3>2. v < answer'
      BY <1>1, <2>1, <3>1
    <3> QED
      BY <3>1, <3>2
  <2> QED
    BY <2>2, <2>3
<1> QED
  BY <1>2, <1>3

\* What is true of an entry, and of an answer that was used, remains true
\* while the clock ticks and the service changes.
LEMMA EntryStays ==
  ASSUME TypeOK, Tick \/ Change, NEW u \in URL, NEW e \in Entry, EntryFresh(u, e)
  PROVE  EntryFresh(u, e)'
<1>1. PICK i \in 1 .. N :
        /\ Inputs[i].template = u.template
        /\ StateSince(e.list.version, e.expires - Inputs[i].ttl - FetchTimeout)
        /\ e.expires <= now + Inputs[i].ttl
  BY DEF EntryFresh
<1>2. /\ e.list.version \in Versions /\ e.expires \in Nat /\ Inputs[i].ttl \in Nat
      /\ now \in Nat /\ now' \in Nat /\ now <= now' /\ FetchTimeout \in Nat
  BY Numbers, AnswerTyped, EntryTyped, InputTyped DEF TypeOK, Tick, Change
<1>3. /\ e.expires - Inputs[i].ttl - FetchTimeout \in Int
      /\ e.expires - Inputs[i].ttl - FetchTimeout <= now
      /\ e.expires <= now' + Inputs[i].ttl
  BY <1>1, <1>2
<1>4. StateSince(e.list.version, e.expires - Inputs[i].ttl - FetchTimeout)'
  BY <1>1, <1>2, <1>3, SinceStays DEF StateSince
<1> QED
  BY <1>1, <1>3, <1>4 DEF EntryFresh

LEMMA UseStays ==
  ASSUME TypeOK, Tick \/ Change, NEW t, NEW v \in Versions, NEW when \in Nat, when <= now,
         StateSinceFor(t, v, when)
  PROVE  StateSinceFor(t, v, when)'
<1>1. PICK i \in 1 .. N :
        Inputs[i].template = t /\ StateSince(v, when - Inputs[i].ttl - FetchTimeout)
  BY DEF StateSinceFor
<1>2. Inputs[i].ttl \in Nat /\ now \in Nat /\ FetchTimeout \in Nat
  BY Numbers, InputTyped DEF TypeOK
<1>3. /\ when - Inputs[i].ttl - FetchTimeout \in Int
      /\ when - Inputs[i].ttl - FetchTimeout <= now
  BY <1>2
<1>4. StateSince(v, when - Inputs[i].ttl - FetchTimeout)'
  BY <1>1, <1>3, SinceStays DEF StateSince
<1> QED
  BY <1>1, <1>4 DEF StateSinceFor

-----------------------------------------------------------------------------
LEMMA InitIInv == Init => IInv
<1> SUFFICES ASSUME Init PROVE IInv
  OBVIOUS
<1>1. Unused \in [1 .. N -> Answer \cup {NoAnswer}] /\ 1 \in 1 .. N + 1
  BY InputTyped DEF Unused
<1>2. TypeOK
  BY <1>1, Numbers DEF Init, TypeOK, NoPayload, Anybody
<1>3. CacheFresh
  BY DEF Init, CacheFresh
<1>4. ASSUME NEW c \in Calls
      PROVE  CallInv(c)
  BY <1>4 DEF Init, CallInv, IdleClean, Fetching, Checked, OwnList, Unused
<1> QED
  BY <1>2, <1>3, <1>4 DEF IInv

-----------------------------------------------------------------------------
\* The clock and the service.

LEMMA WorldIInv ==
  ASSUME IInv, Tick \/ Change
  PROVE  IInv'
<1>0. /\ TypeOK /\ UNCHANGED <<cache, pc, kind, who, payload, at, started, sent, list, used>>
      /\ now \in Nat /\ now' \in Nat /\ now <= now'
  BY Numbers DEF IInv, TypeOK, Tick, Change, locals
<1>1. TypeOK'
  <2>1. now' \in Times /\ answer' \in Versions /\ ended' \in [Versions -> Times]
    BY <1>0, Numbers DEF TypeOK, Tick, Change, Times, Versions
  <2> QED
    BY <1>0, <2>1 DEF TypeOK
<1>2. CacheFresh'
  <2>1. ASSUME NEW u \in DOMAIN cache
        PROVE  EntryFresh(u, cache[u])'
    <3>1. u \in URL /\ cache[u] \in Entry /\ EntryFresh(u, cache[u])
      BY <1>0, <2>1 DEF IInv, CacheFresh, TypeOK
    <3> QED
      BY <1>0, <3>1, EntryStays DEF EntryFresh, StateSince
  <2> QED
    BY <1>0, <2>1 DEF CacheFresh
<1>3. ASSUME NEW c \in Calls
      PROVE  CallInv(c)'
  <2>0. CallInv(c) /\ started[c] \in Nat /\ sent[c] \in Nat /\ started[c] <= now
    BY <1>0, Numbers DEF IInv, CallInv, TypeOK
  <2>1. started[c] <= now' /\ IdleClean(c)' /\ OwnList(c)'
    BY <1>0, <2>0 DEF CallInv, IdleClean, OwnList, UrlOf, Value
  <2>2. Fetching(c)'
    <3>1. CASE pc[c] = "answered"
      <4>1. /\ list[c].version \in Versions /\ sent[c] <= now /\ sent[c] <= now'
            /\ StateSince(list[c].version, sent[c])
        BY <1>0, <2>0, <3>1, AnswerTyped DEF CallInv, Fetching
      <4>2. StateSince(list[c].version, sent[c])'
        BY <1>0, <2>0, <4>1, SinceStays DEF StateSince
      <4> QED
        BY <1>0, <2>0, <3>1, <4>1, <4>2 DEF CallInv, Fetching, Skipped, Resolved, Value, UrlOf
    <3>2. CASE pc[c] = "fetch"
      <4>1. sent[c] <= now'
        BY <1>0, <2>0, <3>2 DEF CallInv, Fetching
      <4> QED
        BY <1>0, <2>0, <3>2, <4>1 DEF CallInv, Fetching, Skipped, Resolved, Value, UrlOf
    <3> QED
      BY <1>0, <3>1, <3>2 DEF Fetching
  <2>3. ASSUME NEW i \in 1 .. N, CheckedInput(c, i)
        PROVE  CheckedInput(c, i)'
    <3> SUFFICES ASSUME Inputs[i].template # NoURL, Value(c, i) # Absent
                 PROVE  StateSinceFor(Inputs[i].template, used[c][i].version, started[c])'
      BY <1>0, <2>3 DEF CheckedInput, Value, Granted
    <3>0. used[c][i] \in Answer \cup {NoAnswer} /\ used[c][i] # NoAnswer
      BY <1>0, <2>3 DEF CheckedInput, TypeOK
    <3>1. used[c][i] \in Answer
      BY <3>0
    <3>2. /\ used[c][i].version \in Versions
          /\ StateSinceFor(Inputs[i].template, used[c][i].version, started[c])
      BY <2>3, <3>1, AnswerTyped DEF CheckedInput
    <3> QED
      BY <1>0, <2>0, <3>2, UseStays DEF StateSinceFor, StateSince
  <2>4. Checked(c)'
    BY <1>0, <2>0, <2>3 DEF CallInv, Checked
  <2> QED
    BY <1>0, <2>1, <2>2, <2>4 DEF CallInv
<1> QED
  BY <1>1, <1>2, <1>3 DEF IInv

-----------------------------------------------------------------------------
\* One call at a time.

Untouched(d) ==
  /\ pc'[d] = pc[d] /\ kind'[d] = kind[d] /\ who'[d] = who[d]
  /\ payload'[d] = payload[d] /\ at'[d] = at[d] /\ started'[d] = started[d]
  /\ sent'[d] = sent[d] /\ list'[d] = list[d] /\ used'[d] = used[d]

\* Of the calls only c is touched, and the clock and the service stand still.
OnlyCall(c) ==
  UNCHANGED <<now, answer, ended>> /\ \A d \in Calls \ {c} : Untouched(d)

StepOf(c) ==
  Handler(c) \/ Serve(c) \/ \E w \in Anybody : Submit(c, w) \/ Show(c, w)

\* What a request asks for decides its URLs and what its loop does with them.
SameRequest(c) == kind'[c] = kind[c] /\ who'[c] = who[c] /\ payload'[c] = payload[c]

LEMMA SameURLs ==
  ASSUME NEW c, SameRequest(c)
  PROVE  \A i : /\ Value(c, i)' = Value(c, i) /\ UrlOf(c, i)' = UrlOf(c, i)
                /\ Resolved(c, i)' <=> Resolved(c, i)
                /\ Skipped(c, i)' <=> Skipped(c, i)
BY DEF SameRequest, Value, UrlOf, Resolved, Skipped

LEMMA SameChecks ==
  ASSUME NEW c, SameRequest(c), UNCHANGED <<answer, ended>>, started'[c] = started[c],
         NEW i, used'[c][i] = used[c][i], CheckedInput(c, i)
  PROVE  CheckedInput(c, i)'
BY SameURLs DEF CheckedInput, StateSinceFor, StateSince, Granted

LEMMA OthersInv ==
  ASSUME NEW d \in Calls, UNCHANGED <<now, answer, ended>>, Untouched(d), CallInv(d)
  PROVE  CallInv(d)'
<1>1. /\ SameRequest(d) /\ UNCHANGED <<now, answer, ended>>
      /\ pc'[d] = pc[d] /\ at'[d] = at[d] /\ started'[d] = started[d]
      /\ sent'[d] = sent[d] /\ list'[d] = list[d] /\ used'[d] = used[d]
  BY DEF Untouched, SameRequest
<1>2. \A i \in 1 .. N : CheckedInput(d, i) => CheckedInput(d, i)'
  BY <1>1, SameChecks
<1>3. IdleClean(d)' /\ OwnList(d)'
  BY <1>1, SameURLs DEF CallInv, IdleClean, OwnList
<1>4. Fetching(d)'
  BY <1>1, SameURLs DEF CallInv, Fetching, StateSince
<1>5. Checked(d)'
  BY <1>1, <1>2 DEF CallInv, Checked, SameRequest
<1> QED
  BY <1>1, <1>3, <1>4, <1>5 DEF CallInv

\* A request that has been answered leaves nothing behind.
LEMMA ReturnInv ==
  ASSUME IInv, NEW c \in Calls, Return(c), UNCHANGED <<now, answer, ended>>
  PROVE  OnlyCall(c) /\ CallInv(c)'
<1>1. TypeOK /\ now \in Nat
  BY Numbers DEF IInv, TypeOK
<1>2. OnlyCall(c)
  BY <1>1 DEF OnlyCall, Untouched, Return, TypeOK
<1>3. /\ pc'[c] = "idle" /\ at'[c] = 1 /\ started'[c] = 0 /\ used'[c] = Unused
  BY <1>1 DEF Return, TypeOK
<1>4. \A i \in 1 .. N : used'[c][i] = NoAnswer
  BY <1>3 DEF Unused
<1> QED
  BY <1>1, <1>2, <1>3, <1>4 DEF CallInv, IdleClean, Fetching, Checked, OwnList

LEMMA EnterInv ==
  ASSUME IInv, NEW c \in Calls, NEW w \in Anybody, Submit(c, w) \/ Show(c, w)
  PROVE  OnlyCall(c) /\ CallInv(c)'
<1>1. TypeOK /\ CallInv(c) /\ now \in Nat
  BY Numbers DEF IInv, TypeOK
<1>2. PICK k, p : /\ Enter(c, k, w, p)
                  /\ k = "submit" => MayRun(w)
  BY DEF Submit, Show
<1>3. OnlyCall(c)
  BY <1>1, <1>2 DEF OnlyCall, Untouched, Enter, TypeOK
<1>4. /\ pc'[c] = "input" /\ kind'[c] = k /\ who'[c] = w /\ started'[c] = now
      /\ at'[c] = 1 /\ used'[c] = Unused /\ now' = now
  BY <1>1, <1>2 DEF Enter, TypeOK, CallInv, IdleClean
<1>5. /\ \A i \in 1 .. N : used'[c][i] = NoAnswer
      /\ \A i \in 1 .. N : ~(i < 1)
  BY <1>4, InputTyped DEF Unused
<1>6. Checked(c)'
  BY <1>2, <1>4, <1>5 DEF Checked, MayRun
<1> QED
  BY <1>1, <1>3, <1>4, <1>5, <1>6 DEF CallInv, IdleClean, Fetching, OwnList

\* The loop goes on with nothing used, when there was nothing to check.
LEMMA OnwardInv ==
  ASSUME IInv, NEW c \in Calls, Onward(c), UNCHANGED <<now, answer, ended>>, UNCHANGED used,
         pc[c] # "idle", at[c] \in 1 .. N,
         kind[c] = "submit" => Inputs[at[c]].template = NoURL \/ Value(c, at[c]) = Absent
  PROVE  OnlyCall(c) /\ CallInv(c)'
<1>1. TypeOK /\ CallInv(c)
  BY DEF IInv
<1>2. OnlyCall(c)
  BY <1>1 DEF OnlyCall, Untouched, Onward, TypeOK
<1>3. /\ pc'[c] = "input" /\ at'[c] = at[c] + 1 /\ started'[c] = started[c]
      /\ SameRequest(c) /\ used' = used /\ now' = now /\ UNCHANGED <<answer, ended>>
  BY <1>1 DEF Onward, TypeOK, SameRequest
<1>4. ASSUME NEW i \in 1 .. N, i < at'[c], kind[c] = "submit"
      PROVE  CheckedInput(c, i)'
  <2>1. CASE i < at[c]
    BY <1>1, <1>3, <1>4, <2>1, SameChecks DEF CallInv, Checked
  <2>2. CASE i = at[c]
    BY <1>3, <1>4, <2>2, SameURLs DEF CheckedInput
  <2> QED
    BY <1>3, <1>4, <2>1, <2>2, InputTyped
<1>5. Checked(c)'
  BY <1>1, <1>3, <1>4 DEF CallInv, Checked, MayRun, SameRequest
<1>6. OwnList(c)'
  BY <1>1, <1>3, SameURLs DEF CallInv, OwnList
<1> QED
  BY <1>1, <1>2, <1>3, <1>5, <1>6 DEF CallInv, IdleClean, Fetching

\* The list a is at hand, for the input's URL and young enough.
LEMMA PassInv ==
  ASSUME IInv, NEW c \in Calls, UNCHANGED <<now, answer, ended>>,
         pc[c] # "idle", at[c] \in 1 .. N, NEW a \in Answer, Pass(c, a),
         a.url = UrlOf(c, at[c]),
         StateSinceFor(Inputs[at[c]].template, a.version, started[c])
  PROVE  OnlyCall(c) /\ CallInv(c)'
<1>1. TypeOK /\ CallInv(c)
  BY DEF IInv
<1>2. CASE Return(c)
  BY <1>2, ReturnInv
<1>3. CASE /\ kind[c] = "submit" => Value(c, at[c]) \in Granted(a)
           /\ Onward(c)
           /\ used' = [used EXCEPT ![c][at[c]] = a]
  <2>1. OnlyCall(c)
    BY <1>1, <1>3 DEF OnlyCall, Untouched, Onward, TypeOK
  <2>2. /\ pc'[c] = "input" /\ at'[c] = at[c] + 1 /\ started'[c] = started[c]
        /\ SameRequest(c) /\ now' = now /\ UNCHANGED <<answer, ended>>
    BY <1>1, <1>3 DEF Onward, TypeOK, SameRequest
  <2>3. /\ used'[c][at[c]] = a
        /\ \A i \in 1 .. N : i # at[c] => used'[c][i] = used[c][i]
    <3>1. /\ used \in [Calls -> [1 .. N -> Answer \cup {NoAnswer}]]
          /\ used[c] \in [1 .. N -> Answer \cup {NoAnswer}]
      BY <1>1 DEF TypeOK
    <3>2. used'[c] = [used[c] EXCEPT ![at[c]] = a]
      BY <1>3, <3>1
    <3> QED
      BY <3>1, <3>2
  <2>4. ASSUME NEW i \in 1 .. N, i < at'[c], kind[c] = "submit"
        PROVE  CheckedInput(c, i)'
    <3>1. CASE i < at[c]
      <4>1. i # at[c] /\ CheckedInput(c, i)
        BY <1>1, <2>4, <3>1, InputTyped DEF CallInv, Checked
      <4> QED
        BY <2>2, <2>3, <4>1, SameChecks
    <3>2. CASE i = at[c]
      <4>1. StateSinceFor(Inputs[i].template, a.version, started[c])'
        BY <2>2, <3>2 DEF StateSinceFor, StateSince
      <4> QED
        BY <1>3, <2>2, <2>3, <2>4, <3>2, <4>1, SameURLs, AnswerTyped
           DEF CheckedInput, Granted, StateSinceFor
    <3> QED
      BY <2>2, <2>4, <3>1, <3>2, InputTyped
  <2>5. Checked(c)'
    BY <1>1, <2>2, <2>4 DEF CallInv, Checked, MayRun, SameRequest
  <2>6. OwnList(c)'
    BY <1>1, <2>2, <2>3, SameURLs DEF CallInv, OwnList
  <2> QED
    BY <1>1, <2>1, <2>2, <2>5, <2>6 DEF CallInv, IdleClean, Fetching
<1> QED
  BY <1>2, <1>3 DEF Pass

\* An input that needs its list: its URL, and what the call may take it for.
LEMMA NeedsUrl ==
  ASSUME IInv, NEW c \in Calls, Needs(c) \/ pc[c] \in {"fetch", "answered"}
  PROVE  /\ pc[c] # "idle" /\ at[c] \in 1 .. N
         /\ ~Skipped(c, at[c]) /\ Value(c, at[c]) # Other /\ Resolved(c, at[c])
         /\ UrlOf(c, at[c]) \in URL
         /\ UrlOf(c, at[c]).template = Inputs[at[c]].template
<1>1. TypeOK /\ CallInv(c)
  BY DEF IInv
<1>2. /\ pc[c] # "idle" /\ at[c] <= N
      /\ ~Skipped(c, at[c]) /\ Value(c, at[c]) # Other /\ Resolved(c, at[c])
  BY <1>1 DEF Needs, AtInput, CallInv, Fetching
<1>3. at[c] \in 1 .. N
  BY <1>1, <1>2, InputTyped DEF TypeOK
<1>4. Inputs[at[c]].template # NoURL
  BY <1>2 DEF Skipped
<1> QED
  BY <1>1, <1>2, <1>3, <1>4, UrlTyped

\* A live entry is young enough for whoever asks now, and so since it arrived.
LEMMA HitInv ==
  ASSUME IInv, NEW c \in Calls, Hit(c)
  PROVE  OnlyCall(c) /\ CallInv(c)'
<1> DEFINE u == UrlOf(c, at[c])
<1>1. TypeOK /\ CallInv(c) /\ Needs(c) /\ Live(u) /\ Pass(c, cache[u].list)
      /\ UNCHANGED <<now, answer, ended>>
  BY DEF IInv, Hit, Key
<1>2. pc[c] # "idle" /\ at[c] \in 1 .. N /\ u.template = Inputs[at[c]].template
  BY <1>1, NeedsUrl
<1>3. u \in DOMAIN cache /\ now <= cache[u].expires
  BY <1>1 DEF Live, Key
<1> HIDE DEF u
<1>4. EntryFresh(u, cache[u]) /\ cache[u] \in Entry
  BY <1>1, <1>3 DEF IInv, CacheFresh, TypeOK
<1>5. /\ cache[u].list \in Answer /\ cache[u].list.version \in Versions
      /\ cache[u].expires \in Nat
  BY <1>4, EntryTyped, AnswerTyped
<1>6. StateSinceFor(Inputs[at[c]].template, cache[u].list.version, started[c])
  <2>1. PICK i \in 1 .. N :
          /\ Inputs[i].template = u.template
          /\ StateSince(cache[u].list.version, cache[u].expires - Inputs[i].ttl - FetchTimeout)
    BY <1>4 DEF EntryFresh
  <2>2. /\ started[c] \in Nat /\ started[c] <= now /\ now \in Nat
        /\ Inputs[i].ttl \in Nat /\ FetchTimeout \in Nat
    BY <1>1, Numbers, InputTyped DEF TypeOK, CallInv
  <2>3. /\ started[c] - Inputs[i].ttl - FetchTimeout \in Int
        /\ cache[u].expires - Inputs[i].ttl - FetchTimeout \in Int
        /\ started[c] - Inputs[i].ttl - FetchTimeout
             <= cache[u].expires - Inputs[i].ttl - FetchTimeout
    BY <1>3, <1>5, <2>2
  <2>4. StateSince(cache[u].list.version, started[c] - Inputs[i].ttl - FetchTimeout)
    BY <1>1, <1>5, <2>1, <2>3, SinceEarlier
  <2> QED
    BY <1>2, <2>1, <2>4 DEF StateSinceFor
<1>7. cache[u].list.url = UrlOf(c, at[c])
  BY <1>4 DEF EntryFresh, u
<1> QED
  BY <1>1, <1>2, <1>5, <1>6, <1>7, PassInv

\* What a fetch has received is from after the fetch, so since the call arrived.
LEMMA ReceiveInv ==
  ASSUME IInv, NEW c \in Calls, Receive(c)
  PROVE  OnlyCall(c) /\ CallInv(c)'
<1>1. /\ TypeOK /\ CallInv(c) /\ pc[c] = "answered" /\ Pass(c, list[c])
      /\ UNCHANGED <<now, answer, ended>>
  BY DEF IInv, Receive
<1>2. /\ list[c] \in Answer /\ list[c].url = UrlOf(c, at[c])
      /\ StateSince(list[c].version, sent[c]) /\ started[c] <= sent[c]
  BY <1>1 DEF CallInv, Fetching
<1>3. at[c] \in 1 .. N
  BY <1>1, NeedsUrl
<1>4. /\ started[c] \in Nat /\ sent[c] \in Nat /\ Inputs[at[c]].ttl \in Nat
      /\ FetchTimeout \in Nat /\ list[c].version \in Versions
  BY <1>1, <1>2, <1>3, Numbers, InputTyped, AnswerTyped DEF TypeOK
<1>5. /\ started[c] - Inputs[at[c]].ttl - FetchTimeout \in Int
      /\ started[c] - Inputs[at[c]].ttl - FetchTimeout <= sent[c]
  BY <1>2, <1>4
<1>6. StateSince(list[c].version, started[c] - Inputs[at[c]].ttl - FetchTimeout)
  BY <1>1, <1>2, <1>4, <1>5, SinceEarlier
<1>7. StateSinceFor(Inputs[at[c]].template, list[c].version, started[c])
  BY <1>3, <1>6 DEF StateSinceFor
<1> QED
  BY <1>1, <1>2, <1>3, <1>7, PassInv

\* A fetch begins, and the service answers it.
LEMMA FetchInv ==
  ASSUME IInv, NEW c \in Calls, Miss(c) \/ Serve(c)
  PROVE  OnlyCall(c) /\ CallInv(c)'
<1>1. TypeOK /\ CallInv(c) /\ now \in Nat
  BY Numbers DEF IInv, TypeOK
<1>2. /\ pc[c] # "idle" /\ at[c] \in 1 .. N
      /\ ~Skipped(c, at[c]) /\ Value(c, at[c]) # Other /\ Resolved(c, at[c])
      /\ UrlOf(c, at[c]) \in URL
  BY NeedsUrl DEF Miss, Serve
<1>3. /\ OnlyCall(c) /\ SameRequest(c) /\ UNCHANGED <<now, answer, ended, at, started, used>>
  BY <1>1 DEF OnlyCall, Untouched, SameRequest, Miss, Serve, TypeOK
<1>4. pc'[c] \in {"fetch", "answered"} /\ (pc'[c] = "answered" => Serve(c))
  BY <1>1 DEF Miss, Serve, TypeOK
<1>5. started[c] <= sent'[c] /\ sent'[c] <= now
  BY <1>1 DEF CallInv, Fetching, Miss, Serve, TypeOK
<1>6. ASSUME Serve(c)
      PROVE  /\ list'[c] \in Answer /\ list'[c].url = UrlOf(c, at[c])
             /\ list'[c].version = answer
  <2>1. list'[c] = [url |-> UrlOf(c, at[c]), version |-> answer] /\ answer \in Versions
    BY <1>1, <1>6 DEF Serve, TypeOK
  <2> QED
    BY <1>2, <2>1, AnswerTyped
<1>7. Fetching(c)'
  BY <1>2, <1>3, <1>4, <1>5, <1>6, SameURLs, InputTyped DEF Fetching, StateSince
<1>8. \A i \in 1 .. N : CheckedInput(c, i) => CheckedInput(c, i)'
  BY <1>3, SameChecks
<1>9. Checked(c)'
  BY <1>1, <1>2, <1>3, <1>4, <1>8 DEF CallInv, Checked, SameRequest
<1>10. OwnList(c)'
  BY <1>1, <1>3, SameURLs DEF CallInv, OwnList
<1> QED
  BY <1>1, <1>3, <1>4, <1>7, <1>9, <1>10 DEF CallInv, IdleClean

\* The loop is over: all inputs have been left behind.
LEMMA ValidateInv ==
  ASSUME IInv, NEW c \in Calls, Validate(c)
  PROVE  OnlyCall(c) /\ CallInv(c)'
<1>1. TypeOK /\ CallInv(c) /\ UNCHANGED <<now, answer, ended>>
  BY DEF IInv, Validate
<1>2. CASE Return(c)
  BY <1>1, <1>2, ReturnInv
<1>3. CASE kind[c] = "submit" /\ pc' = [pc EXCEPT ![c] = "enqueue"] /\ UNCHANGED locals
  <2>1. /\ OnlyCall(c) /\ SameRequest(c) /\ UNCHANGED <<at, started, used>>
        /\ pc[c] = "input" /\ at[c] = N + 1 /\ pc'[c] = "enqueue"
    BY <1>1, <1>3 DEF OnlyCall, Untouched, SameRequest, Validate, TypeOK, locals
  <2>2. \A i \in 1 .. N : CheckedInput(c, i) => CheckedInput(c, i)'
    BY <1>1, <2>1, SameChecks
  <2>3. Checked(c)'
    BY <1>1, <1>3, <2>1, <2>2 DEF CallInv, Checked, SameRequest
  <2>4. OwnList(c)'
    BY <1>1, <2>1, SameURLs DEF CallInv, OwnList
  <2> QED
    BY <1>1, <2>1, <2>3, <2>4 DEF CallInv, IdleClean, Fetching
<1> QED
  BY <1>2, <1>3 DEF Validate

LEMMA CallStep ==
  ASSUME IInv, NEW c \in Calls, StepOf(c)
  PROVE  OnlyCall(c) /\ CallInv(c)'
<1>1. CASE Skip(c)
  <2>1. /\ Onward(c) /\ UNCHANGED <<now, answer, ended, used>> /\ pc[c] # "idle"
        /\ at[c] \in 1 .. N
        /\ kind[c] = "submit" => Inputs[at[c]].template = NoURL \/ Value(c, at[c]) = Absent
    BY <1>1, InputTyped DEF Skip, AtInput, Skipped, IInv, TypeOK
  <2> QED
    BY <2>1, OnwardInv
<1>2. CASE Refuse(c) \/ Enqueue(c)
  BY <1>2, ReturnInv DEF Refuse, Enqueue
<1>3. CASE FetchFails(c)
  <2>1. UNCHANGED <<now, answer, ended>> /\ pc[c] # "idle" /\ at[c] \in 1 .. N
    BY <1>3, NeedsUrl DEF FetchFails
  <2>2. CASE Return(c)
    BY <2>1, <2>2, ReturnInv
  <2>3. CASE kind[c] = "show" /\ Onward(c) /\ UNCHANGED used
    BY <2>1, <2>3, OnwardInv
  <2> QED
    BY <1>3, <2>2, <2>3 DEF FetchFails
<1> QED
  BY <1>1, <1>2, <1>3, HitInv, ReceiveInv, FetchInv, ValidateInv, EnterInv DEF StepOf, Handler

-----------------------------------------------------------------------------
\* The cache of lists.

CacheTyped(k) == DOMAIN k \subseteq URL /\ \A u \in DOMAIN k : k[u] \in Entry

\* A deleted entry leaves the others, an added one joins them.
LEMMA WithoutWith ==
  ASSUME CacheTyped(cache), CacheFresh, NEW u \in URL
  PROVE  /\ CacheTyped(Without(u))
         /\ \A x \in DOMAIN Without(u) : EntryFresh(x, Without(u)[x])
         /\ \A e \in Entry : EntryFresh(u, e) =>
              /\ CacheTyped(With(u, e))
              /\ \A x \in DOMAIN With(u, e) : EntryFresh(x, With(u, e)[x])
<1>1. /\ DOMAIN Without(u) \subseteq DOMAIN cache
      /\ \A x \in DOMAIN Without(u) : Without(u)[x] = cache[x]
  BY DEF Without
<1>2. ASSUME NEW e
      PROVE  /\ DOMAIN With(u, e) = DOMAIN cache \cup {u}
             /\ \A x \in DOMAIN With(u, e) : With(u, e)[x] = IF x = u THEN e ELSE cache[x]
  BY DEF With
<1>3. CacheTyped(Without(u)) /\ \A x \in DOMAIN Without(u) : EntryFresh(x, Without(u)[x])
  BY <1>1 DEF CacheTyped, CacheFresh
<1>4. ASSUME NEW e \in Entry, EntryFresh(u, e)
      PROVE  /\ CacheTyped(With(u, e))
             /\ \A x \in DOMAIN With(u, e) : EntryFresh(x, With(u, e)[x])
  BY <1>2, <1>4 DEF CacheTyped, CacheFresh
<1> QED
  BY <1>3, <1>4

\* What is received has been fetched in time: its entry is no older than that.
LEMMA ReceivedFresh ==
  ASSUME IInv, NEW c \in Calls, Receive(c),
         NEW e, e = [list |-> list[c], expires |-> now + Inputs[at[c]].ttl]
  PROVE  e \in Entry /\ EntryFresh(UrlOf(c, at[c]), e)
<1>1. TypeOK /\ CallInv(c) /\ pc[c] = "answered" /\ now <= sent[c] + FetchTimeout
  BY DEF IInv, Receive, InTime
<1>2. /\ at[c] \in 1 .. N /\ UrlOf(c, at[c]).template = Inputs[at[c]].template
      /\ list[c] \in Answer /\ list[c].url = UrlOf(c, at[c])
      /\ StateSince(list[c].version, sent[c])
  BY <1>1, NeedsUrl DEF CallInv, Fetching
<1>3. /\ now \in Nat /\ sent[c] \in Nat /\ Inputs[at[c]].ttl \in Nat
      /\ FetchTimeout \in Nat /\ list[c].version \in Versions
  BY <1>1, <1>2, Numbers, InputTyped, AnswerTyped DEF TypeOK
<1>4. /\ e.list = list[c] /\ e.expires = now + Inputs[at[c]].ttl
      /\ e \in Entry
  BY <1>2, <1>3, EntryTyped
<1>5. /\ e.expires - Inputs[at[c]].ttl - FetchTimeout \in Int
      /\ e.expires - Inputs[at[c]].ttl - FetchTimeout <= sent[c]
      /\ e.expires <= now + Inputs[at[c]].ttl
  BY <1>1, <1>3, <1>4
<1>6. StateSince(e.list.version, e.expires - Inputs[at[c]].ttl - FetchTimeout)
  BY <1>1, <1>2, <1>3, <1>4, <1>5, SinceEarlier
<1> QED
  BY <1>2, <1>4, <1>5, <1>6 DEF EntryFresh

LEMMA CacheStep ==
  ASSUME IInv, NEW c \in Calls, StepOf(c)
  PROVE  CacheTyped(cache)' /\ CacheFresh'
<1>0. CacheTyped(cache) /\ CacheFresh
  BY DEF IInv, TypeOK, CacheTyped
<1>1. UNCHANGED <<now, answer, ended>>
  BY CallStep DEF OnlyCall
<1>2. SUFFICES CacheTyped(cache') /\ \A x \in DOMAIN cache' : EntryFresh(x, cache'[x])
  BY <1>1 DEF CacheTyped, CacheFresh, EntryFresh, StateSince
<1>3. CASE UNCHANGED cache
  BY <1>0, <1>3 DEF CacheFresh
<1>4. CASE Miss(c)
  <2>1. UrlOf(c, at[c]) \in URL
    BY <1>4, NeedsUrl DEF Miss
  <2>2. UNCHANGED cache \/ cache' = Without(UrlOf(c, at[c]))
    BY <1>4 DEF Miss, Key
  <2> QED
    BY <1>0, <1>3, <2>1, <2>2, WithoutWith
<1>5. CASE Receive(c)
  <2> DEFINE e == [list |-> list[c], expires |-> now + Inputs[at[c]].ttl]
  <2>1. UrlOf(c, at[c]) \in URL
    BY <1>5, NeedsUrl DEF Receive
  <2>2. UNCHANGED cache \/ cache' = With(UrlOf(c, at[c]), e)
    BY <1>5 DEF Receive, Key
  <2>3. e \in Entry /\ EntryFresh(UrlOf(c, at[c]), e)
    BY <1>5, ReceivedFresh
  <2> HIDE DEF e
  <2> QED
    BY <1>0, <1>3, <2>1, <2>2, <2>3, WithoutWith
<1>6. Miss(c) \/ Receive(c) \/ UNCHANGED cache
  BY DEF StepOf, Handler, Serve, Submit, Show, Enter, Skip, Refuse, Hit, FetchFails, Validate,
     Enqueue
<1> QED
  BY <1>3, <1>4, <1>5, <1>6

-----------------------------------------------------------------------------
\* Types.

RequestTyped ==
  /\ pc \in [Calls -> {"idle", "input", "fetch", "answered", "enqueue"}]
  /\ kind \in [Calls -> {"submit", "show"}]
  /\ who \in [Calls -> Anybody]
  /\ payload \in [Calls -> [1 .. N -> Values \cup {Absent, Other}]]
  /\ at \in [Calls -> 1 .. N + 1]
  /\ started \in [Calls -> Times]
  /\ sent \in [Calls -> Times]
  /\ list \in [Calls -> Answer \cup {NoAnswer}]

LEMMA ReturnTyped ==
  ASSUME TypeOK, NEW c \in Calls, Return(c)
  PROVE  RequestTyped' /\ used' \in [Calls -> [1 .. N -> Answer \cup {NoAnswer}]]
<1>1. /\ NoPayload \in [1 .. N -> Values \cup {Absent, Other}] /\ 1 \in 1 .. N + 1
      /\ Unused \in [1 .. N -> Answer \cup {NoAnswer}] /\ NoOne \in Anybody /\ 0 \in Times
  BY InputTyped, Numbers DEF NoPayload, Unused, Anybody
<1> QED
  BY <1>1 DEF TypeOK, Return, RequestTyped

LEMMA OnwardTyped ==
  ASSUME TypeOK, NEW c \in Calls, at[c] \in 1 .. N, Onward(c)
  PROVE  RequestTyped'
<1>1. at[c] + 1 \in 1 .. N + 1 /\ 0 \in Times
  BY InputTyped, Numbers
<1> QED
  BY <1>1 DEF TypeOK, Onward, RequestTyped

LEMMA PassTyped ==
  ASSUME TypeOK, NEW c \in Calls, at[c] \in 1 .. N, NEW a \in Answer, Pass(c, a)
  PROVE  RequestTyped' /\ used' \in [Calls -> [1 .. N -> Answer \cup {NoAnswer}]]
<1>1. CASE Return(c)
  BY <1>1, ReturnTyped
<1>2. CASE Onward(c) /\ used' = [used EXCEPT ![c][at[c]] = a]
  <2>1. used \in [Calls -> [1 .. N -> Answer \cup {NoAnswer}]]
    BY DEF TypeOK
  <2>2. [used[c] EXCEPT ![at[c]] = a] \in [1 .. N -> Answer \cup {NoAnswer}]
    BY <2>1
  <2>3. used' = [used EXCEPT ![c] = [used[c] EXCEPT ![at[c]] = a]]
    BY <1>2
  <2> QED
    BY <1>2, <2>1, <2>2, <2>3, OnwardTyped
<1> QED
  BY <1>1, <1>2 DEF Pass

LEMMA TypeStep ==
  ASSUME IInv, NEW c \in Calls, StepOf(c)
  PROVE  TypeOK'
<1>0. TypeOK /\ CallInv(c)
  BY DEF IInv
<1>1. UNCHANGED <<now, answer, ended>>
  BY CallStep DEF OnlyCall
<1>2. SUFFICES RequestTyped' /\ used' \in [Calls -> [1 .. N -> Answer \cup {NoAnswer}]]
  BY <1>0, <1>1, CacheStep DEF TypeOK, RequestTyped, CacheTyped
<1>3. CASE Return(c)
  BY <1>0, <1>3, ReturnTyped
<1>4. CASE Onward(c) /\ UNCHANGED used /\ at[c] \in 1 .. N
  BY <1>0, <1>4, OnwardTyped DEF TypeOK
<1>5. CASE Hit(c)
  <2>1. /\ Pass(c, cache[UrlOf(c, at[c])].list) /\ UrlOf(c, at[c]) \in DOMAIN cache
        /\ at[c] \in 1 .. N
    BY <1>5, NeedsUrl DEF Hit, Live, Key
  <2>2. cache[UrlOf(c, at[c])].list \in Answer
    BY <1>0, <2>1, EntryTyped DEF TypeOK
  <2> QED
    BY <1>0, <2>1, <2>2, PassTyped
<1>6. CASE Receive(c)
  <2>1. Pass(c, list[c]) /\ at[c] \in 1 .. N /\ list[c] \in Answer
    BY <1>0, <1>6, NeedsUrl DEF Receive, CallInv, Fetching
  <2> QED
    BY <1>0, <2>1, PassTyped
<1>7. CASE Miss(c)
  BY <1>0, <1>7 DEF Miss, TypeOK, RequestTyped
<1>8. CASE Serve(c)
  <2>1. [url |-> UrlOf(c, at[c]), version |-> answer] \in Answer
    BY <1>0, <1>8, NeedsUrl, AnswerTyped DEF Serve, TypeOK
  <2> QED
    BY <1>0, <1>8, <2>1 DEF Serve, TypeOK, RequestTyped
<1>9. CASE \E w \in Anybody : Submit(c, w) \/ Show(c, w)
  <2>1. PICK k \in {"submit", "show"}, w \in Anybody,
             p \in [1 .. N -> Values \cup {Absent, Other}] : Enter(c, k, w, p)
    BY <1>9, PayloadsAssumption DEF Submit, Show, NoPayload
  <2> QED
    BY <1>0, <2>1 DEF Enter, TypeOK, RequestTyped
<1>10. CASE pc' = [pc EXCEPT ![c] = "enqueue"] /\ UNCHANGED locals
  BY <1>0, <1>10 DEF TypeOK, RequestTyped, locals
<1>11. CASE Skip(c) \/ FetchFails(c)
  <2>1. Return(c) \/ (Onward(c) /\ UNCHANGED used /\ at[c] \in 1 .. N)
    BY <1>0, <1>11, NeedsUrl, InputTyped DEF Skip, AtInput, FetchFails, TypeOK
  <2> QED
    BY <1>3, <1>4, <2>1
<1> QED
  BY <1>3, <1>5, <1>6, <1>7, <1>8, <1>9, <1>10, <1>11
     DEF StepOf, Handler, Refuse, Validate, Enqueue

-----------------------------------------------------------------------------
LEMMA NextIInv == IInv /\ [Next]_vars => IInv'
<1> SUFFICES ASSUME IInv, [Next]_vars PROVE IInv'
  OBVIOUS
<1>1. CASE UNCHANGED vars
  <2>1. TypeOK' /\ CacheFresh'
    BY <1>1 DEF vars, locals, IInv, TypeOK, CacheFresh, EntryFresh, StateSince
  <2>2. UNCHANGED <<now, answer, ended>> /\ \A c \in Calls : Untouched(c)
    BY <1>1 DEF vars, locals, Untouched
  <2> QED
    BY <2>1, <2>2, OthersInv DEF IInv
<1>2. CASE Tick \/ Change
  BY <1>2, WorldIInv
<1>3. ASSUME NEW c \in Calls, StepOf(c)
      PROVE  IInv'
  <2>1. OnlyCall(c) /\ CallInv(c)' /\ CacheFresh' /\ TypeOK'
    BY <1>3, CallStep, CacheStep, TypeStep
  <2>2. ASSUME NEW d \in Calls \ {c}
        PROVE  CallInv(d)'
    BY <2>1, OthersInv DEF IInv, OnlyCall
  <2> QED
    BY <2>1, <2>2 DEF IInv
<1> QED
  BY <1>1, <1>2, <1>3 DEF Next, StepOf

\* The invariant holds in every reachable state.
LEMMA Invariant == Spec => []IInv
BY InitIInv, NextIInv, PTL DEF Spec

\* Every variable keeps its type; among them, what is cached is a list.
THEOREM SubmissionTypeCorrect == Spec => []TypeOK
<1>1. IInv => TypeOK
  BY DEF IInv
<1> QED
  BY <1>1, Invariant, PTL

\* Every input is checked against, or shown with, the list of its own URL,
\* whoever had it cached.
THEOREM ListsAreTheCallersOwn == Spec => []OwnLists
<1>1. IInv => OwnLists
  BY DEF IInv, CallInv, OwnList, OwnLists
<1> QED
  BY <1>1, Invariant, PTL

\* A cached list is what the service returned for the URL it is cached under,
\* within the lifetime that some input of that template gives it, and a fetch.
THEOREM CachedListsFresh == Spec => []EntriesFresh
<1>1. IInv => EntriesFresh
  BY DEF IInv, CacheFresh, EntryFresh, EntriesFresh, StateSinceFor
<1> QED
  BY <1>1, Invariant, PTL

\* A submission that reaches the queue is by a caller who may run the task, and
\* each of its values was in the list of its input, lately enough.
THEOREM QueuedOnlyIfGranted == Spec => []EnqueuedGranted
<1>1. ASSUME IInv, NEW c \in Calls, pc[c] = "enqueue"
      PROVE  MayRun(who[c]) /\ \A i \in 1 .. N : CheckedInput(c, i)
  <2>1. kind[c] = "submit" /\ at[c] = N + 1 /\ Checked(c)
    BY <1>1 DEF IInv, CallInv, Checked
  <2> QED
    BY <1>1, <2>1, InputTyped DEF Checked
<1>2. ASSUME IInv, NEW c \in Calls, NEW i \in 1 .. N, used[c][i] # NoAnswer
      PROVE  Granted([url |-> UrlOf(c, i), version |-> used[c][i].version])
               = Granted(used[c][i])
  BY <1>2 DEF IInv, CallInv, OwnList, Granted
<1>3. IInv => EnqueuedGranted
  BY <1>1, <1>2 DEF EnqueuedGranted, CheckedInput
<1> QED
  BY <1>3, Invariant, PTL

\* No value is sent to the service inside a URL before it has itself been found
\* in the list of its own input.
THEOREM DependenciesCheckedFirst == Spec => []DependenciesGranted
<1>1. ASSUME IInv, NEW c \in Calls, kind[c] = "submit", pc[c] \in {"fetch", "answered"},
             Inputs[at[c]].dep \notin {0, at[c]},
             Inputs[Inputs[at[c]].dep].template # NoURL
      PROVE  LET j == Inputs[at[c]].dep
             IN  used[c][j] # NoAnswer /\ Value(c, j) \in Granted(used[c][j])
  <2> DEFINE j == Inputs[at[c]].dep
  <2>1. at[c] \in 1 .. N /\ Resolved(c, at[c]) /\ Checked(c)
    BY <1>1, NeedsUrl DEF IInv, CallInv
  <2>2. j \in 1 .. N /\ j < at[c] /\ Value(c, j) \in Values
    BY <1>1, <2>1, InputTyped DEF Resolved
  <2>3. Value(c, j) # Absent
    BY <2>2, PayloadsAssumption
  <2>4. CheckedInput(c, j)
    BY <1>1, <2>1, <2>2 DEF Checked
  <2> QED
    BY <1>1, <2>3, <2>4 DEF CheckedInput
<1>2. IInv => DependenciesGranted
  BY <1>1 DEF DependenciesGranted
<1> QED
  BY <1>2, Invariant, PTL
================================================================================
