----------------------------- MODULE FollowProofs -----------------------------
(***************************************************************************)
(* What a reader of an execution's log can rely on, however many readers,  *)
(* connections and entries per read there are: its connections together    *)
(* give it the log in order, each line once, and the marker only after all *)
(* that its attempt has printed.                                           *)
(***************************************************************************)
EXTENDS LogFollow, LifecycleProofs

\* A handler has read up to the last line its client has received.
ReadTo(c) == lastID[c] = IF got[c] = <<>> THEN 0 ELSE got[c][Len(got[c])].id

\* What a handler is sending is a stretch of the stream, and follows what its
\* client has without a gap, but for what had expired.
BatchFollows(c) ==
  conn[c] = "send" =>
    /\ lastID[c] < batch[c][1].id
    /\ batch[c][1].id <= lastID[c] + 1 \/ batch[c][1].id <= trimmed + 1
    /\ \A k \in 1 .. Len(batch[c]) : batch[c][k].id = batch[c][1].id + (k - 1)

\* The entry e is what the stream holds at place i.
IsEntry(e, i) == i \in 1 .. Len(log) /\ e.attempt = log[i].attempt /\ e.kind = log[i].kind

\* As long as nothing has expired, a client has the log's beginning, with no
\* marker in it, and is being sent what comes next.
CopiesLog(c) ==
  trimmed = 0 =>
    /\ \A k \in 1 .. Len(got[c]) :
         got[c][k].id = k /\ IsEntry(got[c][k], k) /\ got[c][k].kind # "eof"
    /\ \A k \in 1 .. Len(batch[c]) : IsEntry(batch[c][k], Len(got[c]) + k)

\* A client that was told "eof" is not connected, and the marker is the entry
\* that comes after what it has.
ToldAtMarker(c) ==
  eofOf[c] # 0 =>
    /\ conn[c] = "off"
    /\ trimmed = 0 => /\ Len(got[c]) + 1 \in 1 .. Len(log)
                      /\ log[Len(got[c]) + 1] = [attempt |-> eofOf[c], kind |-> "eof"]

\* The k-th line comes after the one before it, and only what has expired is
\* missing between them.
Follows(c, k) ==
  LET before == IF k = 1 THEN 0 ELSE got[c][k - 1].id
  IN  /\ before < got[c][k].id
      /\ \A missed \in before + 1 .. got[c][k].id - 1 : missed <= trimmed

InOrder(c) == \A k \in 1 .. Len(got[c]) : Follows(c, k)

ReaderInv(c) ==
  ReadTo(c) /\ BatchFollows(c) /\ CopiesLog(c) /\ ToldAtMarker(c) /\ InOrder(c)

\* The inductive invariant, on top of Execution's.
FInv == FollowTypeOK /\ \A c \in Clients : ReaderInv(c)

-----------------------------------------------------------------------------
\* The stream.

\* A step of the workers or of Redis appends to the stream, or takes all of it
\* away for good, or leaves it alone.
StreamGrows ==
  /\ trimmed' \in Nat /\ trimmed <= trimmed' /\ Len(log') \in Nat
  /\ trimmed' = 0 => /\ trimmed = 0 /\ Len(log) <= Len(log')
                     /\ \A i \in 1 .. Len(log) : log'[i] = log[i]

LEMMA StreamStep == ASSUME IInv, [Next]_vars PROVE StreamGrows
<1>0. trimmed \in Nat /\ Len(log) \in Nat /\ Len(log') \in Nat
  <2>1. log \in Seq(Entry) /\ log' \in Seq(Entry)'
    BY NextIInv DEF IInv, TypeOK
  <2> QED
    BY <2>1, LenProperties DEF IInv, TypeOK
<1>1. CASE trimmed' = trimmed /\ log' = log
  BY <1>0, <1>1 DEF StreamGrows
<1>2. CASE StreamExpires
  BY <1>0, <1>2 DEF StreamExpires, StreamGrows
<1>3. ASSUME NEW n \in Attempts, NEW k \in Streams \cup {"eof"}, trimmed' = trimmed,
             log' = Append(log, [attempt |-> n, kind |-> k])
      PROVE  StreamGrows
  BY <1>0, <1>3, Appended DEF StreamGrows
<1>4. ASSUME NEW n \in Attempts, AddEOF(n) \/ \E s \in Streams : Relay(n, s)
      PROVE  StreamGrows
  BY <1>1, <1>3, <1>4 DEF AddEOF, Relay
<1>5. CASE \/ Submit \/ MetaExpires \/ Asynq \/ UNCHANGED vars
           \/ \E n \in Attempts : Script(n)
  BY <1>1, <1>5 DEF Submit, MetaExpires, Asynq, Recover, Forward, Dequeue, Crash, Shutdown,
     Deadline, LeaseLost, Finish, ReturnStale, Script, Emit, WriteResultFile, ScriptExit, vars,
     keyVars
<1>6. ASSUME NEW n \in Attempts,
             \/ Begin(n) \/ EarlyError(n) \/ StartScript(n) \/ Join(n) \/ SetExpire(n)
             \/ Collect(n) \/ Report(n) \/ \E s \in Streams : ScanStop(n, s)
      PROVE  StreamGrows
  BY <1>1, <1>6 DEF Begin, EarlyError, StartScript, Join, SetExpire, Collect, Report, ScanStop,
     keyVars
<1> QED
  BY <1>2, <1>4, <1>5, <1>6 DEF Next, Handler

\* An XREAD returns consecutive entries, the first that have not expired after
\* the given id.
LEMMA ReadsOn ==
  ASSUME TypeOK, NEW id \in Nat, NEW r, r = ReadAfter(id), r # <<>>
  PROVE  /\ r \in Seq(Event)
         /\ id < r[1].id
         /\ r[1].id <= id + 1 \/ r[1].id <= trimmed + 1
         /\ \A k \in 1 .. Len(r) : r[k].id = r[1].id + (k - 1)
         /\ trimmed = 0 => \A k \in 1 .. Len(r) : IsEntry(r[k], id + k)
<1> DEFINE skipped == IF id > trimmed THEN id - trimmed ELSE 0
           to      == IF skipped + BatchSize < Len(log) THEN skipped + BatchSize ELSE Len(log)
<1>1. /\ skipped \in Nat /\ Len(log) \in Nat /\ BatchSize \in Nat /\ trimmed \in Nat
      /\ to \in Nat /\ to <= Len(log)
  BY ReaderAssumption, LenProperties DEF TypeOK
<1>2. r = SubSeq(Entries, skipped + 1, to)
  BY DEF ReadAfter
<1>3. \A i \in 1 .. Len(log) :
        /\ Entries[i] \in Event /\ Entries[i].id = trimmed + i
        /\ Entries[i].attempt = log[i].attempt /\ Entries[i].kind = log[i].kind
  <2> SUFFICES ASSUME NEW i \in 1 .. Len(log)
               PROVE  /\ Entries[i] \in Event /\ Entries[i].id = trimmed + i
                      /\ Entries[i].attempt = log[i].attempt /\ Entries[i].kind = log[i].kind
    OBVIOUS
  <2>1. log[i] \in Entry
    BY ElementOfSeq DEF TypeOK
  <2>2. trimmed + i \in Nat \ {0}
    BY <1>1
  <2> QED
    BY <2>1, <2>2 DEF Entries, Event, Entry
<1> HIDE DEF skipped, to
<1>4. \A i \in skipped + 1 .. to : i \in 1 .. Len(log)
  BY <1>1
<1>5. \A i \in skipped + 1 .. to : Entries[i] \in Event
  BY <1>3, <1>4
<1>6. skipped + 1 \in Int
  BY <1>1
<1>7. to \in Int
  BY <1>1
<1>8. /\ r \in Seq(Event)
      /\ Len(r) = IF skipped + 1 <= to THEN to - (skipped + 1) + 1 ELSE 0
      /\ \A k \in 1 .. to - (skipped + 1) + 1 : r[k] = Entries[skipped + 1 + k - 1]
  BY <1>2, <1>5, <1>6, <1>7, SubSeqProperties
<1>9. Len(r) \in Nat \ {0}
  BY <1>8, EmptySeq
<1>10. Len(r) = to - skipped /\ skipped < to
  BY <1>1, <1>8, <1>9
<1>11. \A k \in 1 .. Len(r) : skipped + k \in 1 .. Len(log) /\ r[k] = Entries[skipped + k]
  <2> SUFFICES ASSUME NEW k \in 1 .. Len(r)
               PROVE  skipped + k \in 1 .. Len(log) /\ r[k] = Entries[skipped + k]
    OBVIOUS
  <2>1. k \in 1 .. to - (skipped + 1) + 1 /\ skipped + 1 + k - 1 = skipped + k
    BY <1>1, <1>10
  <2>2. skipped + k \in 1 .. Len(log)
    BY <1>1, <1>10
  <2> QED
    BY <1>8, <2>1, <2>2
<1>12. \A k \in 1 .. Len(r) : r[k].id = trimmed + (skipped + k)
  BY <1>3, <1>11
<1>13. r[1].id = trimmed + (skipped + 1)
  BY <1>9, <1>12
<1>14. \A k \in 1 .. Len(r) : r[k].id = r[1].id + (k - 1)
  BY <1>1, <1>9, <1>12, <1>13
<1>15. id < r[1].id /\ (r[1].id <= id + 1 \/ r[1].id <= trimmed + 1)
  BY <1>1, <1>13 DEF skipped
<1>16. ASSUME trimmed = 0 PROVE \A k \in 1 .. Len(r) : IsEntry(r[k], id + k)
  <2>1. skipped = id
    BY <1>16 DEF skipped
  <2> QED
    BY <1>3, <1>11, <2>1 DEF IsEntry
<1> QED
  BY <1>8, <1>14, <1>15, <1>16

-----------------------------------------------------------------------------
\* One client.

LEMMA ClientTyped ==
  ASSUME FollowTypeOK, NEW c \in Clients
  PROVE  /\ got[c] \in Seq(Event) /\ batch[c] \in Seq(Event)
         /\ Len(got[c]) \in Nat /\ Len(batch[c]) \in Nat /\ lastID[c] \in Nat
         /\ \A k \in 1 .. Len(got[c]) : got[c][k] \in Event /\ got[c][k].id \in Nat
         /\ \A k \in 1 .. Len(batch[c]) : batch[c][k] \in Event /\ batch[c][k].id \in Nat
<1>1. got[c] \in Seq(Event) /\ batch[c] \in Seq(Event) /\ lastID[c] \in Nat
  BY DEF FollowTypeOK
<1>2. \A e \in Event : e.id \in Nat
  BY DEF Event
<1> QED
  BY <1>1, <1>2, LenProperties, ElementOfSeq

\* Whose handler does not move.
Still(c) ==
  /\ conn'[c] = conn[c] /\ lastID'[c] = lastID[c] /\ batch'[c] = batch[c]
  /\ got'[c] = got[c] /\ eofOf'[c] = eofOf[c]

LEMMA StillInv ==
  ASSUME IInv, FollowTypeOK, StreamGrows, NEW c \in Clients, ReaderInv(c), Still(c)
  PROVE  ReaderInv(c)'
<1>0. /\ trimmed \in Nat /\ Len(log) \in Nat
      /\ trimmed' \in Nat /\ trimmed <= trimmed' /\ Len(log') \in Nat
      /\ trimmed' = 0 => /\ trimmed = 0 /\ Len(log) <= Len(log')
                         /\ \A i \in 1 .. Len(log) : log'[i] = log[i]
  BY LenProperties DEF IInv, TypeOK, StreamGrows
<1>1. ReadTo(c)'
  BY DEF ReaderInv, ReadTo, Still
<1>2. BatchFollows(c)'
  <2> SUFFICES ASSUME conn[c] = "send" PROVE BatchFollows(c)'
    BY DEF BatchFollows, Still
  <2>1. 1 \in 1 .. Len(batch[c])
    BY ClientTyped, EmptySeq DEF FollowTypeOK
  <2>2. batch[c][1].id \in Nat
    BY <2>1, ClientTyped
  <2> QED
    BY <1>0, <2>2 DEF ReaderInv, BatchFollows, Still
<1>3. ASSUME trimmed' = 0, NEW i \in 1 .. Len(log)
      PROVE  i \in 1 .. Len(log') /\ log'[i] = log[i]
  BY <1>0, <1>3
<1>4. CopiesLog(c)'
  <2> SUFFICES ASSUME trimmed' = 0 PROVE CopiesLog(c)'
    BY DEF CopiesLog
  <2>1. \A k \in 1 .. Len(got'[c]) :
          got'[c][k].id = k /\ IsEntry(got[c][k], k)' /\ got'[c][k].kind # "eof"
    BY <1>0, <1>3 DEF ReaderInv, CopiesLog, IsEntry, Still
  <2>2. \A k \in 1 .. Len(batch'[c]) : IsEntry(batch[c][k], Len(got[c]) + k)'
    <3> SUFFICES ASSUME NEW k \in 1 .. Len(batch[c])
                 PROVE  IsEntry(batch[c][k], Len(got[c]) + k)'
      BY DEF Still
    <3>1. IsEntry(batch[c][k], Len(got[c]) + k)
      BY <1>0 DEF ReaderInv, CopiesLog
    <3> QED
      BY <1>3, <3>1 DEF IsEntry, Still
  <2> QED
    BY <2>1, <2>2 DEF CopiesLog
<1>5. ToldAtMarker(c)'
  BY <1>0, ClientTyped DEF ReaderInv, ToldAtMarker, Still
<1>6. InOrder(c)'
  <2> SUFFICES ASSUME NEW k \in 1 .. Len(got[c])
               PROVE  Follows(c, k)'
    BY DEF InOrder, Still
  <2> DEFINE before == IF k = 1 THEN 0 ELSE got[c][k - 1].id
  <2>1. /\ before < got[c][k].id
        /\ \A missed \in before + 1 .. got[c][k].id - 1 : missed <= trimmed
    BY DEF ReaderInv, InOrder, Follows
  <2>2. \A missed \in before + 1 .. got[c][k].id - 1 : missed <= trimmed'
    BY <1>0, <2>1
  <2> QED
    BY <2>1, <2>2 DEF Follows, Still
<1> QED
  BY <1>1, <1>2, <1>4, <1>5, <1>6 DEF ReaderInv

-----------------------------------------------------------------------------
\* The steps of a handler.

LEMMA OpenInv ==
  ASSUME IInv, FollowTypeOK, NEW c \in Clients, ReaderInv(c), Open(c)
  PROVE  ReaderInv(c)'
<1>1. /\ UNCHANGED <<log, trimmed, batch, got>> /\ conn'[c] = "loop" /\ eofOf'[c] = 0
      /\ lastID'[c] = IF got[c] = <<>> THEN 0 ELSE got[c][Len(got[c])].id
  BY DEF Open, FollowTypeOK, Last, vars, keyVars
<1> QED
  BY <1>1 DEF ReaderInv, ReadTo, BatchFollows, CopiesLog, IsEntry, ToldAtMarker, InOrder, Follows

LEMMA CutInv ==
  ASSUME IInv, FollowTypeOK, NEW c \in Clients, ReaderInv(c), Cut(c)
  PROVE  ReaderInv(c)'
<1>1. /\ UNCHANGED <<log, trimmed, lastID, got, eofOf>>
      /\ conn'[c] = "off" /\ batch'[c] = <<>> /\ Len(batch'[c]) = 0
  BY DEF Cut, FollowTypeOK, vars, keyVars
<1> QED
  BY <1>1 DEF ReaderInv, ReadTo, BatchFollows, CopiesLog, IsEntry, ToldAtMarker, InOrder, Follows

\* Before anything has expired, what a client has read is as long as its id.
LEMMA ReadLength ==
  ASSUME FollowTypeOK, NEW c \in Clients, ReaderInv(c), trimmed = 0
  PROVE  lastID[c] = Len(got[c])
<1>1. CASE got[c] = <<>>
  BY <1>1 DEF ReaderInv, ReadTo
<1>2. CASE got[c] # <<>>
  <2>1. Len(got[c]) \in 1 .. Len(got[c])
    BY <1>2, EmptySeq DEF FollowTypeOK
  <2> QED
    BY <1>2, <2>1 DEF ReaderInv, ReadTo, CopiesLog
<1> QED
  BY <1>1, <1>2

LEMMA ReadInv ==
  ASSUME IInv, FollowTypeOK, NEW c \in Clients, ReaderInv(c), Read(c)
  PROVE  ReaderInv(c)'
<1> DEFINE r == ReadAfter(lastID[c])
<1>1. /\ UNCHANGED <<log, trimmed, lastID, got, eofOf>>
      /\ conn[c] = "loop" /\ conn'[c] = "send" /\ r # <<>> /\ batch'[c] = r
  BY DEF Read, FollowTypeOK, vars, keyVars
<1>2. /\ lastID[c] < r[1].id
      /\ r[1].id <= lastID[c] + 1 \/ r[1].id <= trimmed + 1
      /\ \A k \in 1 .. Len(r) : r[k].id = r[1].id + (k - 1)
      /\ trimmed = 0 => \A k \in 1 .. Len(r) : IsEntry(r[k], lastID[c] + k)
  <2>1. TypeOK /\ lastID[c] \in Nat
    BY ClientTyped DEF IInv
  <2> QED
    BY <1>1, <2>1, ReadsOn
<1> HIDE DEF r
<1>3. ReadTo(c)' /\ ToldAtMarker(c)' /\ InOrder(c)'
  BY <1>1 DEF ReaderInv, ReadTo, ToldAtMarker, InOrder, Follows
<1>4. BatchFollows(c)'
  BY <1>1, <1>2 DEF BatchFollows
<1>5. CopiesLog(c)'
  BY <1>1, <1>2, ReadLength DEF ReaderInv, CopiesLog, IsEntry
<1> QED
  BY <1>3, <1>4, <1>5 DEF ReaderInv

\* A marker ends the connection, and is what its client was to receive next.
LEMMA DeliverMarkerInv ==
  ASSUME IInv, FollowTypeOK, NEW c \in Clients, ReaderInv(c), Deliver(c),
         Head(batch[c]).kind = "eof"
  PROVE  ReaderInv(c)'
<1>1. /\ UNCHANGED <<log, trimmed, lastID, got>> /\ conn[c] = "send" /\ conn'[c] = "off"
      /\ batch'[c] = <<>> /\ Len(batch'[c]) = 0 /\ eofOf'[c] = batch[c][1].attempt
      /\ batch[c][1].kind = "eof" /\ 1 \in 1 .. Len(batch[c])
  <2>1. batch[c] \in Seq(Event) /\ batch[c] # <<>>
    BY DEF Deliver, FollowTypeOK
  <2>2. Head(batch[c]) = batch[c][1] /\ 1 \in 1 .. Len(batch[c])
    BY <2>1, EmptySeq
  <2> QED
    BY <2>2 DEF Deliver, FollowTypeOK, vars, keyVars
<1>2. ReadTo(c)' /\ BatchFollows(c)' /\ InOrder(c)' /\ CopiesLog(c)'
  BY <1>1 DEF ReaderInv, ReadTo, BatchFollows, CopiesLog, IsEntry, InOrder, Follows
<1>3. ASSUME trimmed = 0
      PROVE  /\ Len(got[c]) + 1 \in 1 .. Len(log)
             /\ log[Len(got[c]) + 1] = [attempt |-> batch[c][1].attempt, kind |-> "eof"]
  <2>1. IsEntry(batch[c][1], Len(got[c]) + 1)
    BY <1>1, <1>3 DEF ReaderInv, CopiesLog
  <2>2. log[Len(got[c]) + 1] \in Entry
    BY <2>1, ElementOfSeq DEF IInv, TypeOK, IsEntry
  <2> QED
    BY <1>1, <2>1, <2>2 DEF IsEntry, Entry
<1>4. ToldAtMarker(c)'
  BY <1>1, <1>3 DEF ToldAtMarker
<1> QED
  BY <1>2, <1>4 DEF ReaderInv

LEMMA DeliverLineInv ==
  ASSUME IInv, FollowTypeOK, NEW c \in Clients, ReaderInv(c), Deliver(c),
         Head(batch[c]).kind # "eof"
  PROVE  ReaderInv(c)'
<1> DEFINE e == batch[c][1]
           n == Len(got[c])
<1>1. batch[c] \in Seq(Event) /\ batch[c] # <<>> /\ conn[c] = "send"
  BY DEF Deliver, FollowTypeOK
<1>2. /\ Head(batch[c]) = e /\ 1 \in 1 .. Len(batch[c]) /\ e \in Event /\ e.id \in Nat
      /\ n \in Nat /\ got[c] \in Seq(Event) /\ lastID[c] \in Nat /\ trimmed \in Nat
      /\ Len(batch[c]) \in Nat
  BY <1>1, ClientTyped, EmptySeq DEF IInv, TypeOK
<1>3. /\ UNCHANGED <<log, trimmed, eofOf>>
      /\ got'[c] = Append(got[c], e) /\ lastID'[c] = e.id /\ batch'[c] = Tail(batch[c])
      /\ conn'[c] = "send" <=> Tail(batch[c]) # <<>>
      /\ e.kind # "eof"
  BY <1>2 DEF Deliver, FollowTypeOK, vars, keyVars
<1>4. /\ Len(got'[c]) = n + 1 /\ got'[c][n + 1] = e /\ got'[c] # <<>>
      /\ \A k \in 1 .. n : got'[c][k] = got[c][k]
  BY <1>2, <1>3, AppendProperties
<1>5. /\ Tail(batch[c]) \in Seq(Event) /\ Len(Tail(batch[c])) = Len(batch[c]) - 1
      /\ \A k \in 1 .. Len(batch[c]) - 1 : Tail(batch[c])[k] = batch[c][k + 1]
  BY <1>1, HeadTailProperties
<1>6. /\ lastID[c] < e.id
      /\ e.id <= lastID[c] + 1 \/ e.id <= trimmed + 1
      /\ \A k \in 1 .. Len(batch[c]) : batch[c][k].id = e.id + (k - 1)
  BY <1>1 DEF ReaderInv, BatchFollows
<1> HIDE DEF e, n
<1>7. ReadTo(c)'
  BY <1>3, <1>4 DEF ReadTo
<1>8. BatchFollows(c)'
  <2> SUFFICES ASSUME Tail(batch[c]) # <<>> PROVE BatchFollows(c)'
    BY <1>3 DEF BatchFollows
  <2>1. Len(batch[c]) - 1 \in Nat \ {0}
    BY <1>5, EmptySeq
  <2>2. \A k \in 1 .. Len(batch'[c]) : batch'[c][k].id = e.id + k
    BY <1>2, <1>3, <1>5, <1>6
  <2>3. batch'[c][1].id = e.id + 1
    BY <1>2, <1>3, <1>5, <2>1, <2>2
  <2>4. \A k \in 1 .. Len(batch'[c]) : batch'[c][k].id = batch'[c][1].id + (k - 1)
    <3> SUFFICES ASSUME NEW k \in 1 .. Len(batch'[c])
                 PROVE  batch'[c][k].id = batch'[c][1].id + (k - 1)
      OBVIOUS
    <3>1. e.id + k = (e.id + 1) + (k - 1)
      BY <1>2
    <3> QED
      BY <2>2, <2>3, <3>1
  <2> QED
    BY <1>2, <1>3, <2>3, <2>4 DEF BatchFollows
<1>9. CopiesLog(c)'
  <2> SUFFICES ASSUME trimmed = 0 PROVE CopiesLog(c)'
    BY <1>3 DEF CopiesLog
  <2>1. e.id = n + 1 /\ IsEntry(e, n + 1)
    <3>1. lastID[c] = n
      BY ReadLength DEF n
    <3>2. e.id = n + 1
      BY <1>2, <1>6, <3>1
    <3> QED
      BY <1>2, <3>2 DEF ReaderInv, CopiesLog, e, n
  <2>2. \A k \in 1 .. n : got[c][k].id = k /\ IsEntry(got[c][k], k) /\ got[c][k].kind # "eof"
    BY DEF ReaderInv, CopiesLog, n
  <2>3. \A k \in 1 .. n + 1 : k \in 1 .. n \/ k = n + 1
    BY <1>2
  <2>4. \A k \in 1 .. Len(got'[c]) :
          got'[c][k].id = k /\ IsEntry(got[c][k], k)' /\ got'[c][k].kind # "eof"
    BY <1>3, <1>4, <2>1, <2>2, <2>3 DEF IsEntry
  <2>5. \A k \in 1 .. Len(batch'[c]) : IsEntry(batch[c][k], Len(got[c]) + k)'
    <3> SUFFICES ASSUME NEW k \in 1 .. Len(batch'[c])
                 PROVE  IsEntry(batch[c][k], Len(got[c]) + k)'
      OBVIOUS
    <3>1. k + 1 \in 1 .. Len(batch[c]) /\ batch'[c][k] = batch[c][k + 1]
      BY <1>2, <1>3, <1>5
    <3>2. IsEntry(batch[c][k + 1], n + (k + 1))
      BY <3>1 DEF ReaderInv, CopiesLog, n
    <3>3. Len(got'[c]) + k = n + (k + 1)
      BY <1>2, <1>4
    <3> QED
      BY <1>3, <3>1, <3>2, <3>3 DEF IsEntry
  <2> QED
    BY <2>4, <2>5 DEF CopiesLog
<1>10. ToldAtMarker(c)'
  BY <1>1, <1>3 DEF ReaderInv, ToldAtMarker
<1>11. InOrder(c)'
  <2> SUFFICES ASSUME NEW k \in 1 .. n + 1 PROVE Follows(c, k)'
    BY <1>4 DEF InOrder
  <2>1. CASE k \in 1 .. n
    <3>1. Follows(c, k)
      BY <2>1 DEF ReaderInv, InOrder, n
    <3>2. got'[c][k] = got[c][k] /\ (k # 1 => got'[c][k - 1] = got[c][k - 1])
      BY <1>2, <1>4, <2>1
    <3> QED
      BY <1>3, <3>1, <3>2 DEF Follows
  <2>2. CASE k = n + 1
    <3>1. lastID[c] = IF k = 1 THEN 0 ELSE got'[c][k - 1].id
      <4>1. got[c] = <<>> <=> n = 0
        BY <1>2, EmptySeq DEF n
      <4>2. CASE n = 0
        BY <2>2, <4>1, <4>2 DEF ReaderInv, ReadTo
      <4>3. CASE n # 0
        <5>1. k # 1 /\ k - 1 = n /\ n \in 1 .. n
          BY <1>2, <2>2, <4>3
        <5>2. lastID[c] = got[c][n].id
          BY <4>1, <4>3 DEF ReaderInv, ReadTo, n
        <5> QED
          BY <1>4, <5>1, <5>2
      <4> QED
        BY <4>2, <4>3
    <3>2. got'[c][k] = e
      BY <1>4, <2>2
    <3>3. \A missed \in lastID[c] + 1 .. e.id - 1 : missed <= trimmed
      BY <1>2, <1>6
    <3> QED
      BY <1>3, <1>6, <3>1, <3>2, <3>3 DEF Follows
  <2> QED
    BY <1>2, <2>1, <2>2
<1> QED
  BY <1>7, <1>8, <1>9, <1>10, <1>11 DEF ReaderInv

\* Types.

LEMMA ReaderTypes ==
  ASSUME IInv, FollowTypeOK, NEW c \in Clients, Open(c) \/ Read(c) \/ Deliver(c) \/ Cut(c)
  PROVE  FollowTypeOK'
<1> USE DEF FollowTypeOK
<1>0. /\ conn[c] = "send" <=> batch[c] # <<>>
      /\ \A d \in Clients \ {c} : conn[d] = "send" <=> batch[d] # <<>>
  OBVIOUS
<1>1. CASE Open(c)
  <2>1. lastID' \in [Clients -> Nat]
    <3>1. got[c] # <<>> => got[c][Len(got[c])].id \in Nat
      BY ClientTyped, EmptySeq
    <3> QED
      BY <1>1, <3>1 DEF Open, Last
  <2>2. opens' \in [Clients -> 0 .. MaxOpens]
    <3>1. opens[c] + 1 \in 0 .. MaxOpens
      BY <1>1, ReaderAssumption DEF Open
    <3> QED
      BY <1>1, <3>1 DEF Open
  <2> QED
    BY <1>0, <1>1, <2>1, <2>2 DEF Open
<1>2. CASE Read(c)
  <2>1. ReadAfter(lastID[c]) \in Seq(Event) /\ ReadAfter(lastID[c]) # <<>>
    BY <1>2, ReadsOn, ClientTyped DEF Read, IInv
  <2> HIDE DEF FollowTypeOK
  <2>2. batch' \in [Clients -> Seq(Event)]
    BY <1>2, <2>1 DEF Read, FollowTypeOK
  <2>3. \A d \in Clients : conn'[d] = "send" <=> batch'[d] # <<>>
    BY <1>2, <2>1 DEF Read, FollowTypeOK
  <2> QED
    BY <1>2, <2>2, <2>3 DEF Read, FollowTypeOK
<1>3. CASE Deliver(c)
  <2>1. batch[c] \in Seq(Event) /\ batch[c] # <<>>
    BY <1>3 DEF Deliver
  <2>2. /\ Head(batch[c]) \in Event /\ Tail(batch[c]) \in Seq(Event)
        /\ Append(got[c], Head(batch[c])) \in Seq(Event)
    BY <2>1, HeadTailProperties, AppendProperties
  <2>3. Head(batch[c]).id \in Nat /\ Head(batch[c]).attempt \in Attempts
    BY <2>2 DEF Event
  <2> HIDE DEF FollowTypeOK
  <2>4. <<>> \in Seq(Event)
    BY EmptySeq
  <2>5. batch' \in [Clients -> Seq(Event)] /\ got' \in [Clients -> Seq(Event)]
    <3>1. \/ batch' = [batch EXCEPT ![c] = <<>>] /\ got' = got
          \/ /\ batch' = [batch EXCEPT ![c] = Tail(batch[c])]
             /\ got' = [got EXCEPT ![c] = Append(got[c], Head(batch[c]))]
      BY <1>3 DEF Deliver
    <3>2. \A s \in Seq(Event) : /\ [batch EXCEPT ![c] = s] \in [Clients -> Seq(Event)]
                                /\ [got EXCEPT ![c] = s] \in [Clients -> Seq(Event)]
      BY DEF FollowTypeOK
    <3>3. got \in [Clients -> Seq(Event)]
      BY DEF FollowTypeOK
    <3> QED
      BY <2>2, <2>4, <3>1, <3>2, <3>3
  <2>6. lastID' \in [Clients -> Nat] /\ eofOf' \in [Clients -> Attempts \cup {0}]
    BY <1>3, <2>3 DEF Deliver, FollowTypeOK
  <2>7. conn' \in [Clients -> {"off", "loop", "send"}] /\ opens' = opens
    BY <1>3 DEF Deliver, FollowTypeOK
  <2>8. \A d \in Clients : conn'[d] = "send" <=> batch'[d] # <<>>
    BY <1>3, <2>1 DEF Deliver, FollowTypeOK
  <2> QED
    BY <2>5, <2>6, <2>7, <2>8 DEF FollowTypeOK
<1>4. CASE Cut(c)
  BY <1>4 DEF Cut
<1> QED
  BY <1>1, <1>2, <1>3, <1>4

\* A step of one client's handler leaves the others' alone.
LEMMA OthersStill ==
  ASSUME FollowTypeOK, NEW c \in Clients, Open(c) \/ Read(c) \/ Deliver(c) \/ Cut(c),
         NEW d \in Clients \ {c}
  PROVE  Still(d)
BY DEF FollowTypeOK, Open, Read, Deliver, Cut, Still

LEMMA FollowInvNext == ASSUME IInv, FInv, [FollowNext]_followVars PROVE FInv'
<1>1. CASE [Next]_vars /\ UNCHANGED readers
  <2>1. StreamGrows /\ \A c \in Clients : Still(c)
    BY <1>1, StreamStep DEF readers, Still
  <2>2. FollowTypeOK'
    BY <1>1 DEF FInv, FollowTypeOK, readers
  <2> QED
    BY <2>1, <2>2, StillInv DEF FInv
<1>2. ASSUME NEW c \in Clients, Open(c) \/ Read(c) \/ Deliver(c) \/ Cut(c) PROVE FInv'
  <2>1. UNCHANGED vars
    BY <1>2 DEF Open, Read, Deliver, Cut
  <2>2. StreamGrows
    BY <2>1, StreamStep
  <2>3. FollowTypeOK /\ FollowTypeOK'
    BY <1>2, ReaderTypes DEF FInv
  <2>4. \A d \in Clients \ {c} : ReaderInv(d)'
    BY <1>2, <2>2, <2>3, OthersStill, StillInv DEF FInv
  <2>5. ReaderInv(c)'
    BY <1>2, <2>3, OpenInv, ReadInv, DeliverMarkerInv, DeliverLineInv, CutInv DEF FInv
  <2> QED
    BY <2>3, <2>4, <2>5 DEF FInv
<1> QED
  BY <1>1, <1>2 DEF FollowNext, followVars

LEMMA InitFInv == ASSUME FollowInit PROVE FInv
<1>1. \A c \in Clients :
        /\ conn[c] = "off" /\ lastID[c] = 0 /\ batch[c] = <<>> /\ got[c] = <<>>
        /\ eofOf[c] = 0 /\ Len(batch[c]) = 0 /\ Len(got[c]) = 0
  BY DEF FollowInit
<1>2. FollowTypeOK
  BY <1>1, EmptySeq, ReaderAssumption DEF FollowInit, FollowTypeOK
<1>3. \A c \in Clients : ReaderInv(c)
  BY <1>1 DEF ReaderInv, ReadTo, BatchFollows, CopiesLog, ToldAtMarker, InOrder
<1> QED
  BY <1>2, <1>3 DEF FInv

\* Readers only watch: under their eyes the workers do what they do alone.
LEMMA WatchedRun == FollowSpec => Spec
<1>1. FollowInit => Init
  BY DEF FollowInit
<1>2. [FollowNext]_followVars => [Next]_vars
  BY DEF FollowNext, followVars, Open, Read, Deliver, Cut
<1>3. FollowSpec => FollowInit /\ [][FollowNext]_followVars
  BY PTL DEF FollowSpec
<1> QED
  BY <1>1, <1>2, <1>3, PTL DEF Spec

LEMMA FollowInvariant == FollowSpec => [](FInv /\ LInv)
<1>1. FollowInit => FInv
  BY InitFInv
<1>2. LInv => IInv
  BY DEF LInv
<1>3. IInv /\ FInv /\ [FollowNext]_followVars => FInv'
  BY FollowInvNext
<1>4. FollowSpec => FollowInit /\ [][FollowNext]_followVars
  BY PTL DEF FollowSpec
<1> QED
  BY <1>1, <1>2, <1>3, <1>4, WatchedRun, LogInvariant, PTL

-----------------------------------------------------------------------------
\* Every variable of the readers keeps its type, and a handler is sending exactly
\* when it has something to send: no part of a batch outlives its connection.
THEOREM ReadersTyped == FollowSpec => []FollowTypeOK
<1>1. FInv => FollowTypeOK
  BY DEF FInv
<1> QED
  BY <1>1, FollowInvariant, PTL

\* Over any number of connections a client receives the lines in order, each
\* once, and misses only what had expired: Last-Event-ID says where the next
\* connection goes on.
THEOREM ResumesInOrder == FollowSpec => []ResumesWhereItLeftOff
<1>1. FInv => ResumesWhereItLeftOff
  <2> SUFFICES ASSUME FInv, NEW c \in Clients, NEW k \in 1 .. Len(got[c])
               PROVE  LET id(j) == IF j = 0 THEN 0 ELSE got[c][j].id
                      IN  /\ id(k - 1) < id(k)
                          /\ \A missed \in id(k - 1) + 1 .. id(k) - 1 : missed <= trimmed
    BY DEF ResumesWhereItLeftOff
  <2>1. Follows(c, k)
    BY DEF FInv, ReaderInv, InOrder
  <2>2. k # 0 /\ (k - 1 = 0 <=> k = 1)
    BY ClientTyped DEF FInv
  <2> QED
    BY <2>1, <2>2 DEF Follows
<1> QED
  BY <1>1, FollowInvariant, PTL

\* What a client has when it is told "eof": the places of the attempt's lines in
\* what it has received are their places in the log.
LEMMA ToldHasLines ==
  ASSUME FInv, LInv, NEW c \in Clients, eofOf[c] # 0, trimmed = 0
  PROVE  /\ eofOf[c] \in Attempts /\ EofLogged(eofOf[c])
         /\ {k \in 1 .. Len(got[c]) : got[c][k].attempt = eofOf[c]} = LinesAt(eofOf[c])
<1> DEFINE n == eofOf[c]
           m == Len(got[c]) + 1
<1>1. /\ m \in 1 .. Len(log) /\ log[m] = [attempt |-> n, kind |-> "eof"]
      /\ Len(got[c]) \in Nat /\ n \in Attempts /\ Len(log) \in Nat
  BY ClientTyped, LenProperties
     DEF FInv, ReaderInv, ToldAtMarker, FollowTypeOK, LInv, IInv, TypeOK
<1>2. \A k \in 1 .. Len(got[c]) :
        k \in 1 .. Len(log) /\ got[c][k].attempt = log[k].attempt /\ log[k].kind # "eof"
  BY DEF FInv, ReaderInv, CopiesLog, IsEntry
<1>3. ASSUME NEW i \in 1 .. Len(log), log[i].attempt = n, log[i].kind # "eof"
      PROVE  i \in 1 .. Len(got[c])
  <2>1. i # m
    BY <1>1, <1>3
  <2>2. ~(m < i)
    <3>1. SUFFICES ASSUME m < i PROVE FALSE
      OBVIOUS
    <3>2. log[m].attempt < log[i].attempt
      BY <1>1, <3>1 DEF LInv, LogOrder, EofEndsAttempt
    <3>3. n \in Nat
      BY <1>1 DEF Attempts
    <3> QED
      BY <1>1, <1>3, <3>2, <3>3
  <2> QED
    BY <1>1, <2>1, <2>2
<1>4. EofLogged(n)
  BY <1>1 DEF EofLogged
<1> QED
  BY <1>1, <1>2, <1>3, <1>4 DEF LinesAt

\* A client that is told "eof" has every line the attempt printed before it, by
\* however many connections they came, as long as nothing has expired, Redis
\* accepts what a live attempt writes and no line is over 64 KiB.
THEOREM EofMeansAll ==
  ASSUME ~RedisFaults, ~LongLines
  PROVE  FollowSpec => []EofAfterWholeOutput
<1>1. FInv /\ LInv /\ EofAccountsForOutput => EofAfterWholeOutput
  <2> SUFFICES ASSUME FInv, LInv, EofAccountsForOutput, NEW c \in Clients,
                      eofOf[c] # 0, trimmed = 0
               PROVE  Cardinality({k \in 1 .. Len(got[c]) : got[c][k].attempt = eofOf[c]})
                        = MaxLines - left[eofOf[c]]
    BY DEF EofAfterWholeOutput
  <2>1. LinesLogged(eofOf[c]) = MaxLines - left[eofOf[c]]
    BY ToldHasLines DEF EofAccountsForOutput
  <2>2. LinesLogged(eofOf[c]) = Cardinality(LinesAt(eofOf[c]))
    BY DEF LinesLogged, LinesAt
  <2> QED
    BY <2>1, <2>2, ToldHasLines
<1> QED
  BY <1>1, FollowInvariant, WatchedRun, MarkerVouchesForOutput, PTL
================================================================================
