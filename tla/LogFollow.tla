------------------------------ MODULE LogFollow ------------------------------
(***************************************************************************)
(* Clients that read an execution's log over SSE while it runs, is retried *)
(* or has ended: handleGetLogs (api.go) and LogStreamer.Read (logs.go)     *)
(* composed with Execution, whose log stream is what they share with the   *)
(* workers.  A client is a reader that reconnects, as browsers' EventSource*)
(* does, with the id of the last event it received in Last-Event-ID.       *)
(*                                                                         *)
(* The follow parameter is not modelled: it only chooses between a read    *)
(* that blocks for 5 seconds and is repeated, and (follow=false) a read    *)
(* that blocks with a time of 0, which to Redis is for ever.  Both wait    *)
(* until there is an entry, so the return for "no entries" is never taken. *)
(***************************************************************************)
EXTENDS Execution, SequencesExt

CONSTANTS
  Clients,    \* readers of this execution's log
  BatchSize,  \* the Count of XREAD
  MaxOpens    \* bound: connections a client makes

ASSUME ReaderAssumption == BatchSize \in Nat \ {0} /\ MaxOpens \in Nat

VARIABLES
  conn,    \* the handler of the client's connection, "off" when there is none
  lastID,  \* that handler's lastID (0: "0")
  batch,   \* the entries it has read and not yet sent
  opens,   \* connections the client has made
  got,     \* the events the client has received, over all connections
  eofOf    \* the attempt whose marker ended its last connection (0: none)

readers  == <<conn, lastID, batch, opens, got, eofOf>>
followVars == <<vars, readers>>

Event == [id : Nat \ {0}, attempt : Attempts, kind : Streams \cup {"eof"}]

\* Types, and: a handler is sending exactly when its batch is not empty.
FollowTypeOK ==
  /\ conn \in [Clients -> {"off", "loop", "send"}]
  /\ lastID \in [Clients -> Nat]
  /\ batch \in [Clients -> Seq(Event)]
  /\ \A c \in Clients : conn[c] = "send" <=> batch[c] # <<>>
  /\ opens \in [Clients -> 0 .. MaxOpens]
  /\ got \in [Clients -> Seq(Event)]
  /\ eofOf \in [Clients -> Attempts \cup {0}]

FollowInit ==
  /\ Init
  /\ conn = [c \in Clients |-> "off"]
  /\ lastID = [c \in Clients |-> 0]
  /\ batch = [c \in Clients |-> <<>>]
  /\ opens = [c \in Clients |-> 0]
  /\ got = [c \in Clients |-> <<>>]
  /\ eofOf = [c \in Clients |-> 0]

\* Stream ids grow and are never reused, also after the stream has expired.
Entries == [i \in 1 .. Len(log) |->
              [id |-> trimmed + i, attempt |-> log[i].attempt, kind |-> log[i].kind]]

\* LogStreamer.Read: at most BatchSize entries after the given id, which may be
\* that of an entry that has expired.
ReadAfter(id) ==
  LET skipped == IF id > trimmed THEN id - trimmed ELSE 0
      to      == skipped + BatchSize
  IN  SubSeq(Entries, skipped + 1, IF to < Len(log) THEN to ELSE Len(log))

-----------------------------------------------------------------------------
\* handleGetLogs, for the connection of client c.

\* Mutation: Last-Event-ID is not read, each connection starts at "0".
OpenAtStart(c) ==
  /\ st # "none"
  /\ conn[c] = "off"
  /\ opens[c] < MaxOpens
  /\ conn' = [conn EXCEPT ![c] = "loop"]
  /\ lastID' = [lastID EXCEPT ![c] = 0]
  /\ opens' = [opens EXCEPT ![c] = @ + 1]
  /\ eofOf' = [eofOf EXCEPT ![c] = 0]
  /\ UNCHANGED <<vars, batch, got>>

\* Mutation: each connection starts at the end of the stream, "$".
OpenAtEnd(c) ==
  /\ st # "none"
  /\ conn[c] = "off"
  /\ opens[c] < MaxOpens
  /\ conn' = [conn EXCEPT ![c] = "loop"]
  /\ lastID' = [lastID EXCEPT ![c] = trimmed + Len(log)]
  /\ opens' = [opens EXCEPT ![c] = @ + 1]
  /\ eofOf' = [eofOf EXCEPT ![c] = 0]
  /\ UNCHANGED <<vars, batch, got>>


Open(c) ==
  /\ st # "none"
  /\ conn[c] = "off"
  /\ opens[c] < MaxOpens
  /\ conn' = [conn EXCEPT ![c] = "loop"]
  /\ lastID' = [lastID EXCEPT ![c] = IF got[c] = <<>> THEN 0 ELSE Last(got[c]).id]
  /\ opens' = [opens EXCEPT ![c] = @ + 1]
  /\ eofOf' = [eofOf EXCEPT ![c] = 0]
  /\ UNCHANGED <<vars, batch, got>>

\* The XREAD returns as soon as there is an entry after lastID.
Read(c) ==
  /\ conn[c] = "loop"
  /\ ReadAfter(lastID[c]) # <<>>
  /\ batch' = [batch EXCEPT ![c] = ReadAfter(lastID[c])]
  /\ conn' = [conn EXCEPT ![c] = "send"]
  /\ UNCHANGED <<vars, lastID, opens, got, eofOf>>

\* Mutation: the marker is passed on like a line, and the loop goes on.
DeliverMarker(c) ==
  /\ conn[c] = "send"
  /\ LET e == Head(batch[c])
         rest == Tail(batch[c])
     IN /\ got' = [got EXCEPT ![c] = Append(@, e)]
        /\ lastID' = [lastID EXCEPT ![c] = e.id]
        /\ batch' = [batch EXCEPT ![c] = rest]
        /\ conn' = [conn EXCEPT ![c] = IF rest = <<>> THEN "loop" ELSE "send"]
  /\ UNCHANGED <<vars, opens, eofOf>>

\* Mutation: the marker's return leaves the rest of the batch behind, for the
\* next connection to send first.
DeliverLeftover(c) ==
  /\ conn[c] = "send"
  /\ LET e == Head(batch[c])
         rest == Tail(batch[c])
     IN \/ /\ e.kind = "eof"
           /\ conn' = [conn EXCEPT ![c] = "off"]
           /\ batch' = [batch EXCEPT ![c] = rest]
           /\ eofOf' = [eofOf EXCEPT ![c] = e.attempt]
           /\ UNCHANGED <<lastID, got>>
        \/ /\ e.kind # "eof"
           /\ got' = [got EXCEPT ![c] = Append(@, e)]
           /\ lastID' = [lastID EXCEPT ![c] = e.id]
           /\ batch' = [batch EXCEPT ![c] = rest]
           /\ conn' = [conn EXCEPT ![c] = IF rest = <<>> THEN "loop" ELSE "send"]
           /\ UNCHANGED eofOf
  /\ UNCHANGED <<vars, opens>>

\* The next entry of the batch reaches the client; the marker, which is sent
\* without an id, ends the connection and drops the rest of the batch.
Deliver(c) ==
  /\ conn[c] = "send"
  /\ LET e == Head(batch[c])
         rest == Tail(batch[c])
     IN \/ /\ e.kind = "eof"
           /\ conn' = [conn EXCEPT ![c] = "off"]
           /\ batch' = [batch EXCEPT ![c] = <<>>]
           /\ eofOf' = [eofOf EXCEPT ![c] = e.attempt]
           /\ UNCHANGED <<lastID, got>>
        \/ /\ e.kind # "eof"
           /\ got' = [got EXCEPT ![c] = Append(@, e)]
           /\ lastID' = [lastID EXCEPT ![c] = e.id]
           /\ batch' = [batch EXCEPT ![c] = rest]
           /\ conn' = [conn EXCEPT ![c] = IF rest = <<>> THEN "loop" ELSE "send"]
           /\ UNCHANGED eofOf
  /\ UNCHANGED <<vars, opens>>

\* The connection breaks, the API process dies, or the read of Redis fails:
\* the handler returns, and what it had not yet sent is lost with it.
Cut(c) ==
  /\ conn[c] # "off"
  /\ conn' = [conn EXCEPT ![c] = "off"]
  /\ batch' = [batch EXCEPT ![c] = <<>>]
  /\ UNCHANGED <<vars, lastID, opens, got, eofOf>>

FollowNext ==
  \/ Next /\ UNCHANGED readers
  \/ \E c \in Clients : Open(c) \/ Read(c) \/ Deliver(c) \/ Cut(c)

\* The handler's loop goes on while its connection stands; nothing is assumed
\* of the client, of the network, of the scripts or of the workers' handlers.
FollowSpec ==
  /\ FollowInit /\ [][FollowNext]_followVars
  /\ \A c \in Clients : WF_followVars(Read(c)) /\ WF_followVars(Deliver(c))

-----------------------------------------------------------------------------
\* Over any number of connections a client receives the lines in order, each
\* once, and misses only lines that expired before it could read them and
\* markers (README, "Streaming resumes from where it left off").
ResumesWhereItLeftOff ==
  \A c \in Clients :
    LET id(k) == IF k = 0 THEN 0 ELSE got[c][k].id
    IN \A k \in 1 .. Len(got[c]) :
         /\ id(k - 1) < id(k)
         /\ \A missed \in id(k - 1) + 1 .. id(k) - 1 : missed <= trimmed

\* A client that is told "eof" has received every line the attempt printed
\* before it, also if it came by several connections (while nothing expires,
\* without Redis errors and lines over 64 KiB).
EofAfterWholeOutput ==
  \A c \in Clients : eofOf[c] # 0 /\ trimmed = 0 =>
    Cardinality({k \in 1 .. Len(got[c]) : got[c][k].attempt = eofOf[c]})
      = MaxLines - left[eofOf[c]]

\* A reader of a completed execution is released: its connection ends, unless
\* the stream expires first (docs/api.md, "Connection closed when execution
\* completes").
CompletedReaderReleased ==
  \A c \in Clients :
    st = "completed" /\ log # <<>> /\ conn[c] # "off"
      ~> conn[c] = "off" \/ log = <<>>

-----------------------------------------------------------------------------
\* What docs/api.md says and the code does not do (see README, "Findings").

\* "Connection closed when execution completes or fails": whoever has been
\* told "eof" is not one attempt behind.
EofOfLastAttempt == \A c \in Clients : eofOf[c] \in {0, cur}

\* "Connection closed when execution ... fails": a reader does not wait for
\* ever on an execution that has failed.
FailedReaderReleased ==
  \A c \in Clients : st = "archived" /\ conn[c] # "off" ~> conn[c] = "off"

==============================================================================
