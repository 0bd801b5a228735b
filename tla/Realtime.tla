------------------------------ MODULE Realtime ------------------------------
(***************************************************************************)
(* What a client is sent: over a WebSocket or as server-sent events, the   *)
(* events of a job, a worker or a session; over a WebSocket, the output of *)
(* a session.  The handlers of routes/realtime and routes/events with the  *)
(* event stream (EventBus, and the polling streams that wrap one), the     *)
(* session output stream over its two transports, and the transcript that  *)
(* is replayed.                                                            *)
(*                                                                         *)
(* An event is its place in the log, a chunk its place in chunks.  What    *)
(* attach, detach and cancel do to the session record is in Sessions.      *)
(***************************************************************************)
EXTENDS Integers, Sequences, FiniteSets, FiniteSetsExt

CONSTANTS
  Client,
  Scopes,     \* "events" of a job; a session over "file" or over "stdio"
  Polling,    \* the event stream polls the store; else it is a plain EventBus
  Hasty,      \* clients close while a message is handled, resume before they
              \* subscribe, detach twice: each leaks a subscription or a count
  Limit,      \* history_limit, pollLimit
  Solo,       \* bound: scopes in which a single client connects
  MaxEvents, MaxChunks, MaxStreams, MaxInputs   \* bounds

ASSUME RealtimeAssumption ==
  /\ {Polling, Hasty} \subseteq BOOLEAN /\ Scopes \subseteq {"events", "file", "stdio"}
  /\ {Limit, MaxEvents, MaxChunks, MaxStreams, MaxInputs} \subseteq Nat /\ Limit > 0
  /\ Client # {} /\ IsFiniteSet(Client)

VARIABLES
  scope,
  log,         \* the events of the job stored: is the event the worker's?
  unsent,      \* events stored, and not emitted by their publisher
  chunks,      \* the output of the runtime: each chunk's sequence number
  ended,       \* the runtime's process has closed
  cursor,      \* stdio: outputSequence of the transport state
  saved,       \* outputSequence of the session record
  transcript,  \* output entries of the transcript
  session,     \* open, attachedClients
  conn,        \* a client and the closure of its connection
  sub,         \* the connection's subscription to the event stream
  stream,      \* output subscriptions, in the order they were made
  inputs

events == <<log, unsent>>
output == <<chunks, ended, cursor, saved, transcript, session, stream, inputs>>
vars == <<scope, events, output, conn, sub>>

NoSub  == [on |-> FALSE, from |-> 0, next |-> 0, fetching |-> FALSE, page |-> {}]
NoConn == [ws |-> FALSE, pc |-> "idle", attached |-> FALSE, stream |-> 0,
           wide |-> TRUE, history |-> {}, got |-> {}, seen |-> 0]
NoStream == [state |-> "free", conn |-> CHOOSE c \in Client : TRUE, live |-> FALSE, after |-> 0,
             read |-> 0, todo |-> {}]

Init ==
  /\ scope \in Scopes
  /\ log = <<>> /\ unsent = {} /\ chunks = <<>> /\ ended = FALSE /\ cursor = 0 /\ saved = 0 /\ transcript = <<>>
  /\ session = [open |-> TRUE, clients |-> 0]
  /\ conn = [c \in Client |-> NoConn] /\ sub = [c \in Client |-> NoSub]
  /\ stream = [i \in 1..MaxStreams |-> NoStream] /\ inputs = 0

Received(c, items) == [c EXCEPT !.got = IF c.ws THEN @ \cup items ELSE @]
Idle(c) == conn[c].ws /\ conn[c].pc = "idle"
Session == scope # "events"
Sse(c) == conn[c].pc \in {"requested", "writing"}

-----------------------------------------------------------------------------
(* Connections *)

Free(c) == ~conn[c].ws /\ conn[c].pc = "idle" /\ ~sub[c].on /\ (scope \in Solo => c = NoStream.conn)

\* Of a job, or of a worker, whose events are some of the job's; of a session.
Connect(c) ==
  /\ Free(c)
  /\ \E wide \in IF Session THEN {TRUE} ELSE BOOLEAN :
       conn' = [conn EXCEPT ![c] = [NoConn EXCEPT !.ws = TRUE, !.wide = wide,
                  !.got = IF Session THEN conn[c].got ELSE {}, !.seen = conn[c].seen]]
  /\ sub' = [sub EXCEPT ![c] = NoSub]
  /\ UNCHANGED <<scope, events, output>>

\* Mutant: the output subscription is forgotten.
ShutForgetful(c) == stream
Shut(c) == IF conn[c].stream = 0 THEN stream
           ELSE [stream EXCEPT ![conn[c].stream].state = "closed"]

\* detachSession; the last client's detach stores the transport's cursor.
Detached(n) == [session EXCEPT !.clients = IF @ = 0 THEN 0 ELSE @ - n]
SavedAfter(n) == IF n = 1 /\ session.clients <= 1 /\ scope = "stdio" THEN cursor ELSE saved

\* onClose: cleanup, which takes effect once, and detachSession.
Close(c) ==
  /\ conn[c].ws /\ (Hasty \/ conn[c].pc = "idle") /\ ~Sse(c)
  /\ LET n == IF conn[c].attached /\ session.open THEN 1 ELSE 0 IN
     /\ session' = Detached(n) /\ saved' = SavedAfter(n)
  /\ stream' = [i \in DOMAIN stream |->
                 IF stream[i].conn = c THEN [Shut(c)[i] EXCEPT !.live = FALSE] ELSE stream[i]]
  /\ sub' = [sub EXCEPT ![c].on = FALSE]
  /\ conn' = [conn EXCEPT ![c].ws = FALSE, ![c].attached = FALSE, ![c].stream = 0]
  /\ UNCHANGED <<scope, events, chunks, ended, cursor, transcript, inputs>>

-----------------------------------------------------------------------------
(* Events of a job, a worker or a session *)

\* publishEvent: appendEvent, then emit.
Store ==
  /\ scope = "events" /\ Len(log) < MaxEvents
  /\ \E workers \in BOOLEAN : log' = Append(log, workers)
  /\ unsent' = unsent \cup {Len(log')}
  /\ UNCHANGED <<scope, output, conn, sub>>

\* matchesFilter, for connection r.
Matches(r, k) == r.wide \/ log[k]

\* A subscription passes on what it has not delivered before; got is a set, so
\* that is not seen here.  A callback that finds its socket closed cleans up,
\* which onClose has done already.
\* Every subscriber is called; with several publishers, in any order.
Emit(k) ==
  /\ unsent' = unsent \ {k}
  /\ conn' = [c \in Client |-> IF sub[c].on /\ Matches(conn[c], k) THEN Received(conn[c], {k})
                               ELSE conn[c]]
  /\ UNCHANGED <<scope, log, output, sub>>

\* listEvents: offset and limit count the events that pass the filter.
Matching(r) == {k \in DOMAIN log : Matches(r, k)}
Place(k, S) == Cardinality({l \in S : l <= k})
Page(r, from) == {k \in Matching(r) : Place(k, Matching(r)) \in (from + 1)..(from + Limit)}

\* subscribe: the history is read,
SubscribeEvents(c) ==
  /\ scope = "events" /\ Idle(c) /\ ~sub[c].on
  /\ \E from \in 0..Len(log) :
       /\ sub' = [sub EXCEPT ![c] = [NoSub EXCEPT !.from = from]]
       /\ conn' = [conn EXCEPT ![c].pc = "subscribing", ![c].history = Page(conn[c], from)]
  /\ UNCHANGED <<scope, events, output>>

\* Mutant: polling goes on after a full page, however many were read.
NextOffsetFull(c) == sub[c].from + Limit
NextOffset(c) == sub[c].from + Cardinality(conn[c].history)

\* and only then is the event stream subscribed to.
Subscribed(c) ==
  /\ conn[c].pc = "subscribing"
  /\ sub' = [sub EXCEPT ![c].on = TRUE, ![c].next = NextOffset(c)]
  /\ conn' = [conn EXCEPT ![c] = [Received(@, @.history) EXCEPT !.pc = "idle", !.history = {}]]
  /\ UNCHANGED <<scope, events, output>>

\* The same over HTTP: the history is read before the stream is opened.  A
\* request of a session's events also reads from a cursor, but its filter has
\* no offset.
Request(c, wide, offset) ==
  /\ scope = "events" /\ Free(c)
  /\ \E from \in 0..Len(log) :
       LET new == [NoConn EXCEPT !.ws = TRUE, !.wide = wide, !.pc = "requested"]
           page == Page(new, from) IN
       /\ conn' = [conn EXCEPT ![c] = [new EXCEPT !.history = page]]
       /\ sub' = [sub EXCEPT ![c] = [NoSub EXCEPT !.from = from,
                                     !.next = IF offset THEN from + Cardinality(page) ELSE 0]]
  /\ UNCHANGED <<scope, events, output>>

JobEvents(c)     == Request(c, TRUE, TRUE)
WorkerEvents(c)  == Request(c, FALSE, TRUE)
SessionEvents(c) == Request(c, FALSE, FALSE)

\* The stream subscribes first,
StreamOpened(c) ==
  /\ conn[c].pc = "requested"
  /\ sub' = [sub EXCEPT ![c].on = TRUE] /\ conn' = [conn EXCEPT ![c].pc = "writing"]
  /\ UNCHANGED <<scope, events, output>>

\* and writes the history one by one, between what the subscription writes.
WriteEvent(c) ==
  /\ conn[c].pc = "writing" /\ conn[c].history # {}
  /\ LET k == Min(conn[c].history) IN
     conn' = [conn EXCEPT ![c] = [Received(@, {k}) EXCEPT !.history = conn[c].history \ {k}]]
  /\ UNCHANGED <<scope, events, output, sub>>

\* The client goes away, or a write finds that it has.
Abort(c) ==
  /\ conn[c].pc = "writing"
  /\ sub' = [sub EXCEPT ![c].on = FALSE]
  /\ conn' = [conn EXCEPT ![c].ws = FALSE, ![c].pc = "idle", ![c].history = {}]
  /\ UNCHANGED <<scope, events, output>>

\* The interval of a polling stream; one fetch at a time.
Poll(c) ==
  /\ Polling /\ sub[c].on /\ ~sub[c].fetching
  /\ sub' = [sub EXCEPT ![c].fetching = TRUE, ![c].page = Page(conn[c], sub[c].next)]
  /\ UNCHANGED <<scope, events, output, conn>>

Polled(c) ==
  /\ sub[c].fetching
  /\ sub' = [sub EXCEPT ![c].fetching = FALSE, ![c].page = {},
                        ![c].next = sub[c].next + Cardinality(sub[c].page)]
  /\ conn' = [conn EXCEPT ![c] = Received(@, sub[c].page)]
  /\ UNCHANGED <<scope, events, output>>

-----------------------------------------------------------------------------
(* Output of a session *)

\* A chunk is appended to the file, or numbered as it leaves the pipe and
\* passed to the subscribers, each of which handles it on its own.
Produce ==
  /\ Session /\ ~ended /\ Len(chunks) < MaxChunks
  /\ LET k == Len(chunks) + 1
         n == IF scope = "file" THEN k ELSE cursor + 1 IN
     /\ chunks' = Append(chunks, n)
     /\ IF scope = "file" THEN UNCHANGED <<cursor, stream>>
        ELSE /\ cursor' = n
             /\ stream' = [i \in DOMAIN stream |->
                  IF stream[i].state = "open" /\ n > stream[i].after
                  THEN [stream[i] EXCEPT !.todo = @ \cup {k}] ELSE stream[i]]
  /\ UNCHANGED <<scope, events, ended, saved, transcript, session, inputs, conn, sub>>

\* bindHandle: when the process closes, every subscriber of its pipe is let go.
RuntimeEnds ==
  /\ scope = "stdio" /\ ~ended /\ ended' = TRUE
  /\ stream' = [i \in DOMAIN stream |-> IF stream[i].state = "open"
                  THEN [stream[i] EXCEPT !.state = "closed"] ELSE stream[i]]
  /\ UNCHANGED <<scope, events, chunks, cursor, saved, transcript, session, inputs, conn, sub>>

\* sendInput: the record takes over the cursor of the transport.
Input ==
  /\ scope = "stdio" /\ session.open /\ inputs < MaxInputs /\ inputs' = inputs + 1
  /\ saved' = cursor
  /\ UNCHANGED <<scope, events, chunks, ended, cursor, transcript, session, stream, conn, sub>>

\* The transport goes on from the cursor it is handed.
Restored == IF scope = "stdio" THEN saved ELSE cursor

\* subscribe: attachSession, which hands the saved cursor to the transport.
Attach(c) ==
  /\ Session /\ Idle(c) /\ ~sub[c].on /\ session.open
  /\ session' = [session EXCEPT !.clients = @ + 1]
  /\ cursor' = Restored
  /\ conn' = [conn EXCEPT ![c].attached = TRUE, ![c].pc = "replay"]
  /\ sub' = [sub EXCEPT ![c].on = TRUE]
  /\ UNCHANGED <<scope, events, chunks, ended, saved, transcript, stream, inputs>>

\* resume closes the old subscription, not the delivery it is in.
Resume(c) ==
  /\ Session /\ Idle(c) /\ (Hasty \/ sub[c].on)
  /\ stream' = Shut(c) /\ conn' = [conn EXCEPT ![c].pc = "replay", ![c].stream = 0]
  /\ UNCHANGED <<scope, events, chunks, ended, cursor, saved, transcript, session, inputs, sub>>

\* Places in the transcript.
Later(c) == {p \in DOMAIN transcript : chunks[transcript[p]] > conn[c].seen}
\* Mutant: the last entries of the transcript are replayed.
ReplayedTail(c) == {p \in Later(c) : Cardinality({q \in Later(c) : q >= p}) <= Limit}
\* listTranscript: the first entries after the sequence the client has.
Replayed(c) == {p \in Later(c) : Place(p, Later(c)) <= Limit}
Replay(c) == {transcript[p] : p \in Replayed(c)}

\* The sequence of the last entry replayed, else the client's.
After(c) == IF Replayed(c) = {} THEN conn[c].seen ELSE chunks[transcript[Max(Replayed(c))]]

Sees(r, ks) == [Received(r, ks) EXCEPT
                 !.seen = IF r.ws THEN Max({@} \cup {chunks[k] : k \in ks}) ELSE @]

\* openOutputStream refuses a session that was closed.
Open(c) ==
  /\ conn[c].pc = "replay"
  /\ IF session.open
     THEN \E i \in 1..MaxStreams :
            /\ stream[i].state = "free" /\ \A h \in 1..(i - 1) : stream[h].state # "free"
            /\ stream' = [stream EXCEPT ![i] = [NoStream EXCEPT !.state = "opening",
                                                   !.conn = c, !.live = conn[c].ws,
                                                   !.after = After(c)]]
            /\ conn' = [conn EXCEPT ![c] = [Sees(@, Replay(c)) EXCEPT !.pc = "opening"]]
     ELSE /\ conn' = [conn EXCEPT ![c] = [Sees(@, Replay(c)) EXCEPT !.pc = "idle"]]
          /\ UNCHANGED stream
  /\ UNCHANGED <<scope, events, chunks, ended, cursor, saved, transcript, session, inputs, sub>>

\* What a subscription of the file, or one going through the history, has to
\* deliver next: what was written after the last it delivered.
Unread(i) == {k \in DOMAIN chunks : k > stream[i].read /\ chunks[k] > stream[i].after}

\* pump() of the file, which goes on in an interval, and the walk through the
\* history of a pipe, which ends before the subscription begins.
Pump(i) ==
  /\ stream[i].state = "opening" \/ (scope = "file" /\ stream[i].state = "open")
  /\ stream[i].todo = {} /\ Unread(i) # {}
  /\ LET ks == IF scope = "file" THEN Unread(i) ELSE {Min(Unread(i))} IN
     stream' = [stream EXCEPT ![i].todo = ks, ![i].read = Max(ks)]
  /\ UNCHANGED <<scope, events, chunks, ended, cursor, saved, transcript, session, inputs, conn, sub>>

InOrder(i) == scope = "file" \/ stream[i].state = "opening"

\* onOutput: the session record, the transcript, then the socket.  Whether the
\* subscription is still open is not asked.
Deliver(i) ==
  \E k \in stream[i].todo :
    /\ InOrder(i) => k = Min(stream[i].todo)
    /\ saved' = chunks[k] /\ transcript' = Append(transcript, k)
    /\ stream' = [stream EXCEPT ![i].todo = @ \ {k}]
    /\ conn' = IF stream[i].live THEN [conn EXCEPT ![stream[i].conn] = Sees(@, {k})] ELSE conn
    /\ UNCHANGED <<scope, events, chunks, ended, cursor, session, inputs, sub>>

\* Mutant: the subscription begins although the history has grown.
ReadUpEarly(i) == stream[i].todo = {}
ReadUp(i) == stream[i].todo = {} /\ (scope = "stdio" => Unread(i) = {})

\* The handler gets the subscription; it is open whether or not the socket is.
Opened(c) ==
  /\ conn[c].pc = "opening"
  /\ \E i \in 1..MaxStreams :
       /\ stream[i].state = "opening" /\ stream[i].conn = c /\ ReadUp(i)
       /\ stream' = [stream EXCEPT ![i].state = "open"]
       /\ conn' = [conn EXCEPT ![c].pc = "idle", ![c].stream = i]
  /\ UNCHANGED <<scope, events, chunks, ended, cursor, saved, transcript, session, inputs, sub>>

Detach(c) ==
  /\ Session /\ Idle(c) /\ (Hasty \/ conn[c].attached)
  /\ LET n == IF session.open THEN 1 ELSE 0 IN
     /\ session' = Detached(n) /\ saved' = SavedAfter(n)
     /\ conn' = [conn EXCEPT ![c].attached = @ /\ n = 0, ![c].stream = 0]
  /\ stream' = Shut(c)
  /\ UNCHANGED <<scope, events, chunks, ended, cursor, transcript, inputs, sub>>

Cancel(c) ==
  /\ Session /\ Idle(c)
  /\ stream' = Shut(c) /\ session' = [open |-> FALSE, clients |-> 0]
  /\ conn' = [conn EXCEPT ![c].attached = FALSE, ![c].stream = 0]
  /\ UNCHANGED <<scope, events, chunks, ended, cursor, saved, transcript, inputs, sub>>

-----------------------------------------------------------------------------
Calling(c) == \/ Connect(c) \/ Close(c) \/ SubscribeEvents(c) \/ Attach(c) \/ Resume(c)
              \/ Detach(c) \/ Cancel(c)
              \/ JobEvents(c) \/ WorkerEvents(c) \/ SessionEvents(c) \/ Abort(c)
Handling(c) == Subscribed(c) \/ Open(c) \/ Opened(c) \/ StreamOpened(c) \/ WriteEvent(c)
Streaming(i) == Pump(i) \/ Deliver(i)

Next == \/ Store \/ Produce \/ RuntimeEnds \/ Input \/ \E k \in unsent : Emit(k)
        \/ \E c \in Client : Calling(c) \/ Handling(c) \/ Poll(c) \/ Polled(c)
        \/ \E i \in 1..MaxStreams : Streaming(i)

Spec == Init /\ [][Next]_vars
\* Handlers and intervals run; an event published elsewhere is never emitted here.
Fairness == /\ \A c \in Client : /\ WF_vars(Handling(c)) /\ WF_vars(Poll(c)) /\ WF_vars(Polled(c))
            /\ \A i \in 1..MaxStreams : WF_vars(Streaming(i))
FairSpec == Spec /\ Fairness
-----------------------------------------------------------------------------
(* Properties *)

ConnRecord == [ws: BOOLEAN, pc: {"idle", "subscribing", "replay", "opening", "requested", "writing"},
               attached: BOOLEAN, wide: BOOLEAN, stream: 0..MaxStreams, history: SUBSET (1..MaxEvents),
               got: SUBSET (1..(MaxEvents + MaxChunks)), seen: 0..MaxChunks]
SubRecord == [on: BOOLEAN, from: 0..MaxEvents, next: Nat, fetching: BOOLEAN,
              page: SUBSET (1..MaxEvents)]
StreamRecord == [state: {"free", "opening", "open", "closed"}, conn: Client, live: BOOLEAN,
                 after: 0..MaxChunks, read: 0..MaxChunks, todo: SUBSET (1..MaxChunks)]

\* Events and cursors stay within the log, sequences within the output.
TypeOK ==
  /\ scope \in Scopes /\ log \in Seq(BOOLEAN) /\ Len(log) <= MaxEvents /\ unsent \subseteq DOMAIN log
  /\ ended \in BOOLEAN /\ chunks \in Seq(1..MaxChunks) /\ Len(chunks) <= MaxChunks
  /\ cursor \in 0..MaxChunks /\ saved \in 0..MaxChunks
  /\ transcript \in Seq(DOMAIN chunks) /\ session \in [open: BOOLEAN, clients: Nat]
  /\ conn \in [Client -> ConnRecord] /\ sub \in [Client -> SubRecord]
  /\ stream \in [1..MaxStreams -> StreamRecord] /\ inputs \in 0..MaxInputs

\* A client of a file transport that resumes from the last sequence it saw
\* never misses a chunk before one it gets, whatever the history limit cuts
\* off and however the streams of several clients share the transcript.
NoSkip == scope = "file" => \A c \in Client : conn[c].got = 1..conn[c].seen

\* A closed connection leaves no subscription behind, and while a session is
\* open it counts exactly the connections that are attached to it.
Released ==
  /\ \A c \in Client : ~conn[c].ws =>
       /\ ~sub[c].on
       /\ \A i \in 1..MaxStreams : stream[i].conn = c => stream[i].state \notin {"opening", "open"}
  /\ session.open => session.clients = Cardinality({c \in Client : conn[c].attached})

Beyond(c) == {k \in Matching(conn[c]) : Place(k, Matching(conn[c])) > sub[c].from}

\* Every event stored after the cursor of a subscription reaches the client,
\* also one that is stored or emitted between reading the history and
\* subscribing, and one published by another process.
EveryEventSeen ==
  \A c \in Client, k \in 1..MaxEvents :
    (sub[c].on /\ k \in Beyond(c)) ~> (~conn[c].ws \/ k \in conn[c].got)

\* Not true of the code: nothing from before the cursor is sent again (the
\* stream of a session's events polls from the beginning).
CursorKept == scope = "events" => \A c \in Client : conn[c].ws => conn[c].got \subseteq Beyond(c)

\* Every chunk after the sequence a stream was opened with has reached its
\* client, or is still to be read or being delivered; so none falls between the
\* walk through the history and the subscription, or between two pumps, and
\* the end of the process takes nothing from a stream it closes.
NothingDropped ==
  \A i \in 1..MaxStreams :
    LET s == stream[i] IN
    s.live /\ (s.state \in {"opening", "open"} \/ (ended /\ s.state = "closed" /\ conn[s.conn].stream = i)) =>
      \A k \in DOMAIN chunks : chunks[k] > s.after =>
        \/ k \in conn[s.conn].got \cup s.todo
        \/ k \in Unread(i) /\ (scope = "file" \/ s.state = "opening")

\* Not true of the code: a sequence number names one chunk.
OneChunkPerSequence == scope = "stdio" => \A k, l \in DOMAIN chunks : chunks[k] = chunks[l] => k = l
=============================================================================
