------------------------------ MODULE WebClient ------------------------------
(***************************************************************************)
(* The browser's client of the concierge (babylonjs-web, concierge_api):   *)
(* its WebSocket objects, the sequence number that it counts along with    *)
(* the server, the callbacks that wait for numbered answers, and the       *)
(* timers that drop waiters and connect again.                             *)
(*                                                                         *)
(* The server is what it shows of itself on each connection: it answers    *)
(* the frames in order, numbers the answers from HELLO on, and refuses a   *)
(* name that another connection still has.  Frames are lost only with      *)
(* their connection.  A frame is IDENTIFY or a request, and an answer here *)
(* also says which frame it is for.                                        *)
(***************************************************************************)
EXTENDS Integers, Maps, SequencesExt

CONSTANTS
    Socket,         \* WebSocket objects; a closed one stands for a later one again
    Request,        \* calls of sendPayload with a callback during the run
    EagerRequests,  \* the application also sends before HELLO has come
    SeqCap          \* bound of the model: seq stays there

ASSUME EagerRequestsAssumption == EagerRequests \in BOOLEAN
ASSUME SeqCapAssumption == SeqCap \in Nat

VARIABLES
    sock,      \* socket -> its ready state
    current,   \* Client.socket
    version,   \* whether Client.version is set
    seq,       \* Client.seq
    waiters,   \* Client.waiters: number -> request
    expiries,  \* pending timeouts of waiters: <<request, number>>
    timers,    \* pending reconnects, each with the expiries that precede it
    ready,     \* a HELLO has come since the last close event
    sent,      \* requests made so far
    got,       \* history: <<r, q>> when the callback of r got the answer to q
    appClosed,  \* history: how the application called close(), if it did
    upstream, downstream,  \* frames on their way, per socket
    conn,      \* socket -> the server's end of it
    counted    \* socket -> text frames that the server has numbered

counting == <<seq, waiters, expiries, sent, got>>
wire == <<upstream, downstream, conn, counted>>
webVars == <<sock, current, version, timers, ready, appClosed, counting, wire>>

None == "none"
Identify == "identify"
Hello == [type |-> "HELLO"]
Refusal == [type |-> "CLOSE"]
AnswerTo(q, n) == [type |-> "ANSWER", request |-> q, seq |-> n]

-----------------------------------------------------------------------------
(* Sending                                                                 *)

\* WebSocket.send on the current socket, in socket states st: it throws while
\* that is connecting, and swallows what it is given once that is closing.  A
\* server's end that is gone reads nothing.
CanSend(st) == current # None /\ st[current] # "connecting"

Transmit(st, frame, ends) ==
    /\ upstream' = IF st[current] = "open" /\ ends[current] # "gone"
                   THEN [upstream EXCEPT ![current] = Append(@, frame)]
                   ELSE upstream
    /\ seq' = IF seq < SeqCap THEN seq + 1 ELSE seq

\* Slip: the number is counted before the waiter is entered under it.
SendPayloadCountsFirst(r) ==
    /\ ready \/ EagerRequests
    /\ r \notin sent
    /\ seq < SeqCap
    /\ CanSend(sock)
    /\ Transmit(sock, r, conn)
    /\ waiters' = Put(waiters, seq + 1, r)
    /\ expiries' = expiries \cup {<<r, seq + 1>>}
    /\ sent' = sent \cup {r}
    /\ UNCHANGED <<sock, current, version, timers, ready, appClosed, got, downstream, conn, counted>>

\* Handlers and their tabs send from HELLO until the connection closes.
SendPayload(r) ==
    /\ ready \/ EagerRequests
    /\ r \notin sent
    /\ seq < SeqCap
    /\ CanSend(sock)
    /\ Transmit(sock, r, conn)
    /\ waiters' = Put(waiters, seq, r)
    /\ expiries' = expiries \cup {<<r, seq>>}
    /\ sent' = sent \cup {r}
    /\ UNCHANGED <<sock, current, version, timers, ready, appClosed, got, downstream, conn, counted>>

\* Five seconds without an answer.
WaiterExpires(r, n) ==
    /\ <<r, n>> \in expiries
    /\ waiters' = Erase(waiters, n)
    /\ expiries' = expiries \ {<<r, n>>}
    /\ UNCHANGED <<sock, current, version, timers, ready, appClosed, seq, sent, got, wire>>

-----------------------------------------------------------------------------
(* Connecting and closing                                                  *)

TryReconnect == timers' = Append(timers, expiries)

\* Slip: only a client that had been identified connects again.
OnCloseOfSession(s) ==
    /\ sock' = [sock EXCEPT ![s] = "closed"]
    /\ IF ready THEN TryReconnect ELSE timers' = timers
    /\ ready' = FALSE
    /\ downstream' = [downstream EXCEPT ![s] = <<>>]

\* The close event of a socket.
OnClose(s) ==
    /\ sock' = [sock EXCEPT ![s] = "closed"]
    /\ TryReconnect
    /\ ready' = FALSE
    /\ downstream' = [downstream EXCEPT ![s] = <<>>]

\* A closed socket that neither end has anything to do with any more.
Fresh(s) == sock[s] = "closed" /\ conn[s] = "gone" /\ upstream[s] = <<>>

\* The reconnect interval (10 s) outlasts the timeout of waiters (5 s).
Due == timers # <<>> /\ Head(timers) \cap expiries = {}

\* The timer of tryReconnect: connect(), with whatever version there is.
Reconnect(s) ==
    /\ Due
    /\ Fresh(s)
    /\ sock' = [sock EXCEPT ![s] = "connecting"]
    /\ current' = s
    /\ timers' = Tail(timers)
    /\ UNCHANGED <<version, ready, appClosed, counting, wire>>

\* The server accepts.  onOpen identifies through the current socket, which need
\* not be the one that has opened; without a version it throws.
Open(s) ==
    LET st == [sock EXCEPT ![s] = "open"]
    IN  /\ sock[s] = "connecting"
        /\ sock' = st
        /\ conn' = [conn EXCEPT ![s] = "fresh"]
        /\ IF version /\ CanSend(st) THEN Transmit(st, Identify, conn') ELSE UNCHANGED <<upstream, seq>>
        /\ UNCHANGED <<current, version, timers, ready, appClosed, waiters, expiries, sent, got,
                       downstream, counted>>

\* The next payload for an open socket.
Arrived(s, type) ==
    sock[s] = "open" /\ downstream[s] # <<>> /\ Head(downstream[s]).type = type

\* Slip: the error event that precedes the close event reconnects as well.
BreakTwice(s) ==
    /\ sock[s] \in {"connecting", "open"}
    /\ sock' = [sock EXCEPT ![s] = "closed"]
    /\ timers' = timers \o <<expiries, expiries>>
    /\ ready' = FALSE
    /\ downstream' = [downstream EXCEPT ![s] = <<>>]
    /\ UNCHANGED <<current, version, appClosed, counting, upstream, conn, counted>>

\* The network breaks or the server is not there; the server's end may not know.
\* A refusal that has arrived closes the socket anyway.
Break(s) ==
    /\ sock[s] \in {"connecting", "open"}
    /\ ~Arrived(s, "CLOSE")
    /\ OnClose(s)
    /\ UNCHANGED <<current, version, appClosed, counting, upstream, conn, counted>>

\* Bound of the model: close() is called when nothing but the current connection
\* is there.
Closable ==
    /\ current # None /\ timers = <<>>
    /\ sock[current] \in {"connecting", "open"}
    /\ \A s \in Socket \ {current} : sock[s] = "closed"

\* close() with reconnect: a timer now, and the close event will start another.
CloseAndReconnect ==
    /\ Closable
    /\ sock' = [sock EXCEPT ![current] = "closing"]
    /\ TryReconnect
    /\ appClosed' = "reconnect"
    /\ UNCHANGED <<current, version, ready, counting, wire>>

CloseForGood ==
    /\ Closable
    /\ sock' = [sock EXCEPT ![current] = "closing"]
    /\ current' = None
    /\ version' = FALSE
    /\ appClosed' = "for good"
    /\ UNCHANGED <<timers, ready, counting, wire>>

\* The closing handshake is over.
Closed(s) ==
    /\ sock[s] = "closing"
    /\ OnClose(s)
    /\ UNCHANGED <<current, version, appClosed, counting, upstream, conn, counted>>

-----------------------------------------------------------------------------
(* Receiving                                                               *)

Consume(s) == downstream' = [downstream EXCEPT ![s] = Tail(@)]

\* Slip: the numbers go on where they were.
ReceiveHelloOnly(s) ==
    /\ Arrived(s, "HELLO")
    /\ Consume(s)
    /\ ready' = TRUE
    /\ UNCHANGED <<sock, current, version, timers, appClosed, counting, upstream, conn, counted>>

ReceiveHello(s) ==
    /\ Arrived(s, "HELLO")
    /\ Consume(s)
    /\ seq' = 0
    /\ ready' = TRUE
    /\ UNCHANGED <<sock, current, version, timers, appClosed, waiters, expiries, sent, got,
                   upstream, conn, counted>>

ReceiveAnswer(s) ==
    /\ Arrived(s, "ANSWER")
    /\ Consume(s)
    /\ LET a == Head(downstream[s])
           r == waiters[a.seq]
       IN  IF a.seq \in DOMAIN waiters
           THEN /\ waiters' = Erase(waiters, a.seq)
                /\ expiries' = expiries \ {<<r, a.seq>>}
                /\ got' = got \cup {<<r, a.request>>}
           ELSE UNCHANGED <<waiters, expiries, got>>
    /\ UNCHANGED <<sock, current, version, timers, ready, appClosed, seq, sent, upstream, conn, counted>>

ReceiveClose(s) ==
    /\ Arrived(s, "CLOSE")
    /\ OnClose(s)
    /\ UNCHANGED <<current, version, appClosed, counting, upstream, conn, counted>>

-----------------------------------------------------------------------------
(* The server                                                              *)

Deliver(s, payload) ==
    downstream' = IF sock[s] = "open" THEN [downstream EXCEPT ![s] = Append(@, payload)] ELSE downstream

Refuse(s) ==
    /\ conn' = [conn EXCEPT ![s] = "gone"]
    /\ upstream' = [upstream EXCEPT ![s] = <<>>]
    /\ Deliver(s, Refusal)
    /\ UNCHANGED <<sock, current, version, timers, ready, appClosed, counting, counted>>

NameTaken == \E t \in Socket : conn[t] = "identified"

Acceptable(s) == upstream[s] # <<>> /\ Head(upstream[s]) = Identify /\ ~NameTaken

Identifies(s) ==
    /\ conn[s] = "fresh"
    /\ Acceptable(s)
    /\ conn' = [conn EXCEPT ![s] = "identified"]
    /\ counted' = [counted EXCEPT ![s] = 0]
    /\ upstream' = [upstream EXCEPT ![s] = Tail(@)]
    /\ Deliver(s, Hello)
    /\ UNCHANGED <<sock, current, version, timers, ready, appClosed, counting>>

\* A taken name or another first frame, or five seconds without any.
Rejects(s) ==
    /\ conn[s] = "fresh"
    /\ ~Acceptable(s)
    /\ Refuse(s)

Answers(s) ==
    /\ conn[s] = "identified"
    /\ upstream[s] # <<>>
    /\ Deliver(s, AnswerTo(Head(upstream[s]), counted[s]))
    /\ counted' = [counted EXCEPT ![s] = @ + 1]
    /\ upstream' = [upstream EXCEPT ![s] = Tail(@)]
    /\ UNCHANGED <<sock, current, version, timers, ready, appClosed, counting, conn>>

\* A closed or dead connection is found out, at the latest by the heartbeat.
FindsOut(s) ==
    /\ conn[s] # "gone"
    /\ sock[s] \in {"closing", "closed"}
    /\ conn' = [conn EXCEPT ![s] = "gone"]
    /\ upstream' = [upstream EXCEPT ![s] = <<>>]
    /\ UNCHANGED <<sock, current, version, timers, ready, appClosed, counting, downstream, counted>>

-----------------------------------------------------------------------------
Nothing == [s \in Socket |-> <<>>]

\* new Client(..) with reconnect, and the first connect().
WebInit ==
    /\ current \in Socket
    /\ sock = [s \in Socket |-> IF s = current THEN "connecting" ELSE "closed"]
    /\ version = TRUE
    /\ seq = -1
    /\ waiters = EmptyMap /\ expiries = {} /\ sent = {} /\ got = {}
    /\ timers = <<>> /\ ready = FALSE /\ appClosed = "no"
    /\ upstream = Nothing /\ downstream = Nothing
    /\ conn = [s \in Socket |-> "gone"]
    /\ counted = [s \in Socket |-> 0]

Browser(s) ==
    \/ Reconnect(s) \/ Open(s) \/ Closed(s)
    \/ ReceiveHello(s) \/ ReceiveAnswer(s) \/ ReceiveClose(s)

Server(s) == Identifies(s) \/ Rejects(s) \/ Answers(s) \/ FindsOut(s)

WebNext ==
    \/ \E s \in Socket : Browser(s) \/ Server(s) \/ Break(s)
    \/ \E r \in Request : SendPayload(r) \/ \E n \in -1 .. SeqCap : WaiterExpires(r, n)
    \/ CloseAndReconnect
    \/ CloseForGood

WebSpec == WebInit /\ [][WebNext]_webVars

\* Browser and server go on working and their timers fire; networks and users
\* owe nothing.  Of two attempts to connect the later one is not the slower one
\* for ever.
WebFairness ==
    /\ \A s \in Socket : /\ WF_webVars(Open(s) \/ Closed(s)) /\ WF_webVars(Server(s))
                         /\ SF_webVars(Open(s) /\ current = s)
                         /\ WF_webVars(ReceiveHello(s) \/ ReceiveAnswer(s) \/ ReceiveClose(s))
    /\ WF_webVars(\E s \in Socket : Reconnect(s))
    /\ WF_webVars(\E r \in Request, n \in -1 .. SeqCap : WaiterExpires(r, n))

FairWebSpec == WebSpec /\ WebFairness

-----------------------------------------------------------------------------
(* Properties                                                              *)

\* A callback gets the server's answer to the very payload it was passed with,
\* never another one's, over lost connections and late answers.  close() with
\* reconnect ends this too: two sockets then identify through the later one.
CallbackGetsItsAnswer == appClosed = "no" => \A p \in got : p[1] = p[2]

\* Both ends agree on the number of the next text: what the client has counted
\* is what the server has counted and what is still on its way.  With close() the
\* next socket may be open before the last one's HELLO is forgotten.
NumbersAgree ==
    appClosed = "no" /\ ready /\ sock[current] = "open" =>
        seq = counted[current] + Len(upstream[current])

\* There is one connection at a time: a new one is tried only when the one
\* before is closed, and no timer is pending meanwhile.  A call of close() ends
\* this, since it starts a timer of its own or leaves the socket behind.
OneSocket ==
    appClosed = "no" =>
        /\ Cardinality({s \in Socket : sock[s] # "closed"}) + Len(timers) = 1
        /\ \A s \in Socket : sock[s] # "closed" => s = current

Disturbed == CloseAndReconnect \/ CloseForGood \/ \E s \in Socket : Break(s)

\* Once networks hold, and unless the application calls close(), the client is
\* identified, again and again or for good: the name that its dead connection
\* still has is free in the end.  mod.ts on reconnectInterval: "This dictates the
\* delay in which the client attempts to reconnect after a disconnection."
ComesBack == <>[][~Disturbed]_webVars => []<>ready \/ <>(appClosed # "no")
=============================================================================
