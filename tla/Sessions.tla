------------------------------ MODULE Sessions ------------------------------
(***************************************************************************)
(* The WebSocket connections (src/ws.rs) in front of the Concierge actor.  *)
(* Every connection is an actor of its own, on one of the server's worker  *)
(* threads; all of them feed the concierge's single mailbox, which it      *)
(* empties in order, one whole handler at a time.                          *)
(*                                                                         *)
(* What a text frame asks is chosen when the concierge handles it: nothing *)
(* looks at it before.  Time is abstracted to the order in which timers    *)
(* fire and messages arrive.                                               *)
(***************************************************************************)
EXTENDS Concierge

CONSTANTS
    Conn,          \* connections accepted during the run
    Nil,           \* Uuid::nil
    Versions,      \* kinds of version strings that peers send in IDENTIFY
    TextBound      \* bound of the model: text frames waiting in the mailbox

ASSUME NilAssumption == Nil \notin Uuid
ASSUME VersionsAssumption == Versions \subseteq {"compatible", "incompatible", "unparsable"}
ASSUME TextBoundAssumption == TextBound \in Nat

VARIABLES
    phase,    \* connection -> where its actor is
    ident,    \* connection -> WsConnection::uuid
    answer,   \* connection -> the concierge's answer to its IdentifyPackage
    silence,  \* connection -> heartbeat intervals since WsConnection::last_hb
    mailbox,  \* the concierge's mailbox
    running   \* FALSE once a connection's handler has panicked

sessionVars == <<phase, ident, answer, silence, mailbox, running>>
allVars == <<vars, sessionVars>>

\* CLIENT_TIMEOUT in units of HEARTBEAT_INTERVAL.
IntervalsAllowed == 10 \div 5

Pending == "pending"
Refused == "refused"

\* answer[c] is a uuid or one of these, which no uuid is.
ASSUME AnswerAssumption == {Pending, Refused} \cap Uuid = {}

IdentifyPackage(c, n) == [type |-> "IDENTIFY", conn |-> c, name |-> n]
DisconnectMsg(u) == [type |-> "DISCONNECT", uuid |-> u]
IncomingMessage(u) == [type |-> "INCOMING", uuid |-> u]

Texts == {i \in DOMAIN mailbox : mailbox[i].type = "INCOMING"}

Up == alive /\ running

-----------------------------------------------------------------------------
(* The connection actor                                                    *)

\* ctx.stop(): no frame, timer or message of the connection is handled after it.
StopIn(c) == phase' = [phase EXCEPT ![c] = "stopping"]

DoSend(msg) == mailbox' = Append(mailbox, msg)

Accept(c) ==
    /\ Up
    /\ phase[c] = "unused"
    /\ phase' = [phase EXCEPT ![c] = "open"]
    /\ UNCHANGED <<vars, ident, answer, silence, mailbox, running>>

Unidentified(c) == Up /\ phase[c] = "open" /\ ident[c] = Nil
Identified(c) == Up /\ phase[c] = "open" /\ ident[c] # Nil

\* An IDENTIFY with an acceptable name and secret: ctx.wait holds everything
\* else of the connection back until the concierge has answered.
IdentifyFrame(c, n) ==
    /\ Unidentified(c)
    /\ "compatible" \in Versions
    /\ DoSend(IdentifyPackage(c, n))
    /\ phase' = [phase EXCEPT ![c] = "waiting"]
    /\ UNCHANGED <<vars, ident, answer, silence, running>>

\* Version::parse(version).unwrap()
UnparsableVersion(c) ==
    /\ Unidentified(c)
    /\ "unparsable" \in Versions
    /\ running' = FALSE
    /\ UNCHANGED <<vars, phase, ident, answer, silence, mailbox>>

\* Any other first frame: a bad name, secret or version, another payload, no
\* payload, no text, or a protocol error.
Reject(c) ==
    /\ Unidentified(c)
    /\ StopIn(c)
    /\ UNCHANGED <<vars, ident, answer, silence, mailbox, running>>

\* Slip: the connection is told, but its actor is not stopped.
AuthTimeoutGoesOn(c) ==
    /\ Unidentified(c)
    /\ UNCHANGED allVars

\* No IDENTIFY within five seconds.
AuthTimeout(c) ==
    /\ Unidentified(c)
    /\ StopIn(c)
    /\ UNCHANGED <<vars, ident, answer, silence, mailbox, running>>

\* The then() of the IdentifyPackage request.  No timer of the connection has
\* fired since ctx.wait, however long that was.
Resolve(c) ==
    /\ Up
    /\ phase[c] = "waiting"
    /\ answer[c] # Pending
    /\ IF answer[c] = Refused
       THEN StopIn(c) /\ UNCHANGED <<ident, silence>>
       ELSE /\ phase' = [phase EXCEPT ![c] = "open"]
            /\ ident' = [ident EXCEPT ![c] = answer[c]]
            /\ \E k \in 0..IntervalsAllowed : silence' = [silence EXCEPT ![c] = k]
    /\ UNCHANGED <<vars, answer, mailbox, running>>

TextFrame(c) ==
    /\ Identified(c)
    /\ Cardinality(Texts) < TextBound
    /\ DoSend(IncomingMessage(ident[c]))
    /\ UNCHANGED <<vars, phase, ident, answer, silence, running>>

\* Slip: a ping that goes out counts as a sign of life.
PingIsLife(c) ==
    /\ Identified(c)
    /\ silence' = [silence EXCEPT ![c] = 0]
    /\ UNCHANGED <<vars, phase, ident, answer, mailbox, running>>

\* Slip: the connection is reported but goes on.
HeartbeatFailedGoesOn(c) ==
    /\ Identified(c)
    /\ DoSend(DisconnectMsg(ident[c]))
    /\ UNCHANGED <<vars, phase, ident, answer, silence, running>>

\* The timer of run_interval finds no sign of life in the last ten seconds: the
\* connection reports itself and stops, and its stopping hook will report it
\* again.  That the second interval in a row is silent may or may not be too long.
HeartbeatFailed(c) ==
    /\ Identified(c)
    /\ silence[c] + 1 >= IntervalsAllowed
    /\ DoSend(DisconnectMsg(ident[c]))
    /\ StopIn(c)
    /\ UNCHANGED <<vars, ident, answer, silence, running>>

\* The timer finds a sign of life recent enough, and sends a ping.
HeartbeatPing(c) ==
    /\ Identified(c)
    /\ silence[c] + 1 <= IntervalsAllowed
    /\ silence' = [silence EXCEPT ![c] = @ + 1]
    /\ UNCHANGED <<vars, phase, ident, answer, mailbox, running>>

Heartbeat(c) == HeartbeatFailed(c) \/ HeartbeatPing(c)

\* A Ping, which is answered, or a Pong.  Texts and binary frames are no sign of
\* life, and the latter do nothing.
SignOfLife(c) ==
    /\ Identified(c)
    /\ silence' = [silence EXCEPT ![c] = 0]
    /\ UNCHANGED <<vars, phase, ident, answer, mailbox, running>>

\* A Close or Continuation frame, or a protocol error.
PeerCloses(c) ==
    /\ Identified(c)
    /\ StopIn(c)
    /\ UNCHANGED <<vars, ident, answer, silence, mailbox, running>>

\* The TCP connection breaks: the server drops the actor, whatever it awaits.
PeerVanishes(c) ==
    /\ Up
    /\ phase[c] \in {"open", "waiting"}
    /\ StopIn(c)
    /\ UNCHANGED <<vars, ident, answer, silence, mailbox, running>>

\* Slip: the stopping hook reports nothing.
StoppingSilently(c) ==
    /\ Up
    /\ phase[c] = "stopping"
    /\ phase' = [phase EXCEPT ![c] = "stopped"]
    /\ UNCHANGED <<vars, ident, answer, silence, mailbox, running>>

Stopping(c) ==
    /\ Up
    /\ phase[c] = "stopping"
    /\ DoSend(DisconnectMsg(ident[c]))
    /\ phase' = [phase EXCEPT ![c] = "stopped"]
    /\ UNCHANGED <<vars, ident, answer, silence, running>>

-----------------------------------------------------------------------------
(* The concierge takes the next message                                    *)

Take(type) ==
    /\ Up
    /\ mailbox # <<>>
    /\ Head(mailbox).type = type
    /\ mailbox' = Tail(mailbox)

Abandoned(c) == phase[c] # "waiting"

\* Slip: a name that is taken leads to the uuid that has it.
HandleIdentifyAsKnown ==
    /\ Take("IDENTIFY")
    /\ LET c == Head(mailbox).conn
           n == Head(mailbox).name
       IN  /\ ~Abandoned(c)
           /\ \/ \E u \in Uuid : Identify(u, n) /\ answer' = [answer EXCEPT ![c] = u]
              \/ IdentifyDuplicate(n) /\ answer' = [answer EXCEPT ![c] = namespace[n]]
    /\ UNCHANGED <<phase, ident, silence, running>>

HandleIdentify ==
    /\ Take("IDENTIFY")
    /\ LET c == Head(mailbox).conn
           n == Head(mailbox).name
       IN  /\ ~Abandoned(c)
           /\ \/ \E u \in Uuid : Identify(u, n) /\ answer' = [answer EXCEPT ![c] = u]
              \/ IdentifyDuplicate(n) /\ answer' = [answer EXCEPT ![c] = Refused]
    /\ UNCHANGED <<phase, ident, silence, running>>

\* actix skips a request whose sender has dropped the future of its result.
SkipIdentify ==
    /\ Take("IDENTIFY")
    /\ Abandoned(Head(mailbox).conn)
    /\ UNCHANGED <<vars, phase, ident, answer, silence, running>>

HandleDisconnect ==
    /\ Take("DISCONNECT")
    /\ LET u == Head(mailbox).uuid
       IN  Disconnect(u) \/ (u \notin DOMAIN clients /\ DisconnectUnknown)
    /\ UNCHANGED <<phase, ident, answer, silence, running>>

HandleIncoming ==
    /\ Take("INCOMING")
    /\ LET u == Head(mailbox).uuid
       IN  SendMessage(u) \/ ChangeRegistry(u) \/ AskRegistry(u) \/ UnknownSender(u)
    /\ UNCHANGED <<phase, ident, answer, silence, running>>

Handle == HandleIdentify \/ SkipIdentify \/ HandleDisconnect \/ HandleIncoming

-----------------------------------------------------------------------------
SessionsInit ==
    /\ Init
    /\ phase = [c \in Conn |-> "unused"]
    /\ ident = [c \in Conn |-> Nil]
    /\ answer = [c \in Conn |-> Pending]
    /\ silence = [c \in Conn |-> 0]
    /\ mailbox = <<>>
    /\ running = TRUE

Serve(c) ==
    \/ Accept(c)
    \/ \E n \in Name : IdentifyFrame(c, n)
    \/ UnparsableVersion(c)
    \/ Reject(c)
    \/ AuthTimeout(c)
    \/ Resolve(c)
    \/ TextFrame(c)
    \/ Heartbeat(c)
    \/ SignOfLife(c)
    \/ PeerCloses(c)
    \/ PeerVanishes(c)
    \/ Stopping(c)

SessionsNext == Handle \/ \E c \in Conn : Serve(c)

SessionsSpec == SessionsInit /\ [][SessionsNext]_allVars

\* actix polls every actor that has work: the concierge empties its mailbox, an
\* answer is delivered, a stopping hook runs and both timers fire.
\* Nothing makes a peer send, answer pings or go away.
SessionsFairness ==
    /\ WF_allVars(Handle)
    /\ \A c \in Conn : /\ WF_allVars(Resolve(c))
                       /\ WF_allVars(Stopping(c))
                       /\ WF_allVars(AuthTimeout(c))
                       /\ WF_allVars(Heartbeat(c))

FairSessionsSpec == SessionsSpec /\ SessionsFairness

-----------------------------------------------------------------------------
(* Properties                                                              *)

\* The unwrap at the head of Handler<IncomingMessage> never fails: no text of a
\* client is still in the mailbox when its departure has been handled, however
\* timers, closing frames and broken connections interleave.
NoPanic == alive

\* Two connections never act for the same client.
OneConnectionPerClient ==
    \A c, d \in Conn : ident[c] # Nil /\ ident[c] = ident[d] => c = d

\* Every registered client has a connection that still serves it or is about to
\* learn of it, or its departure is on its way, or the answer to its IDENTIFY
\* came to a connection that was gone: that is the only way to lose a client.
Accounted ==
    \A u \in DOMAIN clients :
        \/ \E c \in Conn : phase[c] \in {"open", "stopping"} /\ ident[c] = u
        \/ \E c \in Conn : answer[c] = u /\ ident[c] = Nil
        \/ \E i \in DOMAIN mailbox : mailbox[i] = DisconnectMsg(u)

\* A connection that has gone takes its client with it, and frees its name, while
\* the process lives.
GoneIsForgotten ==
    \A c \in Conn : (phase[c] = "stopped" /\ ident[c] # Nil)
                        ~> (ident[c] \notin DOMAIN clients \/ ~running)

\* Nobody stays between connected and identified: a connection either becomes
\* identified or stops.
IdentificationEnds ==
    \A c \in Conn : (phase[c] \in {"open", "waiting"} /\ ident[c] = Nil)
                        ~> (ident[c] # Nil \/ phase[c] = "stopped" \/ ~running)

\* The connection of a peer that sends no ping and no pong any more stops, while
\* the process lives, whatever else the peer sends: texts do not keep it alive.
SilentIsDropped ==
    \A c \in Conn :
        <>[][~SignOfLife(c)]_allVars
            => (phase[c] = "open" ~> (phase[c] = "stopped" \/ ~running))

\* payload.rs has CLIENT_LEFT "broadcasted whenever a client leaves": a client is
\* registered only while a connection has it or its departure is on its way.
NoGhost ==
    \A u \in DOMAIN clients :
        \/ \E c \in Conn : phase[c] \in {"open", "stopping"} /\ ident[c] = u
        \/ \E c \in Conn : phase[c] = "waiting" /\ answer[c] = u
        \/ \E i \in DOMAIN mailbox : mailbox[i] = DisconnectMsg(u)
=============================================================================
