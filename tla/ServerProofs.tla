---------------------------- MODULE ServerProofs ----------------------------
(***************************************************************************)
(* Proofs about what stands in front of the Concierge actor and beside it: *)
(* the connections with their mailbox, whatever the peers send and however *)
(* frames, timers and the mailbox interleave; and the file routes, where a *)
(* departure deletes a folder file by file while uploads go on.  For every *)
(* set of connections, requests, files, uuids, names and services.         *)
(***************************************************************************)
EXTENDS Sessions, FileStore, ConciergeProofs

(***************************************************************************)
(* The connections                                                         *)
(***************************************************************************)

-----------------------------------------------------------------------------
(* The mailbox                                                             *)

Msg == [type : {"IDENTIFY"}, conn : Conn, name : Name]
       \cup [type : {"DISCONNECT"}, uuid : Uuid \cup {Nil}]
       \cup [type : {"INCOMING"}, uuid : Uuid]

\* The messages that connections send are messages of the mailbox.
LEMMA MsgMade ==
    /\ \A c \in Conn, n \in Name : /\ IdentifyPackage(c, n) \in Msg
                                   /\ IdentifyPackage(c, n).type = "IDENTIFY"
                                   /\ IdentifyPackage(c, n).conn = c
    /\ \A u \in Uuid \cup {Nil} : /\ DisconnectMsg(u) \in Msg
                                  /\ DisconnectMsg(u).type = "DISCONNECT"
                                  /\ DisconnectMsg(u).uuid = u
    /\ \A u \in Uuid : /\ IncomingMessage(u) \in Msg
                       /\ IncomingMessage(u).type = "INCOMING"
                       /\ IncomingMessage(u).uuid = u
BY DEF Msg, IdentifyPackage, DisconnectMsg, IncomingMessage

\* What the type of a message says of its fields.
LEMMA MsgFields ==
    ASSUME NEW m \in Msg
    PROVE  /\ m.type = "IDENTIFY" => m.conn \in Conn /\ m.name \in Name
           /\ m.type = "DISCONNECT" => m.uuid \in Uuid \cup {Nil} /\ m = DisconnectMsg(m.uuid)
           /\ m.type = "INCOMING" => m.uuid \in Uuid
BY DEF Msg, DisconnectMsg

\* A message sent is the last one, and the others stay where they are.
LEMMA SendAppends ==
    ASSUME mailbox \in Seq(Msg), NEW m \in Msg, DoSend(m)
    PROVE  /\ mailbox' \in Seq(Msg)
           /\ \A i \in DOMAIN mailbox : i \in DOMAIN mailbox' /\ mailbox'[i] = mailbox[i]
           /\ \E k \in DOMAIN mailbox' :
                /\ mailbox'[k] = m
                /\ \A i \in DOMAIN mailbox : i < k
                /\ \A i \in DOMAIN mailbox' : i \in DOMAIN mailbox \/ i = k
<1>1. /\ mailbox' \in Seq(Msg)
      /\ Len(mailbox') = Len(mailbox) + 1
      /\ \A i \in 1 .. Len(mailbox) : mailbox'[i] = mailbox[i]
      /\ mailbox'[Len(mailbox) + 1] = m
    BY AppendProperties DEF DoSend
<1>2. Len(mailbox) \in Nat /\ DOMAIN mailbox = 1 .. Len(mailbox)
    BY LenProperties
<1>3. DOMAIN mailbox' = 1 .. Len(mailbox) + 1
    BY <1>1, LenProperties
<1> DEFINE k == Len(mailbox) + 1
<1>4. /\ k \in DOMAIN mailbox'
      /\ mailbox'[k] = m
      /\ \A i \in DOMAIN mailbox : i < k
      /\ \A i \in DOMAIN mailbox' : i \in DOMAIN mailbox \/ i = k
    BY <1>1, <1>2, <1>3
<1>5. \A i \in DOMAIN mailbox : i \in DOMAIN mailbox' /\ mailbox'[i] = mailbox[i]
    BY <1>1, <1>2, <1>3
<1> HIDE DEF k
<1> QED
    BY <1>1, <1>4, <1>5

\* Taking the head moves every other message one place forward.
LEMMA TakeShifts ==
    ASSUME mailbox \in Seq(Msg), NEW type, Take(type)
    PROVE  /\ mailbox' \in Seq(Msg)
           /\ 1 \in DOMAIN mailbox /\ mailbox[1] = Head(mailbox)
           /\ Head(mailbox) \in Msg /\ Head(mailbox).type = type
           /\ \A i \in DOMAIN mailbox : i \in Int /\ 1 <= i
           /\ \A i \in DOMAIN mailbox' :
                i + 1 \in DOMAIN mailbox /\ mailbox'[i] = mailbox[i + 1] /\ i + 1 # 1
           /\ \A i \in DOMAIN mailbox :
                i # 1 => i - 1 \in DOMAIN mailbox' /\ mailbox'[i - 1] = mailbox[i]
<1>1. /\ Head(mailbox) \in Msg
      /\ mailbox' \in Seq(Msg)
      /\ Len(mailbox') = Len(mailbox) - 1
      /\ \A i \in 1 .. Len(mailbox') : mailbox'[i] = mailbox[i + 1]
    BY HeadTailProperties DEF Take
<1>2. Len(mailbox) \in Nat \ {0} /\ DOMAIN mailbox = 1 .. Len(mailbox)
    BY LenProperties, EmptySeq DEF Take
<1>3. DOMAIN mailbox' = 1 .. Len(mailbox) - 1
    BY <1>1, LenProperties
<1>4. Head(mailbox) = mailbox[1]
    OBVIOUS
<1> QED
    BY <1>1, <1>2, <1>3, <1>4 DEF Take

-----------------------------------------------------------------------------
(* The inductive invariant                                                 *)

Phases == {"unused", "open", "waiting", "stopping", "stopped"}

SessionsTyped ==
    /\ phase \in [Conn -> Phases]
    /\ ident \in [Conn -> Uuid \cup {Nil}]
    /\ answer \in [Conn -> Uuid \cup {Pending, Refused}]
    /\ mailbox \in Seq(Msg)

\* How far a connection is and what it has been answered.
Answered ==
    \A c \in Conn :
        /\ answer[c] \in Uuid => answer[c] \in issued
        /\ ident[c] # Nil => ident[c] = answer[c]
        /\ phase[c] \in {"unused", "waiting"} => ident[c] = Nil
        /\ phase[c] \in {"unused", "open"} /\ ident[c] = Nil => answer[c] = Pending
        /\ phase[c] \in {"open", "waiting"} /\ answer[c] \in Uuid => answer[c] \in DOMAIN clients

\* No uuid is the answer to two connections.
AnswersDiffer ==
    \A c, d \in Conn : answer[c] \in Uuid /\ answer[c] = answer[d] => c = d

\* The sender of a text is registered, and no departure of it is queued before the text.
TextsFirst ==
    \A i \in DOMAIN mailbox : mailbox[i].type = "INCOMING" =>
        /\ mailbox[i].uuid \in DOMAIN clients
        /\ \A j \in DOMAIN mailbox :
                mailbox[j].type = "DISCONNECT" /\ mailbox[j].uuid = mailbox[i].uuid => i < j

\* A departure comes from a connection that does nothing any more.
DeparturesFinal ==
    \A i \in DOMAIN mailbox : mailbox[i].type = "DISCONNECT" /\ mailbox[i].uuid \in Uuid =>
        /\ mailbox[i].uuid \in issued
        /\ \A c \in Conn : answer[c] = mailbox[i].uuid => phase[c] \in {"stopping", "stopped"}

\* A connection asks for an identity once.
AsksOnce ==
    \A i \in DOMAIN mailbox : mailbox[i].type = "IDENTIFY" =>
        LET c == mailbox[i].conn
        IN  /\ phase[c] \in {"waiting", "stopping", "stopped"}
            /\ phase[c] = "waiting" => answer[c] = Pending
            /\ \A j \in DOMAIN mailbox :
                    mailbox[j].type = "IDENTIFY" /\ mailbox[j].conn = c => j = i

\* All of it, with the concierge's own invariant.  Where sums are checked a client
\* may stop the server by numbering its requests; nothing else may.
SInv ==
    /\ IInv /\ SessionsTyped
    /\ Answered /\ AnswersDiffer
    /\ TextsFirst /\ DeparturesFinal /\ AsksOnce
    /\ ~OverflowChecks => alive

LEMMA SessionsInitSInv == SessionsInit => SInv
<1> SUFFICES ASSUME SessionsInit PROVE SInv
    OBVIOUS
<1>1. IInv /\ alive
    BY InitIInv DEF SessionsInit, Init
<1>2. mailbox = <<>> /\ mailbox \in Seq(Msg) /\ DOMAIN mailbox = {}
    BY EmptySeq, LenProperties DEF SessionsInit
<1>3. SessionsTyped
    BY <1>2 DEF SessionsInit, SessionsTyped, Phases
<1>4. Answered /\ AnswersDiffer
    BY AnswerAssumption DEF SessionsInit, Answered, AnswersDiffer
<1>5. TextsFirst /\ DeparturesFinal /\ AsksOnce
    BY <1>2 DEF TextsFirst, DeparturesFinal, AsksOnce
<1> QED
    BY <1>1, <1>3, <1>4, <1>5 DEF SInv

-----------------------------------------------------------------------------
(* What the concierge does with a request                                  *)

\* A request leaves the clients registered, and only an overflow can end it badly.
LEMMA RequestEffect ==
    ASSUME IInv, NEW u \in Uuid, SendMessage(u) \/ ChangeRegistry(u) \/ AskRegistry(u)
    PROVE  /\ DOMAIN clients' = DOMAIN clients
           /\ issued' = issued
           /\ ~OverflowChecks => alive' = alive
<1>1. \A cs : Advance(u, cs) => /\ DOMAIN clients' = DOMAIN cs
                                /\ ~OverflowChecks => alive' = alive
    BY DEF Advance
<1>2. \A mail : Answer(u, mail) => issued' = issued /\ Advance(u, clients)
    BY DEF Answer
<1>3. CASE SendMessage(u)
    BY <1>1, <1>2, <1>3 DEF SendMessage, MessageToName, MessageToUuid, MessageToService,
        MessageToServiceClient, MessageToAll
<1>4. CASE AskRegistry(u)
    BY <1>1, <1>2, <1>4 DEF AskRegistry, NoSuchService, ServiceFetch, ServiceFetchAll,
        ClientFetchAll, SelfFetch, ClientFetch, Unsupported, Malformed
<1>5. CASE ChangeRegistry(u)
    <2>1. \E cs : Advance(u, cs) /\ DOMAIN cs = DOMAIN clients /\ issued' = issued
        BY <1>5 DEF ChangeRegistry, SelfSubscribe, SelfUnsubscribe, SelfSetSeq,
            ServiceCreate, ServiceDelete, Subscribing, Unsubscribing
    <2> QED
        BY <1>1, <2>1
<1> QED
    BY <1>3, <1>4, <1>5

\* Every step of the connections and the concierge together is one that the
\* concierge may take with an arbitrary environment.
LEMMA StepServed ==
    ASSUME SInv, SessionsNext
    PROVE  [Next]_vars
<1>1. CASE HandleIdentify
    <2>1. Head(mailbox).name \in Name
        BY <1>1, TakeShifts, MsgFields DEF HandleIdentify, SInv, SessionsTyped
    <2> QED
        BY <1>1, <2>1 DEF HandleIdentify, Next, Membership
<1>2. CASE SkipIdentify
    BY <1>2 DEF SkipIdentify
<1>3. CASE HandleDisconnect
    <2>1. DOMAIN clients \subseteq Uuid
        BY DEF SInv, IInv, Typed, IsMap
    <2>2. \A u : Disconnect(u) => u \in DOMAIN clients
        BY DEF Disconnect
    <2> QED
        BY <1>3, <2>1, <2>2 DEF HandleDisconnect, Next, Membership
<1>4. CASE HandleIncoming
    <2>1. Head(mailbox).uuid \in Uuid
        BY <1>4, TakeShifts, MsgFields DEF HandleIncoming, SInv, SessionsTyped
    <2> QED
        BY <1>4, <2>1 DEF HandleIncoming, Next
<1>5. ASSUME NEW c \in Conn, Serve(c) PROVE UNCHANGED vars
    BY <1>5 DEF Serve, Accept, IdentifyFrame, UnparsableVersion, Reject, AuthTimeout, Resolve,
        TextFrame, Heartbeat, HeartbeatFailed, HeartbeatPing, SignOfLife, PeerCloses,
        PeerVanishes, Stopping
<1> QED
    BY <1>1, <1>2, <1>3, <1>4, <1>5 DEF SessionsNext, Handle

-----------------------------------------------------------------------------
(* Steps of a connection                                                   *)

\* The actor goes on, stops or learns of its answer, and sends nothing.
LEMMA QuietStepsKeep ==
    ASSUME SInv, NEW c \in Conn, UNCHANGED <<vars, answer, mailbox>>,
           \/ ident' = ident /\ \/ phase' = phase
                                \/ phase' = [phase EXCEPT ![c] = "stopping"] /\ phase[c] # "unused"
                                \/ phase' = [phase EXCEPT ![c] = "open"] /\ phase[c] = "unused"
           \/ /\ phase' = [phase EXCEPT ![c] = "open"] /\ phase[c] = "waiting"
              /\ ident' = [ident EXCEPT ![c] = answer[c]] /\ answer[c] \in Uuid
    PROVE  SInv'
<1>1. IInv' /\ (~OverflowChecks => alive')
    <2>1. [Next]_vars
        OBVIOUS
    <2> QED
        BY <2>1, NextIInv DEF SInv, vars
<1>2. SessionsTyped'
    BY DEF SInv, SessionsTyped, Phases
<1>3. Answered' /\ AnswersDiffer'
    BY NilAssumption, AnswerAssumption
        DEF SInv, SessionsTyped, Phases, Answered, AnswersDiffer, vars
<1>4. TextsFirst'
    BY DEF SInv, TextsFirst, vars
<1>5. DeparturesFinal'
    <2>1. \A d \in Conn : answer[d] \in Uuid /\ phase[d] \in {"stopping", "stopped"}
                                => phase'[d] \in {"stopping", "stopped"}
        BY DEF SInv, SessionsTyped, Phases
    <2> QED
        BY <2>1 DEF SInv, DeparturesFinal, vars
<1>6. AsksOnce'
    <2>1. \A d \in Conn : /\ phase'[d] = "waiting" => phase[d] = "waiting"
                          /\ phase[d] \in {"waiting", "stopping", "stopped"} =>
                                \/ phase'[d] \in {"waiting", "stopping", "stopped"}
                                \/ phase[d] = "waiting" /\ answer[d] # Pending
        BY AnswerAssumption DEF SInv, SessionsTyped, Phases
    <2>2. \A i \in DOMAIN mailbox : mailbox[i].type = "IDENTIFY" => mailbox[i].conn \in Conn
        BY MsgFields, ElementOfSeq, LenProperties DEF SInv, SessionsTyped
    <2> QED
        BY <2>1, <2>2 DEF SInv, AsksOnce
<1> QED
    BY <1>1, <1>2, <1>3, <1>4, <1>5, <1>6 DEF SInv

\* The connection asks the concierge for an identity.
LEMMA IdentifyFrameKeeps ==
    ASSUME SInv, NEW c \in Conn, NEW n \in Name, IdentifyFrame(c, n)
    PROVE  SInv'
<1>1. /\ phase[c] = "open" /\ ident[c] = Nil /\ answer[c] = Pending
      /\ phase' = [phase EXCEPT ![c] = "waiting"]
      /\ DoSend(IdentifyPackage(c, n))
      /\ UNCHANGED <<vars, ident, answer>>
    BY DEF IdentifyFrame, Unidentified, SInv, Answered
<1>2. IInv' /\ (~OverflowChecks => alive')
    BY <1>1, NextIInv DEF SInv, vars
<1>3. /\ SessionsTyped /\ mailbox \in Seq(Msg)
      /\ IdentifyPackage(c, n) \in Msg
      /\ IdentifyPackage(c, n).type = "IDENTIFY"
      /\ IdentifyPackage(c, n).conn = c
    BY MsgMade DEF SInv, SessionsTyped
<1>4. PICK k \in DOMAIN mailbox' :
        /\ mailbox' \in Seq(Msg)
        /\ \A i \in DOMAIN mailbox : i \in DOMAIN mailbox' /\ mailbox'[i] = mailbox[i]
        /\ mailbox'[k] = IdentifyPackage(c, n)
        /\ \A i \in DOMAIN mailbox : i < k
        /\ \A i \in DOMAIN mailbox' : i \in DOMAIN mailbox \/ i = k
    BY <1>1, <1>3, SendAppends
<1>5. SessionsTyped'
    BY <1>1, <1>4 DEF SInv, SessionsTyped, Phases
<1>6. Answered' /\ AnswersDiffer'
    BY <1>1, AnswerAssumption DEF SInv, SessionsTyped, Phases, Answered, AnswersDiffer, vars
<1>7. TextsFirst'
    BY <1>1, <1>3, <1>4 DEF SInv, TextsFirst, vars
<1>8. DeparturesFinal'
    <2>1. \A d \in Conn : phase[d] \in {"stopping", "stopped"} => phase'[d] = phase[d]
        BY <1>1, <1>3 DEF SessionsTyped
    <2>2. DeparturesFinal
        BY DEF SInv
    <2> QED
        BY <1>1, <1>3, <1>4, <2>1, <2>2 DEF DeparturesFinal, vars
<1>9. AsksOnce'
    <2>1. \A i \in DOMAIN mailbox : mailbox[i].type = "IDENTIFY" =>
                mailbox[i].conn \in Conn /\ mailbox[i].conn # c
        BY <1>1, <1>3, MsgFields, ElementOfSeq, LenProperties DEF SInv, AsksOnce
    <2>2. phase'[c] = "waiting" /\ \A d \in Conn : d # c => phase'[d] = phase[d]
        BY <1>1, <1>3 DEF SessionsTyped
    <2>3. AsksOnce
        BY DEF SInv
    <2> QED
        BY <1>1, <1>3, <1>4, <2>1, <2>2, <2>3 DEF AsksOnce
<1> QED
    BY <1>2, <1>5, <1>6, <1>7, <1>8, <1>9 DEF SInv

\* A text of an identified connection: nothing reports its departure yet.
LEMMA TextFrameKeeps ==
    ASSUME SInv, NEW c \in Conn, TextFrame(c)
    PROVE  SInv'
<1>1. /\ phase[c] = "open" /\ ident[c] # Nil
      /\ DoSend(IncomingMessage(ident[c]))
      /\ UNCHANGED <<vars, phase, ident, answer>>
    BY DEF TextFrame, Identified
<1>2. IInv' /\ (~OverflowChecks => alive')
    BY <1>1, NextIInv DEF SInv, vars
<1>3. SessionsTyped /\ mailbox \in Seq(Msg)
    BY DEF SInv, SessionsTyped
<1>4. ident[c] = answer[c] /\ ident[c] \in Uuid /\ ident[c] \in DOMAIN clients
    BY <1>1, <1>3 DEF SInv, SessionsTyped, Answered
<1>5. /\ IncomingMessage(ident[c]) \in Msg
      /\ IncomingMessage(ident[c]).type = "INCOMING"
      /\ IncomingMessage(ident[c]).uuid = ident[c]
    BY <1>4, MsgMade
<1>6. PICK k \in DOMAIN mailbox' :
        /\ mailbox' \in Seq(Msg)
        /\ \A i \in DOMAIN mailbox : i \in DOMAIN mailbox' /\ mailbox'[i] = mailbox[i]
        /\ mailbox'[k] = IncomingMessage(ident[c])
        /\ \A i \in DOMAIN mailbox : i < k
        /\ \A i \in DOMAIN mailbox' : i \in DOMAIN mailbox \/ i = k
    BY <1>1, <1>3, <1>5, SendAppends
<1>7. SessionsTyped'
    BY <1>1, <1>3, <1>6 DEF SessionsTyped
<1>8. Answered' /\ AnswersDiffer'
    BY <1>1 DEF SInv, Answered, AnswersDiffer, vars
<1>9. TextsFirst'
    <2>1. \A j \in DOMAIN mailbox :
            ~(mailbox[j].type = "DISCONNECT" /\ mailbox[j].uuid = ident[c])
        BY <1>1, <1>4 DEF SInv, DeparturesFinal
    <2>2. TextsFirst
        BY DEF SInv
    <2>3. clients' = clients
        BY <1>1 DEF vars
    <2>4. \A j \in DOMAIN mailbox' :
            mailbox'[j].type = "DISCONNECT" =>
                /\ j \in DOMAIN mailbox /\ mailbox'[j] = mailbox[j]
                /\ mailbox'[j].uuid # ident[c]
        BY <1>5, <1>6, <2>1
    <2> QED
        BY <1>4, <1>5, <1>6, <2>2, <2>3, <2>4 DEF TextsFirst
<1>10. DeparturesFinal'
    BY <1>1, <1>5, <1>6 DEF SInv, DeparturesFinal, vars
<1>11. AsksOnce'
    BY <1>1, <1>5, <1>6 DEF SInv, AsksOnce
<1> QED
    BY <1>2, <1>7, <1>8, <1>9, <1>10, <1>11 DEF SInv

\* A connection that reports its departure, from the timer or from the hook, does
\* nothing else from then on.
LEMMA DepartureKeeps ==
    ASSUME SInv, NEW c \in Conn, DoSend(DisconnectMsg(ident[c])),
           \/ phase[c] = "open" /\ ident[c] # Nil /\ phase' = [phase EXCEPT ![c] = "stopping"]
           \/ phase[c] = "stopping" /\ phase' = [phase EXCEPT ![c] = "stopped"],
           UNCHANGED <<vars, ident, answer>>
    PROVE  SInv'
<1>1. IInv' /\ (~OverflowChecks => alive')
    BY NextIInv DEF SInv, vars
<1>2. SessionsTyped /\ mailbox \in Seq(Msg)
    BY DEF SInv, SessionsTyped
<1>3. ident[c] \in Uuid \cup {Nil}
    BY <1>2 DEF SessionsTyped
<1>4. /\ DisconnectMsg(ident[c]) \in Msg
      /\ DisconnectMsg(ident[c]).type = "DISCONNECT"
      /\ DisconnectMsg(ident[c]).uuid = ident[c]
    BY <1>3, MsgMade
<1>5. PICK k \in DOMAIN mailbox' :
        /\ mailbox' \in Seq(Msg)
        /\ \A i \in DOMAIN mailbox : i \in DOMAIN mailbox' /\ mailbox'[i] = mailbox[i]
        /\ mailbox'[k] = DisconnectMsg(ident[c])
        /\ \A i \in DOMAIN mailbox : i < k
        /\ \A i \in DOMAIN mailbox' : i \in DOMAIN mailbox \/ i = k
    BY <1>2, <1>4, SendAppends
<1>6. /\ phase' \in [Conn -> Phases]
      /\ phase'[c] \in {"stopping", "stopped"}
      /\ \A d \in Conn : d # c => phase'[d] = phase[d]
    BY <1>2 DEF SessionsTyped, Phases
<1>7. SessionsTyped'
    BY <1>2, <1>5, <1>6 DEF SessionsTyped
<1>8. Answered' /\ AnswersDiffer'
    BY <1>6 DEF SInv, Answered, AnswersDiffer, vars
<1>9. TextsFirst'
    BY <1>4, <1>5 DEF SInv, TextsFirst, vars
<1>10. DeparturesFinal'
    <2>1. DeparturesFinal /\ Answered /\ AnswersDiffer /\ issued' = issued /\ answer' = answer
        BY DEF SInv, vars
    <2>2. \A d \in Conn : phase[d] \in {"stopping", "stopped"}
                                => phase'[d] \in {"stopping", "stopped"}
        BY <1>6
    <2>3. ident[c] \in Uuid =>
            /\ ident[c] \in issued
            /\ \A d \in Conn : answer[d] = ident[c] => d = c
        BY <2>1, NilAssumption DEF Answered, AnswersDiffer
    <2> QED
        BY <1>4, <1>5, <1>6, <2>1, <2>2, <2>3 DEF DeparturesFinal
<1>11. AsksOnce'
    <2>1. \A d \in Conn : /\ phase'[d] = "waiting" => phase[d] = "waiting"
                          /\ phase[d] \in {"waiting", "stopping", "stopped"} =>
                                phase'[d] \in {"waiting", "stopping", "stopped"}
        BY <1>6
    <2>2. \A i \in DOMAIN mailbox : mailbox[i].type = "IDENTIFY" => mailbox[i].conn \in Conn
        BY <1>2, MsgFields, ElementOfSeq, LenProperties
    <2> QED
        BY <1>4, <1>5, <2>1, <2>2 DEF SInv, AsksOnce
<1> QED
    BY <1>1, <1>7, <1>8, <1>9, <1>10, <1>11 DEF SInv

LEMMA ServeKeeps ==
    ASSUME SInv, NEW c \in Conn, Serve(c)
    PROVE  SInv'
<1>1. CASE Accept(c)
    BY <1>1, QuietStepsKeep DEF Accept
<1>2. ASSUME NEW n \in Name, IdentifyFrame(c, n) PROVE SInv'
    BY <1>2, IdentifyFrameKeeps
<1>3. CASE UnparsableVersion(c)
    BY <1>3, QuietStepsKeep DEF UnparsableVersion
<1>4. CASE Reject(c) \/ AuthTimeout(c)
    BY <1>4, QuietStepsKeep DEF Reject, AuthTimeout, Unidentified, StopIn
<1>5. CASE Resolve(c)
    <2>1. answer[c] \in Uuid \cup {Pending, Refused}
        BY DEF SInv, SessionsTyped
    <2> QED
        BY <1>5, <2>1, QuietStepsKeep DEF Resolve, StopIn
<1>6. CASE TextFrame(c)
    BY <1>6, TextFrameKeeps
<1>7. CASE HeartbeatFailed(c)
    BY <1>7, DepartureKeeps DEF HeartbeatFailed, Identified, StopIn
<1>8. CASE HeartbeatPing(c) \/ SignOfLife(c)
    BY <1>8, QuietStepsKeep DEF HeartbeatPing, SignOfLife
<1>9. CASE PeerCloses(c) \/ PeerVanishes(c)
    BY <1>9, QuietStepsKeep DEF PeerCloses, PeerVanishes, Identified, StopIn
<1>10. CASE Stopping(c)
    BY <1>10, DepartureKeeps DEF Stopping
<1> QED
    BY <1>1, <1>2, <1>3, <1>4, <1>5, <1>6, <1>7, <1>8, <1>9, <1>10 DEF Serve, Heartbeat

-----------------------------------------------------------------------------
(* Steps of the concierge                                                  *)

\* What taking a message leaves of the order of the others.
LEMMA TakeKeeps ==
    ASSUME SInv, NEW type, Take(type), UNCHANGED <<phase, ident, issued>>,
           answer' = answer, DOMAIN clients \subseteq DOMAIN clients'
    PROVE  SessionsTyped' /\ Answered' /\ AnswersDiffer' /\ TextsFirst' /\ DeparturesFinal' /\ AsksOnce'
<1>1. SessionsTyped /\ mailbox \in Seq(Msg)
    BY DEF SInv, SessionsTyped
<1>2. /\ mailbox' \in Seq(Msg)
      /\ \A i \in DOMAIN mailbox' :
            i + 1 \in DOMAIN mailbox /\ mailbox'[i] = mailbox[i + 1] /\ i \in Int
    BY <1>1, TakeShifts, LenProperties
<1>3. SessionsTyped'
    BY <1>1, <1>2 DEF SessionsTyped
<1>4. Answered' /\ AnswersDiffer'
    BY DEF SInv, Answered, AnswersDiffer
<1>5. TextsFirst'
    BY <1>2 DEF SInv, TextsFirst
<1>6. DeparturesFinal'
    BY <1>2 DEF SInv, DeparturesFinal
<1>7. AsksOnce'
    BY <1>2 DEF SInv, AsksOnce
<1> QED
    BY <1>3, <1>4, <1>5, <1>6, <1>7

\* A new client's uuid is one that no message and no other connection has.
LEMMA HandleIdentifyKeeps ==
    ASSUME SInv, HandleIdentify
    PROVE  SInv'
<1> DEFINE c == Head(mailbox).conn
           n == Head(mailbox).name
<1>1. Take("IDENTIFY") /\ UNCHANGED <<phase, ident>>
    BY DEF HandleIdentify
<1>2. SessionsTyped /\ mailbox \in Seq(Msg)
    BY DEF SInv, SessionsTyped
<1>3. /\ mailbox' \in Seq(Msg)
      /\ 1 \in DOMAIN mailbox /\ mailbox[1] = Head(mailbox)
      /\ Head(mailbox).type = "IDENTIFY" /\ Head(mailbox) \in Msg
      /\ \A i \in DOMAIN mailbox' :
            i \in Int /\ i + 1 \in DOMAIN mailbox /\ mailbox'[i] = mailbox[i + 1] /\ i + 1 # 1
    BY <1>1, <1>2, TakeShifts, LenProperties
<1>4. c \in Conn /\ n \in Name
    BY <1>3, MsgFields
<1>5. phase[c] = "waiting" /\ ident[c] = Nil /\ answer[c] = Pending
    BY <1>3, <1>4 DEF HandleIdentify, Abandoned, SInv, Answered, AsksOnce
<1>6. IInv'
    BY NextIInv, StepServed DEF SInv, SessionsNext, Handle
<1>7. \A i \in DOMAIN mailbox' : mailbox'[i].type = "IDENTIFY" => mailbox'[i].conn # c
    BY <1>3 DEF SInv, AsksOnce
<1>8. CASE IdentifyDuplicate(n) /\ answer' = [answer EXCEPT ![c] = Refused]
    <2>1. UNCHANGED <<clients, issued, alive>>
        BY <1>8 DEF IdentifyDuplicate
    <2>2. SessionsTyped'
        BY <1>1, <1>2, <1>3, <1>8 DEF SessionsTyped
    <2>3. Answered' /\ AnswersDiffer'
        BY <1>1, <1>2, <1>4, <1>5, <1>8, <2>1, AnswerAssumption
            DEF SInv, SessionsTyped, Answered, AnswersDiffer
    <2>4. TextsFirst'
        BY <1>3, <2>1 DEF SInv, TextsFirst
    <2>5. DeparturesFinal'
        BY <1>1, <1>2, <1>3, <1>8, <2>1, AnswerAssumption DEF SInv, SessionsTyped, DeparturesFinal
    <2>6. AsksOnce'
        <3>1. \A d \in Conn : d # c => answer'[d] = answer[d]
            BY <1>2, <1>8 DEF SessionsTyped
        <3>2. \A i \in DOMAIN mailbox' : mailbox'[i].type = "IDENTIFY" => mailbox'[i].conn \in Conn
            BY <1>3, MsgFields, ElementOfSeq, LenProperties
        <3> QED
            BY <1>1, <1>3, <1>7, <3>1, <3>2 DEF SInv, AsksOnce
    <2> QED
        BY <1>6, <2>1, <2>2, <2>3, <2>4, <2>5, <2>6 DEF SInv
<1>9. ASSUME NEW u \in Uuid, Identify(u, n), answer' = [answer EXCEPT ![c] = u]
      PROVE  SInv'
    <2>1. /\ u \notin issued /\ issued' = issued \cup {u}
          /\ alive' = alive
          /\ DOMAIN clients' = DOMAIN clients \cup {u}
        BY <1>9 DEF Identify, Put
    <2>2. SessionsTyped'
        BY <1>1, <1>2, <1>3, <1>9 DEF SessionsTyped
    <2>3. answer'[c] = u /\ \A d \in Conn : d # c => answer'[d] = answer[d]
        BY <1>2, <1>4, <1>9 DEF SessionsTyped
    <2>4. Answered'
        BY <1>1, <1>5, <2>1, <2>3 DEF SInv, Answered
    <2>5. AnswersDiffer'
        BY <2>1, <2>3 DEF SInv, Answered, AnswersDiffer
    <2>6. TextsFirst'
        BY <1>3, <2>1 DEF SInv, TextsFirst
    <2>7. DeparturesFinal'
        <3>1. \A i \in DOMAIN mailbox' :
                mailbox'[i].type = "DISCONNECT" /\ mailbox'[i].uuid \in Uuid =>
                    /\ mailbox'[i].uuid \in issued
                    /\ \A d \in Conn : answer[d] = mailbox'[i].uuid
                                            => phase[d] \in {"stopping", "stopped"}
            BY <1>3 DEF SInv, DeparturesFinal
        <3> QED
            BY <1>1, <2>1, <2>3, <3>1 DEF DeparturesFinal
    <2>8. AsksOnce'
        <3>1. \A i \in DOMAIN mailbox' : mailbox'[i].type = "IDENTIFY" => mailbox'[i].conn \in Conn
            BY <1>3, MsgFields, ElementOfSeq, LenProperties
        <3> QED
            BY <1>1, <1>3, <1>7, <2>3, <3>1 DEF SInv, AsksOnce
    <2> QED
        BY <1>6, <2>1, <2>2, <2>4, <2>5, <2>6, <2>7, <2>8 DEF SInv
<1> QED
    BY <1>8, <1>9 DEF HandleIdentify

\* Whoever is removed has nothing left in the mailbox, and nobody acts for it.
LEMMA HandleDisconnectKeeps ==
    ASSUME SInv, HandleDisconnect
    PROVE  SInv'
<1> DEFINE u == Head(mailbox).uuid
<1>1. Take("DISCONNECT") /\ UNCHANGED <<phase, ident, answer>>
    BY DEF HandleDisconnect
<1>2. SessionsTyped /\ mailbox \in Seq(Msg)
    BY DEF SInv, SessionsTyped
<1>3. IInv'
    BY NextIInv, StepServed DEF SInv, SessionsNext, Handle
<1>4. CASE DisconnectUnknown
    <2>1. UNCHANGED <<clients, issued, alive>>
        BY <1>4 DEF DisconnectUnknown
    <2> QED
        BY <1>1, <1>3, <2>1, TakeKeeps DEF SInv
<1>5. CASE Disconnect(u)
    <2>1. /\ u \in DOMAIN clients
          /\ DOMAIN clients' = DOMAIN clients \ {u}
          /\ UNCHANGED <<issued, alive>>
        BY <1>5 DEF Disconnect, Erase, Restrict
    <2>2. u \in Uuid
        BY <2>1 DEF SInv, IInv, Typed, IsMap
    <2>3. /\ mailbox' \in Seq(Msg)
          /\ 1 \in DOMAIN mailbox
          /\ mailbox[1].type = "DISCONNECT" /\ mailbox[1].uuid = u
          /\ \A i \in DOMAIN mailbox : i \in Int /\ 1 <= i
          /\ \A i \in DOMAIN mailbox' :
                i \in Int /\ i + 1 \in DOMAIN mailbox /\ mailbox'[i] = mailbox[i + 1]
        BY <1>1, <1>2, TakeShifts, LenProperties
    <2>4. SessionsTyped'
        BY <1>1, <1>2, <2>3 DEF SessionsTyped
    <2>5. Answered' /\ AnswersDiffer'
        <3>1. \A d \in Conn : answer[d] = u => phase[d] \in {"stopping", "stopped"}
            BY <2>2, <2>3 DEF SInv, DeparturesFinal
        <3> QED
            BY <1>1, <2>1, <3>1 DEF SInv, Answered, AnswersDiffer
    <2>6. TextsFirst'
        <3>1. \A i \in DOMAIN mailbox : mailbox[i].type = "INCOMING" => mailbox[i].uuid # u
            BY <2>3 DEF SInv, TextsFirst
        <3> QED
            BY <2>1, <2>3, <3>1 DEF SInv, TextsFirst
    <2>7. DeparturesFinal'
        BY <1>1, <2>1, <2>3 DEF SInv, DeparturesFinal
    <2>8. AsksOnce'
        BY <1>1, <2>3 DEF SInv, AsksOnce
    <2> QED
        BY <1>3, <2>1, <2>4, <2>5, <2>6, <2>7, <2>8 DEF SInv
<1> QED
    BY <1>4, <1>5 DEF HandleDisconnect

\* The sender of the text is still there, so its handler does not panic.
LEMMA HandleIncomingKeeps ==
    ASSUME SInv, HandleIncoming
    PROVE  SInv'
<1> DEFINE u == Head(mailbox).uuid
<1>1. Take("INCOMING") /\ UNCHANGED <<phase, ident, answer>>
    BY DEF HandleIncoming
<1>2. IInv'
    BY NextIInv, StepServed DEF SInv, SessionsNext, Handle
<1>3. u \in Uuid /\ u \in DOMAIN clients
    <2>1. /\ 1 \in DOMAIN mailbox /\ mailbox[1] = Head(mailbox)
          /\ Head(mailbox) \in Msg /\ Head(mailbox).type = "INCOMING"
        BY <1>1, TakeShifts DEF SInv, SessionsTyped
    <2> QED
        BY <2>1, MsgFields DEF SInv, TextsFirst
<1>4. SendMessage(u) \/ ChangeRegistry(u) \/ AskRegistry(u)
    BY <1>3 DEF HandleIncoming, UnknownSender
<1>5. /\ DOMAIN clients' = DOMAIN clients
      /\ issued' = issued
      /\ ~OverflowChecks => alive' = alive
    BY <1>3, <1>4, RequestEffect DEF SInv
<1> QED
    BY <1>1, <1>2, <1>5, TakeKeeps DEF SInv

LEMMA SkipIdentifyKeeps ==
    ASSUME SInv, SkipIdentify
    PROVE  SInv'
<1>1. Take("IDENTIFY") /\ UNCHANGED <<vars, phase, ident, answer>>
    BY DEF SkipIdentify
<1>2. IInv'
    BY <1>1, NextIInv DEF SInv
<1>3. UNCHANGED <<clients, issued, alive>>
    BY <1>1 DEF vars
<1> QED
    BY <1>1, <1>2, <1>3, TakeKeeps DEF SInv

LEMMA SessionsNextSInv == SInv /\ [SessionsNext]_allVars => SInv'
<1> SUFFICES ASSUME SInv, [SessionsNext]_allVars PROVE SInv'
    OBVIOUS
<1>1. CASE Handle
    BY <1>1, HandleIdentifyKeeps, HandleDisconnectKeeps, HandleIncomingKeeps, SkipIdentifyKeeps
        DEF Handle
<1>2. ASSUME NEW c \in Conn, Serve(c) PROVE SInv'
    BY <1>2, ServeKeeps
<1>3. CASE UNCHANGED allVars
    <2>1. IInv'
        BY <1>3, NextIInv DEF SInv, allVars
    <2> QED
        BY <1>3, <2>1 DEF allVars, vars, sessionVars, SInv, SessionsTyped, Answered,
            AnswersDiffer, TextsFirst, DeparturesFinal, AsksOnce
<1> QED
    BY <1>1, <1>2, <1>3 DEF SessionsNext

-----------------------------------------------------------------------------
(* The theorems                                                            *)

\* The mailbox and the connections agree with the registry in every state.
THEOREM SessionsInvariance == SessionsSpec => []SInv
BY SessionsInitSInv, SessionsNextSInv, PTL DEF SessionsSpec

\* Behind its connections the concierge behaves as it does in an arbitrary
\* environment: whatever is proved of Spec holds of the server.
THEOREM ConnectionsServed == SessionsSpec => Spec
<1>1. SessionsInit => Init
    BY DEF SessionsInit
<1>2. SInv /\ [SessionsNext]_allVars => [Next]_vars
    BY StepServed DEF allVars
<1> QED
    BY <1>1, <1>2, SessionsInvariance, PTL DEF SessionsSpec, Spec

\* However closing frames, timers and the mailbox interleave, no text is handled
\* after its sender's departure, so a build that does not check sums never panics.
THEOREM NeverPanics ==
    ASSUME ~OverflowChecks
    PROVE  SessionsSpec => []NoPanic
<1>1. SInv => NoPanic
    BY DEF SInv, NoPanic
<1> QED
    BY <1>1, SessionsInvariance, PTL

\* No two connections ever act for the same client.
THEOREM ClientsUnshared == SessionsSpec => []OneConnectionPerClient
<1>1. SInv => OneConnectionPerClient
    BY DEF SInv, SessionsTyped, Answered, AnswersDiffer, OneConnectionPerClient
<1> QED
    BY <1>1, SessionsInvariance, PTL

\* Every registered client is somebody's: a step of a connection passes it from
\* the answer to the connection, and from the connection to the mailbox.
LEMMA ServeAccounts ==
    ASSUME SInv, Accounted, NEW c \in Conn, Serve(c)
    PROVE  Accounted'
<1>1. SessionsTyped /\ mailbox \in Seq(Msg)
    BY DEF SInv, SessionsTyped
<1>2. ASSUME NEW m \in Msg, DoSend(m) \/ mailbox' = mailbox
      PROVE  \A u : (\E i \in DOMAIN mailbox : mailbox[i] = DisconnectMsg(u))
                        => \E i \in DOMAIN mailbox' : mailbox'[i] = DisconnectMsg(u)
    BY <1>1, <1>2, SendAppends
<1>3. \A d \in Conn : ident[d] # Nil => ident[d] \in Uuid
    BY <1>1 DEF SessionsTyped
<1>4. CASE \/ Accept(c) \/ UnparsableVersion(c) \/ HeartbeatPing(c) \/ SignOfLife(c)
           \/ PeerCloses(c) \/ PeerVanishes(c) \/ Reject(c) \/ AuthTimeout(c)
    <2>1. UNCHANGED <<clients, ident, answer, mailbox>>
        BY <1>4 DEF Accept, UnparsableVersion, HeartbeatPing, SignOfLife, PeerCloses,
            PeerVanishes, Reject, AuthTimeout, vars
    <2>2. \A d \in Conn : phase[d] \in {"open", "stopping"} => phase'[d] \in {"open", "stopping"}
        BY <1>1, <1>4 DEF SessionsTyped, Accept, UnparsableVersion, HeartbeatPing, SignOfLife,
            PeerCloses, PeerVanishes, Reject, AuthTimeout, StopIn
    <2> QED
        BY <2>1, <2>2 DEF Accounted
<1>5. ASSUME NEW n \in Name, IdentifyFrame(c, n) PROVE Accounted'
    <2>1. UNCHANGED <<clients, ident, answer>> /\ ident[c] = Nil
        BY <1>5 DEF IdentifyFrame, Unidentified, vars
    <2>2. \A d \in Conn : d # c => phase'[d] = phase[d]
        BY <1>1, <1>5 DEF SessionsTyped, IdentifyFrame
    <2>3. \A u : (\E i \in DOMAIN mailbox : mailbox[i] = DisconnectMsg(u))
                        => \E i \in DOMAIN mailbox' : mailbox'[i] = DisconnectMsg(u)
        BY <1>2, <1>5, MsgMade DEF IdentifyFrame
    <2>4. Nil \notin DOMAIN clients
        BY NilAssumption DEF SInv, IInv, Typed, IsMap
    <2> QED
        BY <2>1, <2>2, <2>3, <2>4 DEF Accounted
<1>6. CASE Resolve(c)
    <2>1. UNCHANGED <<clients, answer, mailbox>> /\ phase[c] = "waiting"
        BY <1>6 DEF Resolve, vars
    <2>2. ident[c] = Nil
        BY <2>1 DEF SInv, Answered
    <2>3. \A d \in Conn : d # c => phase'[d] = phase[d] /\ ident'[d] = ident[d]
        BY <1>1, <1>6 DEF SessionsTyped, Resolve, StopIn
    <2>4. answer[c] \in Uuid => phase'[c] = "open" /\ ident'[c] = answer[c]
        BY <1>1, <1>6, AnswerAssumption DEF SessionsTyped, Resolve
    <2>5. DOMAIN clients \subseteq Uuid
        BY DEF SInv, IInv, Typed, IsMap
    <2> QED
        BY <2>1, <2>2, <2>3, <2>4, <2>5, NilAssumption DEF Accounted
<1>7. CASE TextFrame(c)
    <2>1. UNCHANGED <<clients, phase, ident, answer>> /\ DoSend(IncomingMessage(ident[c]))
        BY <1>7 DEF TextFrame, vars
    <2>2. IncomingMessage(ident[c]) \in Msg
        BY <1>3, <1>7, MsgMade DEF TextFrame, Identified
    <2> QED
        BY <1>2, <2>1, <2>2 DEF Accounted
<1>8. CASE HeartbeatFailed(c) \/ Stopping(c)
    <2>1. UNCHANGED <<clients, ident, answer>> /\ DoSend(DisconnectMsg(ident[c]))
        BY <1>8 DEF HeartbeatFailed, Stopping, vars
    <2>2. DisconnectMsg(ident[c]) \in Msg
        BY <1>3, MsgMade
    <2>3. \A d \in Conn : d # c => phase'[d] = phase[d]
        BY <1>1, <1>8 DEF SessionsTyped, HeartbeatFailed, Stopping, StopIn
    <2>4. \E i \in DOMAIN mailbox' : mailbox'[i] = DisconnectMsg(ident[c])
        BY <1>1, <2>1, <2>2, SendAppends
    <2> QED
        BY <1>2, <2>1, <2>2, <2>3, <2>4 DEF Accounted
<1> QED
    BY <1>4, <1>5, <1>6, <1>7, <1>8 DEF Serve, Heartbeat

\* The concierge adds a client that its connection will learn of, and removes the
\* one whose departure it takes from the mailbox.
LEMMA HandleAccounts ==
    ASSUME SInv, Accounted, Handle
    PROVE  Accounted'
<1> DEFINE m == Head(mailbox)
<1>1. SessionsTyped /\ mailbox \in Seq(Msg)
    BY DEF SInv, SessionsTyped
<1>2. /\ \E type : Take(type)
      /\ UNCHANGED <<phase, ident>>
    BY DEF Handle, HandleIdentify, SkipIdentify, HandleDisconnect, HandleIncoming
<1>3. /\ 1 \in DOMAIN mailbox /\ mailbox[1] = m
      /\ \A i \in DOMAIN mailbox :
            i # 1 => i - 1 \in DOMAIN mailbox' /\ mailbox'[i - 1] = mailbox[i]
    BY <1>1, <1>2, TakeShifts
<1>4. \A u : /\ \E i \in DOMAIN mailbox : mailbox[i] = DisconnectMsg(u)
             /\ m # DisconnectMsg(u)
             => \E i \in DOMAIN mailbox' : mailbox'[i] = DisconnectMsg(u)
    BY <1>3
<1>5. \A u : DisconnectMsg(u).type = "DISCONNECT" /\ DisconnectMsg(u).uuid = u
    BY DEF DisconnectMsg
<1>6. CASE HandleIdentify
    <2>1. m.type = "IDENTIFY" /\ phase[m.conn] = "waiting"
        BY <1>6 DEF HandleIdentify, Take, Abandoned
    <2>2. m.conn \in Conn
        BY <1>1, <1>6, <2>1, TakeShifts, MsgFields DEF HandleIdentify
    <2>3. answer[m.conn] = Pending /\ ident[m.conn] = Nil
        BY <1>3, <2>1, <2>2 DEF SInv, AsksOnce, Answered
    <2>4. DOMAIN clients \subseteq Uuid
        BY DEF SInv, IInv, Typed, IsMap
    <2>5. \A d \in Conn : d # m.conn => answer'[d] = answer[d]
        BY <1>1, <1>6 DEF SessionsTyped, HandleIdentify
    <2>6. \/ DOMAIN clients' = DOMAIN clients
          \/ \E u \in Uuid : DOMAIN clients' = DOMAIN clients \cup {u} /\ answer'[m.conn] = u
        BY <1>1, <1>6, <2>2 DEF SessionsTyped, HandleIdentify, Identify, IdentifyDuplicate, Put
    <2>7. \A u \in DOMAIN clients :
            \/ \E d \in Conn : phase[d] \in {"open", "stopping"} /\ ident[d] = u
            \/ \E d \in Conn : answer'[d] = u /\ ident[d] = Nil
            \/ \E i \in DOMAIN mailbox' : mailbox'[i] = DisconnectMsg(u)
        BY <1>4, <1>5, <2>1, <2>3, <2>4, <2>5, AnswerAssumption DEF Accounted
    <2> QED
        BY <1>2, <2>2, <2>3, <2>6, <2>7 DEF Accounted
<1>7. CASE HandleDisconnect
    <2>1. answer' = answer /\ m.type = "DISCONNECT"
        BY <1>7 DEF HandleDisconnect, Take
    <2>2. \/ DOMAIN clients' = DOMAIN clients \ {m.uuid}
          \/ m.uuid \notin DOMAIN clients /\ DOMAIN clients' = DOMAIN clients
        BY <1>7 DEF HandleDisconnect, Disconnect, DisconnectUnknown, Erase, Restrict
    <2> QED
        BY <1>2, <1>4, <1>5, <2>1, <2>2 DEF Accounted
<1>8. CASE HandleIncoming \/ SkipIdentify
    <2>1. answer' = answer /\ m.type # "DISCONNECT"
        BY <1>8 DEF HandleIncoming, SkipIdentify, Take
    <2>2. DOMAIN clients' = DOMAIN clients
        <3>1. CASE SkipIdentify
            BY <3>1 DEF SkipIdentify, vars
        <3>2. CASE HandleIncoming
            <4>1. m.uuid \in Uuid
                BY <1>1, <3>2, TakeShifts, MsgFields DEF HandleIncoming
            <4> QED
                BY <3>2, <4>1, RequestEffect DEF HandleIncoming, UnknownSender, SInv
        <3> QED
            BY <1>8, <3>1, <3>2
    <2> QED
        BY <1>2, <1>4, <1>5, <2>1, <2>2 DEF Accounted
<1> QED
    BY <1>6, <1>7, <1>8 DEF Handle

\* No client is ever lost, but for those whose IDENTIFY was answered to a connection
\* that had gone: the connection, its answer or the mailbox still knows every one.
THEOREM NobodyLost == SessionsSpec => []Accounted
<1>1. SessionsInit => Accounted
    BY EmptyIsMap DEF SessionsInit, Init, Accounted
<1>2. SInv /\ Accounted /\ [SessionsNext]_allVars => Accounted'
    <2> SUFFICES ASSUME SInv, Accounted, [SessionsNext]_allVars PROVE Accounted'
        OBVIOUS
    <2>1. CASE UNCHANGED allVars
        BY <2>1 DEF allVars, vars, sessionVars, Accounted
    <2> QED
        BY <2>1, ServeAccounts, HandleAccounts DEF SessionsNext
<1> QED
    BY <1>1, <1>2, SessionsInvariance, PTL DEF SessionsSpec

(***************************************************************************)
(* The file store                                                          *)
(***************************************************************************)

-----------------------------------------------------------------------------
(* The inductive invariant                                                 *)

\* The variables beside the concierge's have their types.
Job == [op : Op \cup {None}, key : Uuid \cup {None}, name : Name \cup {None},
        file : File \cup {None}, at : At, opened : SUBSET File, late : BOOLEAN,
        raced : BOOLEAN]

FilesTyped ==
    /\ folders \subseteq Name
    /\ disk \in [Name -> [File -> Request \cup {None}]]
    /\ job \in [Request -> Job]
    /\ sweep \in Name \cup {None}
    /\ listed \in BOOLEAN
    /\ unswept \subseteq File

\* A handler is where its operation leads: only uploads write and only single
\* uploads make a folder or discard.  Nothing is open before there is a key, and only
\* who has removed a file can have raced a deletion.
Routed ==
    \A r \in Request :
        /\ job[r].at \in {"folder", "discarding"} => job[r].op = "POST"
        /\ job[r].at = "writing" => job[r].op \in {"POST", "POST_MULTI"}
        /\ job[r].at # "new" => /\ job[r].key \in issued
                               /\ job[r].name \in Name
                               /\ job[r].file \in Path(job[r].op)
        /\ job[r].at = "new" => job[r].opened = {}
        /\ job[r].raced => HasRemoved(r)

\* Past the check of a handler that may change the folder.
Entered(r) ==
    \/ job[r].opened # {}
    \/ job[r].op # "GET" /\ job[r].at \in {"granted", "folder", "writing", "discarding"}

\* What was checked once stays true: the folder of such a handler has the name
\* of the client behind its key, for as long as that client is there.
OwnFolder ==
    \A r \in Request :
        Entered(r) /\ job[r].key \in DOMAIN clients => clients[job[r].key].name = job[r].name

\* A file is in a folder, and belongs to a request that has begun.
FilesOpened ==
    \A n \in Name, f \in File :
        disk[n][f] # None => n \in folders /\ job[disk[n][f]].at # "new"

\* The name whose folder is being deleted is free, and what was opened again
\* behind the deletion belongs to uploads that outlived their client.  A file that
\* was found there and is gone was taken by a request that has raced the deletion.
SweptIsFree ==
    /\ sweep # None => sweep \notin DOMAIN namespace
    /\ sweep # None /\ listed =>
            \A f \in File \ unswept : disk[sweep][f] # None => job[disk[sweep][f]].late
    /\ listed => sweep # None
    /\ ~listed => unswept = {}
    /\ \A f \in unswept : disk[sweep][f] # None \/ DeletionWasRaced(sweep)

\* What an upload has opened is there for as long as its client is, or was removed.
OpenedStays ==
    \A r \in Request : job[r].key \in DOMAIN clients =>
        \A f \in job[r].opened :
            \/ Exists(job[r].name, f)
            \/ \E q \in Request : HasRemoved(q) /\ job[q].name = job[r].name /\ job[q].file = f

FilesInv ==
    /\ FilesTyped /\ Routed /\ OwnFolder /\ FilesOpened
    /\ SweptIsFree /\ OpenedStays /\ FilesAreOwners

-----------------------------------------------------------------------------
(* What a request does                                                     *)

\* A request that has removed its file stays one, whatever the others do.
LEMMA RemovedStays ==
    ASSUME FilesTyped, NEW r \in Request, NEW j \in Job, job' = [job EXCEPT ![r] = j],
           job[r].at \notin Ended
    PROVE  \A q \in Request : HasRemoved(q) => q # r /\ job'[q] = job[q] /\ HasRemoved(q)'
BY DEF FilesTyped, HasRemoved, Ended

\* So does one that has raced a deletion.
LEMMA RacedStays ==
    ASSUME FilesTyped, Routed, NEW r \in Request, NEW j \in Job,
           job' = [job EXCEPT ![r] = j], job[r].at \notin Ended
    PROVE  \A n : DeletionWasRaced(n) => DeletionWasRaced(n)'
BY RemovedStays DEF Routed, DeletionWasRaced

\* A handler that goes on to another point, and leaves the files as they are.
LEMMA MoveKeeps ==
    ASSUME FilesInv, NEW r \in Request, NEW at \in At \ {"new"}, Step(r, at),
           job[r].at \notin Ended \cup {"new"},
           UNCHANGED <<namespace, clients, issued, disk, sweeping>>,
           folders \subseteq folders', folders' \subseteq Name,
           at \in {"folder", "discarding"} => job[r].op = "POST",
           at = "writing" => job[r].op \in {"POST", "POST_MULTI"},
           Entered(r)' =>
                (job[r].key \in DOMAIN clients => clients[job[r].key].name = job[r].name)
    PROVE  FilesInv'
<1>1. /\ job \in [Request -> Job]
      /\ job' = [job EXCEPT ![r] = [job[r] EXCEPT !.at = at]]
      /\ [job[r] EXCEPT !.at = at] \in Job
    BY DEF FilesInv, FilesTyped, Step, Job
<1>2. /\ job' \in [Request -> Job]
      /\ \A q \in Request : /\ job'[q].op = job[q].op /\ job'[q].key = job[q].key
                            /\ job'[q].name = job[q].name /\ job'[q].file = job[q].file
                            /\ job'[q].opened = job[q].opened /\ job'[q].late = job[q].late
                            /\ job'[q].raced = job[q].raced
                            /\ q # r => job'[q] = job[q]
      /\ job'[r].at = at
    BY <1>1 DEF Job
<1>a. \A n : DeletionWasRaced(n) => DeletionWasRaced(n)'
    BY <1>1, RacedStays DEF FilesInv
<1>3. FilesTyped'
    BY <1>2 DEF FilesInv, FilesTyped, sweeping
<1>4. Routed'
    <2>1. ~job[r].raced
        BY DEF FilesInv, Routed, HasRemoved, Ended
    <2>2. \A q \in Request : q # r => (HasRemoved(q)' <=> HasRemoved(q))
        BY <1>2 DEF HasRemoved
    <2> QED
        BY <1>2, <2>1, <2>2 DEF FilesInv, Routed
<1>5. OwnFolder'
    <2>1. \A q \in Request : q # r => (Entered(q)' <=> Entered(q))
        BY <1>2 DEF Entered
    <2> QED
        BY <1>2, <2>1 DEF FilesInv, OwnFolder
<1>6. FilesOpened'
    BY <1>2 DEF FilesInv, FilesOpened, FilesTyped
<1>7. \A n \in Name, f \in File : disk[n][f] # None => disk[n][f] \in Request
    BY DEF FilesInv, FilesTyped
<1>8. SweptIsFree'
    BY <1>2, <1>7, <1>a DEF FilesInv, SweptIsFree, sweeping, FilesTyped
<1>9. OpenedStays'
    <2>1. \A q \in Request : HasRemoved(q) => HasRemoved(q)'
        BY <1>1, RemovedStays DEF FilesInv
    <2>2. \A n, f : Exists(n, f) => Exists(n, f)'
        BY DEF Exists
    <2> QED
        BY <1>2, <2>1, <2>2 DEF FilesInv, OpenedStays
<1>10. FilesAreOwners'
    BY <1>2, <1>7, <1>a DEF FilesInv, FilesAreOwners, sweeping, Registered
<1> QED
    BY <1>3, <1>4, <1>5, <1>6, <1>8, <1>9, <1>10 DEF FilesInv

\* Removing the file at the path of a request: whoever had opened it is then told
\* apart by the request that removed it.
LEMMA UnlinkKeeps ==
    ASSUME FilesInv, NEW r \in Request, NEW status, Unlink(r, status),
           \/ job[r].op = "DELETE" /\ job[r].at = "granted" /\ status = "ok"
           \/ job[r].op = "POST" /\ job[r].at = "discarding" /\ status = "rejected",
           UNCHANGED <<namespace, clients, issued, folders, sweeping>>
    PROVE  FilesInv'
<1> DEFINE n == job[r].name
           f == job[r].file
           raced == Unswept(n, f)
           j == [job[r] EXCEPT !.at = status, !.raced = raced]
<1>1. status \in At \ {"new"} /\ job[r].at \notin Ended \cup {"new"} /\ Entered(r)
    BY DEF At, Ended, Entered
<1>2. job[r].key \in DOMAIN clients => clients[job[r].key].name = job[r].name
    BY <1>1 DEF FilesInv, OwnFolder
<1>3. CASE ~Exists(n, f)
    <2>1. disk' = disk /\ Step(r, "failed")
        BY <1>3 DEF Unlink
    <2>2. "failed" \in At \ {"new"} /\ "failed" \notin {"folder", "discarding", "writing"}
        BY DEF At, Ended
    <2>3. folders' \subseteq Name /\ folders \subseteq folders'
        BY DEF FilesInv, FilesTyped
    <2> QED
        BY <1>1, <1>2, <2>1, <2>2, <2>3, MoveKeeps
<1>4. CASE Exists(n, f)
    <2>1. n \in Name /\ f \in File
        BY <1>1 DEF FilesInv, Routed, Path
    <2>2. /\ disk' = [disk EXCEPT ![n][f] = None]
          /\ job' = [job EXCEPT ![r].at = status, ![r].raced = raced]
        BY <1>4 DEF Unlink
    <2>r. raced \in BOOLEAN /\ (raced <=> n = sweep /\ f \in unswept)
        BY DEF Unswept
    <2> HIDE DEF raced
    <2>3. /\ disk' \in [Name -> [File -> Request \cup {None}]]
          /\ disk'[n][f] = None
          /\ \A m \in Name, g \in File : ~(m = n /\ g = f) => disk'[m][g] = disk[m][g]
        BY <2>1, <2>2 DEF FilesInv, FilesTyped
    <2>4. /\ job \in [Request -> Job]
          /\ job' = [job EXCEPT ![r] = j]
          /\ j \in Job
        BY <1>1, <2>2, <2>r DEF FilesInv, FilesTyped, Job
    <2>5. /\ job' \in [Request -> Job]
          /\ \A q \in Request : /\ job'[q].op = job[q].op /\ job'[q].key = job[q].key
                                /\ job'[q].name = job[q].name /\ job'[q].file = job[q].file
                                /\ job'[q].opened = job[q].opened /\ job'[q].late = job[q].late
                                /\ q # r => job'[q] = job[q]
          /\ job'[r].at = status /\ job'[r].raced = raced
        BY <2>4 DEF Job
    <2>a. \A m : DeletionWasRaced(m) => DeletionWasRaced(m)'
        BY <1>1, <2>4, RacedStays DEF FilesInv
    <2>b. HasRemoved(r)' /\ job'[r].name = n /\ job'[r].file = f
        BY <2>5 DEF HasRemoved
    <2> HIDE DEF j
    <2>6. \A m \in Name, g \in File : disk[m][g] # None => disk[m][g] \in Request
        BY DEF FilesInv, FilesTyped
    <2>7. \A m \in Name, g \in File : disk'[m][g] # None => disk'[m][g] = disk[m][g]
        BY <2>3
    <2>8. FilesTyped'
        BY <2>3, <2>5 DEF FilesInv, FilesTyped, sweeping
    <2>9. Routed'
        <3>1. \A q \in Request : q # r => (HasRemoved(q)' <=> HasRemoved(q))
            BY <2>5 DEF HasRemoved
        <3> QED
            BY <1>1, <2>5, <2>b, <3>1 DEF FilesInv, Routed, At, Ended
    <2>10. OwnFolder'
        <3>1. \A q \in Request : Entered(q)' => Entered(q)
            BY <1>1, <2>5 DEF Entered
        <3> QED
            BY <2>5, <3>1 DEF FilesInv, OwnFolder
    <2>11. FilesOpened'
        BY <1>1, <2>5, <2>6, <2>7 DEF FilesInv, FilesOpened
    <2>12. SweptIsFree'
        <3>1. UNCHANGED <<namespace, sweep, listed, unswept>>
            BY DEF sweeping
        <3>2. sweep # None /\ listed =>
                \A g \in File \ unswept : disk'[sweep][g] # None => job'[disk'[sweep][g]].late
            BY <2>5, <2>6, <2>7 DEF FilesInv, FilesTyped, SweptIsFree
        <3>3. ASSUME NEW g \in unswept
              PROVE  disk'[sweep][g] # None \/ DeletionWasRaced(sweep)'
            <4>1. sweep \in Name /\ g \in File
                BY DEF FilesInv, FilesTyped, SweptIsFree
            <4>2. CASE sweep = n /\ g = f
                BY <2>5, <2>b, <2>r, <3>1, <4>2 DEF DeletionWasRaced
            <4>3. CASE ~(sweep = n /\ g = f)
                BY <2>3, <2>a, <3>1, <4>1, <4>3 DEF FilesInv, SweptIsFree, DeletionWasRaced
            <4> QED
                BY <4>2, <4>3
        <3>4. DeletionWasRaced(sweep)' <=> \E q \in Request : job'[q].raced /\ job'[q].name = sweep
            BY <3>1 DEF DeletionWasRaced
        <3> QED
            BY <3>1, <3>2, <3>3 DEF FilesInv, SweptIsFree
    <2>13. OpenedStays'
        <3>1. \A q \in Request : HasRemoved(q) => HasRemoved(q)'
            BY <1>1, <2>4, RemovedStays DEF FilesInv
        <3>3. \A m \in Name, g \in File : Exists(m, g) => Exists(m, g)' \/ (m = n /\ g = f)
            BY <2>3 DEF Exists
        <3>4. \A q \in Request : \A g \in job[q].opened : job[q].name \in Name /\ g \in File
            BY DEF FilesInv, FilesTyped, Routed, Job
        <3> QED
            BY <2>5, <2>b, <3>1, <3>3, <3>4 DEF FilesInv, OpenedStays
    <2>14. FilesAreOwners'
        BY <2>5, <2>6, <2>7, <2>a DEF FilesInv, FilesAreOwners, sweeping, Registered
    <2> QED
        BY <2>8, <2>9, <2>10, <2>11, <2>12, <2>13, <2>14 DEF FilesInv
<1> QED
    BY <1>3, <1>4

\* Creating or emptying a file: it is the client's own, or late from then on.
LEMMA OpenKeeps ==
    ASSUME IInv, FilesInv, NEW r \in Request, NEW f \in File, OpenIn(r, f), Entered(r),
           job[r].at \notin Ended \cup {"new"}, job[r].op \in {"POST", "POST_MULTI"}
    PROVE  FilesInv'
<1> DEFINE n == job[r].name
<1>1. UNCHANGED <<namespace, clients, issued, folders, sweeping>>
    BY DEF OpenIn, vars
<1>2. job[r].key \in DOMAIN clients => clients[job[r].key].name = n
    BY DEF FilesInv, OwnFolder
<1>3. CASE n \notin folders
    <2>1. disk' = disk /\ Step(r, "failed")
        BY <1>3 DEF OpenIn
    <2>2. "failed" \in At \ {"new"} /\ "failed" \notin {"folder", "discarding", "writing"}
        BY DEF At, Ended
    <2>3. folders' \subseteq Name /\ folders \subseteq folders'
        BY <1>1 DEF FilesInv, FilesTyped
    <2> QED
        BY <1>1, <1>2, <2>1, <2>2, <2>3, MoveKeeps
<1>4. CASE n \in folders
    <2> DEFINE late == job[r].late \/ job[r].key \notin DOMAIN clients
               j == Writing(r, f)
    <2>1. n \in Name
        BY <1>4 DEF FilesInv, FilesTyped
    <2>2. disk' = [disk EXCEPT ![n][f] = r] /\ job' = [job EXCEPT ![r] = j]
        BY <1>4 DEF OpenIn
    <2>3. /\ disk' \in [Name -> [File -> Request \cup {None}]]
          /\ disk'[n][f] = r
          /\ \A m \in Name, g \in File : ~(m = n /\ g = f) => disk'[m][g] = disk[m][g]
        BY <2>1, <2>2 DEF FilesInv, FilesTyped
    <2>4. job \in [Request -> Job] /\ job[r] \in Job /\ j \in Job
        <3>1. job \in [Request -> Job] /\ job[r] \in Job
            BY DEF FilesInv, FilesTyped
        <3>2. late \in BOOLEAN /\ "writing" \in At
            BY DEF At
        <3> HIDE DEF late
        <3> QED
            BY <3>1, <3>2 DEF Job, Writing, late
    <2>5. /\ j.op = job[r].op /\ j.key = job[r].key /\ j.name = job[r].name
          /\ j.file = job[r].file /\ j.at = "writing" /\ j.opened = job[r].opened \cup {f}
          /\ j.late = late /\ j.raced = job[r].raced
        BY <2>4 DEF Job, Writing
    <2>6. /\ job' \in [Request -> Job]
          /\ \A q \in Request : q # r => job'[q] = job[q]
          /\ job'[r] = j
        <3> HIDE DEF j
        <3> QED
            BY <2>2, <2>4
    <2>a. \A m : DeletionWasRaced(m) => DeletionWasRaced(m)'
        BY <2>2, <2>4, RacedStays DEF FilesInv
    <2> HIDE DEF j
    <2>7. \A m \in Name, g \in File : disk[m][g] # None => disk[m][g] \in Request
        BY DEF FilesInv, FilesTyped
    <2>8. FilesTyped'
        BY <1>1, <2>3, <2>6 DEF FilesInv, FilesTyped, sweeping
    <2>9. Routed'
        <3>1. ~job[r].raced
            BY DEF FilesInv, Routed, HasRemoved, Ended
        <3>2. \A q \in Request : q # r => (HasRemoved(q)' <=> HasRemoved(q))
            BY <2>6 DEF HasRemoved
        <3> QED
            BY <1>1, <2>5, <2>6, <3>1, <3>2 DEF FilesInv, Routed
    <2>10. OwnFolder'
        <3>1. \A q \in Request : q # r => (Entered(q)' <=> Entered(q))
            BY <2>6 DEF Entered
        <3> QED
            BY <1>1, <1>2, <2>5, <2>6, <3>1 DEF FilesInv, OwnFolder
    <2>11. FilesOpened'
        BY <1>1, <1>4, <2>3, <2>5, <2>6, <2>7 DEF FilesInv, FilesOpened
    <2>12. late \/ (n \in DOMAIN namespace /\ namespace[n] = job[r].key)
        BY <1>2 DEF IInv, NamespaceExact
    <2>13. SweptIsFree'
        <3>1. job[r].late => late
            OBVIOUS
        <3>2. sweep # None => sweep \in Name
            BY DEF FilesInv, FilesTyped
        <3>3. UNCHANGED <<sweep, listed, unswept, namespace>>
            BY <1>1 DEF sweeping
        <3>4. ASSUME sweep # None, listed, NEW g \in File \ unswept, disk'[sweep][g] # None
              PROVE  job'[disk'[sweep][g]].late
            <4>1. CASE sweep = n /\ g = f
                <5>1. n \notin DOMAIN namespace
                    BY <3>4, <4>1 DEF FilesInv, SweptIsFree
                <5> QED
                    BY <2>3, <2>5, <2>6, <2>12, <4>1, <5>1
            <4>2. CASE ~(sweep = n /\ g = f)
                <5>1. disk'[sweep][g] = disk[sweep][g] /\ disk[sweep][g] \in Request
                    BY <2>3, <2>7, <3>2, <3>4, <4>2
                <5>2. job[disk[sweep][g]].late
                    BY <3>4, <5>1 DEF FilesInv, SweptIsFree
                <5> QED
                    BY <2>5, <2>6, <3>1, <5>1, <5>2
            <4> QED
                BY <4>1, <4>2
        <3>5. ASSUME NEW g \in unswept
              PROVE  disk'[sweep][g] # None \/ DeletionWasRaced(sweep)'
            <4>1. sweep \in Name /\ g \in File
                BY <3>2 DEF FilesInv, FilesTyped, SweptIsFree
            <4>2. disk[sweep][g] # None => disk'[sweep][g] # None
                BY <2>3, <4>1, NoneAssumption
            <4> QED
                BY <2>a, <3>3, <4>2 DEF FilesInv, SweptIsFree, DeletionWasRaced
        <3>6. DeletionWasRaced(sweep)' <=> \E q \in Request : job'[q].raced /\ job'[q].name = sweep
            BY <3>3 DEF DeletionWasRaced
        <3> QED
            BY <3>3, <3>4, <3>5, <3>6 DEF FilesInv, SweptIsFree
    <2>14. OpenedStays'
        <3>1. \A q \in Request : HasRemoved(q) => HasRemoved(q)' /\ job'[q] = job[q]
            <4> QED
                BY <2>2, <2>4, RemovedStays DEF FilesInv
        <3>2. \A m \in Name, g \in File : Exists(m, g) => Exists(m, g)'
            BY <1>1, <2>3, NoneAssumption DEF Exists
        <3>3. Exists(n, f)'
            BY <1>1, <1>4, <2>3, <2>5, <2>6, NoneAssumption DEF Exists
        <3>4. \A q \in Request : \A g \in job[q].opened : job[q].name \in Name /\ g \in File
            BY DEF FilesInv, FilesTyped, Routed, Job
        <3> QED
            BY <1>1, <2>5, <2>6, <3>1, <3>2, <3>3, <3>4 DEF FilesInv, OpenedStays
    <2>15. FilesAreOwners'
        <3>1. UNCHANGED <<sweep, namespace>>
            BY <1>1 DEF sweeping
        <3>2. ASSUME NEW m \in Name, NEW g \in File, disk'[m][g] # None, m # sweep
              PROVE  \/ job'[disk'[m][g]].late
                     \/ m \in Registered /\ job'[disk'[m][g]].key = namespace[m]
                     \/ DeletionWasRaced(m)'
            <4>1. CASE m = n /\ g = f
                <5>1. disk'[m][g] = r /\ job'[r].late = late /\ job'[r].key = job[r].key
                    BY <2>3, <2>5, <2>6, <4>1
                <5> QED
                    BY <2>12, <4>1, <5>1 DEF Registered
            <4>2. CASE ~(m = n /\ g = f)
                <5>1. disk'[m][g] = disk[m][g] /\ disk[m][g] \in Request
                    BY <2>3, <2>7, <3>2, <4>2
                <5>2. /\ job[disk[m][g]].late => job'[disk[m][g]].late
                      /\ job'[disk[m][g]].key = job[disk[m][g]].key
                    BY <2>5, <2>6, <5>1
                <5> QED
                    BY <2>a, <3>2, <5>1, <5>2 DEF FilesInv, FilesAreOwners
            <4> QED
                BY <4>1, <4>2
        <3> QED
            BY <3>1, <3>2 DEF FilesAreOwners, Registered
    <2> QED
        BY <2>8, <2>9, <2>10, <2>11, <2>13, <2>14, <2>15 DEF FilesInv
<1> QED
    BY <1>3, <1>4

\* A request begins: it has opened and removed nothing yet.
LEMMA SubmitKeeps ==
    ASSUME FilesInv, NEW r \in Request, NEW op \in Op, NEW u \in Uuid, NEW n \in Name,
           NEW f \in Path(op), Submit(r, op, u, n, f)
    PROVE  FilesInv'
<1> DEFINE j == [job[r] EXCEPT !.op = op, !.key = u, !.name = n, !.file = f, !.at = "asking"]
<1>1. /\ job[r].at = "new" /\ u \in issued
      /\ job' = [job EXCEPT ![r] = j]
      /\ UNCHANGED <<namespace, clients, issued, folders, disk, sweeping>>
    BY DEF Submit, vars
<1>2. job \in [Request -> Job] /\ job[r] \in Job /\ j \in Job
    BY DEF FilesInv, FilesTyped, Job, Path, At
<1>3. /\ j.op = op /\ j.key = u /\ j.name = n /\ j.file = f /\ j.at = "asking"
      /\ j.opened = {} /\ j.late = job[r].late /\ j.raced = job[r].raced
    BY <1>1, <1>2 DEF Job, FilesInv, Routed
<1>a. \A m : DeletionWasRaced(m) => DeletionWasRaced(m)'
    BY <1>1, <1>2, RacedStays DEF FilesInv, Ended
<1> HIDE DEF j
<1>4. /\ job' \in [Request -> Job]
      /\ \A q \in Request : q # r => job'[q] = job[q]
      /\ job'[r] = j
    BY <1>1, <1>2
<1>5. \A m \in Name, g \in File : disk[m][g] # None =>
            disk[m][g] \in Request /\ disk[m][g] # r
    BY <1>1 DEF FilesInv, FilesTyped, FilesOpened
<1>6. FilesTyped'
    BY <1>1, <1>4 DEF FilesInv, FilesTyped, sweeping
<1>7. Routed'
    <2>1. ~job[r].raced
        BY <1>1 DEF FilesInv, Routed, HasRemoved
    <2>2. \A q \in Request : q # r => (HasRemoved(q)' <=> HasRemoved(q))
        BY <1>4 DEF HasRemoved
    <2> QED
        BY <1>1, <1>3, <1>4, <2>1, <2>2 DEF FilesInv, Routed
<1>8. OwnFolder'
    BY <1>1, <1>3, <1>4 DEF FilesInv, OwnFolder, Entered
<1>9. FilesOpened'
    BY <1>1, <1>4, <1>5 DEF FilesInv, FilesOpened
<1>10. SweptIsFree'
    <2>1. UNCHANGED <<namespace, disk, sweep, listed, unswept>>
        BY <1>1 DEF sweeping
    <2> QED
        BY <1>4, <1>5, <1>a, <2>1 DEF FilesInv, FilesTyped, SweptIsFree
<1>11. OpenedStays'
    <2>1. \A q \in Request : HasRemoved(q) => HasRemoved(q)' /\ job'[q] = job[q]
        BY <1>1, <1>2, RemovedStays DEF FilesInv, Ended
    <2>2. \A m, g : Exists(m, g) => Exists(m, g)'
        BY <1>1 DEF Exists
    <2> QED
        BY <1>1, <1>3, <1>4, <2>1, <2>2 DEF FilesInv, OpenedStays
<1>12. FilesAreOwners'
    BY <1>1, <1>4, <1>5, <1>a DEF FilesInv, FilesAreOwners, sweeping, Registered
<1> QED
    BY <1>6, <1>7, <1>8, <1>9, <1>10, <1>11, <1>12 DEF FilesInv

\* A handler's step that leaves the disk alone, or one of the three that do not.
LEMMA RequestKeeps ==
    ASSUME IInv, FilesInv, NEW r \in Request, Ask(r) \/ Work(r) \/ Peer(r)
    PROVE  FilesInv'
<1>1. folders \subseteq Name /\ job[r] \in Job
    BY DEF FilesInv, FilesTyped
<1>2. Entered(r) => (job[r].key \in DOMAIN clients => clients[job[r].key].name = job[r].name)
    BY DEF FilesInv, OwnFolder
<1>3. ASSUME NEW at \in {"granted", "unauthorized", "forbidden", "ok", "failed",
                         "rejected", "created", "panicked"}
      PROVE  at \in At \ {"new"} /\ at \notin {"folder", "discarding", "writing"}
    BY DEF At, Ended
<1>4. ASSUME NEW at, Step(r, at)
      PROVE  /\ job'[r].at = at
             /\ job'[r].op = job[r].op /\ job'[r].opened = job[r].opened
    BY <1>1, <1>4 DEF Step, FilesInv, FilesTyped, Job
<1>5. ASSUME Ask(r) PROVE FilesInv'
    <2>1. Verdict(r) \in {"granted", "unauthorized", "forbidden"}
        BY DEF Verdict
    <2>2. /\ Step(r, Verdict(r)) /\ job[r].at = "asking"
          /\ UNCHANGED <<namespace, clients, issued, folders, disk, sweeping>>
        BY <1>5 DEF Ask, Query
    <2>3. ASSUME Entered(r)', job[r].key \in DOMAIN clients
          PROVE  clients[job[r].key].name = job[r].name
        <3>1. CASE job[r].opened # {}
            BY <1>2, <2>3, <3>1 DEF Entered
        <3>2. CASE job[r].opened = {}
            <4>1. job[r].op # "GET" /\ Verdict(r) = "granted"
                BY <1>4, <2>1, <2>2, <2>3, <3>2 DEF Entered
            <4>2. QueryUuid(job[r].key) = {clients[job[r].key].name}
                BY <2>3 DEF QueryUuid
            <4> QED
                BY <4>1, <4>2 DEF Verdict
        <3> QED
            BY <3>1, <3>2
    <2> QED
        BY <1>1, <1>3, <2>1, <2>2, <2>3, MoveKeeps DEF Ended
<1>6. ASSUME Download(r) PROVE FilesInv'
    <2>1. \E at \in {"ok", "failed"} : Step(r, at)
        BY <1>6 DEF Download
    <2>2. /\ job[r].at = "granted"
          /\ UNCHANGED <<namespace, clients, issued, folders, disk, sweeping>>
        BY <1>6 DEF Download, Granted, vars
    <2> QED
        BY <1>1, <1>2, <1>3, <1>4, <2>1, <2>2, MoveKeeps DEF Ended, Entered
<1>7. ASSUME Delete(r) PROVE FilesInv'
    BY <1>7, UnlinkKeeps DEF Delete, Granted, vars
<1>8. ASSUME MakeFolder(r) PROVE FilesInv'
    <2>1. /\ job[r].at = "granted" /\ job[r].op = "POST" /\ Step(r, "folder")
          /\ folders' = folders \cup {job[r].name}
          /\ UNCHANGED <<namespace, clients, issued, disk, sweeping>>
        BY <1>8 DEF MakeFolder, Granted, vars
    <2>2. job[r].name \in Name
        BY <2>1 DEF FilesInv, Routed
    <2>3. "folder" \in At \ {"new"}
        BY DEF At
    <2> QED
        BY <1>1, <1>2, <2>1, <2>2, <2>3, MoveKeeps DEF Ended, Entered
<1>9. ASSUME CreateFile(r) PROVE FilesInv'
    <2>1. job[r].at = "folder" /\ OpenIn(r, job[r].file)
        BY <1>9 DEF CreateFile
    <2>2. job[r].op = "POST" /\ job[r].file \in File
        BY <2>1 DEF FilesInv, Routed, Path
    <2> QED
        BY <2>1, <2>2, OpenKeeps DEF Entered, Ended
<1>10. ASSUME Discard(r) PROVE FilesInv'
    <2>1. job[r].op = "POST"
        BY <1>10 DEF Discard, FilesInv, Routed
    <2> QED
        BY <1>10, <2>1, UnlinkKeeps DEF Discard, vars
<1>11. ASSUME NEW f \in File, OpenField(r, f) PROVE FilesInv'
    <2>1. AtField(r) /\ OpenIn(r, f)
        BY <1>11 DEF OpenField
    <2>2. /\ job[r].op = "POST_MULTI" /\ job[r].at \in {"granted", "writing"}
          /\ Entered(r)
        BY <2>1 DEF AtField, Entered
    <2> QED
        BY <2>1, <2>2, OpenKeeps DEF Ended
<1>12. ASSUME \/ \E f \in File : AppendField(r, f)
              \/ Undisposed(r) \/ Finish(r) \/ StreamBreaks(r)
       PROVE  FilesInv'
    <2>1. \E at \in {"failed", "rejected", "created", "panicked"} : Step(r, at)
        BY <1>12 DEF AppendField, Undisposed, Finish, StreamBreaks
    <2>2. /\ job[r].at \in {"granted", "writing"}
          /\ UNCHANGED <<namespace, clients, issued, folders, disk, sweeping>>
        BY <1>12 DEF AppendField, Undisposed, Finish, StreamBreaks, AtField, vars
    <2> QED
        BY <1>1, <1>2, <1>3, <1>4, <2>1, <2>2, MoveKeeps DEF Ended, Entered
<1>13. ASSUME Mismatch(r) PROVE FilesInv'
    <2>1. /\ job[r].op = "POST" /\ job[r].at = "writing" /\ Step(r, "discarding")
          /\ UNCHANGED <<namespace, clients, issued, folders, disk, sweeping>>
        BY <1>13 DEF Mismatch, vars
    <2>2. "discarding" \in At \ {"new"}
        BY DEF At
    <2> QED
        BY <1>1, <1>2, <2>1, <2>2, MoveKeeps DEF Ended, Entered
<1>14. ASSUME NEW op \in Op, NEW u \in Uuid, NEW n \in Name, NEW f \in Path(op),
              Submit(r, op, u, n, f)
       PROVE  FilesInv'
    BY <1>14, SubmitKeeps
<1> QED
    BY <1>5, <1>6, <1>7, <1>8, <1>9, <1>10, <1>11, <1>12, <1>13, <1>14 DEF Work, Peer

-----------------------------------------------------------------------------
(* What the concierge does                                                 *)

\* A newcomer gets a name whose folder nobody is deleting any more.
LEMMA ArriveKeeps ==
    ASSUME IInv, FilesInv, NEW u \in Uuid, NEW n \in Name, Arrive(u, n)
    PROVE  FilesInv'
<1>1. /\ n \notin DOMAIN namespace /\ u \notin issued
      /\ namespace' = Put(namespace, n, u)
      /\ clients' = Put(clients, u, [name |-> n, seq |-> 0, subscriptions |-> {}])
      /\ issued' = issued \cup {u}
      /\ sweep = None
      /\ UNCHANGED <<folders, disk, job, sweep, listed, unswept>>
    BY DEF Arrive, Identify, NameFree, Free, fileVars, sweeping
<1>2. /\ DOMAIN clients' = DOMAIN clients \cup {u}
      /\ \A v \in DOMAIN clients : v # u => clients'[v] = clients[v]
      /\ DOMAIN namespace' = DOMAIN namespace \cup {n}
      /\ \A m \in DOMAIN namespace : m # n => namespace'[m] = namespace[m]
    BY <1>1 DEF Put
<1>3. \A r \in Request : job[r].at # "new" => job[r].key # u
    BY <1>1 DEF FilesInv, Routed
<1>4. FilesTyped' /\ FilesOpened' /\ SweptIsFree'
    BY <1>1 DEF FilesInv, FilesTyped, FilesOpened, SweptIsFree, DeletionWasRaced
<1>5. Routed'
    BY <1>1 DEF FilesInv, Routed, HasRemoved
<1>6. OwnFolder'
    <2>1. \A r \in Request : Entered(r)' => Entered(r) /\ job[r].at # "new"
        BY <1>1 DEF Entered, FilesInv, Routed
    <2> QED
        BY <1>1, <1>2, <1>3, <2>1 DEF FilesInv, OwnFolder
<1>7. OpenedStays'
    <2>1. \A r \in Request : HasRemoved(r)' <=> HasRemoved(r)
        BY <1>1 DEF HasRemoved
    <2>2. \A m, f : Exists(m, f)' <=> Exists(m, f)
        BY <1>1 DEF Exists
    <2>3. \A r \in Request : job[r].at = "new" => job[r].opened = {}
        BY DEF FilesInv, Routed
    <2> QED
        BY <1>1, <1>2, <1>3, <2>1, <2>2, <2>3 DEF FilesInv, OpenedStays
<1>8. FilesAreOwners'
    BY <1>1, <1>2 DEF FilesInv, FilesAreOwners, Registered, DeletionWasRaced
<1> QED
    BY <1>4, <1>5, <1>6, <1>7, <1>8 DEF FilesInv

\* From a departure on, the folder is nobody's until its deletion has ended.
LEMMA DepartKeeps ==
    ASSUME IInv, FilesInv, NEW u \in Uuid, Depart(u)
    PROVE  FilesInv'
<1>1. /\ u \in DOMAIN clients /\ sweep = None
      /\ namespace' = Erase(namespace, clients[u].name)
      /\ clients' = Erase(clients, u)
      /\ sweep' = clients[u].name
      /\ UNCHANGED <<issued, folders, disk, job, listed, unswept>>
    BY DEF Depart, Disconnect, Free
<1>2. /\ DOMAIN clients' = DOMAIN clients \ {u}
      /\ \A v \in DOMAIN clients' : clients'[v] = clients[v]
      /\ DOMAIN namespace' = DOMAIN namespace \ {clients[u].name}
      /\ \A m \in DOMAIN namespace' : namespace'[m] = namespace[m]
    BY <1>1 DEF Erase, Restrict
<1>3. clients[u].name \in Name
    BY <1>1 DEF IInv, Typed, IsMap, Client
<1>4. FilesTyped' /\ Routed' /\ FilesOpened'
    BY <1>1, <1>3 DEF FilesInv, FilesTyped, Routed, FilesOpened, HasRemoved
<1>5. OwnFolder'
    <2>1. \A r \in Request : Entered(r)' <=> Entered(r)
        BY <1>1 DEF Entered
    <2> QED
        BY <1>1, <1>2, <2>1 DEF FilesInv, OwnFolder
<1>6. SweptIsFree'
    BY <1>1, <1>2 DEF FilesInv, SweptIsFree
<1>7. OpenedStays'
    <2>1. \A r \in Request : HasRemoved(r)' <=> HasRemoved(r)
        BY <1>1 DEF HasRemoved
    <2>2. \A m, f : Exists(m, f)' <=> Exists(m, f)
        BY <1>1 DEF Exists
    <2> QED
        BY <1>1, <1>2, <2>1, <2>2 DEF FilesInv, OpenedStays
<1>8. FilesAreOwners'
    <2>1. \A m \in Name : m # sweep
        BY <1>1, NoneAssumption
    <2> QED
        BY <1>1, <1>2, <2>1 DEF FilesInv, FilesAreOwners, Registered, DeletionWasRaced
<1> QED
    BY <1>4, <1>5, <1>6, <1>7, <1>8 DEF FilesInv

\* The deletion takes nothing of a client that is there: its name is another.
LEMMA SweepFileKeeps ==
    ASSUME IInv, FilesInv, NEW f \in File, SweepFile(f)
    PROVE  FilesInv'
<1>1. /\ f \in unswept
      /\ disk' = [disk EXCEPT ![sweep][f] = None]
      /\ unswept' = unswept \ {f}
      /\ UNCHANGED <<namespace, clients, issued, folders, job, sweep, listed>>
    BY DEF SweepFile, vars
<1>2. /\ disk' \in [Name -> [File -> Request \cup {None}]]
      /\ sweep \in Name => disk'[sweep][f] = None
      /\ \A m \in Name, g \in File : ~(m = sweep /\ g = f) => disk'[m][g] = disk[m][g]
    <2>1. CASE sweep \in Name
        BY <1>1, <2>1 DEF FilesInv, FilesTyped
    <2>2. CASE sweep \notin Name
        BY <1>1, <2>2 DEF FilesInv, FilesTyped
    <2> QED
        BY <2>1, <2>2
<1>3. \A m \in Name, g \in File : disk'[m][g] # None => disk'[m][g] = disk[m][g]
    BY <1>2
<1>4. \A m \in Name, g \in File : disk[m][g] # None => disk[m][g] \in Request
    BY DEF FilesInv, FilesTyped
<1>5. FilesTyped'
    BY <1>1, <1>2 DEF FilesInv, FilesTyped
<1>6. Routed'
    BY <1>1 DEF FilesInv, Routed, HasRemoved
<1>7. OwnFolder'
    <2>1. \A r \in Request : Entered(r)' <=> Entered(r)
        BY <1>1 DEF Entered
    <2> QED
        BY <1>1, <2>1 DEF FilesInv, OwnFolder
<1>8. FilesOpened'
    BY <1>1, <1>3 DEF FilesInv, FilesOpened
<1>9. SweptIsFree'
    <2>1. sweep # None => sweep \in Name
        BY DEF FilesInv, FilesTyped
    <2> QED
        BY <1>1, <1>2, <1>3, <2>1 DEF FilesInv, SweptIsFree, DeletionWasRaced
<1>10. OpenedStays'
    <2>1. \A r \in Request : HasRemoved(r)' <=> HasRemoved(r)
        BY <1>1 DEF HasRemoved
    <2>2. ASSUME NEW r \in Request, job[r].key \in DOMAIN clients, NEW g \in job[r].opened
          PROVE  Exists(job[r].name, g)' <=> Exists(job[r].name, g)
        <3>1. job[r].name = clients[job[r].key].name
            BY <2>2 DEF FilesInv, OwnFolder, Entered
        <3>2. job[r].name \in DOMAIN namespace
            BY <2>2, <3>1 DEF IInv, NamespaceExact
        <3>3. job[r].name # sweep /\ job[r].name \in Name /\ g \in File
            BY <2>2, <3>2, NoneAssumption
                DEF FilesInv, FilesTyped, Job, SweptIsFree, IInv, Typed, IsMap
        <3> QED
            BY <1>1, <1>2, <3>3 DEF Exists
    <2> QED
        BY <1>1, <2>1, <2>2 DEF FilesInv, OpenedStays
<1>11. FilesAreOwners'
    BY <1>1, <1>3 DEF FilesInv, FilesAreOwners, Registered, DeletionWasRaced
<1> QED
    BY <1>5, <1>6, <1>7, <1>8, <1>9, <1>10, <1>11 DEF FilesInv

\* The deletion reads the folder, or finds none: then there was no file.
LEMMA ListFolderKeeps ==
    ASSUME IInv, FilesInv, ListFolder
    PROVE  FilesInv'
<1>1. /\ sweep # None /\ ~listed
      /\ UNCHANGED <<namespace, clients, issued, folders, disk, job>>
    BY DEF ListFolder, vars
<1>2. \/ /\ listed' = TRUE /\ sweep' = sweep
         /\ unswept' = {f \in File : disk[sweep][f] # None}
      \/ sweep \notin folders /\ sweep' = None /\ listed' = FALSE /\ unswept' = {}
    BY DEF ListFolder, SweepEnds
<1>3. FilesTyped' /\ Routed' /\ FilesOpened'
    BY <1>1, <1>2 DEF FilesInv, FilesTyped, Routed, FilesOpened, HasRemoved
<1>4. OwnFolder'
    <2>1. \A r \in Request : Entered(r)' <=> Entered(r)
        BY <1>1 DEF Entered
    <2> QED
        BY <1>1, <2>1 DEF FilesInv, OwnFolder
<1>5. SweptIsFree'
    BY <1>1, <1>2 DEF FilesInv, SweptIsFree
<1>6. OpenedStays'
    <2>1. \A r \in Request : HasRemoved(r)' <=> HasRemoved(r)
        BY <1>1 DEF HasRemoved
    <2>2. \A m, f : Exists(m, f)' <=> Exists(m, f)
        BY <1>1 DEF Exists
    <2> QED
        BY <1>1, <2>1, <2>2 DEF FilesInv, OpenedStays
<1>7. FilesAreOwners'
    <2>1. sweep \notin folders => \A f \in File : disk[sweep][f] = None
        BY <1>1 DEF FilesInv, FilesTyped, FilesOpened
    <2> QED
        BY <1>1, <1>2, <2>1 DEF FilesInv, FilesAreOwners, Registered, DeletionWasRaced
<1> QED
    BY <1>3, <1>4, <1>5, <1>6, <1>7 DEF FilesInv

\* A deletion that ends early leaves files only where a request has raced it.
LEMMA SweepAbortsKeeps ==
    ASSUME IInv, FilesInv, NEW f \in File, SweepAborts(f)
    PROVE  FilesInv'
<1>1. /\ f \in unswept /\ disk[sweep][f] = None
      /\ sweep' = None /\ listed' = FALSE /\ unswept' = {}
      /\ UNCHANGED <<namespace, clients, issued, folders, disk, job>>
    BY DEF SweepAborts, SweepEnds, vars
<1>2. FilesTyped' /\ Routed' /\ FilesOpened'
    BY <1>1 DEF FilesInv, FilesTyped, Routed, FilesOpened, HasRemoved
<1>3. OwnFolder'
    <2>1. \A r \in Request : Entered(r)' <=> Entered(r)
        BY <1>1 DEF Entered
    <2> QED
        BY <1>1, <2>1 DEF FilesInv, OwnFolder
<1>4. SweptIsFree'
    BY <1>1 DEF SweptIsFree
<1>5. OpenedStays'
    <2>1. \A r \in Request : HasRemoved(r)' <=> HasRemoved(r)
        BY <1>1 DEF HasRemoved
    <2>2. \A m, g : Exists(m, g)' <=> Exists(m, g)
        BY <1>1 DEF Exists
    <2> QED
        BY <1>1, <2>1, <2>2 DEF FilesInv, OpenedStays
<1>6. FilesAreOwners'
    <2>1. DeletionWasRaced(sweep)
        BY <1>1 DEF FilesInv, SweptIsFree
    <2> QED
        BY <1>1, <2>1 DEF FilesInv, FilesAreOwners, Registered, DeletionWasRaced
<1> QED
    BY <1>2, <1>3, <1>4, <1>5, <1>6 DEF FilesInv

LEMMA SweepFolderKeeps ==
    ASSUME IInv, FilesInv, SweepFolder
    PROVE  FilesInv'
<1>1. /\ listed /\ sweep # None /\ unswept = {}
      /\ sweep' = None /\ listed' = FALSE /\ unswept' = {}
      /\ folders \ {sweep} \subseteq folders' /\ folders' \subseteq folders
      /\ sweep \notin folders' => sweep \notin folders \/ \A f \in File : disk[sweep][f] = None
      /\ UNCHANGED <<namespace, clients, issued, disk, job>>
    BY DEF SweepFolder, SweepEnds, vars, FilesInv, SweptIsFree
<1>2. FilesTyped' /\ Routed' /\ FilesOpened'
    BY <1>1 DEF FilesInv, FilesTyped, Routed, FilesOpened, HasRemoved
<1>3. OwnFolder'
    <2>1. \A r \in Request : Entered(r)' <=> Entered(r)
        BY <1>1 DEF Entered
    <2> QED
        BY <1>1, <2>1 DEF FilesInv, OwnFolder
<1>4. SweptIsFree'
    BY <1>1 DEF SweptIsFree
<1>5. OpenedStays'
    <2>1. \A r \in Request : HasRemoved(r)' <=> HasRemoved(r)
        BY <1>1 DEF HasRemoved
    <2>2. ASSUME NEW r \in Request, job[r].key \in DOMAIN clients, NEW g \in job[r].opened
          PROVE  Exists(job[r].name, g)' <=> Exists(job[r].name, g)
        <3>1. job[r].name = clients[job[r].key].name
            BY <2>2 DEF FilesInv, OwnFolder, Entered
        <3>2. job[r].name \in DOMAIN namespace
            BY <2>2, <3>1 DEF IInv, NamespaceExact
        <3>3. job[r].name # sweep
            BY <1>1, <3>2 DEF FilesInv, SweptIsFree
        <3> QED
            BY <1>1, <3>3 DEF Exists
    <2> QED
        BY <1>1, <2>1, <2>2 DEF FilesInv, OpenedStays
<1>6. FilesAreOwners'
    <2>1. \A f \in File : disk[sweep][f] # None => job[disk[sweep][f]].late
        BY <1>1 DEF FilesInv, SweptIsFree
    <2> QED
        BY <1>1, <2>1 DEF FilesInv, FilesAreOwners, Registered, DeletionWasRaced
<1> QED
    BY <1>2, <1>3, <1>4, <1>5, <1>6 DEF FilesInv

-----------------------------------------------------------------------------
(* The theorems                                                            *)

LEMMA FilesInit == FsInit => FilesInv
<1> SUFFICES ASSUME FsInit PROVE FilesInv
    OBVIOUS
<1>1. \A r \in Request : job[r] = NewJob
    BY DEF FsInit
<1>2. NewJob \in Job /\ NewJob.at = "new" /\ NewJob.opened = {} /\ ~NewJob.raced
    BY DEF NewJob, Job, At
<1>3. FilesTyped
    BY <1>1, <1>2 DEF FsInit, FilesTyped
<1>4. \A n \in Name, f \in File : disk[n][f] = None
    BY DEF FsInit
<1> QED
    BY <1>1, <1>2, <1>3, <1>4
        DEF FsInit, FilesInv, Routed, OwnFolder, Entered, FilesOpened, SweptIsFree,
            OpenedStays, FilesAreOwners

\* The concierge keeps its own invariant beside the file routes: what they do to
\* it is an arrival, a departure, a query, or the abort of the whole server.
LEMMA ConciergeKeeps == IInv /\ [FsNext]_fsVars => IInv'
<1> SUFFICES ASSUME IInv, [FsNext]_fsVars PROVE IInv'
    OBVIOUS
<1>1. ASSUME NEW r \in Request, StreamBreaks(r) PROVE IInv'
    BY <1>1 DEF StreamBreaks, IInv, Typed, ClientsIssued, NamespaceExact, NoOrphans
<1>2. ASSUME NEW r \in Request, Work(r) PROVE UNCHANGED vars
    BY <1>2 DEF Work, Download, Delete, MakeFolder, CreateFile, OpenIn, Discard
<1>3. ASSUME NEW r \in Request, Peer(r) PROVE UNCHANGED vars \/ StreamBreaks(r)
    BY <1>3 DEF Peer, Submit, OpenField, OpenIn, AppendField, Undisposed, Finish, Mismatch
<1>4. ASSUME NEW r \in Request, Ask(r) PROVE Next
    BY <1>4 DEF Ask, Next
<1>5. ASSUME NEW u \in Uuid, NEW n \in Name, Arrive(u, n) PROVE Next
    BY <1>5 DEF Arrive, Next, Membership
<1>6. ASSUME NEW u \in Uuid, Depart(u) PROVE Next
    BY <1>6 DEF Depart, Next, Membership
<1>7. ASSUME ListFolder \/ SweepFolder \/ \E f \in File : SweepFile(f) \/ SweepAborts(f)
      PROVE  UNCHANGED vars
    BY <1>7 DEF ListFolder, SweepFolder, SweepFile, SweepAborts
<1>8. CASE UNCHANGED fsVars
    BY <1>8, NextIInv DEF fsVars
<1> QED
    BY <1>1, <1>2, <1>3, <1>4, <1>5, <1>6, <1>7, <1>8, NextIInv DEF FsNext

LEMMA FilesStep == IInv /\ FilesInv /\ [FsNext]_fsVars => FilesInv'
<1> SUFFICES ASSUME IInv, FilesInv, [FsNext]_fsVars PROVE FilesInv'
    OBVIOUS
<1>1. CASE UNCHANGED fsVars
    BY <1>1 DEF fsVars, vars, fileVars, sweeping, FilesInv, FilesTyped, Routed, OwnFolder,
        Entered, FilesOpened, SweptIsFree, OpenedStays, Exists, HasRemoved, FilesAreOwners,
        Registered, DeletionWasRaced
<1> QED
    BY <1>1, ArriveKeeps, DepartKeeps, ListFolderKeeps, SweepFileKeeps, SweepAbortsKeeps,
        SweepFolderKeeps, RequestKeeps
        DEF FsNext

\* The server's tables, the requests and the folders agree in every state, for any
\* requests, names and files.
THEOREM FilesInvariance == FsSpec => [](IInv /\ FilesInv)
<1>1. FsInit => IInv /\ FilesInv
    BY FilesInit, InitIInv DEF FsInit
<1>2. IInv /\ FilesInv /\ [FsNext]_fsVars => (IInv /\ FilesInv)'
    BY ConciergeKeeps, FilesStep
<1> QED
    BY <1>1, <1>2, PTL DEF FsSpec

\* A newcomer never finds files of an earlier client of its name, but for those of
\* an upload that outlived that client, and for those of a folder whose deletion
\* ended early because a request had taken a file from under it.
THEOREM NewcomersFolder == FsSpec => []FilesAreOwners
<1>1. FilesInv => FilesAreOwners
    BY DEF FilesInv
<1> QED
    BY <1>1, FilesInvariance, PTL

\* A file that was acknowledged to a client that is still there is only ever taken
\* away by another request for the same path, never by a departure.
THEOREM AcknowledgedKept == FsSpec => []AcknowledgedStays
<1>1. FilesInv => AcknowledgedStays
    BY DEF FilesInv, OpenedStays, AcknowledgedStays
<1> QED
    BY <1>1, FilesInvariance, PTL
=============================================================================
