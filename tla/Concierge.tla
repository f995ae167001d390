------------------------------ MODULE Concierge ------------------------------
(***************************************************************************)
(* The Concierge actor (src/concierge/mod.rs): the registry of connected   *)
(* clients, their names and the services they own or subscribe to, and     *)
(* what each handler sends to whom.  actix runs one handler at a time to   *)
(* its end, so a handler is one action.  Payload contents are reduced to   *)
(* the clients and services they speak of.                                 *)
(*                                                                         *)
(* The environment here is arbitrary: any uuid may appear in a Disconnect, *)
(* a request or a query, registered or not.  Sessions.tla restricts it to  *)
(* what the WebSocket connections really send.                             *)
(***************************************************************************)
EXTENDS Integers, Maps, SequencesExt

CONSTANTS
    Uuid,           \* what Uuid::new_v4 can return
    Name,           \* client names
    Service,        \* service names
    SeqLimit,       \* 2^(bits of usize): sequence numbers are below it
    OverflowChecks  \* the build panics when += overflows (dev profile) or wraps

ASSUME SeqLimitAssumption == SeqLimit \in Nat \ {0}
ASSUME OverflowChecksAssumption == OverflowChecks \in BOOLEAN

VARIABLES
    namespace,  \* name -> uuid
    clients,    \* uuid -> Client
    services,   \* service name -> Service
    issued,     \* uuids generated so far: new_v4 does not repeat one
    alive,      \* FALSE once a handler has panicked
    out         \* what the last handler sent, in order: payload and recipients

vars == <<namespace, clients, services, issued, alive, out>>

-----------------------------------------------------------------------------
(* Payloads and how they are sent                                          *)

Unsequenced == -1
SeqNumber == 0 .. SeqLimit - 1

PayloadType ==
    {"OK", "BAD", "HELLO", "MESSAGE", "SELF_SUBSCRIBE_RESULT",
     "SELF_UNSUBSCRIBE_RESULT", "SELF_FETCH_RESULT", "SERVICE_CREATE_RESULT",
     "SERVICE_DELETE_RESULT", "SERVICE_FETCH_RESULT", "SERVICE_FETCH_ALL_RESULT",
     "CLIENT_FETCH_RESULT", "CLIENT_FETCH_ALL_RESULT", "CLIENT_JOINED",
     "CLIENT_LEFT", "SERVICE_CLIENT_SUBSCRIBED", "SERVICE_CLIENT_UNSUBSCRIBED",
     "ERROR_INTERNAL", "ERROR_UNSUPPORTED", "ERROR_PROTOCOL", "INVALID_NAME",
     "INVALID_UUID", "INVALID_SERVICE"}

Payload == [type : PayloadType, seq : SeqNumber \cup {Unsequenced},
            successful : BOOLEAN, clients : SUBSET Uuid, services : SUBSET Service]

Delivery == [to : SUBSET Uuid, payload : Payload]

Client == [name : Name, seq : SeqNumber, subscriptions : SUBSET Service]
ServiceInfo == [owner_uuid : Uuid, subscribers : SUBSET Uuid]

\* A payload about some clients and services; About is unsequenced.
Result(type, ok, us, ss) ==
    [type |-> type, seq |-> Unsequenced, successful |-> ok, clients |-> us, services |-> ss]
About(type, us, ss) == Result(type, TRUE, us, ss)
Plain(type) == About(type, {}, {})

\* PayloadOut::seq
Sequenced(payload, n) == [payload EXCEPT !.seq = n]

\* Slip: the owner of a service is never told of it.
ServiceBroadcastSkipsOwner(cs, service, payload, to_owner) ==
    <<[to |-> (service.subscribers \cap DOMAIN cs) \ {service.owner_uuid},
       payload |-> payload]>>

\* Client::send, Concierge::broadcast (to the clients cs) and Service::broadcast.
Deliver(to, payload) == <<[to |-> to, payload |-> payload]>>
Send(u, payload) == Deliver({u}, payload)
Broadcast(cs, payload) == Deliver(DOMAIN cs, payload)
ServiceBroadcast(cs, service, payload, to_owner) ==
    Deliver({v \in service.subscribers \cap DOMAIN cs :
                to_owner \/ v # service.owner_uuid}, payload)

\* Slip: the answer is numbered after the request was counted.
ReplyNumberedLate(u, payload) ==
    Send(u, Sequenced(payload, (clients[u].seq + 1) % SeqLimit))

Reply(u, payload) == Send(u, Sequenced(payload, clients[u].seq))

-----------------------------------------------------------------------------
(* Identification and departure                                            *)

\* Slip: the name is not looked up.
NameUnchecked(n) == TRUE

NameFree(n) == n \notin DOMAIN namespace

\* Slip: the client is in the table before the others are told of it.
IdentifyInsertsFirst(u, n) ==
    /\ alive
    /\ NameFree(n)
    /\ u \notin issued
    /\ issued' = issued \cup {u}
    /\ namespace' = Put(namespace, n, u)
    /\ clients' = Put(clients, u, [name |-> n, seq |-> 0, subscriptions |-> {}])
    /\ out' = Broadcast(clients', About("CLIENT_JOINED", {u}, {}))
                \o Send(u, About("HELLO", {u}, {}))
    /\ UNCHANGED <<services, alive>>

Identify(u, n) ==
    /\ alive
    /\ NameFree(n)
    /\ u \notin issued
    /\ issued' = issued \cup {u}
    /\ namespace' = Put(namespace, n, u)
    /\ clients' = Put(clients, u, [name |-> n, seq |-> 0, subscriptions |-> {}])
    /\ out' = Broadcast(clients, About("CLIENT_JOINED", {u}, {}))
                \o Send(u, About("HELLO", {u}, {}))
    /\ UNCHANGED <<services, alive>>

IdentifyDuplicate(n) ==
    /\ alive
    /\ ~NameFree(n)
    /\ out' = <<>>
    /\ UNCHANGED <<namespace, clients, services, issued, alive>>

\* Slip: the services of the leaver are kept.
OwnedForgotten(u) == {}

\* Services that go with their owner.
Owned(u) == {s \in DOMAIN services : services[s].owner_uuid = u}

\* Slip: the leaver is still in the table when the others are told.
RestWithLeaver(u) == DOMAIN clients

\* Who is left to be told when u goes: u is taken out of the table first.
Rest(u) == DOMAIN clients \ {u}

\* Slips: the subscribers are all dropped, or all kept.
WithoutSubscribers(service, u) == [service EXCEPT !.subscribers = {}]
WithSubscriber(service, u) == service

WithoutSubscriber(service, u) == [service EXCEPT !.subscribers = @ \ {u}]

\* The departure of u is announced service by service, in the HashMap's order:
\* the deleted ones to everyone left, every other one to its subscribers.
Farewell(u, gone, kept) ==
    [i \in 1 .. Len(gone) |->
        [to |-> Rest(u),
         payload |-> About("SERVICE_DELETE_RESULT", {}, {gone[i]})]]
    \o [i \in 1 .. Len(kept) |->
        [to |-> services[kept[i]].subscribers \cap Rest(u),
         payload |-> About("SERVICE_CLIENT_UNSUBSCRIBED", {u}, {kept[i]})]]
    \o Deliver(Rest(u), About("CLIENT_LEFT", {u}, {}))

Disconnect(u) ==
    /\ alive
    /\ u \in DOMAIN clients
    /\ clients' = Erase(clients, u)
    /\ namespace' = Erase(namespace, clients[u].name)
    /\ services' = [s \in DOMAIN services \ Owned(u) |-> WithoutSubscriber(services[s], u)]
    /\ \E gone \in SetToSeqs(Owned(u)), kept \in SetToSeqs(DOMAIN services \ Owned(u)) :
            out' = Farewell(u, gone, kept)
    /\ UNCHANGED <<issued, alive>>

\* Disconnect of the nil uuid, or a second one for the same client.
DisconnectUnknown ==
    /\ alive
    /\ out' = <<>>
    /\ UNCHANGED <<namespace, clients, services, issued, alive>>

\* QueryUuid: the file routes ask for the name behind a key.
QueryUuid(u) == IF u \in DOMAIN clients THEN {clients[u].name} ELSE {}

Query ==
    /\ alive
    /\ out' = <<>>
    /\ UNCHANGED <<namespace, clients, services, issued, alive>>

-----------------------------------------------------------------------------
(* Requests of a registered client: IncomingMessage                        *)

Serving(u) == alive /\ u \in DOMAIN clients

\* Slips: the number is not kept within usize; overflow is never checked.
AdvanceUnbounded(u, cs) ==
    alive' = alive /\ clients' = [cs EXCEPT ![u].seq = @ + 1]
\* The tail of the handler: seq += 1 in the client table cs left by the request.
Advance(u, cs) ==
    IF OverflowChecks /\ cs[u].seq + 1 = SeqLimit
    THEN alive' = FALSE /\ clients' = cs
    ELSE alive' = alive /\ clients' = [cs EXCEPT ![u].seq = (@ + 1) % SeqLimit]

\* A request that changes no table: answer and count it.
Answer(u, mail) ==
    /\ out' = mail
    /\ Advance(u, clients)
    /\ UNCHANGED <<namespace, services, issued>>

Ok(u) == Reply(u, Plain("OK"))
InvalidService(u, s) == Reply(u, About("INVALID_SERVICE", {}, {s}))
InvalidUuid(u, v) == Reply(u, About("INVALID_UUID", {v}, {}))

\* payload.with_origin: the sender, and the service it speaks through.
Message(u, ss) == About("MESSAGE", {u}, ss)

MessageToName(u, n) ==
    /\ Serving(u)
    /\ Answer(u, IF n \in DOMAIN namespace /\ namespace[n] \in DOMAIN clients
                 THEN Send(namespace[n], Message(u, {})) \o Ok(u)
                 ELSE Reply(u, Plain("INVALID_NAME")))

MessageToUuid(u, v) ==
    /\ Serving(u)
    /\ Answer(u, IF v \in DOMAIN clients
                 THEN Send(v, Message(u, {})) \o Ok(u)
                 ELSE InvalidUuid(u, v))

\* Who gets a message that u addresses to a whole service.
ServiceMail(u, s) ==
    LET service == services[s]
    IN  CASE u = service.owner_uuid ->
                ServiceBroadcast(clients, service, Message(u, {s}), FALSE) \o Ok(u)
          [] u # service.owner_uuid /\ u \notin service.subscribers ->
                Reply(u, Plain("BAD"))
          [] u # service.owner_uuid /\ u \in service.subscribers
             /\ service.owner_uuid \in DOMAIN clients ->
                Send(service.owner_uuid, Message(u, {s})) \o Ok(u)
          [] OTHER -> Reply(u, Plain("ERROR_INTERNAL"))

MessageToService(u, s) ==
    /\ Serving(u)
    /\ Answer(u, IF s \in DOMAIN services THEN ServiceMail(u, s) ELSE InvalidService(u, s))

\* Who gets a message that u addresses to one client v through a service.
ServiceClientMail(u, s, v) ==
    CASE u # services[s].owner_uuid -> Reply(u, Plain("BAD"))
      [] u = services[s].owner_uuid /\ v \in DOMAIN clients ->
            Send(v, Message(u, {s})) \o Ok(u)
      [] OTHER -> InvalidUuid(u, v)

MessageToServiceClient(u, s, v) ==
    /\ Serving(u)
    /\ Answer(u, IF s \in DOMAIN services THEN ServiceClientMail(u, s, v)
                 ELSE InvalidService(u, s))

MessageToAll(u) ==
    /\ Serving(u)
    /\ Answer(u, Broadcast(clients, Message(u, {})) \o Ok(u))

\* Service::add_subscriber, and what Client::subscribe and unsubscribe leave of the clients.
AddSubscriber(service, u) == [service EXCEPT !.subscribers = @ \cup {u}]
Subscribing(u, s) == [clients EXCEPT ![u].subscriptions = @ \cup {s}]
Unsubscribing(u, s) == [clients EXCEPT ![u].subscriptions = @ \ {s}]

\* What try_create_service and try_remove_service make of the services.
Creating(u, s) ==
    IF s \in DOMAIN services THEN services
    ELSE Put(services, s, [owner_uuid |-> u, subscribers |-> {}])
Removing(u, s) == IF services[s].owner_uuid = u THEN Erase(services, s) ELSE services

SelfSubscribe(u, s) ==
    /\ Serving(u)
    /\ s \in DOMAIN services
    /\ LET successful == u \notin services[s].subscribers
           joined == AddSubscriber(services[s], u)
       IN  /\ services' = Put(services, s, joined)
           /\ out' = Reply(u, Result("SELF_SUBSCRIBE_RESULT", successful, {}, {s}))
                     \o IF successful
                        THEN ServiceBroadcast(clients, joined,
                                About("SERVICE_CLIENT_SUBSCRIBED", {u}, {s}), TRUE)
                        ELSE <<>>
    /\ Advance(u, Subscribing(u, s))
    /\ UNCHANGED <<namespace, issued>>

SelfUnsubscribe(u, s) ==
    /\ Serving(u)
    /\ s \in DOMAIN services
    /\ LET successful == u \in services[s].subscribers
           left == WithoutSubscriber(services[s], u)
       IN  /\ services' = Put(services, s, left)
           /\ out' = Reply(u, Result("SELF_UNSUBSCRIBE_RESULT", successful, {}, {s}))
                     \o IF successful
                        THEN ServiceBroadcast(clients, left,
                                About("SERVICE_CLIENT_UNSUBSCRIBED", {u}, {s}), TRUE)
                        ELSE <<>>
    /\ Advance(u, Unsubscribing(u, s))
    /\ UNCHANGED <<namespace, issued>>

\* SELF_SUBSCRIBE, SELF_UNSUBSCRIBE and SERVICE_DELETE of a service that is not there.
NoSuchService(u, s) ==
    /\ Serving(u)
    /\ s \notin DOMAIN services
    /\ Answer(u, InvalidService(u, s))

SelfSetSeq(u, n) ==
    /\ Serving(u)
    /\ out' = Send(u, Sequenced(Plain("OK"), n))
    /\ Advance(u, [clients EXCEPT ![u].seq = n])
    /\ UNCHANGED <<namespace, services, issued>>

ServiceCreate(u, s) ==
    /\ Serving(u)
    /\ LET result == Result("SERVICE_CREATE_RESULT", s \notin DOMAIN services, {}, {s})
       IN  out' = IF result.successful THEN Broadcast(clients, result) \o Reply(u, result)
                  ELSE Reply(u, result)
    /\ services' = Creating(u, s)
    /\ Advance(u, clients)
    /\ UNCHANGED <<namespace, issued>>

ServiceDelete(u, s) ==
    /\ Serving(u)
    /\ s \in DOMAIN services
    /\ services' = Removing(u, s)
    /\ LET result == About("SERVICE_DELETE_RESULT", {}, {s})
       IN  out' = IF services[s].owner_uuid = u THEN Broadcast(clients, result) \o Reply(u, result)
                  ELSE Send(u, Plain("BAD"))
    /\ Advance(u, clients)
    /\ UNCHANGED <<namespace, issued>>

ServiceFetch(u, s) ==
    /\ Serving(u)
    /\ Answer(u, IF s \in DOMAIN services
                 THEN Reply(u, About("SERVICE_FETCH_RESULT", {}, {s}))
                 ELSE InvalidService(u, s))

ServiceFetchAll(u) ==
    /\ Serving(u)
    /\ Answer(u, Reply(u, About("SERVICE_FETCH_ALL_RESULT", {}, DOMAIN services)))

ClientFetchAll(u) ==
    /\ Serving(u)
    /\ Answer(u, Reply(u, About("CLIENT_FETCH_ALL_RESULT", DOMAIN clients, {})))

\* The subscriptions of v as the fetches report them: names of services that exist.
Subscriptions(v) == clients[v].subscriptions \cap DOMAIN services

SelfFetch(u) ==
    /\ Serving(u)
    /\ Answer(u, Reply(u, About("SELF_FETCH_RESULT", {u}, Subscriptions(u))))

\* There is no answer when v is unknown.
ClientFetch(u, v) ==
    /\ Serving(u)
    /\ Answer(u, IF v \in DOMAIN clients
                 THEN Reply(u, About("CLIENT_FETCH_RESULT", {v}, Subscriptions(v)))
                 ELSE <<>>)

\* A second IDENTIFY, and text that is no payload at all.
Unsupported(u) == Serving(u) /\ Answer(u, Reply(u, Plain("ERROR_UNSUPPORTED")))
Malformed(u) == Serving(u) /\ Answer(u, Reply(u, Plain("ERROR_PROTOCOL")))

\* The unwrap of a client that is not in the table.
UnknownSender(u) ==
    /\ alive
    /\ u \notin DOMAIN clients
    /\ alive' = FALSE
    /\ out' = <<>>
    /\ UNCHANGED <<namespace, clients, services, issued>>

-----------------------------------------------------------------------------
Init ==
    /\ namespace = EmptyMap
    /\ clients = EmptyMap
    /\ services = EmptyMap
    /\ issued = {}
    /\ alive = TRUE
    /\ out = <<>>

SendMessage(u) ==
    \/ \E n \in Name : MessageToName(u, n)
    \/ \E v \in Uuid : MessageToUuid(u, v)
    \/ \E s \in Service : MessageToService(u, s)
    \/ \E s \in Service, v \in Uuid : MessageToServiceClient(u, s, v)
    \/ MessageToAll(u)

ChangeRegistry(u) ==
    \/ \E s \in Service : SelfSubscribe(u, s)
    \/ \E s \in Service : SelfUnsubscribe(u, s)
    \/ \E s \in Service : ServiceCreate(u, s)
    \/ \E s \in Service : ServiceDelete(u, s)
    \/ \E n \in SeqNumber : SelfSetSeq(u, n)

AskRegistry(u) ==
    \/ \E s \in Service : NoSuchService(u, s)
    \/ \E s \in Service : ServiceFetch(u, s)
    \/ ServiceFetchAll(u)
    \/ ClientFetchAll(u)
    \/ SelfFetch(u)
    \/ \E v \in Uuid : ClientFetch(u, v)
    \/ Unsupported(u)
    \/ Malformed(u)

Membership(u) ==
    \/ \E n \in Name : Identify(u, n)
    \/ Disconnect(u)

Next ==
    \/ \E u \in Uuid : Membership(u)
    \/ \E u \in Uuid : SendMessage(u)
    \/ \E u \in Uuid : ChangeRegistry(u)
    \/ \E u \in Uuid : AskRegistry(u)
    \/ \E u \in Uuid : UnknownSender(u)
    \/ \E n \in Name : IdentifyDuplicate(n)
    \/ DisconnectUnknown
    \/ Query

Spec == Init /\ [][Next]_vars

-----------------------------------------------------------------------------
(* Properties                                                              *)

\* The tables, and what is sent, have the shape the code gives them.
TypeOK ==
    /\ IsMap(namespace, Name, Uuid)
    /\ IsMap(clients, Uuid, Client)
    /\ IsMap(services, Service, ServiceInfo)
    /\ issued \subseteq Uuid
    /\ alive \in BOOLEAN
    /\ out \in Seq(Delivery)

\* namespace and clients are two tables of one bijection: a name leads to the
\* client that carries it, and every client can be reached by its name.
NamespaceExact ==
    /\ \A n \in DOMAIN namespace :
            namespace[n] \in DOMAIN clients /\ clients[namespace[n]].name = n
    /\ \A u \in DOMAIN clients :
            clients[u].name \in DOMAIN namespace /\ namespace[clients[u].name] = u

\* No service outlives its owner or keeps a departed subscriber, and whoever it
\* lists as a subscriber has it among its own subscriptions.  ("Group owner does
\* not exist" in handle_message is then unreachable.)
NoOrphans ==
    \A s \in DOMAIN services :
        /\ services[s].owner_uuid \in DOMAIN clients
        /\ \A u \in services[s].subscribers :
                u \in DOMAIN clients /\ s \in clients[u].subscriptions

\* Whatever the last handler sent went to clients that are still registered:
\* nothing is sent to the address of a client that this very handler removed.
MailToRegistered ==
    \A i \in DOMAIN out : out[i].to \subseteq DOMAIN clients

\* What u was told in the last handler without having asked.
Told(u, type) ==
    {i \in DOMAIN out : /\ u \in out[i].to
                        /\ out[i].payload.type = type
                        /\ out[i].payload.seq = Unsequenced}
ToldClients(u, type) == UNION {out[i].payload.clients : i \in Told(u, type)}
ToldServices(u, type) == UNION {out[i].payload.services : i \in Told(u, type)}
ToldAbout(u, type, s) ==
    UNION {out[i].payload.clients : i \in {j \in Told(u, type) : out[j].payload.services = {s}}}

Stayed == {u \in DOMAIN clients : u \in DOMAIN clients'}

\* Whoever is registered before and after a handler is told of exactly the clients
\* and the services that came or went in it, and a newcomer hears HELLO.
TellsOfChanges ==
    /\ \A u \in Stayed :
            /\ ToldClients(u, "CLIENT_JOINED")' = (DOMAIN clients)' \ DOMAIN clients
            /\ ToldClients(u, "CLIENT_LEFT")' = DOMAIN clients \ (DOMAIN clients)'
            /\ ToldServices(u, "SERVICE_CREATE_RESULT")' = (DOMAIN services)' \ DOMAIN services
            /\ ToldServices(u, "SERVICE_DELETE_RESULT")' = DOMAIN services \ (DOMAIN services)'
    /\ \A u \in (DOMAIN clients)' \ DOMAIN clients :
            \A i \in (DOMAIN out)' :
                u \in out'[i].to => out'[i].payload = About("HELLO", {u}, {})

\* A client that only listens can keep its own copy of both tables: every handler
\* tells it of exactly what changed, and a newcomer of nothing else than itself.
ChangesAnnounced == [][TellsOfChanges]_vars

TellsMembers ==
    \A s \in DOMAIN services \cap (DOMAIN services)' :
        \A u \in services[s].subscribers \cap services'[s].subscribers :
            /\ ToldAbout(u, "SERVICE_CLIENT_SUBSCRIBED", s)'
                    = services'[s].subscribers \ services[s].subscribers
            /\ services[s].subscribers \ services'[s].subscribers
                    \subseteq ToldAbout(u, "SERVICE_CLIENT_UNSUBSCRIBED", s)'

\* A subscriber of a service that survives the handler is told of everyone who
\* joined the service and of everyone who left it.
MembershipAnnounced == [][TellsMembers]_vars

NumbersReply ==
    alive' =>
        \A i \in (DOMAIN out)' : out'[i].payload.seq # Unsequenced =>
            /\ \E u \in Stayed :
                    /\ out'[i].to = {u}
                    /\ clients'[u].seq = (out'[i].payload.seq + 1) % SeqLimit
            /\ \A j \in (DOMAIN out)' : out'[j].payload.seq # Unsequenced => j = i

\* A number is on at most one payload of a handler; that payload goes to the one
\* client whose request it answers, and the next one will be numbered after it.
RepliesNumbered == [][NumbersReply]_vars

\* u is told that its own request to enter or to leave s has succeeded.
Confirmed(u, type, s) ==
    \E i \in DOMAIN out : /\ out[i].to = {u}
                          /\ out[i].payload.type = type
                          /\ out[i].payload.successful
                          /\ out[i].payload.services = {s}

LeavesToMembers ==
    \A s \in DOMAIN services \cap (DOMAIN services)' :
        /\ services'[s].owner_uuid = services[s].owner_uuid
        /\ \A u \in Stayed :
            /\ u \in services'[s].subscribers \ services[s].subscribers
                    <=> Confirmed(u, "SELF_SUBSCRIBE_RESULT", s)'
            /\ u \in services[s].subscribers \ services'[s].subscribers
                    <=> Confirmed(u, "SELF_UNSUBSCRIBE_RESULT", s)'

\* A service that stays keeps its owner, and a client that stays enters or leaves
\* it only by a request of its own, which is what the answer it gets confirms.
OwnWillOnly == [][LeavesToMembers]_vars

\* The tables implement the directory.
Dir == INSTANCE Directory WITH
    members    <- {<<namespace[n], n>> : n \in DOMAIN namespace},
    owns       <- {<<services[s].owner_uuid, s>> : s \in DOMAIN services},
    subscribed <- {b \in Uuid \X DOMAIN services : b[1] \in services[b[2]].subscribers},
    departed   <- issued \ DOMAIN clients

\* Every step of the concierge is one operation of the directory or leaves it
\* alone, so what clients see of the tables is what the directory promises.
ImplementsDirectory == Dir!Spec
=============================================================================
