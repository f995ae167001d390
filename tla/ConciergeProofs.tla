--------------------------- MODULE ConciergeProofs ---------------------------
(***************************************************************************)
(* Proofs about the Concierge actor, for every set of uuids, names and     *)
(* services, every width of the sequence numbers and both build profiles:  *)
(* first its tables, then the directory that they implement, then what     *)
(* every handler sends.                                                    *)
(***************************************************************************)
EXTENDS Concierge, SequenceTheorems, FiniteSetTheorems, TLAPS

-----------------------------------------------------------------------------
(* Maps                                                                    *)

\* Inserting a key of K with a value of V leaves a map from K to V.
LEMMA PutIsMap ==
    ASSUME NEW K, NEW V, NEW m, IsMap(m, K, V), NEW k \in K, NEW v \in V
    PROVE  /\ IsMap(Put(m, k, v), K, V)
           /\ DOMAIN Put(m, k, v) = DOMAIN m \cup {k}
           /\ Put(m, k, v)[k] = v
           /\ \A x \in DOMAIN m : x # k => Put(m, k, v)[x] = m[x]
BY DEF IsMap, Put

\* Replacing the value of a key that is there keeps the keys.
LEMMA ReplaceIsMap ==
    ASSUME NEW K, NEW V, NEW m, IsMap(m, K, V), NEW k \in DOMAIN m, NEW v \in V
    PROVE  /\ IsMap(Put(m, k, v), K, V)
           /\ DOMAIN Put(m, k, v) = DOMAIN m
           /\ Put(m, k, v)[k] = v
           /\ \A x \in DOMAIN m : x # k => Put(m, k, v)[x] = m[x]
BY DEF IsMap, Put

\* Removing a key leaves every other entry as it was.
LEMMA EraseIsMap ==
    ASSUME NEW K, NEW V, NEW m, IsMap(m, K, V), NEW k \in K
    PROVE  /\ IsMap(Erase(m, k), K, V)
           /\ DOMAIN Erase(m, k) = DOMAIN m \ {k}
           /\ \A x \in DOMAIN m : x # k => Erase(m, k)[x] = m[x]
BY DEF IsMap, Erase, Restrict

\* A map with nothing in it has any type.
LEMMA EmptyIsMap == ASSUME NEW K, NEW V PROVE IsMap(EmptyMap, K, V) /\ DOMAIN EmptyMap = {}
BY DEF IsMap, EmptyMap

-----------------------------------------------------------------------------
(* What is sent                                                            *)

\* Mail whose every recipient is among us.
Post(us) == Seq([to : SUBSET us, payload : Payload])

\* The payload constructors build payloads, numbered or not.
LEMMA PayloadMade ==
    ASSUME NEW type \in PayloadType, NEW ok \in BOOLEAN,
           NEW us \in SUBSET Uuid, NEW ss \in SUBSET Service
    PROVE  /\ Result(type, ok, us, ss) \in Payload
           /\ About(type, us, ss) \in Payload
           /\ Plain(type) \in Payload
BY DEF Result, About, Plain, Payload, Unsequenced

LEMMA PayloadNumbered ==
    ASSUME NEW p \in Payload, NEW n \in SeqNumber
    PROVE  Sequenced(p, n) \in Payload
BY DEF Sequenced, Payload

\* One delivery, or two mails one after the other, are mail.
LEMMA DeliverPost ==
    ASSUME NEW us, NEW to \in SUBSET us, NEW p \in Payload
    PROVE  Deliver(to, p) \in Post(us)
BY DEF Deliver, Post

LEMMA SendPost ==
    ASSUME NEW us, NEW u \in us, NEW p \in Payload
    PROVE  Send(u, p) \in Post(us)
BY DeliverPost DEF Send

LEMMA ConcatPost ==
    ASSUME NEW us, NEW a \in Post(us), NEW b \in Post(us)
    PROVE  a \o b \in Post(us)
BY DEF Post

LEMMA EmptyPost == ASSUME NEW us PROVE <<>> \in Post(us)
BY DEF Post

-----------------------------------------------------------------------------
(* The inductive invariant                                                 *)

\* The tables have their types, services are finite in number and the mail goes to registered clients.
Typed ==
    /\ IsMap(namespace, Name, Uuid)
    /\ IsMap(clients, Uuid, Client)
    /\ IsMap(services, Service, ServiceInfo) /\ IsFiniteSet(DOMAIN services)
    /\ issued \subseteq Uuid
    /\ alive \in BOOLEAN
    /\ out \in Post(DOMAIN clients)

\* A registered uuid was issued, so a new one is not in the table.
ClientsIssued == DOMAIN clients \subseteq issued

IInv == Typed /\ ClientsIssued /\ NamespaceExact /\ NoOrphans

\* What a mail to registered clients means for the two stated properties.
LEMMA IInvImplies == IInv => TypeOK /\ MailToRegistered
<1> SUFFICES ASSUME IInv PROVE TypeOK /\ MailToRegistered
    OBVIOUS
<1> DEFINE Mail == [to : SUBSET DOMAIN clients, payload : Payload]
<1>1. DOMAIN clients \subseteq Uuid
    BY DEF IInv, Typed, IsMap
<1>2. out \in Seq(Mail)
    BY DEF IInv, Typed, Post
<1>3. DOMAIN out = 1 .. Len(out) /\ \A i \in DOMAIN out : out[i] \in Mail
    BY <1>2, ElementOfSeq, LenProperties
<1>4. Mail \subseteq Delivery
    BY <1>1 DEF Delivery
<1>5. out \in Seq(Delivery)
    BY <1>2, <1>4, SeqMonotonic
<1>6. \A i \in DOMAIN out : out[i].to \subseteq DOMAIN clients
    BY <1>3
<1> QED
    BY <1>5, <1>6 DEF TypeOK, MailToRegistered, IInv, Typed

LEMMA InitIInv == Init => IInv
BY EmptyIsMap, EmptyPost, FS_EmptySet DEF Init, IInv, Typed, ClientsIssued, NamespaceExact, NoOrphans

-----------------------------------------------------------------------------
(* Counting a request                                                      *)

\* seq += 1 changes a number of the client table and nothing else of it.
LEMMA AdvanceEffect ==
    ASSUME alive \in BOOLEAN, NEW cs, IsMap(cs, Uuid, Client), NEW u \in DOMAIN cs,
           Advance(u, cs)
    PROVE  /\ IsMap(clients', Uuid, Client)
           /\ DOMAIN clients' = DOMAIN cs
           /\ \A v \in DOMAIN cs : /\ clients'[v].name = cs[v].name
                                   /\ clients'[v].subscriptions = cs[v].subscriptions
           /\ alive' \in BOOLEAN
<1>1. CASE OverflowChecks /\ cs[u].seq + 1 = SeqLimit
    BY <1>1 DEF Advance
<1>2. CASE ~(OverflowChecks /\ cs[u].seq + 1 = SeqLimit)
    <2>1. cs[u] \in Client
        BY DEF IsMap
    <2>2. (cs[u].seq + 1) % SeqLimit \in SeqNumber
        BY <2>1, SeqLimitAssumption DEF Client, SeqNumber
    <2>3. clients' = [cs EXCEPT ![u].seq = (@ + 1) % SeqLimit] /\ alive' = alive
        BY <1>2 DEF Advance
    <2> QED
        BY <2>1, <2>2, <2>3 DEF IsMap, Client
<1> QED
    BY <1>1, <1>2

\* A request that changes no table keeps the invariant, whatever it answers.
LEMMA AnswerKeeps ==
    ASSUME IInv, NEW u, Serving(u), NEW mail \in Post(DOMAIN clients), Answer(u, mail)
    PROVE  IInv'
<1>1. /\ IsMap(clients', Uuid, Client)
      /\ DOMAIN clients' = DOMAIN clients
      /\ \A v \in DOMAIN clients : /\ clients'[v].name = clients[v].name
                                   /\ clients'[v].subscriptions = clients[v].subscriptions
      /\ alive' \in BOOLEAN
    BY AdvanceEffect DEF IInv, Typed, Serving, Answer
<1>2. UNCHANGED <<namespace, services, issued>> /\ out' = mail
    BY DEF Answer
<1>3. Typed'
    BY <1>1, <1>2 DEF IInv, Typed
<1>4. ClientsIssued'
    BY <1>1, <1>2 DEF IInv, ClientsIssued
<1>5. NamespaceExact'
    BY <1>1, <1>2 DEF IInv, NamespaceExact
<1>6. NoOrphans'
    BY <1>1, <1>2 DEF IInv, NoOrphans
<1> QED
    BY <1>3, <1>4, <1>5, <1>6 DEF IInv

-----------------------------------------------------------------------------
(* Requests that only ask, and messages                                    *)

\* An answer goes to the registered client that asked.
LEMMA ReplyPost ==
    ASSUME IInv, NEW u, Serving(u), NEW p \in Payload
    PROVE  Reply(u, p) \in Post(DOMAIN clients)
<1>1. clients[u].seq \in SeqNumber
    BY DEF IInv, Typed, Serving, IsMap, Client
<1>2. Sequenced(p, clients[u].seq) \in Payload
    BY <1>1, PayloadNumbered
<1> QED
    BY <1>2, SendPost DEF Reply, Serving

\* The kinds of answers the requests give.
LEMMA AnswersPost ==
    ASSUME IInv, NEW u \in Uuid, Serving(u)
    PROVE  /\ \A type \in PayloadType : Reply(u, Plain(type)) \in Post(DOMAIN clients)
           /\ \A type \in PayloadType, us \in SUBSET Uuid, ss \in SUBSET Service :
                    Reply(u, About(type, us, ss)) \in Post(DOMAIN clients)
           /\ Ok(u) \in Post(DOMAIN clients)
           /\ \A s \in Service : InvalidService(u, s) \in Post(DOMAIN clients)
           /\ \A v \in Uuid : InvalidUuid(u, v) \in Post(DOMAIN clients)
           /\ \A ss \in SUBSET Service : Message(u, ss) \in Payload
<1>1. \A type \in PayloadType : Reply(u, Plain(type)) \in Post(DOMAIN clients)
    <2>1. TRUE \in BOOLEAN
        OBVIOUS
    <2> QED
        BY <2>1, PayloadMade, ReplyPost
<1>2. \A type \in PayloadType, us \in SUBSET Uuid, ss \in SUBSET Service :
            About(type, us, ss) \in Payload
    BY PayloadMade
<1>3. \A type \in PayloadType, us \in SUBSET Uuid, ss \in SUBSET Service :
            Reply(u, About(type, us, ss)) \in Post(DOMAIN clients)
    BY <1>2, ReplyPost
<1>4. {"OK", "INVALID_SERVICE", "INVALID_UUID", "MESSAGE"} \subseteq PayloadType
    BY DEF PayloadType
<1> QED
    BY <1>1, <1>2, <1>3, <1>4 DEF Ok, InvalidService, InvalidUuid, Message

LEMMA BroadcastPost ==
    ASSUME NEW cs, NEW p \in Payload
    PROVE  Broadcast(cs, p) \in Post(DOMAIN cs)
BY DeliverPost DEF Broadcast

LEMMA ServiceBroadcastPost ==
    ASSUME NEW cs, NEW service, NEW p \in Payload, NEW to_owner \in BOOLEAN
    PROVE  ServiceBroadcast(cs, service, p, to_owner) \in Post(DOMAIN cs)
BY DeliverPost DEF ServiceBroadcast

\* No message changes a table, and none reaches anybody who is not registered.
LEMMA SendMessageKeeps ==
    ASSUME IInv, NEW u \in Uuid, SendMessage(u)
    PROVE  IInv'
<1> DEFINE Reach == Post(DOMAIN clients)
<1>1. ASSUME NEW n \in Name, MessageToName(u, n) PROVE IInv'
    <2>1. Serving(u)
        BY <1>1 DEF MessageToName
    <2>2. Reply(u, Plain("INVALID_NAME")) \in Reach
        BY <2>1, AnswersPost DEF PayloadType
    <2>3. ASSUME n \in DOMAIN namespace, namespace[n] \in DOMAIN clients
          PROVE  Send(namespace[n], Message(u, {})) \o Ok(u) \in Reach
        BY <2>1, <2>3, AnswersPost, SendPost, ConcatPost
    <2> QED
        BY <1>1, <2>1, <2>2, <2>3, AnswerKeeps DEF MessageToName
<1>2. ASSUME NEW v \in Uuid, MessageToUuid(u, v) PROVE IInv'
    <2>1. Serving(u)
        BY <1>2 DEF MessageToUuid
    <2>2. InvalidUuid(u, v) \in Reach
        BY <2>1, AnswersPost
    <2>3. ASSUME v \in DOMAIN clients
          PROVE  Send(v, Message(u, {})) \o Ok(u) \in Reach
        BY <2>1, <2>3, AnswersPost, SendPost, ConcatPost
    <2> QED
        BY <1>2, <2>1, <2>2, <2>3, AnswerKeeps DEF MessageToUuid
<1>3. ASSUME NEW s \in Service, MessageToService(u, s) PROVE IInv'
    <2>1. Serving(u)
        BY <1>3 DEF MessageToService
    <2>2. /\ InvalidService(u, s) \in Reach
          /\ Reply(u, Plain("BAD")) \in Reach
          /\ Reply(u, Plain("ERROR_INTERNAL")) \in Reach
          /\ Message(u, {s}) \in Payload
          /\ Ok(u) \in Reach
        BY <2>1, AnswersPost DEF PayloadType
    <2>3. ServiceBroadcast(clients, services[s], Message(u, {s}), FALSE) \o Ok(u) \in Reach
        BY <2>2, ServiceBroadcastPost, ConcatPost
    <2>4. ASSUME services[s].owner_uuid \in DOMAIN clients
          PROVE  Send(services[s].owner_uuid, Message(u, {s})) \o Ok(u) \in Reach
        BY <2>2, <2>4, SendPost, ConcatPost
    <2>5. ServiceMail(u, s) \in Reach
        BY <2>2, <2>3, <2>4 DEF ServiceMail
    <2> QED
        BY <1>3, <2>1, <2>2, <2>5, AnswerKeeps DEF MessageToService
<1>4. ASSUME NEW s \in Service, NEW v \in Uuid, MessageToServiceClient(u, s, v) PROVE IInv'
    <2>1. Serving(u)
        BY <1>4 DEF MessageToServiceClient
    <2>2. /\ InvalidService(u, s) \in Reach
          /\ InvalidUuid(u, v) \in Reach
          /\ Reply(u, Plain("BAD")) \in Reach
        BY <2>1, AnswersPost DEF PayloadType
    <2>3. ASSUME v \in DOMAIN clients
          PROVE  Send(v, Message(u, {s})) \o Ok(u) \in Reach
        BY <2>1, <2>3, AnswersPost, SendPost, ConcatPost
    <2>4. ServiceClientMail(u, s, v) \in Reach
        BY <2>2, <2>3 DEF ServiceClientMail
    <2> QED
        BY <1>4, <2>1, <2>2, <2>4, AnswerKeeps DEF MessageToServiceClient
<1>5. ASSUME MessageToAll(u) PROVE IInv'
    <2>1. Serving(u)
        BY <1>5 DEF MessageToAll
    <2>2. Broadcast(clients, Message(u, {})) \o Ok(u) \in Reach
        BY <2>1, AnswersPost, BroadcastPost, ConcatPost
    <2> QED
        BY <1>5, <2>1, <2>2, AnswerKeeps DEF MessageToAll
<1> QED
    BY <1>1, <1>2, <1>3, <1>4, <1>5 DEF SendMessage

\* No fetch changes a table.
LEMMA AskRegistryKeeps ==
    ASSUME IInv, NEW u \in Uuid, AskRegistry(u)
    PROVE  IInv'
<1> DEFINE Reach == Post(DOMAIN clients)
<1>1. Serving(u)
    BY DEF AskRegistry, NoSuchService, ServiceFetch, ServiceFetchAll, ClientFetchAll,
           SelfFetch, ClientFetch, Unsupported, Malformed
<1>2. DOMAIN clients \subseteq Uuid /\ DOMAIN services \subseteq Service
    BY DEF IInv, Typed, IsMap
<1>3. \A v : Subscriptions(v) \subseteq Service
    BY <1>2 DEF Subscriptions
<1>4. <<>> \in Reach
    BY EmptyPost
<1>5. \A s \in Service : /\ InvalidService(u, s) \in Reach
                         /\ Reply(u, About("SERVICE_FETCH_RESULT", {}, {s})) \in Reach
    BY <1>1, AnswersPost DEF PayloadType
<1>6. /\ Reply(u, About("SERVICE_FETCH_ALL_RESULT", {}, DOMAIN services)) \in Reach
      /\ Reply(u, About("CLIENT_FETCH_ALL_RESULT", DOMAIN clients, {})) \in Reach
      /\ Reply(u, About("SELF_FETCH_RESULT", {u}, Subscriptions(u))) \in Reach
      /\ \A v \in Uuid :
            Reply(u, About("CLIENT_FETCH_RESULT", {v}, Subscriptions(v))) \in Reach
    BY <1>1, <1>2, <1>3, AnswersPost DEF PayloadType
<1>7. /\ Reply(u, Plain("ERROR_UNSUPPORTED")) \in Reach
      /\ Reply(u, Plain("ERROR_PROTOCOL")) \in Reach
    BY <1>1, AnswersPost DEF PayloadType
<1>8. \E mail \in Reach : Answer(u, mail)
    BY <1>4, <1>5, <1>6, <1>7 DEF AskRegistry, NoSuchService, ServiceFetch,
        ServiceFetchAll, ClientFetchAll, SelfFetch, ClientFetch, Unsupported, Malformed
<1> QED
    BY <1>1, <1>8, AnswerKeeps

-----------------------------------------------------------------------------
(* Requests that change the tables                                         *)

\* What every such request does to the client table: at most one client's
\* subscriptions differ, and the domain and the names stay.
LEMMA ClientsKept ==
    ASSUME IInv, NEW cs, IsMap(cs, Uuid, Client), DOMAIN cs = DOMAIN clients,
           \A v \in DOMAIN clients : cs[v].name = clients[v].name,
           NEW u \in DOMAIN clients, Advance(u, cs), UNCHANGED <<namespace, issued>>
    PROVE  /\ IsMap(clients', Uuid, Client)
           /\ DOMAIN clients' = DOMAIN clients
           /\ \A v \in DOMAIN clients : clients'[v].subscriptions = cs[v].subscriptions
           /\ alive' \in BOOLEAN
           /\ NamespaceExact'
           /\ ClientsIssued'
<1>1. /\ IsMap(clients', Uuid, Client)
      /\ DOMAIN clients' = DOMAIN clients
      /\ \A v \in DOMAIN clients : /\ clients'[v].name = clients[v].name
                                   /\ clients'[v].subscriptions = cs[v].subscriptions
      /\ alive' \in BOOLEAN
    BY AdvanceEffect DEF IInv, Typed
<1>2. NamespaceExact'
    BY <1>1 DEF IInv, NamespaceExact
<1>3. ClientsIssued'
    BY <1>1 DEF IInv, ClientsIssued
<1> QED
    BY <1>1, <1>2, <1>3

LEMMA SelfSubscribeKeeps ==
    ASSUME IInv, NEW u \in Uuid, NEW s \in Service, SelfSubscribe(u, s)
    PROVE  IInv'
<1> DEFINE joined == [services[s] EXCEPT !.subscribers = @ \cup {u}]
           cs == [clients EXCEPT ![u].subscriptions = @ \cup {s}]
           result == Result("SELF_SUBSCRIBE_RESULT", u \notin services[s].subscribers, {}, {s})
           told == ServiceBroadcast(clients, joined,
                        About("SERVICE_CLIENT_SUBSCRIBED", {u}, {s}), TRUE)
<1>1. Serving(u) /\ s \in DOMAIN services
    BY DEF SelfSubscribe, AddSubscriber, Subscribing
<1>2. clients[u] \in Client /\ services[s] \in ServiceInfo
    BY <1>1 DEF IInv, Typed, IsMap, Serving
<1>3. /\ joined \in ServiceInfo
      /\ joined.owner_uuid = services[s].owner_uuid
      /\ joined.subscribers = services[s].subscribers \cup {u}
    BY <1>2 DEF ServiceInfo
<1>4. /\ IsMap(cs, Uuid, Client)
      /\ DOMAIN cs = DOMAIN clients
      /\ \A v \in DOMAIN clients :
            /\ cs[v].name = clients[v].name
            /\ cs[v].subscriptions = IF v = u THEN clients[v].subscriptions \cup {s}
                                     ELSE clients[v].subscriptions
    BY <1>1, <1>2 DEF IInv, Typed, IsMap, Client
<1>5. /\ services' = Put(services, s, joined)
      /\ Advance(u, cs)
      /\ UNCHANGED <<namespace, issued>>
    BY DEF SelfSubscribe, AddSubscriber, Subscribing
<1>6. /\ IsMap(services', Service, ServiceInfo)
      /\ DOMAIN services' = DOMAIN services
      /\ services'[s] = joined
      /\ \A t \in DOMAIN services : t # s => services'[t] = services[t]
    <2>1. IsMap(services, Service, ServiceInfo)
        BY DEF IInv, Typed
    <2> HIDE DEF joined
    <2> QED
        BY <1>1, <1>3, <1>5, <2>1, ReplaceIsMap
<1>7. /\ IsMap(clients', Uuid, Client)
      /\ DOMAIN clients' = DOMAIN clients
      /\ \A v \in DOMAIN clients : clients'[v].subscriptions = cs[v].subscriptions
      /\ alive' \in BOOLEAN
      /\ NamespaceExact'
      /\ ClientsIssued'
    BY <1>1, <1>4, <1>5, ClientsKept DEF Serving
<1>8. out' \in Post(DOMAIN clients)
    <2>1. {"SELF_SUBSCRIBE_RESULT", "SERVICE_CLIENT_SUBSCRIBED"} \subseteq PayloadType
        BY DEF PayloadType
    <2>2. result \in Payload /\ About("SERVICE_CLIENT_SUBSCRIBED", {u}, {s}) \in Payload
        <3>1. (u \notin services[s].subscribers) \in BOOLEAN
            OBVIOUS
        <3>2. result \in Payload
            BY <2>1, <3>1, PayloadMade
        <3> QED
            BY <2>1, <3>2, PayloadMade
    <2>3. /\ Reply(u, result) \in Post(DOMAIN clients)
          /\ told \in Post(DOMAIN clients)
          /\ <<>> \in Post(DOMAIN clients)
        BY <1>1, <2>2, ReplyPost, ServiceBroadcastPost, EmptyPost
    <2>4. Reply(u, result) \o told \in Post(DOMAIN clients)
        BY <2>3, ConcatPost
    <2>5. Reply(u, result) \o <<>> \in Post(DOMAIN clients)
        BY <2>3, ConcatPost
    <2>6. \/ out' = Reply(u, result) \o told
          \/ out' = Reply(u, result) \o <<>>
        BY DEF SelfSubscribe, AddSubscriber, Subscribing
    <2> QED
        BY <2>4, <2>5, <2>6
<1>9. Typed'
    BY <1>5, <1>6, <1>7, <1>8 DEF IInv, Typed
<1>10. NoOrphans'
    <2>1. NoOrphans /\ u \in DOMAIN clients
        BY <1>1 DEF IInv, Serving
    <2>2. \A t \in DOMAIN services' : services'[t].owner_uuid = services[t].owner_uuid
        BY <1>3, <1>6
    <2>3. \A t \in DOMAIN services' : \A v \in services'[t].subscribers :
                v \in services[t].subscribers \/ (t = s /\ v = u)
        BY <1>3, <1>6
    <2>4. \A v \in DOMAIN clients : clients[v].subscriptions \subseteq clients'[v].subscriptions
        BY <1>4, <1>7
    <2>5. s \in clients'[u].subscriptions
        BY <1>4, <1>7, <2>1
    <2> QED
        BY <1>6, <1>7, <2>1, <2>2, <2>3, <2>4, <2>5 DEF NoOrphans
<1> QED
    BY <1>7, <1>9, <1>10 DEF IInv

LEMMA SelfUnsubscribeKeeps ==
    ASSUME IInv, NEW u \in Uuid, NEW s \in Service, SelfUnsubscribe(u, s)
    PROVE  IInv'
<1> DEFINE left == WithoutSubscriber(services[s], u)
           cs == [clients EXCEPT ![u].subscriptions = @ \ {s}]
           result == Result("SELF_UNSUBSCRIBE_RESULT", u \in services[s].subscribers, {}, {s})
           told == ServiceBroadcast(clients, left,
                        About("SERVICE_CLIENT_UNSUBSCRIBED", {u}, {s}), TRUE)
<1>1. Serving(u) /\ s \in DOMAIN services
    BY DEF SelfUnsubscribe, Unsubscribing
<1>2. clients[u] \in Client /\ services[s] \in ServiceInfo
    BY <1>1 DEF IInv, Typed, IsMap, Serving
<1>3. /\ left \in ServiceInfo
      /\ left.owner_uuid = services[s].owner_uuid
      /\ left.subscribers = services[s].subscribers \ {u}
    BY <1>2 DEF ServiceInfo, WithoutSubscriber
<1>4. /\ IsMap(cs, Uuid, Client)
      /\ DOMAIN cs = DOMAIN clients
      /\ \A v \in DOMAIN clients :
            /\ cs[v].name = clients[v].name
            /\ v # u => cs[v].subscriptions = clients[v].subscriptions
            /\ cs[v].subscriptions \cup {s} = clients[v].subscriptions \cup {s}
    BY <1>1, <1>2 DEF IInv, Typed, IsMap, Client
<1>5. /\ services' = Put(services, s, left)
      /\ Advance(u, cs)
      /\ UNCHANGED <<namespace, issued>>
    BY DEF SelfUnsubscribe, Unsubscribing
<1>6. /\ IsMap(services', Service, ServiceInfo)
      /\ DOMAIN services' = DOMAIN services
      /\ services'[s] = left
      /\ \A t \in DOMAIN services : t # s => services'[t] = services[t]
    <2>1. IsMap(services, Service, ServiceInfo)
        BY DEF IInv, Typed
    <2> HIDE DEF left
    <2> QED
        BY <1>1, <1>3, <1>5, <2>1, ReplaceIsMap
<1>7. /\ IsMap(clients', Uuid, Client)
      /\ DOMAIN clients' = DOMAIN clients
      /\ \A v \in DOMAIN clients : clients'[v].subscriptions = cs[v].subscriptions
      /\ alive' \in BOOLEAN
      /\ NamespaceExact'
      /\ ClientsIssued'
    BY <1>1, <1>4, <1>5, ClientsKept DEF Serving
<1>8. out' \in Post(DOMAIN clients)
    <2>1. {"SELF_UNSUBSCRIBE_RESULT", "SERVICE_CLIENT_UNSUBSCRIBED"} \subseteq PayloadType
        BY DEF PayloadType
    <2>2. result \in Payload /\ About("SERVICE_CLIENT_UNSUBSCRIBED", {u}, {s}) \in Payload
        <3>1. (u \in services[s].subscribers) \in BOOLEAN
            OBVIOUS
        <3>2. result \in Payload
            BY <2>1, <3>1, PayloadMade
        <3> QED
            BY <2>1, <3>2, PayloadMade
    <2>3. /\ Reply(u, result) \in Post(DOMAIN clients)
          /\ told \in Post(DOMAIN clients)
          /\ <<>> \in Post(DOMAIN clients)
        BY <1>1, <2>2, ReplyPost, ServiceBroadcastPost, EmptyPost
    <2>4. Reply(u, result) \o told \in Post(DOMAIN clients)
        BY <2>3, ConcatPost
    <2>5. Reply(u, result) \o <<>> \in Post(DOMAIN clients)
        BY <2>3, ConcatPost
    <2>6. \/ out' = Reply(u, result) \o told
          \/ out' = Reply(u, result) \o <<>>
        BY DEF SelfUnsubscribe, Unsubscribing
    <2> QED
        BY <2>4, <2>5, <2>6
<1>9. Typed'
    BY <1>5, <1>6, <1>7, <1>8 DEF IInv, Typed
<1>10. NoOrphans'
    <2>1. NoOrphans
        BY DEF IInv
    <2>2. \A t \in DOMAIN services', v \in DOMAIN clients :
            v \in services'[t].subscribers =>
                v \in services[t].subscribers /\ (t # s \/ v # u)
        BY <1>3, <1>6
    <2>3. \A t \in DOMAIN services' : services'[t].owner_uuid = services[t].owner_uuid
        BY <1>3, <1>6
    <2>4. \A t \in DOMAIN services' : services'[t].subscribers \subseteq services[t].subscribers
        BY <1>3, <1>6
    <2>5. \A t \in DOMAIN services, v \in DOMAIN clients :
            t \in clients[v].subscriptions /\ (t # s \/ v # u) => t \in clients'[v].subscriptions
        BY <1>4, <1>7
    <2> QED
        BY <1>6, <1>7, <2>1, <2>2, <2>3, <2>4, <2>5 DEF NoOrphans
<1> QED
    BY <1>7, <1>9, <1>10 DEF IInv

LEMMA SelfSetSeqKeeps ==
    ASSUME IInv, NEW u \in Uuid, NEW n \in SeqNumber, SelfSetSeq(u, n)
    PROVE  IInv'
<1> DEFINE cs == [clients EXCEPT ![u].seq = n]
<1>1. Serving(u) /\ Advance(u, cs) /\ UNCHANGED <<namespace, services, issued>>
    BY DEF SelfSetSeq
<1>2. /\ IsMap(cs, Uuid, Client)
      /\ DOMAIN cs = DOMAIN clients
      /\ \A v \in DOMAIN clients : /\ cs[v].name = clients[v].name
                                   /\ cs[v].subscriptions = clients[v].subscriptions
    BY <1>1 DEF IInv, Typed, IsMap, Client, Serving
<1>3. /\ IsMap(clients', Uuid, Client)
      /\ DOMAIN clients' = DOMAIN clients
      /\ \A v \in DOMAIN clients : clients'[v].subscriptions = cs[v].subscriptions
      /\ alive' \in BOOLEAN
      /\ NamespaceExact'
      /\ ClientsIssued'
    BY <1>1, <1>2, ClientsKept DEF Serving
<1>4. out' \in Post(DOMAIN clients)
    <2>1. Plain("OK") \in Payload
        BY PayloadMade DEF PayloadType
    <2>2. Sequenced(Plain("OK"), n) \in Payload
        BY <2>1, PayloadNumbered
    <2> QED
        BY <1>1, <2>2, SendPost DEF SelfSetSeq, Serving
<1>5. Typed'
    BY <1>1, <1>3, <1>4 DEF IInv, Typed
<1>6. NoOrphans'
    BY <1>1, <1>2, <1>3 DEF IInv, NoOrphans
<1> QED
    BY <1>3, <1>5, <1>6 DEF IInv

LEMMA ServiceCreateKeeps ==
    ASSUME IInv, NEW u \in Uuid, NEW s \in Service, ServiceCreate(u, s)
    PROVE  IInv'
<1> DEFINE ok == s \notin DOMAIN services
           result == Result("SERVICE_CREATE_RESULT", ok, {}, {s})
           new == [owner_uuid |-> u, subscribers |-> {}]
<1>1. Serving(u) /\ Advance(u, clients) /\ UNCHANGED <<namespace, issued>>
    BY DEF ServiceCreate, Creating
<1>2. /\ IsMap(clients', Uuid, Client)
      /\ DOMAIN clients' = DOMAIN clients
      /\ \A v \in DOMAIN clients : clients'[v].subscriptions = clients[v].subscriptions
      /\ alive' \in BOOLEAN
      /\ NamespaceExact'
      /\ ClientsIssued'
    BY <1>1, ClientsKept DEF IInv, Typed, Serving
<1>3. result \in Payload /\ result.successful = ok
    <2>1. "SERVICE_CREATE_RESULT" \in PayloadType /\ ok \in BOOLEAN
        BY DEF PayloadType
    <2> QED
        BY <2>1, PayloadMade DEF Result
<1>4. \/ ok /\ services' = Put(services, s, new) /\ out' = Broadcast(clients, result) \o Reply(u, result)
      \/ services' = services /\ out' = Reply(u, result)
    BY <1>3 DEF ServiceCreate, Creating
<1>5. out' \in Post(DOMAIN clients)
    <2>1. Reply(u, result) \in Post(DOMAIN clients) /\ Broadcast(clients, result) \in Post(DOMAIN clients)
        BY <1>1, <1>3, ReplyPost, BroadcastPost
    <2>2. Broadcast(clients, result) \o Reply(u, result) \in Post(DOMAIN clients)
        BY <2>1, ConcatPost
    <2> QED
        BY <1>4, <2>1, <2>2
<1>6. CASE services' = services
    BY <1>1, <1>2, <1>5, <1>6 DEF IInv, Typed, NoOrphans
<1>7. CASE ok /\ services' = Put(services, s, new)
    <2>1. new \in ServiceInfo /\ new.owner_uuid = u /\ new.subscribers = {}
        BY DEF ServiceInfo
    <2>2. IsMap(services, Service, ServiceInfo) /\ IsFiniteSet(DOMAIN services)
        BY DEF IInv, Typed
    <2>3. /\ IsMap(services', Service, ServiceInfo)
          /\ DOMAIN services' = DOMAIN services \cup {s}
          /\ services'[s] = new
          /\ \A t \in DOMAIN services : t # s => services'[t] = services[t]
        <3> HIDE DEF new
        <3> QED
            BY <1>7, <2>1, <2>2, PutIsMap
    <2>4. IsFiniteSet(DOMAIN services')
        BY <2>2, <2>3, FS_AddElement
    <2>5. Typed'
        BY <1>1, <1>2, <1>5, <2>3, <2>4 DEF IInv, Typed
    <2>6. NoOrphans'
        BY <1>1, <1>2, <1>7, <2>1, <2>3 DEF IInv, NoOrphans, Serving
    <2> QED
        BY <1>2, <2>5, <2>6 DEF IInv
<1> QED
    BY <1>4, <1>6, <1>7

LEMMA ServiceDeleteKeeps ==
    ASSUME IInv, NEW u \in Uuid, NEW s \in Service, ServiceDelete(u, s)
    PROVE  IInv'
<1> DEFINE result == About("SERVICE_DELETE_RESULT", {}, {s})
<1>1. Serving(u) /\ Advance(u, clients) /\ UNCHANGED <<namespace, issued>>
    BY DEF ServiceDelete, Removing
<1>2. /\ IsMap(clients', Uuid, Client)
      /\ DOMAIN clients' = DOMAIN clients
      /\ \A v \in DOMAIN clients : clients'[v].subscriptions = clients[v].subscriptions
      /\ alive' \in BOOLEAN
      /\ NamespaceExact'
      /\ ClientsIssued'
    BY <1>1, ClientsKept DEF IInv, Typed, Serving
<1>3. result \in Payload /\ Plain("BAD") \in Payload
    BY PayloadMade DEF PayloadType
<1>4. \/ services' = Erase(services, s) /\ out' = Broadcast(clients, result) \o Reply(u, result)
      \/ services' = services /\ out' = Send(u, Plain("BAD"))
    BY DEF ServiceDelete, Removing
<1>5. out' \in Post(DOMAIN clients)
    <2>1. /\ Reply(u, result) \in Post(DOMAIN clients)
          /\ Broadcast(clients, result) \in Post(DOMAIN clients)
          /\ Send(u, Plain("BAD")) \in Post(DOMAIN clients)
        BY <1>1, <1>3, ReplyPost, BroadcastPost, SendPost DEF Serving
    <2>2. Broadcast(clients, result) \o Reply(u, result) \in Post(DOMAIN clients)
        BY <2>1, ConcatPost
    <2> QED
        BY <1>4, <2>1, <2>2
<1>6. CASE services' = services
    BY <1>1, <1>2, <1>5, <1>6 DEF IInv, Typed, NoOrphans
<1>7. CASE services' = Erase(services, s)
    <2>1. IsMap(services, Service, ServiceInfo) /\ IsFiniteSet(DOMAIN services)
        BY DEF IInv, Typed
    <2>2. /\ IsMap(services', Service, ServiceInfo)
          /\ DOMAIN services' = DOMAIN services \ {s}
          /\ \A t \in DOMAIN services : t # s => services'[t] = services[t]
        BY <1>7, <2>1, EraseIsMap
    <2>3. IsFiniteSet(DOMAIN services')
        BY <2>1, <2>2, FS_RemoveElement
    <2>4. Typed'
        BY <1>1, <1>2, <1>5, <2>2, <2>3 DEF IInv, Typed
    <2>5. NoOrphans'
        BY <1>1, <1>2, <2>2 DEF IInv, NoOrphans
    <2> QED
        BY <1>2, <2>4, <2>5 DEF IInv
<1> QED
    BY <1>4, <1>6, <1>7

LEMMA ChangeRegistryKeeps ==
    ASSUME IInv, NEW u \in Uuid, ChangeRegistry(u)
    PROVE  IInv'
BY SelfSubscribeKeeps, SelfUnsubscribeKeeps, ServiceCreateKeeps, ServiceDeleteKeeps,
   SelfSetSeqKeeps DEF ChangeRegistry

-----------------------------------------------------------------------------
(* Arrival and departure                                                   *)

LEMMA IdentifyKeeps ==
    ASSUME IInv, NEW u \in Uuid, NEW n \in Name, Identify(u, n)
    PROVE  IInv'
<1> DEFINE new == [name |-> n, seq |-> 0, subscriptions |-> {}]
<1>1. /\ n \notin DOMAIN namespace /\ u \notin DOMAIN clients
      /\ namespace' = Put(namespace, n, u)
      /\ clients' = Put(clients, u, new)
      /\ issued' = issued \cup {u}
      /\ UNCHANGED <<services, alive>>
    BY DEF Identify, NameFree, IInv, ClientsIssued
<1>2. new \in Client /\ new.name = n
    BY SeqLimitAssumption DEF Client, SeqNumber
<1>3. IsMap(namespace, Name, Uuid) /\ IsMap(clients, Uuid, Client)
    BY DEF IInv, Typed
<1>4. /\ IsMap(namespace', Name, Uuid)
      /\ DOMAIN namespace' = DOMAIN namespace \cup {n}
      /\ namespace'[n] = u
      /\ \A x \in DOMAIN namespace : x # n => namespace'[x] = namespace[x]
    BY <1>1, <1>3, PutIsMap
<1>5. /\ IsMap(clients', Uuid, Client)
      /\ DOMAIN clients' = DOMAIN clients \cup {u}
      /\ clients'[u] = new
      /\ \A v \in DOMAIN clients : v # u => clients'[v] = clients[v]
    <2> HIDE DEF new
    <2> QED
        BY <1>1, <1>2, <1>3, PutIsMap
<1>6. out' \in Post(DOMAIN clients')
    <2>1. About("CLIENT_JOINED", {u}, {}) \in Payload /\ About("HELLO", {u}, {}) \in Payload
        BY PayloadMade DEF PayloadType
    <2>2. Broadcast(clients, About("CLIENT_JOINED", {u}, {})) \in Post(DOMAIN clients')
        BY <1>5, <2>1, DeliverPost DEF Broadcast
    <2>3. Send(u, About("HELLO", {u}, {})) \in Post(DOMAIN clients')
        BY <1>5, <2>1, SendPost
    <2> QED
        BY <2>2, <2>3, ConcatPost DEF Identify
<1>7. Typed'
    BY <1>1, <1>4, <1>5, <1>6 DEF IInv, Typed
<1>8. ClientsIssued'
    BY <1>1, <1>5 DEF IInv, ClientsIssued
<1>9. NamespaceExact'
    <2>1. NamespaceExact
        BY DEF IInv
    <2>2. clients'[u].name = n
        BY <1>2, <1>5
    <2>3. \A x \in DOMAIN namespace : x # n /\ namespace'[x] = namespace[x] /\ namespace[x] # u
        BY <1>1, <1>4, <2>1 DEF NamespaceExact
    <2>4. \A v \in DOMAIN clients : v # u /\ clients'[v] = clients[v]
        BY <1>1, <1>5
    <2> QED
        BY <1>4, <1>5, <2>1, <2>2, <2>3, <2>4 DEF NamespaceExact
<1>10. NoOrphans'
    BY <1>1, <1>5 DEF IInv, NoOrphans
<1> QED
    BY <1>7, <1>8, <1>9, <1>10 DEF IInv

\* Each announcement of a departure goes to clients other than the leaver.
LEMMA FarewellPost ==
    ASSUME IInv, NEW u \in Uuid,
           NEW gone \in SetToSeqs(Owned(u)),
           NEW kept \in SetToSeqs(DOMAIN services \ Owned(u))
    PROVE  Farewell(u, gone, kept) \in Post(Rest(u))
<1> DEFINE Mail == [to : SUBSET Rest(u), payload : Payload]
           Deleted(i) == [to |-> Rest(u), payload |-> About("SERVICE_DELETE_RESULT", {}, {gone[i]})]
           Left(i) == [to |-> services[kept[i]].subscribers \cap Rest(u),
                       payload |-> About("SERVICE_CLIENT_UNSUBSCRIBED", {u}, {kept[i]})]
<1>1. IsFiniteSet(Owned(u)) /\ IsFiniteSet(DOMAIN services \ Owned(u))
    BY FS_Subset DEF IInv, Typed, Owned
<1>2. /\ Cardinality(Owned(u)) \in Nat
      /\ Cardinality(DOMAIN services \ Owned(u)) \in Nat
    BY <1>1, FS_CardinalityType
<1>3. /\ gone \in [1 .. Cardinality(Owned(u)) -> Service]
      /\ kept \in [1 .. Cardinality(DOMAIN services \ Owned(u)) -> Service]
    BY DEF SetToSeqs, Owned, IInv, Typed, IsMap
<1>4. /\ Len(gone) \in Nat /\ gone \in [1 .. Len(gone) -> Service]
      /\ Len(kept) \in Nat /\ kept \in [1 .. Len(kept) -> Service]
    <2>1. gone \in Seq(Service) /\ kept \in Seq(Service)
        <3>1. \A n \in Nat : [1 .. n -> Service] \subseteq Seq(Service)
            BY SeqDef
        <3> QED
            BY <1>2, <1>3, <3>1
    <2> QED
        BY <2>1, LenProperties
<1>5. {"SERVICE_DELETE_RESULT", "SERVICE_CLIENT_UNSUBSCRIBED", "CLIENT_LEFT"} \subseteq PayloadType
    BY DEF PayloadType
<1>6. \A i \in 1 .. Len(gone) : Deleted(i) \in Mail
    BY <1>4, <1>5, PayloadMade
<1>7. \A i \in 1 .. Len(kept) : Left(i) \in Mail
    BY <1>4, <1>5, PayloadMade
<1>8. [i \in 1 .. Len(gone) |-> Deleted(i)] \in Post(Rest(u))
    <2>1. [i \in 1 .. Len(gone) |-> Deleted(i)] \in [1 .. Len(gone) -> Mail]
        BY <1>6
    <2> HIDE DEF Deleted, Mail
    <2>2. [i \in 1 .. Len(gone) |-> Deleted(i)] \in Seq(Mail)
        BY <1>4, <2>1, SeqDef
    <2> QED
        BY <2>2 DEF Mail, Post
<1>9. [i \in 1 .. Len(kept) |-> Left(i)] \in Post(Rest(u))
    <2>1. [i \in 1 .. Len(kept) |-> Left(i)] \in [1 .. Len(kept) -> Mail]
        BY <1>7
    <2> HIDE DEF Left, Mail
    <2>2. [i \in 1 .. Len(kept) |-> Left(i)] \in Seq(Mail)
        BY <1>4, <2>1, SeqDef
    <2> QED
        BY <2>2 DEF Mail, Post
<1>10. Deliver(Rest(u), About("CLIENT_LEFT", {u}, {})) \in Post(Rest(u))
    BY <1>5, PayloadMade, DeliverPost
<1> QED
    BY <1>8, <1>9, <1>10, ConcatPost DEF Farewell

LEMMA DisconnectKeeps ==
    ASSUME IInv, NEW u \in Uuid, Disconnect(u)
    PROVE  IInv'
<1> DEFINE keeping == DOMAIN services \ Owned(u)
<1>1. /\ u \in DOMAIN clients
      /\ clients' = Erase(clients, u)
      /\ namespace' = Erase(namespace, clients[u].name)
      /\ services' = [s \in keeping |-> WithoutSubscriber(services[s], u)]
      /\ UNCHANGED <<issued, alive>>
    BY DEF Disconnect
<1>2. /\ IsMap(clients', Uuid, Client)
      /\ DOMAIN clients' = DOMAIN clients \ {u}
      /\ \A v \in DOMAIN clients : v # u => clients'[v] = clients[v]
    <2>1. IsMap(clients, Uuid, Client)
        BY DEF IInv, Typed
    <2> QED
        BY <1>1, <2>1, EraseIsMap
<1>3. /\ IsMap(namespace', Name, Uuid)
      /\ DOMAIN namespace' = DOMAIN namespace \ {clients[u].name}
      /\ \A n \in DOMAIN namespace : n # clients[u].name => namespace'[n] = namespace[n]
    <2>1. IsMap(namespace, Name, Uuid)
        BY DEF IInv, Typed
    <2>2. clients[u].name \in Name
        BY <1>1 DEF IInv, Typed, IsMap, Client
    <2> QED
        BY <1>1, <2>1, <2>2, EraseIsMap
<1>4. \A s \in DOMAIN services : /\ services[s] \in ServiceInfo
                                 /\ WithoutSubscriber(services[s], u) \in ServiceInfo
                                 /\ WithoutSubscriber(services[s], u).owner_uuid = services[s].owner_uuid
                                 /\ WithoutSubscriber(services[s], u).subscribers
                                        = services[s].subscribers \ {u}
    BY DEF IInv, Typed, IsMap, ServiceInfo, WithoutSubscriber
<1>5. /\ DOMAIN services' = keeping
      /\ IsMap(services', Service, ServiceInfo)
      /\ IsFiniteSet(DOMAIN services')
    <2>1. DOMAIN services' = keeping
        BY <1>1
    <2>2. IsMap(services', Service, ServiceInfo)
        BY <1>1, <1>4, <2>1 DEF IInv, Typed, IsMap
    <2> QED
        BY <2>1, <2>2, FS_Subset DEF IInv, Typed
<1>6. out' \in Post(DOMAIN clients')
    <2>1. Rest(u) = DOMAIN clients'
        BY <1>2 DEF Rest
    <2> QED
        BY <2>1, FarewellPost DEF Disconnect
<1>7. Typed'
    BY <1>1, <1>2, <1>3, <1>5, <1>6 DEF IInv, Typed
<1>8. ClientsIssued'
    BY <1>1, <1>2 DEF IInv, ClientsIssued
<1>9. NamespaceExact'
    BY <1>1, <1>2, <1>3 DEF IInv, NamespaceExact
<1>10. NoOrphans'
    <2>1. \A s \in DOMAIN services' : /\ services'[s].owner_uuid = services[s].owner_uuid
                                      /\ services'[s].owner_uuid # u
                                      /\ services'[s].subscribers = services[s].subscribers \ {u}
        BY <1>1, <1>4, <1>5 DEF Owned
    <2> QED
        BY <1>2, <1>5, <2>1 DEF IInv, NoOrphans
<1> QED
    BY <1>7, <1>8, <1>9, <1>10 DEF IInv

-----------------------------------------------------------------------------
(* The theorems about the tables                                           *)

LEMMA NextIInv == IInv /\ [Next]_vars => IInv'
<1> SUFFICES ASSUME IInv, [Next]_vars PROVE IInv'
    OBVIOUS
<1>1. ASSUME NEW u \in Uuid, Membership(u) PROVE IInv'
    BY <1>1, IdentifyKeeps, DisconnectKeeps DEF Membership
<1>2. ASSUME NEW u \in Uuid, SendMessage(u) PROVE IInv'
    BY <1>2, SendMessageKeeps
<1>3. ASSUME NEW u \in Uuid, ChangeRegistry(u) PROVE IInv'
    BY <1>3, ChangeRegistryKeeps
<1>4. ASSUME NEW u \in Uuid, AskRegistry(u) PROVE IInv'
    BY <1>4, AskRegistryKeeps
<1>5. ASSUME NEW u \in Uuid, UnknownSender(u) PROVE IInv'
    BY <1>5, EmptyPost DEF UnknownSender, IInv, Typed, ClientsIssued, NamespaceExact, NoOrphans
<1>6. ASSUME NEW n \in Name, IdentifyDuplicate(n) PROVE IInv'
    BY <1>6, EmptyPost DEF IdentifyDuplicate, IInv, Typed, ClientsIssued, NamespaceExact, NoOrphans
<1>7. ASSUME DisconnectUnknown \/ Query PROVE IInv'
    BY <1>7, EmptyPost DEF DisconnectUnknown, Query, IInv, Typed, ClientsIssued,
        NamespaceExact, NoOrphans
<1>8. CASE UNCHANGED vars
    BY <1>8 DEF vars, IInv, Typed, ClientsIssued, NamespaceExact, NoOrphans
<1> QED
    BY <1>1, <1>2, <1>3, <1>4, <1>5, <1>6, <1>7, <1>8 DEF Next

\* The inductive invariant holds in every reachable state.
THEOREM Invariance == Spec => []IInv
<1>1. Init => IInv
    BY InitIInv
<1>2. IInv /\ [Next]_vars => IInv'
    BY NextIInv
<1> QED
    BY <1>1, <1>2, PTL DEF Spec

\* The tables and the mail keep their types in every reachable state.
THEOREM TypeCorrect == Spec => []TypeOK
BY Invariance, IInvImplies, PTL

\* Names and clients are one bijection, whatever clients arrive, ask and leave.
THEOREM NamesExact == Spec => []NamespaceExact
<1>1. IInv => NamespaceExact
    BY DEF IInv
<1> QED
    BY <1>1, Invariance, PTL

\* No service is left with an owner or a subscriber that is gone.
THEOREM NothingOrphaned == Spec => []NoOrphans
<1>1. IInv => NoOrphans
    BY DEF IInv
<1> QED
    BY <1>1, Invariance, PTL

\* A handler only sends to clients that are still registered when it ends.
THEOREM MailOnlyToRegistered == Spec => []MailToRegistered
BY Invariance, IInvImplies, PTL

-----------------------------------------------------------------------------
(* The directory: every handler is one of its operations, or none          *)

\* The four tables of the directory, as the concierge's tables hold them.
Members == {<<namespace[n], n>> : n \in DOMAIN namespace}
Owns == {<<services[s].owner_uuid, s>> : s \in DOMAIN services}
Subscribed == {b \in Uuid \X DOMAIN services : b[1] \in services[b[2]].subscribers}
Departed == issued \ DOMAIN clients

LEMMA InitRefines == Init => Dir!Init
BY EmptyIsMap DEF Init, Dir!Init

\* Who is present and what is offered can be read off the concierge's tables.
LEMMA PresentOffered ==
    ASSUME IInv
    PROVE  /\ {m[1] : m \in Members} = DOMAIN clients
           /\ {m[2] : m \in Members} = DOMAIN namespace
           /\ {o[2] : o \in Owns} = DOMAIN services
<1>1. \A n \in DOMAIN namespace :
        \E m \in Members : m[1] = namespace[n] /\ m[2] = n
    <2>1. \A n \in DOMAIN namespace : <<namespace[n], n>> \in Members
        BY DEF Members
    <2> QED
        BY <2>1
<1>2. \A m \in Members : \E n \in DOMAIN namespace : m[1] = namespace[n] /\ m[2] = n
    BY DEF Members
<1>3. \A s \in DOMAIN services : \E o \in Owns : o[2] = s
    <2>1. \A s \in DOMAIN services : <<services[s].owner_uuid, s>> \in Owns
        BY DEF Owns
    <2> QED
        BY <2>1
<1>4. \A o \in Owns : o[2] \in DOMAIN services
    BY DEF Owns
<1>5. \A u \in DOMAIN clients : \E n \in DOMAIN namespace : namespace[n] = u
    BY DEF IInv, NamespaceExact
<1>6. \A n \in DOMAIN namespace : namespace[n] \in DOMAIN clients
    BY DEF IInv, NamespaceExact
<1>7. {m[1] : m \in Members} = DOMAIN clients
    <2>1. \A u \in DOMAIN clients : \E m \in Members : m[1] = u
        BY <1>1, <1>5
    <2>2. \A m \in Members : m[1] \in DOMAIN clients
        BY <1>2, <1>6
    <2> QED
        BY <2>1, <2>2
<1>8. {m[2] : m \in Members} = DOMAIN namespace
    <2>1. \A n \in DOMAIN namespace : \E m \in Members : m[2] = n
        BY <1>1
    <2>2. \A m \in Members : m[2] \in DOMAIN namespace
        BY <1>2
    <2> QED
        BY <2>1, <2>2
<1>9. {o[2] : o \in Owns} = DOMAIN services
    BY <1>3, <1>4
<1> QED
    BY <1>7, <1>8, <1>9

\* A step that keeps names, services and the set of clients is not seen.
LEMMA Unseen ==
    ASSUME UNCHANGED <<namespace, services, issued>>, DOMAIN clients' = DOMAIN clients
    PROVE  UNCHANGED Dir!vars
BY DEF Dir!vars

LEMMA AnswerUnseen ==
    ASSUME IInv, NEW u, Serving(u), NEW mail, Answer(u, mail)
    PROVE  UNCHANGED Dir!vars
<1>1. DOMAIN clients' = DOMAIN clients
    BY AdvanceEffect DEF IInv, Typed, Serving, Answer
<1> QED
    BY <1>1, Unseen DEF Answer

LEMMA JoinRefines ==
    ASSUME IInv, NEW u \in Uuid, NEW n \in Name, Identify(u, n)
    PROVE  Dir!Join(u, n)
<1>1. /\ n \notin DOMAIN namespace /\ u \notin issued /\ u \notin DOMAIN clients
      /\ namespace' = Put(namespace, n, u)
      /\ clients' = Put(clients, u, [name |-> n, seq |-> 0, subscriptions |-> {}])
      /\ issued' = issued \cup {u}
      /\ services' = services
    BY DEF Identify, NameFree, IInv, ClientsIssued
<1>2. Members' = Members \cup {<<u, n>>}
    BY <1>1 DEF Members, Put
<1>3. DOMAIN clients' = DOMAIN clients \cup {u}
    BY <1>1 DEF Put
<1>4. Departed' = Departed
    BY <1>1, <1>3 DEF Departed
<1>5. UNCHANGED <<Owns, Subscribed>>
    BY <1>1 DEF Owns, Subscribed
<1>6. u \notin {m[1] : m \in Members} \cup Departed /\ n \notin {m[2] : m \in Members}
    BY <1>1, PresentOffered DEF Departed
<1> QED
    BY <1>2, <1>4, <1>5, <1>6
        DEF Dir!Join, Dir!Present, Dir!Taken, Members, Owns, Subscribed, Departed

LEMMA LeaveRefines ==
    ASSUME IInv, NEW u \in Uuid, Disconnect(u)
    PROVE  Dir!Leave(u)
<1>1. /\ u \in DOMAIN clients
      /\ clients' = Erase(clients, u)
      /\ namespace' = Erase(namespace, clients[u].name)
      /\ services' = [s \in DOMAIN services \ Owned(u) |-> WithoutSubscriber(services[s], u)]
      /\ issued' = issued
    BY DEF Disconnect
<1>2. /\ DOMAIN namespace' = DOMAIN namespace \ {clients[u].name}
      /\ \A n \in DOMAIN namespace' : namespace'[n] = namespace[n]
    BY <1>1 DEF Erase, Restrict
<1>3. \A n \in DOMAIN namespace : namespace[n] = u <=> n = clients[u].name
    BY <1>1 DEF IInv, NamespaceExact
<1>4. Members' = {m \in Members : m[1] # u}
    BY <1>2, <1>3 DEF Members
<1>5. /\ DOMAIN services' = DOMAIN services \ Owned(u)
      /\ \A s \in DOMAIN services' : /\ services'[s].owner_uuid = services[s].owner_uuid
                                     /\ services'[s].subscribers = services[s].subscribers \ {u}
    <2>1. \A s \in DOMAIN services : services[s] \in ServiceInfo
        BY DEF IInv, Typed, IsMap
    <2> QED
        BY <1>1, <2>1 DEF WithoutSubscriber, ServiceInfo
<1>6. Owns' = {o \in Owns : o[1] # u}
    BY <1>5 DEF Owns, Owned
<1>7. \A s \in DOMAIN services : <<u, s>> \in Owns <=> s \in Owned(u)
    BY DEF Owns, Owned
<1>8. Subscribed' = {b \in Subscribed : b[1] # u /\ <<u, b[2]>> \notin Owns}
    <2>1. ASSUME NEW v \in Uuid, NEW s \in DOMAIN services
          PROVE  <<v, s>> \in Subscribed' <=>
                    <<v, s>> \in Subscribed /\ v # u /\ <<u, s>> \notin Owns
        BY <1>5, <1>7 DEF Subscribed
    <2>2. Subscribed \subseteq Uuid \X DOMAIN services
        BY DEF Subscribed
    <2>3. Subscribed' \subseteq Uuid \X DOMAIN services
        BY <1>5 DEF Subscribed
    <2> QED
        BY <2>1, <2>2, <2>3
<1>9. Departed' = Departed \cup {u}
    <2>1. DOMAIN clients' = DOMAIN clients \ {u}
        BY <1>1 DEF Erase, Restrict
    <2> QED
        BY <1>1, <2>1 DEF Departed, IInv, ClientsIssued
<1>10. u \in {m[1] : m \in Members}
    BY <1>1, PresentOffered
<1> QED
    BY <1>4, <1>6, <1>8, <1>9, <1>10
        DEF Dir!Leave, Dir!Present, Members, Owns, Subscribed, Departed

LEMMA SubscribeRefines ==
    ASSUME IInv, NEW u \in Uuid, NEW s \in Service, SelfSubscribe(u, s)
    PROVE  Dir!Subscribe(u, s)
<1>1. /\ u \in DOMAIN clients /\ s \in DOMAIN services
      /\ services' = Put(services, s, [services[s] EXCEPT !.subscribers = @ \cup {u}])
      /\ Advance(u, [clients EXCEPT ![u].subscriptions = @ \cup {s}])
      /\ UNCHANGED <<namespace, issued>>
    BY DEF SelfSubscribe, AddSubscriber, Subscribing, Serving
<1>2. DOMAIN clients' = DOMAIN clients
    BY <1>1 DEF Advance
<1>3. /\ DOMAIN services' = DOMAIN services
      /\ \A t \in DOMAIN services :
            /\ services'[t].owner_uuid = services[t].owner_uuid
            /\ services'[t].subscribers = IF t = s THEN services[t].subscribers \cup {u}
                                          ELSE services[t].subscribers
    <2>1. services[s] \in ServiceInfo
        BY <1>1 DEF IInv, Typed, IsMap
    <2> QED
        BY <1>1, <2>1 DEF Put, ServiceInfo
<1>4. Owns' = Owns
    BY <1>3 DEF Owns
<1>5. Subscribed' = Subscribed \cup {<<u, s>>}
    <2>1. ASSUME NEW v \in Uuid, NEW t \in DOMAIN services
          PROVE  <<v, t>> \in Subscribed' <=> <<v, t>> \in Subscribed \/ <<v, t>> = <<u, s>>
        BY <1>3 DEF Subscribed
    <2>2. Subscribed \subseteq Uuid \X DOMAIN services
        BY DEF Subscribed
    <2>3. Subscribed' \subseteq Uuid \X DOMAIN services
        BY <1>3 DEF Subscribed
    <2> QED
        BY <1>1, <2>1, <2>2, <2>3
<1>6. UNCHANGED <<Members, Departed>>
    BY <1>1, <1>2 DEF Members, Departed
<1>7. u \in {m[1] : m \in Members} /\ s \in {o[2] : o \in Owns}
    BY <1>1, PresentOffered
<1> QED
    BY <1>4, <1>5, <1>6, <1>7
        DEF Dir!Subscribe, Dir!Present, Dir!Offered, Members, Owns, Subscribed, Departed

LEMMA UnsubscribeRefines ==
    ASSUME IInv, NEW u \in Uuid, NEW s \in Service, SelfUnsubscribe(u, s)
    PROVE  Dir!Unsubscribe(u, s) \/ UNCHANGED Dir!vars
<1>1. /\ u \in DOMAIN clients /\ s \in DOMAIN services
      /\ services' = Put(services, s, WithoutSubscriber(services[s], u))
      /\ Advance(u, [clients EXCEPT ![u].subscriptions = @ \ {s}])
      /\ UNCHANGED <<namespace, issued>>
    BY DEF SelfUnsubscribe, Unsubscribing, Serving
<1>2. DOMAIN clients' = DOMAIN clients
    BY <1>1 DEF Advance
<1>3. /\ DOMAIN services' = DOMAIN services
      /\ \A t \in DOMAIN services :
            /\ services'[t].owner_uuid = services[t].owner_uuid
            /\ services'[t].subscribers = IF t = s THEN services[t].subscribers \ {u}
                                          ELSE services[t].subscribers
    <2>1. services[s] \in ServiceInfo
        BY <1>1 DEF IInv, Typed, IsMap
    <2> QED
        BY <1>1, <2>1 DEF Put, WithoutSubscriber, ServiceInfo
<1>4. Owns' = Owns
    BY <1>3 DEF Owns
<1>5. Subscribed' = Subscribed \ {<<u, s>>}
    <2>1. ASSUME NEW v \in Uuid, NEW t \in DOMAIN services
          PROVE  <<v, t>> \in Subscribed' <=> <<v, t>> \in Subscribed /\ <<v, t>> # <<u, s>>
        BY <1>3 DEF Subscribed
    <2>2. Subscribed \subseteq Uuid \X DOMAIN services
        BY DEF Subscribed
    <2>3. Subscribed' \subseteq Uuid \X DOMAIN services
        BY <1>3 DEF Subscribed
    <2> QED
        BY <2>1, <2>2, <2>3
<1>6. UNCHANGED <<Members, Departed>>
    BY <1>1, <1>2 DEF Members, Departed
<1>7. CASE <<u, s>> \in Subscribed
    BY <1>4, <1>5, <1>6, <1>7 DEF Dir!Unsubscribe, Members, Owns, Subscribed, Departed
<1>8. CASE <<u, s>> \notin Subscribed
    <2>1. Subscribed' = Subscribed
        BY <1>5, <1>8
    <2> QED
        BY <1>4, <1>6, <2>1 DEF Dir!vars, Members, Owns, Subscribed, Departed
<1> QED
    BY <1>7, <1>8

LEMMA CreateRefines ==
    ASSUME IInv, NEW u \in Uuid, NEW s \in Service, ServiceCreate(u, s)
    PROVE  Dir!Create(u, s) \/ UNCHANGED Dir!vars
<1>1. /\ u \in DOMAIN clients
      /\ Advance(u, clients)
      /\ UNCHANGED <<namespace, issued>>
    BY DEF ServiceCreate, Creating, Serving
<1>2. DOMAIN clients' = DOMAIN clients
    BY <1>1 DEF Advance
<1>3. UNCHANGED <<Members, Departed>>
    BY <1>1, <1>2 DEF Members, Departed
<1>4. CASE s \in DOMAIN services
    <2>1. services' = services
        BY <1>4 DEF ServiceCreate, Creating, Result
    <2> QED
        BY <1>1, <1>2, <2>1, Unseen
<1>5. CASE s \notin DOMAIN services
    <2>1. services' = Put(services, s, [owner_uuid |-> u, subscribers |-> {}])
        BY <1>5 DEF ServiceCreate, Creating, Result
    <2>2. /\ DOMAIN services' = DOMAIN services \cup {s}
          /\ services'[s].owner_uuid = u /\ services'[s].subscribers = {}
          /\ \A t \in DOMAIN services : services'[t] = services[t]
        BY <1>5, <2>1 DEF Put
    <2>3. Owns' = Owns \cup {<<u, s>>}
        BY <2>2 DEF Owns
    <2>4. Subscribed' = Subscribed
        BY <2>2 DEF Subscribed
    <2>5. u \in {m[1] : m \in Members} /\ s \notin {o[2] : o \in Owns}
        BY <1>1, <1>5, PresentOffered
    <2> QED
        BY <1>3, <2>3, <2>4, <2>5
            DEF Dir!Create, Dir!Present, Dir!Offered, Members, Owns, Subscribed, Departed
<1> QED
    BY <1>4, <1>5

LEMMA DeleteRefines ==
    ASSUME IInv, NEW u \in Uuid, NEW s \in Service, ServiceDelete(u, s)
    PROVE  Dir!Delete(u, s) \/ UNCHANGED Dir!vars
<1>1. /\ u \in DOMAIN clients /\ s \in DOMAIN services
      /\ Advance(u, clients)
      /\ UNCHANGED <<namespace, issued>>
    BY DEF ServiceDelete, Removing, Serving
<1>2. DOMAIN clients' = DOMAIN clients
    BY <1>1 DEF Advance
<1>3. UNCHANGED <<Members, Departed>>
    BY <1>1, <1>2 DEF Members, Departed
<1>4. CASE services[s].owner_uuid # u
    BY <1>1, <1>2, <1>4, Unseen DEF ServiceDelete, Removing
<1>5. CASE services[s].owner_uuid = u
    <2>1. services' = Erase(services, s)
        BY <1>5 DEF ServiceDelete, Removing
    <2>2. /\ DOMAIN services' = DOMAIN services \ {s}
          /\ \A t \in DOMAIN services' : services'[t] = services[t]
        BY <2>1 DEF Erase, Restrict
    <2>3. Owns' = Owns \ {<<u, s>>} /\ <<u, s>> \in Owns
        BY <1>1, <1>5, <2>2 DEF Owns
    <2>4. Subscribed' = {b \in Subscribed : b[2] # s}
        BY <2>2 DEF Subscribed
    <2> QED
        BY <1>3, <2>3, <2>4 DEF Dir!Delete, Members, Owns, Subscribed, Departed
<1> QED
    BY <1>4, <1>5

LEMMA NextRefines == IInv /\ [Next]_vars => [Dir!Next]_(Dir!vars)
<1> SUFFICES ASSUME IInv, [Next]_vars PROVE Dir!Next \/ UNCHANGED Dir!vars
    OBVIOUS
<1>1. ASSUME NEW u \in Uuid, Membership(u) PROVE Dir!Next
    BY <1>1, JoinRefines, LeaveRefines DEF Membership, Dir!Next
<1>2. ASSUME NEW u \in Uuid, SendMessage(u) PROVE UNCHANGED Dir!vars
    BY <1>2, AnswerUnseen DEF SendMessage, MessageToName, MessageToUuid,
        MessageToService, MessageToServiceClient, MessageToAll
<1>3. ASSUME NEW u \in Uuid, ChangeRegistry(u) PROVE Dir!Next \/ UNCHANGED Dir!vars
    <2>1. ASSUME NEW n \in SeqNumber, SelfSetSeq(u, n) PROVE UNCHANGED Dir!vars
        <3>1. DOMAIN clients' = DOMAIN clients
            BY <2>1 DEF SelfSetSeq, Advance
        <3> QED
            BY <2>1, <3>1, Unseen DEF SelfSetSeq
    <2> QED
        BY <1>3, <2>1, SubscribeRefines, UnsubscribeRefines, CreateRefines, DeleteRefines
            DEF ChangeRegistry, Dir!Next
<1>4. ASSUME NEW u \in Uuid, AskRegistry(u) PROVE UNCHANGED Dir!vars
    BY <1>4, AnswerUnseen DEF AskRegistry, NoSuchService, ServiceFetch, ServiceFetchAll,
        ClientFetchAll, SelfFetch, ClientFetch, Unsupported, Malformed
<1>5. ASSUME NEW u \in Uuid, UnknownSender(u) PROVE UNCHANGED Dir!vars
    BY <1>5, Unseen DEF UnknownSender
<1>6. ASSUME NEW n \in Name, IdentifyDuplicate(n) PROVE UNCHANGED Dir!vars
    BY <1>6, Unseen DEF IdentifyDuplicate
<1>7. ASSUME DisconnectUnknown \/ Query PROVE UNCHANGED Dir!vars
    BY <1>7, Unseen DEF DisconnectUnknown, Query
<1>8. ASSUME UNCHANGED vars PROVE UNCHANGED Dir!vars
    BY <1>8, Unseen DEF vars
<1> QED
    BY <1>1, <1>2, <1>3, <1>4, <1>5, <1>6, <1>7, <1>8 DEF Next

\* Whatever clients do, what they can see of names, owners and subscribers is a
\* behaviour of the directory: departures take everything along in one step, and
\* no uuid is used twice.
THEOREM Refinement == Spec => ImplementsDirectory
<1>1. Init => Dir!Init
    BY InitRefines
<1>2. IInv /\ [Next]_vars => [Dir!Next]_(Dir!vars)
    BY NextRefines
<1> QED
    BY <1>1, <1>2, Invariance, PTL DEF Spec, ImplementsDirectory, Dir!Spec

-----------------------------------------------------------------------------
(* What a mail says                                                        *)

\* The deliveries of a mail, without their order.
Said(q) == {q[i] : i \in DOMAIN q}

\* Delivery d tells u something of the type that u has not asked for.
Tells(d, u, type) == u \in d.to /\ d.payload.type = type /\ d.payload.seq = Unsequenced

LEMMA SaidDeliver ==
    ASSUME NEW to, NEW p
    PROVE  Said(Deliver(to, p)) = {[to |-> to, payload |-> p]}
<1>1. DOMAIN Deliver(to, p) = {1} /\ Deliver(to, p)[1] = [to |-> to, payload |-> p]
    BY DEF Deliver
<1> QED
    BY <1>1 DEF Said

LEMMA MailProperties ==
    ASSUME NEW us, NEW q \in Post(us)
    PROVE  /\ Len(q) \in Nat /\ DOMAIN q = 1 .. Len(q)
           /\ \A i \in DOMAIN q : q[i] \in [to : SUBSET us, payload : Payload]
BY ElementOfSeq, LenProperties DEF Post

LEMMA JoinedMail ==
    ASSUME NEW us, NEW a \in Post(us), NEW b \in Post(us)
    PROVE  /\ Len(a) \in Nat /\ Len(b) \in Nat /\ DOMAIN a = 1 .. Len(a) /\ DOMAIN b = 1 .. Len(b)
           /\ DOMAIN (a \o b) = 1 .. Len(a) + Len(b)
           /\ \A i \in 1 .. Len(a) : (a \o b)[i] = a[i]
           /\ \A i \in 1 .. Len(b) : (a \o b)[Len(a) + i] = b[i]
<1>1. a \o b \in Post(us) /\ Len(a \o b) = Len(a) + Len(b)
      /\ \A i \in 1 .. Len(a) + Len(b) : (a \o b)[i] = IF i <= Len(a) THEN a[i] ELSE b[i - Len(a)]
    BY ConcatProperties DEF Post
<1>2. Len(a) \in Nat /\ Len(b) \in Nat /\ DOMAIN a = 1 .. Len(a) /\ DOMAIN b = 1 .. Len(b)
    BY MailProperties
<1>3. DOMAIN (a \o b) = 1 .. Len(a) + Len(b)
    BY <1>1, MailProperties
<1> QED
    BY <1>1, <1>2, <1>3

LEMMA SaidJoined ==
    ASSUME NEW us, NEW a \in Post(us), NEW b \in Post(us)
    PROVE  Said(a \o b) = Said(a) \cup Said(b)
<1>1. /\ Len(a) \in Nat /\ Len(b) \in Nat /\ DOMAIN a = 1 .. Len(a) /\ DOMAIN b = 1 .. Len(b)
      /\ DOMAIN (a \o b) = 1 .. Len(a) + Len(b)
      /\ \A i \in 1 .. Len(a) : (a \o b)[i] = a[i]
      /\ \A i \in 1 .. Len(b) : (a \o b)[Len(a) + i] = b[i]
    BY JoinedMail
<1>2. ASSUME NEW d \in Said(a \o b) PROVE d \in Said(a) \cup Said(b)
    <2>1. PICK i \in 1 .. Len(a) + Len(b) : d = (a \o b)[i]
        BY <1>1, <1>2 DEF Said
    <2>2. CASE i \in 1 .. Len(a)
        BY <1>1, <2>1, <2>2 DEF Said
    <2>3. CASE i \notin 1 .. Len(a)
        <3>1. i - Len(a) \in 1 .. Len(b) /\ i = Len(a) + (i - Len(a))
            BY <1>1, <2>3
        <3>2. d = b[i - Len(a)]
            BY <1>1, <2>1, <3>1
        <3> QED
            BY <1>1, <3>1, <3>2 DEF Said
    <2> QED
        BY <2>2, <2>3
<1>3. ASSUME NEW d \in Said(a) PROVE d \in Said(a \o b)
    BY <1>1, <1>3 DEF Said
<1>4. ASSUME NEW d \in Said(b) PROVE d \in Said(a \o b)
    <2>1. PICK i \in 1 .. Len(b) : d = b[i]
        BY <1>1, <1>4 DEF Said
    <2>2. Len(a) + i \in DOMAIN (a \o b) /\ (a \o b)[Len(a) + i] = d
        BY <1>1, <2>1
    <2> QED
        BY <2>2 DEF Said
<1> QED
    BY <1>2, <1>3, <1>4

\* What is told is what the deliveries of the right kind speak of.
LEMMA ToldSaid ==
    ASSUME NEW u, NEW type
    PROVE  /\ \A x : x \in ToldClients(u, type)' <=>
                        \E d \in Said(out') : Tells(d, u, type) /\ x \in d.payload.clients
           /\ \A x : x \in ToldServices(u, type)' <=>
                        \E d \in Said(out') : Tells(d, u, type) /\ x \in d.payload.services
           /\ \A s, x : x \in ToldAbout(u, type, s)' <=>
                        \E d \in Said(out') : /\ Tells(d, u, type) /\ d.payload.services = {s}
                                              /\ x \in d.payload.clients
BY DEF ToldClients, ToldServices, ToldAbout, Told, Said, Tells

\* A delivery that tells of a success.
Succeeds(d) == d.payload.successful

LEMMA ConfirmedSaid ==
    ASSUME NEW u, NEW type, NEW s
    PROVE  Confirmed(u, type, s)' =>
                \E d \in Said(out') : /\ d.to = {u} /\ d.payload.type = type /\ d.payload.services = {s}
                                      /\ Succeeds(d)
BY DEF Confirmed, Said, Succeeds

LEMMA SaidConfirmed ==
    ASSUME NEW u, NEW type, NEW s, NEW d \in Said(out'),
           d.to = {u}, d.payload.type = type, d.payload.services = {s}, Succeeds(d)
    PROVE  Confirmed(u, type, s)'
BY DEF Confirmed, Said, Succeeds

\* No payload of q has a number; or one has, and it goes to u with number n.
Unnumbered(q) == \A i \in DOMAIN q : q[i].payload.seq = Unsequenced
OneNumbered(q, u, n) ==
    \A i \in DOMAIN q : q[i].payload.seq # Unsequenced =>
        /\ q[i].to = {u} /\ q[i].payload.seq = n
        /\ \A j \in DOMAIN q : q[j].payload.seq # Unsequenced => j = i

LEMMA NumberedJoined ==
    ASSUME NEW us, NEW a \in Post(us), NEW b \in Post(us), NEW u, NEW n,
           \/ Unnumbered(a) /\ OneNumbered(b, u, n)
           \/ OneNumbered(a, u, n) /\ Unnumbered(b)
    PROVE  OneNumbered(a \o b, u, n)
<1>1. /\ Len(a) \in Nat /\ Len(b) \in Nat /\ DOMAIN a = 1 .. Len(a) /\ DOMAIN b = 1 .. Len(b)
      /\ DOMAIN (a \o b) = 1 .. Len(a) + Len(b)
      /\ \A i \in 1 .. Len(a) : (a \o b)[i] = a[i]
      /\ \A i \in 1 .. Len(b) : (a \o b)[Len(a) + i] = b[i]
    BY JoinedMail
<1>2. \A i \in DOMAIN (a \o b) : i \in 1 .. Len(a) \/ \E k \in 1 .. Len(b) : i = Len(a) + k
    <2> TAKE i \in DOMAIN (a \o b)
    <2>1. i \in 1 .. Len(a) \/ (i - Len(a) \in 1 .. Len(b) /\ i = Len(a) + (i - Len(a)))
        BY <1>1
    <2> QED
        BY <2>1
<1>3. CASE Unnumbered(a) /\ OneNumbered(b, u, n)
    <2>1. \A i \in DOMAIN (a \o b) : (a \o b)[i].payload.seq # Unsequenced =>
            \E k \in 1 .. Len(b) : i = Len(a) + k /\ (a \o b)[i] = b[k]
        BY <1>1, <1>2, <1>3 DEF Unnumbered
    <2> QED
        BY <1>1, <1>3, <2>1 DEF OneNumbered
<1>4. CASE OneNumbered(a, u, n) /\ Unnumbered(b)
    <2>1. \A i \in DOMAIN (a \o b) : (a \o b)[i].payload.seq # Unsequenced =>
            i \in 1 .. Len(a) /\ (a \o b)[i] = a[i]
        BY <1>1, <1>2, <1>4 DEF Unnumbered
    <2> QED
        BY <1>1, <1>4, <2>1 DEF OneNumbered
<1> QED
    BY <1>3, <1>4

LEMMA UnnumberedJoined ==
    ASSUME NEW us, NEW a \in Post(us), NEW b \in Post(us), Unnumbered(a), Unnumbered(b)
    PROVE  Unnumbered(a \o b)
<1>1. /\ DOMAIN a = 1 .. Len(a) /\ DOMAIN b = 1 .. Len(b) /\ Len(a) \in Nat /\ Len(b) \in Nat
      /\ DOMAIN (a \o b) = 1 .. Len(a) + Len(b)
      /\ \A i \in 1 .. Len(a) : (a \o b)[i] = a[i]
      /\ \A i \in 1 .. Len(b) : (a \o b)[Len(a) + i] = b[i]
    BY JoinedMail
<1>2. ASSUME NEW i \in DOMAIN (a \o b) PROVE (a \o b)[i].payload.seq = Unsequenced
    <2>1. CASE i \in 1 .. Len(a)
        BY <1>1, <2>1 DEF Unnumbered
    <2>2. CASE i \notin 1 .. Len(a)
        <3>1. i - Len(a) \in 1 .. Len(b) /\ i = Len(a) + (i - Len(a))
            BY <1>1, <2>2
        <3> QED
            BY <1>1, <3>1 DEF Unnumbered
    <2> QED
        BY <2>1, <2>2
<1> QED
    BY <1>2 DEF Unnumbered

-----------------------------------------------------------------------------
(* Answers that announce nothing                                           *)

Announcing ==
    {"CLIENT_JOINED", "CLIENT_LEFT", "SERVICE_CREATE_RESULT", "SERVICE_DELETE_RESULT",
     "SERVICE_CLIENT_SUBSCRIBED", "SERVICE_CLIENT_UNSUBSCRIBED",
     "SELF_SUBSCRIBE_RESULT", "SELF_UNSUBSCRIBE_RESULT"}

Silent(q) == q \in Post(Uuid) /\ \A d \in Said(q) : d.payload.type \notin Announcing

LEMMA ResultSays ==
    ASSUME NEW type \in PayloadType, NEW ok \in BOOLEAN, NEW us \in SUBSET Uuid, NEW ss \in SUBSET Service
    PROVE  /\ Result(type, ok, us, ss) \in Payload
           /\ Result(type, ok, us, ss).type = type /\ Result(type, ok, us, ss).seq = Unsequenced
           /\ Result(type, ok, us, ss).successful = ok
           /\ Result(type, ok, us, ss).clients = us /\ Result(type, ok, us, ss).services = ss
BY DEF Result, Payload, Unsequenced

LEMMA AboutSays ==
    ASSUME NEW type \in PayloadType, NEW us \in SUBSET Uuid, NEW ss \in SUBSET Service
    PROVE  /\ About(type, us, ss) \in Payload
           /\ About(type, us, ss).type = type /\ About(type, us, ss).seq = Unsequenced
           /\ About(type, us, ss).clients = us /\ About(type, us, ss).services = ss
BY DEF About, Result, Payload, Unsequenced

LEMMA SequencedSays ==
    ASSUME NEW p \in Payload, NEW n \in SeqNumber
    PROVE  /\ Sequenced(p, n) \in Payload /\ Sequenced(p, n).seq = n /\ n # Unsequenced
           /\ Sequenced(p, n).type = p.type /\ Sequenced(p, n).successful = p.successful
           /\ Sequenced(p, n).clients = p.clients /\ Sequenced(p, n).services = p.services
BY SeqLimitAssumption DEF Sequenced, Payload, SeqNumber, Unsequenced

\* One delivery that nobody asked for.
LEMMA DeliverSays ==
    ASSUME NEW to \in SUBSET Uuid, NEW p \in Payload
    PROVE  /\ Deliver(to, p) \in Post(Uuid)
           /\ p.seq = Unsequenced => Unnumbered(Deliver(to, p))
           /\ p.type \notin Announcing => Silent(Deliver(to, p))
<1>1. Deliver(to, p) \in Post(Uuid) /\ Said(Deliver(to, p)) = {[to |-> to, payload |-> p]}
    BY DeliverPost, SaidDeliver
<1>2. DOMAIN Deliver(to, p) = {1} /\ Deliver(to, p)[1].payload = p
    BY DEF Deliver
<1> QED
    BY <1>1, <1>2 DEF Unnumbered, Silent

\* The answer to a client carries the number of its request.
LEMMA ReplySays ==
    ASSUME IInv, NEW u \in Uuid, Serving(u), NEW p \in Payload
    PROVE  /\ Reply(u, p) \in Post(Uuid) /\ OneNumbered(Reply(u, p), u, clients[u].seq)
           /\ Sequenced(p, clients[u].seq) \in Payload
           /\ Said(Reply(u, p)) = {[to |-> {u}, payload |-> Sequenced(p, clients[u].seq)]}
           /\ p.type \notin Announcing => Silent(Reply(u, p))
<1>1. clients[u].seq \in SeqNumber
    BY DEF IInv, Typed, Serving, IsMap, Client
<1> DEFINE numbered == Sequenced(p, clients[u].seq)
<1>2. numbered \in Payload /\ numbered.seq = clients[u].seq /\ numbered.type = p.type
    BY <1>1, SequencedSays
<1>3. Reply(u, p) = Deliver({u}, numbered)
    BY DEF Reply, Send
<1> HIDE DEF numbered
<1>4. /\ Reply(u, p) \in Post(Uuid) /\ Said(Reply(u, p)) = {[to |-> {u}, payload |-> numbered]}
      /\ p.type \notin Announcing => Silent(Reply(u, p))
    BY <1>2, <1>3, DeliverSays, SaidDeliver
<1>5. OneNumbered(Deliver({u}, numbered), u, clients[u].seq)
    BY <1>2 DEF OneNumbered, Deliver
<1> QED
    BY <1>2, <1>3, <1>4, <1>5 DEF numbered

LEMMA SilentJoined ==
    ASSUME NEW a, NEW b, Silent(a), Silent(b)
    PROVE  Silent(a \o b)
BY SaidJoined, ConcatPost DEF Silent

\* An answer, and what a message and its confirmation are.
Answering(q, u) == Silent(q) /\ OneNumbered(q, u, clients[u].seq)

LEMMA PlainAnswers ==
    ASSUME IInv, NEW u \in Uuid, Serving(u)
    PROVE  /\ \A type \in PayloadType \ Announcing, us \in SUBSET Uuid, ss \in SUBSET Service :
                    Answering(Reply(u, About(type, us, ss)), u)
           /\ \A type \in PayloadType \ Announcing : Answering(Reply(u, Plain(type)), u)
           /\ \A to \in SUBSET Uuid, ss \in SUBSET Service :
                    Answering(Deliver(to, Message(u, ss)) \o Ok(u), u)
           /\ \A v \in Uuid, ss \in SUBSET Service :
                    Answering(Send(v, Message(u, ss)) \o Ok(u), u)
           /\ Answering(<<>>, u)
<1>1. ASSUME NEW type \in PayloadType \ Announcing, NEW us \in SUBSET Uuid, NEW ss \in SUBSET Service
      PROVE  Answering(Reply(u, About(type, us, ss)), u)
    <2>1. About(type, us, ss) \in Payload /\ About(type, us, ss).type = type
        BY AboutSays
    <2> QED
        BY <2>1, ReplySays DEF Answering
<1>2. ASSUME NEW type \in PayloadType \ Announcing
      PROVE  Answering(Reply(u, Plain(type)), u)
    BY <1>1 DEF Plain
<1>3. ASSUME NEW to \in SUBSET Uuid, NEW ss \in SUBSET Service
      PROVE  Answering(Deliver(to, Message(u, ss)) \o Ok(u), u)
    <2>1. /\ Message(u, ss) \in Payload /\ Message(u, ss).type = "MESSAGE"
          /\ Message(u, ss).seq = Unsequenced
        BY AboutSays DEF Message, PayloadType
    <2>2. Silent(Deliver(to, Message(u, ss))) /\ Unnumbered(Deliver(to, Message(u, ss)))
        BY <2>1, DeliverSays DEF Announcing
    <2>3. Answering(Ok(u), u)
        BY <1>2 DEF Ok, PayloadType, Announcing
    <2> QED
        BY <2>2, <2>3, SilentJoined, NumberedJoined DEF Answering, Silent
<1>4. Answering(<<>>, u)
    <2>1. <<>> \in Post(Uuid) /\ DOMAIN <<>> = {}
        BY EmptyPost
    <2> QED
        BY <2>1 DEF Answering, Silent, Said, OneNumbered
<1> QED
    BY <1>1, <1>2, <1>3, <1>4 DEF Send

\* Messages and queries are answered and change nothing.
LEMMA SendMessageSays ==
    ASSUME IInv, NEW u \in Uuid, SendMessage(u)
    PROVE  Serving(u) /\ \E mail : Answering(mail, u) /\ Answer(u, mail)
<1>1. DOMAIN clients \subseteq Uuid
    BY DEF IInv, Typed, IsMap
<1>2. {"BAD", "INVALID_NAME", "INVALID_UUID", "INVALID_SERVICE", "ERROR_INTERNAL"}
        \subseteq PayloadType \ Announcing
    BY DEF PayloadType, Announcing
<1>3. ASSUME Serving(u), NEW s \in Service
      PROVE  Answering(InvalidService(u, s), u)
    BY <1>2, <1>3, PlainAnswers DEF InvalidService
<1>4. ASSUME Serving(u), NEW v \in Uuid
      PROVE  Answering(InvalidUuid(u, v), u)
    BY <1>2, <1>4, PlainAnswers DEF InvalidUuid
<1>5. ASSUME NEW n \in Name, MessageToName(u, n)
      PROVE  Serving(u) /\ \E mail : Answering(mail, u) /\ Answer(u, mail)
    BY <1>1, <1>2, <1>5, PlainAnswers DEF MessageToName
<1>6. ASSUME NEW v \in Uuid, MessageToUuid(u, v)
      PROVE  Serving(u) /\ \E mail : Answering(mail, u) /\ Answer(u, mail)
    BY <1>1, <1>4, <1>6, PlainAnswers DEF MessageToUuid
<1>7. ASSUME NEW s \in Service, MessageToService(u, s)
      PROVE  Serving(u) /\ \E mail : Answering(mail, u) /\ Answer(u, mail)
    <2>1. Serving(u)
        BY <1>7 DEF MessageToService
    <2> DEFINE heard == {v \in services[s].subscribers \cap DOMAIN clients :
                            FALSE \/ v # services[s].owner_uuid}
    <2>2. heard \in SUBSET Uuid
        BY <1>1
    <2>3. ServiceBroadcast(clients, services[s], Message(u, {s}), FALSE) = Deliver(heard, Message(u, {s}))
        BY DEF ServiceBroadcast
    <2> HIDE DEF heard
    <2>4. /\ Answering(ServiceBroadcast(clients, services[s], Message(u, {s}), FALSE) \o Ok(u), u)
          /\ Answering(Reply(u, Plain("BAD")), u) /\ Answering(Reply(u, Plain("ERROR_INTERNAL")), u)
          /\ \A v \in Uuid : Answering(Send(v, Message(u, {s})) \o Ok(u), u)
        BY <1>2, <2>1, <2>2, <2>3, PlainAnswers
    <2>5. Answering(ServiceMail(u, s), u)
        BY <1>1, <2>4 DEF ServiceMail
    <2> QED
        BY <1>3, <1>7, <2>1, <2>5 DEF MessageToService
<1>8. ASSUME NEW s \in Service, NEW v \in Uuid, MessageToServiceClient(u, s, v)
      PROVE  Serving(u) /\ \E mail : Answering(mail, u) /\ Answer(u, mail)
    <2>1. Serving(u)
        BY <1>8 DEF MessageToServiceClient
    <2>2. Answering(ServiceClientMail(u, s, v), u)
        BY <1>1, <1>2, <1>4, <2>1, PlainAnswers DEF ServiceClientMail
    <2> QED
        BY <1>3, <1>8, <2>1, <2>2 DEF MessageToServiceClient
<1>9. ASSUME MessageToAll(u)
      PROVE  Serving(u) /\ \E mail : Answering(mail, u) /\ Answer(u, mail)
    BY <1>1, <1>9, PlainAnswers DEF MessageToAll, Broadcast
<1> QED
    BY <1>5, <1>6, <1>7, <1>8, <1>9 DEF SendMessage

LEMMA AskRegistrySays ==
    ASSUME IInv, NEW u \in Uuid, AskRegistry(u)
    PROVE  Serving(u) /\ \E mail : Answering(mail, u) /\ Answer(u, mail)
<1>1. DOMAIN clients \subseteq Uuid /\ DOMAIN services \subseteq Service
      /\ \A v : Subscriptions(v) \subseteq Service
    BY DEF IInv, Typed, IsMap, Subscriptions
<1>2. Serving(u)
    BY DEF AskRegistry, NoSuchService, ServiceFetch, ServiceFetchAll, ClientFetchAll,
           SelfFetch, ClientFetch, Unsupported, Malformed
<1>3. {"INVALID_SERVICE", "SERVICE_FETCH_RESULT", "SERVICE_FETCH_ALL_RESULT", "CLIENT_FETCH_RESULT",
       "CLIENT_FETCH_ALL_RESULT", "SELF_FETCH_RESULT", "ERROR_UNSUPPORTED", "ERROR_PROTOCOL"}
        \subseteq PayloadType \ Announcing
    BY DEF PayloadType, Announcing
<1>4. \A s \in Service : /\ Answering(InvalidService(u, s), u)
                         /\ Answering(Reply(u, About("SERVICE_FETCH_RESULT", {}, {s})), u)
    BY <1>2, <1>3, PlainAnswers DEF InvalidService
<1>5. /\ Answering(Reply(u, About("SERVICE_FETCH_ALL_RESULT", {}, DOMAIN services)), u)
      /\ Answering(Reply(u, About("CLIENT_FETCH_ALL_RESULT", DOMAIN clients, {})), u)
      /\ Answering(Reply(u, About("SELF_FETCH_RESULT", {u}, Subscriptions(u))), u)
      /\ \A v \in Uuid : Answering(Reply(u, About("CLIENT_FETCH_RESULT", {v}, Subscriptions(v))), u)
      /\ Answering(Reply(u, Plain("ERROR_UNSUPPORTED")), u)
      /\ Answering(Reply(u, Plain("ERROR_PROTOCOL")), u)
      /\ Answering(<<>>, u)
    BY <1>1, <1>2, <1>3, PlainAnswers
<1> QED
    BY <1>2, <1>4, <1>5 DEF AskRegistry, NoSuchService, ServiceFetch,
        ServiceFetchAll, ClientFetchAll, SelfFetch, ClientFetch, Unsupported, Malformed

-----------------------------------------------------------------------------
(* What the steps do, for the four promises at once                        *)

\* A step that keeps all the promises but the one about numbers.
Truthful == TellsOfChanges /\ TellsMembers /\ LeavesToMembers

\* A step that changes neither table and announces nothing breaks no promise.
LEMMA SilentTruthful ==
    ASSUME DOMAIN clients' = DOMAIN clients, services' = services,
           \A d \in Said(out') : d.payload.type \notin Announcing
    PROVE  Truthful
<1>1. ASSUME NEW type \in Announcing, NEW d \in Said(out') PROVE d.payload.type # type
    OBVIOUS
<1>2. ASSUME NEW type \in Announcing, NEW u
      PROVE  /\ ToldClients(u, type)' = {} /\ ToldServices(u, type)' = {}
             /\ \A s : ToldAbout(u, type, s)' = {} /\ ~Confirmed(u, type, s)'
    <2>1. \A d \in Said(out') : ~Tells(d, u, type)
        BY <1>1 DEF Tells
    <2>2. \A x : x \notin ToldClients(u, type)' /\ x \notin ToldServices(u, type)'
        BY <2>1, ToldSaid
    <2>3. \A s, x : x \notin ToldAbout(u, type, s)'
        BY <2>1, ToldSaid
    <2>4. \A s : ~Confirmed(u, type, s)'
        BY <1>1, ConfirmedSaid
    <2> QED
        BY <2>2, <2>3, <2>4
<1>3. TellsOfChanges
    BY <1>2 DEF TellsOfChanges, Announcing
<1>4. TellsMembers
    BY <1>2 DEF TellsMembers, Announcing
<1>5. LeavesToMembers
    BY <1>2 DEF LeavesToMembers, Announcing
<1> QED
    BY <1>3, <1>4, <1>5 DEF Truthful

\* The request's number is on its answer only, and the client's next one follows.
LEMMA AnswerNumbered ==
    ASSUME IInv, NEW cs, IsMap(cs, Uuid, Client), DOMAIN cs = DOMAIN clients,
           NEW u \in DOMAIN clients, Advance(u, cs), OneNumbered(out', u, cs[u].seq)
    PROVE  NumbersReply
<1>1. /\ DOMAIN clients' = DOMAIN clients
      /\ alive' => clients'[u].seq = (cs[u].seq + 1) % SeqLimit
    <2>1. CASE OverflowChecks /\ cs[u].seq + 1 = SeqLimit
        BY <2>1 DEF Advance
    <2>2. CASE ~(OverflowChecks /\ cs[u].seq + 1 = SeqLimit)
        <3>1. cs[u] \in Client /\ clients' = [cs EXCEPT ![u].seq = (@ + 1) % SeqLimit]
            BY <2>2 DEF IsMap, Advance
        <3> QED
            BY <3>1 DEF IsMap, Client
    <2> QED
        BY <2>1, <2>2
<1>2. u \in Stayed
    BY <1>1 DEF Stayed
<1> QED
    BY <1>1, <1>2 DEF NumbersReply, OneNumbered

LEMMA UnnumberedReply ==
    ASSUME Unnumbered(out')
    PROVE  NumbersReply
BY DEF Unnumbered, NumbersReply

\* Messages, queries and setting the own number.
LEMMA QuietSteps ==
    ASSUME IInv, NEW u \in Uuid,
           \/ SendMessage(u) \/ AskRegistry(u)
           \/ \E n \in SeqNumber : SelfSetSeq(u, n)
    PROVE  Truthful /\ NumbersReply
<1>1. IsMap(clients, Uuid, Client) /\ alive \in BOOLEAN
    BY DEF IInv, Typed
<1>2. CASE SendMessage(u) \/ AskRegistry(u)
    <2>1. PICK mail : Serving(u) /\ Answering(mail, u) /\ Answer(u, mail)
        BY <1>2, SendMessageSays, AskRegistrySays
    <2>2. /\ out' = mail /\ services' = services /\ Advance(u, clients) /\ u \in DOMAIN clients
        BY <2>1 DEF Answer, Serving
    <2>3. DOMAIN clients' = DOMAIN clients
        BY <1>1, <2>2, AdvanceEffect
    <2>4. Truthful
        BY <2>1, <2>2, <2>3, SilentTruthful DEF Answering, Silent
    <2>5. NumbersReply
        BY <1>1, <2>1, <2>2, AnswerNumbered DEF Answering
    <2> QED
        BY <2>4, <2>5
<1>3. ASSUME NEW n \in SeqNumber, SelfSetSeq(u, n)
      PROVE  Truthful /\ NumbersReply
    <2> DEFINE cs == [clients EXCEPT ![u].seq = n]
               ok == Sequenced(Plain("OK"), n)
    <2>1. u \in DOMAIN clients /\ services' = services /\ Advance(u, cs) /\ out' = Deliver({u}, ok)
        BY <1>3 DEF SelfSetSeq, Serving, Send
    <2>2. IsMap(cs, Uuid, Client) /\ DOMAIN cs = DOMAIN clients /\ cs[u].seq = n
        BY <1>1, <2>1 DEF IsMap, Client
    <2>3. ok \in Payload /\ ok.type = "OK" /\ ok.seq = n
        <3>1. Plain("OK") \in Payload /\ Plain("OK").type = "OK"
            BY AboutSays DEF Plain, PayloadType
        <3> QED
            BY <3>1, SequencedSays
    <2> HIDE DEF cs, ok
    <2>4. Silent(out')
        BY <2>1, <2>3, DeliverSays DEF Announcing
    <2>5. OneNumbered(out', u, n)
        BY <2>1, <2>3 DEF OneNumbered, Deliver
    <2>6. DOMAIN clients' = DOMAIN clients
        BY <1>1, <2>1, <2>2, AdvanceEffect
    <2>7. Truthful
        BY <2>1, <2>4, <2>6, SilentTruthful DEF Silent
    <2>8. NumbersReply
        BY <2>1, <2>2, <2>5, AnswerNumbered
    <2> QED
        BY <2>7, <2>8
<1> QED
    BY <1>2, <1>3

\* Steps that send nothing and leave the tables alone.
LEMMA MuteSteps ==
    ASSUME IInv, out' = <<>>, UNCHANGED <<clients, services>>
    PROVE  Truthful /\ NumbersReply
<1>1. Unnumbered(out') /\ Said(out') = {}
    BY DEF Unnumbered, Said
<1> QED
    BY <1>1, SilentTruthful, UnnumberedReply

-----------------------------------------------------------------------------
(* Services come and go                                                    *)

\* Only the services differ, by those of came and went, and just that is announced.
LEMMA ServicesTruthful ==
    ASSUME IInv, DOMAIN clients' = DOMAIN clients,
           \A s \in DOMAIN services \cap DOMAIN services' : services'[s] = services[s],
           \A d \in Said(out') : d.payload.type \notin Announcing
                                    \ {"SERVICE_CREATE_RESULT", "SERVICE_DELETE_RESULT"},
           \A u \in DOMAIN clients :
                /\ ToldServices(u, "SERVICE_CREATE_RESULT")' = DOMAIN services' \ DOMAIN services
                /\ ToldServices(u, "SERVICE_DELETE_RESULT")' = DOMAIN services \ DOMAIN services'
    PROVE  Truthful
<1>1. ASSUME NEW type \in Announcing \ {"SERVICE_CREATE_RESULT", "SERVICE_DELETE_RESULT"}, NEW u
      PROVE  /\ ToldClients(u, type)' = {}
             /\ \A s : ToldAbout(u, type, s)' = {} /\ ~Confirmed(u, type, s)'
    <2>0. \A d \in Said(out') : d.payload.type # type
        BY <1>1
    <2>1. \A d \in Said(out') : ~Tells(d, u, type)
        BY <2>0 DEF Tells
    <2>2. \A x : x \notin ToldClients(u, type)'
        BY <2>1, ToldSaid
    <2>3. \A s, x : x \notin ToldAbout(u, type, s)'
        BY <2>1, ToldSaid
    <2>4. \A s : ~Confirmed(u, type, s)'
        BY <2>0, ConfirmedSaid
    <2> QED
        BY <2>2, <2>3, <2>4
<1>3. TellsOfChanges
    BY <1>1 DEF TellsOfChanges, Announcing, Stayed
<1>4. TellsMembers
    BY <1>1 DEF TellsMembers, Announcing
<1>5. LeavesToMembers
    BY <1>1 DEF LeavesToMembers, Announcing
<1> QED
    BY <1>3, <1>4, <1>5 DEF Truthful

\* An announcement to all, and the answer with the same news.
LEMMA AnnounceSays ==
    ASSUME IInv, NEW w \in Uuid, Serving(w), NEW p \in Payload, p.seq = Unsequenced
    PROVE  LET q == Broadcast(clients, p) \o Reply(w, p) IN
           /\ OneNumbered(q, w, clients[w].seq)
           /\ \A d \in Said(q) : d.payload.type = p.type
           /\ \A u, type : \A d \in Said(q) : Tells(d, u, type) => type = p.type /\ d.payload.services = p.services
           /\ \A u \in DOMAIN clients : \E d \in Said(q) : Tells(d, u, p.type) /\ d.payload.services = p.services
<1> DEFINE q == Broadcast(clients, p) \o Reply(w, p)
           all == [to |-> DOMAIN clients, payload |-> p]
           one == [to |-> {w}, payload |-> Sequenced(p, clients[w].seq)]
<1>1. DOMAIN clients \in SUBSET Uuid /\ clients[w].seq \in SeqNumber
    BY DEF IInv, Typed, IsMap, Serving, Client
<1>2. /\ Broadcast(clients, p) \in Post(Uuid) /\ Unnumbered(Broadcast(clients, p))
      /\ Said(Broadcast(clients, p)) = {all}
    BY <1>1, DeliverSays, SaidDeliver DEF Broadcast
<1>3. /\ Reply(w, p) \in Post(Uuid) /\ OneNumbered(Reply(w, p), w, clients[w].seq)
      /\ Said(Reply(w, p)) = {one}
    BY ReplySays
<1>4. OneNumbered(q, w, clients[w].seq) /\ Said(q) = {all, one}
    BY <1>2, <1>3, NumberedJoined, SaidJoined
<1>5. /\ one.payload.seq # Unsequenced /\ one.payload.type = p.type
    BY <1>1, SequencedSays
<1>6. \A u, type : ~Tells(one, u, type)
    BY <1>5 DEF Tells
<1>7. /\ \A u \in DOMAIN clients : Tells(all, u, p.type)
      /\ \A u, type : Tells(all, u, type) => type = p.type
      /\ all.payload.services = p.services /\ all.payload.type = p.type
    BY DEF Tells
<1> HIDE DEF all, one, q
<1>8. /\ \A d \in Said(q) : d.payload.type = p.type
      /\ \A u, type : \A d \in Said(q) : Tells(d, u, type) => type = p.type /\ d.payload.services = p.services
      /\ \A u \in DOMAIN clients : \E d \in Said(q) : Tells(d, u, p.type) /\ d.payload.services = p.services
    BY <1>4, <1>5, <1>6, <1>7
<1> QED
    BY <1>4, <1>8 DEF q

LEMMA ServiceCreateTruthful ==
    ASSUME IInv, NEW w \in Uuid, NEW s \in Service, ServiceCreate(w, s)
    PROVE  Truthful /\ NumbersReply
<1> DEFINE ok == s \notin DOMAIN services
           result == Result("SERVICE_CREATE_RESULT", ok, {}, {s})
           q == Broadcast(clients, result) \o Reply(w, result)
<1>1. /\ Serving(w) /\ Advance(w, clients) /\ services' = Creating(w, s)
      /\ IsMap(clients, Uuid, Client) /\ alive \in BOOLEAN
    BY DEF ServiceCreate, IInv, Typed
<1>2. /\ result \in Payload /\ result.type = "SERVICE_CREATE_RESULT" /\ result.seq = Unsequenced
      /\ result.successful = ok /\ result.services = {s}
    <2>1. ok \in BOOLEAN /\ "SERVICE_CREATE_RESULT" \in PayloadType
        BY DEF PayloadType
    <2>2. result \in Payload
        BY <2>1, PayloadMade
    <2> QED
        BY <2>2 DEF Result
<1>3. out' = IF ok THEN q ELSE Reply(w, result)
    BY <1>2 DEF ServiceCreate
<1>4. w \in DOMAIN clients /\ DOMAIN clients' = DOMAIN clients
    BY <1>1, AdvanceEffect DEF Serving
<1> HIDE DEF result
<1>5. CASE ok
    <2>1. /\ OneNumbered(q, w, clients[w].seq)
          /\ \A d \in Said(q) : d.payload.type = "SERVICE_CREATE_RESULT"
          /\ \A u, type : \A d \in Said(q) : Tells(d, u, type) =>
                type = "SERVICE_CREATE_RESULT" /\ d.payload.services = {s}
          /\ \A u \in DOMAIN clients : \E d \in Said(q) :
                Tells(d, u, "SERVICE_CREATE_RESULT") /\ d.payload.services = {s}
        BY <1>1, <1>2, AnnounceSays
    <2>2. out' = q
        BY <1>3, <1>5
    <2> HIDE DEF q
    <2>3. /\ DOMAIN services' = DOMAIN services \cup {s}
          /\ \A t \in DOMAIN services : services'[t] = services[t]
        BY <1>1, <1>5 DEF Creating, Put
    <2>4. ASSUME NEW u \in DOMAIN clients
          PROVE  /\ ToldServices(u, "SERVICE_CREATE_RESULT")' = {s}
                 /\ ToldServices(u, "SERVICE_DELETE_RESULT")' = {}
        <3>1. \A x : x \in ToldServices(u, "SERVICE_CREATE_RESULT")' <=> x \in {s}
            BY <2>1, <2>2, ToldSaid
        <3>2. \A x : x \notin ToldServices(u, "SERVICE_DELETE_RESULT")'
            BY <2>1, <2>2, ToldSaid
        <3> QED
            BY <3>1, <3>2
    <2>5. Truthful
        BY <1>4, <1>5, <2>1, <2>2, <2>3, <2>4, ServicesTruthful
    <2>6. NumbersReply
        BY <1>1, <1>4, <2>1, <2>2, AnswerNumbered
    <2> QED
        BY <2>5, <2>6
<1>6. CASE ~ok
    <2>1. services' = services /\ out' = Reply(w, result)
        BY <1>1, <1>3, <1>6 DEF Creating
    <2> DEFINE one == [to |-> {w}, payload |-> Sequenced(result, clients[w].seq)]
    <2>2. OneNumbered(out', w, clients[w].seq) /\ Said(out') = {one}
        BY <1>1, <1>2, <2>1, ReplySays
    <2>3. /\ one.payload.seq # Unsequenced /\ one.payload.type = "SERVICE_CREATE_RESULT"
        <3>1. clients[w].seq \in SeqNumber
            BY <1>1, <1>4 DEF IsMap, Client
        <3> QED
            BY <1>2, <3>1, SequencedSays
    <2> HIDE DEF one
    <2>4. ASSUME NEW u \in DOMAIN clients
          PROVE  /\ ToldServices(u, "SERVICE_CREATE_RESULT")' = {}
                 /\ ToldServices(u, "SERVICE_DELETE_RESULT")' = {}
        <3>1. \A type : ~Tells(one, u, type)
            BY <2>3 DEF Tells
        <3>2. \A type, x : x \notin ToldServices(u, type)'
            BY <2>2, <3>1, ToldSaid
        <3> QED
            BY <3>2
    <2>5. Truthful
        BY <1>4, <2>1, <2>2, <2>3, <2>4, ServicesTruthful
    <2>6. NumbersReply
        BY <1>1, <1>4, <2>2, AnswerNumbered
    <2> QED
        BY <2>5, <2>6
<1> QED
    BY <1>5, <1>6

LEMMA ServiceDeleteTruthful ==
    ASSUME IInv, NEW w \in Uuid, NEW s \in Service, ServiceDelete(w, s)
    PROVE  Truthful /\ NumbersReply
<1> DEFINE result == About("SERVICE_DELETE_RESULT", {}, {s})
           q == Broadcast(clients, result) \o Reply(w, result)
<1>1. /\ Serving(w) /\ Advance(w, clients) /\ services' = Removing(w, s) /\ s \in DOMAIN services
      /\ IsMap(clients, Uuid, Client) /\ alive \in BOOLEAN
    BY DEF ServiceDelete, IInv, Typed
<1>2. /\ result \in Payload /\ result.type = "SERVICE_DELETE_RESULT" /\ result.seq = Unsequenced
      /\ result.services = {s}
    BY AboutSays DEF PayloadType
<1>3. w \in DOMAIN clients /\ DOMAIN clients' = DOMAIN clients
    BY <1>1, AdvanceEffect DEF Serving
<1>4. CASE services[s].owner_uuid = w
    <2>1. out' = q
        BY <1>4 DEF ServiceDelete
    <2> HIDE DEF result
    <2>2. /\ OneNumbered(q, w, clients[w].seq)
          /\ \A d \in Said(q) : d.payload.type = "SERVICE_DELETE_RESULT"
          /\ \A u, type : \A d \in Said(q) : Tells(d, u, type) =>
                type = "SERVICE_DELETE_RESULT" /\ d.payload.services = {s}
          /\ \A u \in DOMAIN clients : \E d \in Said(q) :
                Tells(d, u, "SERVICE_DELETE_RESULT") /\ d.payload.services = {s}
        BY <1>1, <1>2, AnnounceSays
    <2> HIDE DEF q
    <2>3. /\ DOMAIN services' = DOMAIN services \ {s}
          /\ \A t \in DOMAIN services \ {s} : services'[t] = services[t]
        BY <1>1, <1>4 DEF Removing, Erase, Restrict
    <2>4. ASSUME NEW u \in DOMAIN clients
          PROVE  /\ ToldServices(u, "SERVICE_CREATE_RESULT")' = {}
                 /\ ToldServices(u, "SERVICE_DELETE_RESULT")' = {s}
        <3>1. \A x : x \in ToldServices(u, "SERVICE_DELETE_RESULT")' <=> x \in {s}
            BY <2>1, <2>2, ToldSaid
        <3>2. \A x : x \notin ToldServices(u, "SERVICE_CREATE_RESULT")'
            BY <2>1, <2>2, ToldSaid
        <3> QED
            BY <3>1, <3>2
    <2>5. Truthful
        BY <1>1, <1>3, <2>1, <2>2, <2>3, <2>4, ServicesTruthful
    <2>6. NumbersReply
        BY <1>1, <1>3, <2>1, <2>2, AnswerNumbered
    <2> QED
        BY <2>5, <2>6
<1>5. CASE services[s].owner_uuid # w
    <2>1. services' = services /\ out' = Deliver({w}, Plain("BAD"))
        BY <1>1, <1>5 DEF ServiceDelete, Removing, Send
    <2>2. Plain("BAD") \in Payload /\ Plain("BAD").type = "BAD" /\ Plain("BAD").seq = Unsequenced
        BY AboutSays DEF Plain, PayloadType
    <2>3. Silent(out') /\ Unnumbered(out')
        BY <2>1, <2>2, DeliverSays DEF Announcing
    <2> QED
        BY <1>3, <2>1, <2>3, SilentTruthful, UnnumberedReply DEF Silent
<1> QED
    BY <1>4, <1>5

-----------------------------------------------------------------------------
(* Subscribers come and go                                                 *)

\* Delivery d answers w's request about s, and e tells those of to about w.
Confirms(d, w, type, s) ==
    /\ d.to = {w} /\ d.payload.type = type /\ d.payload.seq # Unsequenced
    /\ d.payload.services = {s}
Informs(e, to, w, type, s) ==
    /\ e.to = to /\ e.payload.type = type /\ e.payload.seq = Unsequenced
    /\ e.payload.clients = {w} /\ e.payload.services = {s}

LEMMA ReplyConfirms ==
    ASSUME IInv, NEW w \in Uuid, Serving(w), NEW s \in Service, NEW type \in PayloadType, NEW ok \in BOOLEAN
    PROVE  LET q == Reply(w, Result(type, ok, {}, {s})) IN
           /\ q \in Post(Uuid) /\ OneNumbered(q, w, clients[w].seq)
           /\ \E d : Said(q) = {d} /\ Confirms(d, w, type, s) /\ (Succeeds(d) <=> ok = TRUE)
<1> DEFINE r == Result(type, ok, {}, {s})
           d == [to |-> {w}, payload |-> Sequenced(r, clients[w].seq)]
<1>1. clients[w].seq \in SeqNumber
    BY DEF IInv, Typed, IsMap, Serving, Client
<1>2. r \in Payload /\ r.type = type /\ r.successful = ok /\ r.services = {s}
    BY ResultSays
<1>3. /\ Reply(w, r) \in Post(Uuid) /\ OneNumbered(Reply(w, r), w, clients[w].seq)
      /\ Said(Reply(w, r)) = {d}
    BY <1>2, ReplySays
<1>4. Confirms(d, w, type, s) /\ (Succeeds(d) <=> ok = TRUE)
    BY <1>1, <1>2, SequencedSays DEF Confirms, Succeeds
<1> QED
    BY <1>3, <1>4

LEMMA MemberSucceeds ==
    ASSUME IInv, NEW w \in Uuid, Serving(w), NEW s \in Service,
           NEW type \in PayloadType, NEW type2 \in PayloadType, NEW to \in SUBSET Uuid,
           out' = Reply(w, Result(type, TRUE, {}, {s})) \o Deliver(to, About(type2, {w}, {s}))
    PROVE  /\ OneNumbered(out', w, clients[w].seq)
           /\ \E d, e : Said(out') = {d, e} /\ Confirms(d, w, type, s) /\ Succeeds(d) /\ Informs(e, to, w, type2, s)
<1> DEFINE one == Reply(w, Result(type, TRUE, {}, {s}))
           n == About(type2, {w}, {s})
           all == Deliver(to, n)
           e == [to |-> to, payload |-> n]
<1>1. n \in Payload /\ n.type = type2 /\ n.seq = Unsequenced /\ n.clients = {w} /\ n.services = {s}
    BY AboutSays
<1>2. one \in Post(Uuid) /\ OneNumbered(one, w, clients[w].seq)
    BY ReplyConfirms
<1>3. PICK d : Said(one) = {d} /\ Confirms(d, w, type, s) /\ Succeeds(d)
    BY ReplyConfirms
<1>4. all \in Post(Uuid) /\ Unnumbered(all) /\ Said(all) = {e} /\ Informs(e, to, w, type2, s)
    BY <1>1, DeliverSays, SaidDeliver DEF Informs
<1> HIDE DEF one, all, e
<1>5. OneNumbered(one \o all, w, clients[w].seq) /\ Said(one \o all) = {d, e}
    BY <1>2, <1>3, <1>4, NumberedJoined, SaidJoined
<1>6. out' = one \o all
    BY DEF one, all
<1> QED
    BY <1>3, <1>4, <1>5, <1>6

LEMMA MemberFails ==
    ASSUME IInv, NEW w \in Uuid, Serving(w), NEW s \in Service, NEW type \in PayloadType,
           out' = Reply(w, Result(type, FALSE, {}, {s})) \o <<>>
    PROVE  /\ OneNumbered(out', w, clients[w].seq)
           /\ \E d : Said(out') = {d} /\ Confirms(d, w, type, s) /\ ~Succeeds(d)
<1> DEFINE one == Reply(w, Result(type, FALSE, {}, {s}))
<1>1. one \in Post(Uuid) /\ OneNumbered(one, w, clients[w].seq)
    BY ReplyConfirms
<1>2. one \o <<>> = one
    BY <1>1, ConcatEmptySeq DEF Post
<1> QED
    BY <1>1, <1>2, ReplyConfirms

\* Whoever is told hears of w and of nobody else; w alone is confirmed, in this only.
LEMMA Informed ==
    ASSUME NEW d, NEW e, NEW w, NEW s, NEW to, NEW type, NEW type2, type # type2,
           Said(out') = {d, e}, Confirms(d, w, type, s) /\ Succeeds(d), Informs(e, to, w, type2, s)
    PROVE  /\ \A u \in to : ToldAbout(u, type2, s)' = {w}
           /\ \A u : Confirmed(u, type, s)' <=> u = w
           /\ \A u, other : other \notin {type, type2} =>
                    ToldAbout(u, other, s)' = {} /\ ~Confirmed(u, other, s)'
           /\ \A m \in Said(out') : m.payload.type \in {type, type2} /\ m.payload.services = {s}
<1>1. ASSUME NEW u \in to PROVE ToldAbout(u, type2, s)' = {w}
    <2>1. Tells(e, u, type2) /\ ~Tells(d, u, type2)
        BY DEF Tells, Confirms, Informs
    <2>2. \A x : x \in ToldAbout(u, type2, s)' <=> x \in {w}
        BY <2>1, ToldSaid DEF Informs
    <2> QED
        BY <2>2
<1>2. ASSUME NEW u PROVE Confirmed(u, type, s)' <=> u = w
    <2>1. Confirmed(u, type, s)' => u = w
        BY ConfirmedSaid DEF Confirms, Informs
    <2>2. Confirmed(w, type, s)'
        BY SaidConfirmed DEF Confirms
    <2> QED
        BY <2>1, <2>2
<1>3. ASSUME NEW u, NEW other, other \notin {type, type2}
      PROVE  ToldAbout(u, other, s)' = {} /\ ~Confirmed(u, other, s)'
    <2>1. ~Tells(e, u, other) /\ ~Tells(d, u, other)
        BY <1>3 DEF Tells, Confirms, Informs
    <2>2. \A x : x \notin ToldAbout(u, other, s)'
        BY <2>1, ToldSaid
    <2>3. ~Confirmed(u, other, s)'
        BY <1>3, ConfirmedSaid DEF Confirms, Informs
    <2> QED
        BY <2>2, <2>3
<1>4. \A m \in Said(out') : m.payload.type \in {type, type2} /\ m.payload.services = {s}
    BY DEF Confirms, Informs
<1> QED
    BY <1>1, <1>2, <1>3, <1>4

LEMMA NotInformed ==
    ASSUME NEW d, NEW w, NEW s, NEW type, Said(out') = {d}, Confirms(d, w, type, s) /\ ~Succeeds(d)
    PROVE  /\ \A u, other : ToldAbout(u, other, s)' = {} /\ ~Confirmed(u, other, s)'
           /\ \A m \in Said(out') : m.payload.type = type /\ m.payload.services = {s}
<1>1. ASSUME NEW u, NEW other PROVE ToldAbout(u, other, s)' = {} /\ ~Confirmed(u, other, s)'
    <2>1. ~Tells(d, u, other)
        BY DEF Tells, Confirms
    <2>2. \A x : x \notin ToldAbout(u, other, s)'
        BY <2>1, ToldSaid
    <2>3. ~Confirmed(u, other, s)'
        BY ConfirmedSaid DEF Confirms
    <2> QED
        BY <2>2, <2>3
<1> QED
    BY <1>1 DEF Confirms

\* Nothing is told or confirmed of a service that no delivery speaks of.
LEMMA NothingOf ==
    ASSUME NEW t, \A d \in Said(out') : d.payload.services # {t}, NEW u, NEW type
    PROVE  ToldAbout(u, type, t)' = {} /\ ~Confirmed(u, type, t)'
<1>1. \A x : x \notin ToldAbout(u, type, t)'
    <2>1. \A d \in Said(out') : ~(Tells(d, u, type) /\ d.payload.services = {t})
        OBVIOUS
    <2> QED
        BY <2>1, ToldSaid
<1>2. ~Confirmed(u, type, t)'
    BY ConfirmedSaid
<1> QED
    BY <1>1, <1>2

\* What both have in common: one service's subscribers differ, and nothing is said
\* of anything else.
LEMMA MemberTruthful ==
    ASSUME IInv, DOMAIN clients' = DOMAIN clients, DOMAIN services' = DOMAIN services,
           NEW s \in DOMAIN services,
           \A t \in DOMAIN services : /\ services'[t].owner_uuid = services[t].owner_uuid
                                      /\ t # s => services'[t].subscribers = services[t].subscribers,
           \A d \in Said(out') : /\ d.payload.type \notin Announcing
                                        \ {"SERVICE_CLIENT_SUBSCRIBED", "SERVICE_CLIENT_UNSUBSCRIBED",
                                           "SELF_SUBSCRIBE_RESULT", "SELF_UNSUBSCRIBE_RESULT"}
                                 /\ d.payload.services = {s},
           \A u \in services[s].subscribers \cap services'[s].subscribers :
                /\ ToldAbout(u, "SERVICE_CLIENT_SUBSCRIBED", s)'
                        = services'[s].subscribers \ services[s].subscribers
                /\ services[s].subscribers \ services'[s].subscribers
                        \subseteq ToldAbout(u, "SERVICE_CLIENT_UNSUBSCRIBED", s)',
           \A u \in DOMAIN clients :
                /\ u \in services'[s].subscribers \ services[s].subscribers
                        <=> Confirmed(u, "SELF_SUBSCRIBE_RESULT", s)'
                /\ u \in services[s].subscribers \ services'[s].subscribers
                        <=> Confirmed(u, "SELF_UNSUBSCRIBE_RESULT", s)'
    PROVE  Truthful
<1>1. ASSUME NEW type \in {"CLIENT_JOINED", "CLIENT_LEFT", "SERVICE_CREATE_RESULT", "SERVICE_DELETE_RESULT"},
             NEW u
      PROVE  ToldClients(u, type)' = {} /\ ToldServices(u, type)' = {}
    <2>1. \A d \in Said(out') : ~Tells(d, u, type)
        BY <1>1 DEF Tells, Announcing
    <2>2. \A x : x \notin ToldClients(u, type)' /\ x \notin ToldServices(u, type)'
        BY <2>1, ToldSaid
    <2> QED
        BY <2>2
<1>2. TellsOfChanges
    BY <1>1 DEF TellsOfChanges
<1>3. ASSUME NEW t, t # s, NEW u, NEW type
      PROVE  ToldAbout(u, type, t)' = {} /\ ~Confirmed(u, type, t)'
    <2>1. \A d \in Said(out') : d.payload.services # {t}
        BY <1>3
    <2> QED
        BY <2>1, NothingOf
<1>4. TellsMembers
    <2> SUFFICES ASSUME NEW t \in DOMAIN services \cap DOMAIN services',
                        NEW u \in services[t].subscribers \cap services'[t].subscribers
                 PROVE  /\ ToldAbout(u, "SERVICE_CLIENT_SUBSCRIBED", t)'
                                = services'[t].subscribers \ services[t].subscribers
                        /\ services[t].subscribers \ services'[t].subscribers
                                \subseteq ToldAbout(u, "SERVICE_CLIENT_UNSUBSCRIBED", t)'
        BY DEF TellsMembers
    <2>1. CASE t = s
        BY <2>1
    <2>2. CASE t # s
        BY <1>3, <2>2
    <2> QED
        BY <2>1, <2>2
<1>5. LeavesToMembers
    <2> SUFFICES ASSUME NEW t \in DOMAIN services \cap DOMAIN services', NEW u \in Stayed
                 PROVE  /\ u \in services'[t].subscribers \ services[t].subscribers
                                <=> Confirmed(u, "SELF_SUBSCRIBE_RESULT", t)'
                        /\ u \in services[t].subscribers \ services'[t].subscribers
                                <=> Confirmed(u, "SELF_UNSUBSCRIBE_RESULT", t)'
        BY DEF LeavesToMembers
    <2>1. CASE t = s
        BY <2>1 DEF Stayed
    <2>2. CASE t # s
        BY <1>3, <2>2
    <2> QED
        BY <2>1, <2>2
<1> QED
    BY <1>2, <1>4, <1>5 DEF Truthful

LEMMA SelfSubscribeTruthful ==
    ASSUME IInv, NEW w \in Uuid, NEW s \in Service, SelfSubscribe(w, s)
    PROVE  Truthful /\ NumbersReply
<1> DEFINE cs == Subscribing(w, s)
           joined == AddSubscriber(services[s], w)
           to == {v \in joined.subscribers \cap DOMAIN clients : TRUE \/ v # joined.owner_uuid}
<1>1. /\ Serving(w) /\ w \in DOMAIN clients /\ s \in DOMAIN services /\ Advance(w, cs)
      /\ services' = Put(services, s, joined)
      /\ IsMap(clients, Uuid, Client) /\ IsMap(services, Service, ServiceInfo) /\ alive \in BOOLEAN
    BY DEF SelfSubscribe, IInv, Typed, Serving
<1>2. services[s] \in ServiceInfo /\ clients[w] \in Client
    BY <1>1 DEF IsMap
<1>3. joined.owner_uuid = services[s].owner_uuid /\ joined.subscribers = services[s].subscribers \cup {w}
    BY <1>2 DEF AddSubscriber, ServiceInfo
<1>4. IsMap(cs, Uuid, Client) /\ DOMAIN cs = DOMAIN clients /\ cs[w].seq = clients[w].seq
    BY <1>1, <1>2 DEF IsMap, Client, Subscribing
<1>5. DOMAIN clients' = DOMAIN clients
    BY <1>1, <1>4, AdvanceEffect
<1>6. /\ DOMAIN services' = DOMAIN services
      /\ \A t \in DOMAIN services : /\ services'[t].owner_uuid = services[t].owner_uuid
                                    /\ t # s => services'[t].subscribers = services[t].subscribers
      /\ services'[s].subscribers = services[s].subscribers \cup {w}
    BY <1>1, <1>3 DEF Put
<1>7. to \in SUBSET Uuid /\ services[s].subscribers \subseteq to
    <2>1. services[s].subscribers \subseteq DOMAIN clients
        BY <1>1 DEF IInv, NoOrphans
    <2> QED
        BY <1>1, <1>3, <2>1 DEF IsMap
<1>8. ServiceBroadcast(clients, joined, About("SERVICE_CLIENT_SUBSCRIBED", {w}, {s}), TRUE)
        = Deliver(to, About("SERVICE_CLIENT_SUBSCRIBED", {w}, {s}))
    BY DEF ServiceBroadcast
<1>9. {"SELF_SUBSCRIBE_RESULT", "SERVICE_CLIENT_SUBSCRIBED"} \subseteq PayloadType
    BY DEF PayloadType
<1>10. CASE w \notin services[s].subscribers
    <2>1. out' = Reply(w, Result("SELF_SUBSCRIBE_RESULT", TRUE, {}, {s}))
                 \o Deliver(to, About("SERVICE_CLIENT_SUBSCRIBED", {w}, {s}))
        BY <1>8, <1>10 DEF SelfSubscribe
    <2> HIDE DEF cs, to, joined
    <2>2. OneNumbered(out', w, clients[w].seq)
        BY <1>1, <1>7, <1>9, <2>1, MemberSucceeds
    <2>3. PICK d, e : /\ Said(out') = {d, e} /\ Confirms(d, w, "SELF_SUBSCRIBE_RESULT", s) /\ Succeeds(d)
                      /\ Informs(e, to, w, "SERVICE_CLIENT_SUBSCRIBED", s)
        BY <1>1, <1>7, <1>9, <2>1, MemberSucceeds
    <2>. "SELF_SUBSCRIBE_RESULT" # "SERVICE_CLIENT_SUBSCRIBED"
        OBVIOUS
    <2>4. /\ \A u \in to : ToldAbout(u, "SERVICE_CLIENT_SUBSCRIBED", s)' = {w}
          /\ \A u : Confirmed(u, "SELF_SUBSCRIBE_RESULT", s)' <=> u = w
          /\ \A u : ~Confirmed(u, "SELF_UNSUBSCRIBE_RESULT", s)'
          /\ \A m \in Said(out') : /\ m.payload.type \in {"SELF_SUBSCRIBE_RESULT", "SERVICE_CLIENT_SUBSCRIBED"}
                                   /\ m.payload.services = {s}
        BY <2>3, Informed
    <2>5. \A u \in services[s].subscribers \cap services'[s].subscribers :
                /\ ToldAbout(u, "SERVICE_CLIENT_SUBSCRIBED", s)'
                        = services'[s].subscribers \ services[s].subscribers
                /\ services[s].subscribers \ services'[s].subscribers
                        \subseteq ToldAbout(u, "SERVICE_CLIENT_UNSUBSCRIBED", s)'
        BY <1>6, <1>7, <1>10, <2>4
    <2>6. \A u \in DOMAIN clients :
                /\ u \in services'[s].subscribers \ services[s].subscribers
                        <=> Confirmed(u, "SELF_SUBSCRIBE_RESULT", s)'
                /\ u \in services[s].subscribers \ services'[s].subscribers
                        <=> Confirmed(u, "SELF_UNSUBSCRIBE_RESULT", s)'
        BY <1>6, <1>10, <2>4
    <2>7. Truthful
        BY <1>1, <1>5, <1>6, <2>4, <2>5, <2>6, MemberTruthful
    <2>8. NumbersReply
        BY <1>1, <1>4, <2>2, AnswerNumbered
    <2> QED
        BY <2>7, <2>8
<1>11. CASE w \in services[s].subscribers
    <2>1. out' = Reply(w, Result("SELF_SUBSCRIBE_RESULT", FALSE, {}, {s})) \o <<>>
        BY <1>11 DEF SelfSubscribe
    <2> HIDE DEF cs, to, joined
    <2>2. OneNumbered(out', w, clients[w].seq)
        BY <1>1, <1>9, <2>1, MemberFails
    <2>3. PICK d : Said(out') = {d} /\ Confirms(d, w, "SELF_SUBSCRIBE_RESULT", s) /\ ~Succeeds(d)
        BY <1>1, <1>9, <2>1, MemberFails
    <2>4. /\ \A u, other : ToldAbout(u, other, s)' = {} /\ ~Confirmed(u, other, s)'
          /\ \A m \in Said(out') : m.payload.type = "SELF_SUBSCRIBE_RESULT" /\ m.payload.services = {s}
        BY <2>3, NotInformed
    <2>5. services'[s].subscribers = services[s].subscribers
        BY <1>6, <1>11
    <2>6. Truthful
        BY <1>1, <1>5, <1>6, <2>4, <2>5, MemberTruthful
    <2>7. NumbersReply
        BY <1>1, <1>4, <2>2, AnswerNumbered
    <2> QED
        BY <2>6, <2>7
<1> QED
    BY <1>10, <1>11

LEMMA SelfUnsubscribeTruthful ==
    ASSUME IInv, NEW w \in Uuid, NEW s \in Service, SelfUnsubscribe(w, s)
    PROVE  Truthful /\ NumbersReply
<1> DEFINE cs == Unsubscribing(w, s)
           left == WithoutSubscriber(services[s], w)
           to == {v \in left.subscribers \cap DOMAIN clients : TRUE \/ v # left.owner_uuid}
<1>1. /\ Serving(w) /\ w \in DOMAIN clients /\ s \in DOMAIN services /\ Advance(w, cs)
      /\ services' = Put(services, s, left)
      /\ IsMap(clients, Uuid, Client) /\ IsMap(services, Service, ServiceInfo) /\ alive \in BOOLEAN
    BY DEF SelfUnsubscribe, IInv, Typed, Serving
<1>2. services[s] \in ServiceInfo /\ clients[w] \in Client
    BY <1>1 DEF IsMap
<1>3. left.owner_uuid = services[s].owner_uuid /\ left.subscribers = services[s].subscribers \ {w}
    BY <1>2 DEF WithoutSubscriber, ServiceInfo
<1>4. IsMap(cs, Uuid, Client) /\ DOMAIN cs = DOMAIN clients /\ cs[w].seq = clients[w].seq
    BY <1>1, <1>2 DEF IsMap, Client, Unsubscribing
<1>5. DOMAIN clients' = DOMAIN clients
    BY <1>1, <1>4, AdvanceEffect
<1>6. /\ DOMAIN services' = DOMAIN services
      /\ \A t \in DOMAIN services : /\ services'[t].owner_uuid = services[t].owner_uuid
                                    /\ t # s => services'[t].subscribers = services[t].subscribers
      /\ services'[s].subscribers = services[s].subscribers \ {w}
    BY <1>1, <1>3 DEF Put
<1>7. to \in SUBSET Uuid /\ services[s].subscribers \ {w} \subseteq to
    <2>1. services[s].subscribers \subseteq DOMAIN clients
        BY <1>1 DEF IInv, NoOrphans
    <2> QED
        BY <1>1, <1>3, <2>1 DEF IsMap
<1>8. ServiceBroadcast(clients, left, About("SERVICE_CLIENT_UNSUBSCRIBED", {w}, {s}), TRUE)
        = Deliver(to, About("SERVICE_CLIENT_UNSUBSCRIBED", {w}, {s}))
    BY DEF ServiceBroadcast
<1>9. {"SELF_UNSUBSCRIBE_RESULT", "SERVICE_CLIENT_UNSUBSCRIBED"} \subseteq PayloadType
    BY DEF PayloadType
<1>10. CASE w \in services[s].subscribers
    <2>1. out' = Reply(w, Result("SELF_UNSUBSCRIBE_RESULT", TRUE, {}, {s}))
                 \o Deliver(to, About("SERVICE_CLIENT_UNSUBSCRIBED", {w}, {s}))
        BY <1>8, <1>10 DEF SelfUnsubscribe
    <2> HIDE DEF cs, to, left
    <2>2. OneNumbered(out', w, clients[w].seq)
        BY <1>1, <1>7, <1>9, <2>1, MemberSucceeds
    <2>3. PICK d, e : /\ Said(out') = {d, e} /\ Confirms(d, w, "SELF_UNSUBSCRIBE_RESULT", s) /\ Succeeds(d)
                      /\ Informs(e, to, w, "SERVICE_CLIENT_UNSUBSCRIBED", s)
        BY <1>1, <1>7, <1>9, <2>1, MemberSucceeds
    <2>. "SELF_UNSUBSCRIBE_RESULT" # "SERVICE_CLIENT_UNSUBSCRIBED"
        OBVIOUS
    <2>4. /\ \A u \in to : ToldAbout(u, "SERVICE_CLIENT_UNSUBSCRIBED", s)' = {w}
          /\ \A u : Confirmed(u, "SELF_UNSUBSCRIBE_RESULT", s)' <=> u = w
          /\ \A u : /\ ~Confirmed(u, "SELF_SUBSCRIBE_RESULT", s)'
                  /\ ToldAbout(u, "SERVICE_CLIENT_SUBSCRIBED", s)' = {}
          /\ \A m \in Said(out') : /\ m.payload.type \in {"SELF_UNSUBSCRIBE_RESULT", "SERVICE_CLIENT_UNSUBSCRIBED"}
                                   /\ m.payload.services = {s}
        BY <2>3, Informed
    <2>5. \A u \in services[s].subscribers \cap services'[s].subscribers :
                /\ ToldAbout(u, "SERVICE_CLIENT_SUBSCRIBED", s)'
                        = services'[s].subscribers \ services[s].subscribers
                /\ services[s].subscribers \ services'[s].subscribers
                        \subseteq ToldAbout(u, "SERVICE_CLIENT_UNSUBSCRIBED", s)'
        BY <1>6, <1>7, <1>10, <2>4
    <2>6. \A u \in DOMAIN clients :
                /\ u \in services'[s].subscribers \ services[s].subscribers
                        <=> Confirmed(u, "SELF_SUBSCRIBE_RESULT", s)'
                /\ u \in services[s].subscribers \ services'[s].subscribers
                        <=> Confirmed(u, "SELF_UNSUBSCRIBE_RESULT", s)'
        BY <1>6, <1>10, <2>4
    <2>7. Truthful
        BY <1>1, <1>5, <1>6, <2>4, <2>5, <2>6, MemberTruthful
    <2>8. NumbersReply
        BY <1>1, <1>4, <2>2, AnswerNumbered
    <2> QED
        BY <2>7, <2>8
<1>11. CASE w \notin services[s].subscribers
    <2>0. (w \in services[s].subscribers) = FALSE
        BY <1>11
    <2>1. out' = Reply(w, Result("SELF_UNSUBSCRIBE_RESULT", FALSE, {}, {s})) \o <<>>
        BY <2>0 DEF SelfUnsubscribe
    <2> HIDE DEF cs, to, left
    <2>2. OneNumbered(out', w, clients[w].seq)
        BY <1>1, <1>9, <2>1, MemberFails
    <2>3. PICK d : Said(out') = {d} /\ Confirms(d, w, "SELF_UNSUBSCRIBE_RESULT", s) /\ ~Succeeds(d)
        BY <1>1, <1>9, <2>1, MemberFails
    <2>4. /\ \A u, other : ToldAbout(u, other, s)' = {} /\ ~Confirmed(u, other, s)'
          /\ \A m \in Said(out') : m.payload.type = "SELF_UNSUBSCRIBE_RESULT" /\ m.payload.services = {s}
        BY <2>3, NotInformed
    <2>5. services'[s].subscribers = services[s].subscribers
        BY <1>6, <1>11
    <2>6. Truthful
        BY <1>1, <1>5, <1>6, <2>4, <2>5, MemberTruthful
    <2>7. NumbersReply
        BY <1>1, <1>4, <2>2, AnswerNumbered
    <2> QED
        BY <2>6, <2>7
<1> QED
    BY <1>10, <1>11

-----------------------------------------------------------------------------
(* Clients come and go                                                     *)

LEMMA IdentifyTruthful ==
    ASSUME IInv, NEW w \in Uuid, NEW n \in Name, Identify(w, n)
    PROVE  Truthful /\ NumbersReply
<1> DEFINE joined == About("CLIENT_JOINED", {w}, {})
           hello == About("HELLO", {w}, {})
           all == [to |-> DOMAIN clients, payload |-> joined]
           one == [to |-> {w}, payload |-> hello]
<1>1. /\ w \notin DOMAIN clients /\ DOMAIN clients \in SUBSET Uuid
      /\ DOMAIN clients' = DOMAIN clients \cup {w} /\ services' = services
      /\ out' = Deliver(DOMAIN clients, joined) \o Deliver({w}, hello)
    BY DEF Identify, IInv, Typed, IsMap, ClientsIssued, Put, Broadcast, Send
<1>2. /\ joined \in Payload /\ joined.type = "CLIENT_JOINED" /\ joined.seq = Unsequenced
      /\ joined.clients = {w} /\ joined.services = {}
      /\ hello \in Payload /\ hello.type = "HELLO" /\ hello.seq = Unsequenced
    BY AboutSays DEF PayloadType
<1> HIDE DEF joined, hello
<1>3. /\ Deliver(DOMAIN clients, joined) \in Post(Uuid) /\ Unnumbered(Deliver(DOMAIN clients, joined))
      /\ Deliver({w}, hello) \in Post(Uuid) /\ Unnumbered(Deliver({w}, hello))
    BY <1>1, <1>2, DeliverSays
<1>4. Said(out') = {all, one}
    <2>1. Said(Deliver(DOMAIN clients, joined)) = {all} /\ Said(Deliver({w}, hello)) = {one}
        BY SaidDeliver
    <2> HIDE DEF all, one
    <2>2. Said(out') = Said(Deliver(DOMAIN clients, joined)) \cup Said(Deliver({w}, hello))
        BY <1>1, <1>3, SaidJoined
    <2> QED
        BY <2>1, <2>2
<1>5. Unnumbered(out')
    BY <1>1, <1>3, UnnumberedJoined
<1>6. /\ \A u, type : Tells(all, u, type) <=> u \in DOMAIN clients /\ type = "CLIENT_JOINED"
      /\ \A u, type : Tells(one, u, type) => type = "HELLO"
      /\ all.payload = joined /\ one.payload = hello /\ all.to = DOMAIN clients
    BY <1>2 DEF Tells
<1> HIDE DEF all, one
<1>7. ASSUME NEW type \in Announcing \ {"CLIENT_JOINED"}, NEW u
      PROVE  /\ ToldClients(u, type)' = {} /\ ToldServices(u, type)' = {}
             /\ \A s : ToldAbout(u, type, s)' = {} /\ ~Confirmed(u, type, s)'
    <2>0. \A d \in Said(out') : d.payload.type # type
        BY <1>2, <1>4, <1>6, <1>7 DEF Announcing
    <2>1. \A d \in Said(out') : ~Tells(d, u, type)
        BY <2>0 DEF Tells
    <2>2. \A x : x \notin ToldClients(u, type)' /\ x \notin ToldServices(u, type)'
        BY <2>1, ToldSaid
    <2>3. \A s, x : x \notin ToldAbout(u, type, s)'
        BY <2>1, ToldSaid
    <2>4. \A s : ~Confirmed(u, type, s)'
        BY <2>0, ConfirmedSaid
    <2> QED
        BY <2>2, <2>3, <2>4
<1>8. ASSUME NEW u \in DOMAIN clients
      PROVE  ToldClients(u, "CLIENT_JOINED")' = {w}
    <2>1. \A x : x \in ToldClients(u, "CLIENT_JOINED")' <=> x \in {w}
        BY <1>2, <1>4, <1>6, ToldSaid
    <2> QED
        BY <2>1
<1>9. ASSUME NEW i \in DOMAIN out', w \in out'[i].to
      PROVE  out'[i].payload = hello
    <2>1. out'[i] \in {all, one}
        BY <1>4 DEF Said
    <2> QED
        BY <1>1, <1>6, <1>9, <2>1
<1>10. TellsOfChanges
    <2>1. \A u \in Stayed :
            /\ ToldClients(u, "CLIENT_JOINED")' = (DOMAIN clients)' \ DOMAIN clients
            /\ ToldClients(u, "CLIENT_LEFT")' = DOMAIN clients \ (DOMAIN clients)'
            /\ ToldServices(u, "SERVICE_CREATE_RESULT")' = (DOMAIN services)' \ DOMAIN services
            /\ ToldServices(u, "SERVICE_DELETE_RESULT")' = DOMAIN services \ (DOMAIN services)'
        BY <1>1, <1>7, <1>8 DEF Announcing, Stayed
    <2>2. \A u \in (DOMAIN clients)' \ DOMAIN clients : \A i \in (DOMAIN out)' :
            u \in out'[i].to => out'[i].payload = About("HELLO", {u}, {})
        BY <1>1, <1>9 DEF hello
    <2> QED
        BY <2>1, <2>2 DEF TellsOfChanges
<1>11. TellsMembers
    <2>1. \A u, s : ToldAbout(u, "SERVICE_CLIENT_SUBSCRIBED", s)' = {}
        BY <1>7 DEF Announcing
    <2> QED
        BY <1>1, <2>1 DEF TellsMembers
<1>12. LeavesToMembers
    BY <1>1, <1>7 DEF LeavesToMembers, Announcing
<1> QED
    BY <1>5, <1>10, <1>11, <1>12, UnnumberedReply DEF Truthful

\* Every element is somewhere in each of the set's sequences, and nothing else.
LEMMA SeqsCover ==
    ASSUME NEW S, IsFiniteSet(S), NEW q \in SetToSeqs(S)
    PROVE  Len(q) \in Nat /\ DOMAIN q = 1 .. Len(q) /\ {q[i] : i \in 1 .. Len(q)} = S
<1> DEFINE n == Cardinality(S)
<1>1. n \in Nat /\ IsFiniteSet(1 .. n) /\ Cardinality(1 .. n) = n
    BY FS_CardinalityType, FS_Interval
<1>2. q \in [1 .. n -> S] /\ \A i, j \in 1 .. n : i # j => q[i] # q[j]
    BY DEF SetToSeqs
<1>3. q \in Injection(1 .. n, S)
    BY <1>2 DEF Injection, IsInjective
<1>4. q \in Surjection(1 .. n, S)
    BY <1>1, <1>3, FS_Injection
<1>5. q \in Seq(S)
    BY <1>1, <1>2, SeqDef
<1>6. Len(q) \in Nat /\ DOMAIN q = 1 .. Len(q)
    BY <1>5, LenProperties
<1>7. DOMAIN q = 1 .. n
    BY <1>2
<1> HIDE DEF n
<1>8. {q[i] : i \in 1 .. n} = S
    BY <1>2, <1>4 DEF Surjection
<1> QED
    BY <1>6, <1>7, <1>8

\* What is said of the end of s, of the leaver's place in s, and of the leaver.
EndOf(u, s) == [to |-> Rest(u), payload |-> About("SERVICE_DELETE_RESULT", {}, {s})]
PlaceIn(u, s) == [to |-> services[s].subscribers \cap Rest(u),
                  payload |-> About("SERVICE_CLIENT_UNSUBSCRIBED", {u}, {s})]
Gone(u) == [to |-> Rest(u), payload |-> About("CLIENT_LEFT", {u}, {})]

LEMMA FarewellSays ==
    ASSUME IInv, NEW u \in Uuid,
           NEW gone \in SetToSeqs(Owned(u)),
           NEW kept \in SetToSeqs(DOMAIN services \ Owned(u))
    PROVE  /\ Unnumbered(Farewell(u, gone, kept))
           /\ Said(Farewell(u, gone, kept)) =
                {EndOf(u, s) : s \in Owned(u)} \cup {PlaceIn(u, s) : s \in DOMAIN services \ Owned(u)}
                    \cup {Gone(u)}
<1> DEFINE ends == [i \in 1 .. Len(gone) |-> EndOf(u, gone[i])]
           places == [i \in 1 .. Len(kept) |-> PlaceIn(u, kept[i])]
           last == Deliver(Rest(u), About("CLIENT_LEFT", {u}, {}))
<1>1. Farewell(u, gone, kept) = ends \o places \o last
    BY DEF Farewell, EndOf, PlaceIn
<1>2. /\ IsFiniteSet(Owned(u)) /\ IsFiniteSet(DOMAIN services \ Owned(u))
      /\ Owned(u) \subseteq Service /\ DOMAIN services \subseteq Service /\ Rest(u) \subseteq Uuid
    BY FS_Subset DEF IInv, Typed, Owned, IsMap, Rest
<1>3. /\ Len(gone) \in Nat /\ {gone[i] : i \in 1 .. Len(gone)} = Owned(u)
      /\ Len(kept) \in Nat /\ {kept[i] : i \in 1 .. Len(kept)} = DOMAIN services \ Owned(u)
    BY <1>2, SeqsCover
<1>4. \A s \in Service : /\ EndOf(u, s) \in [to : SUBSET Uuid, payload : Payload]
                         /\ EndOf(u, s).payload.seq = Unsequenced
    <2> TAKE s \in Service
    <2>1. About("SERVICE_DELETE_RESULT", {}, {s}) \in Payload
          /\ About("SERVICE_DELETE_RESULT", {}, {s}).seq = Unsequenced
        BY AboutSays DEF PayloadType
    <2> QED
        BY <1>2, <2>1 DEF EndOf
<1>5. \A s \in Service : /\ PlaceIn(u, s) \in [to : SUBSET Uuid, payload : Payload]
                         /\ PlaceIn(u, s).payload.seq = Unsequenced
    <2> TAKE s \in Service
    <2>1. About("SERVICE_CLIENT_UNSUBSCRIBED", {u}, {s}) \in Payload
          /\ About("SERVICE_CLIENT_UNSUBSCRIBED", {u}, {s}).seq = Unsequenced
        BY AboutSays DEF PayloadType
    <2> QED
        BY <1>2, <2>1 DEF PlaceIn
<1>6. ends \in Post(Uuid) /\ Unnumbered(ends) /\ Said(ends) = {EndOf(u, s) : s \in Owned(u)}
    <2>1. \A i \in 1 .. Len(gone) : gone[i] \in Owned(u)
        BY <1>3
    <2>2. \A s \in Owned(u) : \E i \in 1 .. Len(gone) : gone[i] = s
        BY <1>3
    <2>3. ends \in [1 .. Len(gone) -> [to : SUBSET Uuid, payload : Payload]]
        BY <1>2, <1>4, <2>1
    <2>4. ends \in Post(Uuid)
        BY <1>3, <2>3, SeqDef DEF Post
    <2>5. Unnumbered(ends)
        BY <1>2, <1>4, <2>1 DEF Unnumbered
    <2>6. Said(ends) = {EndOf(u, gone[i]) : i \in 1 .. Len(gone)}
        BY DEF Said
    <2>7. {EndOf(u, gone[i]) : i \in 1 .. Len(gone)} = {EndOf(u, s) : s \in Owned(u)}
        BY <2>1, <2>2
    <2> QED
        BY <2>4, <2>5, <2>6, <2>7
<1>7. /\ places \in Post(Uuid) /\ Unnumbered(places)
      /\ Said(places) = {PlaceIn(u, s) : s \in DOMAIN services \ Owned(u)}
    <2>1. \A i \in 1 .. Len(kept) : kept[i] \in DOMAIN services \ Owned(u)
        BY <1>3
    <2>2. \A s \in DOMAIN services \ Owned(u) : \E i \in 1 .. Len(kept) : kept[i] = s
        BY <1>3
    <2>3. places \in [1 .. Len(kept) -> [to : SUBSET Uuid, payload : Payload]]
        BY <1>2, <1>5, <2>1
    <2>4. places \in Post(Uuid)
        BY <1>3, <2>3, SeqDef DEF Post
    <2>5. Unnumbered(places)
        BY <1>2, <1>5, <2>1 DEF Unnumbered
    <2>6. Said(places) = {PlaceIn(u, kept[i]) : i \in 1 .. Len(kept)}
        BY DEF Said
    <2>7. {PlaceIn(u, kept[i]) : i \in 1 .. Len(kept)} = {PlaceIn(u, s) : s \in DOMAIN services \ Owned(u)}
        BY <2>1, <2>2
    <2> QED
        BY <2>4, <2>5, <2>6, <2>7
<1>8. last \in Post(Uuid) /\ Unnumbered(last) /\ Said(last) = {Gone(u)}
    <2>1. About("CLIENT_LEFT", {u}, {}) \in Payload /\ About("CLIENT_LEFT", {u}, {}).seq = Unsequenced
        BY AboutSays DEF PayloadType
    <2> QED
        BY <1>2, <2>1, DeliverSays, SaidDeliver DEF Gone
<1> HIDE DEF ends, places, last
<1>9. /\ ends \o places \in Post(Uuid) /\ Unnumbered(ends \o places)
      /\ Said(ends \o places) = Said(ends) \cup Said(places)
    BY <1>6, <1>7, ConcatPost, UnnumberedJoined, SaidJoined
<1>10. /\ Unnumbered(ends \o places \o last)
       /\ Said(ends \o places \o last) = Said(ends) \cup Said(places) \cup Said(last)
    BY <1>8, <1>9, UnnumberedJoined, SaidJoined
<1> QED
    BY <1>1, <1>6, <1>7, <1>8, <1>10

LEMMA FarewellTells ==
    ASSUME NEW u \in Uuid, NEW v \in Rest(u), Owned(u) \subseteq Service, DOMAIN services \subseteq Service
    PROVE  /\ \A s \in Owned(u) : \A type : Tells(EndOf(u, s), v, type) <=> type = "SERVICE_DELETE_RESULT"
           /\ \A s \in DOMAIN services : \A type : Tells(PlaceIn(u, s), v, type) <=>
                    type = "SERVICE_CLIENT_UNSUBSCRIBED" /\ v \in services[s].subscribers
           /\ \A type : Tells(Gone(u), v, type) <=> type = "CLIENT_LEFT"
<1>1. ASSUME NEW s \in Owned(u), NEW type
      PROVE  Tells(EndOf(u, s), v, type) <=> type = "SERVICE_DELETE_RESULT"
    BY DEF Tells, EndOf, About, Result
<1>2. ASSUME NEW s \in DOMAIN services, NEW type
      PROVE  Tells(PlaceIn(u, s), v, type) <=> type = "SERVICE_CLIENT_UNSUBSCRIBED" /\ v \in services[s].subscribers
    BY DEF Tells, PlaceIn, About, Result
<1>3. ASSUME NEW type PROVE Tells(Gone(u), v, type) <=> type = "CLIENT_LEFT"
    BY DEF Tells, Gone, About, Result
<1> QED
    BY <1>1, <1>2, <1>3

LEMMA FarewellSpeaks ==
    ASSUME NEW u
    PROVE  /\ \A s : /\ EndOf(u, s).payload.type = "SERVICE_DELETE_RESULT"
                     /\ EndOf(u, s).payload.services = {s}
                     /\ PlaceIn(u, s).payload.type = "SERVICE_CLIENT_UNSUBSCRIBED"
                     /\ PlaceIn(u, s).payload.services = {s} /\ PlaceIn(u, s).payload.clients = {u}
           /\ Gone(u).payload.type = "CLIENT_LEFT" /\ Gone(u).payload.clients = {u}
BY DEF EndOf, PlaceIn, Gone, About, Result

\* What whoever stays hears of the departure.
LEMMA FarewellHeard ==
    ASSUME IInv, NEW u \in Uuid, NEW v \in Rest(u),
           Said(out') = {EndOf(u, s) : s \in Owned(u)}
                            \cup {PlaceIn(u, s) : s \in DOMAIN services \ Owned(u)} \cup {Gone(u)}
    PROVE  /\ ToldClients(v, "CLIENT_LEFT")' = {u}
           /\ ToldServices(v, "SERVICE_DELETE_RESULT")' = Owned(u)
           /\ \A s \in DOMAIN services \ Owned(u) : v \in services[s].subscribers =>
                    u \in ToldAbout(v, "SERVICE_CLIENT_UNSUBSCRIBED", s)'
           /\ ToldClients(v, "CLIENT_JOINED")' = {} /\ ToldServices(v, "SERVICE_CREATE_RESULT")' = {}
           /\ \A s : /\ ToldAbout(v, "SERVICE_CLIENT_SUBSCRIBED", s)' = {}
                     /\ ~Confirmed(v, "SELF_SUBSCRIBE_RESULT", s)'
                     /\ ~Confirmed(v, "SELF_UNSUBSCRIBE_RESULT", s)'
<1>1. Owned(u) \subseteq DOMAIN services /\ Owned(u) \subseteq Service /\ DOMAIN services \subseteq Service
    BY DEF IInv, Typed, IsMap, Owned
<1>2. /\ \A s \in Owned(u) : \A type : Tells(EndOf(u, s), v, type) <=> type = "SERVICE_DELETE_RESULT"
      /\ \A s \in DOMAIN services : \A type : Tells(PlaceIn(u, s), v, type) <=>
                    type = "SERVICE_CLIENT_UNSUBSCRIBED" /\ v \in services[s].subscribers
      /\ \A type : Tells(Gone(u), v, type) <=> type = "CLIENT_LEFT"
    BY <1>1, FarewellTells
<1>3. ToldClients(v, "CLIENT_LEFT")' = {u}
    <2>1. \A d \in Said(out') : Tells(d, v, "CLIENT_LEFT") <=> d = Gone(u)
        BY <1>1, <1>2, FarewellSpeaks
    <2>2. Gone(u) \in Said(out')
        OBVIOUS
    <2>3. \A x : x \in ToldClients(v, "CLIENT_LEFT")' <=> x \in {u}
        BY <2>1, <2>2, ToldSaid, FarewellSpeaks
    <2> QED
        BY <2>3
<1>4. ToldServices(v, "SERVICE_DELETE_RESULT")' = Owned(u)
    <2>1. \A d \in Said(out') : Tells(d, v, "SERVICE_DELETE_RESULT") => \E s \in Owned(u) : d = EndOf(u, s)
        BY <1>1, <1>2, FarewellSpeaks
    <2>2. \A s \in Owned(u) : EndOf(u, s) \in Said(out') /\ Tells(EndOf(u, s), v, "SERVICE_DELETE_RESULT")
        BY <1>2
    <2>3. \A x : x \in ToldServices(v, "SERVICE_DELETE_RESULT")' <=> x \in Owned(u)
        BY <2>1, <2>2, ToldSaid, FarewellSpeaks
    <2> QED
        BY <2>3
<1>5. ASSUME NEW s \in DOMAIN services \ Owned(u), v \in services[s].subscribers
      PROVE  u \in ToldAbout(v, "SERVICE_CLIENT_UNSUBSCRIBED", s)'
    <2>1. PlaceIn(u, s) \in Said(out') /\ Tells(PlaceIn(u, s), v, "SERVICE_CLIENT_UNSUBSCRIBED")
        BY <1>2, <1>5
    <2>2. PlaceIn(u, s).payload.services = {s} /\ u \in PlaceIn(u, s).payload.clients
        BY FarewellSpeaks
    <2>3. \E d \in Said(out') : /\ Tells(d, v, "SERVICE_CLIENT_UNSUBSCRIBED") /\ d.payload.services = {s}
                               /\ u \in d.payload.clients
        BY <2>1, <2>2
    <2> QED
        BY <2>3, ToldSaid
<1>6. ASSUME NEW type, type \notin {"CLIENT_LEFT", "SERVICE_DELETE_RESULT", "SERVICE_CLIENT_UNSUBSCRIBED"}
      PROVE  /\ ToldClients(v, type)' = {} /\ ToldServices(v, type)' = {}
             /\ \A s : ToldAbout(v, type, s)' = {} /\ ~Confirmed(v, type, s)'
    <2>0. \A d \in Said(out') : d.payload.type # type
        BY <1>6, FarewellSpeaks
    <2>1. \A d \in Said(out') : ~Tells(d, v, type)
        BY <2>0 DEF Tells
    <2>2. \A x : x \notin ToldClients(v, type)' /\ x \notin ToldServices(v, type)'
        BY <2>1, ToldSaid
    <2>3. \A s, x : x \notin ToldAbout(v, type, s)'
        BY <2>1, ToldSaid
    <2>4. \A s : ~Confirmed(v, type, s)'
        BY <2>0, ConfirmedSaid
    <2> QED
        BY <2>2, <2>3, <2>4
<1> QED
    BY <1>3, <1>4, <1>5, <1>6

LEMMA DisconnectTruthful ==
    ASSUME IInv, NEW u \in Uuid, Disconnect(u)
    PROVE  Truthful /\ NumbersReply
<1>1. PICK gone \in SetToSeqs(Owned(u)), kept \in SetToSeqs(DOMAIN services \ Owned(u)) :
            out' = Farewell(u, gone, kept)
    BY DEF Disconnect
<1>2. /\ u \in DOMAIN clients
      /\ clients' = Erase(clients, u)
      /\ services' = [s \in DOMAIN services \ Owned(u) |-> WithoutSubscriber(services[s], u)]
    BY DEF Disconnect
<1>3. Unnumbered(out')
    BY <1>1, FarewellSays
<1>4. Said(out') = {EndOf(u, s) : s \in Owned(u)}
                      \cup {PlaceIn(u, s) : s \in DOMAIN services \ Owned(u)} \cup {Gone(u)}
    BY <1>1, FarewellSays
<1>5. DOMAIN clients' = Rest(u) /\ Stayed = Rest(u)
    BY <1>2 DEF Erase, Restrict, Rest, Stayed
<1>6. /\ DOMAIN services' = DOMAIN services \ Owned(u) /\ Owned(u) \subseteq DOMAIN services
      /\ \A s \in DOMAIN services \ Owned(u) :
            /\ services'[s].owner_uuid = services[s].owner_uuid
            /\ services'[s].subscribers = services[s].subscribers \ {u}
            /\ services[s].subscribers \subseteq DOMAIN clients
    <2>1. \A s \in DOMAIN services : services[s] \in ServiceInfo /\ services[s].subscribers \subseteq DOMAIN clients
        BY DEF IInv, Typed, IsMap, NoOrphans
    <2> QED
        BY <1>2, <2>1 DEF WithoutSubscriber, ServiceInfo, Owned
<1>7. ASSUME NEW v \in Rest(u)
      PROVE  /\ ToldClients(v, "CLIENT_LEFT")' = {u}
             /\ ToldServices(v, "SERVICE_DELETE_RESULT")' = Owned(u)
             /\ \A s \in DOMAIN services \ Owned(u) : v \in services[s].subscribers =>
                    u \in ToldAbout(v, "SERVICE_CLIENT_UNSUBSCRIBED", s)'
             /\ ToldClients(v, "CLIENT_JOINED")' = {} /\ ToldServices(v, "SERVICE_CREATE_RESULT")' = {}
             /\ \A s : /\ ToldAbout(v, "SERVICE_CLIENT_SUBSCRIBED", s)' = {}
                       /\ ~Confirmed(v, "SELF_SUBSCRIBE_RESULT", s)'
                       /\ ~Confirmed(v, "SELF_UNSUBSCRIBE_RESULT", s)'
    BY <1>4, FarewellHeard
<1>8. TellsOfChanges
    <2>1. DOMAIN clients \ DOMAIN clients' = {u} /\ DOMAIN clients' \ DOMAIN clients = {}
        BY <1>2, <1>5 DEF Rest
    <2>2. DOMAIN services \ DOMAIN services' = Owned(u) /\ DOMAIN services' \ DOMAIN services = {}
        BY <1>6
    <2> QED
        BY <1>5, <1>7, <2>1, <2>2 DEF TellsOfChanges
<1>9. TellsMembers
    <2> SUFFICES ASSUME NEW s \in DOMAIN services \cap DOMAIN services',
                        NEW v \in services[s].subscribers \cap services'[s].subscribers
                 PROVE  /\ ToldAbout(v, "SERVICE_CLIENT_SUBSCRIBED", s)'
                                = services'[s].subscribers \ services[s].subscribers
                        /\ services[s].subscribers \ services'[s].subscribers
                                \subseteq ToldAbout(v, "SERVICE_CLIENT_UNSUBSCRIBED", s)'
        BY DEF TellsMembers
    <2>1. s \in DOMAIN services \ Owned(u) /\ v \in Rest(u)
        BY <1>6 DEF Rest
    <2>2. /\ services'[s].subscribers \ services[s].subscribers = {}
          /\ services[s].subscribers \ services'[s].subscribers \subseteq {u}
        BY <1>6, <2>1
    <2>3. ToldAbout(v, "SERVICE_CLIENT_SUBSCRIBED", s)' = {}
        BY <1>7, <2>1
    <2>4. u \in ToldAbout(v, "SERVICE_CLIENT_UNSUBSCRIBED", s)'
        BY <1>7, <2>1
    <2> QED
        BY <2>2, <2>3, <2>4
<1>10. LeavesToMembers
    <2> SUFFICES ASSUME NEW s \in DOMAIN services \cap DOMAIN services'
                 PROVE  /\ services'[s].owner_uuid = services[s].owner_uuid
                        /\ \A v \in Stayed :
                            /\ v \in services'[s].subscribers \ services[s].subscribers
                                <=> Confirmed(v, "SELF_SUBSCRIBE_RESULT", s)'
                            /\ v \in services[s].subscribers \ services'[s].subscribers
                                <=> Confirmed(v, "SELF_UNSUBSCRIBE_RESULT", s)'
        BY DEF LeavesToMembers
    <2>1. ASSUME NEW v \in Stayed
          PROVE  /\ v \notin services'[s].subscribers \ services[s].subscribers
                 /\ v \notin services[s].subscribers \ services'[s].subscribers
                 /\ ~Confirmed(v, "SELF_SUBSCRIBE_RESULT", s)'
                 /\ ~Confirmed(v, "SELF_UNSUBSCRIBE_RESULT", s)'
        <3>1. v \in Rest(u) /\ v # u
            BY <1>5 DEF Rest
        <3>2. services'[s].subscribers = services[s].subscribers \ {u}
            BY <1>6
        <3>3. ~Confirmed(v, "SELF_SUBSCRIBE_RESULT", s)' /\ ~Confirmed(v, "SELF_UNSUBSCRIBE_RESULT", s)'
            BY <1>7, <3>1
        <3> QED
            BY <3>1, <3>2, <3>3
    <2> QED
        BY <1>6, <2>1
<1> QED
    BY <1>3, <1>8, <1>9, <1>10, UnnumberedReply DEF Truthful

-----------------------------------------------------------------------------
(* The theorems about what is sent                                         *)

LEMMA StepsTruthful ==
    IInv /\ [Next]_vars => [TellsOfChanges /\ TellsMembers /\ LeavesToMembers /\ NumbersReply]_vars
<1> SUFFICES ASSUME IInv, Next PROVE Truthful /\ NumbersReply
    BY DEF Truthful
<1>1. ASSUME NEW u \in Uuid, Membership(u) PROVE Truthful /\ NumbersReply
    BY <1>1, IdentifyTruthful, DisconnectTruthful DEF Membership
<1>2. ASSUME NEW u \in Uuid, SendMessage(u) \/ AskRegistry(u) PROVE Truthful /\ NumbersReply
    BY <1>2, QuietSteps
<1>3. ASSUME NEW u \in Uuid, ChangeRegistry(u) PROVE Truthful /\ NumbersReply
    BY <1>3, SelfSubscribeTruthful, SelfUnsubscribeTruthful, ServiceCreateTruthful,
       ServiceDeleteTruthful, QuietSteps DEF ChangeRegistry
<1>4. ASSUME NEW u \in Uuid, UnknownSender(u) PROVE Truthful /\ NumbersReply
    BY <1>4, MuteSteps DEF UnknownSender
<1>5. ASSUME NEW n \in Name, IdentifyDuplicate(n) PROVE Truthful /\ NumbersReply
    BY <1>5, MuteSteps DEF IdentifyDuplicate
<1>6. ASSUME DisconnectUnknown \/ Query PROVE Truthful /\ NumbersReply
    BY <1>6, MuteSteps DEF DisconnectUnknown, Query
<1> QED
    BY <1>1, <1>2, <1>3, <1>4, <1>5, <1>6 DEF Next

\* Every handler tells each client that stays of exactly the clients and services
\* that came or went in it (the broadcasts of Identify, Disconnect, SERVICE_CREATE
\* and SERVICE_DELETE), and a newcomer hears HELLO only.
THEOREM EveryChangeTold == Spec => ChangesAnnounced
<1>1. IInv /\ [Next]_vars => [TellsOfChanges]_vars
    BY StepsTruthful
<1> QED
    BY <1>1, Invariance, PTL DEF Spec, ChangesAnnounced

\* The subscribers that a service keeps through a handler are told of whoever it
\* gained and of whoever it lost (Service::broadcast and the loop of Disconnect).
THEOREM EveryMemberTold == Spec => MembershipAnnounced
<1>1. IInv /\ [Next]_vars => [TellsMembers]_vars
    BY StepsTruthful
<1> QED
    BY <1>1, Invariance, PTL DEF Spec, MembershipAnnounced

\* No handler numbers two payloads, and the number it uses is the one of the
\* request it answers, the client's count being one past it afterwards.
THEOREM EveryReplyNumbered == Spec => RepliesNumbered
<1>1. IInv /\ [Next]_vars => [NumbersReply]_vars
    BY StepsTruthful
<1> QED
    BY <1>1, Invariance, PTL DEF Spec, RepliesNumbered

\* A service never changes hands, and who stays enters or leaves it only by the
\* request of its own that is confirmed to it.
THEOREM MembersByOwnWill == Spec => OwnWillOnly
<1>1. IInv /\ [Next]_vars => [LeavesToMembers]_vars
    BY StepsTruthful
<1> QED
    BY <1>1, Invariance, PTL DEF Spec, OwnWillOnly
=============================================================================
