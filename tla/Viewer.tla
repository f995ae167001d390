------------------------------- MODULE Viewer -------------------------------
(***************************************************************************)
(* What the viewer of babylonjs-web keeps of the concierge's state: the    *)
(* list of clients (ClientsHandler), the list of services                  *)
(* (ServicesHandler), and the subscription of each ServiceEventHandler,    *)
(* with its tab.  It builds them from answers and announcements that come  *)
(* over one WebSocket in the order in which the concierge made them.       *)
(*                                                                         *)
(* The concierge is its directory: other clients come, go, create and      *)
(* delete services.  Callbacks get the answers to their own requests, in   *)
(* time; WebClient is about both.  The viewer's own entry in the list of   *)
(* clients is left out.                                                    *)
(***************************************************************************)
EXTENDS Integers, SequencesExt

CONSTANTS
    Peer,        \* the other clients
    Service,     \* service names, each with a ServiceEventHandler
    QueueBound   \* bound of the model: payloads on their way when others act

ASSUME QueueBoundAssumption == QueueBound \in Nat

\* HashMaps, and the Map of ServicesHandler.
ASSUME FiniteAssumption == IsFiniteSet(Peer) /\ IsFiniteSet(Service)

VARIABLES
    members,     \* the other clients that are registered
    services,    \* the services that exist
    mine,        \* those the viewer is subscribed to, by the concierge's tables
    online,      \* the viewer is registered
    up, down,    \* requests and payloads on their way
    users,       \* ClientsHandler.users
    groups,      \* ServicesHandler.groups
    subscribed,  \* service -> __subscribed of its handler
    tabs,        \* services whose tab is shown
    clicked      \* history: services that the user has (un)subscribed by hand

server == <<members, services, mine, online>>
viewer == <<users, groups, subscribed, tabs>>
viewerVars == <<server, up, down, viewer, clicked>>

\* by: whose callback takes the answer, or "none".
Request(type, x, by) == [type |-> type, name |-> x, by |-> by]
All == "all"

Payload(type, x, by) == [type |-> type, name |-> x, by |-> by]
Announce(type, x) == IF online THEN Append(down, Payload(type, x, "none")) ELSE down

-----------------------------------------------------------------------------
(* The concierge and its other clients                                     *)

Room == Len(down) + Len(up) < QueueBound

Join(p) ==
    /\ Room
    /\ p \notin members
    /\ members' = members \cup {p}
    /\ down' = Announce("CLIENT_JOINED", p)
    /\ UNCHANGED <<services, mine, online, up, viewer, clicked>>

Leave(p) ==
    /\ Room
    /\ p \in members
    /\ members' = members \ {p}
    /\ down' = Announce("CLIENT_LEFT", p)
    /\ UNCHANGED <<services, mine, online, up, viewer, clicked>>

Create(x) ==
    /\ Room
    /\ x \notin services
    /\ services' = services \cup {x}
    /\ down' = Announce("SERVICE_CREATE_RESULT", x)
    /\ UNCHANGED <<members, mine, online, up, viewer, clicked>>

Delete(x) ==
    /\ Room
    /\ x \in services
    /\ services' = services \ {x}
    /\ mine' = mine \ {x}
    /\ down' = Announce("SERVICE_DELETE_RESULT", x)
    /\ UNCHANGED <<members, online, up, viewer, clicked>>

\* What the answer to a request for service x says.
Outcome(type, x) ==
    IF x \notin services THEN "INVALID_SERVICE"
    ELSE CASE type = "SERVICE_FETCH"    -> "SERVICE_FETCH_RESULT"
           [] type = "SELF_SUBSCRIBE"   -> IF x \in mine THEN "ALREADY" ELSE "SELF_SUBSCRIBE_RESULT"
           [] type = "SELF_UNSUBSCRIBE" -> IF x \in mine THEN "SELF_UNSUBSCRIBE_RESULT" ELSE "ALREADY"

\* The answer to a request: the type of the payload, and what it tells.
Answer(q) ==
    CASE q.type = "CLIENT_FETCH_ALL"  -> Payload("CLIENT_FETCH_ALL_RESULT", members, q.by)
      [] q.type = "SERVICE_FETCH_ALL" -> Payload("SERVICE_FETCH_ALL_RESULT", services, q.by)
      [] OTHER                        -> Payload(Outcome(q.type, q.name), q.name, q.by)

Serve ==
    /\ up # <<>>
    /\ LET q == Head(up)
       IN  /\ down' = Append(down, Answer(q))
           /\ mine' = CASE q.type = "SELF_SUBSCRIBE"   -> mine \cup ({q.name} \cap services)
                        [] q.type = "SELF_UNSUBSCRIBE" -> mine \ {q.name}
                        [] OTHER                       -> mine
    /\ up' = Tail(up)
    /\ UNCHANGED <<members, services, online, viewer, clicked>>

-----------------------------------------------------------------------------
(* The viewer                                                              *)

Subscribe(x) == <<Request("SELF_SUBSCRIBE", x, "handler")>>

\* The requests of all handlers, one after another, in any order of the handlers.
ForEachService(Req(_)) == LET s == SetToSeq(Service) IN [i \in DOMAIN s |-> Req(s[i])]

Greetings ==
    <<Request("CLIENT_FETCH_ALL", All, "clients"), Request("SERVICE_FETCH_ALL", All, "services")>>
        \o ForEachService(LAMBDA x : Request("SERVICE_FETCH", x, "handler"))

\* What the loops over a list leave of it, which splice x out wherever it is.
Without(s, x) ==
    LET rest[i \in 0 .. Len(s)] ==
            IF i = 0 THEN <<>>
            ELSE IF s[i] = x THEN rest[i - 1] ELSE Append(rest[i - 1], s[i])
    IN  rest[Len(s)]

Take(type) == down # <<>> /\ Head(down).type = type /\ down' = Tail(down)
Told == Head(down).name
By(who) == Head(down).by = who

ReceiveHello ==
    /\ Take("HELLO")
    /\ up' = up \o Greetings
    /\ UNCHANGED <<server, viewer, clicked>>

ReceiveClients ==
    /\ Take("CLIENT_FETCH_ALL_RESULT")
    /\ users' = SetToSeq(Told)
    /\ UNCHANGED <<server, up, groups, subscribed, tabs, clicked>>

ReceiveJoined ==
    /\ Take("CLIENT_JOINED")
    /\ users' = Append(users, Told)
    /\ UNCHANGED <<server, up, groups, subscribed, tabs, clicked>>

ReceiveLeft ==
    /\ Take("CLIENT_LEFT")
    /\ users' = Without(users, Told)
    /\ UNCHANGED <<server, up, groups, subscribed, tabs, clicked>>

ReceiveServices ==
    /\ Take("SERVICE_FETCH_ALL_RESULT")
    /\ groups' = SetToSeq(Told)
    /\ UNCHANGED <<server, up, users, subscribed, tabs, clicked>>

\* Slip: the handler alone reacts, the services tab does not.
ReceiveCreatedByHandler ==
    /\ Take("SERVICE_CREATE_RESULT")
    /\ up' = up \o Subscribe(Told)
    /\ UNCHANGED <<server, viewer, clicked>>

\* Slip: the services tab alone reacts, the handler does not.
ReceiveCreatedByTab ==
    /\ Take("SERVICE_CREATE_RESULT")
    /\ up' = Append(up, Request("SERVICE_FETCH", Told, "services"))
    /\ UNCHANGED <<server, viewer, clicked>>

\* The services tab fetches what was created; its handler subscribes.
ReceiveCreated ==
    /\ Take("SERVICE_CREATE_RESULT")
    /\ up' = up \o <<Request("SERVICE_FETCH", Told, "services")>> \o Subscribe(Told)
    /\ UNCHANGED <<server, viewer, clicked>>

ReceiveService ==
    /\ Take("SERVICE_FETCH_RESULT")
    /\ IF By("services")
       THEN groups' = Append(groups, Told) /\ up' = up
       ELSE groups' = groups /\ up' = up \o Subscribe(Told)
    /\ UNCHANGED <<server, users, subscribed, tabs, clicked>>

ReceiveDeleted ==
    /\ Take("SERVICE_DELETE_RESULT")
    /\ groups' = Without(groups, Told)
    /\ subscribed' = [subscribed EXCEPT ![Told] = FALSE]
    /\ tabs' = IF subscribed[Told] THEN tabs \ {Told} ELSE tabs
    /\ UNCHANGED <<server, up, users, clicked>>

\* Only the callback of subscribe() looks at this.
ReceiveSubscribed ==
    /\ Take("SELF_SUBSCRIBE_RESULT")
    /\ IF By("handler")
       THEN /\ subscribed' = [subscribed EXCEPT ![Told] = TRUE]
            /\ tabs' = tabs \cup {Told}
       ELSE UNCHANGED <<subscribed, tabs>>
    /\ UNCHANGED <<server, up, users, groups, clicked>>

ReceiveUnsubscribed ==
    /\ Take("SELF_UNSUBSCRIBE_RESULT")
    /\ subscribed' = [subscribed EXCEPT ![Told] = FALSE]
    /\ tabs' = IF subscribed[Told] THEN tabs \ {Told} ELSE tabs
    /\ UNCHANGED <<server, up, users, groups, clicked>>

\* INVALID_SERVICE, and a subscription that changed nothing.
ReceiveNothing ==
    /\ Take("INVALID_SERVICE") \/ Take("ALREADY")
    /\ UNCHANGED <<server, up, viewer, clicked>>

\* The services tab: for lack of an "else" the request is made twice, once by
\* the handler and once without a callback.
UserSubscribes(x) ==
    /\ online /\ Room
    /\ x \in Range(groups)
    /\ up' = up \o Subscribe(x) \o <<Request("SELF_SUBSCRIBE", x, "none")>>
    /\ clicked' = clicked \cup {x}
    /\ UNCHANGED <<server, down, viewer>>

UserUnsubscribes(x) ==
    /\ online /\ Room
    /\ x \in Range(groups)
    /\ up' = up \o [i \in 1 .. 2 |-> Request("SELF_UNSUBSCRIBE", x, "none")]
    /\ clicked' = clicked \cup {x}
    /\ UNCHANGED <<server, down, viewer>>

\* Identified: the concierge greets.
Connect ==
    /\ ~online
    /\ online' = TRUE
    /\ down' = <<Payload("HELLO", All, "none")>>
    /\ UNCHANGED <<members, services, mine, up, viewer, clicked>>

\* Slip: the tabs of the services stay.
CloseKeepsTabs ==
    /\ online
    /\ online' = FALSE
    /\ mine' = {}
    /\ up' = <<>> /\ down' = <<>>
    /\ users' = <<>> /\ groups' = <<>>
    /\ clicked' = {}
    /\ UNCHANGED <<members, services, subscribed, tabs>>

\* The connection breaks, and onClose of every handler runs.
Close ==
    /\ online
    /\ online' = FALSE
    /\ mine' = {}
    /\ up' = <<>> /\ down' = <<>>
    /\ users' = <<>> /\ groups' = <<>>
    /\ tabs' = {x \in tabs : ~subscribed[x]}
    /\ clicked' = {}
    /\ UNCHANGED <<members, services, subscribed>>

-----------------------------------------------------------------------------
ViewerInit ==
    /\ members \in SUBSET Peer /\ services \in SUBSET Service /\ mine = {}
    /\ online = FALSE
    /\ up = <<>> /\ down = <<>>
    /\ users = <<>> /\ groups = <<>>
    /\ subscribed = [x \in Service |-> FALSE]
    /\ tabs = {} /\ clicked = {}

Others ==
    \/ \E p \in Peer : Join(p) \/ Leave(p)
    \/ \E x \in Service : Create(x) \/ Delete(x)

Receive ==
    \/ ReceiveHello
    \/ ReceiveClients \/ ReceiveJoined \/ ReceiveLeft
    \/ ReceiveServices \/ ReceiveCreated \/ ReceiveService \/ ReceiveDeleted
    \/ ReceiveSubscribed \/ ReceiveUnsubscribed \/ ReceiveNothing

ViewerNext ==
    \/ Others
    \/ Serve
    \/ Receive
    \/ \E x \in Service : UserSubscribes(x) \/ UserUnsubscribes(x)
    \/ Connect
    \/ Close

ViewerSpec == ViewerInit /\ [][ViewerNext]_viewerVars

-----------------------------------------------------------------------------
(* Properties                                                              *)

\* Everything asked is answered and everything told is taken in.
Settled == online /\ up = <<>> /\ down = <<>>

\* Once settled the lists that the viewer shows are those of the concierge: each client
\* once, and the services that exist, though they came and went while they were fetched.
ListsMirror ==
    Settled => /\ Range(users) = members /\ IsInjective(users)
               /\ Range(groups) = services

\* Once settled a tab is there only for a service that counts the viewer among
\* its subscribers, over lost connections too, and for each such service; unless
\* the user has subscribed by hand, whose second request may be the one that is
\* granted when the service was created anew in between, and opens no tab.
TabsMatch == Settled => tabs \subseteq mine /\ mine \ clicked \subseteq tabs

\* A handler that subscribes by itself is subscribed, once settled, to its
\* service if that exists, whether it did when the viewer came or was created,
\* perhaps again, later; unless the user has a hand in it.
AutoSubscribed == Settled => services \ clicked \subseteq mine

=============================================================================
