----------------------------- MODULE PhysicsGame -----------------------------
(***************************************************************************)
(* The physics game: its service (services/physics_sim), whose bot task    *)
(* and system task share the ECS world behind a lock, and the viewers      *)
(* (physics_service of babylonjs-web) that draw what it broadcasts.        *)
(*                                                                         *)
(* The concierge between them is reduced to the service's subscribers and  *)
(* to the order in which it passes messages on.  A handler of the bot and  *)
(* the broadcast of what it sends are one step: the bot handles one        *)
(* message at a time and what it sends stays in order, so taking both when *)
(* the broadcast happens only delays the handler.  The same holds for what *)
(* a viewer sends.  Motion and shapes are left out, and POSITION_DUMP with *)
(* them.                                                                   *)
(***************************************************************************)
EXTENDS Integers, Maps, SequencesExt

CONSTANTS
    Viewer,      \* the clients that play, by uuid
    Entity,      \* what Id::random can return
    Initial,     \* the entities that system_loop starts with
    QueueBound,  \* bound of the model: messages on their way when viewers act
    ToggleBound  \* bound of the model: colours that are toggled

ASSUME InitialAssumption == Initial \subseteq Entity /\ IsFiniteSet(Initial)
ASSUME BoundAssumption == QueueBound \in Nat /\ ToggleBound \in Nat

VARIABLES
    world,        \* entity -> owner, for each entity whose components exist
    rgb,          \* entity -> colour, for the same entities
    doomed,       \* those that entities.delete has marked, until maintain()
    pairs,        \* GravityList and ColliderList, which are updated alike
    used,         \* ids taken so far: none is drawn twice
    started,      \* system_loop has set up the world
    listening,    \* FALSE once recv_loop has panicked
    subscribers,  \* viewers that the concierge counts as subscribers
    joined,       \* the bot has subscribed to its own service
    gone,         \* viewers that have disconnected
    inbox,        \* messages on their way to the bot
    down,         \* viewer -> messages on their way to it
    shapes,       \* viewer -> entity -> colour, for what it shows
    toggles,      \* history: colours that were toggled
    early,        \* history: viewers whose last dump came before the start
    ghosts,       \* history: viewer -> doomed entities in its last dump
    missed        \* history: viewers that left before the bot could hear of it

ecs == <<world, rgb, doomed, pairs, used>>
bot == <<started, listening, joined>>
concierge == <<subscribers, gone>>
history == <<early, ghosts, missed, toggles>>
gameVars == <<ecs, bot, concierge, inbox, down, shapes, history>>

Nobody == "nil"

\* color_from_string_hash gives each player a colour; the first entity is green.
Rgb == Viewer \cup {"red", "green", "blue"}
Toggled(c) == CASE c = "red" -> "green" [] c = "green" -> "blue" [] OTHER -> "red"

\* What the bot tells is about entities of some colours.
FromViewer(type, v, es) == [type |-> type, from |-> v, ids |-> es]
FromBot(type, es) == [type |-> type, ids |-> es]

Only(e, c) == [x \in {e} |-> c]
Without(m, es) == Restrict(m, DOMAIN m \ es)
Added(new, m) == [x \in DOMAIN new \cup DOMAIN m |-> IF x \in DOMAIN new THEN new[x] ELSE m[x]]

-----------------------------------------------------------------------------
(* The concierge                                                           *)

ToBot(msgs) == inbox' = inbox \o msgs

\* down with msgs broadcast to the subscribers.
Broadcast(msgs) ==
    [v \in Viewer |-> IF v \in subscribers THEN down[v] \o msgs ELSE down[v]]

InFlight == Len(inbox) + FoldFunction(LAMBDA q, n : n + Len(q), 0, down)
Room == InFlight < QueueBound
\* Bound of the model: every message on its way may take an id.
Spare == InFlight < Cardinality(Entity \ used)

Subscribe(v) ==
    /\ Room /\ Spare
    /\ v \notin subscribers \cup gone
    /\ subscribers' = subscribers \cup {v}
    /\ down' = [down EXCEPT ![v] = Append(@, FromBot("SUBSCRIBED", EmptyMap))]
    /\ UNCHANGED <<ecs, bot, gone, inbox, shapes, history>>

\* SERVICE_CLIENT_UNSUBSCRIBED, if the bot is there to hear it.
Unsubscribed(v) ==
    /\ ToBot(IF joined THEN <<FromViewer("UNSUBSCRIBED", v, {})>> ELSE <<>>)
    /\ missed' = IF joined THEN missed \ {v} ELSE missed \cup {v}

Unsubscribe(v) ==
    /\ Room
    /\ v \in subscribers
    /\ subscribers' = subscribers \ {v}
    /\ Unsubscribed(v)
    /\ down' = [down EXCEPT ![v] = Append(@, FromBot("UNSUBSCRIBED", EmptyMap))]
    /\ UNCHANGED <<ecs, bot, gone, shapes, early, ghosts, toggles>>

\* A disconnection is announced to every service, subscribed to or not.
Disconnect(v) ==
    /\ Room
    /\ v \notin gone
    /\ gone' = gone \cup {v}
    /\ subscribers' = subscribers \ {v}
    /\ Unsubscribed(v)
    /\ down' = [down EXCEPT ![v] = <<>>]
    /\ shapes' = [shapes EXCEPT ![v] = EmptyMap]
    /\ UNCHANGED <<ecs, bot, early, ghosts, toggles>>

\* The SELF_SUBSCRIBE that the bot sends after SERVICE_CREATE.
BotSubscribes ==
    /\ ~joined
    /\ joined' = TRUE
    /\ UNCHANGED <<ecs, started, listening, concierge, inbox, down, shapes, history>>

-----------------------------------------------------------------------------
(* The viewers                                                             *)

\* A message to the service: only a subscriber may send one.
SendToService(v, msgs) == ToBot(IF v \in subscribers THEN msgs ELSE <<>>)

Arrived(v, type) == down[v] # <<>> /\ Head(down[v]).type = type
Take(v, type) == Arrived(v, type) /\ down' = [down EXCEPT ![v] = Tail(@)]
Ids(v) == Head(down[v]).ids

OnSubscribe(v) ==
    /\ Take(v, "SUBSCRIBED")
    /\ SendToService(v, <<FromViewer("FETCH_ENTITIES", v, {}), FromViewer("SPAWN_ENTITY", v, {})>>)
    /\ UNCHANGED <<ecs, bot, concierge, shapes, history>>

ShownTypes == {"UNSUBSCRIBED", "ENTITY_NEW", "ENTITY_DELETE", "ENTITY_DUMP", "COLOR_UPDATE"}

\* What each message makes of the shapes of a viewer.
Shown(v) ==
    CASE Arrived(v, "UNSUBSCRIBED")  -> EmptyMap
      [] Arrived(v, "ENTITY_NEW")    -> Added(Ids(v), shapes[v])
      [] Arrived(v, "ENTITY_DELETE") -> Without(shapes[v], DOMAIN Ids(v))
      [] Arrived(v, "ENTITY_DUMP")   -> Ids(v)
      [] Arrived(v, "COLOR_UPDATE")  -> Restrict(Added(Ids(v), shapes[v]), DOMAIN shapes[v])

\* Messages of the service are shown to whom they reach, subscribed or not.
OnServiceMessage(v) ==
    /\ \E type \in ShownTypes : Take(v, type)
    /\ shapes' = [shapes EXCEPT ![v] = Shown(v)]
    /\ UNCHANGED <<ecs, bot, concierge, inbox, history>>

\* A click on a shape, and the respawn button of the tab.
Click(v, e) ==
    /\ Room /\ Spare
    /\ e \in DOMAIN shapes[v]
    /\ SendToService(v, <<FromViewer("TOUCH_ENTITY", v, {e})>>)
    /\ UNCHANGED <<ecs, bot, concierge, down, shapes, history>>

\* TOGGLE_COLOR is in the protocol, though the page has no button for it.
Toggle(v, e) ==
    /\ Room
    /\ toggles < ToggleBound
    /\ e \in DOMAIN shapes[v]
    /\ toggles' = toggles + 1
    /\ SendToService(v, <<FromViewer("TOGGLE_COLOR", v, {e})>>)
    /\ UNCHANGED <<ecs, bot, concierge, down, shapes, early, ghosts, missed>>

Respawn(v) ==
    /\ Room /\ Spare
    /\ v \notin gone
    /\ SendToService(v, <<FromViewer("SPAWN_ENTITY", v, {})>>)
    /\ UNCHANGED <<ecs, bot, concierge, down, shapes, history>>

-----------------------------------------------------------------------------
(* The bot: recv_loop and handle_message                                   *)

Hear(type) ==
    /\ listening
    /\ inbox # <<>>
    /\ Head(inbox).type = type
    /\ inbox' = Tail(inbox)

From == Head(inbox).from

OwnedBy(v) == {e \in DOMAIN world : world[e] = v}

\* world.delete_entities takes effect at once, marked or not.
Erased(es) == world' = Without(world, es) /\ rgb' = Without(rgb, es)

Colours(es) == Restrict(rgb, es)

\* Slip: the new entity is among those that it is bound to.
BindWithItself(e) == {<<e, f>> : f \in DOMAIN world \cup {e}}

\* A new entity is bound to each that was there before the deletions.
Bind(e) == {<<e, f>> : f \in DOMAIN world}

\* Slip: what the client had before is deleted without telling anyone.
SpawnEntitySilently ==
    /\ Hear("SPAWN_ENTITY")
    /\ started
    /\ \E e \in Entity \ used :
        /\ world' = Put(Without(world, OwnedBy(From)), e, From)
        /\ rgb' = Put(Without(rgb, OwnedBy(From)), e, From)
        /\ doomed' = doomed \ OwnedBy(From)
        /\ used' = used \cup {e}
        /\ pairs' = pairs \cup Bind(e)
        /\ down' = Broadcast(<<FromBot("ENTITY_NEW", Only(e, From))>>)
    /\ UNCHANGED <<bot, concierge, shapes, history>>

\* Slip: only the others are told of the new entity.
SpawnEntityToOthers ==
    /\ Hear("SPAWN_ENTITY")
    /\ started
    /\ \E e \in Entity \ used :
        /\ world' = Put(Without(world, OwnedBy(From)), e, From)
        /\ rgb' = Put(Without(rgb, OwnedBy(From)), e, From)
        /\ doomed' = doomed \ OwnedBy(From)
        /\ used' = used \cup {e}
        /\ pairs' = pairs \cup Bind(e)
        /\ down' = [Broadcast(<<FromBot("ENTITY_NEW", Only(e, From))>>) EXCEPT ![From] = down[From]]
    /\ UNCHANGED <<bot, concierge, shapes, history>>

SpawnEntity ==
    /\ Hear("SPAWN_ENTITY")
    /\ started
    /\ \E e \in Entity \ used :
        /\ world' = Put(Without(world, OwnedBy(From)), e, From)
        /\ rgb' = Put(Without(rgb, OwnedBy(From)), e, From)
        /\ doomed' = doomed \ OwnedBy(From)
        /\ used' = used \cup {e}
        /\ pairs' = pairs \cup Bind(e)
        /\ down' = Broadcast(<<FromBot("ENTITY_DELETE", Colours(OwnedBy(From))), FromBot("ENTITY_NEW", Only(e, From))>>)
    /\ UNCHANGED <<bot, concierge, shapes, history>>

\* write_resource panics while system_loop has not inserted the lists: the task
\* ends, with the entity made and not announced.
SpawnTooEarly ==
    /\ Hear("SPAWN_ENTITY")
    /\ ~started
    /\ \E e \in Entity \ used :
        /\ world' = Put(Without(world, OwnedBy(From)), e, From)
        /\ rgb' = Put(Without(rgb, OwnedBy(From)), e, From)
        /\ doomed' = doomed \ OwnedBy(From)
        /\ used' = used \cup {e}
    /\ down' = Broadcast(<<FromBot("ENTITY_DELETE", Colours(OwnedBy(From)))>>)
    /\ listening' = FALSE
    /\ UNCHANGED <<pairs, started, joined, concierge, shapes, history>>

\* The answer goes to the client whether it is still subscribed or not.
FetchEntities ==
    /\ Hear("FETCH_ENTITIES")
    /\ down' = IF From \in gone THEN down
               ELSE [down EXCEPT ![From] = Append(@, FromBot("ENTITY_DUMP", rgb))]
    /\ early' = IF started THEN early \ {From} ELSE early \cup {From}
    /\ ghosts' = [ghosts EXCEPT ![From] = doomed]
    /\ UNCHANGED <<ecs, bot, concierge, shapes, missed, toggles>>

Touched == Head(inbox).ids

\* The touch of an entity of somebody else, perhaps marked already.
TouchOther ==
    /\ Hear("TOUCH_ENTITY")
    /\ \E e \in (Touched \cap DOMAIN world) \ OwnedBy(From) :
        /\ doomed' = doomed \cup {e}
        /\ pairs' = {p \in pairs : p[1] # e /\ p[2] # e}
        /\ down' = Broadcast(<<FromBot("ENTITY_DELETE", Colours({e}))>>)
    /\ UNCHANGED <<world, rgb, used, bot, concierge, shapes, history>>

TouchOwn ==
    /\ Hear("TOUCH_ENTITY")
    /\ Touched \subseteq OwnedBy(From)
    /\ \E e \in Entity \ used, f \in Touched :
        /\ world' = Put(world, e, From)
        /\ rgb' = Put(rgb, e, rgb[f])
        /\ used' = used \cup {e}
        /\ pairs' = pairs \cup Bind(e)
        /\ down' = Broadcast(<<FromBot("ENTITY_NEW", Only(e, rgb[f]))>>)
    /\ UNCHANGED <<doomed, bot, concierge, shapes, history>>

TouchNothing ==
    /\ Hear("TOUCH_ENTITY") \/ Hear("TOGGLE_COLOR")
    /\ Touched \cap DOMAIN world = {}
    /\ UNCHANGED <<ecs, bot, concierge, down, shapes, history>>

\* Slip: what is broadcast is the colour before.
ToggleColorLate ==
    /\ Hear("TOGGLE_COLOR")
    /\ \E e \in Touched \cap DOMAIN world :
        /\ rgb' = [rgb EXCEPT ![e] = Toggled(@)]
        /\ down' = Broadcast(<<FromBot("COLOR_UPDATE", Only(e, rgb[e]))>>)
    /\ UNCHANGED <<world, doomed, pairs, used, bot, concierge, shapes, history>>

ToggleColor ==
    /\ Hear("TOGGLE_COLOR")
    /\ \E e \in Touched \cap DOMAIN world :
        /\ rgb' = [rgb EXCEPT ![e] = Toggled(@)]
        /\ down' = Broadcast(<<FromBot("COLOR_UPDATE", Only(e, Toggled(rgb[e])))>>)
    /\ UNCHANGED <<world, doomed, pairs, used, bot, concierge, shapes, history>>

\* Slip: only one of the entities of the one who left is deleted.
ClientUnsubscribedDeletesOne ==
    /\ Hear("UNSUBSCRIBED")
    /\ LET first == IF OwnedBy(From) = {} THEN {} ELSE {CHOOSE e \in OwnedBy(From) : TRUE}
       IN  /\ Erased(first)
           /\ doomed' = doomed \ first
           /\ down' = Broadcast(<<FromBot("ENTITY_DELETE", Colours(first))>>)
    /\ UNCHANGED <<pairs, used, bot, concierge, shapes, history>>

ClientUnsubscribed ==
    /\ Hear("UNSUBSCRIBED")
    /\ Erased(OwnedBy(From))
    /\ doomed' = doomed \ OwnedBy(From)
    /\ down' = Broadcast(<<FromBot("ENTITY_DELETE", Colours(OwnedBy(From)))>>)
    /\ UNCHANGED <<pairs, used, bot, concierge, shapes, history>>

-----------------------------------------------------------------------------
(* The system task                                                         *)

\* Nobody is told of the initial entities.
Start ==
    /\ ~started
    /\ started' = TRUE
    /\ world' = [e \in DOMAIN world \cup Initial |-> IF e \in Initial THEN Nobody ELSE world[e]]
    /\ rgb' = [e \in DOMAIN world' |-> IF e \in Initial THEN "green" ELSE rgb[e]]
    /\ \E order \in SetToSeqs(Initial) :
        pairs' = UNION {{<<order[i], order[j]>> : j \in i + 1 .. Len(order)} : i \in DOMAIN order}
    /\ UNCHANGED <<doomed, used, listening, joined, concierge, inbox, down, shapes, history>>

\* The collider and gravity systems act on each listed pair that both live.
Acting == {p \in pairs : {p[1], p[2]} \subseteq DOMAIN world}

\* A round of the systems changes no entity but its position; maintain() then
\* drops what entities.delete has marked.
Maintain ==
    /\ started
    /\ doomed # {}
    /\ Erased(doomed)
    /\ doomed' = {}
    /\ UNCHANGED <<pairs, used, bot, concierge, inbox, down, shapes, history>>

-----------------------------------------------------------------------------
GameInit ==
    /\ world = EmptyMap /\ rgb = EmptyMap /\ doomed = {} /\ pairs = {} /\ used = Initial
    /\ started = FALSE /\ listening = TRUE /\ joined = FALSE
    /\ subscribers = {} /\ gone = {}
    /\ inbox = <<>>
    /\ down = [v \in Viewer |-> <<>>]
    /\ shapes = [v \in Viewer |-> EmptyMap]
    /\ early = {} /\ missed = {} /\ toggles = 0
    /\ ghosts = [v \in Viewer |-> {}]

Player(v) ==
    \/ Subscribe(v) \/ Unsubscribe(v) \/ Disconnect(v)
    \/ OnSubscribe(v) \/ OnServiceMessage(v)
    \/ Respawn(v)
    \/ \E e \in Entity : Click(v, e) \/ Toggle(v, e)

HandleMessage ==
    \/ SpawnEntity \/ SpawnTooEarly \/ FetchEntities
    \/ TouchOther \/ TouchOwn \/ TouchNothing
    \/ ToggleColor
    \/ ClientUnsubscribed

GameNext ==
    \/ \E v \in Viewer : Player(v)
    \/ HandleMessage
    \/ BotSubscribes
    \/ Start
    \/ Maintain

GameSpec == GameInit /\ [][GameNext]_gameVars

\* The bot goes on with its messages, the program starts, and sockets deliver.
GameFairness ==
    /\ WF_gameVars(HandleMessage) /\ WF_gameVars(Start)
    /\ \A v \in Viewer : WF_gameVars(OnSubscribe(v)) /\ WF_gameVars(OnServiceMessage(v))

FairGameSpec == GameSpec /\ GameFairness

-----------------------------------------------------------------------------
(* Properties                                                              *)

\* Every message has been taken in and the world is maintained.
Quiet ==
    /\ started /\ listening /\ doomed = {}
    /\ inbox = <<>> /\ \A v \in Viewer : down[v] = <<>>

\* A player sees exactly the entities there are, once everything told has been
\* taken in, however spawns, touches, dumps and subscriptions overlapped.  Two
\* races are left: a dump before the start lacks the initial entities, which
\* nobody announces, and a dump between a deletion and maintain() still has what
\* was deleted, which nobody announces again.
ShapesMirror ==
    Quiet => \A v \in subscribers :
        /\ DOMAIN shapes[v] \subseteq DOMAIN world \cup ghosts[v]
        /\ DOMAIN world \ DOMAIN shapes[v] \subseteq (IF v \in early THEN Initial ELSE {})

\* And in the colours they have: toggles, dumps and clones are told in one order.
ColoursMirror ==
    Quiet => \A v \in subscribers : \A e \in DOMAIN shapes[v] \cap DOMAIN world :
        shapes[v][e] = rgb[e]

\* Whoever leaves takes all its entities along, those under way included; unless
\* it left before the bot had subscribed to its own service.
NoStrays ==
    listening /\ inbox = <<>> =>
        \A e \in DOMAIN world : world[e] \in {Nobody} \cup subscribers \cup missed

AwaitsShape(v) ==
    /\ v \in subscribers
    /\ \/ FromBot("SUBSCRIBED", EmptyMap) \in Range(down[v])
       \/ FromViewer("SPAWN_ENTITY", v, {}) \in Range(inbox)

\* Whoever subscribes or respawns gets to see an entity of its own, if it stays and the
\* bot does not fail over a message that came before the start.
OwnShapeAppears ==
    \A v \in Viewer :
        AwaitsShape(v) ~> (v \in Range(shapes[v]) \/ v \notin subscribers \/ ~listening)

\* The systems act on every two living entities exactly once, and never on one
\* and itself, which makes them panic.
PairedOnce ==
    /\ listening =>
        \A e, f \in DOMAIN world \ doomed :
            e # f => (<<e, f>> \in Acting) # (<<f, e>> \in Acting)
    /\ \A p \in pairs : p[1] # p[2]
=============================================================================
