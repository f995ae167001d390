# Verification of ert-concierge

TLA+ models of the concierge (a WebSocket hub that relays messages between
clients and services), of its file store, of the browser's client library and
viewer, and of two of the services that run on it, down to the collision test of
the physics game; TLC configurations that check them on small instances, and
TLAPS proofs, for every instance, about the hub and the connections in front of it, the
file store, the client library, the viewer, both services and the lock between the tasks
of one.
Paths below are those of the repository.

Run a check with `tlc -config X.cfg M` and a proof with `tlapm M.tla`.

## 1. The system

```
   browser                      server process                    services
 +-----------------+   ws   +-------------------+   ws   +---------------------+
 | viewer handlers |<------>| WsConnection (1/c)|<------>| physics bot + world |
 |  Client (mod.ts)|        |     mailbox       |        | planetary tasks     |
 +-----------------+        | Concierge actor   |        | chat                |
        |        http       |   | remove_dir_all|        +---------------------+
        +------------------>| file routes  ./fs |
                            +-------------------+
```

### 1.1 Inventory

| Component | State | Operations | Talks to |
|---|---|---|---|
| **Concierge actor** `src/concierge/{mod,client,service}.rs` | `namespace` (name -> uuid), `clients` (name, `seq`, subscriptions), `services` (owner, subscribers) | handlers of `IdentifyPackage`, `Disconnect`, `QueryUuid`, `IncomingMessage` (13 request payloads and a message to one of five targets) | sends text to connections; deletes folders |
| **Connections** `src/ws.rs` | per connection: actor phase, `uuid`, heartbeat | first frame IDENTIFY with a 5 s timeout, text frames, heartbeat, closing, `stopping` | the concierge's mailbox: `send` and wait for IDENTIFY, `do_send` for the rest |
| **File store** `src/fs.rs` | `./fs/<name>/` | GET, POST, multi POST, DELETE, each an asynchronous handler with blocking disk operations | asks the concierge for the name behind a key |
| **Web client** `babylonjs-web/src/concierge_api/mod.ts` | socket, `seq`, `waiters`, timers | `sendPayload`, `close`, socket events, `tryReconnect` | one WebSocket |
| **Viewer handlers** `concierge_api/handlers.ts`, `viewer/{users,services}/*_handler.ts` | list of users, list of services, `__subscribed` and the tab of each service | reactions to every payload, subscription by hand | the web client |
| **Physics game** `services/physics_sim`, `viewer/service_impls/physics_service` | ECS world behind a lock, owners, colours, pair lists, the shapes of each viewer | bot: spawn, fetch, touch, toggle a colour, departures; `send_loop`: position dumps; `system_loop`: set-up, rounds, `maintain()` | the concierge, as owner of a service |
| **Physics engine** `services/physics_sim/physics` | positions, velocities and shapes of the entities | five systems a round: movement of positions, of shapes, edges, collisions, gravity; vectors, polygons, the separating axis test | the world of the game |
| **Planetary simulation** `services/planetary_sim`, `viewer/service_impls/planetary_service` | the system, `paused`, planets of each viewer | `send_loop`, `system_loop`, `recv_loop` of one asyncio program | the concierge, as owner of a service |
| **Chat service** `services/chat_service` | none | one message out per message in | the concierge, as owner of a service |
| **Wire API** `api_rs` | none | payload types | shared by the server and the Rust services |
| **Example clients** `examples/` | copies of files | upload, download and delete a file; a terminal | the file store, the concierge |
| others | | server start-up, user interface, the planetary engine, unused programs | not modelled, see section 8 |

### 1.2 What is hard

*Concierge.* One handler at a time, but a departure edits four tables while it
broadcasts, subscriptions are kept on two sides by five handlers, and clients
choose their own sequence number.  Correct means: names and clients are a
bijection, nothing refers to whom is gone, every change is announced to everyone
who stays and nothing else is, answers are numbered.

*Connections.* The identification timer, the heartbeat, which only pings and pongs
renew, the peer and the concierge's answer race, and up to two `Disconnect` messages of one connection
stand in the mailbox among its texts.  Correct means: the `unwrap` in
`Handler<IncomingMessage>` never fails, one connection per client, no client
without connection, nobody unidentified or silent for ever.

*File store.* The key is checked once, then the handler runs for as long as the
upload lasts; `Disconnect` deletes the folder file by file meanwhile and the name
may be taken by another client afterwards.  Correct means: files are of who has
the folder, what was acknowledged stays, requests end.  Uploads write at their own
offsets into files that others may empty, remove or make anew; correct means:
without such interference a file holds just what was sent.

*Web client.* Both ends count texts, on their own; timeouts are by number, and a
reconnection starts the numbers anew; the server may refuse the name for as long
as it believes in the dead connection.  Correct means: a callback gets its own
answer or none, and the client comes back.

*Viewer handlers.* Answers to fetches cross announcements, and a lost connection
leaves state behind.  Correct means: lists, tabs and subscriptions agree with the
server once everything has arrived.

*Services.* Dumps to one viewer cross broadcasts to all; deletions in the world
are deferred; asyncio tasks interleave at awaits; the tasks of the physics service
sleep with their lock, and some handlers write a storage under a lock for reading.
Correct means: viewers show what there is, in its colours, nobody's entities stay
behind, the pause flag survives a load, no task starves or clashes with another.

*Physics engine.* A collision test whose every sign and edge matters; a position
and a shape that two systems move separately, in an order that the dispatcher
builds out of incomplete dependencies; pairs of entities that are gone.  Correct
means: it finds exactly the overlaps and the shortest way out of them, shapes stay
with positions, momentum is kept, what collides is parted.

## 2. Modules

| Module | Models | Uses |
|---|---|---|
| `Maps` | hash maps as functions: `EmptyMap`, `Put`, `Erase` | |
| `Directory` | abstract: who is present, owns, subscribes, each change atomic | |
| `Concierge` | the actor, a handler per action | `Maps`, refines `Directory` |
| `MCConcierge` | symmetry of its instances | `Concierge` |
| `ConciergeProofs` | theorems | `Concierge`, `Directory`, `TLAPS` |
| `Sessions` | connections and the mailbox **composed with** the actor | `Concierge` |
| `FileStore` | routes and folders **composed with** the actor | `Concierge` |
| `ServerProofs` | theorems about both | `Sessions`, `FileStore`, `ConciergeProofs` |
| `Transfers`, `MCTransfers` | what uploads write and downloads read, chunk by chunk | |
| `TransfersProofs` | theorems | `Transfers`, `TLAPS` |
| `WebClient` | the browser's client against the server's end of each connection | `Maps` |
| `WebClientProofs` | theorems | `WebClient`, `TLAPS` |
| `Viewer` | the handlers against the registry | |
| `ViewerProofs` | theorems | `Viewer`, `TLAPS` |
| `PhysicsGame` | bot, system task, concierge in between, viewers | `Maps` |
| `PhysicsGameProofs` | theorems | `PhysicsGame`, `TLAPS` |
| `WorldLock` | the three tasks of the physics service around their lock | |
| `Geometry` | vectors and polygons, as operators | |
| `Collision` | the separating axis test, as operators | `Geometry` |
| `Shapes` | what the test promises, against references that share nothing with it | `Collision` |
| `Motion` | the rounds of the systems, and what the bot does to bodies between them | `Collision`, `Maps` |
| `MCMotion` | an arena, and polygons to test: **both** `Motion` and `Shapes` | |
| `PhysicsProofs` | theorems about the lock, the rounds and the collision test | `WorldLock`, `Motion`, `Shapes`, `TLAPS` |
| `Planetary` | three tasks, concierge in between, viewers | |
| `PlanetaryProofs` | theorems | `Planetary`, `TLAPS` |

### 2.1 How state and actions correspond to the code

* **Concierge.**  `namespace`, `clients`, `services` are the actor's fields;
  nickname and tags, which nothing depends on, are left out.  `issued` are the
  uuids that `Uuid::new_v4` has returned (it does not repeat one).  `out` is what
  the last handler sent, a sequence of payloads each with the set of its
  recipients, since no client distinguishes the order in which *others* got a
  broadcast.  A payload keeps its type, number, success flag, and the clients and
  services it speaks of.  A handler is one action because an actor runs one
  handler to its end; the trailing `seq += 1` (`Advance`) is part of each.
  `SeqLimit` is 2^(bits of `usize`), `OverflowChecks` the build profile.  A
  handler that panics sets `alive` to FALSE: release builds abort.  The
  environment of this module is arbitrary, so that what holds does not depend on
  well-behaved connections.
* **Sessions.**  `phase[c]` is the actor's life: `open`, `waiting` (`ctx.wait` on
  IDENTIFY), `stopping` (after `ctx.stop()`), `stopped`.  Both paths that report a
  departure are there (`HeartbeatFailed`, `Stopping`), and actix's rule that a
  request whose future was dropped is skipped (`SkipIdentify`).  `silence[c]` counts
  the heartbeat's intervals since `last_hb`; `SignOfLife` (a ping or a pong) sets it
  to 0, a text does not, and the timer is held back while `ctx.wait` lasts.
* **FileStore.**  A `job` is a request's handler with the step it is at; every
  blocking disk operation is an action.  So are the steps of `remove_dir_all`: it reads
  the folder (`ListFolder`), removes file by file what it found there (`SweepFile`), then
  the folder (`SweepFolder`), and ends at the first file that a request has taken away
  meanwhile (`SweepAborts`), which the concierge ignores.  The concierge handles nothing
  else while it deletes (`Free`).  A file is represented by the request that last opened
  it anew; `raced` marks a request that took a file from a deletion under way.
* **Transfers.**  One folder in which every request is granted.  `disk` leads a name
  to an inode and `data` an inode to its chunks, each numbered by its upload; a
  handler keeps its offset while others empty or unlink the file.  `sent` is what the
  peer has sent for each file, what no handler ever came to included; `broke` says that
  the stream had an error between two fields, or was no multipart body.  `local` is the
  copy that the example client writes, without emptying it first.
* **WebClient.**  Sockets, `seq`, `waiters` and both kinds of timers are the
  client's; `upstream`, `downstream`, `conn` and `counted` are the connection and
  the server's end.  Timers fire in any order except that a reconnect follows the
  waiter timeouts that were set more than its interval earlier (the model keeps
  which expiries precede it).
* **Viewer.**  `up` and `down` are the connection's two queues; a request carries
  the handler whose callback gets its answer.  A payload is dispatched to every
  handler in one action (`onReceive` is synchronous).
* **PhysicsGame.**  `world` maps the living entities to their owners, `rgb` to their
  colours, `doomed`
  are those that `entities.delete` has marked until `maintain()`, `pairs` is both
  pair lists (they are updated alike).  A bot handler and the broadcast of what it
  sends are one action; the module's header says why this loses nothing.
* **WorldLock.**  `queue` and `holders` are the lock (tokio's `RwLock` serves first
  come, first served), `at` where each task is.  `Writes`, `Reads` and `Changes` say
  per message which guard a handler takes and which storages it borrows.
* **Geometry, Collision, Motion.**  Coordinates are integers, angles quarter turns.
  The code projects on unit vectors; here an axis stays the integral perpendicular
  of an edge, and lengths are compared by cross-multiplied squares, so that nothing
  is rounded.  A system that moves bodies is an action, on all bodies at once.  The
  collider and gravity are loops over the list of pairs: an action for each pair they
  come to (`handled` counts them), and `LoopEnds`, which leaves the loop behind its last
  pair.  `order` is the order in which the dispatcher has arranged the systems, one of
  those that the dependencies of `main.rs` allow.  There may be any number of bodies and
  pairs.  A touched body is `doomed`: it is unbound at once and takes part in the next
  dispatch, behind which `Maintain` removes it; whoever leaves or spawns again has its
  bodies deleted at once, and their pairs stay in the list.  Bodies have one size and
  mass, and no spin, as in the program.
* **Planetary.**  Actions run from one await to the next.  A load is four of
  them, so ticks, fetches and viewers come between its sends.  `centred` says whether
  the system has its central body: without it nothing can send the system data
  (`system_serializer.py:37`), so that a load breaks off behind SYSTEM_CLEAR
  (`LoadBreaksOff`), and the next tick ends `system_loop` (`TickRaises`).

Every module names the bounds of its queues as constants (`QueueBound`,
`TextBound`, `SeqCap`, `ToggleBound`, `InboxBound`, `Most`); a bound is a guard on what *starts* traffic, never on what
takes it in.

Definitions introduced by "Slip:" are not part of any specification.  Each is a
plausible bug of the definition after it, and shows that a property notices it.

## 3. Runs

| Run (module, cfg) | Instance | Distinct states | What it shows |
|---|---|---|---|
| `registry` (`MCConcierge`, `concierge_registry.cfg`) | 3 uuids and names, 1 service, numbers below 3, overflow checks | 15 276 | tables are consistent (`TypeOK`, `NamespaceExact`, `NoOrphans`), no mail goes to whom the handler removed (`MailToRegistered`), every change is announced to everyone who stays and a newcomer hears only HELLO (`ChangesAnnounced`), members are told of members (`MembershipAnnounced`), nobody is subscribed or unsubscribed against its will (`OwnWillOnly`), at most one numbered answer per request, to the asker (`RepliesNumbered`), and the tables refine the abstract directory (`ImplementsDirectory`) |
| `sessions` (`Sessions`) | 2 connections, 2 uuids and names, 1 text waiting | 211 985 | `NoPanic`, `OneConnectionPerClient`, `Accounted`; every connection that goes takes its client along (`GoneIsForgotten`), every identification ends (`IdentificationEnds`), and the connection of a silent peer stops (`SilentIsDropped`) |
| `files` (`FileStore`) | 2 clients, 2 names, 2 requests, 2 files | 1 250 153 | a folder shows uploads of who has its name now (`FilesAreOwners`), but for an upload that outlived its client and a folder whose deletion a request raced; `AcknowledgedStays`, `RequestEnds` |
| `transfers` (`MCTransfers`) | 2 requests of any kind, 2 files, 3 chunks an upload | 2 615 355 | `Intact`: an acknowledged upload has stored the beginning of what was sent and nothing else, and all of it unless its stream broke off or was no multipart body, and a download takes what the file has, unless another request worked on the same file |
| `web` (`WebClient`) | 2 sockets (used again and again), 2 requests, numbers up to 3 | 385 763 | `CallbackGetsItsAnswer`, `NumbersAgree`, `OneSocket`, `ComesBack` |
| `viewer` (`Viewer`) | 2 other clients, 2 services, 3 payloads under way | 744 336 | `ListsMirror`, `TabsMatch`, `AutoSubscribed` |
| `game` (`PhysicsGame`) | 2 viewers, 1 initial and 2 further entities, 3 messages under way, 1 toggled colour | 381 550 | `ShapesMirror`, `ColoursMirror`, `NoStrays`, `PairedOnce`, `OwnShapeAppears` |
| `lock` (`WorldLock`) | 3 tasks, 3 messages under way | 22 591 | `NoBorrowClash`, `NobodyStarves`, `InterruptEnds` |
| `motion` (`MCMotion`) | 6 polygons placed and turned against each other; 3 bodies in 3 pairs in an arena, as at the start of `main.rs`, and a fourth that is cloned or spawned, 3 orders of the systems | 5 834 737 | `MinimumTranslation`, `ShapeFollowsPos`, `MomentumKept`, and the collider parts each pair when it comes to it (`Separated`) |
| `planetary` (`Planetary`) | 2 viewers, 2 bodies, 2 systems to load, with and without a central body, 2 messages under way | 2 224 278 | `PlanetsMirror` of systems that have their central body, after failed loads too; `PauseKept` |
| `doc_departure` (`Sessions`) | as `sessions` | violated | see section 6 |
| `doc_callback` (`WebClient`) | 1 socket, 2 requests | violated | see section 6 |

Between them the passing runs take every action.  `CHECK_DEADLOCK FALSE` stands,
with its reason, where the system may really stop.

**Why the bounds are enough.**  *Registry:* clients, names and services are
interchangeable, and no handler relates more than the requester, one other client
and one service; three clients give a sender, a receiver and a bystander.  Three
numbers reach the limit, after which the build with checks stops.  *Sessions:* the
races are between the timers of one connection and the mailbox, with a second
connection that contends for the name; a text in the mailbox is either before or
behind a departure.  *Files:* an upload and one other request for the same path,
with a successor to the name; two files, so that a deletion can stop at one of them and
leave the other.  *Transfers:* three chunks are spread over fields in
all ways, the second file shows what a field that names another file does.
*Web:* a request of an earlier connection and one of the present, and an old and a
new socket.  *Viewer, game, planetary:* three messages under way let an answer
cross two announcements; two viewers separate dumps to one from broadcasts to all;
three entities allow each viewer one that the other touches.  The game was run
with a second toggled colour as well (1 375 422 states), which shows the same.
*Lock:* each task waits for at most one other kind of guard; three messages let a
reader, a writer and a reader follow each other.  *Motion:* the polygons have 3 and
4 edges, both orientations, axes along the grid and aslant, and every offset from
apart over touching to contained.  Three bodies in three pairs are the start of
`main.rs`, where one pair may push together what the pair before has parted; the fourth
is new, a clone at the place of its original among them, and one entity more would
only be one more pair to each.  `Reach` and `Drift` bound how far a body and its
shape are followed.  A half that is no integer is rounded, and both halves together are the
whole push.

## 4. Fairness

* `sessions`: weak fairness of the concierge taking the next message, of an
  answer being delivered, of a stopping hook, of the identification timer and of
  the heartbeat: actix polls an actor that has work, and `run_later` and
  `run_interval` fire.  No peer is assumed to send, to answer pings or to go away.
* `files`: weak fairness of a thread pool job's own steps and of the steps of a
  deletion; strong fairness of a query being taken, which waits in a queue that
  others cannot overtake for ever.  Nothing is assumed of the peer of an upload.
* `web`: weak fairness of delivery, events, timers and of the server finding out
  that a connection is dead (its heartbeat).  `ComesBack` asks for it only if
  connections eventually stop breaking and the application does not call
  `close()`.
* `game`: weak fairness of the bot's handlers, of the program's start and of
  delivery to each viewer.  No viewer is assumed to do anything of itself.
* `lock`: weak fairness of each task, whose loops the runtime polls, and of the
  lock granting to the head of its queue, which is tokio's promise (the slip
  `GrantAnyone` shows that without it the bot starves).  No message need arrive.
* The other specifications state none: their properties are safety properties.

## 5. Proofs

The eight modules named `...Proofs` are checked by TLAPS to the last leaf.  A theorem is
about every value of the constants, with the assumptions of the modules it is about;
those named here are the ones that a proof uses.

**The concierge**, for any sets of uuids, names and services, any `SeqLimit` in
`Nat \ {0}` and either build profile (`SeqLimitAssumption`,
`OverflowChecksAssumption`):

| Theorem | States |
|---|---|
| `TypeCorrect` | `Spec => []TypeOK` |
| `NamesExact` | `Spec => []NamespaceExact` |
| `NothingOrphaned` | `Spec => []NoOrphans` |
| `MailOnlyToRegistered` | `Spec => []MailToRegistered` |
| `Refinement` | `Spec => ImplementsDirectory`: the concierge implements the abstract directory |
| `EveryChangeTold` | `Spec => ChangesAnnounced` |
| `EveryMemberTold` | `Spec => MembershipAnnounced` |
| `EveryReplyNumbered` | `Spec => RepliesNumbered` |
| `MembersByOwnWill` | `Spec => OwnWillOnly` |

The inductive invariant is `IInv == Typed /\ ClientsIssued /\ NamespaceExact /\
NoOrphans`.  `Typed` says more than `TypeOK`: what was sent is addressed to
registered clients, from which `MailToRegistered` follows, and the services are
finitely many, without which the order in which a departure announces them would
not exist.  `ClientsIssued` makes a new uuid one that is really not in the table.
Both directions of `NamespaceExact` are needed for a departure, which erases the
name that the leaver's entry tells.  There is one lemma per action; `PutIsMap` and
`EraseIsMap` say what the tables' operations leave, `AdvanceEffect` what counting a
request changes, `AnswerKeeps` covers every request that changes no table.  The
refinement has one lemma for each operation of `Directory`, and `AnswerUnseen` for
the steps that the directory does not see.

The action properties compare what was sent with what changed, so their proof works on
`Said(out')`, the set of a handler's deliveries: what a handler says is computed once
(`AnnounceSays`, `MemberSucceeds`, `FarewellSays`), and `ToldSaid` and `ConfirmedSaid`
read each promise off it.  `SilentTruthful` covers the many handlers that announce
nothing.  They do need `IInv`: a subscriber that were no client would not hear of its
service (`NoOrphans`), and a newcomer in the table already would be told of itself
(`ClientsIssued`).  `SeqsCover` says that the order in which a departure goes through the
`HashMap` misses no service, by cardinality; which order it is does not matter.

**The connections in front of it**, for any set of connections as well, whatever is
sent and in whatever order timers fire (with `NilAssumption`: the nil uuid is not
generated, and `AnswerAssumption`: an answer is a uuid or one of two other values):

| Theorem | States |
|---|---|
| `ConnectionsServed` | `SessionsSpec => Spec`: all of the above holds of the server |
| `NeverPanics` | `SessionsSpec => []NoPanic`, if the build does not check sums |
| `ClientsUnshared` | `SessionsSpec => []OneConnectionPerClient` |
| `NobodyLost` | `SessionsSpec => []Accounted` |

`NoPanic` is not inductive.  What makes it so is the order of the mailbox.
`TextsFirst`: the sender of a text in the mailbox is registered, and each report of
its departure stands behind the text.  `DeparturesFinal`: a connection whose departure is
reported is past `ctx.stop()` and sends no more texts.  They rest on
`Answered` and `AnswersDiffer`, that a connection acts for the uuid it was answered
and for no other's, and on `AsksOnce`, that it asks for one once: two answers would
leave the first uuid without connection.  `SInv` is all of these and `IInv`.  A
uuid that `Identify` generates was never issued, so no message and no answer can
hold it already.

**The file store**, for any requests, names and files, beside the concierge
(`NoneAssumption`: the mark of an empty entry is no request and no name):

| Theorem | States |
|---|---|
| `NewcomersFolder` | `FsSpec => []FilesAreOwners` |
| `AcknowledgedKept` | `FsSpec => []AcknowledgedStays` |

Both come from `FilesInv`, with `IInv` of the concierge.  `OwnFolder` is its centre: a
handler that has looked up the name behind its key works in that client's folder for as
long as the client is there, since the concierge does not change names (`NamespaceExact`).
`SweptIsFree`: while a folder is being deleted its name is free, what the deletion has not
found there, or has come to, was opened by an upload that outlived its client (`late`), and
what it has found and not come to is there unless a request has raced it
(`DeletionWasRaced`); hence a newcomer finds nothing else, unless the deletion was raced
and left the rest.  `OpenedStays` carries `AcknowledgedStays` from the
moment a file is opened.

**Uploads and downloads**, for any requests and files, any number of fields and any bound
on the chunks (`NoneAssumption`: the mark of a missing inode is no request):

| Theorem | States |
|---|---|
| `NothingLostOrMixed` | `Spec => []Intact` |

`AloneInv` of `TransfersInv` is what `clash` is for: whoever else has opened a file that is
still a request's alone has been answered.  From it `FileUntouched`: no other step touches
that file's name or its inode (`NamesApart`: an inode keeps the name it was created for).
`UploadInv` then says of every moment of an upload, between fields as well, that the
file has what was sent for it and the handler stands at its end or appends; `WrittenAtEnd`
that a write there is `Append`.  Once answered, a file has the beginning of what was sent:
all of it, unless the stream broke off (`broke`).  `DownloadInv` is the same for the head of the copy;
it needs that the client does one download at a time.

**The client library**, for any payloads and any number of sockets:

| Theorem | States |
|---|---|
| `OneConnection` | `WebSpec => []OneSocket` |
| `BothEndsCountAlike` | `~EagerRequests => (WebSpec => []NumbersAgree)` |
| `AnswersReachTheirCallbacks` | `~EagerRequests => (WebSpec => []CallbackGetsItsAnswer)` |

`~EagerRequests`, an application that sends nothing before HELLO, is what the run `web`
assumes too: without it `doc_callback` shows the opposite.  All three end when the
application calls `close()`, as the properties say themselves.  `LinkInv` says that the
current socket is in use or exactly one timer is pending, `CountInv` what each number
stands for: a waiter's number is that of its payload at the server, by what has been
counted and what is on its way (`Numbered`), and no waiter outlives its connection
(`WaitersTimed`), because the timer of a reconnect is set behind the timeouts of the
waiters.

**The viewer**, for any clients and services, finitely many of each
(`FiniteAssumption`), and any number of payloads under way:

| Theorem | States |
|---|---|
| `ListsAgree` | `ViewerSpec => []ListsMirror` |
| `TabsOfSubscriptions` | `ViewerSpec => []TabsMatch` |
| `HandlersSubscribe` | `ViewerSpec => []AutoSubscribed` |

The three properties speak of settled states; their invariant `ViewerInv` speaks of all
the others.  `Finally` is what the payloads on their way will make of a list: `WillKnow`,
`WillList` and `WillShow` say so of the clients, the services and the tabs, and each must
come out as the concierge has it *now*, unless the step that will put it right is under way
(`Listing`, `Subscribing`).  `NewOnly` is why no client is listed twice: when its arrival
is taken in, it is not in the list.  `ByHand` holds the user to what was clicked.
`WithoutLeaves` says what the loops that splice a list leave of it; it is by induction, as
`Upwards` states it for a set instead of a predicate.

**The physics game**, for any players and entities, finitely many of them at the start
(`InitialAssumption`):

| Theorem | States |
|---|---|
| `EachPairOnce` | `GameSpec => []PairedOnce` |
| `NobodyStays` | `GameSpec => []NoStrays` |
| `ShapesShown` | `GameSpec => []ShapesMirror` |
| `ColoursShown` | `GameSpec => []ColoursMirror` |

`Listed` has every two entities that will stay in the list of pairs in one order.
`OwnersInv`: whoever owns an entity, or asks for one, is still there or its departure is
further back in the bot's queue.  The last two properties speak of the quiet states only
and say nothing of the states before.  Their invariant `ToldInv` does: what is on its way
to a player, applied message by message to what it shows (`LeadsTo`, a chain of
pictures), ends in a picture of the world as it is *now*.  So every handler must have
told exactly what it changed, and a new subscriber that has not got its dump yet is the
only one exempt (`Awaiting`).

**The planetary simulation**, for any bodies, systems and viewers:

| Theorem | States |
|---|---|
| `PauseIsKept` | `PlanetarySpec => []PauseKept` |
| `PlanetsShown` | `PlanetarySpec => []PlanetsMirror`, which speaks of systems that have their central body |

`PauseInv`: the flag is what was asked for, or `temp` holds that while a load goes on.
`ToldInv` is of the same form as the game's, with a chain of screens: which planets are
shown, and whether the client draws new ones yet.  It allows for the two rounds of a
subscriber's questions (`AwaitsData`, `AwaitsObjs`) and for the moment in a load when the
old system has been cleared and the new one not been told; of a system without its central
body it foresees nothing, until the next load replaces that (`Foreseen`).

**The lock of the physics service**, for any number of messages under way
(`InboxAssumption`): `LockTypeCorrect`, `LockSpec => []LockTypeOK`, and
`StoragesSafe`, `LockSpec => []NoBorrowClash`.  Their invariant `LockInv` adds that a
message the bot is busy with stays first in its queue, since its kind decides which
guard the bot holds, and that a task with the guard for writing is alone.

**The physics engine**, for any number of bodies, any polygon with an area, any start,
velocities and places of integers, and every order in which the dispatcher may build the
systems (`StartAssumption`, `CornersAssumption`, `VectorsAssumption`, `BuiltAssumption`);
`TranslationIsMinimal` for any family of convex polygons with an area, moved and turned
against each other as far as wanted (`FamilyAssumption`, `SpanAssumption`), and
`CollidersPart` for bodies that are squares, as described below:

| Theorem | States |
|---|---|
| `MotionTypeCorrect` | `Spec => [](MotionTyped /\ RoundInv /\ LoopInv)` |
| `ShapesFollow` | `Spec => []ShapeFollowsPos` |
| `MomentumIsKept` | `Spec => MomentumKept`, for every pair that the collider or gravity comes to |
| `CollisionIsShortest` | what `FindCollision` answers, for any two polygons |
| `OverlapsAreFound` | `InteriorsMeet(poly1, poly2) => FindCollision(poly1, poly2) # None`, for any two solid polygons |
| `CollisionIsOverlap` | `FindCollision(poly1, poly2) # None <=> InteriorsMeet(poly1, poly2)`, for any two convex polygons |
| `CollisionIsMinimal` | `FindCollision(poly1, poly2)` is `IsMtv`, if it is not `None`, for any two convex polygons: it points the right way, nothing shorter parts them, and it parts them itself if they are `Lined` along it, that is, unless one starts before and ends after the other |
| `TranslationIsMinimal` | `ShapesSpec => []MinimumTranslation` |
| `CollidersPart` | `Square` gives `Spec => Separated` |

`ShapeFollowsPos` speaks of the time between rounds.  `FollowInv` of their invariant
`MotionInv` speaks of every moment: a shape is where its body is, or one velocity behind
while `shape_kine` is the next system to run.  `RoundInv` knows which one that is, since
what is left of a round is the end of its order; only there is `MovesAlike` needed.

`LoopInv` says that only a round that is at the collider or at gravity is inside a loop, and
never beyond the list: since each of them leaves its loop behind the last pair only
(`LoopEnds`), neither misses a pair, and each comes to the pairs in their order.

What a collision does to a pair is proved of any pair, so it holds of every pair of a list
of any length: `CollidedStays` keeps the set `World(F, m)` of all that a collision must
keep, which are types, shapes at their positions, and a momentum of `m`.  `SumSteps`
and `SumAdded` say how the sum over all bodies changes when one body does.  That a
collision never divides by zero (`HitType`, `NormPositive`) is part of the argument: an
overlap that is not 0 has an axis that is not Zero.  Sums and lists are folds: `SubsetsUp`
states an induction over them for a set instead of a predicate, and `FoldExists` that the
recursive function behind a fold exists.

`CollisionIsShortest` is the part of `MinimumTranslation` that is about the algorithm:
`find_collision` answers exactly when the boxes meet and the overlap is not 0 for any
edge of either polygon; its answer is the vector of one of the edges, perhaps turned around,
points from the first polygon to the second, and no edge has a shorter one.  `ShorterOrder`
makes lengths comparable that are compared as fractions.

The rest of `MinimumTranslation` is the separating axis theorem, both ways.

* *No overlap is overlooked* (`OverlapsAreFound`): if an edge or a bounding box tells two
  polygons apart (`NoOverlapOn`), all differences of their points lie on one side of a
  line, and of vectors on one side of a line one is the last to one hand (`Outermost`), so
  that zero is not between them (`OneSided`, `ApartOn`).  `Solid` excludes what the code
  answers otherwise: an edge between two equal points has no perpendicular (here its axis
  is Zero, on which nothing overlaps), and the shadow of a polygon without area may be a
  point.  That the polygons are convex is not needed for this half.
* *What has no overlap is told apart by an edge* (`SeparatingEdge`): this half needs
  convex polygons, `Convex` being that all other points are on one side of every edge.
  Interiors that do not meet have a line between them through a point of each polygon
  (`Tangent`).  If it is not an edge's, it can be turned, without losing what it
  separates, until it has the direction of one of the four edges at these two points
  (`TurnedToEdge`); `Corner` says that a point of a convex polygon is an outermost one
  wherever the two edges at it turn round.  Along the perpendicular of that edge
  `find_collision` finds no overlap (`NoHit`).
* *The answer parts them, and nothing shorter does*: pushed by it, the polygons meet no
  more, unless one starts before and ends after the other along it (`HitSeparates`).  After any translation that parts them, some edge separates them, so
  that the translation is at least as long along that edge's vector as the overlap
  there (`NoneShorter`), as long as itself by the inequality of Cauchy and Schwarz
  (`Cauchy`), and the answer is the shortest of these overlaps.

`ShapesSpec` says that the polygons are two of the family, placed anywhere, and stay what
they are; the specification of the run implies it.

`Separated` speaks of one step: the collider comes to a pair, whatever the pairs before it
have done to the two bodies, and parts them.  A later pair of the same round may push them
together again, as three bodies in three pairs do, and nothing here excludes that.
`CollidersPart` needs that bodies are squares (`Square`; those of `main.rs` and of the bot
are), since a body that starts before and ends after the other along the answer would not be
parted from it.  There may be any number of them, anywhere and at any speed.  `SquareInv`
is the inductive invariant: in addition to `MotionInv` every shape is the square of some
place (`Squared`).  The answer for two such squares is some multiple of a unit vector
(`SquareHit`), and neither square starts before and ends after the other (`TwinsLined`), so
that two pushes which together are the answer part them, however it is divided between them
(`PushesSeparate`, `SquaresPart`): by `CollisionIsOverlap` the test then answers `None`.
`SpeedsExchanged` computes what the impulse makes of both velocities along the answer.

**Only model-checked** are all liveness properties (`GoneIsForgotten`,
`IdentificationEnds`, `SilentIsDropped`, `RequestEnds`, `ComesBack`, `OwnShapeAppears`,
`NobodyStarves`, `InterruptEnds`): fairness and ENABLED are out of the prover's reach.
Every safety property that a run checks, invariant or action property, is also the
statement of a theorem.
No module declares a RECURSIVE operator.

## 6. Where the code and its documentation disagree

With a run that shows it:

* `doc_departure` — a connection whose TCP stream breaks while its IDENTIFY is
  being answered reports the nil uuid in `stopping()` (`ws.rs:74`): the client
  stays registered, and its name taken, until the server restarts.  `Accounted`
  and `GoneIsForgotten` show that this is the only way to lose a client.
* `doc_callback` — a payload sent between IDENTIFY and HELLO is counted by the
  client, but HELLO sets `seq` to 0 (`mod.ts:283`): a later payload takes the same
  number, and its callback gets the answer to the earlier one.

Met while modelling, visible in the definitions, without a run:

* An upload that was granted before its client left makes the folder again
  (`fs.rs:137`, `MakeFolder`), while `docs/FILES.md:5` has the folder deleted when
  the client disconnects: `late` in `FilesAreOwners`.
* The deletion of a folder ends at the first file that is gone when it comes to it, and the
  error is ignored (`mod.rs:453`, `SweepAborts`): if a DELETE, or a refused upload, that was
  granted before takes a file from under it, the other files stay, against
  `docs/FILES.md:5`, and pass to the next client of that name (`DeletionWasRaced`).
* A stream error between two fields ends the loop of an upload as its end does, and
  201 is answered (`fs.rs:145` and 197, `StreamFails`), while `docs/FILES.md:17` speaks of
  "success/completion of the data stream": the file lacks what came after (`broke`).
  The example client runs into it with every upload: it sends the bare file, in
  which `Multipart` finds no field, and is answered 201 for an empty one (`BeginRaw`,
  `fs_client.rs:121`).
* The example client writes a download over its older copy without emptying it
  (`fs_client.rs:78`, `Get`): what was longer keeps its end; and it writes the body of
  an error answer as well (`GetMissing`).  `Intact` speaks of the copy's head only.
* SERVICE_DELETE leaves the name in its subscribers' tables (`mod.rs:273`); when the
  service is created again SELF_FETCH lists it for clients that are not subscribed
  to it (`Subscriptions`), while `payload.rs:138` speaks of "the subscription of the
  client".
* `SERVICE_CLIENT_UUID` reaches any registered client (`ServiceClientMail`), while
  `api_rs/src/message.rs:25` says "a service's subscribing client".
* A departure is announced as SERVICE_CLIENT_UNSUBSCRIBED to every service
  (`Farewell`, `mod.rs:440`); hence the inclusion in `MembershipAnnounced`.
* The refusal of SERVICE_DELETE carries no number (`ServiceDelete`), and
  CLIENT_FETCH of an unknown uuid is not answered (`ClientFetch`).
* An IDENTIFY whose version is no semantic version panics (`UnparsableVersion`).
* A first multi upload fails, since only a single upload makes the folder
  (`OpenIn`).
* `close()` without reconnect is followed by a reconnect, and with reconnect by two
  (`CloseAndReconnect`, `CloseForGood`), which may refuse each other's name.
* `__subscribed` survives a lost connection (`Close` resets the tab only).  TabsMatch
  and AutoSubscribed hold all the same.
* A subscription by hand sends SELF_SUBSCRIBE twice (`services_handler.ts:89-99`
  lacks an `else`).  If the service is deleted and created between the two, the
  second is the one that is granted, and no tab opens: `clicked` in `TabsMatch`.
* The physics bot's first spawn may panic it (`SpawnTooEarly`, `RecvPanics`); a dump
  between a deletion and `maintain()` shows what was deleted (`ghosts`); a dump
  before the start lacks the initial entities (`early`); whoever leaves before the
  bot has subscribed to its own service leaves its entities behind (`missed`); and
  pairs with entities that SPAWN_ENTITY or a departure deletes are never dropped.
* `system_loop` and `send_loop` of the physics service keep the world's lock over
  their delays, so that the bot handles one message per round of both; only the
  fairness of the lock lets it in (`NobodyStarves`).
* `main.rs:127` leaves open whether the systems that change velocities run before or
  after `shape_kine`.  In an order that puts one between `kine` and `shape_kine` shapes
  and positions part for good: `MovesAlike` in `ShapeFollowsPos`.
* The answer of the collision test is too short to part two polygons of which one starts
  before and ends after the other along it (`Interval::intersect_length` is the inner one's
  length then): `Lined` in `MinimumTranslation`.
* A load of a system whose central body is not among its objects has replaced the old
  system and sent SYSTEM_CLEAR when it raises (`system_serializer.py:37`, caught at
  `concierge_service.py:216`): viewers stay cleared and the simulation paused, fetches of
  its data are not answered, and the next tick ends `system_loop` for good
  (`LoadBreaksOff`, `TickRaises`).
* STEP_FORWARD does not announce what it removes (`ghosts` in `Planetary`); a load
  of something that is no system leaves the simulation paused (`failed`); a
  message to the client instead of the service ends `recv_loop` (`DirectMessage`).

The exceptions in the properties (`late`, `DeletionWasRaced`, `clash`, `broke`, `early`,
`ghosts`, `missed`, `clicked`, `failed`, `centred`, `appClosed`, `MovesAlike`, `Lined`) are
these cases and nothing more.  So a property does not catch a hazard that is such a case;
it says that nothing else goes wrong.

## 7. Plan

Order: the hub first, then what feeds it, then what depends on it.

1. *Done.* `Concierge` with `Directory`; `Sessions`, with the heartbeat; `FileStore`
   and `Transfers`; `WebClient`; `Viewer`; `PhysicsGame`, with colours; `WorldLock`;
   `Geometry`, `Collision`, `Shapes` and `Motion`; `Planetary`.
   Proofs of every safety property of the concierge, its connections, the file
   store, the transfers, the client library, the viewer, both services and the lock;
   of the physics engine, the separating axis theorem included.
2. *Next proofs.* Bodies that are not squares of one size: when the answer of the
   collision test parts them, and when a whole round does.
3. *Next models.* The services as connections of `Sessions`, instead of the queues
   that stand for the hub in `PhysicsGame` and `Planetary`; a reader of the chat
   service's STATUS messages.

## 8. Not modelled

* *Wording, encoding, logging:* serde, JSON and the texts of error payloads.
  Sanitizing of file names.
* *Binary frames* of `ws.rs`: they change no state.
* *Server start-up* (`main.rs`) and the *user interface* (React and Babylon.js): no
  state that the protocol depends on.  Of the *example clients* the terminal one
  sends what is typed and prints what comes.
* *Of the physics engine:* the rounding of `f64`, unequal or infinite masses, the
  strength of gravity, whose direction is modelled, and the turning of bodies: no
  entity has a `Theta` or an `Omega`, so `rot_kine` acts on nothing.
* *Planetary engine* (`services/planetary_sim/body.py` and the like): orbits in
  floating point.  Which bodies exist is modelled, where they are is not.
* *Chat service:* it keeps no state; each payload is answered by one message, whose
  routing is `MessageToService` or `MessageToServiceClient` of `Concierge`.
* *`simulation.py`, `Template.py`, `concierge_api.py`:* nothing imports them.
