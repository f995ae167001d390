------------------------------ MODULE Planetary ------------------------------
(***************************************************************************)
(* The planetary simulation: a service of three asyncio tasks that share   *)
(* the system and its pause flag (services/planetary_sim), and the viewers *)
(* (planetary_service of babylonjs-web) that draw what it sends.  A task   *)
(* runs from one await to the next, and a send hands its text over before  *)
(* it awaits.                                                              *)
(*                                                                         *)
(* Orbits are left out: a tick takes some bodies out of the system.  What  *)
(* a control message asks is chosen when it is handled, since nothing      *)
(* looks at it before.  The concierge in between is reduced to the         *)
(* subscribers and the order in which it passes messages on.               *)
(***************************************************************************)
EXTENDS Integers, SequencesExt

CONSTANTS
    Viewer,      \* clients of the simulation, by uuid
    Body,        \* names of orbiting bodies
    Saved,       \* the systems that can be loaded, as sets of bodies
    QueueBound   \* bound of the model: messages on their way when more is sent

ASSUME SavedAssumption == Saved \subseteq SUBSET Body
ASSUME QueueBoundAssumption == QueueBound \in Nat

VARIABLES
    bodies,       \* system.orbiting_bodies
    centred,      \* system.central_body is not None
    paused,
    temp,         \* the local of handle_message
    at,           \* where recv_loop is
    greeted,      \* send_loop has sent the system data
    driving,      \* system_loop has not died
    inbox,        \* fetches on their way to the service
    down,         \* viewer -> messages on their way to it
    subscribers,  \* viewers that the concierge counts as subscribers
    sysData,      \* viewers whose sysData is set
    planets,      \* viewer -> bodies it shows
    ghosts,       \* history: bodies that have left the present system without a word
    asked,        \* history: the last of PAUSE and PLAY was PAUSE
    failed        \* history: a load has failed since then

simulation == <<bodies, centred, paused, temp>>
tasks == <<at, greeted, driving>>
viewers == <<subscribers, sysData, planets>>
history == <<ghosts, asked, failed>>
planetaryVars == <<simulation, tasks, inbox, down, viewers, history>>

\* recv_loop between the sends of a load; "ended" once it has died.
At == {"listening", "cleared", "told data", "told objects", "ended"}

\* recv_loop and system_loop start when send_loop first awaits, its greeting sent.
Listening == greeted /\ at = "listening"
Ticking == greeted /\ driving /\ ~paused

Msg(type, bs) == [type |-> type, bodies |-> bs]
Fetch(type, v) == [type |-> type, from |-> v]

Room == Len(inbox) + FoldFunction(LAMBDA q, n : n + Len(q), 0, down) < QueueBound

\* send_msg to the service, and to one client.
Tell(msg) ==
    down' = [v \in Viewer |-> IF v \in subscribers THEN Append(down[v], msg) ELSE down[v]]
TellOne(v, msg) == down' = [down EXCEPT ![v] = Append(@, msg)]

\* Only a centred system has data to send: of another it raises an exception.
SystemData == Msg("SYSTEM_DATA_DUMP", {})
SystemObjs == Msg("SYSTEM_OBJS_DUMP", bodies)

-----------------------------------------------------------------------------
(* send_loop and system_loop                                               *)

Greet ==
    /\ ~greeted
    /\ greeted' = TRUE
    /\ Tell(SystemData)
    /\ UNCHANGED <<simulation, at, driving, inbox, viewers, history>>

SendObjects ==
    /\ greeted /\ ~paused /\ Room
    /\ Tell(SystemObjs)
    /\ UNCHANGED <<simulation, tasks, inbox, viewers, history>>

\* system.tick_system: bodies that have left the boundary are removed.
TickSystem(removed) == bodies' = bodies \ removed

\* Slip: what a tick removes is not announced.
TickSilently ==
    /\ Ticking /\ centred /\ Room
    /\ \E removed \in SUBSET bodies \ {{}} : TickSystem(removed)
    /\ UNCHANGED <<centred, paused, temp, tasks, inbox, down, viewers, history>>

\* A tick, and the message about what it has removed.
Tick ==
    /\ Ticking /\ centred /\ Room
    /\ \E removed \in SUBSET bodies \ {{}} :
        /\ TickSystem(removed)
        /\ Tell(Msg("SYSTEM_REMOVE_PLANETS", removed))
    /\ UNCHANGED <<centred, paused, temp, tasks, inbox, viewers, history>>

\* Without a central body the tick raises when it has removed its bodies already,
\* and nobody catches it.
TickRaises ==
    /\ Ticking /\ ~centred
    /\ \E removed \in SUBSET bodies :
        /\ TickSystem(removed)
        /\ ghosts' = ghosts \cup removed
    /\ driving' = FALSE
    /\ UNCHANGED <<centred, paused, temp, at, greeted, inbox, down, viewers, asked, failed>>

-----------------------------------------------------------------------------
(* recv_loop and handle_message                                            *)

Pause(p) ==
    /\ Listening
    /\ paused' = p
    /\ asked' = p /\ failed' = FALSE
    /\ UNCHANGED <<bodies, centred, temp, tasks, inbox, down, viewers, ghosts>>

\* STEP_FORWARD drops what its tick removes, and sends nothing if that raises.
StepForward ==
    /\ Listening /\ Room
    /\ \E removed \in SUBSET bodies :
        /\ TickSystem(removed)
        /\ ghosts' = ghosts \cup removed
        /\ IF paused /\ centred THEN Tell(Msg("SYSTEM_OBJS_DUMP", bodies')) ELSE UNCHANGED down
    /\ UNCHANGED <<centred, paused, temp, tasks, inbox, viewers, asked, failed>>

\* An UPDATE_DATA of a scale or a radius sends the data, if there are any; other
\* fields send nothing.
UpdateData ==
    /\ Listening /\ Room
    /\ centred
    /\ Tell(SystemData)
    /\ UNCHANGED <<simulation, tasks, inbox, viewers, history>>

FetchData(v) ==
    /\ Listening
    /\ inbox # <<>> /\ Head(inbox) = Fetch("FETCH_SYSTEM_DATA", v)
    /\ inbox' = Tail(inbox)
    /\ IF centred THEN TellOne(v, SystemData) ELSE UNCHANGED down
    /\ UNCHANGED <<simulation, tasks, viewers, history>>

FetchObjs(v) ==
    /\ Listening
    /\ inbox # <<>> /\ Head(inbox) = Fetch("FETCH_SYSTEM_OBJS", v)
    /\ inbox' = Tail(inbox)
    /\ TellOne(v, SystemObjs)
    /\ UNCHANGED <<simulation, tasks, viewers, history>>

\* Slip: the flag is remembered when it is set already.
LoadSystemRemembersLate ==
    /\ Listening /\ Room
    /\ temp' = TRUE /\ paused' = TRUE
    /\ bodies' \in Saved /\ centred' \in BOOLEAN
    /\ ghosts' = {}
    /\ Tell(Msg("SYSTEM_CLEAR", {}))
    /\ at' = "cleared"
    /\ UNCHANGED <<greeted, driving, inbox, viewers, asked, failed>>

\* LOAD_SYSTEM up to its first await; the other tasks run at each of them.  The
\* central body that the file names need not be among its objects.
LoadSystem ==
    /\ Listening /\ Room
    /\ temp' = paused /\ paused' = TRUE
    /\ bodies' \in Saved /\ centred' \in BOOLEAN
    /\ ghosts' = {}
    /\ Tell(Msg("SYSTEM_CLEAR", {}))
    /\ at' = "cleared"
    /\ UNCHANGED <<greeted, driving, inbox, viewers, asked, failed>>

LoadSendsData ==
    /\ at = "cleared" /\ centred
    /\ Tell(SystemData)
    /\ at' = "told data"
    /\ UNCHANGED <<simulation, greeted, driving, inbox, viewers, history>>

\* The exception skips the rest of the load, which has cleared the viewers and
\* replaced the system.
LoadBreaksOff ==
    /\ at = "cleared" /\ ~centred
    /\ at' = "listening"
    /\ failed' = TRUE
    /\ UNCHANGED <<simulation, greeted, driving, inbox, down, viewers, ghosts, asked>>

LoadSendsObjects ==
    /\ at = "told data"
    /\ Tell(SystemObjs)
    /\ at' = "told objects"
    /\ UNCHANGED <<simulation, greeted, driving, inbox, viewers, history>>

LoadEnds ==
    /\ at = "told objects"
    /\ paused' = temp
    /\ at' = "listening"
    /\ UNCHANGED <<bodies, centred, temp, greeted, driving, inbox, down, viewers, history>>

\* What was downloaded is no system: the exception skips the load after its pause.
LoadFails ==
    /\ Listening
    /\ temp' = paused /\ paused' = TRUE
    /\ failed' = TRUE
    /\ UNCHANGED <<bodies, centred, tasks, inbox, down, viewers, ghosts, asked>>

\* A MESSAGE that came to the client and not to the service: its origin has no
\* service, and the lookup is outside of the try.
DirectMessage ==
    /\ Listening
    /\ at' = "ended"
    /\ UNCHANGED <<simulation, greeted, driving, inbox, down, viewers, history>>

-----------------------------------------------------------------------------
(* The viewers                                                             *)

Subscribe(v) ==
    /\ Room
    /\ v \notin subscribers
    /\ subscribers' = subscribers \cup {v}
    /\ TellOne(v, Msg("SUBSCRIBED", {}))
    /\ UNCHANGED <<simulation, tasks, inbox, sysData, planets, history>>

Unsubscribe(v) ==
    /\ Room
    /\ v \in subscribers
    /\ subscribers' = subscribers \ {v}
    /\ TellOne(v, Msg("UNSUBSCRIBED", {}))
    /\ UNCHANGED <<simulation, tasks, inbox, sysData, planets, history>>

\* Only a subscriber's message reaches the service.
SendToService(v, type) ==
    inbox' = IF v \in subscribers THEN Append(inbox, Fetch(type, v)) ELSE inbox

Take(v, type) ==
    /\ down[v] # <<>>
    /\ Head(down[v]).type = type
    /\ down' = [down EXCEPT ![v] = Tail(@)]

Show(v, bs) == planets' = [planets EXCEPT ![v] = bs]
Told(v) == Head(down[v]).bodies

OnSubscribe(v) ==
    /\ Take(v, "SUBSCRIBED")
    /\ SendToService(v, "FETCH_SYSTEM_DATA")
    /\ UNCHANGED <<simulation, tasks, viewers, history>>

ReceiveData(v) ==
    /\ Take(v, "SYSTEM_DATA_DUMP")
    /\ sysData' = sysData \cup {v}
    /\ Show(v, {})
    /\ SendToService(v, "FETCH_SYSTEM_OBJS")
    /\ UNCHANGED <<simulation, tasks, subscribers, history>>

\* Known planets are moved, new ones drawn, and none is taken away.
ReceiveObjects(v) ==
    /\ Take(v, "SYSTEM_OBJS_DUMP")
    /\ Show(v, IF v \in sysData THEN planets[v] \cup Told(v) ELSE planets[v])
    /\ UNCHANGED <<simulation, tasks, inbox, subscribers, sysData, history>>

ReceiveRemoved(v) ==
    /\ Take(v, "SYSTEM_REMOVE_PLANETS")
    /\ Show(v, planets[v] \ Told(v))
    /\ UNCHANGED <<simulation, tasks, inbox, subscribers, sysData, history>>

\* SYSTEM_CLEAR, and the end of the subscription.
Clear(v) ==
    /\ Take(v, "SYSTEM_CLEAR") \/ Take(v, "UNSUBSCRIBED")
    /\ Show(v, {})
    /\ UNCHANGED <<simulation, tasks, inbox, subscribers, sysData, history>>

-----------------------------------------------------------------------------
PlanetaryInit ==
    /\ bodies \in Saved /\ centred = TRUE
    /\ paused = FALSE /\ temp = FALSE
    /\ at = "listening" /\ greeted = FALSE /\ driving = TRUE
    /\ inbox = <<>> /\ down = [v \in Viewer |-> <<>>]
    /\ subscribers = {} /\ sysData = {} /\ planets = [v \in Viewer |-> {}]
    /\ ghosts = {} /\ asked = FALSE /\ failed = FALSE

HandleMessage ==
    \/ Pause(TRUE) \/ Pause(FALSE)
    \/ StepForward \/ UpdateData
    \/ \E v \in Viewer : FetchData(v) \/ FetchObjs(v)
    \/ LoadSystem \/ LoadSendsData \/ LoadSendsObjects \/ LoadEnds
    \/ LoadFails \/ LoadBreaksOff \/ DirectMessage

View(v) ==
    \/ Subscribe(v) \/ Unsubscribe(v) \/ OnSubscribe(v)
    \/ ReceiveData(v) \/ ReceiveObjects(v) \/ ReceiveRemoved(v) \/ Clear(v)

PlanetaryNext ==
    \/ Greet \/ SendObjects \/ Tick \/ TickRaises
    \/ HandleMessage
    \/ \E v \in Viewer : View(v)

PlanetarySpec == PlanetaryInit /\ [][PlanetaryNext]_planetaryVars

-----------------------------------------------------------------------------
(* Properties                                                              *)

\* Everything told and asked has been taken in, and no load is under way.
Quiet == at = "listening" /\ inbox = <<>> /\ \A v \in Viewer : down[v] = <<>>

\* A subscriber of a centred system then shows every body of it, and no other
\* except those that have left it without a word in a STEP_FORWARD, however ticks,
\* loads, dumps to one and dumps to all were interleaved, and whatever loads have
\* broken off before.  A system without its central body is exempt: its load
\* clears the viewers and breaks off, and fetches of its data are not answered.
PlanetsMirror ==
    Quiet /\ centred => \A v \in subscribers :
        bodies \subseteq planets[v] /\ planets[v] \subseteq bodies \cup ghosts

\* A load leaves the simulation paused or running as the users have asked, which
\* the code says of it in "# temp pause"; unless it fails, before the system is
\* replaced or after, which leaves it paused until somebody asks for PLAY.
PauseKept == at = "listening" => paused = (asked \/ failed)
=============================================================================
