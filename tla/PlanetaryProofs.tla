-------------------------- MODULE PlanetaryProofs ---------------------------
(***************************************************************************)
(* Proofs about the planetary simulation, for every set of viewers and of  *)
(* systems and every bound: that a load gives the pause flag back, and     *)
(* that what the viewers show is the system.                               *)
(***************************************************************************)
EXTENDS Planetary, SequenceTheorems, TLAPS

-----------------------------------------------------------------------------
(* The inductive invariants                                                *)

Dumped == {"SYSTEM_DATA_DUMP", "SYSTEM_OBJS_DUMP", "SYSTEM_REMOVE_PLANETS", "SYSTEM_CLEAR"}
Message == [type : Dumped \cup {"SUBSCRIBED", "UNSUBSCRIBED"}, bodies : SUBSET Body]
Question == [type : {"FETCH_SYSTEM_DATA", "FETCH_SYSTEM_OBJS"}, from : Viewer]

\* The flag is what was asked for, or will be once the load under way has put it back.
PauseInv ==
    /\ paused \in BOOLEAN /\ temp \in BOOLEAN /\ asked \in BOOLEAN /\ failed \in BOOLEAN
    /\ PauseKept
    /\ at \in {"cleared", "told data", "told objects"} => paused /\ temp = (asked \/ failed)

SystemTyped ==
    /\ bodies \subseteq Body /\ ghosts \subseteq Body
    /\ at \in At /\ centred \in BOOLEAN
    /\ inbox \in Seq(Question)
    /\ down \in [Viewer -> Seq(Message)]
    /\ subscribers \subseteq Viewer /\ sysData \subseteq Viewer
    /\ planets \in [Viewer -> SUBSET Body]

\* What a viewer shows, and whether it draws new planets.
Screen == [shown : SUBSET Body, ready : BOOLEAN]
Shows(v) == [shown |-> planets[v], ready |-> IF v \in sysData THEN TRUE ELSE FALSE]

\* What message m makes of a screen.
Applied(m, s) ==
    CASE m.type = "SYSTEM_DATA_DUMP" -> [shown |-> {}, ready |-> TRUE]
      [] m.type = "SYSTEM_OBJS_DUMP" ->
            [shown |-> IF s.ready = TRUE THEN s.shown \cup m.bodies ELSE s.shown, ready |-> s.ready]
      [] m.type = "SYSTEM_REMOVE_PLANETS" -> [shown |-> s.shown \ m.bodies, ready |-> s.ready]
      [] m.type \in {"SYSTEM_CLEAR", "UNSUBSCRIBED"} -> [shown |-> {}, ready |-> s.ready]
      [] OTHER -> s

\* The messages of q, taken in one after the other, lead from one screen to another.
LeadsTo(q, screen, final) ==
    \E s \in [0 .. Len(q) -> Screen] :
        /\ s[0] = screen /\ s[Len(q)] = final
        /\ \A i \in 1 .. Len(q) : s[i] = Applied(q[i], s[i - 1])

Holds(q, type) == \E i \in 1 .. Len(q) : q[i].type = type
Asks(q, type, v) == \E i \in 1 .. Len(q) : q[i].type = type /\ q[i].from = v

\* The system data that a subscriber asks for is not on its way to it yet, and
\* nor are the objects that it asks for when the data comes.
AwaitsData(v) == Holds(down[v], "SUBSCRIBED") \/ Asks(inbox, "FETCH_SYSTEM_DATA", v)
AwaitsObjs(v) == Holds(down[v], "SYSTEM_DATA_DUMP") \/ Asks(inbox, "FETCH_SYSTEM_OBJS", v)

\* Between the clearing of a load and its data the old system is gone and the new
\* one has not been told; the data of a system without its central body never is,
\* so that a viewer may come out of it with no picture of any system.
Foreseen(v, final) ==
    v \in subscribers /\ centred /\ ~AwaitsData(v) =>
        /\ at # "cleared" => final.ready = TRUE
        /\ final.shown \subseteq bodies \cup ghosts
        /\ ~AwaitsObjs(v) /\ at # "cleared" => bodies \subseteq final.shown

\* What is on its way to a subscriber leads to a picture of the system as it is now.
ToldInv ==
    \A v \in Viewer : \E final \in Screen :
        LeadsTo(down[v], Shows(v), final) /\ Foreseen(v, final)

-----------------------------------------------------------------------------
(* The pause flag                                                          *)

LEMMA PauseInit == PlanetaryInit => PauseInv
BY DEF PlanetaryInit, PauseInv, PauseKept

LEMMA PauseStep == PauseInv /\ [PlanetaryNext]_planetaryVars => PauseInv'
<1> SUFFICES ASSUME PauseInv, [PlanetaryNext]_planetaryVars PROVE PauseInv'
    OBVIOUS
<1> USE DEF PauseInv, PauseKept, Listening, simulation, tasks, history
<1>1. CASE \/ Greet \/ SendObjects \/ Tick \/ TickRaises \/ UpdateData
           \/ \E v \in Viewer : FetchData(v) \/ FetchObjs(v) \/ View(v)
    <2>1. UNCHANGED <<paused, temp, at, asked, failed>>
        BY <1>1 DEF Greet, SendObjects, Tick, TickRaises, UpdateData, FetchData, FetchObjs, View, Subscribe,
                    Unsubscribe, OnSubscribe, ReceiveData, ReceiveObjects, ReceiveRemoved, Clear
    <2> QED
        BY <2>1
<1>2. CASE Pause(TRUE) \/ Pause(FALSE)
    BY <1>2 DEF Pause
<1>3. CASE StepForward
    BY <1>3 DEF StepForward
<1>4. CASE LoadSystem
    BY <1>4 DEF LoadSystem
<1>5. CASE LoadSendsData
    BY <1>5 DEF LoadSendsData
<1>6. CASE LoadSendsObjects
    BY <1>6 DEF LoadSendsObjects
<1>7. CASE LoadEnds
    BY <1>7 DEF LoadEnds
<1>8. CASE LoadFails
    BY <1>8 DEF LoadFails
<1>9. CASE DirectMessage
    BY <1>9 DEF DirectMessage
<1>10. CASE LoadBreaksOff
    BY <1>10 DEF LoadBreaksOff
<1>11. CASE UNCHANGED planetaryVars
    BY <1>11 DEF planetaryVars
<1> QED
    BY <1>1, <1>2, <1>3, <1>4, <1>5, <1>6, <1>7, <1>8, <1>9, <1>10, <1>11 DEF PlanetaryNext, HandleMessage

\* However loads, their failures and the users' PAUSE and PLAY follow each other,
\* the simulation is paused when it was last asked to be or a load has failed
\* since, and runs otherwise.
THEOREM PauseIsKept == PlanetarySpec => []PauseKept
<1>1. PauseInv => PauseKept
    BY DEF PauseInv
<1> QED
    BY <1>1, PauseInit, PauseStep, PTL DEF PlanetarySpec

-----------------------------------------------------------------------------
(* Screens, messages and queues                                            *)

LEMMA AppliedScreen ==
    ASSUME NEW m \in Message, NEW s \in Screen
    PROVE  Applied(m, s) \in Screen
BY DEF Applied, Screen, Message

LEMMA ShowsScreen ==
    ASSUME SystemTyped, NEW v \in Viewer
    PROVE  Shows(v) \in Screen
BY DEF SystemTyped, Shows, Screen

LEMMA LeadsNowhere ==
    ASSUME NEW s \in Screen
    PROVE  LeadsTo(<<>>, s, s)
<1> DEFINE path == [i \in 0 .. 0 |-> s]
<1>1. path \in [0 .. Len(<<>>) -> Screen] /\ path[0] = s /\ path[Len(<<>>)] = s
    OBVIOUS
<1>2. \A i \in 1 .. Len(<<>>) : path[i] = Applied(<<>>[i], path[i - 1])
    OBVIOUS
<1> QED
    BY <1>1, <1>2 DEF LeadsTo

\* A message more at the end is applied to where the others have led.
LEMMA LeadsOn ==
    ASSUME NEW q \in Seq(Message), NEW s, NEW final \in Screen, LeadsTo(q, s, final),
           NEW m \in Message
    PROVE  LeadsTo(Append(q, m), s, Applied(m, final))
<1> DEFINE n == Len(q)
<1>1. n \in Nat /\ Len(Append(q, m)) = n + 1 /\ Append(q, m)[n + 1] = m
      /\ \A i \in 1 .. n : Append(q, m)[i] = q[i]
    BY AppendProperties, LenProperties
<1>2. PICK path \in [0 .. n -> Screen] :
        /\ path[0] = s /\ path[n] = final
        /\ \A i \in 1 .. n : path[i] = Applied(q[i], path[i - 1])
    BY DEF LeadsTo
<1> DEFINE more == [i \in 0 .. n + 1 |-> IF i <= n THEN path[i] ELSE Applied(m, final)]
<1>3. Applied(m, final) \in Screen
    BY AppliedScreen
<1>4. more \in [0 .. n + 1 -> Screen] /\ more[0] = s /\ more[n + 1] = Applied(m, final)
    BY <1>1, <1>2, <1>3
<1>5. \A i \in 1 .. n + 1 : more[i] = Applied(Append(q, m)[i], more[i - 1])
    <2> TAKE i \in 1 .. n + 1
    <2>1. CASE i <= n
        BY <1>1, <1>2, <2>1
    <2>2. CASE i = n + 1
        BY <1>1, <1>2, <2>2
    <2> QED
        BY <1>1, <2>1, <2>2
<1> HIDE DEF more
<1> QED
    BY <1>1, <1>4, <1>5 DEF LeadsTo

\* Taking in the first message is the first step on the way.
LEMMA LeadsFrom ==
    ASSUME NEW q \in Seq(Message), q # <<>>, NEW s, NEW final, LeadsTo(q, s, final)
    PROVE  LeadsTo(Tail(q), Applied(Head(q), s), final)
<1> DEFINE n == Len(q)
<1>1. n \in Nat \ {0} /\ Len(Tail(q)) = n - 1 /\ Head(q) = q[1]
      /\ \A i \in 1 .. n - 1 : Tail(q)[i] = q[i + 1]
    BY EmptySeq, HeadTailProperties
<1>2. PICK path \in [0 .. n -> Screen] :
        /\ path[0] = s /\ path[n] = final
        /\ \A i \in 1 .. n : path[i] = Applied(q[i], path[i - 1])
    BY DEF LeadsTo
<1> DEFINE rest == [i \in 0 .. n - 1 |-> path[i + 1]]
<1>3. rest \in [0 .. n - 1 -> Screen] /\ rest[n - 1] = final
    BY <1>1, <1>2
<1>4. rest[0] = Applied(Head(q), s)
    BY <1>1, <1>2
<1>5. \A i \in 1 .. n - 1 : rest[i] = Applied(Tail(q)[i], rest[i - 1])
    BY <1>1, <1>2
<1> HIDE DEF rest
<1> QED
    BY <1>1, <1>3, <1>4, <1>5 DEF LeadsTo

\* A queue of S after a message more, and after the first is taken.
LEMMA Appended ==
    ASSUME NEW S, NEW q \in Seq(S), NEW x \in S
    PROVE  /\ Append(q, x) \in Seq(S)
           /\ Len(q) \in Nat /\ Len(Append(q, x)) = Len(q) + 1
           /\ \A i \in 1 .. Len(q) : Append(q, x)[i] = q[i]
           /\ Append(q, x)[Len(q) + 1] = x
BY AppendProperties, LenProperties

LEMMA Taken ==
    ASSUME NEW S, NEW q \in Seq(S), q # <<>>
    PROVE  /\ Head(q) \in S /\ Head(q) = q[1]
           /\ Tail(q) \in Seq(S)
           /\ Len(q) \in Nat \ {0} /\ Len(Tail(q)) = Len(q) - 1
           /\ \A i \in 1 .. Len(q) - 1 : Tail(q)[i] = q[i + 1]
<1>1. Len(q) \in Nat \ {0}
    BY EmptySeq
<1> QED
    BY <1>1, HeadTailProperties

LEMMA HoldsAppended ==
    ASSUME NEW q \in Seq(Message), NEW m \in Message, NEW type
    PROVE  /\ Holds(q, type) => Holds(Append(q, m), type)
           /\ m.type = type => Holds(Append(q, m), type)
BY Appended DEF Holds

LEMMA HoldsTaken ==
    ASSUME NEW q \in Seq(Message), q # <<>>, NEW type, Head(q).type # type, Holds(q, type)
    PROVE  Holds(Tail(q), type)
<1>1. /\ Head(q) = q[1] /\ Len(q) \in Nat \ {0} /\ Len(Tail(q)) = Len(q) - 1
      /\ \A i \in 1 .. Len(q) - 1 : Tail(q)[i] = q[i + 1]
    BY Taken
<1>2. PICK i \in 1 .. Len(q) : q[i].type = type
    BY DEF Holds
<1>3. i - 1 \in 1 .. Len(Tail(q)) /\ Tail(q)[i - 1] = q[i]
    BY <1>1, <1>2
<1> QED
    BY <1>2, <1>3 DEF Holds

LEMMA AsksAppended ==
    ASSUME NEW q \in Seq(Question), NEW f \in Question, NEW type, NEW v
    PROVE  /\ Asks(q, type, v) => Asks(Append(q, f), type, v)
           /\ f.type = type /\ f.from = v => Asks(Append(q, f), type, v)
BY Appended DEF Asks

LEMMA AsksTaken ==
    ASSUME NEW q \in Seq(Question), q # <<>>, NEW type, NEW v,
           Head(q).type # type \/ Head(q).from # v, Asks(q, type, v)
    PROVE  Asks(Tail(q), type, v)
<1>1. /\ Head(q) = q[1] /\ Len(q) \in Nat \ {0} /\ Len(Tail(q)) = Len(q) - 1
      /\ \A i \in 1 .. Len(q) - 1 : Tail(q)[i] = q[i + 1]
    BY Taken
<1>2. PICK i \in 1 .. Len(q) : q[i].type = type /\ q[i].from = v
    BY DEF Asks
<1>3. i - 1 \in 1 .. Len(Tail(q)) /\ Tail(q)[i - 1] = q[i]
    BY <1>1, <1>2
<1> QED
    BY <1>2, <1>3 DEF Asks

LEMMA MsgMade ==
    ASSUME NEW type \in Dumped \cup {"SUBSCRIBED", "UNSUBSCRIBED"}, NEW bs \in SUBSET Body
    PROVE  Msg(type, bs) \in Message /\ Msg(type, bs).type = type /\ Msg(type, bs).bodies = bs
BY DEF Msg, Message

LEMMA FetchMade ==
    ASSUME NEW type \in {"FETCH_SYSTEM_DATA", "FETCH_SYSTEM_OBJS"}, NEW v \in Viewer
    PROVE  Fetch(type, v) \in Question /\ Fetch(type, v).type = type /\ Fetch(type, v).from = v
BY DEF Fetch, Question

-----------------------------------------------------------------------------
(* What the service's steps do                                             *)

\* m goes to the viewers of to, and the service has left them alone otherwise.
Posted(m, to) ==
    /\ down' = [v \in Viewer |-> IF v \in to THEN Append(down[v], m) ELSE down[v]]
    /\ UNCHANGED viewers

LEMMA PostedTyped ==
    ASSUME SystemTyped, NEW m \in Message, NEW to \in SUBSET Viewer, Posted(m, to)
    PROVE  /\ down' \in [Viewer -> Seq(Message)]
           /\ \A v \in Viewer : down'[v] = IF v \in to THEN Append(down[v], m) ELSE down[v]
           /\ UNCHANGED <<subscribers, sysData, planets>>
<1>1. \A v \in Viewer : down[v] \in Seq(Message)
    BY DEF SystemTyped
<1>2. \A v \in Viewer : Append(down[v], m) \in Seq(Message)
    BY <1>1, Appended
<1> QED
    BY <1>1, <1>2 DEF Posted, viewers

LEMMA ToldToSubscribers ==
    ASSUME SystemTyped, NEW m, Tell(m), UNCHANGED viewers
    PROVE  Posted(m, subscribers)
BY DEF Tell, Posted

LEMMA ToldToOne ==
    ASSUME SystemTyped, NEW v \in Viewer, NEW m, TellOne(v, m), UNCHANGED viewers
    PROVE  Posted(m, {v})
BY DEF SystemTyped, TellOne, Posted

LEMMA ToldToNobody ==
    ASSUME SystemTyped, NEW m, UNCHANGED <<down, viewers>>
    PROVE  Posted(m, {})
BY DEF SystemTyped, Posted

\* Who awaits something goes on awaiting it, unless the service has just taken its question.
LEMMA PostedAwaits ==
    ASSUME SystemTyped, NEW m \in Message, NEW to \in SUBSET Viewer, Posted(m, to), NEW v \in Viewer
    PROVE  /\ (Asks(inbox, "FETCH_SYSTEM_DATA", v) => Asks(inbox, "FETCH_SYSTEM_DATA", v)')
                => (AwaitsData(v) => AwaitsData(v)')
           /\ (Asks(inbox, "FETCH_SYSTEM_OBJS", v) => Asks(inbox, "FETCH_SYSTEM_OBJS", v)')
                => (AwaitsObjs(v) => AwaitsObjs(v)')
           /\ v \in to /\ m.type = "SYSTEM_DATA_DUMP" => AwaitsObjs(v)'
<1>1. down[v] \in Seq(Message)
    BY DEF SystemTyped
<1>2. down'[v] = IF v \in to THEN Append(down[v], m) ELSE down[v]
    BY PostedTyped
<1>3. /\ Holds(down[v], "SUBSCRIBED") => Holds(down'[v], "SUBSCRIBED")
      /\ Holds(down[v], "SYSTEM_DATA_DUMP") => Holds(down'[v], "SYSTEM_DATA_DUMP")
      /\ v \in to /\ m.type = "SYSTEM_DATA_DUMP" => Holds(down'[v], "SYSTEM_DATA_DUMP")
    BY <1>1, <1>2, HoldsAppended
<1> QED
    BY <1>3 DEF AwaitsData, AwaitsObjs

\* A step of the service keeps the promise if the message that it sends does.
LEMMA PostedTold ==
    ASSUME SystemTyped, ToldInv, NEW m \in Message, NEW to \in SUBSET Viewer, Posted(m, to),
           \A v \in to : \A s, t \in Screen : Foreseen(v, s) /\ t = Applied(m, s) => Foreseen(v, t)',
           \A v \in Viewer \ to : \A s \in Screen : Foreseen(v, s) => Foreseen(v, s)'
    PROVE  ToldInv'
<1> SUFFICES ASSUME NEW v \in Viewer
             PROVE  \E final \in Screen : LeadsTo(down'[v], Shows(v)', final) /\ Foreseen(v, final)'
    BY DEF ToldInv
<1>1. PICK s \in Screen : LeadsTo(down[v], Shows(v), s) /\ Foreseen(v, s)
    BY DEF ToldInv
<1>2. /\ down[v] \in Seq(Message) /\ Shows(v)' = Shows(v)
      /\ down'[v] = IF v \in to THEN Append(down[v], m) ELSE down[v]
    BY PostedTyped DEF SystemTyped, Shows
<1>3. CASE v \in to
    <2>1. PICK t \in Screen : t = Applied(m, s)
        BY AppliedScreen
    <2>2. LeadsTo(down'[v], Shows(v)', t)
        BY <1>1, <1>2, <1>3, <2>1, LeadsOn
    <2> QED
        BY <1>1, <1>3, <2>1, <2>2
<1>4. CASE v \notin to
    BY <1>1, <1>2, <1>4
<1> QED
    BY <1>3, <1>4

LEMMA SystemMessages ==
    ASSUME SystemTyped
    PROVE  /\ SystemData \in Message /\ SystemData.type = "SYSTEM_DATA_DUMP"
           /\ SystemObjs \in Message /\ SystemObjs.type = "SYSTEM_OBJS_DUMP" /\ SystemObjs.bodies = bodies
BY MsgMade DEF SystemTyped, SystemData, SystemObjs, Dumped

\* Nothing but what is on its way, or where recv_loop is, has changed.
SystemKept ==
    /\ UNCHANGED <<bodies, centred, ghosts, inbox>>
    /\ at' \in At

\* The data to all.
DataSent == SystemKept /\ Posted(SystemData, subscribers)

\* The objects to all: the clearing is over only when it was before.
ObjsSent == SystemKept /\ Posted(SystemObjs, subscribers) /\ (at = "cleared" => at' = "cleared")

\* Nothing to anybody: the clearing of a centred system goes on.
NothingSent ==
    SystemKept /\ UNCHANGED <<down, viewers>> /\ (centred /\ at = "cleared" => at' = "cleared")

\* What removed has left the system, and the subscribers are told of it.
RemovalSent(removed) ==
    /\ bodies' = bodies \ removed /\ removed \subseteq bodies
    /\ UNCHANGED <<centred, ghosts, inbox, at>>
    /\ Posted(Msg("SYSTEM_REMOVE_PLANETS", removed), subscribers)

\* A tick that raises: what removed has left a system without its central body.
RemovalRaised(removed) ==
    /\ bodies' = bodies \ removed /\ ghosts' = ghosts \cup removed
    /\ ~centred
    /\ UNCHANGED <<centred, inbox, at, down, viewers>>

LEMMA SendersDo ==
    ASSUME SystemTyped
    PROVE  /\ Greet \/ UpdateData \/ LoadSendsData => DataSent
           /\ SendObjects \/ LoadSendsObjects => ObjsSent
           /\ \/ Pause(TRUE) \/ Pause(FALSE) \/ LoadEnds \/ LoadFails \/ LoadBreaksOff
              \/ DirectMessage \/ UNCHANGED planetaryVars
              => NothingSent
           /\ Tick => \E removed \in SUBSET bodies : RemovalSent(removed)
           /\ TickRaises => \E removed \in SUBSET bodies : RemovalRaised(removed)
<1> USE DEF SystemTyped, SystemKept, Listening, simulation, tasks, history, At
<1>1. ASSUME Greet \/ UpdateData \/ LoadSendsData PROVE DataSent
    BY <1>1, ToldToSubscribers DEF Greet, UpdateData, LoadSendsData, DataSent
<1>2. ASSUME SendObjects \/ LoadSendsObjects PROVE ObjsSent
    BY <1>2, ToldToSubscribers DEF SendObjects, LoadSendsObjects, ObjsSent
<1>3. ASSUME \/ Pause(TRUE) \/ Pause(FALSE) \/ LoadEnds \/ LoadFails \/ LoadBreaksOff
             \/ DirectMessage \/ UNCHANGED planetaryVars
      PROVE  NothingSent
    BY <1>3 DEF Pause, LoadEnds, LoadFails, LoadBreaksOff, DirectMessage, planetaryVars, NothingSent
<1>4. ASSUME Tick PROVE \E removed \in SUBSET bodies : RemovalSent(removed)
    BY <1>4, ToldToSubscribers DEF Tick, TickSystem, RemovalSent
<1>5. ASSUME TickRaises PROVE \E removed \in SUBSET bodies : RemovalRaised(removed)
    BY <1>5 DEF TickRaises, TickSystem, RemovalRaised
<1> QED
    BY <1>1, <1>2, <1>3, <1>4, <1>5

\* The control messages that change the system, and the answers to one.
LEMMA StepForwardDoes ==
    ASSUME SystemTyped, StepForward
    PROVE  \E removed \in SUBSET bodies, m \in Message, to \in {{}, subscribers} :
                /\ bodies' = bodies \ removed /\ ghosts' = ghosts \cup removed
                /\ UNCHANGED <<centred, inbox, at>>
                /\ m.type = "SYSTEM_OBJS_DUMP" /\ m.bodies = bodies'
                /\ Posted(m, to)
<1>1. PICK removed \in SUBSET bodies :
        /\ bodies' = bodies \ removed /\ ghosts' = ghosts \cup removed
        /\ IF paused /\ centred THEN Tell(Msg("SYSTEM_OBJS_DUMP", bodies')) ELSE UNCHANGED down
        /\ UNCHANGED <<centred, inbox, at, viewers>>
    BY DEF StepForward, TickSystem, tasks
<1>2. bodies' \in SUBSET Body
    BY <1>1 DEF SystemTyped
<1>3. PICK m \in Message : m = Msg("SYSTEM_OBJS_DUMP", bodies')
    BY <1>2, MsgMade DEF Dumped
<1>4. m.type = "SYSTEM_OBJS_DUMP" /\ m.bodies = bodies'
    BY <1>2, <1>3, MsgMade DEF Dumped
<1>5. Posted(m, subscribers) \/ Posted(m, {})
    BY <1>1, <1>3, ToldToSubscribers, ToldToNobody
<1> QED
    BY <1>1, <1>4, <1>5

LEMMA LoadSystemDoes ==
    ASSUME SystemTyped, LoadSystem
    PROVE  /\ bodies' \subseteq Body /\ centred' \in BOOLEAN /\ ghosts' = {}
           /\ inbox' = inbox /\ at' = "cleared"
           /\ Posted(Msg("SYSTEM_CLEAR", {}), subscribers)
BY SavedAssumption, ToldToSubscribers DEF LoadSystem

LEMMA FetchDoes ==
    ASSUME SystemTyped, NEW v \in Viewer
    PROVE  /\ FetchData(v) =>
                /\ inbox # <<>> /\ inbox' = Tail(inbox) /\ Head(inbox) = Fetch("FETCH_SYSTEM_DATA", v)
                /\ UNCHANGED <<bodies, centred, ghosts, at>>
                /\ Posted(SystemData, IF centred THEN {v} ELSE {})
           /\ FetchObjs(v) =>
                /\ inbox # <<>> /\ inbox' = Tail(inbox) /\ Head(inbox) = Fetch("FETCH_SYSTEM_OBJS", v)
                /\ UNCHANGED <<bodies, centred, ghosts, at>> /\ Posted(SystemObjs, {v})
BY ToldToOne, ToldToNobody DEF FetchData, FetchObjs, simulation, tasks, history

-----------------------------------------------------------------------------
(* What the viewers' steps do                                              *)

\* The viewers' own steps leave the service alone and the queue of the fetches
\* only grows.
Elsewhere(v) ==
    /\ UNCHANGED <<bodies, centred, ghosts, at>>
    /\ \A u \in Viewer \ {v} :
        /\ down'[u] = down[u] /\ planets'[u] = planets[u]
        /\ u \in sysData' <=> u \in sysData
        /\ u \in subscribers' <=> u \in subscribers
    /\ inbox' = inbox \/ \E f \in Question : inbox' = Append(inbox, f)

ViewDoes(v) ==
    \/ \E m \in Message :
        /\ down' = [down EXCEPT ![v] = Append(down[v], m)]
        /\ UNCHANGED <<planets, sysData>>
        /\ \/ m.type = "SUBSCRIBED" /\ subscribers' = subscribers \cup {v}
           \/ m.type = "UNSUBSCRIBED" /\ subscribers' = subscribers \ {v}
    \/ /\ down[v] # <<>> /\ down' = [down EXCEPT ![v] = Tail(down[v])]
       /\ UNCHANGED subscribers
       /\ Shows(v)' = Applied(Head(down[v]), Shows(v))
       /\ Head(down[v]).type = "SUBSCRIBED" /\ v \in subscribers =>
            inbox' = Append(inbox, Fetch("FETCH_SYSTEM_DATA", v))
       /\ Head(down[v]).type = "SYSTEM_DATA_DUMP" /\ v \in subscribers =>
            inbox' = Append(inbox, Fetch("FETCH_SYSTEM_OBJS", v))

LEMMA ViewLooks ==
    ASSUME SystemTyped, NEW v \in Viewer, View(v)
    PROVE  Elsewhere(v) /\ ViewDoes(v) /\ SystemTyped'
<1> USE DEF simulation, tasks, history, viewers
<1>0. /\ down \in [Viewer -> Seq(Message)] /\ planets \in [Viewer -> SUBSET Body]
      /\ inbox \in Seq(Question)
    BY DEF SystemTyped
<1>1. CASE Subscribe(v) \/ Unsubscribe(v)
    <2>1. PICK m \in Message :
            /\ down' = [down EXCEPT ![v] = Append(down[v], m)]
            /\ \/ m.type = "SUBSCRIBED" /\ subscribers' = subscribers \cup {v}
               \/ m.type = "UNSUBSCRIBED" /\ subscribers' = subscribers \ {v}
        <3>1. ASSUME NEW type \in {"SUBSCRIBED", "UNSUBSCRIBED"}
              PROVE  Msg(type, {}) \in Message /\ Msg(type, {}).type = type
            BY MsgMade
        <3>2. CASE Subscribe(v)
            BY <3>1, <3>2 DEF Subscribe, TellOne
        <3>3. CASE Unsubscribe(v)
            BY <3>1, <3>3 DEF Unsubscribe, TellOne
        <3> QED
            BY <1>1, <3>2, <3>3
    <2>2. UNCHANGED <<bodies, centred, ghosts, at, inbox, sysData, planets>>
        BY <1>1 DEF Subscribe, Unsubscribe
    <2>3. Append(down[v], m) \in Seq(Message)
        BY <1>0, Appended
    <2>4. SystemTyped'
        BY <2>1, <2>2, <2>3 DEF SystemTyped
    <2> QED
        BY <1>0, <2>1, <2>2, <2>4 DEF Elsewhere, ViewDoes
<1>2. ASSUME NEW type, Take(v, type), UNCHANGED subscribers
      PROVE  /\ down[v] # <<>> /\ Head(down[v]).type = type /\ Head(down[v]) \in Message
             /\ down' = [down EXCEPT ![v] = Tail(down[v])] /\ down' \in [Viewer -> Seq(Message)]
    BY <1>0, <1>2, Taken DEF Take
<1>3. ASSUME NEW type \in {"FETCH_SYSTEM_DATA", "FETCH_SYSTEM_OBJS"}, SendToService(v, type)
      PROVE  /\ inbox' \in Seq(Question)
             /\ inbox' = inbox \/ \E f \in Question : inbox' = Append(inbox, f)
             /\ v \in subscribers => inbox' = Append(inbox, Fetch(type, v))
    BY <1>0, <1>3, FetchMade, Appended DEF SendToService
<1>4. CASE OnSubscribe(v)
    <2>1. UNCHANGED <<bodies, centred, ghosts, at, subscribers, sysData, planets>>
        BY <1>4 DEF OnSubscribe
    <2>2. Take(v, "SUBSCRIBED") /\ SendToService(v, "FETCH_SYSTEM_DATA")
        BY <1>4 DEF OnSubscribe
    <2>3. Shows(v)' = Applied(Head(down[v]), Shows(v))
        BY <1>2, <2>1, <2>2 DEF Shows, Applied
    <2> QED
        BY <1>0, <1>2, <1>3, <2>1, <2>2, <2>3 DEF Elsewhere, ViewDoes, SystemTyped
<1>5. CASE ReceiveData(v)
    <2>1. /\ UNCHANGED <<bodies, centred, ghosts, at, subscribers>>
          /\ planets' = [planets EXCEPT ![v] = {}] /\ sysData' = sysData \cup {v}
        BY <1>5 DEF ReceiveData, Show
    <2>2. Take(v, "SYSTEM_DATA_DUMP") /\ SendToService(v, "FETCH_SYSTEM_OBJS")
        BY <1>5 DEF ReceiveData
    <2>3. Shows(v)' = Applied(Head(down[v]), Shows(v))
        BY <1>0, <1>2, <2>1, <2>2 DEF Shows, Applied
    <2> QED
        BY <1>0, <1>2, <1>3, <2>1, <2>2, <2>3 DEF Elsewhere, ViewDoes, SystemTyped
<1>6. CASE ReceiveObjects(v) \/ ReceiveRemoved(v) \/ Clear(v)
    <2>1. UNCHANGED <<bodies, centred, ghosts, at, inbox, subscribers, sysData>>
        BY <1>6 DEF ReceiveObjects, ReceiveRemoved, Clear
    <2>2. PICK type \in {"SYSTEM_OBJS_DUMP", "SYSTEM_REMOVE_PLANETS", "SYSTEM_CLEAR", "UNSUBSCRIBED"} :
            Take(v, type)
        BY <1>6 DEF ReceiveObjects, ReceiveRemoved, Clear
    <2>3. down[v] # <<>> /\ Head(down[v]).type = type /\ Head(down[v]) \in Message
        BY <1>2, <2>1, <2>2
    <2>4. planets' = [planets EXCEPT ![v] =
            CASE type = "SYSTEM_OBJS_DUMP" ->
                    IF v \in sysData THEN planets[v] \cup Told(v) ELSE planets[v]
              [] type = "SYSTEM_REMOVE_PLANETS" -> planets[v] \ Told(v)
              [] OTHER -> {}]
        BY <1>6, <2>3 DEF ReceiveObjects, ReceiveRemoved, Clear, Take, Show
    <2>5. Told(v) \subseteq Body
        BY <2>3 DEF Told, Message
    <2>6. planets' \in [Viewer -> SUBSET Body]
        BY <1>0, <2>4, <2>5
    <2>7. Shows(v)' = Applied(Head(down[v]), Shows(v))
        BY <1>0, <2>1, <2>3, <2>4 DEF Shows, Applied, Told
    <2> QED
        BY <1>0, <1>2, <2>1, <2>2, <2>3, <2>4, <2>6, <2>7 DEF Elsewhere, ViewDoes, SystemTyped
<1> QED
    BY <1>1, <1>4, <1>5, <1>6 DEF View

-----------------------------------------------------------------------------
(* Every step keeps what is on its way true                                *)

LEMMA ViewTold ==
    ASSUME SystemTyped, ToldInv, NEW v \in Viewer, View(v)
    PROVE  ToldInv'
<1>0. Elsewhere(v) /\ ViewDoes(v)
    BY ViewLooks
<1>1. /\ down \in [Viewer -> Seq(Message)] /\ inbox \in Seq(Question)
      /\ \A u \in Viewer : Shows(u) \in Screen /\ down[u] \in Seq(Message)
    BY ShowsScreen DEF SystemTyped
<1>2. ASSUME NEW type, NEW u
      PROVE  Asks(inbox, type, u) => Asks(inbox', type, u)
    BY <1>0, <1>1, AsksAppended DEF Elsewhere
<1>3. ASSUME NEW u \in Viewer, NEW final, Foreseen(u, final), u \in subscribers' => u \in subscribers,
             AwaitsData(u) /\ u \in subscribers' => AwaitsData(u)',
             AwaitsObjs(u) /\ u \in subscribers' => AwaitsObjs(u)'
      PROVE  Foreseen(u, final)'
    BY <1>0, <1>3 DEF Foreseen, Elsewhere
<1> SUFFICES ASSUME NEW u \in Viewer
             PROVE  \E final \in Screen : LeadsTo(down'[u], Shows(u)', final) /\ Foreseen(u, final)'
    BY DEF ToldInv
<1>4. PICK final \in Screen : LeadsTo(down[u], Shows(u), final) /\ Foreseen(u, final)
    BY DEF ToldInv
<1>5. CASE u # v
    <2>1. down'[u] = down[u] /\ Shows(u)' = Shows(u) /\ (u \in subscribers' => u \in subscribers)
        BY <1>0, <1>5 DEF Elsewhere, Shows
    <2>2. (AwaitsData(u) => AwaitsData(u)') /\ (AwaitsObjs(u) => AwaitsObjs(u)')
        BY <1>2, <2>1 DEF AwaitsData, AwaitsObjs
    <2>3. Foreseen(u, final)'
        BY <1>3, <1>4, <2>1, <2>2
    <2> QED
        BY <1>4, <2>1, <2>3
<1>6. ASSUME u = v, NEW m \in Message, down' = [down EXCEPT ![v] = Append(down[v], m)],
             UNCHANGED <<planets, sysData>>,
             \/ m.type = "SUBSCRIBED"
             \/ u \notin subscribers'
      PROVE  \E t \in Screen : LeadsTo(down'[u], Shows(u)', t) /\ Foreseen(u, t)'
    <2>1. down'[u] = Append(down[u], m) /\ Shows(u)' = Shows(u)
        BY <1>1, <1>6 DEF Shows
    <2>2. PICK t \in Screen : t = Applied(m, final)
        BY AppliedScreen
    <2>3. LeadsTo(down'[u], Shows(u)', t)
        BY <1>1, <1>4, <2>1, <2>2, LeadsOn
    <2>4. AwaitsData(u)' \/ u \notin subscribers'
        BY <1>1, <1>6, <2>1, HoldsAppended DEF AwaitsData
    <2> QED
        BY <2>3, <2>4 DEF Foreseen
<1>7. CASE /\ u = v /\ down[v] # <<>> /\ down' = [down EXCEPT ![v] = Tail(down[v])]
           /\ UNCHANGED subscribers
           /\ Shows(v)' = Applied(Head(down[v]), Shows(v))
           /\ Head(down[v]).type = "SUBSCRIBED" /\ v \in subscribers =>
                inbox' = Append(inbox, Fetch("FETCH_SYSTEM_DATA", v))
           /\ Head(down[v]).type = "SYSTEM_DATA_DUMP" /\ v \in subscribers =>
                inbox' = Append(inbox, Fetch("FETCH_SYSTEM_OBJS", v))
    <2>1. down'[u] = Tail(down[u]) /\ Shows(u)' = Applied(Head(down[u]), Shows(u)) /\ down[u] # <<>>
        BY <1>1, <1>7
    <2>2. LeadsTo(down'[u], Shows(u)', final)
        BY <1>1, <1>4, <2>1, LeadsFrom
    <2>3. ASSUME NEW type, Head(down[u]).type # type, Holds(down[u], type)
          PROVE  Holds(down'[u], type)
        BY <1>1, <2>1, <2>3, HoldsTaken
    <2>4. ASSUME NEW type \in {"FETCH_SYSTEM_DATA", "FETCH_SYSTEM_OBJS"},
                 inbox' = Append(inbox, Fetch(type, v))
          PROVE  Asks(inbox', type, v)
        BY <1>1, <2>4, FetchMade, AsksAppended
    <2>5. AwaitsData(u) /\ u \in subscribers' => AwaitsData(u)'
        BY <1>2, <1>7, <2>3, <2>4 DEF AwaitsData
    <2>6. AwaitsObjs(u) /\ u \in subscribers' => AwaitsObjs(u)'
        BY <1>2, <1>7, <2>3, <2>4 DEF AwaitsObjs
    <2>7. Foreseen(u, final)'
        BY <1>3, <1>4, <1>7, <2>5, <2>6
    <2> QED
        BY <2>2, <2>7
<1> QED
    BY <1>0, <1>5, <1>6, <1>7 DEF ViewDoes

LEMMA ServiceTold ==
    ASSUME SystemTyped, ToldInv, PlanetaryNext \/ UNCHANGED planetaryVars, ~\E v \in Viewer : View(v)
    PROVE  SystemTyped' /\ ToldInv'
<1>0. subscribers \in SUBSET Viewer /\ {} \in SUBSET Viewer /\ inbox \in Seq(Question) /\ bodies \in SUBSET Body
    BY DEF SystemTyped
<1>1. ASSUME NEW m \in Message, NEW to \in SUBSET Viewer, Posted(m, to), inbox' = inbox, NEW v \in Viewer
      PROVE  /\ AwaitsData(v) => AwaitsData(v)'
             /\ AwaitsObjs(v) => AwaitsObjs(v)'
             /\ v \in to /\ m.type = "SYSTEM_DATA_DUMP" => AwaitsObjs(v)'
             /\ v \in subscribers' <=> v \in subscribers
    <2>1. subscribers' = subscribers
        BY <1>1 DEF Posted, viewers
    <2> QED
        BY <1>1, <2>1, PostedAwaits
<1>2. ASSUME NEW m \in Message, NEW to \in SUBSET Viewer, Posted(m, to),
             bodies' \subseteq Body, ghosts' \subseteq Body, at' \in At, centred' \in BOOLEAN,
             inbox' \in Seq(Question)
      PROVE  SystemTyped'
    BY <1>2, PostedTyped DEF SystemTyped
<1>3. CASE DataSent
    <2> DEFINE m == SystemData
    <2>1. m \in Message /\ m.type = "SYSTEM_DATA_DUMP" /\ Posted(m, subscribers) /\ SystemKept
        BY <1>3, SystemMessages DEF DataSent
    <2> HIDE DEF m
    <2>2. ASSUME NEW v \in subscribers, NEW s \in Screen, NEW t \in Screen, t = Applied(m, s)
          PROVE  Foreseen(v, t)'
        <3>1. t.ready = TRUE /\ t.shown = {}
            BY <2>1, <2>2 DEF Applied
        <3>2. AwaitsObjs(v)'
            BY <1>0, <1>1, <2>1 DEF SystemKept
        <3> QED
            BY <3>1, <3>2 DEF Foreseen
    <2>3. \A v \in Viewer \ subscribers : \A s : Foreseen(v, s)'
        BY <1>0, <1>1, <2>1 DEF Foreseen, SystemKept
    <2>4. ToldInv'
        BY <1>0, <2>1, <2>2, <2>3, PostedTold
    <2> QED
        BY <1>0, <1>2, <2>1, <2>4 DEF SystemKept, SystemTyped
<1>4. CASE ObjsSent
    <2> DEFINE m == SystemObjs
    <2>1. /\ m \in Message /\ m.type = "SYSTEM_OBJS_DUMP" /\ m.bodies = bodies
          /\ Posted(m, subscribers) /\ SystemKept /\ (at = "cleared" => at' = "cleared")
        BY <1>4, SystemMessages DEF ObjsSent
    <2> HIDE DEF m
    <2>2. ASSUME NEW v \in subscribers, NEW s \in Screen, NEW t \in Screen,
                 Foreseen(v, s), t = Applied(m, s)
          PROVE  Foreseen(v, t)'
        <3>1. t.ready = s.ready /\ t.shown = IF s.ready = TRUE THEN s.shown \cup bodies ELSE s.shown
            BY <2>1, <2>2 DEF Applied
        <3>2. AwaitsData(v) => AwaitsData(v)'
            BY <1>0, <1>1, <2>1 DEF SystemKept
        <3> QED
            BY <2>1, <2>2, <3>1, <3>2 DEF Foreseen, SystemKept
    <2>3. \A v \in Viewer \ subscribers : \A s : Foreseen(v, s)'
        BY <1>0, <1>1, <2>1 DEF Foreseen, SystemKept
    <2>4. ToldInv'
        BY <1>0, <2>1, <2>2, <2>3, PostedTold
    <2> QED
        BY <1>0, <1>2, <2>1, <2>4 DEF SystemKept, SystemTyped
<1>5. CASE NothingSent
    <2>1. Posted(SystemData, {}) /\ SystemKept /\ SystemData \in Message
        BY <1>5, ToldToNobody, SystemMessages DEF NothingSent
    <2>2. ASSUME NEW v \in Viewer, NEW s, Foreseen(v, s) PROVE Foreseen(v, s)'
        <3>1. /\ AwaitsData(v) => AwaitsData(v)'
              /\ AwaitsObjs(v) => AwaitsObjs(v)'
              /\ v \in subscribers' <=> v \in subscribers
            BY <1>0, <1>1, <2>1 DEF SystemKept
        <3> QED
            BY <1>5, <2>1, <2>2, <3>1 DEF Foreseen, SystemKept, NothingSent
    <2>3. ToldInv'
        BY <1>0, <2>1, <2>2, PostedTold
    <2> QED
        BY <1>0, <1>2, <2>1, <2>3 DEF SystemKept, SystemTyped
<1>6. CASE \E removed \in SUBSET bodies : RemovalSent(removed)
    <2>1. PICK removed \in SUBSET bodies : RemovalSent(removed)
        BY <1>6
    <2> DEFINE m == Msg("SYSTEM_REMOVE_PLANETS", removed)
    <2>2. removed \in SUBSET Body
        BY <1>0
    <2>3. /\ m \in Message /\ m.type = "SYSTEM_REMOVE_PLANETS" /\ m.bodies = removed
          /\ Posted(m, subscribers) /\ bodies' = bodies \ removed /\ UNCHANGED <<centred, ghosts, inbox, at>>
        BY <2>1, <2>2, MsgMade DEF Dumped, RemovalSent
    <2> HIDE DEF m
    <2>4. ASSUME NEW v \in subscribers, NEW s \in Screen, NEW t \in Screen,
                 Foreseen(v, s), t = Applied(m, s)
          PROVE  Foreseen(v, t)'
        <3>1. t.ready = s.ready /\ t.shown = s.shown \ removed
            BY <2>3, <2>4 DEF Applied
        <3>2. /\ AwaitsData(v) => AwaitsData(v)'
              /\ AwaitsObjs(v) => AwaitsObjs(v)'
            BY <1>0, <1>1, <2>3
        <3> QED
            BY <2>3, <2>4, <3>1, <3>2 DEF Foreseen
    <2>5. \A v \in Viewer \ subscribers : \A s : Foreseen(v, s)'
        BY <1>0, <1>1, <2>3 DEF Foreseen
    <2>6. ToldInv'
        BY <1>0, <2>3, <2>4, <2>5, PostedTold
    <2> QED
        BY <1>0, <1>2, <2>3, <2>6 DEF SystemTyped
<1>7. CASE StepForward
    <2>1. PICK removed \in SUBSET bodies, m \in Message, to \in {{}, subscribers} :
            /\ bodies' = bodies \ removed /\ ghosts' = ghosts \cup removed
            /\ UNCHANGED <<centred, inbox, at>>
            /\ m.type = "SYSTEM_OBJS_DUMP" /\ m.bodies = bodies'
            /\ Posted(m, to)
        BY <1>7, StepForwardDoes
    <2>2. to \in SUBSET Viewer
        BY <1>0
    <2>3. ASSUME NEW v \in Viewer
          PROVE  /\ AwaitsData(v) => AwaitsData(v)'
                 /\ AwaitsObjs(v) => AwaitsObjs(v)'
                 /\ v \in subscribers' <=> v \in subscribers
        BY <1>1, <2>1, <2>2
    <2>4. ASSUME NEW v \in to, NEW s \in Screen, NEW t \in Screen, Foreseen(v, s), t = Applied(m, s)
          PROVE  Foreseen(v, t)'
        <3>1. t.ready = s.ready /\ t.shown = IF s.ready = TRUE THEN s.shown \cup bodies' ELSE s.shown
            BY <2>1, <2>4 DEF Applied
        <3> QED
            BY <2>1, <2>2, <2>3, <2>4, <3>1 DEF Foreseen
    <2>5. ASSUME NEW v \in Viewer \ to, NEW s \in Screen, Foreseen(v, s)
          PROVE  Foreseen(v, s)'
        BY <2>1, <2>3, <2>5 DEF Foreseen
    <2>6. ToldInv'
        BY <2>1, <2>2, <2>4, <2>5, PostedTold
    <2> QED
        BY <1>0, <1>2, <2>1, <2>2, <2>6 DEF SystemTyped
<1>8. CASE LoadSystem
    <2> DEFINE m == Msg("SYSTEM_CLEAR", {})
    <2>1. /\ m \in Message /\ m.type = "SYSTEM_CLEAR" /\ Posted(m, subscribers)
          /\ bodies' \subseteq Body /\ centred' \in BOOLEAN /\ ghosts' = {}
          /\ inbox' = inbox /\ at' = "cleared"
        BY <1>8, LoadSystemDoes, MsgMade DEF Dumped
    <2> HIDE DEF m
    <2>2. ASSUME NEW v \in subscribers, NEW s \in Screen, NEW t \in Screen,
                 Foreseen(v, s), t = Applied(m, s)
          PROVE  Foreseen(v, t)'
        <3>1. t.shown = {}
            BY <2>1, <2>2 DEF Applied
        <3> QED
            BY <2>1, <3>1 DEF Foreseen
    <2>3. \A v \in Viewer \ subscribers : \A s : Foreseen(v, s)'
        BY <1>0, <1>1, <2>1 DEF Foreseen
    <2>4. ToldInv'
        BY <1>0, <2>1, <2>2, <2>3, PostedTold
    <2> QED
        BY <1>0, <1>2, <2>1, <2>4 DEF SystemTyped, At
<1>9. ASSUME NEW v \in Viewer, FetchData(v)
      PROVE  SystemTyped' /\ ToldInv'
    <2> DEFINE m == SystemData
               f == Fetch("FETCH_SYSTEM_DATA", v)
               to == IF centred THEN {v} ELSE {}
    <2>1. /\ m \in Message /\ m.type = "SYSTEM_DATA_DUMP" /\ Posted(m, to)
          /\ inbox # <<>> /\ inbox' = Tail(inbox) /\ Head(inbox) = f
          /\ UNCHANGED <<bodies, centred, ghosts, at>>
        BY <1>9, SystemMessages, FetchDoes
    <2>2. f.type = "FETCH_SYSTEM_DATA" /\ f.from = v
        BY FetchMade
    <2>0. to \in SUBSET Viewer /\ to \subseteq {v} /\ (centred => v \in to)
        OBVIOUS
    <2> HIDE DEF m, f, to
    <2>3. subscribers' = subscribers
        BY <2>1 DEF Posted, viewers
    <2>4. ASSUME v \in to, NEW s \in Screen, NEW t \in Screen, t = Applied(m, s)
          PROVE  Foreseen(v, t)'
        <3>1. t.ready = TRUE /\ t.shown = {}
            BY <2>1, <2>4 DEF Applied
        <3>2. AwaitsObjs(v)'
            BY <2>0, <2>1, <2>3, <2>4, PostedAwaits
        <3> QED
            BY <3>1, <3>2 DEF Foreseen
    <2>5. ASSUME NEW u \in Viewer \ to, NEW s \in Screen, Foreseen(u, s)
          PROVE  Foreseen(u, s)'
        <3>0. centred => u # v
            BY <2>0, <2>5
        <3>1. u # v => \A type : Asks(inbox, type, u) => Asks(inbox', type, u)
            BY <1>0, <2>1, <2>2, AsksTaken
        <3>2. u # v => (AwaitsData(u) => AwaitsData(u)') /\ (AwaitsObjs(u) => AwaitsObjs(u)')
            BY <2>0, <2>1, <2>3, <3>1, PostedAwaits
        <3> QED
            BY <2>1, <2>3, <2>5, <3>0, <3>2 DEF Foreseen
    <2>6. ToldInv'
        BY <2>0, <2>1, <2>3, <2>4, <2>5, PostedTold
    <2>7. inbox' \in Seq(Question)
        BY <1>0, <2>1, Taken
    <2> QED
        BY <1>0, <1>2, <2>0, <2>1, <2>3, <2>6, <2>7 DEF SystemTyped
<1>10. ASSUME NEW v \in Viewer, FetchObjs(v)
       PROVE  SystemTyped' /\ ToldInv'
    <2> DEFINE m == SystemObjs
               f == Fetch("FETCH_SYSTEM_OBJS", v)
    <2>1. /\ m \in Message /\ m.type = "SYSTEM_OBJS_DUMP" /\ m.bodies = bodies /\ Posted(m, {v})
          /\ inbox # <<>> /\ inbox' = Tail(inbox) /\ Head(inbox) = f
          /\ UNCHANGED <<bodies, centred, ghosts, at>>
        BY <1>10, SystemMessages, FetchDoes
    <2>2. f.type = "FETCH_SYSTEM_OBJS" /\ f.from = v
        BY FetchMade
    <2> HIDE DEF m, f
    <2>3. subscribers' = subscribers /\ {v} \in SUBSET Viewer
        BY <2>1 DEF Posted, viewers
    <2>4. ASSUME NEW s \in Screen, NEW t \in Screen, Foreseen(v, s), t = Applied(m, s)
          PROVE  Foreseen(v, t)'
        <3>1. t.ready = s.ready /\ t.shown = IF s.ready = TRUE THEN s.shown \cup bodies ELSE s.shown
            BY <2>1, <2>4 DEF Applied
        <3>2. Asks(inbox, "FETCH_SYSTEM_DATA", v) => Asks(inbox', "FETCH_SYSTEM_DATA", v)
            BY <1>0, <2>1, <2>2, AsksTaken
        <3>3. AwaitsData(v) => AwaitsData(v)'
            BY <2>1, <2>3, <3>2, PostedAwaits
        <3> QED
            BY <2>1, <2>3, <2>4, <3>1, <3>3 DEF Foreseen
    <2>5. ASSUME NEW u \in Viewer \ {v}, NEW s \in Screen, Foreseen(u, s)
          PROVE  Foreseen(u, s)'
        <3>1. \A type : Asks(inbox, type, u) => Asks(inbox', type, u)
            BY <1>0, <2>1, <2>2, AsksTaken
        <3>2. (AwaitsData(u) => AwaitsData(u)') /\ (AwaitsObjs(u) => AwaitsObjs(u)')
            BY <2>1, <2>3, <3>1, PostedAwaits
        <3> QED
            BY <2>1, <2>3, <2>5, <3>2 DEF Foreseen
    <2>6. ToldInv'
        BY <2>1, <2>3, <2>4, <2>5, PostedTold
    <2>7. inbox' \in Seq(Question)
        BY <1>0, <2>1, Taken
    <2> QED
        BY <1>0, <1>2, <2>1, <2>3, <2>6, <2>7 DEF SystemTyped
<1>11. CASE \E removed \in SUBSET bodies : RemovalRaised(removed)
    <2>1. PICK removed \in SUBSET bodies : RemovalRaised(removed)
        BY <1>11
    <2>2. /\ bodies' = bodies \ removed /\ ghosts' = ghosts \cup removed /\ centred' = FALSE
          /\ UNCHANGED <<inbox, at, down, viewers>> /\ (centred = FALSE \/ ~centred)
        BY <2>1 DEF RemovalRaised, SystemTyped
    <2>3. Posted(SystemData, {}) /\ SystemData \in Message
        BY <2>2, ToldToNobody, SystemMessages
    <2>4. \A v \in Viewer : \A s : Foreseen(v, s)'
        BY <2>2 DEF Foreseen
    <2>5. ToldInv'
        BY <1>0, <2>3, <2>4, PostedTold
    <2> QED
        BY <1>0, <1>2, <2>2, <2>3, <2>5 DEF SystemTyped
<1> QED
    BY <1>3, <1>4, <1>5, <1>6, <1>7, <1>8, <1>9, <1>10, <1>11, SendersDo DEF PlanetaryNext, HandleMessage

LEMMA ToldInit == PlanetaryInit => SystemTyped /\ ToldInv
<1> SUFFICES ASSUME PlanetaryInit PROVE SystemTyped /\ ToldInv
    OBVIOUS
<1>1. SystemTyped
    BY SavedAssumption DEF PlanetaryInit, SystemTyped, At
<1>2. ASSUME NEW v \in Viewer
      PROVE  \E final \in Screen : LeadsTo(down[v], Shows(v), final) /\ Foreseen(v, final)
    <2>1. down[v] = <<>> /\ v \notin subscribers /\ Shows(v) \in Screen
        BY <1>1, ShowsScreen DEF PlanetaryInit
    <2> QED
        BY <2>1, LeadsNowhere DEF Foreseen
<1> QED
    BY <1>1, <1>2 DEF ToldInv

LEMMA ToldStep == SystemTyped /\ ToldInv /\ [PlanetaryNext]_planetaryVars => SystemTyped' /\ ToldInv'
<1> SUFFICES ASSUME SystemTyped, ToldInv, [PlanetaryNext]_planetaryVars PROVE SystemTyped' /\ ToldInv'
    OBVIOUS
<1>1. CASE \E v \in Viewer : View(v)
    BY <1>1, ViewLooks, ViewTold
<1>2. CASE ~\E v \in Viewer : View(v)
    BY <1>2, ServiceTold
<1> QED
    BY <1>1, <1>2

\* In every state with a centred system, what a subscriber shows and what is still
\* on its way to it make up a picture of the system as it is then, once the data
\* that it asked for is on its way too.
THEOREM SystemInvariance == PlanetarySpec => [](SystemTyped /\ ToldInv)
BY ToldInit, ToldStep, PTL DEF PlanetarySpec

\* Once everything told and asked has been taken in, a subscriber of a centred
\* system shows every body of it and nothing else but what a STEP_FORWARD has
\* dropped silently, also when loads have failed or broken off before.
THEOREM PlanetsShown == PlanetarySpec => []PlanetsMirror
<1>1. SystemTyped /\ ToldInv => PlanetsMirror
    <2> SUFFICES ASSUME SystemTyped, ToldInv, Quiet, centred, NEW v \in subscribers
                 PROVE  bodies \subseteq planets[v] /\ planets[v] \subseteq bodies \cup ghosts
        BY DEF PlanetsMirror
    <2>1. v \in Viewer /\ down[v] = <<>> /\ inbox = <<>> /\ at # "cleared"
        BY DEF SystemTyped, Quiet
    <2>2. ~AwaitsData(v) /\ ~AwaitsObjs(v)
        BY <2>1 DEF AwaitsData, AwaitsObjs, Holds, Asks
    <2>3. PICK final \in Screen : LeadsTo(<<>>, Shows(v), final) /\ Foreseen(v, final)
        BY <2>1 DEF ToldInv
    <2>4. final = Shows(v)
        BY <2>3 DEF LeadsTo
    <2>5. final.shown = planets[v]
        BY <2>4 DEF Shows
    <2> QED
        BY <2>1, <2>2, <2>3, <2>5 DEF Foreseen
<1> QED
    BY <1>1, SystemInvariance, PTL
=============================================================================
