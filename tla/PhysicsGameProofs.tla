-------------------------- MODULE PhysicsGameProofs --------------------------
(***************************************************************************)
(* Proofs about the physics game, for every set of viewers and of entities *)
(* and every bound: which entities the systems act on, whose they are, and *)
(* what the viewers show of them.                                          *)
(***************************************************************************)
EXTENDS PhysicsGame, SequenceTheorems, FiniteSetTheorems, FunctionTheorems, TLAPS

-----------------------------------------------------------------------------
(* The inductive invariant                                                 *)

\* What a viewer shows: a colour for each of some entities.
Picture == UNION {[S -> Rgb] : S \in SUBSET Entity}

Owner == Viewer \cup {Nobody}

\* What the bot is told and what it tells.
Report == [type : {"UNSUBSCRIBED", "FETCH_ENTITIES", "SPAWN_ENTITY", "TOUCH_ENTITY", "TOGGLE_COLOR"},
           from : Viewer, ids : SUBSET Entity]
Telling == [type : ShownTypes \cup {"SUBSCRIBED"}, ids : Picture]

\* The entities that the systems act on and that are not on their way out.
Lasting == DOMAIN world \ doomed

WorldTyped ==
    /\ IsMap(world, Entity, Owner)
    /\ rgb \in Picture /\ DOMAIN rgb = DOMAIN world
    /\ doomed \subseteq DOMAIN world
    /\ DOMAIN world \subseteq used /\ Initial \subseteq used /\ used \subseteq Entity
    /\ pairs \subseteq used \X used
    /\ started \in BOOLEAN /\ listening \in BOOLEAN

MailTyped ==
    /\ subscribers \subseteq Viewer /\ gone \subseteq Viewer /\ subscribers \cap gone = {}
    /\ inbox \in Seq(Report)
    /\ down \in [Viewer -> Seq(Telling)]
    /\ shapes \in [Viewer -> Picture]
    /\ ghosts \in [Viewer -> SUBSET Entity]

\* Before the start there is nothing yet, unless the bot has failed over it.
Unstarted ==
    ~started =>
        /\ pairs = {}
        /\ listening => DOMAIN world = {} /\ \A v \in Viewer : ghosts[v] = {}

\* Every two entities are listed once and in one order.
Listed ==
    /\ started /\ listening =>
        \A e, f \in Lasting : e # f => (<<e, f>> \in pairs) # (<<f, e>> \in pairs)
    /\ \A p \in pairs : p[1] # p[2]

WorldInv == WorldTyped /\ MailTyped /\ Unstarted /\ Listed

\* At i of queue q the bot is told that v has left.
LeavesAt(q, v, i) == q[i].type = "UNSUBSCRIBED" /\ q[i].from = v

\* Whoever has an entity is there, or the bot will hear that it has left.
Owned ==
    listening => \A e \in DOMAIN world :
        \/ world[e] \in {Nobody} \cup subscribers \cup missed
        \/ \E i \in 1 .. Len(inbox) : LeavesAt(inbox, world[e], i)

\* And so is whoever asks for something: it has left after it asked.
Asked ==
    \A i \in 1 .. Len(inbox) :
        \/ inbox[i].type = "UNSUBSCRIBED"
        \/ inbox[i].from \in subscribers \cup missed
        \/ \E j \in i + 1 .. Len(inbox) : LeavesAt(inbox, inbox[i].from, j)

OwnersInv == Owned /\ Asked

\* What message m makes of a picture.
Applied(m, shown) ==
    CASE m.type = "UNSUBSCRIBED"  -> EmptyMap
      [] m.type = "ENTITY_NEW"    -> Added(m.ids, shown)
      [] m.type = "ENTITY_DELETE" -> Without(shown, DOMAIN m.ids)
      [] m.type = "ENTITY_DUMP"   -> m.ids
      [] m.type = "COLOR_UPDATE"  -> Restrict(Added(m.ids, shown), DOMAIN shown)
      [] OTHER                    -> shown

\* The messages of q, taken in one after the other, lead from one picture to another.
LeadsTo(q, shown, final) ==
    \E pic \in [0 .. Len(q) -> Picture] :
        /\ pic[0] = shown /\ pic[Len(q)] = final
        /\ \A i \in 1 .. Len(q) : pic[i] = Applied(q[i], pic[i - 1])

\* v has not asked for the dump that a subscriber asks for, or has no answer yet.
Greeted(q) == \E i \in 1 .. Len(q) : q[i].type = "SUBSCRIBED"
Asks(q, v) == \E i \in 1 .. Len(q) : q[i].type = "FETCH_ENTITIES" /\ q[i].from = v
Awaiting(v) == Greeted(down[v]) \/ Asks(inbox, v)

\* A picture of the world, as far as v has a right to one.
Mirrors(v, pic) ==
    /\ DOMAIN pic \subseteq Lasting \cup ghosts[v]
    /\ Lasting \ DOMAIN pic \subseteq (IF v \in early THEN Initial ELSE {})
    /\ \A e \in DOMAIN pic \cap DOMAIN world : pic[e] = rgb[e]
    /\ started \/ v \in early

\* Once a subscriber has been sent its dump, what is on its way to it leads to a
\* picture of the world as it is now.
Told(v, final) ==
    /\ LeadsTo(down[v], shapes[v], final)
    /\ listening /\ v \in subscribers /\ ~Awaiting(v) => Mirrors(v, final)

ToldInv == \A v \in Viewer : \E final \in Picture : Told(v, final)

-----------------------------------------------------------------------------
(* Pictures, messages and queues                                           *)

LEMMA PictureOf ==
    ASSUME NEW p
    PROVE  p \in Picture <=> DOMAIN p \subseteq Entity /\ p \in [DOMAIN p -> Rgb]
BY DEF Picture

LEMMA PictureEmpty == EmptyMap \in Picture /\ DOMAIN EmptyMap = {}
BY PictureOf DEF EmptyMap

LEMMA PictureOnly ==
    ASSUME NEW e \in Entity, NEW c \in Rgb
    PROVE  Only(e, c) \in Picture /\ DOMAIN Only(e, c) = {e} /\ Only(e, c)[e] = c
BY PictureOf DEF Only

LEMMA PictureAdded ==
    ASSUME NEW p \in Picture, NEW r \in Picture
    PROVE  /\ Added(p, r) \in Picture /\ DOMAIN Added(p, r) = DOMAIN p \cup DOMAIN r
           /\ \A e \in DOMAIN p : Added(p, r)[e] = p[e]
           /\ \A e \in DOMAIN r \ DOMAIN p : Added(p, r)[e] = r[e]
BY PictureOf DEF Added

LEMMA PictureRestricted ==
    ASSUME NEW p \in Picture, NEW S \in SUBSET DOMAIN p
    PROVE  /\ Restrict(p, S) \in Picture /\ DOMAIN Restrict(p, S) = S
           /\ \A e \in S : Restrict(p, S)[e] = p[e]
BY PictureOf DEF Restrict

LEMMA PicturePut ==
    ASSUME NEW p \in Picture, NEW e \in Entity, NEW c \in Rgb
    PROVE  /\ Put(p, e, c) \in Picture /\ DOMAIN Put(p, e, c) = DOMAIN p \cup {e}
           /\ Put(p, e, c)[e] = c
           /\ \A x \in DOMAIN p \ {e} : Put(p, e, c)[x] = p[x]
BY PictureOf DEF Put

LEMMA AppliedPicture ==
    ASSUME NEW m \in Telling, NEW p \in Picture
    PROVE  Applied(m, p) \in Picture
<1>1. m.ids \in Picture
    BY DEF Telling
<1>2. Added(m.ids, p) \in Picture /\ DOMAIN p \in SUBSET DOMAIN Added(m.ids, p)
    BY <1>1, PictureAdded
<1>3. Restrict(Added(m.ids, p), DOMAIN p) \in Picture
    BY <1>2, PictureRestricted
<1>4. Without(p, DOMAIN m.ids) \in Picture
    BY PictureRestricted DEF Without
<1> QED
    BY <1>1, <1>2, <1>3, <1>4, PictureEmpty DEF Applied

LEMMA LeadsNowhere ==
    ASSUME NEW p \in Picture
    PROVE  LeadsTo(<<>>, p, p)
<1> DEFINE pic == [i \in 0 .. 0 |-> p]
<1>1. pic \in [0 .. Len(<<>>) -> Picture] /\ pic[0] = p /\ pic[Len(<<>>)] = p
    OBVIOUS
<1>2. \A i \in 1 .. Len(<<>>) : pic[i] = Applied(<<>>[i], pic[i - 1])
    OBVIOUS
<1> QED
    BY <1>1, <1>2 DEF LeadsTo

\* A message more at the end is applied to where the others have led.
LEMMA LeadsOn ==
    ASSUME NEW q \in Seq(Telling), NEW p, NEW final \in Picture, LeadsTo(q, p, final),
           NEW m \in Telling
    PROVE  LeadsTo(Append(q, m), p, Applied(m, final))
<1> DEFINE n == Len(q)
<1>1. n \in Nat /\ Len(Append(q, m)) = n + 1 /\ Append(q, m)[n + 1] = m
      /\ \A i \in 1 .. n : Append(q, m)[i] = q[i]
    BY AppendProperties, LenProperties
<1>2. PICK pic \in [0 .. n -> Picture] :
        /\ pic[0] = p /\ pic[n] = final
        /\ \A i \in 1 .. n : pic[i] = Applied(q[i], pic[i - 1])
    BY DEF LeadsTo
<1> DEFINE more == [i \in 0 .. n + 1 |-> IF i <= n THEN pic[i] ELSE Applied(m, final)]
<1>3. Applied(m, final) \in Picture
    BY AppliedPicture
<1>4. more \in [0 .. n + 1 -> Picture] /\ more[0] = p /\ more[n + 1] = Applied(m, final)
    BY <1>1, <1>2, <1>3
<1>5. \A i \in 1 .. n + 1 : more[i] = Applied(Append(q, m)[i], more[i - 1])
    <2> TAKE i \in 1 .. n + 1
    <2>1. CASE i <= n
        BY <1>1, <1>2, <2>1
    <2>2. CASE i = n + 1
        BY <1>1, <1>2, <2>2
    <2> QED
        BY <1>1, <2>1, <2>2
<1> HIDE DEF more
<1> QED
    BY <1>1, <1>4, <1>5 DEF LeadsTo

\* Taking in the first message is the first step on the way.
LEMMA LeadsFrom ==
    ASSUME NEW q \in Seq(Telling), q # <<>>, NEW p, NEW final, LeadsTo(q, p, final)
    PROVE  LeadsTo(Tail(q), Applied(Head(q), p), final)
<1> DEFINE n == Len(q)
<1>1. n \in Nat \ {0} /\ Len(Tail(q)) = n - 1 /\ Head(q) = q[1]
      /\ \A i \in 1 .. n - 1 : Tail(q)[i] = q[i + 1]
    BY EmptySeq, HeadTailProperties
<1>2. PICK pic \in [0 .. n -> Picture] :
        /\ pic[0] = p /\ pic[n] = final
        /\ \A i \in 1 .. n : pic[i] = Applied(q[i], pic[i - 1])
    BY DEF LeadsTo
<1> DEFINE rest == [i \in 0 .. n - 1 |-> pic[i + 1]]
<1>3. rest \in [0 .. n - 1 -> Picture] /\ rest[n - 1] = final
    BY <1>1, <1>2
<1>4. rest[0] = Applied(Head(q), p)
    BY <1>1, <1>2
<1>5. \A i \in 1 .. n - 1 : rest[i] = Applied(Tail(q)[i], rest[i - 1])
    BY <1>1, <1>2
<1> HIDE DEF rest
<1> QED
    BY <1>1, <1>3, <1>4, <1>5 DEF LeadsTo

LEMMA FromBotMade ==
    ASSUME NEW type \in ShownTypes \cup {"SUBSCRIBED"}, NEW es \in Picture
    PROVE  /\ FromBot(type, es) \in Telling
           /\ FromBot(type, es).type = type /\ FromBot(type, es).ids = es
BY DEF FromBot, Telling

LEMMA FromViewerMade ==
    ASSUME NEW type \in {"UNSUBSCRIBED", "FETCH_ENTITIES", "SPAWN_ENTITY", "TOUCH_ENTITY", "TOGGLE_COLOR"},
           NEW v \in Viewer, NEW es \in SUBSET Entity
    PROVE  /\ FromViewer(type, v, es) \in Report
           /\ FromViewer(type, v, es).type = type /\ FromViewer(type, v, es).from = v
BY DEF FromViewer, Report

\* What is in a queue after a message more, and after the first is taken.
LEMMA Appended ==
    ASSUME NEW S, NEW q \in Seq(S), NEW x \in S
    PROVE  /\ Append(q, x) \in Seq(S)
           /\ Len(q) \in Nat /\ Len(Append(q, x)) = Len(q) + 1
           /\ \A i \in 1 .. Len(q) : Append(q, x)[i] = q[i]
           /\ Append(q, x)[Len(q) + 1] = x
BY AppendProperties, LenProperties

LEMMA Taken ==
    ASSUME NEW S, NEW q \in Seq(S), q # <<>>
    PROVE  /\ Head(q) \in S /\ Head(q) = q[1]
           /\ Tail(q) \in Seq(S)
           /\ Len(q) \in Nat \ {0} /\ Len(Tail(q)) = Len(q) - 1
           /\ \A i \in 1 .. Len(q) - 1 : Tail(q)[i] = q[i + 1]
<1>1. Len(q) \in Nat \ {0}
    BY EmptySeq
<1> QED
    BY <1>1, HeadTailProperties

\* The bot takes one message from its queue.
LEMMA Heard ==
    ASSUME MailTyped, NEW type, Hear(type)
    PROVE  /\ inbox' \in Seq(Report) /\ From \in Viewer /\ Touched \subseteq Entity
           /\ Head(inbox).type = type /\ inbox' = Tail(inbox) /\ inbox # <<>> /\ listening
<1>1. inbox \in Seq(Report) /\ inbox # <<>> /\ inbox' = Tail(inbox)
    BY DEF MailTyped, Hear
<1>2. Head(inbox) \in Report /\ Tail(inbox) \in Seq(Report)
    BY <1>1, HeadTailProperties
<1> QED
    BY <1>1, <1>2 DEF Hear, From, Touched, Report

\* What is broadcast follows what is on its way to the subscribers.
LEMMA Broadcasted ==
    ASSUME MailTyped, NEW m \in Telling
    PROVE  /\ Broadcast(<<m>>) \in [Viewer -> Seq(Telling)]
           /\ \A v \in Viewer : Broadcast(<<m>>)[v] =
                IF v \in subscribers THEN Append(down[v], m) ELSE down[v]
<1>1. \A v \in Viewer : down[v] \in Seq(Telling) /\ down[v] \o <<m>> = Append(down[v], m)
    BY AppendIsConcat DEF MailTyped
<1>2. \A v \in Viewer : Append(down[v], m) \in Seq(Telling)
    BY <1>1, AppendProperties
<1> QED
    BY <1>1, <1>2 DEF Broadcast

LEMMA BroadcastedTwo ==
    ASSUME MailTyped, NEW m \in Telling, NEW n \in Telling
    PROVE  /\ Broadcast(<<m, n>>) \in [Viewer -> Seq(Telling)]
           /\ \A v \in Viewer : Broadcast(<<m, n>>)[v] =
                IF v \in subscribers THEN Append(Append(down[v], m), n) ELSE down[v]
<1>1. \A v \in Viewer : down[v] \in Seq(Telling)
    BY DEF MailTyped
<1>2. \A v \in Viewer : Append(down[v], m) \in Seq(Telling)
    BY <1>1, AppendProperties
<1>3. \A v \in Viewer : Append(Append(down[v], m), n) \in Seq(Telling)
    BY <1>2, AppendProperties
<1>4. \A v \in Viewer : down[v] \o <<m, n>> = Append(Append(down[v], m), n)
    <2> TAKE v \in Viewer
    <2>1. down[v] \in Seq(Telling) /\ <<m>> \in Seq(Telling) /\ <<n>> \in Seq(Telling)
        BY <1>1
    <2>2. <<m, n>> = <<m>> \o <<n>>
        <3>1. <<m>> \o <<n>> = Append(<<m>>, n)
            BY <2>1, AppendIsConcat
        <3>2. <<m, n>> \in Seq(Telling) /\ Len(<<m, n>>) = 2
            OBVIOUS
        <3>3. Append(<<m>>, n) \in Seq(Telling) /\ Len(Append(<<m>>, n)) = 2
              /\ Append(<<m>>, n)[1] = m /\ Append(<<m>>, n)[2] = n
            BY <2>1, AppendProperties
        <3>4. \A i \in 1 .. Len(Append(<<m>>, n)) : Append(<<m>>, n)[i] = <<m, n>>[i]
            BY <3>3
        <3>5. Append(<<m>>, n) = <<m, n>>
            BY <3>2, <3>3, <3>4, SeqEqual
        <3> QED
            BY <3>1, <3>5
    <2>3. down[v] \o (<<m>> \o <<n>>) = (down[v] \o <<m>>) \o <<n>>
        BY <2>1, ConcatAssociative
    <2>4. down[v] \o <<m>> = Append(down[v], m)
        BY <2>1, AppendIsConcat
    <2>5. Append(down[v], m) \o <<n>> = Append(Append(down[v], m), n)
        BY <1>2, AppendIsConcat
    <2> QED
        BY <2>2, <2>3, <2>4, <2>5
<1> QED
    BY <1>1, <1>3, <1>4 DEF Broadcast

-----------------------------------------------------------------------------
(* Three ways in which the world changes                                   *)

\* The entities of es are gone, and v has got a new one of colour c.
Replaced(es, e, v, c) ==
    /\ e \notin used /\ used' = used \cup {e}
    /\ DOMAIN world' = (DOMAIN world \ es) \cup {e}
    /\ world'[e] = v /\ rgb'[e] = c
    /\ \A x \in DOMAIN world \ es : world'[x] = world[x] /\ rgb'[x] = rgb[x]
    /\ Lasting' = (Lasting \ es) \cup {e}

\* The entities of es are gone.
Removed(es) ==
    /\ used' = used
    /\ DOMAIN world' = DOMAIN world \ es
    /\ \A x \in DOMAIN world \ es : world'[x] = world[x] /\ rgb'[x] = rgb[x]
    /\ Lasting' = Lasting \ es

Untouched == UNCHANGED <<ecs, started, listening>>

LEMMA MapPut ==
    ASSUME NEW K, NEW V, NEW m, IsMap(m, K, V), NEW k \in K, NEW v \in V
    PROVE  /\ IsMap(Put(m, k, v), K, V) /\ DOMAIN Put(m, k, v) = DOMAIN m \cup {k}
           /\ Put(m, k, v)[k] = v
           /\ \A x \in DOMAIN m \ {k} : Put(m, k, v)[x] = m[x]
BY DEF IsMap, Put

LEMMA MapWithout ==
    ASSUME NEW K, NEW V, NEW m, IsMap(m, K, V), NEW S
    PROVE  /\ IsMap(Without(m, S), K, V) /\ DOMAIN Without(m, S) = DOMAIN m \ S
           /\ \A x \in DOMAIN m \ S : Without(m, S)[x] = m[x]
BY DEF IsMap, Without, Restrict

LEMMA PictureWithout ==
    ASSUME NEW p \in Picture, NEW S
    PROVE  /\ Without(p, S) \in Picture /\ DOMAIN Without(p, S) = DOMAIN p \ S
           /\ \A x \in DOMAIN p \ S : Without(p, S)[x] = p[x]
BY PictureRestricted DEF Without

LEMMA Spawned ==
    ASSUME WorldTyped, NEW v \in Viewer, NEW e \in Entity \ used,
           world' = Put(Without(world, OwnedBy(v)), e, v),
           rgb' = Put(Without(rgb, OwnedBy(v)), e, v),
           doomed' = doomed \ OwnedBy(v), used' = used \cup {e},
           started' \in BOOLEAN, listening' \in BOOLEAN,
           pairs' \in SUBSET (used' \X used')
    PROVE  WorldTyped' /\ Replaced(OwnedBy(v), e, v, v)
<1> DEFINE es == OwnedBy(v)
<1>1. es \subseteq DOMAIN world
    BY DEF OwnedBy
<1> HIDE DEF es
<1>2. IsMap(world', Entity, Owner) /\ DOMAIN world' = (DOMAIN world \ es) \cup {e}
      /\ world'[e] = v /\ \A x \in (DOMAIN world \ es) \ {e} : world'[x] = world[x]
    <2> DEFINE m == Without(world, es)
    <2>5. IsMap(world, Entity, Owner)
        BY DEF WorldTyped
    <2>1. IsMap(m, Entity, Owner) /\ DOMAIN m = DOMAIN world \ es
          /\ \A x \in DOMAIN world \ es : m[x] = world[x]
        BY <2>5, MapWithout
    <2>2. world' = Put(m, e, v)
        BY DEF es
    <2> HIDE DEF m
    <2>3. e \in Entity /\ v \in Owner
        BY DEF Owner
    <2>4. IsMap(Put(m, e, v), Entity, Owner)
          /\ DOMAIN Put(m, e, v) = DOMAIN m \cup {e}
          /\ Put(m, e, v)[e] = v /\ \A x \in DOMAIN m \ {e} : Put(m, e, v)[x] = m[x]
        BY <2>1, <2>3, MapPut
    <2> QED
        BY <2>1, <2>2, <2>4
<1>3. rgb' \in Picture /\ DOMAIN rgb' = (DOMAIN rgb \ es) \cup {e}
      /\ rgb'[e] = v /\ \A x \in (DOMAIN rgb \ es) \ {e} : rgb'[x] = rgb[x]
    <2> DEFINE m == Without(rgb, es)
    <2>1. m \in Picture /\ DOMAIN m = DOMAIN rgb \ es /\ \A x \in DOMAIN rgb \ es : m[x] = rgb[x]
        BY PictureWithout DEF WorldTyped
    <2>2. rgb' = Put(m, e, v) /\ v \in Rgb
        BY DEF es, Rgb
    <2> HIDE DEF m
    <2>3. /\ Put(m, e, v) \in Picture /\ DOMAIN Put(m, e, v) = DOMAIN m \cup {e}
          /\ Put(m, e, v)[e] = v /\ \A x \in DOMAIN m \ {e} : Put(m, e, v)[x] = m[x]
        BY <2>1, <2>2, PicturePut
    <2> QED
        BY <2>1, <2>2, <2>3
<1>4. e \notin used /\ DOMAIN world \subseteq used /\ doomed' = doomed \ es
    BY DEF WorldTyped, es
<1>5. WorldTyped'
    BY <1>2, <1>3, <1>4 DEF WorldTyped
<1>6. Replaced(es, e, v, v)
    BY <1>2, <1>3, <1>4 DEF WorldTyped, Replaced, Lasting
<1> QED
    BY <1>5, <1>6 DEF es

LEMMA Cloned ==
    ASSUME WorldTyped, NEW v \in Viewer, NEW e \in Entity \ used, NEW f \in DOMAIN world,
           world' = Put(world, e, v), rgb' = Put(rgb, e, rgb[f]),
           used' = used \cup {e}, UNCHANGED <<doomed, started, listening>>,
           pairs' \in SUBSET (used' \X used')
    PROVE  WorldTyped' /\ Replaced({}, e, v, rgb[f]) /\ rgb[f] \in Rgb
<1>1. rgb[f] \in Rgb
    BY PictureOf DEF WorldTyped
<1>2. IsMap(world', Entity, Owner) /\ DOMAIN world' = DOMAIN world \cup {e}
      /\ world'[e] = v /\ \A x \in DOMAIN world \ {e} : world'[x] = world[x]
    <2> DEFINE m == Put(world, e, v)
    <2>1. IsMap(world, Entity, Owner) /\ e \in Entity /\ v \in Owner
        BY DEF WorldTyped, Owner
    <2>2. IsMap(m, Entity, Owner) /\ DOMAIN m = DOMAIN world \cup {e}
          /\ m[e] = v /\ \A x \in DOMAIN world \ {e} : m[x] = world[x]
        BY <2>1, MapPut
    <2> QED
        BY <2>2
<1>3. rgb' \in Picture /\ DOMAIN rgb' = DOMAIN rgb \cup {e}
      /\ rgb'[e] = rgb[f] /\ \A x \in DOMAIN rgb \ {e} : rgb'[x] = rgb[x]
    <2> DEFINE m == Put(rgb, e, rgb[f])
    <2>1. rgb \in Picture /\ e \in Entity
        BY DEF WorldTyped
    <2>2. m \in Picture /\ DOMAIN m = DOMAIN rgb \cup {e}
          /\ m[e] = rgb[f] /\ \A x \in DOMAIN rgb \ {e} : m[x] = rgb[x]
        BY <1>1, <2>1, PicturePut
    <2> QED
        BY <2>2
<1>4. e \notin used /\ DOMAIN world \subseteq used
    BY DEF WorldTyped
<1>5. WorldTyped'
    BY <1>2, <1>3, <1>4 DEF WorldTyped
<1>6. Replaced({}, e, v, rgb[f])
    BY <1>2, <1>3, <1>4 DEF WorldTyped, Replaced, Lasting
<1> QED
    BY <1>1, <1>5, <1>6

LEMMA Erasure ==
    ASSUME WorldTyped, NEW es, Erased(es), doomed' = doomed \ es,
           UNCHANGED <<pairs, used, started, listening>>
    PROVE  WorldTyped' /\ Removed(es)
<1>1. IsMap(world', Entity, Owner) /\ DOMAIN world' = DOMAIN world \ es
      /\ \A x \in DOMAIN world \ es : world'[x] = world[x]
    <2>1. IsMap(world, Entity, Owner)
        BY DEF WorldTyped
    <2>2. IsMap(Without(world, es), Entity, Owner)
          /\ DOMAIN Without(world, es) = DOMAIN world \ es
          /\ \A x \in DOMAIN world \ es : Without(world, es)[x] = world[x]
        BY <2>1, MapWithout
    <2> QED
        BY <2>2 DEF Erased
<1>2. rgb' \in Picture /\ DOMAIN rgb' = DOMAIN rgb \ es
      /\ \A x \in DOMAIN rgb \ es : rgb'[x] = rgb[x]
    BY PictureWithout DEF WorldTyped, Erased
<1>3. WorldTyped'
    BY <1>1, <1>2 DEF WorldTyped
<1>4. Removed(es)
    BY <1>1, <1>2 DEF WorldTyped, Removed, Lasting
<1> QED
    BY <1>3, <1>4

\* Each two of the initial entities are listed once, in the order in which they are.
LEMMA InitialListed ==
    ASSUME NEW order \in SetToSeqs(Initial),
           NEW P, P = UNION {{<<order[i], order[j]>> : j \in i + 1 .. Len(order)} : i \in DOMAIN order}
    PROVE  /\ P \subseteq Initial \X Initial
           /\ \A p \in P : p[1] # p[2]
           /\ \A e, f \in Initial : e # f => (<<e, f>> \in P) # (<<f, e>> \in P)
<1> DEFINE n == Cardinality(Initial)
<1>1. n \in Nat
    BY InitialAssumption, FS_CardinalityType
<1>2. order \in [1 .. n -> Initial] /\ \A i, j \in 1 .. n : i # j => order[i] # order[j]
    BY DEF SetToSeqs
<1>3. order \in Seq(Initial) /\ Len(order) = n /\ DOMAIN order = 1 .. n
    BY <1>1, <1>2
<1>4. \A e \in Initial : \E i \in 1 .. n : order[i] = e
    <2>1. order \in Injection(1 .. n, Initial)
        BY <1>2, Fun_IsInj
    <2>2. Cardinality(1 .. n) = n
        BY <1>1, FS_Interval
    <2>3. order \in Surjection(1 .. n, Initial)
        BY <2>1, <2>2, InitialAssumption, FS_Injection
    <2> QED
        BY <2>3 DEF Surjection
<1> HIDE DEF n
<1>5. \A x : x \in P <=> \E i \in 1 .. n : \E j \in i + 1 .. n : x = <<order[i], order[j]>>
    BY <1>3
<1>6. P \subseteq Initial \X Initial /\ \A p \in P : p[1] # p[2]
    <2> SUFFICES ASSUME NEW p \in P PROVE p \in Initial \X Initial /\ p[1] # p[2]
        OBVIOUS
    <2>3. PICK i \in 1 .. n : \E j \in i + 1 .. n : p = <<order[i], order[j]>>
        BY <1>5
    <2>1. PICK j \in i + 1 .. n : p = <<order[i], order[j]>>
        BY <2>3
    <2>2. j \in 1 .. n /\ i # j
        BY <1>1
    <2> QED
        BY <1>2, <2>1, <2>2
<1>7. ASSUME NEW e \in Initial, NEW f \in Initial, e # f
      PROVE  (<<e, f>> \in P) # (<<f, e>> \in P)
    <2>1. PICK i \in 1 .. n : order[i] = e
        BY <1>4
    <2>2. PICK j \in 1 .. n : order[j] = f
        BY <1>4
    <2>3. \A k, l \in 1 .. n : <<order[k], order[l]>> = <<e, f>> => k = i /\ l = j
        BY <1>2, <2>1, <2>2
    <2>4. \A k, l \in 1 .. n : <<order[k], order[l]>> = <<f, e>> => k = j /\ l = i
        BY <1>2, <2>1, <2>2
    <2>8. \A k \in 1 .. n : \A l \in k + 1 .. n : l \in 1 .. n
        BY <1>1
    <2>5. <<e, f>> \in P <=> j \in i + 1 .. n
        BY <1>5, <2>1, <2>2, <2>3, <2>8
    <2>6. <<f, e>> \in P <=> i \in j + 1 .. n
        BY <1>5, <2>1, <2>2, <2>4, <2>8
    <2>7. i # j
        BY <1>7, <2>1, <2>2
    <2> QED
        BY <1>1, <2>5, <2>6, <2>7
<1> QED
    BY <1>6, <1>7

-----------------------------------------------------------------------------
(* What the handlers do to the world, and what they tell                   *)

\* The bot has heard a message of this type and tells the subscribers these.
Handled(type, msgs) ==
    /\ Hear(type) /\ down' = Broadcast(msgs)
    /\ UNCHANGED <<joined, concierge, shapes, ghosts, early, missed>>

LEMMA ColoursMade ==
    ASSUME WorldTyped, NEW es \in SUBSET DOMAIN world
    PROVE  Colours(es) \in Picture /\ DOMAIN Colours(es) = es
BY PictureRestricted DEF WorldTyped, Colours

LEMMA DeletionMade ==
    ASSUME WorldTyped, NEW es \in SUBSET DOMAIN world, NEW m,
           m = FromBot("ENTITY_DELETE", Colours(es))
    PROVE  m \in Telling /\ m.type = "ENTITY_DELETE" /\ DOMAIN m.ids = es
BY ColoursMade, FromBotMade DEF ShownTypes

LEMMA ArrivalMade ==
    ASSUME NEW e \in Entity, NEW c \in Rgb, NEW m, m = FromBot("ENTITY_NEW", Only(e, c))
    PROVE  m \in Telling /\ m.type = "ENTITY_NEW" /\ DOMAIN m.ids = {e} /\ m.ids[e] = c
<1>1. Only(e, c) \in Picture /\ DOMAIN Only(e, c) = {e} /\ Only(e, c)[e] = c
    BY PictureOnly
<1>2. m \in Telling /\ m.type = "ENTITY_NEW" /\ m.ids = Only(e, c)
    BY <1>1, FromBotMade DEF ShownTypes
<1> QED
    BY <1>1, <1>2

LEMMA SpawnDoes ==
    ASSUME WorldTyped, MailTyped, SpawnEntity
    PROVE  \E e \in Entity, m, n \in Telling :
            /\ WorldTyped' /\ Replaced(OwnedBy(From), e, From, From)
            /\ started /\ UNCHANGED <<started, listening>>
            /\ pairs' = pairs \cup Bind(e)
            /\ m.type = "ENTITY_DELETE" /\ DOMAIN m.ids = OwnedBy(From)
            /\ n.type = "ENTITY_NEW" /\ DOMAIN n.ids = {e} /\ n.ids[e] = From
            /\ Handled("SPAWN_ENTITY", <<m, n>>)
<1>1. From \in Viewer /\ From \in Rgb
    BY Heard DEF SpawnEntity, Rgb
<1>2. PICK e \in Entity \ used :
        /\ world' = Put(Without(world, OwnedBy(From)), e, From)
        /\ rgb' = Put(Without(rgb, OwnedBy(From)), e, From)
        /\ doomed' = doomed \ OwnedBy(From)
        /\ used' = used \cup {e}
        /\ pairs' = pairs \cup Bind(e)
        /\ down' = Broadcast(<<FromBot("ENTITY_DELETE", Colours(OwnedBy(From))), FromBot("ENTITY_NEW", Only(e, From))>>)
    BY DEF SpawnEntity
<1>3. pairs' \in SUBSET (used' \X used')
    BY <1>2 DEF WorldTyped, Bind
<1>4. UNCHANGED <<started, listening, joined, concierge, shapes, ghosts, early, missed>>
    BY DEF SpawnEntity, bot, history
<1>5. WorldTyped' /\ Replaced(OwnedBy(From), e, From, From)
    <2>1. started' \in BOOLEAN /\ listening' \in BOOLEAN
        BY <1>4 DEF WorldTyped
    <2> QED
        BY <1>1, <1>2, <1>3, <2>1, Spawned
<1> DEFINE m == FromBot("ENTITY_DELETE", Colours(OwnedBy(From)))
           n == FromBot("ENTITY_NEW", Only(e, From))
<1>6. m \in Telling /\ m.type = "ENTITY_DELETE" /\ DOMAIN m.ids = OwnedBy(From)
    <2>1. OwnedBy(From) \in SUBSET DOMAIN world
        BY DEF OwnedBy
    <2> QED
        BY <2>1, DeletionMade
<1>7. n \in Telling /\ n.type = "ENTITY_NEW" /\ DOMAIN n.ids = {e} /\ n.ids[e] = From
    BY <1>1, ArrivalMade
<1>8. Handled("SPAWN_ENTITY", <<m, n>>) /\ started
    BY <1>2, <1>4 DEF SpawnEntity, Handled
<1> HIDE DEF m, n
<1> QED
    BY <1>2, <1>4, <1>5, <1>6, <1>7, <1>8

\* What comes too early is the end of the bot.
LEMMA SpawnTooEarlyDoes ==
    ASSUME WorldTyped, MailTyped, SpawnTooEarly
    PROVE  \E m \in Telling :
            /\ WorldTyped' /\ ~started /\ ~started' /\ ~listening' /\ pairs' = pairs
            /\ Handled("SPAWN_ENTITY", <<m>>)
<1>1. From \in Viewer
    BY Heard DEF SpawnTooEarly
<1>2. PICK e \in Entity \ used :
        /\ world' = Put(Without(world, OwnedBy(From)), e, From)
        /\ rgb' = Put(Without(rgb, OwnedBy(From)), e, From)
        /\ doomed' = doomed \ OwnedBy(From)
        /\ used' = used \cup {e}
    BY DEF SpawnTooEarly
<1>3. pairs' \in SUBSET (used' \X used')
    BY <1>2 DEF WorldTyped, SpawnTooEarly
<1>4. started' \in BOOLEAN /\ listening' \in BOOLEAN
    BY DEF WorldTyped, SpawnTooEarly
<1>5. WorldTyped'
    BY <1>1, <1>2, <1>3, <1>4, Spawned
<1> DEFINE m == FromBot("ENTITY_DELETE", Colours(OwnedBy(From)))
<1>6. m \in Telling
    <2>1. OwnedBy(From) \in SUBSET DOMAIN world
        BY DEF OwnedBy
    <2> QED
        BY <2>1, DeletionMade
<1>7. Handled("SPAWN_ENTITY", <<m>>)
    BY DEF SpawnTooEarly, Handled, history
<1>8. ~started /\ ~started' /\ ~listening' /\ pairs' = pairs
    BY DEF SpawnTooEarly
<1> HIDE DEF m
<1> QED
    BY <1>5, <1>6, <1>7, <1>8

LEMMA TouchOwnDoes ==
    ASSUME WorldTyped, MailTyped, TouchOwn
    PROVE  \E e \in Entity, c \in Rgb, n \in Telling :
            /\ WorldTyped' /\ Replaced({}, e, From, c) /\ UNCHANGED <<started, listening>>
            /\ DOMAIN world # {} /\ pairs' = pairs \cup Bind(e)
            /\ n.type = "ENTITY_NEW" /\ DOMAIN n.ids = {e} /\ n.ids[e] = c
            /\ Handled("TOUCH_ENTITY", <<n>>)
<1>1. From \in Viewer
    BY Heard DEF TouchOwn
<1>2. PICK e \in Entity \ used, f \in Touched :
        /\ world' = Put(world, e, From)
        /\ rgb' = Put(rgb, e, rgb[f])
        /\ used' = used \cup {e}
        /\ pairs' = pairs \cup Bind(e)
        /\ down' = Broadcast(<<FromBot("ENTITY_NEW", Only(e, rgb[f]))>>)
    BY DEF TouchOwn
<1>3. f \in DOMAIN world
    BY DEF TouchOwn, OwnedBy
<1>4. pairs' \in SUBSET (used' \X used')
    BY <1>2 DEF WorldTyped, Bind
<1>5. UNCHANGED <<doomed, started, listening, joined, concierge, shapes, ghosts, early, missed>>
    BY DEF TouchOwn, bot, history
<1>6. WorldTyped' /\ Replaced({}, e, From, rgb[f]) /\ rgb[f] \in Rgb
    BY <1>1, <1>2, <1>3, <1>4, <1>5, Cloned
<1> DEFINE n == FromBot("ENTITY_NEW", Only(e, rgb[f]))
<1>7. n \in Telling /\ n.type = "ENTITY_NEW" /\ DOMAIN n.ids = {e} /\ n.ids[e] = rgb[f]
    BY <1>6, ArrivalMade
<1>8. Handled("TOUCH_ENTITY", <<n>>)
    BY <1>2, <1>5 DEF TouchOwn, Handled
<1> HIDE DEF n
<1> QED
    BY <1>2, <1>3, <1>5, <1>6, <1>7, <1>8

\* The one touched is marked, and in no list from then on.
LEMMA TouchOtherDoes ==
    ASSUME WorldTyped, MailTyped, TouchOther
    PROVE  \E e \in DOMAIN world, m \in Telling :
            /\ WorldTyped' /\ UNCHANGED <<world, rgb, used, started, listening>>
            /\ doomed' = doomed \cup {e}
            /\ pairs' = {p \in pairs : p[1] # e /\ p[2] # e}
            /\ m.type = "ENTITY_DELETE" /\ DOMAIN m.ids = {e}
            /\ Handled("TOUCH_ENTITY", <<m>>)
<1>1. PICK e \in DOMAIN world :
        /\ doomed' = doomed \cup {e}
        /\ pairs' = {p \in pairs : p[1] # e /\ p[2] # e}
        /\ down' = Broadcast(<<FromBot("ENTITY_DELETE", Colours({e}))>>)
    BY DEF TouchOther
<1>2. UNCHANGED <<world, rgb, used, started, listening, joined, concierge, shapes, ghosts, early, missed>>
    BY DEF TouchOther, bot, history
<1>3. WorldTyped'
    BY <1>1, <1>2 DEF WorldTyped
<1> DEFINE m == FromBot("ENTITY_DELETE", Colours({e}))
<1>4. m \in Telling /\ m.type = "ENTITY_DELETE" /\ DOMAIN m.ids = {e}
    BY DeletionMade
<1>5. Handled("TOUCH_ENTITY", <<m>>)
    BY <1>1, <1>2 DEF TouchOther, Handled
<1> HIDE DEF m
<1> QED
    BY <1>1, <1>2, <1>3, <1>4, <1>5

LEMMA ToggleColorDoes ==
    ASSUME WorldTyped, MailTyped, ToggleColor
    PROVE  \E e \in DOMAIN world, m \in Telling :
            /\ WorldTyped' /\ UNCHANGED <<world, doomed, pairs, used, started, listening>>
            /\ rgb'[e] = m.ids[e] /\ \A x \in DOMAIN world \ {e} : rgb'[x] = rgb[x]
            /\ m.type = "COLOR_UPDATE" /\ DOMAIN m.ids = {e}
            /\ Handled("TOGGLE_COLOR", <<m>>)
<1>1. PICK e \in DOMAIN world :
        /\ rgb' = [rgb EXCEPT ![e] = Toggled(@)]
        /\ down' = Broadcast(<<FromBot("COLOR_UPDATE", Only(e, Toggled(rgb[e])))>>)
    BY DEF ToggleColor
<1>2. UNCHANGED <<world, doomed, pairs, used, started, listening, joined, concierge, shapes, ghosts, early, missed>>
    BY DEF ToggleColor, bot, history
<1> DEFINE c == Toggled(rgb[e])
           m == FromBot("COLOR_UPDATE", Only(e, c))
<1>3. c \in Rgb /\ e \in Entity
    BY DEF Toggled, Rgb, WorldTyped, IsMap
<1>4. m \in Telling /\ m.type = "COLOR_UPDATE" /\ DOMAIN m.ids = {e} /\ m.ids[e] = c
    <2>1. Only(e, c) \in Picture /\ DOMAIN Only(e, c) = {e} /\ Only(e, c)[e] = c
        BY <1>3, PictureOnly
    <2>2. m \in Telling /\ m.type = "COLOR_UPDATE" /\ m.ids = Only(e, c)
        BY <2>1, FromBotMade DEF ShownTypes
    <2> QED
        BY <2>1, <2>2
<1>5. Handled("TOGGLE_COLOR", <<m>>)
    BY <1>1, <1>2 DEF ToggleColor, Handled
<1> HIDE DEF m
<1>6. rgb' = [rgb EXCEPT ![e] = c]
    BY <1>1
<1> HIDE DEF c
<1>7. rgb' \in Picture /\ DOMAIN rgb' = DOMAIN rgb /\ rgb'[e] = c
      /\ \A x \in DOMAIN world \ {e} : rgb'[x] = rgb[x]
    BY <1>3, <1>6, PictureOf DEF WorldTyped
<1>8. WorldTyped'
    BY <1>2, <1>7 DEF WorldTyped
<1> QED
    BY <1>2, <1>4, <1>5, <1>7, <1>8

LEMMA ClientUnsubscribedDoes ==
    ASSUME WorldTyped, MailTyped, ClientUnsubscribed
    PROVE  \E m \in Telling :
            /\ WorldTyped' /\ Removed(OwnedBy(From)) /\ UNCHANGED <<pairs, started, listening>>
            /\ m.type = "ENTITY_DELETE" /\ DOMAIN m.ids = OwnedBy(From)
            /\ Handled("UNSUBSCRIBED", <<m>>)
<1>1. UNCHANGED <<pairs, used, started, listening, joined, concierge, shapes, ghosts, early, missed>>
    BY DEF ClientUnsubscribed, bot, history
<1>2. WorldTyped' /\ Removed(OwnedBy(From))
    BY <1>1, Erasure DEF ClientUnsubscribed
<1> DEFINE m == FromBot("ENTITY_DELETE", Colours(OwnedBy(From)))
<1>3. m \in Telling /\ m.type = "ENTITY_DELETE" /\ DOMAIN m.ids = OwnedBy(From)
    <2>1. OwnedBy(From) \in SUBSET DOMAIN world
        BY DEF OwnedBy
    <2> QED
        BY <2>1, DeletionMade
<1>4. Handled("UNSUBSCRIBED", <<m>>)
    BY <1>1 DEF ClientUnsubscribed, Handled
<1> HIDE DEF m
<1> QED
    BY <1>1, <1>2, <1>3, <1>4

LEMMA MaintainDoes ==
    ASSUME WorldTyped, Maintain
    PROVE  /\ WorldTyped' /\ Removed(doomed) /\ UNCHANGED <<pairs, started, listening>>
           /\ Lasting' = Lasting
<1>1. doomed' = doomed \ doomed /\ UNCHANGED <<pairs, used, started, listening>>
    BY DEF Maintain, bot
<1>2. WorldTyped' /\ Removed(doomed)
    BY <1>1, Erasure DEF Maintain
<1>3. Lasting' = Lasting
    BY <1>2 DEF Removed, Lasting
<1> QED
    BY <1>1, <1>2, <1>3

\* Whatever there was then, the initial entities are there from then on.
LEMMA StartDoes ==
    ASSUME WorldTyped, Start
    PROVE  /\ WorldTyped' /\ ~started /\ started' = TRUE /\ UNCHANGED listening
           /\ DOMAIN world' = DOMAIN world \cup Initial
           /\ \A e \in Initial : world'[e] = Nobody
           /\ \A e \in DOMAIN world \ Initial : world'[e] = world[e] /\ rgb'[e] = rgb[e]
           /\ doomed' = doomed
           /\ \A p \in pairs' : p[1] # p[2]
           /\ \A e, f \in Initial : e # f => (<<e, f>> \in pairs') # (<<f, e>> \in pairs')
<1>1. UNCHANGED <<doomed, used, listening>> /\ ~started /\ started' = TRUE
    BY DEF Start
<1>2. world' = [e \in DOMAIN world \cup Initial |-> IF e \in Initial THEN Nobody ELSE world[e]]
    BY DEF Start
<1>3. rgb' = [e \in DOMAIN world' |-> IF e \in Initial THEN "green" ELSE rgb[e]]
    BY DEF Start
<1>4. /\ IsMap(world', Entity, Owner) /\ DOMAIN world' = DOMAIN world \cup Initial
      /\ \A e \in Initial : world'[e] = Nobody
      /\ \A e \in DOMAIN world \ Initial : world'[e] = world[e]
    BY <1>2, InitialAssumption DEF WorldTyped, IsMap, Owner
<1>5. rgb' \in Picture /\ DOMAIN rgb' = DOMAIN world'
      /\ \A e \in DOMAIN world \ Initial : rgb'[e] = rgb[e]
    BY <1>3, <1>4, InitialAssumption, PictureOf DEF WorldTyped, IsMap, Rgb
<1>6. PICK order \in SetToSeqs(Initial) :
        pairs' = UNION {{<<order[i], order[j]>> : j \in i + 1 .. Len(order)} : i \in DOMAIN order}
    BY DEF Start
<1>7. /\ pairs' \subseteq Initial \X Initial
      /\ \A p \in pairs' : p[1] # p[2]
      /\ \A e, f \in Initial : e # f => (<<e, f>> \in pairs') # (<<f, e>> \in pairs')
    BY <1>6, InitialListed
<1>8. WorldTyped'
    BY <1>1, <1>4, <1>5, <1>7 DEF WorldTyped
<1> QED
    BY <1>1, <1>4, <1>5, <1>7, <1>8

LEMMA FetchDoes ==
    ASSUME WorldTyped, MailTyped, FetchEntities
    PROVE  \E m \in Telling :
            /\ Hear("FETCH_ENTITIES")
            /\ m.type = "ENTITY_DUMP" /\ m.ids = rgb
            /\ down' = IF From \in gone THEN down ELSE [down EXCEPT ![From] = Append(@, m)]
            /\ ghosts' = [ghosts EXCEPT ![From] = doomed]
            /\ early' = IF started THEN early \ {From} ELSE early \cup {From}
            /\ UNCHANGED <<ecs, started, listening, concierge, shapes, missed>>
<1>1. FromBot("ENTITY_DUMP", rgb) \in Telling /\ FromBot("ENTITY_DUMP", rgb).type = "ENTITY_DUMP"
      /\ FromBot("ENTITY_DUMP", rgb).ids = rgb
    BY FromBotMade DEF WorldTyped, ShownTypes
<1> QED
    BY <1>1 DEF FetchEntities, bot

-----------------------------------------------------------------------------
(* What is on its way                                                      *)

\* Messages to the bot are queued.
LEMMA Sent ==
    ASSUME MailTyped, NEW msgs \in Seq(Report), ToBot(msgs)
    PROVE  /\ inbox \in Seq(Report) /\ inbox' \in Seq(Report)
           /\ Len(inbox) \in Nat /\ Len(msgs) \in Nat
           /\ Len(inbox') = Len(inbox) + Len(msgs)
           /\ \A i \in 1 .. Len(inbox) : inbox'[i] = inbox[i]
           /\ \A i \in 1 .. Len(msgs) : inbox'[Len(inbox) + i] = msgs[i]
<1>1. inbox \in Seq(Report)
    BY DEF MailTyped
<1>2. inbox' = inbox \o msgs
    BY DEF ToBot
<1>3. Len(inbox) \in Nat /\ Len(msgs) \in Nat
    BY <1>1, LenProperties
<1> QED
    BY <1>1, <1>2, <1>3, ConcatProperties

\* What a player sends: for itself while it is there, and that it leaves.
Announces(msgs) ==
    /\ msgs \in Seq(Report) /\ ToBot(msgs)
    /\ \A u \in subscribers \cup missed :
        \/ u \in subscribers' \cup missed'
        \/ \E i \in 1 .. Len(msgs) : msgs[i].type = "UNSUBSCRIBED" /\ msgs[i].from = u
    /\ \A i \in 1 .. Len(msgs) :
        msgs[i].type = "UNSUBSCRIBED" \/ msgs[i].from \in subscribers' \cup missed'

LEMMA SendsNothing ==
    ASSUME MailTyped, UNCHANGED <<inbox, missed>>, subscribers \subseteq subscribers'
    PROVE  Announces(<<>>)
<1>1. inbox \o <<>> = inbox /\ <<>> \in Seq(Report)
    BY ConcatEmptySeq DEF MailTyped
<1> QED
    BY <1>1 DEF Announces, ToBot

LEMMA SubscriberSends ==
    ASSUME MailTyped, NEW v \in Viewer, UNCHANGED <<subscribers, missed>>, NEW msgs \in Seq(Report),
           \A i \in 1 .. Len(msgs) : msgs[i].from = v, SendToService(v, msgs)
    PROVE  \E sent \in Seq(Report) : Announces(sent)
<1>1. CASE v \in subscribers
    BY <1>1 DEF Announces, SendToService
<1>2. CASE v \notin subscribers
    <2>1. UNCHANGED inbox
        BY <1>2, ConcatEmptySeq DEF MailTyped, SendToService, ToBot
    <2> QED
        BY <2>1, SendsNothing DEF Announces
<1> QED
    BY <1>1, <1>2

LEMMA LeaverSends ==
    ASSUME MailTyped, NEW v \in Viewer, subscribers' = subscribers \ {v}, Unsubscribed(v)
    PROVE  \E sent \in Seq(Report) : Announces(sent)
<1>1. CASE joined
    <2> DEFINE m == FromViewer("UNSUBSCRIBED", v, {})
    <2>1. m \in Report /\ m.type = "UNSUBSCRIBED" /\ m.from = v
        BY FromViewerMade
    <2> HIDE DEF m
    <2>2. <<m>> \in Seq(Report) /\ Len(<<m>>) = 1 /\ <<m>>[1] = m
        BY <2>1
    <2>3. ToBot(<<m>>) /\ missed' = missed \ {v}
        BY <1>1 DEF Unsubscribed, m
    <2>4. Announces(<<m>>)
        BY <2>1, <2>2, <2>3 DEF Announces
    <2> QED
        BY <2>2, <2>4
<1>2. CASE ~joined
    <2>1. ToBot(<<>>) /\ missed' = missed \cup {v}
        BY <1>2 DEF Unsubscribed
    <2>2. Announces(<<>>)
        BY <2>1 DEF Announces
    <2> QED
        BY <2>2 DEF Announces
<1> QED
    BY <1>1, <1>2

\* Whatever a player does, the world stays as it is.
LEMMA PlayerDoes ==
    ASSUME MailTyped, NEW v \in Viewer, Player(v)
    PROVE  /\ Untouched /\ UNCHANGED <<ghosts, early>>
           /\ \E sent \in Seq(Report) : Announces(sent)
           /\ subscribers' \subseteq Viewer /\ gone' \subseteq Viewer /\ subscribers' \cap gone' = {}
<1>1. CASE Subscribe(v)
    BY <1>1, SendsNothing DEF Subscribe, MailTyped, Untouched, bot, history, Announces
<1>2. CASE Unsubscribe(v)
    BY <1>2, LeaverSends DEF Unsubscribe, MailTyped, Untouched, bot
<1>3. CASE Disconnect(v)
    BY <1>3, LeaverSends DEF Disconnect, MailTyped, Untouched, bot
<1>4. CASE OnSubscribe(v)
    <2> DEFINE msgs == <<FromViewer("FETCH_ENTITIES", v, {}), FromViewer("SPAWN_ENTITY", v, {})>>
    <2>1. msgs \in Seq(Report) /\ \A i \in 1 .. Len(msgs) : msgs[i].from = v
        BY FromViewerMade
    <2> HIDE DEF msgs
    <2>2. SendToService(v, msgs) /\ UNCHANGED <<subscribers, missed>>
        BY <1>4 DEF OnSubscribe, msgs, concierge, history
    <2>3. \E sent \in Seq(Report) : Announces(sent)
        BY <2>1, <2>2, SubscriberSends
    <2> QED
        BY <1>4, <2>3 DEF OnSubscribe, MailTyped, Untouched, bot, history, concierge
<1>5. CASE OnServiceMessage(v)
    BY <1>5, SendsNothing DEF OnServiceMessage, MailTyped, Untouched, bot, history, concierge, Announces
<1>6. CASE Respawn(v)
    <2> DEFINE msgs == <<FromViewer("SPAWN_ENTITY", v, {})>>
    <2>1. msgs \in Seq(Report) /\ \A i \in 1 .. Len(msgs) : msgs[i].from = v
        BY FromViewerMade
    <2> HIDE DEF msgs
    <2>2. SendToService(v, msgs) /\ UNCHANGED <<subscribers, missed>>
        BY <1>6 DEF Respawn, msgs, concierge, history
    <2>3. \E sent \in Seq(Report) : Announces(sent)
        BY <2>1, <2>2, SubscriberSends
    <2> QED
        BY <1>6, <2>3 DEF Respawn, MailTyped, Untouched, bot, history, concierge
<1>7. ASSUME NEW e \in Entity, Click(v, e) \/ Toggle(v, e)
      PROVE  /\ Untouched /\ UNCHANGED <<ghosts, early>>
             /\ \E sent \in Seq(Report) : Announces(sent)
             /\ subscribers' \subseteq Viewer /\ gone' \subseteq Viewer /\ subscribers' \cap gone' = {}
    <2>1. PICK type \in {"TOUCH_ENTITY", "TOGGLE_COLOR"} : SendToService(v, <<FromViewer(type, v, {e})>>)
        BY <1>7 DEF Click, Toggle
    <2> DEFINE msgs == <<FromViewer(type, v, {e})>>
    <2>2. msgs \in Seq(Report) /\ \A i \in 1 .. Len(msgs) : msgs[i].from = v
        BY FromViewerMade
    <2> HIDE DEF msgs
    <2>3. UNCHANGED <<subscribers, missed, gone, early, ghosts>> /\ Untouched
        BY <1>7 DEF Click, Toggle, Untouched, bot, history, concierge
    <2>4. \E sent \in Seq(Report) : Announces(sent)
        BY <2>1, <2>2, <2>3, SubscriberSends DEF msgs
    <2> QED
        BY <2>3, <2>4 DEF MailTyped
<1> QED
    BY <1>1, <1>2, <1>3, <1>4, <1>5, <1>6, <1>7 DEF Player

\* A viewer takes in what is first on its way to it.
LEMMA TakenIn ==
    ASSUME MailTyped, NEW v \in Viewer, NEW type, Take(v, type)
    PROVE  /\ down[v] \in Seq(Telling) /\ down[v] # <<>> /\ Head(down[v]).type = type
           /\ down' = [down EXCEPT ![v] = Tail(down[v])]
           /\ Head(down[v]) \in Telling /\ Tail(down[v]) \in Seq(Telling)
<1>1. down[v] \in Seq(Telling) /\ down[v] # <<>> /\ Head(down[v]).type = type
      /\ down' = [down EXCEPT ![v] = Tail(down[v])]
    BY DEF MailTyped, Take, Arrived
<1> QED
    BY <1>1, HeadTailProperties

LEMMA ShownIsApplied ==
    ASSUME MailTyped, NEW v \in Viewer, NEW type \in ShownTypes, Take(v, type)
    PROVE  Shown(v) = Applied(Head(down[v]), shapes[v])
BY TakenIn DEF Shown, Applied, Arrived, Ids, ShownTypes

\* What the concierge adds for one viewer.
LEMMA NoteQueued ==
    ASSUME MailTyped, NEW v \in Viewer, NEW type \in {"SUBSCRIBED", "UNSUBSCRIBED"},
           down' = [down EXCEPT ![v] = Append(@, FromBot(type, EmptyMap))]
    PROVE  \E m \in Telling : m.type = type /\ down' = [down EXCEPT ![v] = Append(down[v], m)]
<1>1. FromBot(type, EmptyMap) \in Telling /\ FromBot(type, EmptyMap).type = type
    BY FromBotMade, PictureEmpty DEF ShownTypes
<1> QED
    BY <1>1

\* What a player does to the messages on their way to itself, and to what it shows.
PlayerSees(v) ==
    \/ \E m \in Telling :
        /\ m.type = "SUBSCRIBED" /\ down' = [down EXCEPT ![v] = Append(down[v], m)]
        /\ UNCHANGED <<shapes, inbox>> /\ subscribers' = subscribers \cup {v}
    \/ \E m \in Telling :
        /\ down' = [down EXCEPT ![v] = Append(down[v], m)]
        /\ UNCHANGED shapes /\ subscribers' = subscribers \ {v}
    \/ /\ down' = [down EXCEPT ![v] = <<>>] /\ shapes' = [shapes EXCEPT ![v] = EmptyMap]
       /\ subscribers' = subscribers \ {v}
    \/ /\ Take(v, "SUBSCRIBED") /\ UNCHANGED <<shapes, subscribers>>
       /\ SendToService(v, <<FromViewer("FETCH_ENTITIES", v, {}), FromViewer("SPAWN_ENTITY", v, {})>>)
    \/ \E type \in ShownTypes :
        /\ Take(v, type) /\ UNCHANGED <<inbox, subscribers>>
        /\ shapes' = [shapes EXCEPT ![v] = Applied(Head(down[v]), shapes[v])]
    \/ UNCHANGED <<down, shapes, subscribers>>

LEMMA PlayerLooks ==
    ASSUME MailTyped, NEW v \in Viewer, Player(v)
    PROVE  PlayerSees(v)
<1>1. CASE Subscribe(v)
    BY <1>1, NoteQueued DEF Subscribe, PlayerSees
<1>2. CASE Unsubscribe(v)
    BY <1>2, NoteQueued DEF Unsubscribe, PlayerSees
<1>3. CASE Disconnect(v)
    BY <1>3 DEF Disconnect, PlayerSees
<1>4. CASE OnSubscribe(v)
    BY <1>4 DEF OnSubscribe, PlayerSees, concierge
<1>5. CASE OnServiceMessage(v)
    BY <1>5, ShownIsApplied DEF OnServiceMessage, PlayerSees, concierge
<1>6. CASE Respawn(v)
    BY <1>6 DEF Respawn, PlayerSees, concierge
<1>7. CASE \E e \in Entity : Click(v, e) \/ Toggle(v, e)
    BY <1>7 DEF Click, Toggle, PlayerSees, concierge
<1> QED
    BY <1>1, <1>2, <1>3, <1>4, <1>5, <1>6, <1>7 DEF Player

LEMMA PlayerTyped ==
    ASSUME MailTyped, NEW v \in Viewer, Player(v)
    PROVE  MailTyped'
<1>1. ghosts' = ghosts /\ inbox' \in Seq(Report)
      /\ subscribers' \subseteq Viewer /\ gone' \subseteq Viewer /\ subscribers' \cap gone' = {}
    BY PlayerDoes, Sent DEF Announces
<1>2. down[v] \in Seq(Telling) /\ shapes[v] \in Picture
    BY DEF MailTyped
<1>3. \E q \in Seq(Telling) : down' = [down EXCEPT ![v] = q]
    <2>1. \A m \in Telling : Append(down[v], m) \in Seq(Telling)
        BY <1>2, AppendProperties
    <2>2. \A type : Take(v, type) =>
            Tail(down[v]) \in Seq(Telling) /\ down' = [down EXCEPT ![v] = Tail(down[v])]
        BY TakenIn
    <2>3. UNCHANGED down => down' = [down EXCEPT ![v] = down[v]]
        BY DEF MailTyped
    <2> QED
        BY <1>2, <2>1, <2>2, <2>3, PlayerLooks, EmptySeq DEF PlayerSees
<1>4. \E p \in Picture : shapes' = [shapes EXCEPT ![v] = p]
    <2>1. \A type : Take(v, type) => Applied(Head(down[v]), shapes[v]) \in Picture
        BY <1>2, TakenIn, AppliedPicture
    <2>2. UNCHANGED shapes => shapes' = [shapes EXCEPT ![v] = shapes[v]]
        BY DEF MailTyped
    <2> QED
        BY <1>2, <2>1, <2>2, PlayerLooks, PictureEmpty DEF PlayerSees
<1> QED
    BY <1>1, <1>3, <1>4 DEF MailTyped

LEMMA HandledTyped ==
    ASSUME MailTyped, NEW type, NEW msgs, Handled(type, msgs),
           \/ \E m \in Telling : msgs = <<m>>
           \/ \E m, n \in Telling : msgs = <<m, n>>
    PROVE  MailTyped'
<1>1. down' \in [Viewer -> Seq(Telling)]
    BY Broadcasted, BroadcastedTwo DEF Handled
<1>2. inbox' \in Seq(Report)
    BY Heard DEF Handled
<1> QED
    BY <1>1, <1>2 DEF MailTyped, Handled, concierge

-----------------------------------------------------------------------------
(* The pairs                                                               *)

\* A new entity is in no list before, and is bound to each that was there.
LEMMA ReplacedListed ==
    ASSUME WorldTyped, Listed, started, NEW es, NEW e, NEW v, NEW c, Replaced(es, e, v, c),
           pairs' = pairs \cup Bind(e), UNCHANGED <<started, listening>>
    PROVE  Listed'
<1>1. e \notin used /\ DOMAIN world \subseteq used /\ pairs \subseteq used \X used
    BY DEF Replaced, WorldTyped
<1>2. Lasting' = (Lasting \ es) \cup {e} /\ Lasting \subseteq DOMAIN world
    BY DEF Replaced, Lasting
<1>3. \A p \in pairs' : p[1] # p[2]
    BY <1>1 DEF Listed, Bind
<1>4. ASSUME listening, NEW x \in Lasting', NEW y \in Lasting', x # y
      PROVE  (<<x, y>> \in pairs') # (<<y, x>> \in pairs')
    <2>1. CASE x # e /\ y # e
        <3>1. x \in Lasting /\ y \in Lasting
            BY <1>2, <2>1
        <3>2. (<<x, y>> \in pairs) # (<<y, x>> \in pairs)
            BY <1>4, <3>1 DEF Listed
        <3>3. <<x, y>> \notin Bind(e) /\ <<y, x>> \notin Bind(e)
            BY <2>1 DEF Bind
        <3> QED
            BY <3>2, <3>3
    <2>2. CASE x = e
        BY <1>1, <1>2, <1>4, <2>2 DEF Bind
    <2>3. CASE y = e
        BY <1>1, <1>2, <1>4, <2>3 DEF Bind
    <2> QED
        BY <2>1, <2>2, <2>3
<1> QED
    BY <1>3, <1>4 DEF Listed

LEMMA FewerListed ==
    ASSUME Listed, Lasting' \subseteq Lasting, UNCHANGED <<started, listening>>,
           pairs' \subseteq pairs,
           \A x, y \in Lasting' : <<x, y>> \in pairs => <<x, y>> \in pairs'
    PROVE  Listed'
<1>1. \A p \in pairs' : p[1] # p[2]
    BY DEF Listed
<1>2. \A x, y \in Lasting' : <<x, y>> \in pairs <=> <<x, y>> \in pairs'
    OBVIOUS
<1> QED
    BY <1>1, <1>2 DEF Listed

LEMMA WorldInvInit == GameInit => WorldInv
<1> SUFFICES ASSUME GameInit PROVE WorldInv
    OBVIOUS
<1>1. IsMap(world, Entity, Owner) /\ DOMAIN world = {} /\ rgb \in Picture /\ DOMAIN rgb = {}
    BY PictureEmpty DEF GameInit, IsMap, EmptyMap
<1>2. WorldTyped
    BY <1>1, InitialAssumption DEF GameInit, WorldTyped
<1>3. MailTyped
    BY PictureEmpty, EmptySeq DEF GameInit, MailTyped
<1>4. Unstarted /\ Listed
    BY <1>1 DEF GameInit, Unstarted, Listed
<1> QED
    BY <1>2, <1>3, <1>4 DEF WorldInv

LEMMA UntouchedKeeps ==
    ASSUME WorldTyped, Unstarted, Listed, Untouched
    PROVE  /\ WorldTyped' /\ Listed' /\ Lasting' = Lasting
           /\ UNCHANGED ghosts => Unstarted'
<1>1. UNCHANGED <<world, rgb, doomed, pairs, used, started, listening>>
    BY DEF Untouched, ecs
<1>2. WorldTyped'
    BY <1>1 DEF WorldTyped
<1>3. Lasting' = Lasting
    BY <1>1 DEF Lasting
<1>4. Listed'
    BY <1>1, <1>3 DEF Listed
<1>5. UNCHANGED ghosts => Unstarted'
    BY <1>1 DEF Unstarted
<1> QED
    BY <1>2, <1>3, <1>4, <1>5

LEMMA HandleMessageLists ==
    ASSUME WorldInv, HandleMessage
    PROVE  WorldInv'
<1> USE DEF WorldInv
<1>1. CASE SpawnEntity
    <2>1. PICK e \in Entity, m \in Telling, n \in Telling :
            /\ WorldTyped' /\ Replaced(OwnedBy(From), e, From, From)
            /\ started /\ UNCHANGED <<started, listening>>
            /\ pairs' = pairs \cup Bind(e)
            /\ Handled("SPAWN_ENTITY", <<m, n>>)
        BY <1>1, SpawnDoes
    <2>2. MailTyped'
        BY <2>1, HandledTyped
    <2>3. Listed'
        BY <2>1, ReplacedListed
    <2> QED
        BY <2>1, <2>2, <2>3 DEF Unstarted
<1>2. CASE SpawnTooEarly
    <2>1. PICK m \in Telling :
            /\ WorldTyped' /\ ~started /\ ~started' /\ ~listening' /\ pairs' = pairs
            /\ Handled("SPAWN_ENTITY", <<m>>)
        BY <1>2, SpawnTooEarlyDoes
    <2>2. MailTyped'
        BY <2>1, HandledTyped
    <2> QED
        BY <2>1, <2>2 DEF Unstarted, Listed
<1>3. CASE FetchEntities
    <2>1. PICK m \in Telling :
            /\ Hear("FETCH_ENTITIES")
            /\ down' = IF From \in gone THEN down ELSE [down EXCEPT ![From] = Append(@, m)]
            /\ ghosts' = [ghosts EXCEPT ![From] = doomed]
            /\ UNCHANGED <<ecs, started, listening, concierge, shapes>>
        BY <1>3, FetchDoes
    <2>2. WorldTyped' /\ Listed'
        BY <2>1, UntouchedKeeps DEF Untouched
    <2>3. From \in Viewer /\ inbox' \in Seq(Report)
        BY <2>1, Heard
    <2>4. down' \in [Viewer -> Seq(Telling)]
        BY <2>1, <2>3, AppendProperties DEF MailTyped
    <2>5. ghosts' \in [Viewer -> SUBSET Entity]
        BY <2>1, <2>3 DEF MailTyped, WorldTyped, IsMap
    <2>6. MailTyped'
        BY <2>1, <2>3, <2>4, <2>5 DEF MailTyped, concierge
    <2>7. Unstarted'
        BY <2>1, <2>3 DEF Unstarted, MailTyped, WorldTyped, ecs
    <2> QED
        BY <2>2, <2>6, <2>7
<1>4. CASE TouchOther
    <2>1. PICK e \in DOMAIN world, m \in Telling :
            /\ WorldTyped' /\ UNCHANGED <<world, rgb, used, started, listening>>
            /\ doomed' = doomed \cup {e}
            /\ pairs' = {p \in pairs : p[1] # e /\ p[2] # e}
            /\ Handled("TOUCH_ENTITY", <<m>>)
        BY <1>4, TouchOtherDoes
    <2>2. MailTyped'
        BY <2>1, HandledTyped
    <2>3. Lasting' = Lasting \ {e}
        BY <2>1 DEF Lasting
    <2>4. Listed'
        BY <2>1, <2>3, FewerListed
    <2> QED
        BY <2>1, <2>2, <2>4 DEF Unstarted, Handled
<1>5. CASE TouchOwn
    <2>1. PICK e \in Entity, c \in Rgb, n \in Telling :
            /\ WorldTyped' /\ Replaced({}, e, From, c) /\ UNCHANGED <<started, listening>>
            /\ DOMAIN world # {} /\ pairs' = pairs \cup Bind(e)
            /\ Handled("TOUCH_ENTITY", <<n>>)
        BY <1>5, TouchOwnDoes
    <2>2. MailTyped'
        BY <2>1, HandledTyped
    <2>3. started
        BY <2>1 DEF Unstarted, Handled, Hear
    <2>4. Listed'
        BY <2>1, <2>3, ReplacedListed
    <2> QED
        BY <2>1, <2>2, <2>3, <2>4 DEF Unstarted
<1>6. CASE TouchNothing
    <2>1. Untouched /\ UNCHANGED <<ghosts, subscribers, gone, down, shapes>>
        BY <1>6 DEF TouchNothing, Untouched, bot, concierge, history
    <2>2. inbox' \in Seq(Report)
        BY <1>6, Heard DEF TouchNothing
    <2>3. MailTyped'
        BY <2>1, <2>2 DEF MailTyped
    <2> QED
        BY <2>1, <2>3, UntouchedKeeps
<1>7. CASE ToggleColor
    <2>1. PICK e \in DOMAIN world, m \in Telling :
            /\ WorldTyped' /\ UNCHANGED <<world, doomed, pairs, used, started, listening>>
            /\ Handled("TOGGLE_COLOR", <<m>>)
        BY <1>7, ToggleColorDoes
    <2>2. MailTyped'
        BY <2>1, HandledTyped
    <2>3. Listed'
        BY <2>1 DEF Listed, Lasting
    <2> QED
        BY <2>1, <2>2, <2>3 DEF Unstarted, Handled
<1>8. CASE ClientUnsubscribed
    <2>1. PICK m \in Telling :
            /\ WorldTyped' /\ Removed(OwnedBy(From)) /\ UNCHANGED <<pairs, started, listening>>
            /\ Handled("UNSUBSCRIBED", <<m>>)
        BY <1>8, ClientUnsubscribedDoes
    <2>2. MailTyped'
        BY <2>1, HandledTyped
    <2>3. Lasting' \subseteq Lasting /\ DOMAIN world' \subseteq DOMAIN world
        BY <2>1 DEF Removed
    <2>4. Listed'
        BY <2>1, <2>3, FewerListed
    <2> QED
        BY <2>1, <2>2, <2>3, <2>4 DEF Unstarted, Handled
<1> QED
    BY <1>1, <1>2, <1>3, <1>4, <1>5, <1>6, <1>7, <1>8 DEF HandleMessage

LEMMA WorldInvStep == WorldInv /\ [GameNext]_gameVars => WorldInv'
<1> SUFFICES ASSUME WorldInv, [GameNext]_gameVars PROVE WorldInv'
    OBVIOUS
<1> USE DEF WorldInv
<1>1. CASE \E v \in Viewer : Player(v)
    BY <1>1, PlayerDoes, PlayerTyped, UntouchedKeeps
<1>2. CASE HandleMessage
    BY <1>2, HandleMessageLists
<1>3. CASE BotSubscribes
    <2>1. Untouched /\ UNCHANGED ghosts /\ MailTyped'
        BY <1>3 DEF BotSubscribes, Untouched, MailTyped, concierge, history
    <2> QED
        BY <2>1, UntouchedKeeps
<1>4. CASE Start
    <2>1. MailTyped'
        BY <1>4 DEF Start, MailTyped, concierge, history
    <2>2. listening => Lasting' = Initial
        BY <1>4, StartDoes DEF Unstarted, Lasting, WorldTyped
    <2>3. Listed'
        BY <1>4, <2>2, StartDoes DEF Listed
    <2>4. WorldTyped' /\ Unstarted'
        BY <1>4, StartDoes DEF Unstarted
    <2> QED
        BY <2>1, <2>3, <2>4
<1>5. CASE Maintain
    <2>1. MailTyped'
        BY <1>5 DEF Maintain, MailTyped, concierge, history
    <2>2. WorldTyped' /\ UNCHANGED <<pairs, started, listening>> /\ Lasting' = Lasting /\ started
        BY <1>5, MaintainDoes DEF Maintain
    <2>3. Listed'
        BY <2>2, FewerListed
    <2> QED
        BY <2>1, <2>2, <2>3 DEF Unstarted
<1>6. CASE UNCHANGED gameVars
    <2>1. Untouched /\ UNCHANGED ghosts /\ MailTyped'
        BY <1>6 DEF gameVars, Untouched, MailTyped, concierge, history, bot
    <2> QED
        BY <2>1, UntouchedKeeps
<1> QED
    BY <1>1, <1>2, <1>3, <1>4, <1>5, <1>6 DEF GameNext

\* The types of the game's state, what there is before the start, and the pairs
\* hold in every state, for any players and any entities.
THEOREM WorldInvariance == GameSpec => []WorldInv
BY WorldInvInit, WorldInvStep, PTL DEF GameSpec

\* The collider and gravity systems act on every two entities that stay exactly
\* once and never on one and itself, however spawns, touches, departures, the
\* start and maintain() overlap.
THEOREM EachPairOnce == GameSpec => []PairedOnce
<1>1. WorldInv => PairedOnce
    <2> SUFFICES ASSUME WorldInv PROVE PairedOnce
        OBVIOUS
    <2>1. listening /\ ~started => Lasting = {}
        BY DEF WorldInv, Unstarted, Lasting
    <2>2. ASSUME listening, NEW e \in DOMAIN world \ doomed, NEW f \in DOMAIN world \ doomed, e # f
          PROVE  (<<e, f>> \in Acting) # (<<f, e>> \in Acting)
        <3>1. started /\ e \in Lasting /\ f \in Lasting
            BY <2>1, <2>2 DEF Lasting, WorldInv, WorldTyped
        <3>2. (<<e, f>> \in pairs) # (<<f, e>> \in pairs)
            BY <2>2, <3>1 DEF WorldInv, Listed
        <3>3. (<<e, f>> \in Acting <=> <<e, f>> \in pairs) /\ (<<f, e>> \in Acting <=> <<f, e>> \in pairs)
            BY DEF Acting
        <3> QED
            BY <3>2, <3>3
    <2> QED
        BY <2>2 DEF PairedOnce, WorldInv, Listed
<1> QED
    BY <1>1, WorldInvariance, PTL

-----------------------------------------------------------------------------
(* The owners                                                              *)

\* A player speaks while it is there, and leaves once its last word is queued.
LEMMA OwnersAnnounced ==
    ASSUME MailTyped, OwnersInv, NEW msgs \in Seq(Report), Announces(msgs), UNCHANGED <<world, listening>>
    PROVE  OwnersInv'
<1> DEFINE n == Len(inbox)
           k == Len(msgs)
<1>1. /\ n \in Nat /\ k \in Nat /\ Len(inbox') = n + k
      /\ \A i \in 1 .. n : inbox'[i] = inbox[i]
      /\ \A i \in 1 .. k : inbox'[n + i] = msgs[i]
    BY Sent DEF Announces
<1>2. \A u \in subscribers \cup missed :
        u \in subscribers' \cup missed' \/ \E i \in 1 .. k : msgs[i].type = "UNSUBSCRIBED" /\ msgs[i].from = u
    BY DEF Announces
<1>3. \A i \in 1 .. k : msgs[i].type = "UNSUBSCRIBED" \/ msgs[i].from \in subscribers' \cup missed'
    BY DEF Announces
<1> HIDE DEF n, k
<1>4. \A i \in 1 .. n : i \in 1 .. n + k
    BY <1>1
<1>5. \A i \in 1 .. k : n + i \in 1 .. n + k
    BY <1>1
<1>6. ASSUME NEW u \in subscribers \cup missed, NEW i \in 0 .. n
      PROVE  u \in subscribers' \cup missed' \/ \E j \in i + 1 .. n + k : LeavesAt(inbox', u, j)
    <2>1. CASE u \in subscribers' \cup missed'
        BY <2>1
    <2>2. ASSUME NEW j \in 1 .. k, msgs[j].type = "UNSUBSCRIBED", msgs[j].from = u
          PROVE  \E l \in i + 1 .. n + k : LeavesAt(inbox', u, l)
        <3>1. n + j \in i + 1 .. n + k
            BY <1>1
        <3>2. LeavesAt(inbox', u, n + j)
            BY <1>1, <2>2 DEF LeavesAt
        <3> QED
            BY <3>1, <3>2
    <2> QED
        BY <1>2, <2>1, <2>2
<1>7. Owned'
    <2> SUFFICES ASSUME listening', NEW e \in DOMAIN world'
                 PROVE  \/ world'[e] \in {Nobody} \cup subscribers' \cup missed'
                        \/ \E i \in 1 .. n + k : LeavesAt(inbox', world'[e], i)
        BY <1>1 DEF Owned, n
    <2>1. \/ world[e] \in {Nobody} \cup subscribers \cup missed
          \/ \E i \in 1 .. n : LeavesAt(inbox, world[e], i)
        BY DEF OwnersInv, Owned, n
    <2>2. CASE \E i \in 1 .. n : LeavesAt(inbox, world[e], i)
        BY <1>1, <1>4, <2>2 DEF LeavesAt
    <2>3. CASE world[e] \in subscribers \cup missed
        <3>1. 0 \in 0 .. n /\ 0 + 1 = 1
            BY <1>1
        <3> QED
            BY <1>6, <2>3, <3>1
    <2> QED
        BY <2>1, <2>2, <2>3
<1>8. Asked'
    <2> SUFFICES ASSUME NEW i \in 1 .. n + k
                 PROVE  \/ inbox'[i].type = "UNSUBSCRIBED"
                        \/ inbox'[i].from \in subscribers' \cup missed'
                        \/ \E j \in i + 1 .. n + k : LeavesAt(inbox', inbox'[i].from, j)
        BY <1>1 DEF Asked, n
    <2>1. CASE i \in 1 .. n
        <3>1. inbox'[i] = inbox[i] /\ i \in 0 .. n
            BY <1>1, <2>1
        <3>2. \/ inbox[i].type = "UNSUBSCRIBED"
              \/ inbox[i].from \in subscribers \cup missed
              \/ \E j \in i + 1 .. n : LeavesAt(inbox, inbox[i].from, j)
            BY <2>1 DEF OwnersInv, Asked, n
        <3>3. CASE \E j \in i + 1 .. n : LeavesAt(inbox, inbox[i].from, j)
            <4>1. PICK j \in i + 1 .. n : LeavesAt(inbox, inbox[i].from, j)
                BY <3>3
            <4>2. j \in 1 .. n /\ j \in i + 1 .. n + k
                BY <1>1, <2>1
            <4>3. LeavesAt(inbox', inbox'[i].from, j)
                BY <1>1, <3>1, <4>1, <4>2 DEF LeavesAt
            <4> QED
                BY <4>2, <4>3
        <3>4. CASE inbox[i].from \in subscribers \cup missed
            BY <1>6, <3>1, <3>4
        <3> QED
            BY <3>1, <3>2, <3>3, <3>4
    <2>2. CASE i \notin 1 .. n
        <3>1. i - n \in 1 .. k /\ inbox'[i] = msgs[i - n]
            <4>1. i - n \in 1 .. k /\ n + (i - n) = i
                BY <1>1, <2>2
            <4> QED
                BY <1>1, <4>1
        <3> QED
            BY <1>3, <3>1
    <2> QED
        BY <2>1, <2>2
<1> QED
    BY <1>7, <1>8 DEF OwnersInv

\* What the bot handles gives nothing to anybody who has left for good.
LEMMA OwnersHandled ==
    ASSUME MailTyped, OwnersInv, NEW type, Hear(type), UNCHANGED <<subscribers, missed>>,
           listening' => \A e \in DOMAIN world' :
                \/ type # "UNSUBSCRIBED" /\ world'[e] = From
                \/ /\ e \in DOMAIN world /\ world'[e] = world[e]
                   /\ type = "UNSUBSCRIBED" => world[e] # From
    PROVE  OwnersInv'
<1> DEFINE n == Len(inbox)
<1>1. /\ n \in Nat \ {0} /\ Len(inbox') = n - 1
      /\ \A i \in 1 .. n - 1 : inbox'[i] = inbox[i + 1]
      /\ inbox[1].type = type /\ inbox[1].from = From /\ listening
    BY Taken DEF MailTyped, Hear, From
<1> HIDE DEF n
<1>2. ASSUME NEW u, NEW i \in 1 .. n, NEW j \in i + 1 .. n, LeavesAt(inbox, u, j)
      PROVE  j - 1 \in i .. n - 1 /\ LeavesAt(inbox', u, j - 1)
    <2>1. j - 1 \in 1 .. n - 1 /\ (j - 1) + 1 = j /\ j - 1 \in i .. n - 1
        BY <1>1
    <2>2. inbox'[j - 1] = inbox[j]
        BY <1>1, <2>1
    <2> QED
        BY <1>2, <2>1, <2>2 DEF LeavesAt
<1>3. Owned'
    <2> SUFFICES ASSUME listening', NEW e \in DOMAIN world'
                 PROVE  \/ world'[e] \in {Nobody} \cup subscribers \cup missed
                        \/ \E i \in 1 .. n - 1 : LeavesAt(inbox', world'[e], i)
        BY <1>1 DEF Owned
    <2>0. 1 \in 1 .. n
        BY <1>1
    <2>1. CASE type # "UNSUBSCRIBED" /\ world'[e] = From
        <3>1. From \in subscribers \cup missed \/ \E j \in 1 + 1 .. n : LeavesAt(inbox, From, j)
            BY <1>1, <2>0, <2>1 DEF OwnersInv, Asked, n
        <3>2. CASE \E j \in 1 + 1 .. n : LeavesAt(inbox, From, j)
            <4>1. \E i \in 1 .. n - 1 : LeavesAt(inbox', From, i)
                BY <1>2, <2>0, <3>2
            <4> QED
                BY <2>1, <4>1 DEF LeavesAt
        <3> QED
            BY <2>1, <3>1, <3>2
    <2>2. CASE e \in DOMAIN world /\ world'[e] = world[e] /\ (type = "UNSUBSCRIBED" => world[e] # From)
        <3>1. \/ world[e] \in {Nobody} \cup subscribers \cup missed
              \/ \E i \in 1 .. n : LeavesAt(inbox, world[e], i)
            BY <1>1, <2>2 DEF OwnersInv, Owned, n
        <3>2. ASSUME NEW i \in 1 .. n, LeavesAt(inbox, world[e], i)
              PROVE  i \in 1 + 1 .. n
            <4>1. i # 1
                BY <1>1, <2>2, <3>2 DEF LeavesAt
            <4> QED
                BY <1>1, <4>1
        <3>3. CASE \E i \in 1 .. n : LeavesAt(inbox, world[e], i)
            <4>1. PICK i \in 1 + 1 .. n : LeavesAt(inbox, world[e], i)
                BY <3>2, <3>3
            <4>2. i - 1 \in 1 .. n - 1 /\ LeavesAt(inbox', world'[e], i - 1)
                <5>1. i - 1 \in 1 .. n - 1 /\ (i - 1) + 1 = i
                    BY <1>1
                <5>2. inbox'[i - 1] = inbox[i]
                    BY <1>1, <5>1
                <5> QED
                    BY <2>2, <4>1, <5>1, <5>2 DEF LeavesAt
            <4> QED
                BY <4>2
        <3> QED
            BY <2>2, <3>1, <3>3
    <2> QED
        BY <2>1, <2>2
<1>4. Asked'
    <2> SUFFICES ASSUME NEW i \in 1 .. n - 1
                 PROVE  \/ inbox'[i].type = "UNSUBSCRIBED"
                        \/ inbox'[i].from \in subscribers \cup missed
                        \/ \E j \in i + 1 .. n - 1 : LeavesAt(inbox', inbox'[i].from, j)
        BY <1>1 DEF Asked
    <2>1. i + 1 \in 1 .. n /\ inbox'[i] = inbox[i + 1]
        BY <1>1
    <2>2. \/ inbox[i + 1].type = "UNSUBSCRIBED"
          \/ inbox[i + 1].from \in subscribers \cup missed
          \/ \E j \in (i + 1) + 1 .. n : LeavesAt(inbox, inbox[i + 1].from, j)
        BY <2>1 DEF OwnersInv, Asked, n
    <2>3. ASSUME NEW j \in (i + 1) + 1 .. n, LeavesAt(inbox, inbox[i + 1].from, j)
          PROVE  j - 1 \in i + 1 .. n - 1 /\ LeavesAt(inbox', inbox'[i].from, j - 1)
        <3>1. j - 1 \in 1 .. n - 1 /\ (j - 1) + 1 = j /\ j - 1 \in i + 1 .. n - 1
            BY <1>1
        <3>2. inbox'[j - 1] = inbox[j]
            BY <1>1, <3>1
        <3> QED
            BY <2>1, <2>3, <3>1, <3>2 DEF LeavesAt
    <2> QED
        BY <2>1, <2>2, <2>3
<1> QED
    BY <1>3, <1>4 DEF OwnersInv

LEMMA OwnersKept ==
    ASSUME OwnersInv, UNCHANGED <<inbox, subscribers, missed, listening>>,
           \A e \in DOMAIN world' :
                \/ world'[e] = Nobody
                \/ e \in DOMAIN world /\ world'[e] = world[e]
    PROVE  OwnersInv'
<1>1. Asked'
    BY DEF OwnersInv, Asked, LeavesAt
<1>2. Owned'
    <2> SUFFICES ASSUME listening', NEW e \in DOMAIN world', world'[e] # Nobody
                 PROVE  \/ world'[e] \in subscribers' \cup missed'
                        \/ \E i \in 1 .. Len(inbox') : LeavesAt(inbox', world'[e], i)
        BY DEF Owned
    <2>1. e \in DOMAIN world /\ world'[e] = world[e]
        OBVIOUS
    <2> QED
        BY <2>1 DEF OwnersInv, Owned, LeavesAt
<1> QED
    BY <1>1, <1>2 DEF OwnersInv

LEMMA OwnersInit == GameInit => OwnersInv
BY EmptySeq, PictureEmpty DEF GameInit, OwnersInv, Owned, Asked

LEMMA HandleMessageOwners ==
    ASSUME WorldInv, OwnersInv, HandleMessage
    PROVE  OwnersInv'
<1> USE DEF WorldInv
<1>1. CASE SpawnEntity
    <2>1. PICK e \in Entity, m \in Telling, n \in Telling :
            /\ Replaced(OwnedBy(From), e, From, From) /\ Handled("SPAWN_ENTITY", <<m, n>>)
        BY <1>1, SpawnDoes
    <2> QED
        BY <2>1, OwnersHandled DEF Replaced, Handled, concierge
<1>2. CASE SpawnTooEarly
    <2>1. ~listening' /\ Hear("SPAWN_ENTITY") /\ UNCHANGED <<subscribers, missed>>
        BY <1>2 DEF SpawnTooEarly, concierge, history
    <2> QED
        BY <2>1, OwnersHandled
<1>3. CASE FetchEntities
    <2>1. UNCHANGED <<world, subscribers, missed>> /\ Hear("FETCH_ENTITIES")
        BY <1>3 DEF FetchEntities, ecs, concierge, history
    <2> QED
        BY <2>1, OwnersHandled
<1>4. CASE TouchOther
    <2>1. UNCHANGED <<world, subscribers, missed>> /\ Hear("TOUCH_ENTITY")
        BY <1>4 DEF TouchOther, ecs, concierge, history
    <2> QED
        BY <2>1, OwnersHandled
<1>5. CASE TouchOwn
    <2>1. PICK e \in Entity, c \in Rgb, n \in Telling :
            Replaced({}, e, From, c) /\ Handled("TOUCH_ENTITY", <<n>>)
        BY <1>5, TouchOwnDoes
    <2> QED
        BY <2>1, OwnersHandled DEF Replaced, Handled, concierge
<1>6. CASE TouchNothing
    <2>1. UNCHANGED <<world, subscribers, missed>>
        BY <1>6 DEF TouchNothing, ecs, concierge, history
    <2>2. Hear("TOUCH_ENTITY") \/ Hear("TOGGLE_COLOR")
        BY <1>6 DEF TouchNothing
    <2> QED
        BY <2>1, <2>2, OwnersHandled
<1>7. CASE ToggleColor
    <2>1. UNCHANGED <<world, subscribers, missed>> /\ Hear("TOGGLE_COLOR")
        BY <1>7 DEF ToggleColor, ecs, concierge, history
    <2> QED
        BY <2>1, OwnersHandled
<1>8. CASE ClientUnsubscribed
    <2>1. PICK m \in Telling : Removed(OwnedBy(From)) /\ Handled("UNSUBSCRIBED", <<m>>)
        BY <1>8, ClientUnsubscribedDoes
    <2>2. \A e \in DOMAIN world' :
            e \in DOMAIN world /\ world'[e] = world[e] /\ world[e] # From
        BY <2>1 DEF Removed, OwnedBy
    <2> QED
        BY <2>1, <2>2, OwnersHandled DEF Handled, concierge
<1> QED
    BY <1>1, <1>2, <1>3, <1>4, <1>5, <1>6, <1>7, <1>8 DEF HandleMessage

LEMMA OwnersStep == WorldInv /\ OwnersInv /\ [GameNext]_gameVars => OwnersInv'
<1> SUFFICES ASSUME WorldInv, OwnersInv, [GameNext]_gameVars PROVE OwnersInv'
    OBVIOUS
<1> USE DEF WorldInv
<1>1. CASE \E v \in Viewer : Player(v)
    <2>1. Untouched /\ \E sent \in Seq(Report) : Announces(sent)
        BY <1>1, PlayerDoes
    <2> QED
        BY <2>1, OwnersAnnounced DEF Untouched, ecs
<1>2. CASE HandleMessage
    BY <1>2, HandleMessageOwners
<1>3. CASE BotSubscribes
    BY <1>3, OwnersKept DEF BotSubscribes, ecs, concierge, history
<1>4. CASE Start
    BY <1>4, StartDoes, OwnersKept DEF Start, concierge, history
<1>5. CASE Maintain
    BY <1>5, MaintainDoes, OwnersKept DEF Maintain, Removed, concierge, history, bot
<1>6. CASE UNCHANGED gameVars
    BY <1>6, OwnersKept DEF gameVars, ecs, bot, concierge, history
<1> QED
    BY <1>1, <1>2, <1>3, <1>4, <1>5, <1>6 DEF GameNext

\* Whoever leaves takes all its entities along, also those that it has asked for
\* just before: its departure is queued behind what it sent.  The exception are
\* those who left before the bot had subscribed to its own service.
THEOREM NobodyStays == GameSpec => []NoStrays
<1>1. WorldInv /\ OwnersInv => NoStrays
    BY EmptySeq DEF OwnersInv, Owned, NoStrays
<1> QED
    BY <1>1, WorldInvariance, OwnersInit, OwnersStep, PTL DEF GameSpec

-----------------------------------------------------------------------------
(* What the viewers will show                                              *)

LEMMA GreetedKept ==
    ASSUME NEW q \in Seq(Telling)
    PROVE  /\ \A m \in Telling : Greeted(q) \/ m.type = "SUBSCRIBED" => Greeted(Append(q, m))
           /\ q # <<>> /\ Greeted(q) /\ Head(q).type # "SUBSCRIBED" => Greeted(Tail(q))
<1>1. ASSUME NEW m \in Telling, Greeted(q) \/ m.type = "SUBSCRIBED"
      PROVE  Greeted(Append(q, m))
    <2>1. /\ Len(q) \in Nat /\ Len(Append(q, m)) = Len(q) + 1
          /\ \A i \in 1 .. Len(q) : Append(q, m)[i] = q[i]
          /\ Append(q, m)[Len(q) + 1] = m
        BY Appended
    <2> QED
        BY <1>1, <2>1 DEF Greeted
<1>2. ASSUME q # <<>>, Greeted(q), Head(q).type # "SUBSCRIBED"
      PROVE  Greeted(Tail(q))
    <2>1. /\ Head(q) = q[1] /\ Len(q) \in Nat \ {0} /\ Len(Tail(q)) = Len(q) - 1
          /\ \A i \in 1 .. Len(q) - 1 : Tail(q)[i] = q[i + 1]
        BY <1>2, Taken
    <2>2. PICK i \in 1 .. Len(q) : q[i].type = "SUBSCRIBED"
        BY <1>2 DEF Greeted
    <2>3. i # 1
        BY <1>2, <2>1, <2>2
    <2>4. i - 1 \in 1 .. Len(q) - 1 /\ (i - 1) + 1 = i
        BY <2>1, <2>3
    <2> QED
        BY <2>1, <2>2, <2>4 DEF Greeted
<1> QED
    BY <1>1, <1>2

LEMMA AsksKept ==
    ASSUME MailTyped, NEW u, Asks(inbox, u)
    PROVE  /\ \A msgs \in Seq(Report) : ToBot(msgs) => Asks(inbox', u)
           /\ \A type : Hear(type) /\ (type = "FETCH_ENTITIES" => From # u) => Asks(inbox', u)
<1>1. PICK i \in 1 .. Len(inbox) : inbox[i].type = "FETCH_ENTITIES" /\ inbox[i].from = u
    BY DEF Asks
<1>2. ASSUME NEW msgs \in Seq(Report), ToBot(msgs)
      PROVE  Asks(inbox', u)
    <2>1. /\ Len(inbox) \in Nat /\ Len(msgs) \in Nat /\ Len(inbox') = Len(inbox) + Len(msgs)
          /\ \A j \in 1 .. Len(inbox) : inbox'[j] = inbox[j]
        BY <1>2, Sent
    <2> QED
        BY <1>1, <2>1 DEF Asks
<1>3. ASSUME NEW type, Hear(type), type = "FETCH_ENTITIES" => From # u
      PROVE  Asks(inbox', u)
    <2>1. /\ Len(inbox) \in Nat \ {0} /\ Len(inbox') = Len(inbox) - 1
          /\ \A j \in 1 .. Len(inbox) - 1 : inbox'[j] = inbox[j + 1]
          /\ inbox[1].type = type /\ inbox[1].from = From
        BY <1>3, Taken DEF MailTyped, Hear, From
    <2>2. i # 1
        BY <1>1, <1>3, <2>1
    <2>3. i - 1 \in 1 .. Len(inbox) - 1 /\ (i - 1) + 1 = i
        BY <2>1, <2>2
    <2>4. inbox'[i - 1] = inbox[i]
        BY <2>1, <2>3
    <2> QED
        BY <1>1, <2>1, <2>3, <2>4 DEF Asks
<1> QED
    BY <1>2, <1>3

LEMMA AppliedDeletion ==
    ASSUME NEW m \in Telling, m.type = "ENTITY_DELETE", NEW p \in Picture
    PROVE  /\ Applied(m, p) \in Picture /\ DOMAIN Applied(m, p) = DOMAIN p \ DOMAIN m.ids
           /\ \A x \in DOMAIN p \ DOMAIN m.ids : Applied(m, p)[x] = p[x]
<1>1. Applied(m, p) = Without(p, DOMAIN m.ids)
    BY DEF Applied
<1> DEFINE es == DOMAIN m.ids
<1>2. /\ Without(p, es) \in Picture /\ DOMAIN Without(p, es) = DOMAIN p \ es
      /\ \A x \in DOMAIN p \ es : Without(p, es)[x] = p[x]
    BY PictureWithout
<1> QED
    BY <1>1, <1>2, Zenon

LEMMA AppliedArrival ==
    ASSUME NEW m \in Telling, m.type = "ENTITY_NEW", NEW p \in Picture
    PROVE  /\ Applied(m, p) \in Picture /\ DOMAIN Applied(m, p) = DOMAIN m.ids \cup DOMAIN p
           /\ \A x \in DOMAIN m.ids : Applied(m, p)[x] = m.ids[x]
           /\ \A x \in DOMAIN p \ DOMAIN m.ids : Applied(m, p)[x] = p[x]
<1>1. m.ids \in Picture
    BY DEF Telling
<1>2. /\ Added(m.ids, p) \in Picture /\ DOMAIN Added(m.ids, p) = DOMAIN m.ids \cup DOMAIN p
      /\ \A x \in DOMAIN m.ids : Added(m.ids, p)[x] = m.ids[x]
      /\ \A x \in DOMAIN p \ DOMAIN m.ids : Added(m.ids, p)[x] = p[x]
    BY <1>1, PictureAdded
<1>3. Applied(m, p) = Added(m.ids, p)
    BY DEF Applied
<1> QED
    BY <1>2, <1>3, Zenon

LEMMA ArrivalShown ==
    ASSUME NEW m \in Telling, m.type = "ENTITY_NEW", NEW p \in Picture, NEW e, DOMAIN m.ids = {e},
           NEW q, q = Applied(m, p)
    PROVE  DOMAIN q = {e} \cup DOMAIN p /\ q[e] = m.ids[e] /\ \A x \in DOMAIN p \ {e} : q[x] = p[x]
<1>1. /\ DOMAIN q = DOMAIN m.ids \cup DOMAIN p
      /\ \A x \in DOMAIN m.ids : q[x] = m.ids[x]
      /\ \A x \in DOMAIN p \ DOMAIN m.ids : q[x] = p[x]
    BY AppliedArrival
<1> QED
    BY <1>1

LEMMA AppliedColour ==
    ASSUME NEW m \in Telling, m.type = "COLOR_UPDATE", NEW p \in Picture
    PROVE  /\ Applied(m, p) \in Picture /\ DOMAIN Applied(m, p) = DOMAIN p
           /\ \A x \in DOMAIN p \cap DOMAIN m.ids : Applied(m, p)[x] = m.ids[x]
           /\ \A x \in DOMAIN p \ DOMAIN m.ids : Applied(m, p)[x] = p[x]
<1>1. m.ids \in Picture
    BY DEF Telling
<1> DEFINE r == Added(m.ids, p)
<1>2. Applied(m, p) = Restrict(r, DOMAIN p)
    BY DEF Applied
<1>3. /\ r \in Picture /\ DOMAIN p \in SUBSET DOMAIN r
      /\ \A x \in DOMAIN m.ids : r[x] = m.ids[x]
      /\ \A x \in DOMAIN p \ DOMAIN m.ids : r[x] = p[x]
    BY <1>1, PictureAdded
<1> HIDE DEF r
<1>4. /\ Restrict(r, DOMAIN p) \in Picture /\ DOMAIN Restrict(r, DOMAIN p) = DOMAIN p
      /\ \A x \in DOMAIN p : Restrict(r, DOMAIN p)[x] = r[x]
    BY <1>3, PictureRestricted
<1> QED
    BY <1>2, <1>3, <1>4

LEMMA AppliedDump ==
    ASSUME NEW m \in Telling, m.type = "ENTITY_DUMP", NEW p
    PROVE  Applied(m, p) = m.ids
BY DEF Applied

\* A picture of the world stays one if the world stays.
LEMMA MirrorsKept ==
    ASSUME NEW u, NEW p, Mirrors(u, p), UNCHANGED <<world, rgb, doomed, ghosts, early, started>>
    PROVE  Mirrors(u, p)'
BY DEF Mirrors, Lasting

\* Whoever gets nothing and loses nothing that it waits for is told the same.
LEMMA ToldKept ==
    ASSUME NEW u, NEW final, Told(u, final),
           down'[u] = down[u], shapes'[u] = shapes[u],
           listening' /\ u \in subscribers' /\ ~Asks(inbox', u) =>
                listening /\ u \in subscribers /\ ~Asks(inbox, u),
           Mirrors(u, final) => Mirrors(u, final)'
    PROVE  Told(u, final)'
BY DEF Told, Awaiting

LEMMA PlayerTold ==
    ASSUME WorldInv, ToldInv, NEW v \in Viewer, Player(v)
    PROVE  ToldInv'
<1> USE DEF WorldInv
<1>1. UNCHANGED <<world, rgb, doomed, started, listening, ghosts, early>>
    BY PlayerDoes DEF Untouched, ecs
<1>2. ASSUME NEW u, Asks(inbox, u)
      PROVE  Asks(inbox', u)
    BY <1>2, PlayerDoes, AsksKept DEF Announces
<1> SUFFICES ASSUME NEW u \in Viewer PROVE \E final \in Picture : Told(u, final)'
    BY DEF ToldInv
<1>3. PICK final \in Picture : Told(u, final)
    BY DEF ToldInv
<1>4. Mirrors(u, final) => Mirrors(u, final)'
    BY <1>1, MirrorsKept
<1>5. PlayerSees(v)
    BY PlayerLooks
<1>6. down \in [Viewer -> Seq(Telling)] /\ shapes \in [Viewer -> Picture] /\ down[u] \in Seq(Telling)
    BY DEF MailTyped
<1>7. CASE u # v
    <2>1. down'[u] = down[u] /\ shapes'[u] = shapes[u] /\ (u \in subscribers' => u \in subscribers)
        BY <1>5, <1>6, <1>7 DEF PlayerSees, Take
    <2> QED
        BY <1>1, <1>2, <1>3, <1>4, <2>1, ToldKept
<1>8. CASE u = v
    <2>1. CASE \E m \in Telling :
                /\ m.type = "SUBSCRIBED" /\ down' = [down EXCEPT ![v] = Append(down[v], m)]
                /\ UNCHANGED <<shapes, inbox>> /\ subscribers' = subscribers \cup {v}
        <3>1. PICK m \in Telling :
                /\ m.type = "SUBSCRIBED" /\ down' = [down EXCEPT ![v] = Append(down[v], m)]
                /\ UNCHANGED <<shapes, inbox>>
            BY <2>1
        <3>2. down'[u] = Append(down[u], m) /\ shapes'[u] = shapes[u]
            BY <1>6, <1>8, <3>1
        <3>3. LeadsTo(Append(down[u], m), shapes[u], Applied(m, final)) /\ Applied(m, final) \in Picture
            BY <1>3, <1>6, LeadsOn, AppliedPicture DEF Told
        <3>4. Greeted(Append(down[u], m))
            BY <1>6, <3>1, GreetedKept
        <3> QED
            BY <3>2, <3>3, <3>4 DEF Told, Awaiting
    <2>2. CASE \E m \in Telling :
                /\ down' = [down EXCEPT ![v] = Append(down[v], m)]
                /\ UNCHANGED shapes /\ subscribers' = subscribers \ {v}
        <3>1. PICK m \in Telling :
                /\ down' = [down EXCEPT ![v] = Append(down[v], m)]
                /\ UNCHANGED shapes /\ subscribers' = subscribers \ {v}
            BY <2>2
        <3>2. down'[u] = Append(down[u], m) /\ shapes'[u] = shapes[u] /\ u \notin subscribers'
            BY <1>6, <1>8, <3>1
        <3>3. LeadsTo(Append(down[u], m), shapes[u], Applied(m, final)) /\ Applied(m, final) \in Picture
            BY <1>3, <1>6, LeadsOn, AppliedPicture DEF Told
        <3> QED
            BY <3>2, <3>3 DEF Told
    <2>3. CASE /\ down' = [down EXCEPT ![v] = <<>>] /\ shapes' = [shapes EXCEPT ![v] = EmptyMap]
               /\ subscribers' = subscribers \ {v}
        <3>1. down'[u] = <<>> /\ shapes'[u] = EmptyMap /\ u \notin subscribers'
            BY <1>6, <1>8, <2>3
        <3>2. LeadsTo(<<>>, EmptyMap, EmptyMap) /\ EmptyMap \in Picture
            BY LeadsNowhere, PictureEmpty
        <3> QED
            BY <3>1, <3>2 DEF Told
    <2>4. CASE /\ Take(v, "SUBSCRIBED") /\ UNCHANGED <<shapes, subscribers>>
               /\ SendToService(v, <<FromViewer("FETCH_ENTITIES", v, {}), FromViewer("SPAWN_ENTITY", v, {})>>)
        <3>1. /\ down'[u] = Tail(down[u]) /\ shapes'[u] = shapes[u] /\ down[u] # <<>>
              /\ Head(down[u]).type = "SUBSCRIBED"
            BY <1>6, <1>8, <2>4, TakenIn
        <3>2. Applied(Head(down[u]), shapes[u]) = shapes[u]
            BY <3>1 DEF Applied
        <3>3. LeadsTo(Tail(down[u]), shapes[u], final)
            BY <1>3, <1>6, <3>1, <3>2, LeadsFrom DEF Told
        <3>4. u \in subscribers' => Asks(inbox', u)
            <4> DEFINE msgs == <<FromViewer("FETCH_ENTITIES", v, {}), FromViewer("SPAWN_ENTITY", v, {})>>
            <4>1. msgs \in Seq(Report) /\ Len(msgs) = 2 /\ msgs[1].type = "FETCH_ENTITIES" /\ msgs[1].from = v
                BY FromViewerMade
            <4>2. SendToService(v, msgs) /\ UNCHANGED subscribers
                BY <2>4
            <4> HIDE DEF msgs
            <4>3. SUFFICES ASSUME u \in subscribers PROVE Asks(inbox', u)
                BY <4>2
            <4>4. ToBot(msgs)
                BY <1>8, <4>2, <4>3 DEF SendToService
            <4>7. 1 \in 1 .. Len(msgs)
                BY <4>1
            <4>5. /\ Len(inbox) \in Nat /\ Len(inbox') = Len(inbox) + 2
                  /\ inbox'[Len(inbox) + 1] = msgs[1]
                <5>1. /\ Len(inbox) \in Nat /\ Len(inbox') = Len(inbox) + Len(msgs)
                      /\ \A i \in 1 .. Len(msgs) : inbox'[Len(inbox) + i] = msgs[i]
                    BY <4>1, <4>4, Sent
                <5> QED
                    BY <4>1, <4>7, <5>1
            <4>6. Len(inbox) + 1 \in 1 .. Len(inbox')
                BY <4>5
            <4> QED
                BY <1>8, <4>1, <4>5, <4>6 DEF Asks
        <3> QED
            BY <3>1, <3>3, <3>4 DEF Told, Awaiting
    <2>5. CASE \E type \in ShownTypes :
                /\ Take(v, type) /\ UNCHANGED <<inbox, subscribers>>
                /\ shapes' = [shapes EXCEPT ![v] = Applied(Head(down[v]), shapes[v])]
        <3>1. PICK type \in ShownTypes :
                /\ Take(v, type) /\ UNCHANGED <<inbox, subscribers>>
                /\ shapes' = [shapes EXCEPT ![v] = Applied(Head(down[v]), shapes[v])]
            BY <2>5
        <3>2. /\ down'[u] = Tail(down[u]) /\ shapes'[u] = Applied(Head(down[u]), shapes[u])
              /\ down[u] # <<>> /\ Head(down[u]).type # "SUBSCRIBED"
            BY <1>6, <1>8, <3>1, TakenIn DEF ShownTypes
        <3>3. LeadsTo(Tail(down[u]), Applied(Head(down[u]), shapes[u]), final)
            BY <1>3, <1>6, <3>2, LeadsFrom DEF Told
        <3>4. Greeted(down[u]) => Greeted(Tail(down[u]))
            BY <1>6, <3>2, GreetedKept
        <3>5. Awaiting(u) => Awaiting(u)'
            BY <1>2, <3>2, <3>4 DEF Awaiting
        <3> QED
            BY <1>1, <1>3, <1>4, <3>1, <3>2, <3>3, <3>5 DEF Told
    <2>6. CASE UNCHANGED <<down, shapes, subscribers>>
        BY <1>1, <1>2, <1>3, <1>4, <2>6, ToldKept
    <2> QED
        BY <1>5, <2>1, <2>2, <2>3, <2>4, <2>5, <2>6 DEF PlayerSees
<1> QED
    BY <1>7, <1>8

\* What is broadcast makes pictures of the new world of those of the old one.
LEMMA BroadcastTold ==
    ASSUME MailTyped, ToldInv, NEW type, type # "FETCH_ENTITIES", NEW m \in Telling, Handled(type, <<m>>),
           \A u \in Viewer : \A p, q \in Picture :
                listening' /\ Mirrors(u, p) /\ q = Applied(m, p) => Mirrors(u, q)'
    PROVE  ToldInv'
<1> SUFFICES ASSUME NEW u \in Viewer PROVE \E final \in Picture : Told(u, final)'
    BY DEF ToldInv
<1>1. PICK final \in Picture : Told(u, final)
    BY DEF ToldInv
<1>2. listening /\ subscribers' = subscribers /\ shapes' = shapes
    BY DEF Handled, Hear, concierge
<1>3. Asks(inbox, u) => Asks(inbox', u)
    BY AsksKept DEF Handled
<1>4. down[u] \in Seq(Telling) /\ down'[u] = IF u \in subscribers THEN Append(down[u], m) ELSE down[u]
    BY Broadcasted DEF Handled, MailTyped
<1>5. CASE u \in subscribers
    <2>1. PICK q \in Picture : q = Applied(m, final)
        BY AppliedPicture
    <2>2. LeadsTo(down'[u], shapes'[u], q)
        BY <1>1, <1>2, <1>4, <1>5, <2>1, LeadsOn DEF Told
    <2>3. Awaiting(u) => Awaiting(u)'
        BY <1>3, <1>4, <1>5, GreetedKept DEF Awaiting
    <2>4. listening' /\ ~Awaiting(u)' => Mirrors(u, q)'
        BY <1>1, <1>2, <1>5, <2>1, <2>3 DEF Told
    <2> QED
        BY <2>2, <2>4 DEF Told
<1>6. CASE u \notin subscribers
    BY <1>1, <1>2, <1>4, <1>6 DEF Told
<1> QED
    BY <1>5, <1>6

LEMMA BroadcastTwoTold ==
    ASSUME MailTyped, ToldInv, NEW type, type # "FETCH_ENTITIES", NEW m \in Telling, NEW n \in Telling,
           Handled(type, <<m, n>>),
           \A u \in Viewer : \A p, q, r \in Picture :
                listening' /\ Mirrors(u, p) /\ q = Applied(m, p) /\ r = Applied(n, q) => Mirrors(u, r)'
    PROVE  ToldInv'
<1> SUFFICES ASSUME NEW u \in Viewer PROVE \E final \in Picture : Told(u, final)'
    BY DEF ToldInv
<1>1. PICK final \in Picture : Told(u, final)
    BY DEF ToldInv
<1>2. listening /\ subscribers' = subscribers /\ shapes' = shapes
    BY DEF Handled, Hear, concierge
<1>3. Asks(inbox, u) => Asks(inbox', u)
    BY AsksKept DEF Handled
<1>4. /\ down[u] \in Seq(Telling)
      /\ down'[u] = IF u \in subscribers THEN Append(Append(down[u], m), n) ELSE down[u]
    BY BroadcastedTwo DEF Handled, MailTyped
<1>5. CASE u \in subscribers
    <2>0. Append(down[u], m) \in Seq(Telling)
        BY <1>4, AppendProperties
    <2>1. PICK q \in Picture : q = Applied(m, final)
        BY AppliedPicture
    <2>2. PICK r \in Picture : r = Applied(n, q)
        BY AppliedPicture
    <2>3. LeadsTo(Append(down[u], m), shapes[u], q)
        BY <1>1, <1>4, <2>1, LeadsOn DEF Told
    <2>4. LeadsTo(down'[u], shapes'[u], r)
        BY <1>2, <1>4, <1>5, <2>0, <2>2, <2>3, LeadsOn
    <2>5. Awaiting(u) => Awaiting(u)'
        BY <1>3, <1>4, <1>5, <2>0, GreetedKept DEF Awaiting
    <2>6. listening' /\ ~Awaiting(u)' => Mirrors(u, r)'
        BY <1>1, <1>2, <1>5, <2>1, <2>2, <2>5 DEF Told
    <2> QED
        BY <2>4, <2>6 DEF Told
<1>6. CASE u \notin subscribers
    BY <1>1, <1>2, <1>4, <1>6 DEF Told
<1> QED
    BY <1>5, <1>6

\* A dump is a picture of the world, but for the entities that are on their way out.
LEMMA FetchTold ==
    ASSUME WorldInv, ToldInv, FetchEntities
    PROVE  ToldInv'
<1> USE DEF WorldInv
<1>1. PICK m \in Telling :
        /\ Hear("FETCH_ENTITIES")
        /\ m.type = "ENTITY_DUMP" /\ m.ids = rgb
        /\ down' = IF From \in gone THEN down ELSE [down EXCEPT ![From] = Append(@, m)]
        /\ ghosts' = [ghosts EXCEPT ![From] = doomed]
        /\ early' = IF started THEN early \ {From} ELSE early \cup {From}
        /\ UNCHANGED <<ecs, started, listening, concierge, shapes, missed>>
    BY FetchDoes
<1>2. UNCHANGED <<world, rgb, doomed, started, listening, subscribers, shapes>>
    BY <1>1 DEF ecs, concierge
<1>3. From \in Viewer
    BY <1>1, Heard
<1> SUFFICES ASSUME NEW u \in Viewer PROVE \E final \in Picture : Told(u, final)'
    BY DEF ToldInv
<1>4. PICK final \in Picture : Told(u, final)
    BY DEF ToldInv
<1>5. down[u] \in Seq(Telling) /\ down \in [Viewer -> Seq(Telling)] /\ ghosts \in [Viewer -> SUBSET Entity]
    BY DEF MailTyped
<1>6. CASE u # From
    <2>1. down'[u] = down[u] /\ ghosts'[u] = ghosts[u] /\ (u \in early' <=> u \in early)
        BY <1>1, <1>3, <1>5, <1>6
    <2>2. Asks(inbox, u) => Asks(inbox', u)
        BY <1>1, <1>6, AsksKept
    <2>3. Mirrors(u, final) => Mirrors(u, final)'
        BY <1>2, <2>1 DEF Mirrors, Lasting
    <2> QED
        BY <1>2, <1>4, <2>1, <2>2, <2>3, ToldKept
<1>7. CASE u = From /\ From \in gone
    <2>1. u \notin subscribers'
        BY <1>2, <1>7 DEF MailTyped
    <2> QED
        BY <1>1, <1>2, <1>4, <1>7, <2>1 DEF Told
<1>8. CASE u = From /\ From \notin gone
    <2>1. down'[u] = Append(down[u], m) /\ ghosts'[u] = doomed
        BY <1>1, <1>3, <1>5, <1>8
    <2>2. Applied(m, final) = rgb /\ rgb \in Picture /\ DOMAIN rgb = DOMAIN world
        BY <1>1, AppliedDump DEF WorldTyped
    <2>3. LeadsTo(down'[u], shapes'[u], rgb)
        BY <1>2, <1>4, <1>5, <2>1, <2>2, LeadsOn DEF Told
    <2>4. started \/ u \in early'
        BY <1>1, <1>8
    <2>5. ASSUME NEW q, q = rgb
          PROVE  Mirrors(u, q)'
        BY <1>2, <2>1, <2>2, <2>4, <2>5 DEF Mirrors, Lasting
    <2>6. PICK q \in Picture : q = rgb
        BY <2>2
    <2> QED
        BY <2>3, <2>5, <2>6 DEF Told
<1> QED
    BY <1>6, <1>7, <1>8

\* Picture q is p without the entities of es.
Fewer(p, q, es) == DOMAIN q = DOMAIN p \ es /\ \A x \in DOMAIN p \ es : q[x] = p[x]

\* And this one has e in colour c besides.
Swapped(p, q, es, e, c) ==
    /\ DOMAIN q = {e} \cup (DOMAIN p \ es)
    /\ q[e] = c
    /\ \A x \in (DOMAIN p \ es) \ {e} : q[x] = p[x]

LEMMA ReplacedMirrors ==
    ASSUME WorldTyped, NEW es, NEW e, NEW v, NEW c, Replaced(es, e, v, c),
           UNCHANGED <<ghosts, early, started>>
    PROVE  \A u, p, q : Mirrors(u, p) /\ Swapped(p, q, es, e, c) => Mirrors(u, q)'
<1> SUFFICES ASSUME NEW u, NEW p, NEW q, Mirrors(u, p), Swapped(p, q, es, e, c)
             PROVE  Mirrors(u, q)'
    OBVIOUS
<1>1. e \notin DOMAIN world
    BY DEF Replaced, WorldTyped
<1>2. DOMAIN world' = (DOMAIN world \ es) \cup {e} /\ Lasting' = (Lasting \ es) \cup {e}
    BY DEF Replaced
<1>3. DOMAIN q \subseteq Lasting' \cup ghosts'[u]
    BY <1>2 DEF Mirrors, Swapped
<1>4. Lasting' \ DOMAIN q \subseteq (IF u \in early' THEN Initial ELSE {})
    BY <1>2 DEF Mirrors, Swapped
<1>5. \A x \in DOMAIN q \cap DOMAIN world' : q[x] = rgb'[x]
    BY <1>1, <1>2 DEF Replaced, Mirrors, Swapped
<1>6. started' \/ u \in early'
    BY DEF Mirrors
<1> QED
    BY <1>3, <1>4, <1>5, <1>6 DEF Mirrors

LEMMA RemovedMirrors ==
    ASSUME NEW es, DOMAIN world' \subseteq DOMAIN world, Lasting' = Lasting \ es,
           \A x \in DOMAIN world' : rgb'[x] = rgb[x],
           UNCHANGED <<ghosts, early, started>>
    PROVE  \A u, p, q : Mirrors(u, p) /\ Fewer(p, q, es) => Mirrors(u, q)'
BY DEF Mirrors, Fewer

LEMMA HandleMessageTold ==
    ASSUME WorldInv, ToldInv, HandleMessage
    PROVE  ToldInv'
<1> USE DEF WorldInv
<1>1. CASE SpawnEntity
    <2>1. PICK es \in SUBSET DOMAIN world, e \in Entity, m \in Telling, n \in Telling :
            /\ Replaced(es, e, From, From)
            /\ started /\ UNCHANGED <<started, listening>>
            /\ m.type = "ENTITY_DELETE" /\ DOMAIN m.ids = es
            /\ n.type = "ENTITY_NEW" /\ DOMAIN n.ids = {e} /\ n.ids[e] = From
            /\ Handled("SPAWN_ENTITY", <<m, n>>)
        BY <1>1, SpawnDoes DEF OwnedBy
    <2>2. ASSUME NEW u \in Viewer, NEW p \in Picture, NEW q \in Picture, NEW r \in Picture,
                 Mirrors(u, p), q = Applied(m, p), r = Applied(n, q)
          PROVE  Mirrors(u, r)'
        <3>1. DOMAIN q = DOMAIN p \ es /\ \A x \in DOMAIN p \ es : q[x] = p[x]
            BY <2>1, <2>2, AppliedDeletion
        <3>2. DOMAIN r = {e} \cup DOMAIN q /\ r[e] = From /\ \A x \in DOMAIN q \ {e} : r[x] = q[x]
            BY <2>1, <2>2, ArrivalShown
        <3>3. Swapped(p, r, es, e, From)
            BY <3>1, <3>2 DEF Swapped
        <3>4. WorldTyped /\ UNCHANGED <<ghosts, early, started>> /\ Replaced(es, e, From, From)
            BY <2>1 DEF Handled
        <3> QED
            BY <2>2, <3>3, <3>4, ReplacedMirrors
    <2> QED
        BY <2>1, <2>2, BroadcastTwoTold
<1>2. CASE SpawnTooEarly
    <2>1. PICK m \in Telling : ~listening' /\ Handled("SPAWN_ENTITY", <<m>>)
        BY <1>2, SpawnTooEarlyDoes
    <2> QED
        BY <2>1, BroadcastTold
<1>3. CASE FetchEntities
    BY <1>3, FetchTold
<1>4. CASE TouchOther
    <2>1. PICK e \in DOMAIN world, m \in Telling :
            /\ UNCHANGED <<world, rgb, started>> /\ doomed' = doomed \cup {e}
            /\ m.type = "ENTITY_DELETE" /\ DOMAIN m.ids = {e}
            /\ Handled("TOUCH_ENTITY", <<m>>)
        BY <1>4, TouchOtherDoes
    <2>2. ASSUME NEW u \in Viewer, NEW p \in Picture, NEW q \in Picture, Mirrors(u, p), q = Applied(m, p)
          PROVE  Mirrors(u, q)'
        <3>1. Fewer(p, q, {e})
            BY <2>1, <2>2, AppliedDeletion DEF Fewer
        <3>2. Lasting' = Lasting \ {e}
            BY <2>1 DEF Lasting
        <3> QED
            BY <2>1, <2>2, <3>1, <3>2, RemovedMirrors DEF Handled
    <2> QED
        BY <2>1, <2>2, BroadcastTold
<1>5. CASE TouchOwn
    <2>1. PICK es \in {{}}, e \in Entity, c \in Rgb, n \in Telling :
            /\ Replaced(es, e, From, c) /\ UNCHANGED <<started, listening>>
            /\ n.type = "ENTITY_NEW" /\ DOMAIN n.ids = {e} /\ n.ids[e] = c
            /\ Handled("TOUCH_ENTITY", <<n>>)
        BY <1>5, TouchOwnDoes
    <2>2. ASSUME NEW u \in Viewer, NEW p \in Picture, NEW q \in Picture, Mirrors(u, p), q = Applied(n, p)
          PROVE  Mirrors(u, q)'
        <3>1. DOMAIN q = {e} \cup DOMAIN p /\ q[e] = c /\ \A x \in DOMAIN p \ {e} : q[x] = p[x]
            BY <2>1, <2>2, ArrivalShown
        <3>2. Swapped(p, q, es, e, c)
            BY <3>1 DEF Swapped
        <3>3. WorldTyped /\ UNCHANGED <<ghosts, early, started>> /\ Replaced(es, e, From, c)
            BY <2>1 DEF Handled
        <3> QED
            BY <2>2, <3>2, <3>3, ReplacedMirrors
    <2> QED
        BY <2>1, <2>2, BroadcastTold
<1>6. CASE TouchNothing
    <2>1. UNCHANGED <<world, rgb, doomed, started, listening, ghosts, early, subscribers, down, shapes>>
        BY <1>6 DEF TouchNothing, ecs, bot, concierge, history
    <2>2. \A u : Asks(inbox, u) => Asks(inbox', u)
        BY <1>6, AsksKept DEF TouchNothing
    <2>3. ASSUME NEW u \in Viewer PROVE \E final \in Picture : Told(u, final)'
        <3>1. PICK final \in Picture : Told(u, final)
            BY DEF ToldInv
        <3> QED
            BY <2>1, <2>2, <3>1, MirrorsKept, ToldKept
    <2> QED
        BY <2>3 DEF ToldInv
<1>7. CASE ToggleColor
    <2>1. PICK e \in DOMAIN world, m \in Telling :
            /\ UNCHANGED <<world, doomed, started, listening>>
            /\ rgb'[e] = m.ids[e] /\ \A x \in DOMAIN world \ {e} : rgb'[x] = rgb[x]
            /\ m.type = "COLOR_UPDATE" /\ DOMAIN m.ids = {e}
            /\ Handled("TOGGLE_COLOR", <<m>>)
        BY <1>7, ToggleColorDoes
    <2>2. ASSUME NEW u \in Viewer, NEW p \in Picture, NEW q \in Picture, Mirrors(u, p), q = Applied(m, p)
          PROVE  Mirrors(u, q)'
        <3>1. /\ DOMAIN q = DOMAIN p
              /\ \A x \in DOMAIN p \cap {e} : q[x] = m.ids[x]
              /\ \A x \in DOMAIN p \ {e} : q[x] = p[x]
            BY <2>1, <2>2, AppliedColour
        <3>2. \A x \in DOMAIN q \cap DOMAIN world' : q[x] = rgb'[x]
            BY <2>1, <2>2, <3>1 DEF Mirrors
        <3> QED
            BY <2>1, <2>2, <3>1, <3>2 DEF Mirrors, Lasting, Handled
    <2> QED
        BY <2>1, <2>2, BroadcastTold
<1>8. CASE ClientUnsubscribed
    <2>1. PICK es \in SUBSET DOMAIN world, m \in Telling :
            /\ Removed(es) /\ UNCHANGED <<pairs, started, listening>>
            /\ m.type = "ENTITY_DELETE" /\ DOMAIN m.ids = es
            /\ Handled("UNSUBSCRIBED", <<m>>)
        BY <1>8, ClientUnsubscribedDoes DEF OwnedBy
    <2>2. ASSUME NEW u \in Viewer, NEW p \in Picture, NEW q \in Picture, Mirrors(u, p), q = Applied(m, p)
          PROVE  Mirrors(u, q)'
        <3>1. Fewer(p, q, es)
            BY <2>1, <2>2, AppliedDeletion DEF Fewer
        <3>2. DOMAIN world' \subseteq DOMAIN world /\ Lasting' = Lasting \ es
              /\ \A x \in DOMAIN world' : rgb'[x] = rgb[x]
            BY <2>1 DEF Removed
        <3>3. UNCHANGED <<ghosts, early, started>>
            BY <2>1 DEF Handled
        <3> QED
            BY <2>2, <3>1, <3>2, <3>3, RemovedMirrors
    <2> QED
        BY <2>1, <2>2, BroadcastTold
<1> QED
    BY <1>1, <1>2, <1>3, <1>4, <1>5, <1>6, <1>7, <1>8 DEF HandleMessage

\* The system task tells nobody: what it brings is for those that ask later, what
\* it drops has been told before.
LEMMA SystemTold ==
    ASSUME WorldInv, ToldInv, Start \/ Maintain
    PROVE  ToldInv'
<1> USE DEF WorldInv
<1>1. UNCHANGED <<listening, subscribers, inbox, down, shapes, ghosts, early>>
    BY DEF Start, Maintain, bot, concierge, history
<1> SUFFICES ASSUME NEW u \in Viewer, NEW p \in Picture, listening, Mirrors(u, p) PROVE Mirrors(u, p)'
    BY <1>1 DEF ToldInv, Told, Awaiting
<1>2. CASE Start
    <2>1. /\ ~started /\ started' = TRUE
          /\ DOMAIN world' = DOMAIN world \cup Initial /\ doomed' = doomed
        BY <1>2, StartDoes
    <2>2. DOMAIN world = {} /\ ghosts[u] = {} /\ doomed = {}
        BY <2>1 DEF Unstarted, WorldTyped
    <2>3. DOMAIN p = {} /\ u \in early
        BY <2>1, <2>2 DEF Mirrors, Lasting
    <2>4. Lasting' = Initial
        BY <2>1, <2>2 DEF Lasting
    <2> QED
        BY <1>1, <2>1, <2>3, <2>4 DEF Mirrors
<1>3. CASE Maintain
    <2>1. Removed(doomed) /\ UNCHANGED started /\ Lasting' = Lasting
        BY <1>3, MaintainDoes
    <2> QED
        BY <1>1, <2>1 DEF Mirrors, Removed
<1> QED
    BY <1>2, <1>3

LEMMA ToldInit == GameInit => ToldInv
<1> SUFFICES ASSUME GameInit, NEW v \in Viewer PROVE \E final \in Picture : Told(v, final)
    BY DEF ToldInv
<1>1. down[v] = <<>> /\ shapes[v] = EmptyMap /\ v \notin subscribers
    BY DEF GameInit
<1>2. LeadsTo(<<>>, EmptyMap, EmptyMap) /\ EmptyMap \in Picture
    BY LeadsNowhere, PictureEmpty
<1> QED
    BY <1>1, <1>2 DEF Told

LEMMA ToldStep == WorldInv /\ ToldInv /\ [GameNext]_gameVars => ToldInv'
<1> SUFFICES ASSUME WorldInv, ToldInv, [GameNext]_gameVars PROVE ToldInv'
    OBVIOUS
<1>1. CASE \E v \in Viewer : Player(v)
    BY <1>1, PlayerTold
<1>2. CASE HandleMessage
    BY <1>2, HandleMessageTold
<1>3. CASE Start \/ Maintain
    BY <1>3, SystemTold
<1>4. CASE BotSubscribes \/ UNCHANGED gameVars
    <2>1. UNCHANGED <<world, rgb, doomed, started, listening, ghosts, early, subscribers, inbox, down, shapes>>
        BY <1>4 DEF BotSubscribes, gameVars, ecs, bot, concierge, history
    <2>2. ASSUME NEW u \in Viewer PROVE \E final \in Picture : Told(u, final)'
        <3>1. PICK final \in Picture : Told(u, final)
            BY DEF ToldInv
        <3> QED
            BY <2>1, <3>1, MirrorsKept, ToldKept
    <2> QED
        BY <2>2 DEF ToldInv
<1> QED
    BY <1>1, <1>2, <1>3, <1>4 DEF GameNext

\* In every state, what a subscriber shows and what is still on its way to it make
\* up a picture of the world as it is then, once it has been sent its dump.
THEOREM ToldInvariance == GameSpec => [](WorldInv /\ ToldInv)
BY WorldInvInit, WorldInvStep, ToldInit, ToldStep, PTL DEF GameSpec

\* Nothing on its way leads nowhere else.
LEMMA QuietMirrors ==
    ASSUME WorldInv, ToldInv, Quiet, NEW v \in subscribers
    PROVE  Mirrors(v, shapes[v])
<1>1. v \in Viewer /\ down[v] = <<>> /\ inbox = <<>> /\ listening
    BY DEF WorldInv, MailTyped, Quiet
<1>2. ~Awaiting(v)
    BY <1>1 DEF Awaiting, Greeted, Asks
<1>3. PICK final \in Picture : LeadsTo(<<>>, shapes[v], final) /\ Mirrors(v, final)
    BY <1>1, <1>2 DEF ToldInv, Told
<1>4. final = shapes[v]
    BY <1>3 DEF LeadsTo
<1> QED
    BY <1>3, <1>4

\* Once everything told has been taken in, a player shows exactly the entities
\* there are, but for the two races that the property names.
THEOREM ShapesShown == GameSpec => []ShapesMirror
<1>1. WorldInv /\ ToldInv => ShapesMirror
    <2> SUFFICES ASSUME WorldInv, ToldInv, Quiet, NEW v \in subscribers
                 PROVE  /\ DOMAIN shapes[v] \subseteq DOMAIN world \cup ghosts[v]
                        /\ DOMAIN world \ DOMAIN shapes[v] \subseteq (IF v \in early THEN Initial ELSE {})
        BY DEF ShapesMirror
    <2>1. Mirrors(v, shapes[v])
        BY QuietMirrors
    <2>2. Lasting = DOMAIN world
        BY DEF Lasting, Quiet
    <2> QED
        BY <2>1, <2>2 DEF Mirrors
<1> QED
    BY <1>1, ToldInvariance, PTL

\* And it shows them in the colours that they have, however toggles, clones and
\* dumps to single viewers overlapped.
THEOREM ColoursShown == GameSpec => []ColoursMirror
<1>1. WorldInv /\ ToldInv => ColoursMirror
    BY QuietMirrors DEF ColoursMirror, Mirrors
<1> QED
    BY <1>1, ToldInvariance, PTL
=============================================================================
