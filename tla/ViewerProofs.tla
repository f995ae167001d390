---------------------------- MODULE ViewerProofs ----------------------------
(***************************************************************************)
(* Proofs about the viewer's handlers, for every finite set of clients and *)
(* of services and any number of payloads on their way: that the lists,    *)
(* the tabs and the subscriptions end up right once all has arrived.       *)
(***************************************************************************)
EXTENDS Viewer, SequenceTheorems, FiniteSetTheorems, WellFoundedInduction, TLAPS

-----------------------------------------------------------------------------
(* The inductive invariant                                                 *)

Asked ==
    [type : {"CLIENT_FETCH_ALL"}, name : {All}, by : {"clients"}]
    \cup [type : {"SERVICE_FETCH_ALL"}, name : {All}, by : {"services"}]
    \cup [type : {"SERVICE_FETCH"}, name : Service, by : {"services", "handler"}]
    \cup [type : {"SELF_SUBSCRIBE"}, name : Service, by : {"handler", "none"}]
    \cup [type : {"SELF_UNSUBSCRIBE"}, name : Service, by : {"none"}]

OfService == {"SERVICE_CREATE_RESULT", "SERVICE_DELETE_RESULT", "SERVICE_FETCH_RESULT",
              "INVALID_SERVICE", "SELF_SUBSCRIBE_RESULT", "SELF_UNSUBSCRIBE_RESULT", "ALREADY"}
Sent ==
    [type : {"HELLO"}, name : {All}, by : {"none"}]
    \cup [type : {"CLIENT_FETCH_ALL_RESULT"}, name : SUBSET Peer, by : {"clients"}]
    \cup [type : {"SERVICE_FETCH_ALL_RESULT"}, name : SUBSET Service, by : {"services"}]
    \cup [type : {"CLIENT_JOINED", "CLIENT_LEFT"}, name : Peer, by : {"none"}]
    \cup [type : OfService, name : Service, by : {"services", "handler", "none"}]

\* Without a connection nothing is left of the last one but what the handlers
\* remember of their subscriptions, which opens no tab.
ViewerTyped ==
    /\ members \subseteq Peer /\ services \subseteq Service /\ mine \subseteq services
    /\ online \in BOOLEAN
    /\ up \in Seq(Asked) /\ down \in Seq(Sent)
    /\ users \in Seq(Peer) /\ groups \in Seq(Service)
    /\ subscribed \in [Service -> BOOLEAN]
    /\ tabs \subseteq {x \in Service : subscribed[x] = TRUE}
    /\ clicked \subseteq Service
    /\ ~online => /\ up = <<>> /\ down = <<>> /\ users = <<>> /\ groups = <<>>
                  /\ mine = {} /\ tabs = {}

Is(m, type, x, by) == m.type = type /\ m.name = x /\ m.by = by
Has(q, type, x, by) == \E i \in 1 .. Len(q) : Is(q[i], type, x, by)

\* x is in s, or is put there, once the payloads of q have been taken in: those of
\* "on" put it there, those of "off" take it out.
Finally(q, x, s, on, off) ==
    \/ x \in s /\ \A j \in 1 .. Len(q) : q[j] \notin off
    \/ \E i \in 1 .. Len(q) : q[i] \in on /\ \A j \in i .. Len(q) : q[j] \notin off

\* What the list of clients, the list of services and the tabs make of a payload.
Adds(p) == {m \in Sent : \/ m.type = "CLIENT_JOINED" /\ m.name = p
                         \/ m.type = "CLIENT_FETCH_ALL_RESULT" /\ p \in m.name}
Removes(p) == {m \in Sent : \/ m.type = "CLIENT_LEFT" /\ m.name = p
                            \/ m.type = "CLIENT_FETCH_ALL_RESULT" /\ p \notin m.name}
Lists(x) == {m \in Sent : \/ m.type = "SERVICE_FETCH_RESULT" /\ m.name = x /\ m.by = "services"
                          \/ m.type = "SERVICE_FETCH_ALL_RESULT" /\ x \in m.name}
Unlists(x) == {m \in Sent : \/ m.type = "SERVICE_DELETE_RESULT" /\ m.name = x
                            \/ m.type = "SERVICE_FETCH_ALL_RESULT" /\ x \notin m.name}
Opens(x) == {m \in Sent : m.type = "SELF_SUBSCRIBE_RESULT" /\ m.name = x /\ m.by = "handler"}
Shuts(x) == {m \in Sent : /\ m.type \in {"SELF_UNSUBSCRIBE_RESULT", "SERVICE_DELETE_RESULT"}
                          /\ m.name = x}

WillKnow(p) == Finally(down, p, Range(users), Adds(p), Removes(p))
WillList(x) == Finally(down, x, Range(groups), Lists(x), Unlists(x))
WillShow(x) == Finally(down, x, tabs, Opens(x), Shuts(x))

\* The greeting, whose answers replace everything, is still to come.
Greeted == ~Has(down, "HELLO", All, "none")

\* When the arrival of a client is taken in, the client is not in the list.
NewOnly(p) ==
    \A i \in 1 .. Len(down) : down[i].type = "CLIENT_JOINED" /\ down[i].name = p =>
        ~Finally(SubSeq(down, 1, i - 1), p, Range(users), Adds(p), Removes(p))

UsersInv ==
    /\ IsInjective(users)
    /\ \A p \in Peer :
        /\ NewOnly(p)
        /\ WillKnow(p) => p \in members
        /\ online /\ p \in members /\ Greeted /\ ~Has(up, "CLIENT_FETCH_ALL", All, "clients") =>
            WillKnow(p)

\* A service that is not listed will be: all are being fetched, or this one is, or it
\* was created.
Listing(x) ==
    \/ ~Greeted
    \/ Has(up, "SERVICE_FETCH_ALL", All, "services")
    \/ Has(up, "SERVICE_FETCH", x, "services")
    \/ Has(down, "SERVICE_CREATE_RESULT", x, "none")

GroupsInv ==
    \A x \in Service :
        /\ WillList(x) => x \in services
        /\ online /\ x \in services => WillList(x) \/ Listing(x)

\* What comes without a callback was asked for by hand.
ByHand ==
    \A x \in Service :
        Has(up, "SELF_SUBSCRIBE", x, "none") \/ Has(up, "SELF_UNSUBSCRIBE", x, "none") => x \in clicked

TabsInv ==
    \A x \in Service :
        /\ WillShow(x) => x \in mine
        /\ x \in mine /\ x \notin clicked => WillShow(x)

\* A handler that is not subscribed to its service will be: by the step of its way
\* from the greeting, or from the creation of the service, that is under way.
Subscribing(x) ==
    \/ ~Greeted
    \/ Has(up, "SERVICE_FETCH", x, "handler") \/ Has(down, "SERVICE_FETCH_RESULT", x, "handler")
    \/ Has(down, "SERVICE_CREATE_RESULT", x, "none")
    \/ Has(up, "SELF_SUBSCRIBE", x, "handler")

SubscribedInv ==
    \A x \in Service : online /\ x \in services /\ x \notin clicked => x \in mine \/ Subscribing(x)

ViewerInv == ViewerTyped /\ UsersInv /\ GroupsInv /\ ByHand /\ TabsInv /\ SubscribedInv

-----------------------------------------------------------------------------
(* Lists                                                                   *)

\* A set of numbers that holds whatever number its predecessors make it hold is
\* all of them: induction, over a set instead of a predicate.
LEMMA Upwards ==
    ASSUME NEW n \in Nat, NEW T, \A i \in 0 .. n : (i > 0 => i - 1 \in T) => i \in T
    PROVE  \A i \in 0 .. n : i \in T
<1> SUFFICES ASSUME NEW k \in 0 .. n, k \notin T PROVE FALSE
    OBVIOUS
<1> DEFINE Missing == {i \in 0 .. n : i \notin T}
<1>1. Missing \subseteq Nat /\ Missing # {}
    OBVIOUS
<1>2. PICK least \in Missing : \A i \in Missing : <<i, least>> \notin OpToRel(<, Nat)
    BY <1>1, NatLessThanWellFounded, WFMin
<1>3. ASSUME NEW i \in Missing, i < least
      PROVE  FALSE
    <2>1. <<i, least>> \in Nat \X Nat /\ <<i, least>>[1] = i /\ <<i, least>>[2] = least
        BY <1>1
    <2>2. <<i, least>> \in OpToRel(<, Nat)
        BY <1>3, <2>1, Zenon DEF OpToRel
    <2> QED
        BY <1>2, <2>2
<1>4. least > 0 => least - 1 \in 0 .. n /\ least - 1 < least /\ least - 1 \notin Missing
    BY <1>3
<1>5. least > 0 => least - 1 \in T
    BY <1>4
<1> QED
    BY <1>5

Left(s, x, rest, i) ==
    IF i = 0 THEN <<>>
    ELSE IF s[i] = x THEN rest[i - 1] ELSE Append(rest[i - 1], s[i])

\* The function that Without is defined by exists.
LEMMA WithoutDefined ==
    ASSUME NEW S, NEW s \in Seq(S), NEW x
    PROVE  \E rest : rest = [i \in 0 .. Len(s) |-> Left(s, x, rest, i)] /\ Without(s, x) = rest[Len(s)]
<1> DEFINE Good(n, r) == DOMAIN r = 0 .. n /\ r = [i \in DOMAIN r |-> r[i]] /\ \A i \in 0 .. n : r[i] = Left(s, x, r, i)
           T == {n \in 0 .. Len(s) : \E r : Good(n, r)}
<1>1. Len(s) \in Nat
    OBVIOUS
<1>2. ASSUME NEW n \in 0 .. Len(s), n > 0 => n - 1 \in T
      PROVE  n \in T
    <2>1. CASE n = 0
        <3> DEFINE r == [i \in 0 .. 0 |-> <<>>]
        <3>1. Good(0, r)
            BY DEF Left
        <3> QED
            BY <2>1, <3>1
    <2>2. CASE n > 0
        <3>1. PICK q : Good(n - 1, q)
            BY <1>2, <2>2
        <3> DEFINE r == [i \in 0 .. n |-> IF i = n THEN Left(s, x, q, n) ELSE q[i]]
        <3>2. \A i \in 0 .. n - 1 : r[i] = q[i]
            BY <2>2
        <3>3. \A i \in 0 .. n : r[i] = Left(s, x, q, i)
            BY <2>2, <3>1, <3>2
        <3>4. \A i \in 0 .. n : Left(s, x, q, i) = Left(s, x, r, i)
            BY <2>2, <3>2 DEF Left
        <3>5. Good(n, r)
            BY <3>3, <3>4
        <3> QED
            BY <3>5
    <2> QED
        BY <1>1, <2>1, <2>2
<1>3. Len(s) \in T
    <2> HIDE DEF T
    <2> QED
        BY <1>1, <1>2, Upwards
<1>4. PICK r : Good(Len(s), r)
    BY <1>3
<1>5. r = [i \in 0 .. Len(s) |-> Left(s, x, r, i)]
    BY <1>4
<1> DEFINE rest == CHOOSE rest : rest = [i \in 0 .. Len(s) |-> Left(s, x, rest, i)]
<1>6. rest = [i \in 0 .. Len(s) |-> Left(s, x, rest, i)]
    BY <1>5
<1>7. Without(s, x) = rest[Len(s)]
    BY DEF Without, Left
<1> QED
    BY <1>6, <1>7

LEMMA AppendLeaves ==
    ASSUME NEW S, NEW s \in Seq(S), NEW y \in S
    PROVE  /\ Append(s, y) \in Seq(S)
           /\ Range(Append(s, y)) = Range(s) \cup {y}
           /\ IsInjective(s) /\ y \notin Range(s) => IsInjective(Append(s, y))
<1>1. /\ Append(s, y) \in Seq(S)
      /\ DOMAIN s = 1 .. Len(s) /\ DOMAIN Append(s, y) = 1 .. Len(s) + 1 /\ Len(s) \in Nat
      /\ \A i \in 1 .. Len(s) : Append(s, y)[i] = s[i]
      /\ Append(s, y)[Len(s) + 1] = y
    OBVIOUS
<1>2. Range(Append(s, y)) = Range(s) \cup {y}
    BY <1>1 DEF Range
<1>3. ASSUME IsInjective(s), y \notin Range(s)
      PROVE  IsInjective(Append(s, y))
    <2>1. \A i \in 1 .. Len(s) : s[i] # y
        BY <1>1, <1>3 DEF Range
    <2> QED
        BY <1>1, <1>3, <2>1 DEF IsInjective
<1> QED
    BY <1>1, <1>2, <1>3

\* What is left of a list is all of it but x, and nothing twice that was there once.
LEMMA WithoutLeaves ==
    ASSUME NEW S, NEW s \in Seq(S), NEW x
    PROVE  /\ Without(s, x) \in Seq(S)
           /\ Range(Without(s, x)) = Range(s) \ {x}
           /\ IsInjective(s) => IsInjective(Without(s, x))
<1>1. PICK rest : rest = [i \in 0 .. Len(s) |-> Left(s, x, rest, i)] /\ Without(s, x) = rest[Len(s)]
    BY WithoutDefined
<1> DEFINE Firsts(i) == {s[j] : j \in 1 .. i}
           Fits(i) == /\ rest[i] \in Seq(S)
                      /\ Range(rest[i]) = Firsts(i) \ {x}
                      /\ IsInjective(s) => IsInjective(rest[i])
           T == {i \in 0 .. Len(s) : Fits(i)}
<1>2. Len(s) \in Nat /\ \A i \in 1 .. Len(s) : s[i] \in S
    OBVIOUS
<1>3. \A i \in 0 .. Len(s) : rest[i] = Left(s, x, rest, i)
    BY <1>1
<1>4. /\ Firsts(0) = {}
      /\ \A i \in 1 .. Len(s) : Firsts(i) = Firsts(i - 1) \cup {s[i]}
      /\ \A i \in 1 .. Len(s) : IsInjective(s) => s[i] \notin Firsts(i - 1)
      /\ Firsts(Len(s)) = Range(s)
    BY <1>2 DEF IsInjective, Range
<1> HIDE DEF Firsts
<1>5. ASSUME NEW i \in 1 .. Len(s), Fits(i - 1)
      PROVE  Fits(i)
    <2>1. i - 1 \in 0 .. Len(s) /\ i \in 0 .. Len(s) /\ s[i] \in S /\ i # 0
        BY <1>2
    <2>2. CASE s[i] = x
        <3>1. rest[i] = rest[i - 1]
            BY <1>3, <2>1, <2>2 DEF Left
        <3> QED
            BY <1>4, <1>5, <2>2, <3>1
    <2>3. CASE s[i] # x
        <3>1. rest[i] = Append(rest[i - 1], s[i])
            BY <1>3, <2>1, <2>3 DEF Left
        <3>2. Range(rest[i]) = Range(rest[i - 1]) \cup {s[i]} /\ rest[i] \in Seq(S)
            BY <1>5, <2>1, <3>1, AppendLeaves
        <3>3. IsInjective(s) => IsInjective(rest[i])
            BY <1>4, <1>5, <2>1, <3>1, AppendLeaves
        <3> QED
            BY <1>4, <1>5, <2>3, <3>2, <3>3
    <2> QED
        BY <2>2, <2>3
<1>6. Fits(0)
    <2>1. rest[0] = <<>>
        BY <1>2, <1>3 DEF Left
    <2>2. <<>> \in Seq(S) /\ Range(<<>>) = {} /\ IsInjective(<<>>)
        BY DEF Range, IsInjective
    <2> QED
        BY <1>4, <2>1, <2>2
<1> HIDE DEF Fits
<1>7. ASSUME NEW i \in 0 .. Len(s), i > 0 => i - 1 \in T
      PROVE  i \in T
    BY <1>2, <1>5, <1>6, <1>7
<1> HIDE DEF T
<1>8. Len(s) \in T
    <2>1. \A i \in 0 .. Len(s) : i \in T
        BY <1>2, <1>7, Upwards
    <2> QED
        BY <1>2, <2>1
<1>9. Fits(Len(s))
    BY <1>8 DEF T
<1> QED
    BY <1>1, <1>4, <1>9 DEF Fits

LEMMA SetToSeqCovers ==
    ASSUME NEW S, IsFiniteSet(S)
    PROVE  SetToSeq(S) \in Seq(S) /\ Range(SetToSeq(S)) = S /\ IsInjective(SetToSeq(S))
<1> DEFINE n == Cardinality(S)
           q == SetToSeq(S)
<1>1. n \in Nat /\ IsFiniteSet(1 .. n) /\ Cardinality(1 .. n) = n /\ ExistsBijection(1 .. n, S)
    BY FS_CardinalityType, FS_Interval
<1>2. \E f \in [1 .. n -> S] : IsInjective(f)
    BY <1>1 DEF ExistsBijection, Bijection, Injection, IsInjective
<1>3. q \in [1 .. n -> S] /\ IsInjective(q)
    BY <1>2 DEF SetToSeq
<1>4. q \in Surjection(1 .. n, S)
    BY <1>1, <1>3, FS_Injection DEF Injection, IsInjective
<1> HIDE DEF n, q
<1>5. Range(q) = S
    BY <1>3, <1>4 DEF Surjection, Range
<1>6. q \in Seq(S)
    BY <1>1, <1>3, SeqDef
<1> QED
    BY <1>3, <1>5, <1>6 DEF q

-----------------------------------------------------------------------------
(* Queues                                                                  *)

LEMMA HasAppended ==
    ASSUME NEW M, NEW q \in Seq(M), NEW m \in M, NEW type, NEW x, NEW by
    PROVE  Has(Append(q, m), type, x, by) <=>
                Has(q, type, x, by) \/ Is(m, type, x, by)
<1>1. /\ Len(q) \in Nat /\ Len(Append(q, m)) = Len(q) + 1
      /\ \A i \in 1 .. Len(q) : Append(q, m)[i] = q[i]
      /\ Append(q, m)[Len(q) + 1] = m
    OBVIOUS
<1>2. \A i \in 1 .. Len(q) + 1 : i \in 1 .. Len(q) \/ i = Len(q) + 1
    BY <1>1
<1>3. Len(q) + 1 \in 1 .. Len(q) + 1 /\ \A i \in 1 .. Len(q) : i \in 1 .. Len(q) + 1
    BY <1>1
<1> QED
    BY <1>1, <1>2, <1>3 DEF Has

LEMMA HasTaken ==
    ASSUME NEW M, NEW q \in Seq(M), q # <<>>, NEW type, NEW x, NEW by
    PROVE  Has(q, type, x, by) <=>
                Has(Tail(q), type, x, by) \/ Is(Head(q), type, x, by)
<1>1. /\ Len(q) \in Nat \ {0} /\ Len(Tail(q)) = Len(q) - 1 /\ Head(q) = q[1]
      /\ \A i \in 1 .. Len(q) - 1 : Tail(q)[i] = q[i + 1]
    OBVIOUS
<1>2. \A i \in 1 .. Len(q) : i = 1 \/ (i - 1 \in 1 .. Len(q) - 1 /\ Tail(q)[i - 1] = q[i])
    BY <1>1
<1>3. 1 \in 1 .. Len(q) /\ \A i \in 1 .. Len(q) - 1 : i + 1 \in 1 .. Len(q)
    BY <1>1
<1>4. Has(q, type, x, by) => Has(Tail(q), type, x, by) \/ Is(Head(q), type, x, by)
    BY <1>1, <1>2 DEF Has
<1>5. Has(Tail(q), type, x, by) \/ Is(Head(q), type, x, by) => Has(q, type, x, by)
    BY <1>1, <1>3 DEF Has
<1> QED
    BY <1>4, <1>5

LEMMA ConcatElement ==
    ASSUME NEW M, NEW q \in Seq(M), NEW r \in Seq(M)
    PROVE  /\ \A i \in 1 .. Len(q) : i \in 1 .. Len(q \o r) /\ (q \o r)[i] = q[i]
           /\ \A i \in 1 .. Len(r) : Len(q) + i \in 1 .. Len(q \o r) /\ (q \o r)[Len(q) + i] = r[i]
           /\ \A i \in 1 .. Len(q \o r) :
                i \in 1 .. Len(q) \/ \E j \in 1 .. Len(r) : i = Len(q) + j
<1>1. /\ Len(q) \in Nat /\ Len(r) \in Nat /\ Len(q \o r) = Len(q) + Len(r)
      /\ \A i \in 1 .. Len(q) : (q \o r)[i] = q[i]
      /\ \A i \in 1 .. Len(r) : (q \o r)[Len(q) + i] = r[i]
    OBVIOUS
<1>2. \A i \in 1 .. Len(q) + Len(r) :
        i \in 1 .. Len(q) \/ \E j \in 1 .. Len(r) : i = Len(q) + j
    <2> TAKE i \in 1 .. Len(q) + Len(r)
    <2>1. CASE i > Len(q)
        <3>1. i - Len(q) \in 1 .. Len(r) /\ i = Len(q) + (i - Len(q))
            BY <1>1, <2>1
        <3> QED
            BY <3>1
    <2> QED
        BY <1>1, <2>1
<1>3. /\ \A i \in 1 .. Len(q) : i \in 1 .. Len(q \o r)
      /\ \A i \in 1 .. Len(r) : Len(q) + i \in 1 .. Len(q \o r)
    BY <1>1
<1> QED
    BY <1>1, <1>2, <1>3

LEMMA HasConcat ==
    ASSUME NEW M, NEW q \in Seq(M), NEW r \in Seq(M), NEW type, NEW x, NEW by
    PROVE  Has(q \o r, type, x, by) <=> Has(q, type, x, by) \/ Has(r, type, x, by)
<1>1. Has(q \o r, type, x, by) => Has(q, type, x, by) \/ Has(r, type, x, by)
    BY ConcatElement DEF Has
<1>2. Has(q, type, x, by) => Has(q \o r, type, x, by)
    <2>1. \A i \in 1 .. Len(q) : i \in 1 .. Len(q \o r) /\ (q \o r)[i] = q[i]
        BY ConcatElement
    <2> QED
        BY <2>1 DEF Has
<1>3. Has(r, type, x, by) => Has(q \o r, type, x, by)
    <2>1. \A i \in 1 .. Len(r) : Len(q) + i \in 1 .. Len(q \o r) /\ (q \o r)[Len(q) + i] = r[i]
        BY ConcatElement
    <2> QED
        BY <2>1 DEF Has
<1> QED
    BY <1>1, <1>2, <1>3

LEMMA FinallyAppended ==
    ASSUME NEW M, NEW q \in Seq(M), NEW m \in M, NEW x, NEW s, NEW on, NEW off
    PROVE  Finally(Append(q, m), x, s, on, off) <=>
                m \notin off /\ (m \in on \/ Finally(q, x, s, on, off))
<1> DEFINE r == Append(q, m)
<1>1. /\ Len(q) \in Nat /\ Len(r) = Len(q) + 1 /\ Len(r) \in 1 .. Len(r)
      /\ \A i \in 1 .. Len(q) : r[i] = q[i]
      /\ r[Len(r)] = m
    OBVIOUS
<1> HIDE DEF r
<1>2. \A i \in 1 .. Len(r) : (\A j \in i .. Len(r) : r[j] \notin off) <=>
                                m \notin off /\ \A j \in i .. Len(q) : q[j] \notin off
    <2> TAKE i \in 1 .. Len(r)
    <2>1. \A j \in i .. Len(r) : j = Len(r) \/ j \in i .. Len(q)
        BY <1>1
    <2>2. \A j \in i .. Len(q) : j \in 1 .. Len(q) /\ j \in i .. Len(r)
        BY <1>1
    <2>3. Len(r) \in i .. Len(r)
        BY <1>1
    <2> QED
        BY <1>1, <2>1, <2>2, <2>3
<1>3. 1 \in 1 .. Len(r) /\ \A i \in 1 .. Len(r) : i \in 1 .. Len(q) \/ i = Len(r)
    BY <1>1
<1>4. \A j \in Len(r) .. Len(q) : FALSE
    BY <1>1
<1>5. \A i \in 1 .. Len(q) : i \in 1 .. Len(r)
    BY <1>1
<1>6. ASSUME Finally(r, x, s, on, off)
      PROVE  m \notin off /\ (m \in on \/ Finally(q, x, s, on, off))
    BY <1>1, <1>2, <1>3, <1>6 DEF Finally
<1>7. ASSUME m \notin off, m \in on
      PROVE  Finally(r, x, s, on, off)
    BY <1>1, <1>2, <1>4, <1>7 DEF Finally
<1>8. ASSUME m \notin off, Finally(q, x, s, on, off)
      PROVE  Finally(r, x, s, on, off)
    BY <1>1, <1>2, <1>3, <1>5, <1>8 DEF Finally
<1> QED
    BY <1>6, <1>7, <1>8 DEF r

\* Taking the first payload in does to the list what Finally says of it.
LEMMA FinallyTaken ==
    ASSUME NEW M, NEW q \in Seq(M), q # <<>>, NEW x, NEW s, NEW t, NEW on, NEW off,
           x \in t <=> Head(q) \notin off /\ (Head(q) \in on \/ x \in s)
    PROVE  Finally(Tail(q), x, t, on, off) <=> Finally(q, x, s, on, off)
<1> DEFINE r == Tail(q)
<1>1. /\ Len(q) \in Nat \ {0} /\ Len(r) = Len(q) - 1 /\ Head(q) = q[1]
      /\ \A i \in 1 .. Len(r) : r[i] = q[i + 1]
    OBVIOUS
<1> HIDE DEF r
<1>2. \A i \in 2 .. Len(q) : i - 1 \in 1 .. Len(r) /\ r[i - 1] = q[i]
    BY <1>1
<1>3. \A i \in 1 .. Len(q) : i = 1 \/ i \in 2 .. Len(q)
    BY <1>1
<1>4. \A i \in 1 .. Len(r) : (\A j \in i .. Len(r) : r[j] \notin off) <=>
                                (\A j \in i + 1 .. Len(q) : q[j] \notin off)
    <2> TAKE i \in 1 .. Len(r)
    <2>1. \A j \in i .. Len(r) : j \in 1 .. Len(r) /\ j + 1 \in i + 1 .. Len(q)
        BY <1>1
    <2>2. \A j \in i + 1 .. Len(q) : j - 1 \in i .. Len(r) /\ j \in 2 .. Len(q)
        BY <1>1
    <2> QED
        BY <1>1, <1>2, <2>1, <2>2
<1>5. (\A j \in 1 .. Len(r) : r[j] \notin off) <=> (\A j \in 2 .. Len(q) : q[j] \notin off)
    <2>1. \A j \in 1 .. Len(r) : j + 1 \in 2 .. Len(q) /\ r[j] = q[j + 1]
        BY <1>1
    <2> QED
        BY <1>2, <2>1
<1>6. (\A j \in 1 .. Len(q) : q[j] \notin off) <=>
        Head(q) \notin off /\ (\A j \in 2 .. Len(q) : q[j] \notin off)
    <2>1. 1 \in 1 .. Len(q) /\ \A j \in 2 .. Len(q) : j \in 1 .. Len(q)
        BY <1>1
    <2> QED
        BY <1>1, <1>3, <2>1
<1>7. (\E i \in 1 .. Len(q) : q[i] \in on /\ \A j \in i .. Len(q) : q[j] \notin off) <=>
        \/ Head(q) \in on /\ \A j \in 1 .. Len(q) : q[j] \notin off
        \/ \E i \in 1 .. Len(r) : r[i] \in on /\ \A j \in i .. Len(r) : r[j] \notin off
    <2>1. ASSUME NEW i \in 1 .. Len(q), q[i] \in on, \A j \in i .. Len(q) : q[j] \notin off
          PROVE  \/ Head(q) \in on /\ \A j \in 1 .. Len(q) : q[j] \notin off
                 \/ \E k \in 1 .. Len(r) : r[k] \in on /\ \A j \in k .. Len(r) : r[j] \notin off
        <3>1. CASE i = 1
            BY <1>1, <2>1, <3>1
        <3>2. CASE i \in 2 .. Len(q)
            <4>1. i - 1 \in 1 .. Len(r) /\ r[i - 1] \in on /\ (i - 1) + 1 = i
                BY <1>2, <2>1, <3>2
            <4>2. \A j \in i - 1 .. Len(r) : r[j] \notin off
                BY <1>4, <2>1, <4>1
            <4> QED
                BY <4>1, <4>2
        <3> QED
            BY <1>3, <3>1, <3>2
    <2>2. ASSUME NEW k \in 1 .. Len(r), r[k] \in on, \A j \in k .. Len(r) : r[j] \notin off
          PROVE  \E i \in 1 .. Len(q) : q[i] \in on /\ \A j \in i .. Len(q) : q[j] \notin off
        <3>1. k + 1 \in 1 .. Len(q) /\ q[k + 1] \in on
            BY <1>1, <2>2
        <3>2. \A j \in k + 1 .. Len(q) : q[j] \notin off
            BY <1>4, <2>2
        <3> QED
            BY <3>1, <3>2
    <2>3. Head(q) \in on /\ (\A j \in 1 .. Len(q) : q[j] \notin off) =>
            \E i \in 1 .. Len(q) : q[i] \in on /\ \A j \in i .. Len(q) : q[j] \notin off
        BY <1>1
    <2> QED
        BY <2>1, <2>2, <2>3
<1> QED
    BY <1>5, <1>6, <1>7 DEF Finally, r

-----------------------------------------------------------------------------
(* What the handlers make of a payload                                     *)

LEMMA GreetingsAsk ==
    /\ Greetings \in Seq(Asked)
    /\ Has(Greetings, "CLIENT_FETCH_ALL", All, "clients")
    /\ Has(Greetings, "SERVICE_FETCH_ALL", All, "services")
    /\ \A x \in Service : Has(Greetings, "SERVICE_FETCH", x, "handler")
    /\ \A i \in 1 .. Len(Greetings) : Greetings[i].by # "none"
<1> DEFINE s == SetToSeq(Service)
           all == <<Request("CLIENT_FETCH_ALL", All, "clients"), Request("SERVICE_FETCH_ALL", All, "services")>>
           each == [i \in DOMAIN s |-> Request("SERVICE_FETCH", s[i], "handler")]
<1>1. Greetings = all \o each
    BY DEF Greetings, ForEachService
<1>2. s \in Seq(Service) /\ Range(s) = Service
    BY FiniteAssumption, SetToSeqCovers
<1> HIDE DEF s
<1>3. /\ Len(s) \in Nat /\ DOMAIN s = 1 .. Len(s)
      /\ \A i \in 1 .. Len(s) : s[i] \in Service
      /\ \A x \in Service : \E i \in 1 .. Len(s) : s[i] = x
    BY <1>2 DEF Range
<1>4. /\ all \in Seq(Asked) /\ Len(all) = 2
      /\ Is(all[1], "CLIENT_FETCH_ALL", All, "clients")
      /\ Is(all[2], "SERVICE_FETCH_ALL", All, "services")
    BY DEF Asked, Request, Is
<1>5. /\ each \in Seq(Asked) /\ Len(each) = Len(s)
      /\ \A i \in 1 .. Len(s) : Is(each[i], "SERVICE_FETCH", s[i], "handler")
    <2>1. \A x \in Service : Request("SERVICE_FETCH", x, "handler") \in Asked
                             /\ Is(Request("SERVICE_FETCH", x, "handler"), "SERVICE_FETCH", x, "handler")
        BY DEF Asked, Request, Is
    <2>2. each \in [1 .. Len(s) -> Asked]
        BY <1>3, <2>1
    <2> QED
        BY <1>3, <2>1, <2>2, SeqDef
<1> HIDE DEF all, each
<1>6. /\ Has(all, "CLIENT_FETCH_ALL", All, "clients")
      /\ Has(all, "SERVICE_FETCH_ALL", All, "services")
    BY <1>4 DEF Has
<1>7. ASSUME NEW x \in Service
      PROVE  Has(each, "SERVICE_FETCH", x, "handler")
    BY <1>3, <1>5 DEF Has
<1>8. \A i \in 1 .. Len(all \o each) : (all \o each)[i].by # "none"
    <2>1. all[1].by # "none" /\ all[2].by # "none"
        BY <1>4 DEF Is
    <2>2. \A i \in 1 .. Len(each) : each[i].by # "none"
        BY <1>5 DEF Is
    <2> TAKE i \in 1 .. Len(all \o each)
    <2>3. \/ i \in 1 .. Len(all) /\ (all \o each)[i] = all[i]
          \/ \E j \in 1 .. Len(each) : (all \o each)[i] = each[j]
        <3>1. all \in Seq(Asked) /\ each \in Seq(Asked)
            BY <1>4, <1>5
        <3>2. i \in 1 .. Len(all) \/ \E j \in 1 .. Len(each) : i = Len(all) + j
            BY <3>1, ConcatElement
        <3>3. \A k \in 1 .. Len(all) : (all \o each)[k] = all[k]
            BY <3>1
        <3>4. \A j \in 1 .. Len(each) : (all \o each)[Len(all) + j] = each[j]
            BY <3>1
        <3> QED
            BY <3>2, <3>3, <3>4
    <2> QED
        BY <1>4, <2>1, <2>2, <2>3
<1>9. all \o each \in Seq(Asked)
    BY <1>4, <1>5
<1> QED
    BY <1>1, <1>4, <1>5, <1>6, <1>7, <1>8, <1>9, HasConcat

\* What is asked for when payload m has been taken in: never in the name of the user.
Follows(m, r) ==
    /\ r \in Seq(Asked)
    /\ \A i \in 1 .. Len(r) : r[i].by # "none"
    /\ m.type = "HELLO" =>
        /\ Has(r, "CLIENT_FETCH_ALL", All, "clients")
        /\ Has(r, "SERVICE_FETCH_ALL", All, "services")
        /\ \A x \in Service : Has(r, "SERVICE_FETCH", x, "handler")
    /\ m.type = "SERVICE_CREATE_RESULT" =>
        Has(r, "SERVICE_FETCH", m.name, "services") /\ Has(r, "SELF_SUBSCRIBE", m.name, "handler")
    /\ m.type = "SERVICE_FETCH_RESULT" /\ m.by # "services" =>
        Has(r, "SELF_SUBSCRIBE", m.name, "handler")

LEMMA SentSays ==
    ASSUME NEW m \in Sent
    PROVE  /\ m.type \in OfService => m.name \in Service /\ m.by \in {"services", "handler", "none"}
           /\ m.type \in {"CLIENT_JOINED", "CLIENT_LEFT"} => m.name \in Peer
           /\ m.type = "CLIENT_FETCH_ALL_RESULT" => m.name \subseteq Peer
           /\ m.type = "SERVICE_FETCH_ALL_RESULT" => m.name \subseteq Service
BY DEF Sent, OfService

LEMMA ReceiveAsks ==
    ASSUME ViewerTyped, Receive
    PROVE  /\ down # <<>> /\ Head(down) \in Sent /\ down' = Tail(down) /\ down' \in Seq(Sent)
           /\ UNCHANGED <<members, services, mine, online, clicked>>
           /\ \E r : up' = up \o r /\ Follows(Head(down), r)
<1>1. down \in Seq(Sent) /\ up \in Seq(Asked)
    BY DEF ViewerTyped
<1>2. /\ down # <<>> /\ down' = Tail(down)
      /\ UNCHANGED <<members, services, mine, online, clicked>>
    BY DEF Receive, ReceiveHello, ReceiveClients, ReceiveJoined, ReceiveLeft, ReceiveServices, ReceiveCreated,
           ReceiveService, ReceiveDeleted, ReceiveSubscribed, ReceiveUnsubscribed, ReceiveNothing, Take, server
<1>3. Head(down) \in Sent /\ down' \in Seq(Sent)
    BY <1>1, <1>2
<1>4. \E r : up' = up \o r /\ Follows(Head(down), r)
    <2>1. CASE ReceiveHello
        <3>1. Head(down).type = "HELLO" /\ up' = up \o Greetings
            BY <2>1 DEF ReceiveHello, Take
        <3> QED
            BY <3>1, GreetingsAsk DEF Follows
    <2>2. CASE ReceiveCreated
        <3> DEFINE x == Head(down).name
                   r == <<Request("SERVICE_FETCH", x, "services")>> \o Subscribe(x)
        <3>1. Head(down).type = "SERVICE_CREATE_RESULT" /\ x \in Service
            BY <1>3, <2>2, SentSays DEF ReceiveCreated, Take, OfService
        <3>2. up' = up \o r
            <4>1. up' = up \o <<Request("SERVICE_FETCH", x, "services")>> \o Subscribe(x)
                BY <2>2 DEF ReceiveCreated, Told
            <4>2. Request("SERVICE_FETCH", x, "services") \in Asked /\ Subscribe(x) \in Seq(Asked)
                BY <3>1 DEF Asked, Request, Subscribe
            <4> QED
                BY <1>1, <4>1, <4>2, ConcatAssociative
        <3>4. /\ Request("SERVICE_FETCH", x, "services") \in Asked
              /\ Request("SELF_SUBSCRIBE", x, "handler") \in Asked
              /\ Is(Request("SERVICE_FETCH", x, "services"), "SERVICE_FETCH", x, "services")
              /\ Is(Request("SELF_SUBSCRIBE", x, "handler"), "SELF_SUBSCRIBE", x, "handler")
            BY <3>1 DEF Asked, Request, Is
        <3>5. r \in Seq(Asked) /\ Len(r) = 2
              /\ Is(r[1], "SERVICE_FETCH", x, "services") /\ Is(r[2], "SELF_SUBSCRIBE", x, "handler")
            BY <3>4 DEF Subscribe
        <3> HIDE DEF r
        <3>6. Has(r, "SERVICE_FETCH", x, "services") /\ Has(r, "SELF_SUBSCRIBE", x, "handler")
            BY <3>5 DEF Has
        <3>7. \A i \in 1 .. Len(r) : r[i].by # "none"
            BY <3>5 DEF Is
        <3>8. Follows(Head(down), r)
            BY <3>1, <3>5, <3>6, <3>7 DEF Follows
        <3> QED
            BY <3>2, <3>8
    <2>3. CASE ReceiveService /\ ~By("services")
        <3> DEFINE x == Head(down).name
                   r == Subscribe(x)
        <3>1. Head(down).type = "SERVICE_FETCH_RESULT" /\ x \in Service /\ up' = up \o r
            BY <1>3, <2>3, SentSays DEF ReceiveService, Take, OfService, Told
        <3>2. r = <<Request("SELF_SUBSCRIBE", x, "handler")>>
            BY DEF Subscribe
        <3>3. /\ Request("SELF_SUBSCRIBE", x, "handler") \in Asked
              /\ Is(Request("SELF_SUBSCRIBE", x, "handler"), "SELF_SUBSCRIBE", x, "handler")
            BY <3>1 DEF Asked, Request, Is
        <3> HIDE DEF r
        <3>4. r \in Seq(Asked) /\ Len(r) = 1 /\ Is(r[1], "SELF_SUBSCRIBE", x, "handler")
            BY <3>2, <3>3
        <3>5. Has(r, "SELF_SUBSCRIBE", x, "handler")
            BY <3>4 DEF Has
        <3>6. \A i \in 1 .. Len(r) : r[i].by # "none"
            BY <3>4 DEF Is
        <3>7. Follows(Head(down), r)
            BY <3>1, <3>4, <3>5, <3>6 DEF Follows
        <3> QED
            BY <3>1, <3>7
    <2>4. CASE \/ ReceiveClients \/ ReceiveJoined \/ ReceiveLeft \/ ReceiveServices \/ ReceiveDeleted
               \/ ReceiveService /\ By("services")
               \/ ReceiveSubscribed \/ ReceiveUnsubscribed \/ ReceiveNothing
        <3>1. /\ up' = up
              /\ Head(down).type \notin {"HELLO", "SERVICE_CREATE_RESULT"}
              /\ Head(down).type = "SERVICE_FETCH_RESULT" => Head(down).by = "services"
            BY <2>4 DEF ReceiveClients, ReceiveJoined, ReceiveLeft, ReceiveServices, ReceiveDeleted, ReceiveService,
                        ReceiveSubscribed, ReceiveUnsubscribed, ReceiveNothing, Take, By
        <3>2. up = up \o <<>>
            BY <1>1
        <3>3. Follows(Head(down), <<>>)
            BY <3>1 DEF Follows
        <3> QED
            BY <3>1, <3>2, <3>3
    <2> QED
        BY <2>1, <2>2, <2>3, <2>4 DEF Receive
<1> QED
    BY <1>2, <1>3, <1>4

\* What a receive makes of a list is what the payload is said to do to it.
LEMMA ReceiveUsers ==
    ASSUME ViewerTyped, Receive
    PROVE  /\ users' \in Seq(Peer)
           /\ \A p \in Peer : p \in Range(users') <=>
                Head(down) \notin Removes(p) /\ (Head(down) \in Adds(p) \/ p \in Range(users))
           /\ IsInjective(users) /\ (Head(down).type = "CLIENT_JOINED" => Head(down).name \notin Range(users)) =>
                IsInjective(users')
<1> DEFINE m == Head(down)
<1>1. m \in Sent /\ users \in Seq(Peer)
    BY ReceiveAsks DEF ViewerTyped
<1>2. CASE ReceiveClients
    <2>1. m.type = "CLIENT_FETCH_ALL_RESULT" /\ users' = SetToSeq(m.name) /\ m.name \subseteq Peer
        BY <1>1, <1>2, SentSays DEF ReceiveClients, Take, Told
    <2>2. /\ SetToSeq(m.name) \in Seq(m.name) /\ Range(SetToSeq(m.name)) = m.name
          /\ IsInjective(SetToSeq(m.name))
        BY <2>1, FiniteAssumption, FS_Subset, SetToSeqCovers
    <2>3. users' \in Seq(Peer)
        BY <2>1, <2>2, SeqDef
    <2>4. \A p \in Peer : (m \in Removes(p) <=> p \notin m.name) /\ (m \in Adds(p) <=> p \in m.name)
        BY <1>1, <2>1 DEF Removes, Adds
    <2> QED
        BY <2>1, <2>2, <2>3, <2>4
<1>3. CASE ReceiveJoined
    <2>1. m.type = "CLIENT_JOINED" /\ users' = Append(users, m.name) /\ m.name \in Peer
        BY <1>1, <1>3, SentSays DEF ReceiveJoined, Take, Told
    <2>2. \A p \in Peer : m \notin Removes(p) /\ (m \in Adds(p) <=> p = m.name)
        BY <1>1, <2>1 DEF Removes, Adds
    <2>3. /\ users' \in Seq(Peer) /\ Range(users') = Range(users) \cup {m.name}
          /\ IsInjective(users) /\ m.name \notin Range(users) => IsInjective(users')
        BY <1>1, <2>1, AppendLeaves
    <2> QED
        BY <2>1, <2>2, <2>3
<1>4. CASE ReceiveLeft
    <2>1. m.type = "CLIENT_LEFT" /\ users' = Without(users, m.name)
        BY <1>4 DEF ReceiveLeft, Take, Told
    <2>2. \A p \in Peer : (m \in Removes(p) <=> p = m.name) /\ m \notin Adds(p)
        BY <1>1, <2>1 DEF Removes, Adds
    <2>3. /\ users' \in Seq(Peer) /\ Range(users') = Range(users) \ {m.name}
          /\ IsInjective(users) => IsInjective(users')
        BY <1>1, <2>1, WithoutLeaves
    <2> QED
        BY <2>2, <2>3
<1>5. CASE \/ ReceiveHello \/ ReceiveServices \/ ReceiveCreated \/ ReceiveService \/ ReceiveDeleted
           \/ ReceiveSubscribed \/ ReceiveUnsubscribed \/ ReceiveNothing
    <2>1. users' = users /\ m.type \notin {"CLIENT_FETCH_ALL_RESULT", "CLIENT_JOINED", "CLIENT_LEFT"}
        BY <1>5 DEF ReceiveHello, ReceiveServices, ReceiveCreated, ReceiveService, ReceiveDeleted,
                    ReceiveSubscribed, ReceiveUnsubscribed, ReceiveNothing, Take, viewer
    <2>2. \A p \in Peer : m \notin Removes(p) /\ m \notin Adds(p)
        BY <2>1 DEF Removes, Adds
    <2> QED
        BY <1>1, <2>1, <2>2
<1> QED
    BY <1>2, <1>3, <1>4, <1>5 DEF Receive

LEMMA ReceiveGroups ==
    ASSUME ViewerTyped, Receive
    PROVE  /\ groups' \in Seq(Service)
           /\ \A x \in Service : x \in Range(groups') <=>
                Head(down) \notin Unlists(x) /\ (Head(down) \in Lists(x) \/ x \in Range(groups))
<1> DEFINE m == Head(down)
<1>1. m \in Sent /\ groups \in Seq(Service)
    BY ReceiveAsks DEF ViewerTyped
<1>2. CASE ReceiveServices
    <2>1. m.type = "SERVICE_FETCH_ALL_RESULT" /\ groups' = SetToSeq(m.name) /\ m.name \subseteq Service
        BY <1>1, <1>2, SentSays DEF ReceiveServices, Take, Told
    <2>2. SetToSeq(m.name) \in Seq(m.name) /\ Range(SetToSeq(m.name)) = m.name
        BY <2>1, FiniteAssumption, FS_Subset, SetToSeqCovers
    <2>3. groups' \in Seq(Service)
        BY <2>1, <2>2, SeqDef
    <2>4. \A x \in Service : (m \in Unlists(x) <=> x \notin m.name) /\ (m \in Lists(x) <=> x \in m.name)
        BY <1>1, <2>1 DEF Unlists, Lists
    <2> QED
        BY <2>1, <2>2, <2>3, <2>4
<1>3. CASE ReceiveService /\ By("services")
    <2>1. /\ m.type = "SERVICE_FETCH_RESULT" /\ m.by = "services"
          /\ groups' = Append(groups, m.name) /\ m.name \in Service
        BY <1>1, <1>3, SentSays DEF ReceiveService, Take, Told, By, OfService
    <2>2. \A x \in Service : m \notin Unlists(x) /\ (m \in Lists(x) <=> x = m.name)
        BY <1>1, <2>1 DEF Unlists, Lists
    <2>3. groups' \in Seq(Service) /\ Range(groups') = Range(groups) \cup {m.name}
        BY <1>1, <2>1, AppendLeaves
    <2> QED
        BY <2>2, <2>3
<1>4. CASE ReceiveDeleted
    <2>1. m.type = "SERVICE_DELETE_RESULT" /\ groups' = Without(groups, m.name)
        BY <1>4 DEF ReceiveDeleted, Take, Told
    <2>2. \A x \in Service : (m \in Unlists(x) <=> x = m.name) /\ m \notin Lists(x)
        BY <1>1, <2>1 DEF Unlists, Lists
    <2>3. groups' \in Seq(Service) /\ Range(groups') = Range(groups) \ {m.name}
        BY <1>1, <2>1, WithoutLeaves
    <2> QED
        BY <2>2, <2>3
<1>5. CASE \/ ReceiveHello \/ ReceiveClients \/ ReceiveJoined \/ ReceiveLeft \/ ReceiveCreated
           \/ ReceiveService /\ ~By("services")
           \/ ReceiveSubscribed \/ ReceiveUnsubscribed \/ ReceiveNothing
    <2>1. /\ groups' = groups /\ m.type \notin {"SERVICE_FETCH_ALL_RESULT", "SERVICE_DELETE_RESULT"}
          /\ m.type = "SERVICE_FETCH_RESULT" => m.by # "services"
        BY <1>5 DEF ReceiveHello, ReceiveClients, ReceiveJoined, ReceiveLeft, ReceiveCreated, ReceiveService,
                    ReceiveSubscribed, ReceiveUnsubscribed, ReceiveNothing, Take, By, viewer
    <2>2. \A x \in Service : m \notin Unlists(x) /\ m \notin Lists(x)
        BY <2>1 DEF Unlists, Lists
    <2> QED
        BY <1>1, <2>1, <2>2
<1> QED
    BY <1>2, <1>3, <1>4, <1>5 DEF Receive

\* A tab is shown of subscribed handlers only, so losing the subscription shuts it.
LEMMA ReceiveTabs ==
    ASSUME ViewerTyped, Receive
    PROVE  /\ subscribed' \in [Service -> BOOLEAN] /\ tabs' \subseteq {x \in Service : subscribed'[x] = TRUE}
           /\ \A x \in Service : x \in tabs' <=>
                Head(down) \notin Shuts(x) /\ (Head(down) \in Opens(x) \/ x \in tabs)
<1> DEFINE m == Head(down)
<1>1. /\ m \in Sent /\ subscribed \in [Service -> BOOLEAN]
      /\ tabs \subseteq Service /\ \A x \in tabs : subscribed[x] = TRUE
    BY ReceiveAsks DEF ViewerTyped
<1>2. CASE ReceiveDeleted \/ ReceiveUnsubscribed
    <2>1. /\ m.type \in {"SERVICE_DELETE_RESULT", "SELF_UNSUBSCRIBE_RESULT"} /\ m.name \in Service
          /\ subscribed' = [subscribed EXCEPT ![m.name] = FALSE]
          /\ tabs' = IF subscribed[m.name] THEN tabs \ {m.name} ELSE tabs
        BY <1>1, <1>2, SentSays DEF ReceiveDeleted, ReceiveUnsubscribed, Take, Told, OfService
    <2>2. \A x \in Service : (m \in Shuts(x) <=> x = m.name) /\ m \notin Opens(x)
        BY <1>1, <2>1 DEF Shuts, Opens
    <2>3. tabs' = tabs \ {m.name}
        <3>1. CASE m.name \in tabs
            <4>1. subscribed[m.name]
                BY <1>1, <3>1
            <4> QED
                BY <2>1, <4>1
        <3>2. CASE m.name \notin tabs
            BY <2>1, <3>2
        <3> QED
            BY <3>1, <3>2
    <2>4. \A x \in tabs' : subscribed'[x] = TRUE
        BY <1>1, <2>1, <2>3
    <2>5. subscribed' \in [Service -> BOOLEAN]
        BY <1>1, <2>1
    <2> QED
        BY <1>1, <2>2, <2>3, <2>4, <2>5
<1>3. CASE ReceiveSubscribed /\ By("handler")
    <2>1. /\ m.type = "SELF_SUBSCRIBE_RESULT" /\ m.by = "handler" /\ m.name \in Service
          /\ subscribed' = [subscribed EXCEPT ![m.name] = TRUE]
          /\ tabs' = tabs \cup {m.name}
        BY <1>1, <1>3, SentSays DEF ReceiveSubscribed, Take, Told, By, OfService
    <2>2. \A x \in Service : m \notin Shuts(x) /\ (m \in Opens(x) <=> x = m.name)
        BY <1>1, <2>1 DEF Shuts, Opens
    <2>3. \A x \in tabs' : subscribed'[x] = TRUE
        BY <1>1, <2>1
    <2>4. subscribed' \in [Service -> BOOLEAN]
        BY <1>1, <2>1
    <2> QED
        BY <1>1, <2>1, <2>2, <2>3, <2>4
<1>4. CASE \/ ReceiveHello \/ ReceiveClients \/ ReceiveJoined \/ ReceiveLeft \/ ReceiveServices \/ ReceiveCreated
           \/ ReceiveService \/ ReceiveNothing
           \/ ReceiveSubscribed /\ ~By("handler")
    <2>1. /\ UNCHANGED <<subscribed, tabs>>
          /\ m.type \notin {"SERVICE_DELETE_RESULT", "SELF_UNSUBSCRIBE_RESULT"}
          /\ m.type = "SELF_SUBSCRIBE_RESULT" => m.by # "handler"
        BY <1>4 DEF ReceiveHello, ReceiveClients, ReceiveJoined, ReceiveLeft, ReceiveServices, ReceiveCreated,
                    ReceiveService, ReceiveSubscribed, ReceiveNothing, Take, By, viewer
    <2>2. \A x \in Service : m \notin Shuts(x) /\ m \notin Opens(x)
        BY <2>1 DEF Shuts, Opens
    <2> QED
        BY <1>1, <2>1, <2>2
<1> QED
    BY <1>2, <1>3, <1>4 DEF Receive

-----------------------------------------------------------------------------
(* What is sent to the viewer, and taken in                                *)

\* What a list will have been made of by what is on its way changes with what is sent.
LEMMA Posted ==
    ASSUME ViewerTyped, NEW m \in Sent, down' = Append(down, m), UNCHANGED <<users, groups, tabs>>
    PROVE  /\ \A p \in Peer : WillKnow(p)' <=> m \notin Removes(p) /\ (m \in Adds(p) \/ WillKnow(p))
           /\ \A x \in Service : WillList(x)' <=> m \notin Unlists(x) /\ (m \in Lists(x) \/ WillList(x))
           /\ \A x \in Service : WillShow(x)' <=> m \notin Shuts(x) /\ (m \in Opens(x) \/ WillShow(x))
           /\ \A type, x, by : Has(down', type, x, by) <=> Has(down, type, x, by) \/ Is(m, type, x, by)
           /\ \A p \in Peer : NewOnly(p) /\ (m.type = "CLIENT_JOINED" /\ m.name = p => ~WillKnow(p)) => NewOnly(p)'
<1>1. down \in Seq(Sent)
    BY DEF ViewerTyped
<1>2. ASSUME NEW p \in Peer
      PROVE  WillKnow(p)' <=> m \notin Removes(p) /\ (m \in Adds(p) \/ WillKnow(p))
    <2>1. Range(users)' = Range(users) /\ Adds(p)' = Adds(p) /\ Removes(p)' = Removes(p)
        BY DEF Range, Adds, Removes
    <2> QED
        BY <1>1, <2>1, FinallyAppended DEF WillKnow
<1>3. ASSUME NEW x \in Service
      PROVE  WillList(x)' <=> m \notin Unlists(x) /\ (m \in Lists(x) \/ WillList(x))
    <2>1. Range(groups)' = Range(groups)
        BY DEF Range
    <2> QED
        BY <1>1, <2>1, FinallyAppended DEF WillList
<1>4. ASSUME NEW x \in Service
      PROVE  WillShow(x)' <=> m \notin Shuts(x) /\ (m \in Opens(x) \/ WillShow(x))
    BY <1>1, FinallyAppended DEF WillShow
<1>5. \A type, x, by : Has(down', type, x, by) <=> Has(down, type, x, by) \/ Is(m, type, x, by)
    BY <1>1, HasAppended
<1>6. ASSUME NEW p \in Peer, NewOnly(p), m.type = "CLIENT_JOINED" /\ m.name = p => ~WillKnow(p)
      PROVE  NewOnly(p)'
    <2>1. /\ Len(down) \in Nat /\ Len(down') = Len(down) + 1
          /\ \A i \in 1 .. Len(down) : down'[i] = down[i] /\ SubSeq(down', 1, i - 1) = SubSeq(down, 1, i - 1)
          /\ down'[Len(down) + 1] = m
        BY <1>1
    <2>2. SubSeq(down', 1, Len(down')  - 1) = down
        BY <1>1, <2>1
    <2>3. \A i \in 1 .. Len(down') : i \in 1 .. Len(down) \/ i = Len(down')
        BY <2>1
    <2> SUFFICES ASSUME NEW i \in 1 .. Len(down'), down'[i].type = "CLIENT_JOINED", down'[i].name = p
                 PROVE  ~Finally(SubSeq(down', 1, i - 1), p, Range(users), Adds(p), Removes(p))
        BY DEF NewOnly
    <2>4. CASE i \in 1 .. Len(down)
        BY <1>6, <2>1, <2>4 DEF NewOnly
    <2>5. CASE i = Len(down')
        BY <1>6, <2>1, <2>2, <2>5 DEF WillKnow
    <2> QED
        BY <2>3, <2>4, <2>5
<1> QED
    BY <1>2, <1>3, <1>4, <1>5, <1>6

\* Nothing changes in what will have been made of a list when a payload is taken in.
LEMMA TakenIn ==
    ASSUME ViewerTyped, Receive
    PROVE  /\ \A p \in Peer : WillKnow(p)' <=> WillKnow(p)
           /\ \A x \in Service : WillList(x)' <=> WillList(x)
           /\ \A x \in Service : WillShow(x)' <=> WillShow(x)
           /\ \A type, x, by : Has(down, type, x, by) <=> Has(down', type, x, by) \/ Is(Head(down), type, x, by)
           /\ \A p \in Peer : NewOnly(p) => NewOnly(p)'
           /\ \A p \in Peer : NewOnly(p) /\ Head(down).type = "CLIENT_JOINED" /\ Head(down).name = p =>
                p \notin Range(users)
<1>1. down \in Seq(Sent) /\ down # <<>> /\ down' = Tail(down)
    BY ReceiveAsks DEF ViewerTyped
<1>2. ASSUME NEW p \in Peer
      PROVE  p \in Range(users') <=> Head(down) \notin Removes(p) /\ (Head(down) \in Adds(p) \/ p \in Range(users))
    BY ReceiveUsers
<1>3. ASSUME NEW p \in Peer
      PROVE  WillKnow(p)' <=> WillKnow(p)
    BY <1>1, <1>2, FinallyTaken DEF WillKnow
<1>4. ASSUME NEW x \in Service
      PROVE  WillList(x)' <=> WillList(x)
    <2>1. x \in Range(groups') <=> Head(down) \notin Unlists(x) /\ (Head(down) \in Lists(x) \/ x \in Range(groups))
        BY ReceiveGroups
    <2> QED
        BY <1>1, <2>1, FinallyTaken DEF WillList
<1>5. ASSUME NEW x \in Service
      PROVE  WillShow(x)' <=> WillShow(x)
    <2>1. x \in tabs' <=> Head(down) \notin Shuts(x) /\ (Head(down) \in Opens(x) \/ x \in tabs)
        BY ReceiveTabs
    <2> QED
        BY <1>1, <2>1, FinallyTaken DEF WillShow
<1>6. \A type, x, by : Has(down, type, x, by) <=> Has(down', type, x, by) \/ Is(Head(down), type, x, by)
    BY <1>1, HasTaken
<1>7. ASSUME NEW p \in Peer, NewOnly(p)
      PROVE  NewOnly(p)'
    <2> SUFFICES ASSUME NEW i \in 1 .. Len(down'), down'[i].type = "CLIENT_JOINED", down'[i].name = p
                 PROVE  ~Finally(SubSeq(down', 1, i - 1), p, Range(users'), Adds(p), Removes(p))
        BY DEF NewOnly
    <2> DEFINE before == SubSeq(down, 1, i)
    <2>1. Len(down) \in Nat \ {0} /\ Len(down') = Len(down) - 1 /\ i + 1 \in 1 .. Len(down) /\ down'[i] = down[i + 1]
        BY <1>1
    <2>2. before \in Seq(Sent) /\ Len(before) = i /\ before # <<>> /\ Head(before) = Head(down)
        BY <1>1, <2>1
    <2>3. SubSeq(down', 1, i - 1) = Tail(before)
        <3>1. /\ SubSeq(down', 1, i - 1) \in Seq(Sent) /\ Tail(before) \in Seq(Sent)
              /\ Len(SubSeq(down', 1, i - 1)) = i - 1 /\ Len(Tail(before)) = i - 1
            BY <1>1, <2>1, <2>2
        <3>2. \A j \in 1 .. i - 1 : SubSeq(down', 1, i - 1)[j] = Tail(before)[j]
            BY <1>1, <2>1, <2>2
        <3> QED
            BY <3>1, <3>2, SeqEqual
    <2>4. ~Finally(before, p, Range(users), Adds(p), Removes(p))
        <3>1. (i + 1) - 1 = i
            OBVIOUS
        <3> QED
            BY <1>7, <2>1, <3>1 DEF NewOnly
    <2> HIDE DEF before
    <2>5. Finally(Tail(before), p, Range(users'), Adds(p), Removes(p)) <=>
            Finally(before, p, Range(users), Adds(p), Removes(p))
        BY <1>2, <2>2, FinallyTaken
    <2> QED
        BY <2>3, <2>4, <2>5
<1>8. ASSUME NEW p \in Peer, NewOnly(p), Head(down).type = "CLIENT_JOINED", Head(down).name = p
      PROVE  p \notin Range(users)
    <2>1. 1 \in 1 .. Len(down) /\ down[1] = Head(down) /\ SubSeq(down, 1, 1 - 1) = <<>>
        BY <1>1
    <2>2. ~Finally(<<>>, p, Range(users), Adds(p), Removes(p))
        BY <1>8, <2>1 DEF NewOnly
    <2> QED
        BY <2>2 DEF Finally
<1> QED
    BY <1>3, <1>4, <1>5, <1>6, <1>7, <1>8

LEMMA AnswerSays ==
    ASSUME ViewerTyped, NEW q \in Asked
    PROVE  /\ Answer(q) \in Sent
           /\ Answer(q).type \in {"CLIENT_FETCH_ALL_RESULT", "SERVICE_FETCH_ALL_RESULT", "INVALID_SERVICE",
                "SERVICE_FETCH_RESULT", "SELF_SUBSCRIBE_RESULT", "SELF_UNSUBSCRIBE_RESULT", "ALREADY"}
           /\ Answer(q).type = "CLIENT_FETCH_ALL_RESULT" <=> q.type = "CLIENT_FETCH_ALL"
           /\ q.type = "CLIENT_FETCH_ALL" => Answer(q).name = members
           /\ Answer(q).type = "SERVICE_FETCH_ALL_RESULT" <=> q.type = "SERVICE_FETCH_ALL"
           /\ q.type = "SERVICE_FETCH_ALL" => Answer(q).name = services
           /\ q.type \notin {"CLIENT_FETCH_ALL", "SERVICE_FETCH_ALL"} =>
                Answer(q).name = q.name /\ q.name \in Service
           /\ Answer(q).by = q.by
           /\ Answer(q).type = "SERVICE_FETCH_RESULT" <=> q.type = "SERVICE_FETCH" /\ q.name \in services
           /\ Answer(q).type = "SELF_SUBSCRIBE_RESULT" <=>
                q.type = "SELF_SUBSCRIBE" /\ q.name \in services /\ q.name \notin mine
           /\ Answer(q).type = "SELF_UNSUBSCRIBE_RESULT" <=>
                q.type = "SELF_UNSUBSCRIBE" /\ q.name \in services /\ q.name \in mine
<1>0. members \subseteq Peer /\ services \subseteq Service
    BY DEF ViewerTyped
<1>1. /\ q.type \in {"CLIENT_FETCH_ALL", "SERVICE_FETCH_ALL"} => q.name = All
      /\ q.type = "CLIENT_FETCH_ALL" => q.by = "clients"
      /\ q.type = "SERVICE_FETCH_ALL" => q.by = "services"
      /\ q.type \notin {"CLIENT_FETCH_ALL", "SERVICE_FETCH_ALL"} =>
            /\ q.type \in {"SERVICE_FETCH", "SELF_SUBSCRIBE", "SELF_UNSUBSCRIBE"}
            /\ q.name \in Service /\ q.by \in {"services", "handler", "none"}
    BY DEF Asked
<1>2. CASE q.type = "CLIENT_FETCH_ALL"
    <2>1. Answer(q) = Payload("CLIENT_FETCH_ALL_RESULT", members, q.by)
        BY <1>2 DEF Answer
    <2> QED
        BY <1>0, <1>1, <1>2, <2>1 DEF Payload, Sent
<1>3. CASE q.type = "SERVICE_FETCH_ALL"
    <2>1. Answer(q) = Payload("SERVICE_FETCH_ALL_RESULT", services, q.by)
        BY <1>3 DEF Answer
    <2> QED
        BY <1>0, <1>1, <1>3, <2>1 DEF Payload, Sent
<1>4. CASE q.type \in {"SERVICE_FETCH", "SELF_SUBSCRIBE", "SELF_UNSUBSCRIBE"}
    <2> DEFINE told == Outcome(q.type, q.name)
    <2>1. Answer(q) = Payload(told, q.name, q.by)
        BY <1>4 DEF Answer
    <2>2. told \in OfService
        BY <1>4 DEF OfService, Outcome
    <2>3. Answer(q) \in Sent /\ Answer(q).type = told /\ Answer(q).name = q.name /\ Answer(q).by = q.by
        <3> HIDE DEF told
        <3> QED
            BY <1>1, <1>4, <2>1, <2>2 DEF Payload, Sent
    <2> QED
        BY <1>1, <1>4, <2>3 DEF Outcome
<1> QED
    BY <1>1, <1>2, <1>3, <1>4

-----------------------------------------------------------------------------
(* The steps                                                               *)

\* The other clients change the directory as the payload says that is sent of it.
LEMMA OthersPost ==
    ASSUME ViewerTyped, Others, online = TRUE
    PROVE  \E m \in Sent :
        /\ down' = Append(down, m) /\ UNCHANGED <<up, online, viewer, clicked>> /\ m.by = "none"
        /\ \/ /\ m.type = "CLIENT_JOINED" /\ m.name \in Peer \ members
              /\ members' = members \cup {m.name} /\ UNCHANGED <<services, mine>>
           \/ /\ m.type = "CLIENT_LEFT" /\ m.name \in members
              /\ members' = members \ {m.name} /\ UNCHANGED <<services, mine>>
           \/ /\ m.type = "SERVICE_CREATE_RESULT" /\ m.name \in Service \ services
              /\ services' = services \cup {m.name} /\ UNCHANGED <<members, mine>>
           \/ /\ m.type = "SERVICE_DELETE_RESULT" /\ m.name \in services
              /\ services' = services \ {m.name} /\ mine' = mine \ {m.name} /\ UNCHANGED members
<1>1. \A p \in Peer : /\ Payload("CLIENT_JOINED", p, "none") \in Sent
                      /\ Payload("CLIENT_LEFT", p, "none") \in Sent
    BY DEF Payload, Sent
<1>2. \A x \in Service : /\ Payload("SERVICE_CREATE_RESULT", x, "none") \in Sent
                         /\ Payload("SERVICE_DELETE_RESULT", x, "none") \in Sent
    BY DEF Payload, Sent, OfService
<1>3. \A type, x : Announce(type, x) = Append(down, Payload(type, x, "none"))
    BY DEF Announce
<1>4. \A type, x : /\ Payload(type, x, "none").type = type /\ Payload(type, x, "none").name = x
                   /\ Payload(type, x, "none").by = "none"
    BY DEF Payload
<1>5. CASE \E p \in Peer : Join(p)
    <2>1. PICK p \in Peer : Join(p)
        BY <1>5
    <2> DEFINE m == Payload("CLIENT_JOINED", p, "none")
    <2>2. m \in Sent /\ m.type = "CLIENT_JOINED" /\ m.name = p /\ m.by = "none"
        BY <1>1, <1>4
    <2> HIDE DEF m
    <2>3. down' = Append(down, m)
        BY <1>3, <2>1 DEF Join, m
    <2> QED
        BY <2>1, <2>2, <2>3 DEF Join
<1>6. CASE \E p \in Peer : Leave(p)
    <2>1. PICK p \in Peer : Leave(p)
        BY <1>6
    <2> DEFINE m == Payload("CLIENT_LEFT", p, "none")
    <2>2. m \in Sent /\ m.type = "CLIENT_LEFT" /\ m.name = p /\ m.by = "none"
        BY <1>1, <1>4
    <2> HIDE DEF m
    <2>3. down' = Append(down, m)
        BY <1>3, <2>1 DEF Leave, m
    <2> QED
        BY <2>1, <2>2, <2>3 DEF Leave
<1>7. CASE \E x \in Service : Create(x)
    <2>1. PICK x \in Service : Create(x)
        BY <1>7
    <2> DEFINE m == Payload("SERVICE_CREATE_RESULT", x, "none")
    <2>2. m \in Sent /\ m.type = "SERVICE_CREATE_RESULT" /\ m.name = x /\ m.by = "none"
        BY <1>2, <1>4
    <2> HIDE DEF m
    <2>3. down' = Append(down, m)
        BY <1>3, <2>1 DEF Create, m
    <2> QED
        BY <2>1, <2>2, <2>3 DEF Create
<1>8. CASE \E x \in Service : Delete(x)
    <2>1. PICK x \in Service : Delete(x)
        BY <1>8
    <2> DEFINE m == Payload("SERVICE_DELETE_RESULT", x, "none")
    <2>2. m \in Sent /\ m.type = "SERVICE_DELETE_RESULT" /\ m.name = x /\ m.by = "none"
        BY <1>2, <1>4
    <2> HIDE DEF m
    <2>3. down' = Append(down, m)
        BY <1>3, <2>1 DEF Delete, m
    <2> QED
        BY <2>1, <2>2, <2>3 DEF Delete
<1> QED
    BY <1>5, <1>6, <1>7, <1>8 DEF Others

LEMMA ServeAnswers ==
    ASSUME ViewerTyped, Serve
    PROVE  /\ up # <<>> /\ Head(up) \in Asked /\ up' = Tail(up) /\ up' \in Seq(Asked) /\ online = TRUE
           /\ Answer(Head(up)) \in Sent /\ down' = Append(down, Answer(Head(up)))
           /\ UNCHANGED <<members, services, online, viewer, clicked>>
           /\ \A x \in Service : x \in mine' <=>
                \/ x \in mine /\ ~(Head(up).type = "SELF_UNSUBSCRIBE" /\ Head(up).name = x)
                \/ x \in services /\ Head(up).type = "SELF_SUBSCRIBE" /\ Head(up).name = x
           /\ mine' \subseteq services
<1>1. up \in Seq(Asked) /\ up # <<>> /\ up' = Tail(up) /\ online = TRUE
    BY DEF ViewerTyped, Serve
<1>2. Head(up) \in Asked /\ up' \in Seq(Asked)
    BY <1>1
<1>3. down' = Append(down, Answer(Head(up))) /\ UNCHANGED <<members, services, online, viewer, clicked>>
    BY DEF Serve
<1>4. mine \subseteq services /\ services \subseteq Service
    BY DEF ViewerTyped
<1>5. CASE Head(up).type = "SELF_SUBSCRIBE"
    <2>1. mine' = mine \cup ({Head(up).name} \cap services)
        BY <1>5 DEF Serve
    <2> QED
        BY <1>1, <1>2, <1>3, <1>4, <1>5, <2>1, AnswerSays
<1>6. CASE Head(up).type = "SELF_UNSUBSCRIBE"
    <2>1. mine' = mine \ {Head(up).name}
        BY <1>6 DEF Serve
    <2> QED
        BY <1>1, <1>2, <1>3, <1>4, <1>6, <2>1, AnswerSays
<1>7. CASE Head(up).type \notin {"SELF_SUBSCRIBE", "SELF_UNSUBSCRIBE"}
    <2>1. mine' = mine
        BY <1>7 DEF Serve
    <2> QED
        BY <1>1, <1>2, <1>3, <1>4, <1>7, <2>1, AnswerSays
<1> QED
    BY <1>5, <1>6, <1>7

\* What the user asks for is in the user's name.
UserAsks(x) == UserSubscribes(x) \/ UserUnsubscribes(x)

LEMMA UserAppends ==
    ASSUME ViewerTyped, NEW x \in Service, UserAsks(x)
    PROVE  /\ UNCHANGED <<server, down, viewer>> /\ clicked' = clicked \cup {x} /\ online = TRUE
           /\ \E r \in Seq(Asked) : up' = up \o r /\ \A i \in 1 .. Len(r) : r[i].by = "none" => r[i].name = x
<1>1. /\ up \in Seq(Asked)
      /\ Request("SELF_SUBSCRIBE", x, "handler") \in Asked
      /\ Request("SELF_SUBSCRIBE", x, "none") \in Asked /\ Request("SELF_UNSUBSCRIBE", x, "none") \in Asked
      /\ \A type, by : Request(type, x, by).name = x
    BY DEF ViewerTyped, Asked, Request
<1>2. CASE UserSubscribes(x)
    <2> DEFINE a == Request("SELF_SUBSCRIBE", x, "handler")
               b == Request("SELF_SUBSCRIBE", x, "none")
               r == <<a>> \o <<b>>
    <2> HIDE DEF a, b
    <2>1. a \in Asked /\ b \in Asked /\ a.name = x /\ b.name = x
        BY <1>1 DEF a, b
    <2>2. up' = up \o <<a>> \o <<b>>
        BY <1>2 DEF UserSubscribes, Subscribe, a, b
    <2>3. up' = up \o r
        BY <1>1, <2>1, <2>2, ConcatAssociative
    <2>4. r \in Seq(Asked) /\ \A i \in 1 .. Len(r) : r[i].name = x
        BY <2>1
    <2> HIDE DEF r
    <2> QED
        BY <1>2, <2>3, <2>4 DEF UserSubscribes
<1>3. CASE UserUnsubscribes(x)
    <2> DEFINE b == Request("SELF_UNSUBSCRIBE", x, "none")
               r == [i \in 1 .. 2 |-> b]
    <2> HIDE DEF b
    <2>1. b \in Asked /\ b.name = x
        BY <1>1 DEF b
    <2>2. up' = up \o r
        BY <1>3 DEF UserUnsubscribes, b
    <2>3. r \in Seq(Asked) /\ \A i \in 1 .. Len(r) : r[i].name = x
        <3>1. r \in [1 .. 2 -> Asked] /\ 2 \in Nat
            BY <2>1
        <3>2. r \in Seq(Asked)
            BY <3>1, SeqDef
        <3>3. Len(r) = 2
            BY <3>1
        <3> QED
            BY <2>1, <3>2, <3>3
    <2> HIDE DEF r
    <2> QED
        BY <1>3, <2>2, <2>3 DEF UserUnsubscribes
<1> QED
    BY <1>2, <1>3 DEF UserAsks

LEMMA ConnectGreets ==
    ASSUME ViewerTyped, Connect
    PROVE  /\ ~online /\ online' = TRUE /\ down' \in Seq(Sent) /\ Has(down', "HELLO", All, "none")
           /\ Len(down') = 1 /\ down'[1].type = "HELLO"
           /\ UNCHANGED <<members, services, mine, up, viewer, clicked>>
<1>1. down' = <<Payload("HELLO", All, "none")>>
    BY DEF Connect
<1>2. Payload("HELLO", All, "none") \in Sent /\ Is(Payload("HELLO", All, "none"), "HELLO", All, "none")
    BY DEF Payload, Sent, Is
<1>3. down' \in Seq(Sent) /\ Len(down') = 1 /\ Is(down'[1], "HELLO", All, "none")
    BY <1>1, <1>2
<1>4. Has(down', "HELLO", All, "none")
    BY <1>3 DEF Has
<1> QED
    BY <1>3, <1>4 DEF Connect, Is

LEMMA TypedStep ==
    ASSUME ViewerTyped, [ViewerNext]_viewerVars
    PROVE  ViewerTyped'
<1>1. CASE Others
    <2>1. CASE online = TRUE
        <3>1. PICK m \in Sent :
                /\ down' = Append(down, m) /\ UNCHANGED <<up, online, viewer, clicked>>
                /\ \/ members' = members \cup {m.name} /\ m.name \in Peer /\ UNCHANGED <<services, mine>>
                   \/ members' = members \ {m.name} /\ UNCHANGED <<services, mine>>
                   \/ services' = services \cup {m.name} /\ m.name \in Service /\ UNCHANGED <<members, mine>>
                   \/ /\ services' = services \ {m.name} /\ mine' = mine \ {m.name}
                      /\ UNCHANGED members
            BY <1>1, <2>1, OthersPost
        <3>2. down' \in Seq(Sent)
            BY <3>1 DEF ViewerTyped
        <3> QED
            BY <2>1, <3>1, <3>2 DEF ViewerTyped, viewer
    <2>2. CASE online = FALSE
        <3>1. UNCHANGED <<online, up, down, viewer, clicked>>
            BY <1>1, <2>2 DEF Others, Join, Leave, Create, Delete, Announce
        <3>2. members' \subseteq Peer /\ services' \subseteq Service /\ mine' = {}
            BY <1>1, <2>2 DEF Others, Join, Leave, Create, Delete, ViewerTyped
        <3> QED
            BY <2>2, <3>1, <3>2 DEF ViewerTyped, viewer
    <2> QED
        BY <2>1, <2>2 DEF ViewerTyped
<1>2. CASE Serve
    <2>1. /\ up' \in Seq(Asked) /\ online = TRUE /\ Answer(Head(up)) \in Sent
          /\ down' = Append(down, Answer(Head(up)))
          /\ UNCHANGED <<members, services, online, viewer, clicked>> /\ mine' \subseteq services
        BY <1>2, ServeAnswers
    <2>2. down' \in Seq(Sent)
        BY <2>1 DEF ViewerTyped
    <2> QED
        BY <2>1, <2>2 DEF ViewerTyped, viewer
<1>3. CASE Receive
    <2>1. /\ down # <<>> /\ down' \in Seq(Sent) /\ UNCHANGED <<members, services, mine, online, clicked>>
          /\ \E r \in Seq(Asked) : up' = up \o r
        BY <1>3, ReceiveAsks DEF Follows
    <2>2. up' \in Seq(Asked)
        BY <2>1 DEF ViewerTyped
    <2>3. users' \in Seq(Peer) /\ groups' \in Seq(Service)
        BY <1>3, ReceiveUsers, ReceiveGroups
    <2>4. subscribed' \in [Service -> BOOLEAN] /\ tabs' \subseteq {x \in Service : subscribed'[x] = TRUE}
        BY <1>3, ReceiveTabs
    <2> QED
        BY <2>1, <2>2, <2>3, <2>4 DEF ViewerTyped
<1>4. CASE \E x \in Service : UserAsks(x)
    <2>1. PICK x \in Service : UserAsks(x)
        BY <1>4
    <2>2. PICK r \in Seq(Asked) : up' = up \o r
        BY <2>1, UserAppends
    <2>3. up' \in Seq(Asked)
        BY <2>2 DEF ViewerTyped
    <2>4. UNCHANGED <<server, down, viewer>> /\ clicked' = clicked \cup {x} /\ online = TRUE
        BY <2>1, UserAppends
    <2> QED
        BY <2>3, <2>4 DEF ViewerTyped, server, viewer
<1>5. CASE Connect
    BY <1>5, ConnectGreets DEF ViewerTyped, viewer
<1>6. CASE Close
    <2>1. tabs' = {}
        BY <1>6 DEF Close, ViewerTyped
    <2>2. /\ online' = FALSE /\ mine' = {} /\ clicked' = {}
          /\ up' = <<>> /\ down' = <<>> /\ users' = <<>> /\ groups' = <<>>
          /\ UNCHANGED <<members, services, subscribed>>
        BY <1>6 DEF Close
    <2>3. up' \in Seq(Asked) /\ down' \in Seq(Sent) /\ users' \in Seq(Peer) /\ groups' \in Seq(Service)
        BY <2>2
    <2>4. members' \subseteq Peer /\ services' \subseteq Service /\ subscribed' \in [Service -> BOOLEAN]
        BY <2>2 DEF ViewerTyped
    <2> QED
        BY <2>1, <2>2, <2>3, <2>4 DEF ViewerTyped
<1>7. CASE UNCHANGED viewerVars
    BY <1>7 DEF viewerVars, server, viewer, ViewerTyped
<1> QED
    BY <1>1, <1>2, <1>3, <1>4, <1>5, <1>6, <1>7 DEF ViewerNext, UserAsks

\* Without a connection there is nothing to be right about.
LEMMA OfflineKnows ==
    ASSUME ViewerTyped, ~online
    PROVE  /\ down = <<>> /\ up = <<>> /\ users = <<>> /\ mine = {}
           /\ \A p \in Peer : ~WillKnow(p) /\ NewOnly(p)
           /\ \A x \in Service : ~WillList(x) /\ ~WillShow(x)
           /\ \A type, x, by : ~Has(up, type, x, by) /\ ~Has(down, type, x, by)
<1>1. down = <<>> /\ up = <<>> /\ users = <<>> /\ groups = <<>> /\ mine = {} /\ tabs = {}
    BY DEF ViewerTyped
<1>2. Range(<<>>) = {} /\ \A i \in 1 .. Len(<<>>) : FALSE
    BY DEF Range
<1>3. \A x, on, off : ~Finally(<<>>, x, {}, on, off)
    BY <1>2 DEF Finally
<1>4. \A type, x, by : ~Has(<<>>, type, x, by)
    BY <1>2 DEF Has
<1> QED
    BY <1>1, <1>2, <1>3, <1>4 DEF WillKnow, WillList, WillShow, NewOnly

LEMMA GreetingSays ==
    ASSUME ViewerTyped, Connect
    PROVE  /\ ~Greeted'
           /\ \A p \in Peer : WillKnow(p)' <=> WillKnow(p)
           /\ \A p \in Peer : NewOnly(p)'
           /\ \A x \in Service : (WillList(x)' <=> WillList(x)) /\ (WillShow(x)' <=> WillShow(x))
<1>1. /\ ~online /\ Has(down', "HELLO", All, "none") /\ down' \in Seq(Sent) /\ Len(down') = 1
      /\ down'[1].type = "HELLO" /\ UNCHANGED viewer
    BY ConnectGreets
<1>2. down = <<>> /\ users = <<>> /\ groups = <<>> /\ tabs = {}
    BY <1>1 DEF ViewerTyped
<1>3. \A i \in 1 .. Len(down') : down'[i].type = "HELLO"
    BY <1>1
<1>4. \A p \in Peer : NewOnly(p)'
    BY <1>3 DEF NewOnly
<1>5. /\ \A p \in Peer : ~WillKnow(p)
      /\ \A x \in Service : ~WillList(x) /\ ~WillShow(x)
    BY <1>1, OfflineKnows
<1>6. UNCHANGED <<Range(users), Range(groups), tabs>> /\ Range(<<>>) = {}
    BY <1>1 DEF viewer, Range
<1>7. ASSUME NEW x, NEW on, NEW off, \A i \in 1 .. Len(down') : down'[i] \notin on
      PROVE  ~Finally(down', x, {}, on, off)
    BY <1>7 DEF Finally
<1>8. ASSUME NEW x
      PROVE  \A i \in 1 .. Len(down') : /\ down'[i] \notin Adds(x)
                                         /\ down'[i] \notin Lists(x)
                                         /\ down'[i] \notin Opens(x)
    BY <1>3 DEF Adds, Lists, Opens
<1>9. \A p \in Peer : ~WillKnow(p)'
    BY <1>2, <1>6, <1>7, <1>8 DEF WillKnow
<1>10. \A x \in Service : ~WillList(x)' /\ ~WillShow(x)'
    BY <1>2, <1>6, <1>7, <1>8 DEF WillList, WillShow
<1> QED
    BY <1>1, <1>4, <1>5, <1>9, <1>10 DEF Greeted

LEMMA Unseen ==
    ASSUME UNCHANGED <<down, viewer>>
    PROVE  /\ Greeted' = Greeted
           /\ \A p : WillKnow(p)' = WillKnow(p) /\ NewOnly(p)' = NewOnly(p)
           /\ \A x : WillList(x)' = WillList(x) /\ WillShow(x)' = WillShow(x)
BY DEF viewer, Greeted, WillKnow, WillList, WillShow, NewOnly, Adds, Removes, Lists, Unlists, Opens, Shuts,
       Finally, Has, Range

LEMMA UsersStep ==
    ASSUME ViewerTyped, ViewerTyped', UsersInv, [ViewerNext]_viewerVars
    PROVE  UsersInv'
<1>1. CASE ~online'
    <2>1. /\ users' = <<>> /\ \A p \in Peer : ~WillKnow(p)' /\ NewOnly(p)'
        BY <1>1 DEF ViewerTyped, WillKnow, NewOnly, Finally, Range
    <2> QED
        BY <1>1, <2>1 DEF UsersInv, IsInjective
<1>2. CASE Others /\ online = TRUE
    <2>1. PICK m \in Sent :
            /\ down' = Append(down, m) /\ UNCHANGED <<up, online, viewer, clicked>>
            /\ \/ m.type = "CLIENT_JOINED" /\ m.name \in Peer \ members /\ members' = members \cup {m.name}
               \/ m.type = "CLIENT_LEFT" /\ m.name \in members /\ members' = members \ {m.name}
               \/ m.type \in {"SERVICE_CREATE_RESULT", "SERVICE_DELETE_RESULT"} /\ members' = members
        BY <1>2, OthersPost
    <2>2. /\ \A p \in Peer : WillKnow(p)' <=> m \notin Removes(p) /\ (m \in Adds(p) \/ WillKnow(p))
          /\ \A p \in Peer : NewOnly(p) /\ (m.type = "CLIENT_JOINED" /\ m.name = p => ~WillKnow(p)) => NewOnly(p)'
          /\ Greeted' <=> Greeted
        BY <2>1, Posted DEF viewer, Greeted, Is
    <2>3. \A p \in Peer : /\ m \in Adds(p) <=> m.type = "CLIENT_JOINED" /\ m.name = p
                          /\ m \in Removes(p) <=> m.type = "CLIENT_LEFT" /\ m.name = p
        BY <2>1 DEF Adds, Removes
    <2>4. users' = users /\ up' = up
        BY <2>1 DEF viewer
    <2> QED
        BY <1>2, <2>1, <2>2, <2>3, <2>4 DEF UsersInv
<1>3. CASE Serve
    <2> DEFINE q == Head(up)
               m == Answer(Head(up))
    <2>1. /\ up \in Seq(Asked) /\ up # <<>> /\ q \in Asked /\ up' = Tail(up) /\ online = TRUE
          /\ m \in Sent /\ down' = Append(down, m) /\ UNCHANGED <<members, online, viewer>>
        BY <1>3, ServeAnswers DEF ViewerTyped
    <2>2. /\ m.type = "CLIENT_FETCH_ALL_RESULT" <=> q.type = "CLIENT_FETCH_ALL"
          /\ q.type = "CLIENT_FETCH_ALL" => m.name = members
          /\ m.type \notin {"HELLO", "CLIENT_JOINED", "CLIENT_LEFT"}
        BY <2>1, AnswerSays
    <2> HIDE DEF q, m
    <2>3. /\ \A p \in Peer : WillKnow(p)' <=> m \notin Removes(p) /\ (m \in Adds(p) \/ WillKnow(p))
          /\ \A p \in Peer : NewOnly(p) /\ (m.type = "CLIENT_JOINED" /\ m.name = p => ~WillKnow(p)) => NewOnly(p)'
          /\ Greeted' <=> Greeted
        BY <2>1, <2>2, Posted DEF viewer, Greeted, Is
    <2>4. \A p \in Peer : /\ m \in Adds(p) <=> q.type = "CLIENT_FETCH_ALL" /\ p \in members
                          /\ m \in Removes(p) <=> q.type = "CLIENT_FETCH_ALL" /\ p \notin members
        BY <2>1, <2>2 DEF Adds, Removes
    <2>5. Has(up, "CLIENT_FETCH_ALL", All, "clients") =>
            Has(up', "CLIENT_FETCH_ALL", All, "clients") \/ q.type = "CLIENT_FETCH_ALL"
        BY <2>1, HasTaken DEF Is, q
    <2>6. users' = users
        BY <2>1 DEF viewer
    <2> QED
        BY <2>1, <2>2, <2>3, <2>4, <2>5, <2>6 DEF UsersInv
<1>4. CASE Receive
    <2>1. /\ Head(down) \in Sent /\ UNCHANGED <<members, online>> /\ up \in Seq(Asked)
          /\ \E r : up' = up \o r /\ Follows(Head(down), r)
        BY <1>4, ReceiveAsks DEF ViewerTyped
    <2>2. PICK r : up' = up \o r /\ Follows(Head(down), r)
        BY <2>1
    <2>3. r \in Seq(Asked) /\ (Head(down).type = "HELLO" => Has(r, "CLIENT_FETCH_ALL", All, "clients"))
        BY <2>2 DEF Follows
    <2>4. Has(up', "CLIENT_FETCH_ALL", All, "clients") <=>
            Has(up, "CLIENT_FETCH_ALL", All, "clients") \/ Has(r, "CLIENT_FETCH_ALL", All, "clients")
        BY <2>1, <2>2, <2>3, HasConcat
    <2>5. Greeted' => Greeted \/ Head(down).type = "HELLO"
        BY <1>4, TakenIn DEF Greeted, Is
    <2>6. \A p \in Peer : (WillKnow(p)' <=> WillKnow(p)) /\ (NewOnly(p) => NewOnly(p)')
        BY <1>4, TakenIn
    <2>7. Head(down).type = "CLIENT_JOINED" => Head(down).name \notin Range(users)
        BY <1>4, <2>1, TakenIn, SentSays DEF UsersInv
    <2>8. IsInjective(users')
        BY <1>4, <2>7, ReceiveUsers DEF UsersInv
    <2> QED
        BY <2>1, <2>3, <2>4, <2>5, <2>6, <2>8 DEF UsersInv
<1>5. CASE \E x \in Service : UserAsks(x)
    <2>1. PICK x \in Service : UserAsks(x)
        BY <1>5
    <2>2. PICK r \in Seq(Asked) : up' = up \o r
        BY <2>1, UserAppends
    <2>3. Has(up, "CLIENT_FETCH_ALL", All, "clients") => Has(up', "CLIENT_FETCH_ALL", All, "clients")
        BY <2>2, HasConcat DEF ViewerTyped
    <2>4. UNCHANGED <<members, online, users, down, viewer>>
        BY <2>1, UserAppends DEF server, viewer
    <2>5. \A p : WillKnow(p)' = WillKnow(p) /\ NewOnly(p)' = NewOnly(p) /\ Greeted' = Greeted
        BY <2>4, Unseen
    <2> QED
        BY <2>3, <2>4, <2>5 DEF UsersInv
<1>6. CASE Connect
    <2>1. users' = users /\ members' = members
        BY <1>6, ConnectGreets DEF viewer
    <2> QED
        BY <1>6, <2>1, GreetingSays DEF UsersInv
<1>7. CASE UNCHANGED viewerVars
    <2>1. UNCHANGED <<members, online, users, up, down, viewer>>
        BY <1>7 DEF viewerVars, server, viewer
    <2>2. \A p : WillKnow(p)' = WillKnow(p) /\ NewOnly(p)' = NewOnly(p) /\ Greeted' = Greeted
        BY <2>1, Unseen
    <2> QED
        BY <2>1, <2>2 DEF UsersInv
<1>8. Others => online' = online
    BY DEF Others, Join, Leave, Create, Delete
<1>9. Close => ~online'
    BY DEF Close
<1> QED
    BY <1>1, <1>2, <1>3, <1>4, <1>5, <1>6, <1>7, <1>8, <1>9 DEF ViewerNext, UserAsks, ViewerTyped

LEMMA GroupsStep ==
    ASSUME ViewerTyped, ViewerTyped', GroupsInv, [ViewerNext]_viewerVars
    PROVE  GroupsInv'
<1>1. CASE ~online'
    <2>1. \A x \in Service : ~WillList(x)'
        BY <1>1 DEF ViewerTyped, WillList, Finally, Range
    <2> QED
        BY <1>1, <2>1 DEF GroupsInv
<1>2. CASE Others /\ online = TRUE
    <2>1. PICK m \in Sent :
            /\ down' = Append(down, m) /\ UNCHANGED <<up, online, viewer, clicked>> /\ m.by = "none"
            /\ \/ m.type = "SERVICE_CREATE_RESULT" /\ m.name \in Service \ services /\ services' = services \cup {m.name}
               \/ m.type = "SERVICE_DELETE_RESULT" /\ m.name \in services /\ services' = services \ {m.name}
               \/ m.type \in {"CLIENT_JOINED", "CLIENT_LEFT"} /\ services' = services
        BY <1>2, OthersPost
    <2>2. /\ \A x \in Service : WillList(x)' <=> m \notin Unlists(x) /\ (m \in Lists(x) \/ WillList(x))
          /\ \A type, x, by : Has(down', type, x, by) <=> Has(down, type, x, by) \/ Is(m, type, x, by)
        BY <2>1, Posted DEF viewer
    <2>3. \A x \in Service : m \notin Lists(x) /\ (m \in Unlists(x) <=> m.type = "SERVICE_DELETE_RESULT" /\ m.name = x)
        BY <2>1 DEF Lists, Unlists
    <2>4. \A x \in Service : Listing(x) => Listing(x)'
        BY <2>1, <2>2 DEF Listing, Greeted, Is
    <2>5. m.type = "SERVICE_CREATE_RESULT" => Listing(m.name)'
        BY <2>1, <2>2 DEF Listing, Is
    <2> QED
        BY <1>2, <2>1, <2>2, <2>3, <2>4, <2>5 DEF GroupsInv
<1>3. CASE Serve
    <2> DEFINE q == Head(up)
               m == Answer(Head(up))
    <2>1. /\ up \in Seq(Asked) /\ up # <<>> /\ q \in Asked /\ up' = Tail(up) /\ online = TRUE
          /\ m \in Sent /\ down' = Append(down, m) /\ UNCHANGED <<services, online, viewer>>
        BY <1>3, ServeAnswers DEF ViewerTyped
    <2>2. /\ m.type = "SERVICE_FETCH_ALL_RESULT" <=> q.type = "SERVICE_FETCH_ALL"
          /\ q.type = "SERVICE_FETCH_ALL" => m.name = services
          /\ m.type = "SERVICE_FETCH_RESULT" <=> q.type = "SERVICE_FETCH" /\ q.name \in services
          /\ q.type = "SERVICE_FETCH" => m.name = q.name
          /\ m.by = q.by
          /\ m.type \notin {"HELLO", "SERVICE_CREATE_RESULT", "SERVICE_DELETE_RESULT"}
        BY <2>1, AnswerSays
    <2> HIDE DEF q, m
    <2>3. /\ \A x \in Service : WillList(x)' <=> m \notin Unlists(x) /\ (m \in Lists(x) \/ WillList(x))
          /\ \A type, x, by : Has(down', type, x, by) <=> Has(down, type, x, by) \/ Is(m, type, x, by)
        BY <2>1, Posted DEF viewer
    <2>4. \A x \in Service :
            /\ m \in Lists(x) <=> \/ q.type = "SERVICE_FETCH_ALL" /\ x \in services
                                  \/ q.type = "SERVICE_FETCH" /\ q.by = "services" /\ q.name = x /\ x \in services
            /\ m \in Unlists(x) <=> q.type = "SERVICE_FETCH_ALL" /\ x \notin services
        BY <2>1, <2>2 DEF Lists, Unlists
    <2>5. ASSUME NEW x \in Service, x \in services, Listing(x)
          PROVE  Listing(x)' \/ WillList(x)'
        <3>1. ASSUME NEW type, NEW y, NEW by, Has(up, type, y, by)
              PROVE  Has(up', type, y, by) \/ Is(q, type, y, by)
            BY <2>1, <3>1, HasTaken DEF q
        <3>2. CASE ~Greeted \/ Has(down, "SERVICE_CREATE_RESULT", x, "none")
            BY <2>3, <3>2 DEF Listing, Greeted
        <3>3. CASE Has(up, "SERVICE_FETCH_ALL", All, "services")
            BY <2>3, <2>4, <2>5, <3>1, <3>3 DEF Listing, Is
        <3>4. CASE Has(up, "SERVICE_FETCH", x, "services")
            BY <2>3, <2>4, <2>5, <3>1, <3>4 DEF Listing, Is
        <3> QED
            BY <2>5, <3>2, <3>3, <3>4 DEF Listing
    <2> QED
        BY <2>1, <2>3, <2>4, <2>5 DEF GroupsInv
<1>4. CASE Receive
    <2>1. /\ Head(down) \in Sent /\ UNCHANGED <<services, online>> /\ up \in Seq(Asked)
          /\ \E r : up' = up \o r /\ Follows(Head(down), r)
        BY <1>4, ReceiveAsks DEF ViewerTyped
    <2>2. PICK r : up' = up \o r /\ Follows(Head(down), r)
        BY <2>1
    <2>3. /\ r \in Seq(Asked)
          /\ Head(down).type = "HELLO" => Has(r, "SERVICE_FETCH_ALL", All, "services")
          /\ Head(down).type = "SERVICE_CREATE_RESULT" => Has(r, "SERVICE_FETCH", Head(down).name, "services")
        BY <2>2 DEF Follows
    <2>4. \A type, x, by : Has(up', type, x, by) <=> Has(up, type, x, by) \/ Has(r, type, x, by)
        BY <2>1, <2>2, <2>3, HasConcat
    <2>5. /\ \A x \in Service : WillList(x)' <=> WillList(x)
          /\ \A type, x, by : Has(down, type, x, by) <=> Has(down', type, x, by) \/ Is(Head(down), type, x, by)
        BY <1>4, TakenIn
    <2>6. \A x \in Service : Listing(x) => Listing(x)'
        BY <2>3, <2>4, <2>5 DEF Listing, Greeted, Is
    <2> QED
        BY <2>1, <2>5, <2>6 DEF GroupsInv
<1>5. CASE \E x \in Service : UserAsks(x)
    <2>1. PICK x \in Service : UserAsks(x)
        BY <1>5
    <2>2. PICK r \in Seq(Asked) : up' = up \o r
        BY <2>1, UserAppends
    <2>3. \A type, y, by : Has(up, type, y, by) => Has(up', type, y, by)
        BY <2>2, HasConcat DEF ViewerTyped
    <2>4. UNCHANGED <<services, online, down, viewer>>
        BY <2>1, UserAppends DEF server
    <2>5. \A y : WillList(y)' = WillList(y) /\ (Listing(y) => Listing(y)')
        BY <2>3, <2>4, Unseen DEF Listing
    <2> QED
        BY <2>4, <2>5 DEF GroupsInv
<1>6. CASE Connect
    <2>1. services' = services
        BY <1>6, ConnectGreets
    <2> QED
        BY <1>6, <2>1, GreetingSays DEF GroupsInv, Listing
<1>7. CASE UNCHANGED viewerVars
    <2>1. UNCHANGED <<services, online, up, down, viewer>>
        BY <1>7 DEF viewerVars, server, viewer
    <2>2. \A x : WillList(x)' = WillList(x) /\ Listing(x)' = Listing(x)
        BY <2>1, Unseen DEF Listing
    <2> QED
        BY <2>1, <2>2 DEF GroupsInv
<1>8. (Others => online' = online) /\ (Close => ~online')
    BY DEF Others, Join, Leave, Create, Delete, Close
<1> QED
    BY <1>1, <1>2, <1>3, <1>4, <1>5, <1>6, <1>7, <1>8 DEF ViewerNext, UserAsks, ViewerTyped

LEMMA ByHandStep ==
    ASSUME ViewerTyped, ViewerTyped', ByHand, [ViewerNext]_viewerVars
    PROVE  ByHand'
<1>1. CASE ~online'
    BY <1>1 DEF ViewerTyped, ByHand, Has
<1>2. CASE Serve
    <2>1. up \in Seq(Asked) /\ up # <<>> /\ up' = Tail(up) /\ clicked' = clicked
        BY <1>2, ServeAnswers DEF ViewerTyped
    <2>2. \A type, x, by : Has(up', type, x, by) => Has(up, type, x, by)
        BY <2>1, HasTaken
    <2> QED
        BY <2>1, <2>2 DEF ByHand
<1>3. CASE Receive
    <2>1. up \in Seq(Asked) /\ clicked' = clicked /\ \E r : up' = up \o r /\ Follows(Head(down), r)
        BY <1>3, ReceiveAsks DEF ViewerTyped
    <2>2. PICK r : up' = up \o r /\ Follows(Head(down), r)
        BY <2>1
    <2>3. r \in Seq(Asked) /\ \A type, x : ~Has(r, type, x, "none")
        BY <2>2 DEF Follows, Has, Is
    <2>4. \A type, x : Has(up', type, x, "none") => Has(up, type, x, "none")
        BY <2>1, <2>2, <2>3, HasConcat
    <2> QED
        BY <2>1, <2>4 DEF ByHand
<1>4. CASE \E x \in Service : UserAsks(x)
    <2>1. PICK x \in Service : UserAsks(x)
        BY <1>4
    <2>2. PICK r \in Seq(Asked) : up' = up \o r /\ \A i \in 1 .. Len(r) : r[i].by = "none" => r[i].name = x
        BY <2>1, UserAppends
    <2>3. \A type, y : Has(r, type, y, "none") => y = x
        BY <2>2 DEF Has, Is
    <2>4. \A type, y : Has(up', type, y, "none") => Has(up, type, y, "none") \/ y = x
        BY <2>2, <2>3, HasConcat DEF ViewerTyped
    <2>5. clicked' = clicked \cup {x}
        BY <2>1, UserAppends
    <2> QED
        BY <2>4, <2>5 DEF ByHand
<1>5. CASE Others \/ Connect \/ UNCHANGED viewerVars
    <2>1. UNCHANGED <<up, clicked>>
        BY <1>5 DEF Others, Join, Leave, Create, Delete, Connect, viewerVars
    <2> QED
        BY <2>1 DEF ByHand
<1>6. Close => ~online'
    BY DEF Close
<1> QED
    BY <1>1, <1>2, <1>3, <1>4, <1>5, <1>6 DEF ViewerNext, UserAsks

LEMMA TabsStep ==
    ASSUME ViewerTyped, ViewerTyped', ByHand, TabsInv, [ViewerNext]_viewerVars
    PROVE  TabsInv'
<1>1. CASE ~online'
    <2>1. mine' = {} /\ \A x \in Service : ~WillShow(x)'
        BY <1>1 DEF ViewerTyped, WillShow, Finally
    <2> QED
        BY <2>1 DEF TabsInv
<1>2. CASE Others /\ online = TRUE
    <2>1. PICK m \in Sent :
            /\ down' = Append(down, m) /\ UNCHANGED <<up, online, viewer, clicked>>
            /\ \/ m.type = "SERVICE_DELETE_RESULT" /\ mine' = mine \ {m.name}
               \/ m.type \in {"CLIENT_JOINED", "CLIENT_LEFT", "SERVICE_CREATE_RESULT"} /\ mine' = mine
        BY <1>2, OthersPost
    <2>2. \A x \in Service : WillShow(x)' <=> m \notin Shuts(x) /\ (m \in Opens(x) \/ WillShow(x))
        BY <2>1, Posted DEF viewer
    <2>3. \A x \in Service : m \notin Opens(x) /\ (m \in Shuts(x) <=> m.type = "SERVICE_DELETE_RESULT" /\ m.name = x)
        BY <2>1 DEF Opens, Shuts
    <2> QED
        BY <2>1, <2>2, <2>3 DEF TabsInv
<1>3. CASE Serve
    <2> DEFINE q == Head(up)
               m == Answer(Head(up))
    <2>1. /\ up \in Seq(Asked) /\ up # <<>> /\ q \in Asked
          /\ m \in Sent /\ down' = Append(down, m) /\ UNCHANGED <<services, online, viewer, clicked>>
          /\ \A x \in Service : x \in mine' <=>
                \/ x \in mine /\ ~(q.type = "SELF_UNSUBSCRIBE" /\ q.name = x)
                \/ x \in services /\ q.type = "SELF_SUBSCRIBE" /\ q.name = x
        BY <1>3, ServeAnswers DEF ViewerTyped
    <2>2. /\ m.type = "SELF_SUBSCRIBE_RESULT" <=> q.type = "SELF_SUBSCRIBE" /\ q.name \in services /\ q.name \notin mine
          /\ m.type = "SELF_UNSUBSCRIBE_RESULT" <=> q.type = "SELF_UNSUBSCRIBE" /\ q.name \in services /\ q.name \in mine
          /\ q.type \in {"SELF_SUBSCRIBE", "SELF_UNSUBSCRIBE"} => m.name = q.name
          /\ m.by = q.by /\ m.type # "SERVICE_DELETE_RESULT"
        BY <2>1, AnswerSays
    <2>3. q.type = "SELF_SUBSCRIBE" => q.name \in Service /\ q.by \in {"handler", "none"}
        BY <2>1 DEF Asked
    <2>4. q.type = "SELF_SUBSCRIBE" /\ q.by = "none" => q.name \in clicked
        <3>1. Is(q, "SELF_SUBSCRIBE", q.name, "none") => Has(up, "SELF_SUBSCRIBE", q.name, "none")
            BY <2>1, HasTaken
        <3> QED
            BY <2>3, <3>1 DEF ByHand, Is
    <2> HIDE DEF q, m
    <2>5. \A x \in Service : WillShow(x)' <=> m \notin Shuts(x) /\ (m \in Opens(x) \/ WillShow(x))
        BY <2>1, Posted DEF viewer
    <2>6. \A x \in Service :
            /\ m \in Opens(x) <=> /\ q.type = "SELF_SUBSCRIBE" /\ q.by = "handler" /\ q.name = x
                                  /\ x \in services /\ x \notin mine
            /\ m \in Shuts(x) <=> q.type = "SELF_UNSUBSCRIBE" /\ q.name = x /\ x \in services /\ x \in mine
        BY <2>1, <2>2 DEF Opens, Shuts
    <2>7. mine \subseteq services
        BY DEF ViewerTyped
    <2>8. \A x \in Service : WillShow(x)' => x \in mine'
        BY <2>1, <2>5, <2>6, <2>7 DEF TabsInv
    <2>9. ASSUME NEW x \in Service, x \in mine', x \notin clicked
          PROVE  WillShow(x)'
        <3>1. CASE x \in mine
            BY <2>1, <2>5, <2>6, <2>7, <2>9, <3>1 DEF TabsInv
        <3>2. CASE x \notin mine
            BY <2>1, <2>3, <2>4, <2>5, <2>6, <2>9, <3>2
        <3> QED
            BY <3>1, <3>2
    <2> QED
        BY <2>1, <2>8, <2>9 DEF TabsInv
<1>4. CASE Receive
    <2>1. UNCHANGED <<mine, clicked>>
        BY <1>4, ReceiveAsks
    <2> QED
        BY <1>4, <2>1, TakenIn DEF TabsInv
<1>5. CASE \E x \in Service : UserAsks(x)
    <2>1. PICK x \in Service : UserAsks(x)
        BY <1>5
    <2>2. UNCHANGED <<mine, down, viewer>> /\ clicked' = clicked \cup {x}
        BY <2>1, UserAppends DEF server
    <2>3. \A y : WillShow(y)' = WillShow(y)
        BY <2>2, Unseen
    <2> QED
        BY <2>2, <2>3 DEF TabsInv
<1>6. CASE Connect
    <2>1. UNCHANGED <<mine, clicked>>
        BY <1>6, ConnectGreets
    <2> QED
        BY <1>6, <2>1, GreetingSays DEF TabsInv
<1>7. CASE UNCHANGED viewerVars
    <2>1. UNCHANGED <<mine, down, viewer, clicked>>
        BY <1>7 DEF viewerVars, server, viewer
    <2>2. \A y : WillShow(y)' = WillShow(y)
        BY <2>1, Unseen
    <2> QED
        BY <2>1, <2>2 DEF TabsInv
<1>8. (Others => online' = online) /\ (Close => ~online')
    BY DEF Others, Join, Leave, Create, Delete, Close
<1> QED
    BY <1>1, <1>2, <1>3, <1>4, <1>5, <1>6, <1>7, <1>8 DEF ViewerNext, UserAsks, ViewerTyped

LEMMA SubscribedStep ==
    ASSUME ViewerTyped, ViewerTyped', ByHand, SubscribedInv, [ViewerNext]_viewerVars
    PROVE  SubscribedInv'
<1>1. CASE ~online'
    BY <1>1 DEF SubscribedInv
<1>2. CASE Others /\ online = TRUE
    <2>1. PICK m \in Sent :
            /\ down' = Append(down, m) /\ UNCHANGED <<up, online, viewer, clicked>> /\ m.by = "none"
            /\ \/ /\ m.type = "SERVICE_CREATE_RESULT" /\ services' = services \cup {m.name}
                  /\ mine' = mine
               \/ /\ m.type = "SERVICE_DELETE_RESULT" /\ services' = services \ {m.name}
                  /\ mine' = mine \ {m.name}
               \/ m.type \in {"CLIENT_JOINED", "CLIENT_LEFT"} /\ UNCHANGED <<services, mine>>
        BY <1>2, OthersPost
    <2>2. \A type, x, by : Has(down', type, x, by) <=> Has(down, type, x, by) \/ Is(m, type, x, by)
        BY <2>1, Posted DEF viewer
    <2>3. \A x \in Service : Subscribing(x) => Subscribing(x)'
        BY <2>1, <2>2 DEF Subscribing, Greeted, Is
    <2>4. m.type = "SERVICE_CREATE_RESULT" => Subscribing(m.name)'
        BY <2>1, <2>2 DEF Subscribing, Is
    <2> QED
        BY <1>2, <2>1, <2>3, <2>4 DEF SubscribedInv
<1>3. CASE Serve
    <2> DEFINE q == Head(up)
               m == Answer(Head(up))
    <2>1. /\ up \in Seq(Asked) /\ up # <<>> /\ q \in Asked /\ up' = Tail(up) /\ online = TRUE
          /\ m \in Sent /\ down' = Append(down, m) /\ UNCHANGED <<services, online, viewer, clicked>>
          /\ \A x \in Service : x \in mine' <=>
                \/ x \in mine /\ ~(q.type = "SELF_UNSUBSCRIBE" /\ q.name = x)
                \/ x \in services /\ q.type = "SELF_SUBSCRIBE" /\ q.name = x
        BY <1>3, ServeAnswers DEF ViewerTyped
    <2>2. /\ m.type = "SERVICE_FETCH_RESULT" <=> q.type = "SERVICE_FETCH" /\ q.name \in services
          /\ q.type = "SERVICE_FETCH" => m.name = q.name
          /\ m.by = q.by
        BY <2>1, AnswerSays
    <2>3. q.type = "SELF_UNSUBSCRIBE" => q.name \in clicked
        <3>1. q.type = "SELF_UNSUBSCRIBE" => q.name \in Service /\ q.by = "none"
            BY <2>1 DEF Asked
        <3>2. Is(q, "SELF_UNSUBSCRIBE", q.name, "none") => Has(up, "SELF_UNSUBSCRIBE", q.name, "none")
            BY <2>1, HasTaken
        <3> QED
            BY <3>1, <3>2 DEF ByHand, Is
    <2> HIDE DEF m
    <2>4. \A type, x, by : Has(down', type, x, by) <=> Has(down, type, x, by) \/ Is(m, type, x, by)
        BY <2>1, Posted DEF viewer
    <2>5. ASSUME NEW type, NEW y, NEW by, Has(up, type, y, by)
          PROVE  Has(up', type, y, by) \/ Is(q, type, y, by)
        BY <2>1, <2>5, HasTaken
    <2> HIDE DEF q
    <2>6. ASSUME NEW x \in Service, x \in services, Subscribing(x)
          PROVE  Subscribing(x)' \/ x \in mine'
        <3>1. CASE \/ ~Greeted \/ Has(down, "SERVICE_CREATE_RESULT", x, "none")
                   \/ Has(down, "SERVICE_FETCH_RESULT", x, "handler")
            BY <2>4, <3>1 DEF Subscribing, Greeted
        <3>2. CASE Has(up, "SERVICE_FETCH", x, "handler")
            BY <2>2, <2>4, <2>5, <2>6, <3>2 DEF Subscribing, Is
        <3>3. CASE Has(up, "SELF_SUBSCRIBE", x, "handler")
            BY <2>1, <2>5, <2>6, <3>3 DEF Subscribing, Is
        <3> QED
            BY <2>6, <3>1, <3>2, <3>3 DEF Subscribing
    <2> QED
        BY <2>1, <2>3, <2>6 DEF SubscribedInv
<1>4. CASE Receive
    <2>1. /\ Head(down) \in Sent /\ UNCHANGED <<services, mine, online, clicked>> /\ up \in Seq(Asked)
          /\ \E r : up' = up \o r /\ Follows(Head(down), r)
        BY <1>4, ReceiveAsks DEF ViewerTyped
    <2>2. PICK r : up' = up \o r /\ Follows(Head(down), r)
        BY <2>1
    <2>3. /\ r \in Seq(Asked)
          /\ Head(down).type = "HELLO" => \A x \in Service : Has(r, "SERVICE_FETCH", x, "handler")
          /\ Head(down).type = "SERVICE_CREATE_RESULT" => Has(r, "SELF_SUBSCRIBE", Head(down).name, "handler")
          /\ Head(down).type = "SERVICE_FETCH_RESULT" /\ Head(down).by # "services" =>
                Has(r, "SELF_SUBSCRIBE", Head(down).name, "handler")
        BY <2>2 DEF Follows
    <2>4. \A type, x, by : Has(up', type, x, by) <=> Has(up, type, x, by) \/ Has(r, type, x, by)
        BY <2>1, <2>2, <2>3, HasConcat
    <2>5. \A type, x, by : Has(down, type, x, by) <=> Has(down', type, x, by) \/ Is(Head(down), type, x, by)
        BY <1>4, TakenIn
    <2>6. \A x \in Service : Subscribing(x) => Subscribing(x)'
        BY <2>3, <2>4, <2>5 DEF Subscribing, Greeted, Is
    <2> QED
        BY <2>1, <2>6 DEF SubscribedInv
<1>5. CASE \E x \in Service : UserAsks(x)
    <2>1. PICK x \in Service : UserAsks(x)
        BY <1>5
    <2>2. PICK r \in Seq(Asked) : up' = up \o r
        BY <2>1, UserAppends
    <2>3. \A type, y, by : Has(up, type, y, by) => Has(up', type, y, by)
        BY <2>2, HasConcat DEF ViewerTyped
    <2>4. UNCHANGED <<services, mine, online, down>> /\ clicked' = clicked \cup {x}
        BY <2>1, UserAppends DEF server
    <2>5. \A y : Subscribing(y) => Subscribing(y)'
        BY <2>3, <2>4 DEF Subscribing, Greeted
    <2> QED
        BY <2>4, <2>5 DEF SubscribedInv
<1>6. CASE Connect
    BY <1>6, GreetingSays DEF SubscribedInv, Subscribing
<1>7. CASE UNCHANGED viewerVars
    BY <1>7 DEF viewerVars, server, SubscribedInv, Subscribing, Greeted
<1>8. (Others => online' = online) /\ (Close => ~online')
    BY DEF Others, Join, Leave, Create, Delete, Close
<1> QED
    BY <1>1, <1>2, <1>3, <1>4, <1>5, <1>6, <1>7, <1>8 DEF ViewerNext, UserAsks, ViewerTyped

LEMMA ViewerStarts == ViewerInit => ViewerInv
<1> SUFFICES ASSUME ViewerInit PROVE ViewerInv
    OBVIOUS
<1>1. ViewerTyped
    <2>1. up \in Seq(Asked) /\ down \in Seq(Sent) /\ users \in Seq(Peer) /\ groups \in Seq(Service)
        BY DEF ViewerInit
    <2>2. members \subseteq Peer /\ services \subseteq Service /\ subscribed \in [Service -> BOOLEAN]
        BY DEF ViewerInit
    <2> QED
        BY <2>1, <2>2 DEF ViewerInit, ViewerTyped
<1>2. ~online /\ clicked = {}
    BY DEF ViewerInit
<1>3. /\ users = <<>> /\ mine = {}
      /\ \A p \in Peer : ~WillKnow(p) /\ NewOnly(p)
      /\ \A x \in Service : ~WillList(x) /\ ~WillShow(x)
      /\ \A type, x, by : ~Has(up, type, x, by)
    BY <1>1, <1>2, OfflineKnows
<1>4. IsInjective(users)
    BY <1>3 DEF IsInjective
<1> QED
    BY <1>1, <1>2, <1>3, <1>4 DEF ViewerInv, UsersInv, GroupsInv, ByHand, TabsInv, SubscribedInv

\* What is on its way to the viewer, and what it has still to ask, makes up for what
\* its handlers do not show yet.
THEOREM ViewerInvariance == ViewerSpec => []ViewerInv
<1>1. ViewerInv /\ [ViewerNext]_viewerVars => ViewerInv'
    BY TypedStep, UsersStep, GroupsStep, ByHandStep, TabsStep, SubscribedStep DEF ViewerInv
<1> QED
    BY <1>1, ViewerStarts, PTL DEF ViewerSpec

-----------------------------------------------------------------------------
(* The theorems                                                            *)

LEMMA SettledShows ==
    ASSUME ViewerTyped, Settled
    PROVE  /\ \A p \in Peer : WillKnow(p) <=> p \in Range(users)
           /\ \A x \in Service : (WillList(x) <=> x \in Range(groups)) /\ (WillShow(x) <=> x \in tabs)
           /\ Greeted /\ \A type, x, by : ~Has(up, type, x, by) /\ ~Has(down, type, x, by)
<1>1. up = <<>> /\ down = <<>> /\ \A i \in 1 .. Len(<<>>) : FALSE
    BY DEF Settled
<1>2. \A x, s, on, off : Finally(<<>>, x, s, on, off) <=> x \in s
    BY <1>1 DEF Finally
<1>3. \A type, x, by : ~Has(<<>>, type, x, by)
    BY <1>1 DEF Has
<1> QED
    BY <1>1, <1>2, <1>3 DEF WillKnow, WillList, WillShow, Greeted

\* However clients and services come and go while the viewer fetches them, loses its
\* connection and comes back: once everything has arrived its list of clients has
\* each client once and nobody else, and its list of services just those that exist.
THEOREM ListsAgree == ViewerSpec => []ListsMirror
<1>1. ViewerInv => ListsMirror
    <2> SUFFICES ASSUME ViewerInv, Settled
                 PROVE  Range(users) = members /\ IsInjective(users) /\ Range(groups) = services
        BY DEF ListsMirror
    <2>1. /\ \A p \in Peer : WillKnow(p) <=> p \in Range(users)
          /\ \A x \in Service : WillList(x) <=> x \in Range(groups)
          /\ Greeted /\ \A type, x, by : ~Has(up, type, x, by) /\ ~Has(down, type, x, by)
        BY SettledShows DEF ViewerInv
    <2>2. Range(users) \subseteq Peer /\ Range(groups) \subseteq Service
        <3>1. \A i \in DOMAIN users : users[i] \in Peer
            BY DEF ViewerInv, ViewerTyped
        <3>2. \A i \in DOMAIN groups : groups[i] \in Service
            BY DEF ViewerInv, ViewerTyped
        <3> QED
            BY <3>1, <3>2 DEF Range
    <2>3. members \subseteq Peer /\ services \subseteq Service
        BY DEF ViewerInv, ViewerTyped
    <2>4. Range(users) = members /\ IsInjective(users)
        BY <2>1, <2>2, <2>3 DEF ViewerInv, UsersInv, Settled
    <2>5. Range(groups) = services
        BY <2>1, <2>2, <2>3 DEF ViewerInv, GroupsInv, Listing, Settled
    <2> QED
        BY <2>4, <2>5
<1> QED
    BY <1>1, ViewerInvariance, PTL

\* Over lost connections, deleted services and subscriptions by hand: once everything
\* has arrived a tab is there only for a service that the viewer is subscribed to,
\* and for each of these that the user has left alone.
THEOREM TabsOfSubscriptions == ViewerSpec => []TabsMatch
<1>1. ViewerInv => TabsMatch
    <2> SUFFICES ASSUME ViewerInv, Settled
                 PROVE  tabs \subseteq mine /\ mine \ clicked \subseteq tabs
        BY DEF TabsMatch
    <2>1. \A x \in Service : WillShow(x) <=> x \in tabs
        BY SettledShows DEF ViewerInv
    <2>2. tabs \subseteq Service /\ mine \subseteq Service
        BY DEF ViewerInv, ViewerTyped
    <2> QED
        BY <2>1, <2>2 DEF ViewerInv, TabsInv
<1> QED
    BY <1>1, ViewerInvariance, PTL

\* Whether a service was there when the viewer came or was created later, perhaps
\* again, its handler is subscribed once everything has arrived, unless the user has
\* had a hand in it.
THEOREM HandlersSubscribe == ViewerSpec => []AutoSubscribed
<1>1. ViewerInv => AutoSubscribed
    <2> SUFFICES ASSUME ViewerInv, Settled
                 PROVE  services \ clicked \subseteq mine
        BY DEF AutoSubscribed
    <2>1. Greeted /\ \A type, x, by : ~Has(up, type, x, by) /\ ~Has(down, type, x, by)
        BY SettledShows DEF ViewerInv
    <2>2. services \subseteq Service
        BY DEF ViewerInv, ViewerTyped
    <2> QED
        BY <2>1, <2>2 DEF ViewerInv, SubscribedInv, Subscribing, Settled
<1> QED
    BY <1>1, ViewerInvariance, PTL

====
