--------------------------- MODULE WebClientProofs ---------------------------
(***************************************************************************)
(* Proofs about the browser's client, for every set of sockets and of      *)
(* requests and every bound of the sequence number: what it can rely on    *)
(* until the application calls close().                                    *)
(***************************************************************************)
EXTENDS WebClient, SequenceTheorems, FiniteSetTheorems, TLAPS

-----------------------------------------------------------------------------
(* The inductive invariant                                                 *)

\* Frames to the browser, as the model writes them.
Frame == {Hello, Refusal} \cup {AnswerTo(q, n) : q \in Request \cup {Identify}, n \in Nat}

\* Types while the application has not called close(): nothing is closing then.
LinkTyped ==
    /\ current \in Socket
    /\ sock \in [Socket -> {"connecting", "open", "closed"}]
    /\ conn \in [Socket -> {"gone", "fresh", "identified"}]
    /\ upstream \in [Socket -> Seq(Request \cup {Identify})]
    /\ downstream \in [Socket -> Seq(Frame)]
    /\ counted \in [Socket -> Nat]
    /\ seq \in -1 .. SeqCap
    /\ timers \in Seq(SUBSET (Request \X (-1 .. SeqCap)))
    /\ expiries \subseteq Request \X (-1 .. SeqCap)
    /\ ready \in BOOLEAN

\* Either the current socket is in use, or it is closed and one timer is pending.
\* Nothing is received by a socket that is not open.
OneLink ==
    /\ \A s \in Socket : s # current => sock[s] = "closed"
    /\ \A s \in Socket : sock[s] # "open" => downstream[s] = <<>>
    /\ sock[current] # "closed" => timers = <<>>
    /\ sock[current] = "closed" => Len(timers) = 1
    /\ ready => sock[current] = "open"

LinkInv == appClosed = "no" => LinkTyped /\ OneLink

\* Every waiter has its timeout pending, so none survives a reconnect: the timer
\* for that waits for the timeouts pending before it.
WaitersTimed ==
    /\ IsMap(waiters, -1 .. SeqCap, Request)
    /\ \A n \in DOMAIN waiters : <<waiters[n], n>> \in expiries
    /\ ~ready /\ sock[current] # "closed" => expiries = {}
    /\ ~ready /\ sock[current] = "closed" => expiries \subseteq Head(timers)

\* How far the current connection is before its HELLO has been received.
Greeting ==
    LET c == current
    IN  /\ sock[c] = "connecting" => conn[c] = "gone" /\ upstream[c] = <<>>
        /\ sock[c] = "open" /\ ~ready =>
            \/ conn[c] = "fresh" /\ upstream[c] \in {<<>>, <<Identify>>} /\ downstream[c] = <<>>
            \/ /\ conn[c] = "identified" /\ counted[c] = 0
               /\ upstream[c] = <<>> /\ downstream[c] = <<Hello>>
            \/ conn[c] = "gone" /\ upstream[c] = <<>> /\ downstream[c] = <<Refusal>>

\* From HELLO on, each waiter stands under the number that the server has given
\* its payload or will give it, by the payloads that are still on their way.
Numbered ==
    ready =>
        /\ conn[current] = "identified"
        /\ seq = counted[current] + Len(upstream[current])
        /\ \A n \in DOMAIN waiters :
            /\ n \in 0 .. seq - 1
            /\ n >= counted[current] => waiters[n] = upstream[current][n - counted[current] + 1]
        /\ \A i \in 1 .. Len(downstream[current]) :
            LET a == downstream[current][i]
            IN  /\ a.type = "ANSWER"
                /\ a.seq \in 0 .. counted[current] - 1
                /\ a.seq \in DOMAIN waiters => waiters[a.seq] = a.request

Matched == \A p \in got : p[1] = p[2]

\* For an application that sends nothing before HELLO.
CountInv == appClosed = "no" => WaitersTimed /\ Greeting /\ Numbered /\ Matched

-----------------------------------------------------------------------------
(* Frames and queues                                                       *)

LEMMA FrameMade ==
    /\ Hello \in Frame /\ Refusal \in Frame
    /\ \A q \in Request \cup {Identify}, n \in Nat : AnswerTo(q, n) \in Frame
    /\ Hello.type = "HELLO" /\ Refusal.type = "CLOSE"
    /\ \A q, n : /\ AnswerTo(q, n).type = "ANSWER"
                 /\ AnswerTo(q, n).request = q /\ AnswerTo(q, n).seq = n
<1>1. Hello \in Frame /\ Refusal \in Frame
    BY DEF Frame
<1>2. \A q \in Request \cup {Identify}, n \in Nat : AnswerTo(q, n) \in Frame
    <2> HIDE DEF AnswerTo
    <2> QED
        BY DEF Frame
<1>3. Hello.type = "HELLO" /\ Refusal.type = "CLOSE"
    BY DEF Hello, Refusal
<1>4. \A q, n : /\ AnswerTo(q, n).type = "ANSWER"
                /\ AnswerTo(q, n).request = q /\ AnswerTo(q, n).seq = n
    BY DEF AnswerTo
<1> QED
    BY <1>1, <1>2, <1>3, <1>4

\* The last element of a longer queue is the one appended, the rest is as before.
LEMMA Appended ==
    ASSUME NEW S, NEW q \in Seq(S), NEW x \in S
    PROVE  /\ Append(q, x) \in Seq(S)
           /\ Len(q) \in Nat /\ Len(Append(q, x)) = Len(q) + 1
           /\ \A i \in 1 .. Len(q) : Append(q, x)[i] = q[i]
           /\ Append(q, x)[Len(q) + 1] = x
BY AppendProperties, LenProperties

\* Taking the first element moves the rest one place forward.
LEMMA Taken ==
    ASSUME NEW S, NEW q \in Seq(S), q # <<>>
    PROVE  /\ Head(q) \in S /\ Head(q) = q[1]
           /\ Tail(q) \in Seq(S)
           /\ Len(q) \in Nat \ {0} /\ Len(Tail(q)) = Len(q) - 1
           /\ \A i \in 1 .. Len(q) - 1 : Tail(q)[i] = q[i + 1]
<1>1. Len(q) \in Nat \ {0}
    BY EmptySeq
<1> QED
    BY <1>1, HeadTailProperties

-----------------------------------------------------------------------------
(* One connection at a time                                                *)

\* A close event leaves the socket closed and one timer pending.
LEMMA OnCloseLinks ==
    ASSUME LinkTyped, OneLink, OnClose(current),
           sock[current] # "closed",
           UNCHANGED <<current, conn, upstream, counted, seq, expiries>>
    PROVE  LinkTyped' /\ OneLink'
<1>1. timers = <<>> /\ expiries \in SUBSET (Request \X (-1 .. SeqCap))
    BY DEF LinkTyped, OneLink
<1>2. timers' = <<expiries>>
    BY <1>1 DEF OnClose, TryReconnect
<1>3. timers' \in Seq(SUBSET (Request \X (-1 .. SeqCap))) /\ Len(timers') = 1
    BY <1>1, <1>2
<1>4. <<>> \in Seq(Frame)
    OBVIOUS
<1>5. LinkTyped'
    BY <1>3, <1>4 DEF LinkTyped, OnClose
<1>6. OneLink'
    BY <1>3 DEF LinkTyped, OneLink, OnClose
<1> QED
    BY <1>5, <1>6

\* Whatever is received or sent, or happens at the server, the sockets stay.
LEMMA TrafficLinks ==
    ASSUME LinkTyped, OneLink, UNCHANGED <<current, sock, timers>>,
           conn' \in [Socket -> {"gone", "fresh", "identified"}],
           upstream' \in [Socket -> Seq(Request \cup {Identify})],
           downstream' \in [Socket -> Seq(Frame)],
           counted' \in [Socket -> Nat],
           seq' \in -1 .. SeqCap,
           expiries' \subseteq Request \X (-1 .. SeqCap),
           ready' \in BOOLEAN, ready' => sock[current] = "open",
           \A s \in Socket : sock[s] # "open" => downstream'[s] = downstream[s]
    PROVE  LinkTyped' /\ OneLink'
BY DEF LinkTyped, OneLink

\* What the server sends is queued if the socket is open.
LEMMA DeliverTyped ==
    ASSUME LinkTyped, NEW s \in Socket, NEW payload \in Frame, Deliver(s, payload)
    PROVE  /\ downstream' \in [Socket -> Seq(Frame)]
           /\ \A t \in Socket : t # s \/ sock[t] # "open" => downstream'[t] = downstream[t]
           /\ sock[s] = "open" => downstream'[s] = Append(downstream[s], payload)
<1>1. Append(downstream[s], payload) \in Seq(Frame)
    BY Appended DEF LinkTyped
<1> QED
    BY <1>1 DEF LinkTyped, Deliver

LEMMA ServerLinks ==
    ASSUME LinkTyped, OneLink, NEW s \in Socket, Server(s)
    PROVE  LinkTyped' /\ OneLink'
<1>1. UNCHANGED <<current, sock, timers, seq, expiries, ready>>
    BY DEF Server, Identifies, Rejects, Refuse, Answers, FindsOut, counting
<1>2. <<>> \in Seq(Request \cup {Identify})
    OBVIOUS
<1>3. ready => sock[current] = "open"
    BY DEF OneLink
<1>4. ASSUME Identifies(s) PROVE LinkTyped' /\ OneLink'
    <2>1. upstream[s] # <<>> /\ upstream[s] \in Seq(Request \cup {Identify})
        BY <1>4 DEF Identifies, Acceptable, LinkTyped
    <2>2. Tail(upstream[s]) \in Seq(Request \cup {Identify})
        BY <2>1, Taken
    <2>3. Deliver(s, Hello) /\ Hello \in Frame
        BY <1>4, FrameMade DEF Identifies
    <2>4. /\ downstream' \in [Socket -> Seq(Frame)]
          /\ \A t \in Socket : sock[t] # "open" => downstream'[t] = downstream[t]
        BY <2>3, DeliverTyped
    <2>5. /\ upstream' = [upstream EXCEPT ![s] = Tail(upstream[s])]
          /\ conn' = [conn EXCEPT ![s] = "identified"]
          /\ counted' = [counted EXCEPT ![s] = 0]
        BY <1>4 DEF Identifies
    <2>6. /\ upstream' \in [Socket -> Seq(Request \cup {Identify})]
          /\ conn' \in [Socket -> {"gone", "fresh", "identified"}]
          /\ counted' \in [Socket -> Nat]
        BY <2>2, <2>5 DEF LinkTyped
    <2> QED
        BY <1>1, <1>3, <2>4, <2>6, TrafficLinks DEF LinkTyped
<1>5. ASSUME Rejects(s) PROVE LinkTyped' /\ OneLink'
    <2>1. /\ conn' \in [Socket -> {"gone", "fresh", "identified"}]
          /\ upstream' \in [Socket -> Seq(Request \cup {Identify})]
          /\ counted' \in [Socket -> Nat]
        <3>1. upstream' = [upstream EXCEPT ![s] = <<>>] /\ counted' = counted
            BY <1>5 DEF Rejects, Refuse
        <3>2. conn' = [conn EXCEPT ![s] = "gone"]
            BY <1>5 DEF Rejects, Refuse
        <3> QED
            BY <1>2, <3>1, <3>2 DEF LinkTyped
    <2>2. Deliver(s, Refusal) /\ Refusal \in Frame
        BY <1>5, FrameMade DEF Rejects, Refuse
    <2>3. /\ downstream' \in [Socket -> Seq(Frame)]
          /\ \A t \in Socket : sock[t] # "open" => downstream'[t] = downstream[t]
        BY <2>2, DeliverTyped
    <2> QED
        BY <1>1, <1>3, <2>1, <2>3, TrafficLinks DEF LinkTyped
<1>6. ASSUME Answers(s) PROVE LinkTyped' /\ OneLink'
    <2>1. upstream[s] # <<>> /\ upstream[s] \in Seq(Request \cup {Identify})
        BY <1>6 DEF Answers, LinkTyped
    <2>2. Head(upstream[s]) \in Request \cup {Identify}
          /\ Tail(upstream[s]) \in Seq(Request \cup {Identify})
        BY <2>1, Taken
    <2>3. AnswerTo(Head(upstream[s]), counted[s]) \in Frame /\ counted[s] + 1 \in Nat
        BY <2>2, FrameMade DEF LinkTyped
    <2>4. Deliver(s, AnswerTo(Head(upstream[s]), counted[s]))
        BY <1>6 DEF Answers
    <2>5. /\ downstream' \in [Socket -> Seq(Frame)]
          /\ \A t \in Socket : sock[t] # "open" => downstream'[t] = downstream[t]
        BY <2>3, <2>4, DeliverTyped
    <2>6. /\ upstream' \in [Socket -> Seq(Request \cup {Identify})]
          /\ counted' \in [Socket -> Nat] /\ conn' = conn
        BY <1>6, <2>2, <2>3 DEF Answers, LinkTyped
    <2> QED
        BY <1>1, <1>3, <2>5, <2>6, TrafficLinks DEF LinkTyped
<1>7. ASSUME FindsOut(s) PROVE LinkTyped' /\ OneLink'
    <2>1. upstream' = [upstream EXCEPT ![s] = <<>>] /\ UNCHANGED <<downstream, counted>>
        BY <1>7 DEF FindsOut
    <2>2. conn' = [conn EXCEPT ![s] = "gone"]
        BY <1>7 DEF FindsOut
    <2>3. /\ conn' \in [Socket -> {"gone", "fresh", "identified"}]
          /\ upstream' \in [Socket -> Seq(Request \cup {Identify})]
        BY <1>2, <2>1, <2>2 DEF LinkTyped
    <2> QED
        BY <1>1, <1>3, <2>1, <2>3, TrafficLinks DEF LinkTyped
<1> QED
    BY <1>4, <1>5, <1>6, <1>7 DEF Server

LEMMA SendPayloadLinks ==
    ASSUME LinkTyped, OneLink, NEW r \in Request, SendPayload(r)
    PROVE  LinkTyped' /\ OneLink'
<1>1. /\ UNCHANGED <<current, sock, timers, ready, conn, counted, downstream>>
      /\ seq < SeqCap /\ Transmit(sock, r, conn)
      /\ expiries' = expiries \cup {<<r, seq>>}
    BY DEF SendPayload
<1>2. seq' = seq + 1 /\ seq' \in -1 .. SeqCap /\ <<r, seq>> \in Request \X (-1 .. SeqCap)
    BY <1>1, SeqCapAssumption DEF Transmit, LinkTyped
<1>3. Append(upstream[current], r) \in Seq(Request \cup {Identify})
    BY Appended DEF LinkTyped
<1>4. upstream' \in [Socket -> Seq(Request \cup {Identify})]
    BY <1>1, <1>3 DEF Transmit, LinkTyped
<1> QED
    BY <1>1, <1>2, <1>4, TrafficLinks DEF LinkTyped, OneLink

LEMMA BrowserLinks ==
    ASSUME LinkTyped, OneLink, NEW s \in Socket, Browser(s) \/ Break(s)
    PROVE  LinkTyped' /\ OneLink'
<1>1. ASSUME Reconnect(s) PROVE LinkTyped' /\ OneLink'
    <2>1. /\ timers # <<>> /\ sock[s] = "closed"
          /\ sock' = [sock EXCEPT ![s] = "connecting"] /\ current' = s
          /\ timers' = Tail(timers)
          /\ UNCHANGED <<ready, seq, expiries, upstream, downstream, conn, counted>>
        BY <1>1 DEF Reconnect, Due, Fresh, counting, wire
    <2>2. sock[current] = "closed" /\ Len(timers) = 1 /\ ~ready
        BY <2>1 DEF OneLink
    <2>3. timers' = <<>> /\ timers' \in Seq(SUBSET (Request \X (-1 .. SeqCap)))
        <3>1. Tail(timers) \in Seq(SUBSET (Request \X (-1 .. SeqCap))) /\ Len(Tail(timers)) = 0
            BY <2>1, <2>2, Taken DEF LinkTyped
        <3> QED
            BY <2>1, <3>1, EmptySeq
    <2>4. LinkTyped'
        BY <2>1, <2>3 DEF LinkTyped
    <2>5. OneLink'
        BY <2>1, <2>2, <2>3 DEF LinkTyped, OneLink
    <2> QED
        BY <2>4, <2>5
<1>2. ASSUME Open(s) PROVE LinkTyped' /\ OneLink'
    <2>1. /\ sock[s] = "connecting"
          /\ sock' = [sock EXCEPT ![s] = "open"]
          /\ conn' = [conn EXCEPT ![s] = "fresh"]
          /\ UNCHANGED <<current, timers, ready, expiries, downstream, counted>>
        BY <1>2 DEF Open
    <2>2. s = current
        BY <2>1 DEF OneLink
    <2>3. Append(upstream[current], Identify) \in Seq(Request \cup {Identify})
        BY Appended DEF LinkTyped
    <2>4. upstream' \in [Socket -> Seq(Request \cup {Identify})] /\ seq' \in -1 .. SeqCap
        <3>1. \/ upstream' = [upstream EXCEPT ![current] = Append(upstream[current], Identify)]
              \/ upstream' = upstream
            BY <1>2 DEF Open, Transmit
        <3>2. seq' = seq \/ (seq < SeqCap /\ seq' = seq + 1)
            BY <1>2 DEF Open, Transmit
        <3>3. seq \in -1 .. SeqCap /\ upstream \in [Socket -> Seq(Request \cup {Identify})]
            BY DEF LinkTyped
        <3>4. seq' \in -1 .. SeqCap
            BY <3>2, <3>3, SeqCapAssumption
        <3> QED
            BY <2>3, <3>1, <3>3, <3>4
    <2>5. LinkTyped'
        BY <2>1, <2>4 DEF LinkTyped
    <2>6. OneLink'
        BY <2>1, <2>2 DEF LinkTyped, OneLink
    <2> QED
        BY <2>5, <2>6
<1>3. ASSUME Closed(s) PROVE FALSE
    BY <1>3 DEF Closed, LinkTyped
<1>4. ASSUME Break(s) PROVE LinkTyped' /\ OneLink'
    <2>1. s = current
        BY <1>4 DEF Break, OneLink
    <2> QED
        BY <1>4, <2>1, OnCloseLinks DEF Break, counting
<1>5. ASSUME Arrived(s, "HELLO") \/ Arrived(s, "ANSWER") \/ Arrived(s, "CLOSE")
      PROVE  s = current /\ sock[s] = "open" /\ Tail(downstream[s]) \in Seq(Frame)
    <2>1. sock[s] = "open" /\ downstream[s] # <<>>
        BY <1>5 DEF Arrived
    <2> QED
        BY <2>1, Taken DEF OneLink, LinkTyped
<1>6. ASSUME ReceiveHello(s) PROVE LinkTyped' /\ OneLink'
    BY <1>5, <1>6, SeqCapAssumption, TrafficLinks DEF ReceiveHello, Consume, LinkTyped
<1>7. ASSUME ReceiveAnswer(s) PROVE LinkTyped' /\ OneLink'
    BY <1>5, <1>7, TrafficLinks DEF ReceiveAnswer, Consume, LinkTyped, OneLink
<1>8. ASSUME ReceiveClose(s) PROVE LinkTyped' /\ OneLink'
    BY <1>5, <1>8, OnCloseLinks DEF ReceiveClose, counting
<1> QED
    BY <1>1, <1>2, <1>3, <1>4, <1>6, <1>7, <1>8 DEF Browser

LEMMA LinkStep == LinkInv /\ [WebNext]_webVars => LinkInv'
<1> SUFFICES ASSUME LinkInv, [WebNext]_webVars, appClosed' = "no"
             PROVE  LinkTyped' /\ OneLink'
    BY DEF LinkInv
<1>1. CASE UNCHANGED webVars
    BY <1>1 DEF webVars, counting, wire, LinkInv, LinkTyped, OneLink
<1>2. ASSUME WebNext PROVE appClosed = "no" /\ ~CloseAndReconnect /\ ~CloseForGood
    BY <1>2 DEF WebNext, Browser, Server, Reconnect, Open, Closed, ReceiveHello, ReceiveAnswer,
        ReceiveClose, Identifies, Rejects, Refuse, Answers, FindsOut, Break, SendPayload,
        WaiterExpires, CloseAndReconnect, CloseForGood
<1>3. ASSUME LinkTyped, OneLink, NEW r \in Request, NEW n, WaiterExpires(r, n)
      PROVE  LinkTyped' /\ OneLink'
    BY <1>3, TrafficLinks DEF WaiterExpires, wire, LinkTyped, OneLink
<1> QED
    BY <1>1, <1>2, <1>3, ServerLinks, BrowserLinks, SendPayloadLinks DEF WebNext, LinkInv

LEMMA LinkInit == WebInit => LinkInv
<1> SUFFICES ASSUME WebInit PROVE LinkTyped /\ OneLink
    BY DEF LinkInv
<1>1. timers = <<>> /\ timers \in Seq(SUBSET (Request \X (-1 .. SeqCap)))
    BY DEF WebInit
<1>2. <<>> \in Seq(Frame) /\ <<>> \in Seq(Request \cup {Identify})
    OBVIOUS
<1>3. /\ upstream = [s \in Socket |-> <<>>] /\ downstream = [s \in Socket |-> <<>>]
      /\ current \in Socket /\ sock[current] = "connecting"
    BY DEF WebInit, Nothing
<1>4. /\ upstream \in [Socket -> Seq(Request \cup {Identify})]
      /\ downstream \in [Socket -> Seq(Frame)]
    BY <1>2, <1>3
<1>5. LinkTyped
    <2>1. /\ sock \in [Socket -> {"connecting", "open", "closed"}]
          /\ conn \in [Socket -> {"gone", "fresh", "identified"}]
          /\ counted \in [Socket -> Nat]
          /\ expiries = {} /\ ready = FALSE
        BY DEF WebInit
    <2>2. seq = -1
        BY DEF WebInit
    <2>3. seq \in -1 .. SeqCap
        BY <2>2, SeqCapAssumption
    <2> QED
        BY <1>1, <1>3, <1>4, <2>1, <2>3 DEF LinkTyped
<1>6. OneLink
    BY <1>1, <1>3 DEF WebInit, OneLink
<1> QED
    BY <1>5, <1>6

-----------------------------------------------------------------------------
(* Counting along with the server                                          *)

CountParts == WaitersTimed /\ Greeting /\ Numbered /\ Matched

\* What happens at the server's end of an earlier socket is not seen.
LEMMA ElsewhereCounts ==
    ASSUME LinkTyped, OneLink, CountParts,
           UNCHANGED <<current, sock, ready, waiters, expiries, timers, seq, got, downstream>>,
           sock[current] # "closed" =>
                /\ conn'[current] = conn[current]
                /\ upstream'[current] = upstream[current]
                /\ counted'[current] = counted[current]
    PROVE  CountParts'
<1>1. WaitersTimed' /\ Matched'
    BY DEF CountParts, WaitersTimed, Matched
<1>2. Greeting'
    BY DEF CountParts, Greeting
<1>3. ready => sock[current] # "closed"
    BY DEF OneLink
<1>4. Numbered'
    BY <1>3 DEF CountParts, Numbered
<1> QED
    BY <1>1, <1>2, <1>4 DEF CountParts

\* A request is entered under the number that the server will give it.
LEMMA SendPayloadCounts ==
    ASSUME ~EagerRequests, LinkTyped, OneLink, CountParts, NEW r \in Request, SendPayload(r)
    PROVE  CountParts'
<1> DEFINE c == current
<1>1. /\ ready /\ seq < SeqCap /\ Transmit(sock, r, conn)
      /\ waiters' = Put(waiters, seq, r)
      /\ expiries' = expiries \cup {<<r, seq>>}
      /\ UNCHANGED <<sock, current, timers, ready, got, downstream, conn, counted>>
    BY DEF SendPayload
<1>2. /\ sock[c] = "open" /\ conn[c] = "identified"
      /\ seq = counted[c] + Len(upstream[c])
    BY <1>1 DEF OneLink, CountParts, Numbered
<1>3. /\ upstream[c] \in Seq(Request \cup {Identify}) /\ counted[c] \in Nat
      /\ upstream' = [upstream EXCEPT ![c] = Append(upstream[c], r)]
      /\ seq' = seq + 1
    BY <1>1, <1>2 DEF LinkTyped, Transmit
<1>4. /\ upstream'[c] = Append(upstream[c], r)
      /\ Len(upstream[c]) \in Nat /\ Len(upstream'[c]) = Len(upstream[c]) + 1
      /\ \A i \in 1 .. Len(upstream[c]) : upstream'[c][i] = upstream[c][i]
      /\ upstream'[c][Len(upstream[c]) + 1] = r
    BY <1>3, Appended DEF LinkTyped
<1>5. seq \in Nat /\ seq \in -1 .. SeqCap
    BY <1>2, <1>3, <1>4 DEF LinkTyped
<1>6. /\ DOMAIN waiters' = DOMAIN waiters \cup {seq}
      /\ waiters'[seq] = r
      /\ \A n \in DOMAIN waiters : n # seq => waiters'[n] = waiters[n]
    BY <1>1 DEF Put
<1>7. IsMap(waiters', -1 .. SeqCap, Request)
    BY <1>1, <1>5 DEF CountParts, WaitersTimed, IsMap, Put
<1>8. WaitersTimed'
    BY <1>1, <1>6, <1>7 DEF CountParts, WaitersTimed
<1>9. Greeting' /\ Matched'
    BY <1>1, <1>2 DEF CountParts, Greeting, Matched
<1>10. Numbered'
    <2>1. seq' = counted'[c] + Len(upstream'[c])
        BY <1>1, <1>2, <1>3, <1>4
    <2>2. ASSUME NEW n \in DOMAIN waiters'
          PROVE  /\ n \in 0 .. seq' - 1
                 /\ n >= counted[c] => waiters'[n] = upstream'[c][n - counted[c] + 1]
        <3>1. CASE n = seq
            <4>1. n - counted[c] + 1 = Len(upstream[c]) + 1
                BY <1>2, <1>3, <1>4, <3>1
            <4> QED
                BY <1>3, <1>4, <1>5, <1>6, <3>1, <4>1
        <3>2. CASE n # seq
            <4>1. /\ n \in DOMAIN waiters /\ n \in 0 .. seq - 1
                  /\ waiters'[n] = waiters[n]
                  /\ n >= counted[c] => waiters[n] = upstream[c][n - counted[c] + 1]
                BY <1>1, <1>6, <2>2, <3>2 DEF CountParts, Numbered
            <4>2. n >= counted[c] => n - counted[c] + 1 \in 1 .. Len(upstream[c])
                BY <1>2, <1>3, <1>4, <1>5, <4>1
            <4> QED
                BY <1>3, <1>4, <1>5, <4>1, <4>2
        <3> QED
            BY <3>1, <3>2
    <2>3. ASSUME NEW i \in 1 .. Len(downstream[c])
          PROVE  LET a == downstream[c][i]
                 IN  /\ a.type = "ANSWER"
                     /\ a.seq \in 0 .. counted[c] - 1
                     /\ a.seq \in DOMAIN waiters' => waiters'[a.seq] = a.request
        <3> DEFINE a == downstream[c][i]
        <3>1. /\ a.type = "ANSWER"
              /\ a.seq \in 0 .. counted[c] - 1
              /\ a.seq \in DOMAIN waiters => waiters[a.seq] = a.request
            BY <1>1 DEF CountParts, Numbered
        <3>2. a.seq # seq
            BY <1>2, <1>3, <1>4, <3>1
        <3> QED
            BY <1>6, <3>1, <3>2
    <2> QED
        BY <1>1, <1>2, <2>1, <2>2, <2>3 DEF Numbered
<1> QED
    BY <1>8, <1>9, <1>10 DEF CountParts

\* A timeout takes its waiter along, and whatever else stood under its number.
LEMMA WaiterExpiresCounts ==
    ASSUME LinkTyped, CountParts, NEW r, NEW n, WaiterExpires(r, n)
    PROVE  CountParts'
<1>1. /\ waiters' = Erase(waiters, n) /\ expiries' = expiries \ {<<r, n>>}
      /\ UNCHANGED <<sock, current, timers, ready, seq, got, upstream, downstream, conn, counted>>
    BY DEF WaiterExpires, wire
<1>2. /\ DOMAIN waiters' = DOMAIN waiters \ {n}
      /\ \A k \in DOMAIN waiters' : waiters'[k] = waiters[k]
    BY <1>1 DEF Erase, Restrict
<1>3. IsMap(waiters', -1 .. SeqCap, Request)
    BY <1>1 DEF CountParts, WaitersTimed, IsMap, Erase, Restrict
<1>4. WaitersTimed'
    BY <1>1, <1>2, <1>3 DEF CountParts, WaitersTimed
<1>5. Greeting' /\ Matched'
    BY <1>1 DEF CountParts, Greeting, Matched
<1>6. Numbered'
    BY <1>1, <1>2 DEF CountParts, Numbered
<1> QED
    BY <1>4, <1>5, <1>6 DEF CountParts

\* The connection ends: its timer remembers the timeouts that come before it.
LEMMA OnCloseCounts ==
    ASSUME LinkTyped, OneLink, CountParts, OnClose(current), sock[current] # "closed",
           UNCHANGED <<current, waiters, expiries, got>>
    PROVE  CountParts'
<1>1. timers = <<>> /\ timers' = Append(timers, expiries)
    BY DEF OneLink, OnClose, TryReconnect
<1>2. Head(timers') = expiries
    BY <1>1
<1>3. ready' = FALSE /\ sock'[current] = "closed"
    BY DEF OnClose, LinkTyped
<1> QED
    BY <1>2, <1>3 DEF CountParts, WaitersTimed, Greeting, Numbered, Matched

\* When a timer connects again no waiter is left.
LEMMA ReconnectCounts ==
    ASSUME LinkTyped, OneLink, CountParts, NEW s \in Socket, Reconnect(s)
    PROVE  CountParts'
<1>1. /\ timers # <<>> /\ Head(timers) \cap expiries = {}
      /\ conn[s] = "gone" /\ upstream[s] = <<>>
      /\ sock' = [sock EXCEPT ![s] = "connecting"] /\ current' = s
      /\ UNCHANGED <<ready, waiters, expiries, got, upstream, conn>>
    BY DEF Reconnect, Due, Fresh, counting, wire
<1>2. sock[current] = "closed" /\ ~ready
    BY <1>1 DEF OneLink
<1>3. expiries = {}
    BY <1>1, <1>2 DEF CountParts, WaitersTimed
<1>4. sock'[s] = "connecting"
    BY <1>1 DEF LinkTyped
<1> QED
    BY <1>1, <1>2, <1>3, <1>4 DEF CountParts, WaitersTimed, Greeting, Numbered, Matched

LEMMA OpenCounts ==
    ASSUME LinkTyped, OneLink, CountParts, NEW s \in Socket, Open(s)
    PROVE  CountParts'
<1> DEFINE st == [sock EXCEPT ![s] = "open"]
<1>1. /\ sock[s] = "connecting"
      /\ sock' = st
      /\ conn' = [conn EXCEPT ![s] = "fresh"]
      /\ UNCHANGED <<current, timers, ready, waiters, expiries, got, downstream>>
    BY DEF Open
<1>2. s = current
    BY <1>1 DEF OneLink
<1>3. /\ ~ready /\ upstream[s] = <<>> /\ downstream[s] = <<>> /\ expiries = {}
      /\ sock'[s] = "open" /\ conn'[s] = "fresh"
    BY <1>1, <1>2 DEF OneLink, CountParts, Greeting, WaitersTimed, LinkTyped
<1>4. upstream'[s] \in {<<>>, <<Identify>>}
    <2>1. \/ upstream' = [upstream EXCEPT ![current] = Append(upstream[current], Identify)]
          \/ upstream' = upstream
        BY DEF Open, Transmit
    <2> QED
        BY <1>2, <1>3, <2>1 DEF LinkTyped
<1> QED
    BY <1>1, <1>2, <1>3, <1>4 DEF CountParts, WaitersTimed, Greeting, Numbered, Matched

\* What the first payload in the queue of a socket says of the connection.
LEMMA ArrivedMeans ==
    ASSUME LinkTyped, OneLink, CountParts, NEW s \in Socket, NEW type, Arrived(s, type)
    PROVE  /\ s = current /\ sock[s] = "open"
           /\ downstream[s] \in Seq(Frame) /\ downstream[s] # <<>>
           /\ type = "HELLO" => ~ready /\ downstream[s] = <<Hello>>
                                /\ conn[s] = "identified" /\ counted[s] = 0 /\ upstream[s] = <<>>
           /\ type = "ANSWER" => ready
<1>1. sock[s] = "open" /\ downstream[s] # <<>> /\ Head(downstream[s]).type = type
    BY DEF Arrived
<1>2. s = current /\ downstream[s] \in Seq(Frame)
    BY <1>1 DEF OneLink, LinkTyped
<1>3. Head(downstream[s]) = downstream[s][1] /\ Len(downstream[s]) \in Nat \ {0}
    BY <1>1, <1>2, Taken
<1>4. ready => Head(downstream[s]).type = "ANSWER"
    BY <1>2, <1>3 DEF CountParts, Numbered
<1>5. ~ready => \/ /\ conn[s] = "identified" /\ counted[s] = 0
                   /\ upstream[s] = <<>> /\ downstream[s] = <<Hello>>
                \/ downstream[s] = <<Refusal>>
    BY <1>1, <1>2 DEF CountParts, Greeting
<1>6. ~ready => Head(downstream[s]).type \in {"HELLO", "CLOSE"}
    BY <1>5, FrameMade
<1>7. type = "HELLO" => downstream[s] # <<Refusal>>
    BY <1>1, FrameMade
<1> QED
    BY <1>1, <1>2, <1>4, <1>5, <1>6, <1>7

LEMMA ReceiveHelloCounts ==
    ASSUME LinkTyped, OneLink, CountParts, NEW s \in Socket, ReceiveHello(s)
    PROVE  CountParts'
<1>1. /\ s = current /\ sock[s] = "open" /\ ~ready /\ downstream[s] = <<Hello>>
      /\ conn[s] = "identified" /\ counted[s] = 0 /\ upstream[s] = <<>>
    BY ArrivedMeans DEF ReceiveHello
<1>2. /\ seq' = 0 /\ ready' = TRUE
      /\ downstream' = [downstream EXCEPT ![s] = Tail(downstream[s])]
      /\ UNCHANGED <<sock, current, timers, waiters, expiries, got, upstream, conn, counted>>
    BY DEF ReceiveHello, Consume
<1>3. downstream'[s] = <<>>
    BY <1>1, <1>2 DEF LinkTyped
<1>4. expiries = {} /\ DOMAIN waiters = {}
    BY <1>1 DEF CountParts, WaitersTimed
<1>5. WaitersTimed' /\ Greeting' /\ Matched'
    BY <1>1, <1>2 DEF CountParts, WaitersTimed, Greeting, Matched
<1>6. Len(upstream'[s]) = 0 /\ Len(downstream'[s]) = 0
    BY <1>1, <1>2, <1>3
<1>7. Numbered'
    BY <1>1, <1>2, <1>4, <1>6 DEF Numbered
<1> QED
    BY <1>5, <1>7 DEF CountParts

\* A callback is called with what the server answered to its own payload.
LEMMA ReceiveAnswerCounts ==
    ASSUME LinkTyped, OneLink, CountParts, NEW s \in Socket, ReceiveAnswer(s)
    PROVE  CountParts'
<1> DEFINE a == Head(downstream[s])
           r == waiters[a.seq]
<1>1. /\ s = current /\ sock[s] = "open" /\ ready
      /\ downstream[s] \in Seq(Frame) /\ downstream[s] # <<>>
    BY ArrivedMeans DEF ReceiveAnswer
<1>2. /\ downstream' = [downstream EXCEPT ![s] = Tail(downstream[s])]
      /\ UNCHANGED <<sock, current, timers, ready, seq, upstream, conn, counted>>
    BY DEF ReceiveAnswer, Consume
<1>3. /\ a = downstream[s][1]
      /\ Len(downstream[s]) \in Nat \ {0}
      /\ Len(downstream'[s]) = Len(downstream[s]) - 1
      /\ \A i \in 1 .. Len(downstream'[s]) :
            /\ i + 1 \in 1 .. Len(downstream[s])
            /\ downstream'[s][i] = downstream[s][i + 1]
    <2>1. downstream'[s] = Tail(downstream[s])
        BY <1>2 DEF LinkTyped
    <2> QED
        BY <1>1, <2>1, Taken
<1>4. a.seq \in DOMAIN waiters => r = a.request
    BY <1>1, <1>3 DEF CountParts, Numbered
<1>5. /\ \/ /\ a.seq \in DOMAIN waiters /\ waiters' = Erase(waiters, a.seq)
            /\ expiries' = expiries \ {<<r, a.seq>>} /\ got' = got \cup {<<r, a.request>>}
         \/ UNCHANGED <<waiters, expiries, got>>
    BY DEF ReceiveAnswer
<1>6. /\ DOMAIN waiters' \subseteq DOMAIN waiters
      /\ \A n \in DOMAIN waiters' : waiters'[n] = waiters[n]
    BY <1>5 DEF Erase, Restrict
<1>7. IsMap(waiters', -1 .. SeqCap, Request)
    BY <1>5 DEF CountParts, WaitersTimed, IsMap, Erase, Restrict
<1>8. WaitersTimed'
    <2>1. CASE UNCHANGED <<waiters, expiries, got>>
        BY <1>1, <1>2, <2>1 DEF CountParts, WaitersTimed
    <2>2. CASE waiters' = Erase(waiters, a.seq) /\ expiries' = expiries \ {<<r, a.seq>>}
        <3>1. DOMAIN waiters' = DOMAIN waiters \ {a.seq}
            BY <2>2 DEF Erase, Restrict
        <3>2. \A n \in DOMAIN waiters' : <<waiters'[n], n>> \in expiries'
            BY <1>6, <2>2, <3>1 DEF CountParts, WaitersTimed
        <3> QED
            BY <1>1, <1>2, <1>7, <3>2 DEF WaitersTimed
    <2> QED
        BY <1>5, <2>1, <2>2
<1>9. Greeting'
    BY <1>1, <1>2 DEF Greeting
<1>10. Matched'
    BY <1>4, <1>5 DEF CountParts, Matched
<1>11. Numbered'
    <2>1. ASSUME NEW i \in 1 .. Len(downstream'[s])
          PROVE  /\ downstream'[s][i].type = "ANSWER"
                 /\ downstream'[s][i].seq \in 0 .. counted[s] - 1
                 /\ downstream'[s][i].seq \in DOMAIN waiters' =>
                        waiters'[downstream'[s][i].seq] = downstream'[s][i].request
        <3>1. i + 1 \in 1 .. Len(downstream[s]) /\ downstream'[s][i] = downstream[s][i + 1]
            BY <1>3
        <3> QED
            BY <1>1, <1>6, <3>1 DEF CountParts, Numbered
    <2>2. \A n \in DOMAIN waiters' :
            /\ n \in 0 .. seq - 1
            /\ n >= counted[s] => waiters'[n] = upstream[s][n - counted[s] + 1]
        BY <1>1, <1>6 DEF CountParts, Numbered
    <2>3. conn[s] = "identified" /\ seq = counted[s] + Len(upstream[s])
        BY <1>1 DEF CountParts, Numbered
    <2> QED
        BY <1>1, <1>2, <2>1, <2>2, <2>3 DEF Numbered
<1> QED
    BY <1>8, <1>9, <1>10, <1>11 DEF CountParts

\* The server identifies, refuses or answers, on this connection or an earlier one.
LEMMA ServerCounts ==
    ASSUME LinkTyped, OneLink, CountParts, NEW s \in Socket, Server(s)
    PROVE  CountParts'
<1> DEFINE c == current
<1>1. UNCHANGED <<current, sock, ready, waiters, expiries, timers, seq, got>>
    BY DEF Server, Identifies, Rejects, Refuse, Answers, FindsOut, counting
<1>2. WaitersTimed' /\ Matched'
    BY <1>1 DEF CountParts, WaitersTimed, Matched
<1>3. CASE sock[s] # "open"
    <2>1. downstream' = downstream
        BY <1>3 DEF Server, Identifies, Rejects, Refuse, Answers, FindsOut, Deliver
    <2>2. sock[c] # "closed" => s # c
        <3>1. sock[c] = "connecting" => conn[c] = "gone" /\ sock[c] \notin {"closing", "closed"}
            BY DEF CountParts, Greeting
        <3>2. conn[s] = "gone" /\ sock[s] \notin {"closing", "closed"} => ~Server(s)
            BY DEF Server, Identifies, Rejects, Answers, FindsOut
        <3> QED
            BY <1>3, <3>1, <3>2 DEF LinkTyped
    <2>3. s # c => /\ conn'[c] = conn[c] /\ upstream'[c] = upstream[c]
                   /\ counted'[c] = counted[c]
        BY DEF Server, Identifies, Rejects, Refuse, Answers, FindsOut, LinkTyped
    <2> QED
        BY <1>1, <2>1, <2>2, <2>3, ElsewhereCounts
<1>4. CASE sock[s] = "open"
    <2>1. s = c
        BY <1>4 DEF OneLink
    <2>2. upstream[c] \in Seq(Request \cup {Identify}) /\ counted[c] \in Nat
        BY DEF LinkTyped
    <2>3. ASSUME Identifies(s) PROVE CountParts'
        <3>1. /\ conn[c] = "fresh" /\ upstream[c] # <<>> /\ Deliver(c, Hello)
              /\ conn' = [conn EXCEPT ![c] = "identified"]
              /\ counted' = [counted EXCEPT ![c] = 0]
              /\ upstream' = [upstream EXCEPT ![c] = Tail(upstream[c])]
            BY <2>1, <2>3 DEF Identifies, Acceptable
        <3>2. ~ready /\ upstream[c] = <<Identify>> /\ downstream[c] = <<>>
            BY <1>4, <2>1, <3>1 DEF CountParts, Greeting, Numbered
        <3>3. /\ conn'[c] = "identified" /\ counted'[c] = 0 /\ upstream'[c] = <<>>
              /\ downstream'[c] = <<Hello>>
            <4>1. conn'[c] = "identified" /\ counted'[c] = 0 /\ upstream'[c] = Tail(upstream[c])
                BY <3>1 DEF LinkTyped
            <4>2. downstream'[c] = Append(downstream[c], Hello)
                BY <1>4, <2>1, <3>1, FrameMade, DeliverTyped
            <4> QED
                BY <3>2, <4>1, <4>2
        <3>4. Greeting'
            BY <1>1, <1>4, <2>1, <3>3 DEF Greeting
        <3>5. Numbered'
            BY <1>1, <3>2 DEF Numbered
        <3> QED
            BY <1>2, <3>4, <3>5 DEF CountParts
    <2>4. ASSUME Rejects(s) PROVE CountParts'
        <3>1. /\ conn[c] = "fresh" /\ Deliver(c, Refusal)
              /\ conn' = [conn EXCEPT ![c] = "gone"]
              /\ upstream' = [upstream EXCEPT ![c] = <<>>]
            BY <2>1, <2>4 DEF Rejects, Refuse
        <3>2. ~ready /\ downstream[c] = <<>>
            BY <1>4, <2>1, <3>1 DEF CountParts, Greeting, Numbered
        <3>3. conn'[c] = "gone" /\ upstream'[c] = <<>> /\ downstream'[c] = <<Refusal>>
            <4>1. conn'[c] = "gone" /\ upstream'[c] = <<>>
                BY <3>1 DEF LinkTyped
            <4>2. downstream'[c] = Append(downstream[c], Refusal)
                BY <1>4, <2>1, <3>1, FrameMade, DeliverTyped
            <4> QED
                BY <3>2, <4>1, <4>2
        <3>4. Greeting'
            BY <1>1, <1>4, <2>1, <3>3 DEF Greeting
        <3>5. Numbered'
            BY <1>1, <3>2 DEF Numbered
        <3> QED
            BY <1>2, <3>4, <3>5 DEF CountParts
    <2>5. ASSUME Answers(s) PROVE CountParts'
        <3> DEFINE a == AnswerTo(Head(upstream[c]), counted[c])
        <3>1. /\ conn[c] = "identified" /\ upstream[c] # <<>> /\ Deliver(c, a)
              /\ counted' = [counted EXCEPT ![c] = counted[c] + 1]
              /\ upstream' = [upstream EXCEPT ![c] = Tail(upstream[c])]
              /\ conn' = conn
            BY <2>1, <2>5 DEF Answers
        <3>2. ready
            BY <1>4, <2>1, <3>1 DEF CountParts, Greeting
        <3>3. /\ Head(upstream[c]) \in Request \cup {Identify}
              /\ Head(upstream[c]) = upstream[c][1]
              /\ Len(upstream[c]) \in Nat \ {0}
              /\ Len(Tail(upstream[c])) = Len(upstream[c]) - 1
              /\ \A i \in 1 .. Len(upstream[c]) - 1 : Tail(upstream[c])[i] = upstream[c][i + 1]
            BY <2>2, <3>1, Taken
        <3>4. counted'[c] = counted[c] + 1 /\ upstream'[c] = Tail(upstream[c])
            BY <3>1 DEF LinkTyped
        <3>5. a \in Frame
            BY <2>2, <3>3, FrameMade
        <3>6. downstream'[c] = Append(downstream[c], a) /\ downstream[c] \in Seq(Frame)
            BY <1>4, <2>1, <3>1, <3>5, DeliverTyped DEF LinkTyped
        <3>7. a.type = "ANSWER" /\ a.seq = counted[c] /\ a.request = upstream[c][1]
            BY <3>3, FrameMade
        <3> HIDE DEF a
        <3>8. /\ Len(downstream[c]) \in Nat /\ Len(downstream'[c]) = Len(downstream[c]) + 1
              /\ \A i \in 1 .. Len(downstream[c]) : downstream'[c][i] = downstream[c][i]
              /\ downstream'[c][Len(downstream[c]) + 1] = a
            BY <3>5, <3>6, Appended
        <3>9. seq = counted'[c] + Len(upstream'[c])
            BY <2>2, <3>2, <3>3, <3>4 DEF CountParts, Numbered
        <3>10. ASSUME NEW n \in DOMAIN waiters
               PROVE  /\ n \in 0 .. seq - 1
                      /\ n >= counted'[c] => waiters[n] = upstream'[c][n - counted'[c] + 1]
            <4>1. /\ n \in 0 .. seq - 1
                  /\ n >= counted[c] => waiters[n] = upstream[c][n - counted[c] + 1]
                BY <3>2 DEF CountParts, Numbered
            <4>2. seq = counted[c] + Len(upstream[c])
                BY <3>2 DEF CountParts, Numbered
            <4>3. n >= counted'[c] => /\ n >= counted[c]
                                      /\ n - counted'[c] + 1 \in 1 .. Len(upstream[c]) - 1
                                      /\ n - counted'[c] + 1 + 1 = n - counted[c] + 1
                <5>1. counted[c] \in Nat /\ Len(upstream[c]) \in Nat /\ n \in Int
                    BY <2>2, <3>3, <4>1, <4>2
                <5> QED
                    BY <3>4, <4>1, <4>2, <5>1
            <4> QED
                BY <3>3, <3>4, <4>1, <4>3
        <3>11. ASSUME NEW i \in 1 .. Len(downstream'[c])
               PROVE  LET b == downstream'[c][i]
                      IN  /\ b.type = "ANSWER"
                          /\ b.seq \in 0 .. counted'[c] - 1
                          /\ b.seq \in DOMAIN waiters => waiters[b.seq] = b.request
            <4>1. CASE i \in 1 .. Len(downstream[c])
                <5>1. LET b == downstream[c][i]
                      IN  /\ b.type = "ANSWER"
                          /\ b.seq \in 0 .. counted[c] - 1
                          /\ b.seq \in DOMAIN waiters => waiters[b.seq] = b.request
                    BY <3>2, <4>1 DEF CountParts, Numbered
                <5>2. 0 .. counted[c] - 1 \subseteq 0 .. counted'[c] - 1
                    BY <2>2, <3>4
                <5> QED
                    BY <3>8, <4>1, <5>1, <5>2
            <4>2. CASE i = Len(downstream[c]) + 1
                <5>1. downstream'[c][i] = a
                    BY <3>8, <4>2
                <5>2. a.seq \in DOMAIN waiters => waiters[a.seq] = upstream[c][1]
                    BY <2>2, <3>2, <3>7 DEF CountParts, Numbered
                <5>3. a.seq \in 0 .. counted'[c] - 1
                    BY <2>2, <3>4, <3>7
                <5> QED
                    BY <3>7, <5>1, <5>2, <5>3
            <4> QED
                BY <3>8, <4>1, <4>2
        <3>12. Numbered'
            BY <1>1, <3>1, <3>9, <3>10, <3>11 DEF Numbered
        <3>13. Greeting'
            BY <1>1, <1>4, <2>1, <3>2 DEF Greeting
        <3> QED
            BY <1>2, <3>12, <3>13 DEF CountParts
    <2>6. ~FindsOut(s)
        BY <1>4 DEF FindsOut
    <2> QED
        BY <2>3, <2>4, <2>5, <2>6 DEF Server
<1> QED
    BY <1>3, <1>4

LEMMA BrowserCounts ==
    ASSUME LinkTyped, OneLink, CountParts, NEW s \in Socket, Browser(s) \/ Break(s)
    PROVE  CountParts'
<1>1. ASSUME Break(s) PROVE CountParts'
    <2>1. s = current /\ sock[current] # "closed"
        BY <1>1 DEF Break, OneLink
    <2> QED
        BY <1>1, <2>1, OnCloseCounts DEF Break, counting
<1>2. ASSUME ReceiveClose(s) PROVE CountParts'
    <2>1. s = current /\ sock[current] # "closed"
        BY <1>2, ArrivedMeans DEF ReceiveClose
    <2> QED
        BY <1>2, <2>1, OnCloseCounts DEF ReceiveClose, counting
<1>3. ~Closed(s)
    BY DEF Closed, LinkTyped
<1> QED
    BY <1>1, <1>2, <1>3, ReconnectCounts, OpenCounts, ReceiveHelloCounts, ReceiveAnswerCounts
        DEF Browser

LEMMA CountStep ==
    ASSUME ~EagerRequests
    PROVE  LinkInv /\ CountInv /\ [WebNext]_webVars => CountInv'
<1> SUFFICES ASSUME LinkInv, CountInv, [WebNext]_webVars, appClosed' = "no"
             PROVE  CountParts'
    BY DEF CountInv, CountParts
<1>1. CASE UNCHANGED webVars
    <2>1. UNCHANGED <<current, sock, ready, waiters, expiries, timers, seq, got, downstream,
                      conn, upstream, counted, appClosed>>
        BY <1>1 DEF webVars, counting, wire
    <2>2. LinkTyped /\ OneLink /\ CountParts
        BY <2>1 DEF LinkInv, CountInv, CountParts
    <2> QED
        BY <2>1, <2>2, ElsewhereCounts
<1>2. ASSUME WebNext PROVE appClosed = "no" /\ ~CloseAndReconnect /\ ~CloseForGood
    BY <1>2 DEF WebNext, Browser, Server, Reconnect, Open, Closed, ReceiveHello, ReceiveAnswer,
        ReceiveClose, Identifies, Rejects, Refuse, Answers, FindsOut, Break, SendPayload,
        WaiterExpires, CloseAndReconnect, CloseForGood
<1>3. ASSUME WebNext PROVE LinkTyped /\ OneLink /\ CountParts
    BY <1>2, <1>3 DEF LinkInv, CountInv, CountParts
<1> QED
    BY <1>1, <1>2, <1>3, ServerCounts, BrowserCounts, SendPayloadCounts, WaiterExpiresCounts
        DEF WebNext

LEMMA CountInit == WebInit => CountInv
<1> SUFFICES ASSUME WebInit PROVE WaitersTimed /\ Greeting /\ Numbered /\ Matched
    BY DEF CountInv
<1>1. /\ sock[current] = "connecting" /\ conn[current] = "gone" /\ upstream[current] = <<>>
      /\ ~ready /\ waiters = EmptyMap /\ expiries = {} /\ got = {}
    BY DEF WebInit, Nothing
<1>2. IsMap(waiters, -1 .. SeqCap, Request) /\ DOMAIN waiters = {}
    BY <1>1 DEF EmptyMap, IsMap
<1> QED
    BY <1>1, <1>2 DEF WaitersTimed, Greeting, Numbered, Matched

-----------------------------------------------------------------------------
(* The theorems                                                            *)

\* The client's types and its one live socket or timer, for any payloads.
THEOREM LinkInvariance == WebSpec => []LinkInv
BY LinkInit, LinkStep, PTL DEF WebSpec

\* Until the application calls close(), the client has one socket or one pending
\* timer, however connections break and are refused.
THEOREM OneConnection == WebSpec => []OneSocket
<1>1. LinkInv => OneSocket
    <2> SUFFICES ASSUME LinkTyped, OneLink
                 PROVE  /\ Cardinality({s \in Socket : sock[s] # "closed"}) + Len(timers) = 1
                        /\ \A s \in Socket : sock[s] # "closed" => s = current
        BY DEF LinkInv, OneSocket
    <2> DEFINE Used == {s \in Socket : sock[s] # "closed"}
    <2>1. \A s \in Socket : sock[s] # "closed" => s = current
        BY DEF OneLink
    <2>2. CASE sock[current] = "closed"
        <3>1. Used = {}
            BY <2>1, <2>2
        <3>2. Cardinality(Used) = 0
            BY <3>1, FS_EmptySet
        <3>3. Len(timers) = 1
            BY <2>2 DEF OneLink
        <3> QED
            BY <2>1, <3>2, <3>3
    <2>3. CASE sock[current] # "closed"
        <3>1. Used = {current}
            BY <2>1, <2>3 DEF LinkTyped
        <3>2. Cardinality(Used) = 1
            BY <3>1, FS_Singleton
        <3>3. Len(timers) = 0
            BY <2>3 DEF OneLink
        <3> QED
            BY <2>1, <3>2, <3>3
    <2> QED
        BY <2>2, <2>3
<1> QED
    BY <1>1, LinkInvariance, PTL

\* What both ends count, and what each number stands for, without early payloads.
THEOREM CountInvariance == ~EagerRequests => (WebSpec => []CountInv)
<1> SUFFICES ASSUME ~EagerRequests PROVE WebSpec => []CountInv
    OBVIOUS
<1>1. LinkInv /\ CountInv /\ [WebNext]_webVars => CountInv'
    BY CountStep
<1> QED
    BY <1>1, LinkInvariance, CountInit, PTL DEF WebSpec

\* An application that waits for HELLO counts as the server does, over any number
\* of connections, until it calls close().
THEOREM BothEndsCountAlike == ~EagerRequests => (WebSpec => []NumbersAgree)
<1> SUFFICES ASSUME ~EagerRequests PROVE WebSpec => []NumbersAgree
    OBVIOUS
<1>1. CountInv => NumbersAgree
    BY DEF CountInv, Numbered, NumbersAgree
<1>2. WebSpec => []CountInv
    BY CountInvariance
<1> QED
    BY <1>1, <1>2, PTL

\* Its callbacks get the answers to their own payloads: no late answer, timeout or
\* new connection puts another request behind a number in between.
THEOREM AnswersReachTheirCallbacks == ~EagerRequests => (WebSpec => []CallbackGetsItsAnswer)
<1> SUFFICES ASSUME ~EagerRequests PROVE WebSpec => []CallbackGetsItsAnswer
    OBVIOUS
<1>1. CountInv => CallbackGetsItsAnswer
    BY DEF CountInv, Matched, CallbackGetsItsAnswer
<1>2. WebSpec => []CountInv
    BY CountInvariance
<1> QED
    BY <1>1, <1>2, PTL
=============================================================================
