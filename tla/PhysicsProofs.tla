---------------------------- MODULE PhysicsProofs ----------------------------
(***************************************************************************)
(* Proofs about the physics service beside those about the game: about the *)
(* lock between its tasks (WorldLock), for every number of messages, about *)
(* the rounds of its simulation (Motion), for every number of bodies,      *)
(* every polygon and every order of the systems, about the collision test  *)
(* (Collision, as Shapes defines what it promises), for convex polygons,   *)
(* and about what the collider makes of the squares of main.rs.            *)
(***************************************************************************)
EXTENDS WorldLock, Motion, Shapes, FiniteSetTheorems, SequenceTheorems, WellFoundedInduction, TLAPS

-----------------------------------------------------------------------------
(* The lock                                                                *)

\* The inductive invariant: a message that the bot is busy with stays the first one,
\* and a task that writes is alone with the world.
LockInv ==
    /\ LockTypeOK
    /\ queue \in Seq(Task)
    /\ at["recv"] \in {"waiting", "working"} => inbox # <<>>
    /\ \A t \in holders : Writes(t) => holders = {t}

\* Nobody waits at first.
LEMMA InitInv == LockInit => LockInv
<1> SUFFICES ASSUME LockInit PROVE LockInv
  OBVIOUS
<1> USE DEF LockInit
<1>1. IsInjective(queue) /\ queue \in Seq(Task) /\ Range(queue) = {}
  BY DEF IsInjective, Range
<1>2. inbox \in Seq(Kind) /\ Len(inbox) <= InboxBound
  BY InboxAssumption
<1>3. at["recv"] = "idle"
  BY DEF Task
<1> QED
  BY <1>1, <1>2, <1>3 DEF LockInv, LockTypeOK

\* A task that asks is added at the end of the queue.
LEMMA AskInv ==
    ASSUME LockInv, NEW t \in Task, Ask(t), t = "recv" => inbox # <<>>
    PROVE  LockInv'
<1> USE DEF LockInv, LockTypeOK, Ask
<1>1. queue' \in Seq(Task) /\ Len(queue') = Len(queue) + 1
  OBVIOUS
<1>2. \A i \in 1 .. Len(queue) : queue'[i] = queue[i]
  OBVIOUS
<1>3. queue'[Len(queue) + 1] = t
  OBVIOUS
<1>4. \A i \in 1 .. Len(queue) : queue[i] # t
  BY DEF Range
<1>5. IsInjective(queue)'
  BY <1>1, <1>2, <1>3, <1>4 DEF IsInjective
<1>6. Range(queue)' = {u \in Task : at'[u] = "waiting"}
  <2>1. Range(queue)' = Range(queue) \cup {t}
    BY <1>1, <1>2, <1>3 DEF Range
  <2> QED
    BY <2>1
<1>7. holders' = {u \in Task : at'[u] = "working"}
  OBVIOUS
<1>8. \A u \in holders' : Writes(u)' => holders' = {u}
  BY DEF Writes
<1> QED
  BY <1>1, <1>5, <1>6, <1>7, <1>8

\* The first in the queue leaves it, and the rest keep their order.
LEMMA GrantInv ==
    ASSUME LockInv, Grant
    PROVE  LockInv'
<1> USE DEF LockInv, LockTypeOK, Grant, Admit
<1> DEFINE t == Head(queue)
<1>1. t \in Task /\ at[t] = "waiting" /\ t = queue[1]
  BY DEF Range
<1>2. queue' \in Seq(Task) /\ Len(queue') = Len(queue) - 1
  OBVIOUS
<1>3. \A i \in 1 .. Len(queue') : queue'[i] = queue[i + 1]
  OBVIOUS
<1>4. IsInjective(queue)'
  BY <1>2, <1>3 DEF IsInjective
<1>5. Range(queue)' = Range(queue) \ {t}
  <2>1. \A i \in 1 .. Len(queue') : queue[i + 1] \in Range(queue) /\ queue[i + 1] # t
    BY <1>1, <1>2 DEF IsInjective, Range
  <2>2. \A u \in Range(queue) \ {t} : \E i \in 1 .. Len(queue') : queue[i + 1] = u
    <3> TAKE u \in Range(queue) \ {t}
    <3>1. PICK j \in 1 .. Len(queue) : queue[j] = u
      BY DEF Range
    <3>2. j # 1
      BY <1>1, <3>1
    <3>3. j - 1 \in 1 .. Len(queue')
      BY <1>2, <3>2
    <3> QED
      BY <3>1, <3>3
  <2>3. \A u \in Range(queue)' : u \in Range(queue) \ {t}
    BY <1>3, <2>1 DEF Range
  <2>4. \A u \in Range(queue) \ {t} : u \in Range(queue)'
    <3> TAKE u \in Range(queue) \ {t}
    <3>1. PICK i \in 1 .. Len(queue') : queue[i + 1] = u
      BY <2>2
    <3>2. queue'[i] = u /\ i \in DOMAIN queue'
      BY <1>2, <1>3, <3>1
    <3> QED
      BY <3>2 DEF Range
  <2> QED
    BY <2>3, <2>4
<1>6. Range(queue)' = {u \in Task : at'[u] = "waiting"}
  BY <1>1, <1>5
<1>7. holders' = {u \in Task : at'[u] = "working"}
  BY <1>1
<1>8. \A u \in holders' : Writes(u)' => holders' = {u}
  <2>1. \A u \in Task : Writes(u)' = Writes(u)
    BY DEF Writes
  <2>2. CASE Writes(t)
    BY <2>2 DEF Admits
  <2>3. CASE ~Writes(t)
    BY <1>1, <2>1, <2>3 DEF Admits
  <2> QED
    BY <2>2, <2>3
<1>9. at'["recv"] \in {"waiting", "working"} => inbox' # <<>>
  BY <1>1 DEF Task
<1> QED
  BY <1>1, <1>2, <1>4, <1>6, <1>7, <1>8, <1>9

\* A guard that is dropped leaves the others alone.
LEMMA DropInv ==
    ASSUME LockInv, NEW t \in Task, NEW next \in {"idle", "ended"}, Drop(t, next),
           queue' = queue, started' \in BOOLEAN, running' \in BOOLEAN,
           inbox' \in Seq(Kind), Len(inbox') <= InboxBound,
           t # "recv" => inbox' = inbox
    PROVE  LockInv'
<1> USE DEF LockInv, LockTypeOK, Drop
<1>1. IsInjective(queue)' /\ queue' \in Seq(Task)
  BY DEF IsInjective
<1>2. Range(queue)' = {u \in Task : at'[u] = "waiting"}
  BY DEF Range
<1>3. holders' = {u \in Task : at'[u] = "working"}
  OBVIOUS
<1>4. \A u \in holders' : Writes(u)' => holders' = {u}
  <2> SUFFICES ASSUME NEW u \in holders', Writes(u)' PROVE holders' = {u}
    OBVIOUS
  <2>1. u \in holders /\ u # t
    OBVIOUS
  <2>2. Writes(u)
    BY <2>1 DEF Writes
  <2> QED
    BY <2>1, <2>2
<1>5. at'["recv"] \in {"waiting", "working"} => inbox' # <<>>
  BY DEF Task
<1> QED
  BY <1>1, <1>2, <1>3, <1>4, <1>5

\* A message that arrives stands behind the one that the bot is busy with.
LEMMA ArriveInv ==
    ASSUME LockInv, NEW kind \in Kind, Arrive(kind)
    PROVE  LockInv'
<1> USE DEF LockInv, LockTypeOK, Arrive
<1>1. inbox' \in Seq(Kind) /\ Len(inbox') <= InboxBound /\ inbox' # <<>>
  BY InboxAssumption
<1>2. \A u \in holders : Writes(u)' => Writes(u)
  <2>1. inbox # <<>> => Head(inbox') = Head(inbox)
    OBVIOUS
  <2>2. "recv" \in holders => inbox # <<>>
    OBVIOUS
  <2> QED
    BY <2>1, <2>2 DEF Writes
<1>3. IsInjective(queue)' /\ Range(queue)' = Range(queue)
  BY DEF IsInjective, Range
<1> QED
  BY <1>1, <1>2, <1>3

\* With main the program ends.
LEMMA SystemEndsInv ==
    ASSUME LockInv, SystemEnds
    PROVE  LockInv'
BY InboxAssumption DEF LockInv, LockTypeOK, SystemEnds, IsInjective, Range, Kind, Task

\* What changes neither the queue nor the guards nor the inbox.
LEMMA QuietInv ==
    ASSUME LockInv, UNCHANGED <<queue, holders, inbox, started>>, running' \in BOOLEAN,
           at' = at \/ SendEnds
    PROVE  LockInv'
<1> USE DEF LockInv, LockTypeOK
<1>1. at' \in [Task -> {"idle", "waiting", "working", "ended"}] /\ at'["recv"] = at["recv"]
      /\ \A u \in Task : at'[u] = at[u] \/ (at[u] = "idle" /\ at'[u] = "ended")
  BY DEF SendEnds, Task
<1>2. IsInjective(queue)' /\ Range(queue)' = Range(queue)
  BY DEF IsInjective, Range
<1>3. \A u \in holders : Writes(u)' = Writes(u)
  BY DEF Writes
<1> QED
  BY <1>1, <1>2, <1>3

\* Every step keeps the invariant.
LEMMA StepInv == LockInv /\ [LockNext]_lockVars => LockInv'
<1> SUFFICES ASSUME LockInv, [LockNext]_lockVars PROVE LockInv'
  OBVIOUS
<1>1. CASE System
  <2>1. CASE SystemAsks
    BY <2>1, AskInv DEF SystemAsks, Task
  <2>2. CASE SystemRound
    BY <2>2, DropInv DEF SystemRound, LockInv, LockTypeOK, Task
  <2>3. CASE SystemEnds
    BY <2>3, SystemEndsInv
  <2> QED
    BY <1>1, <2>1, <2>2, <2>3 DEF System
<1>2. CASE SendLoop
  <2>1. CASE SendAsks
    BY <2>1, AskInv DEF SendAsks, Task
  <2>2. CASE SendRound
    BY <2>2, DropInv DEF SendRound, LockInv, LockTypeOK, Task
  <2>3. CASE SendEnds
    BY <2>3, QuietInv DEF SendEnds, LockInv, LockTypeOK
  <2> QED
    BY <1>2, <2>1, <2>2, <2>3 DEF SendLoop
<1>3. CASE RecvLoop
  <2>1. CASE RecvAsks
    BY <2>1, AskInv DEF RecvAsks, Task
  <2>2. CASE RecvHandles
    <3>1. inbox' \in Seq(Kind) /\ Len(inbox') <= InboxBound
      <4>1. inbox # <<>> /\ inbox' = Tail(inbox)
        BY <2>2 DEF RecvHandles, Drop, LockInv, LockTypeOK
      <4> QED
        BY <4>1, InboxAssumption DEF LockInv, LockTypeOK
    <3> QED
      BY <2>2, <3>1, DropInv DEF RecvHandles, LockInv, LockTypeOK, Task
  <2>3. CASE RecvPanics
    <3>1. inbox' \in Seq(Kind) /\ Len(inbox') <= InboxBound
      BY <2>3, InboxAssumption DEF RecvPanics
    <3> QED
      BY <2>3, <3>1, DropInv DEF RecvPanics, LockInv, LockTypeOK, Task
  <2> QED
    BY <1>3, <2>1, <2>2, <2>3 DEF RecvLoop
<1>4. CASE Grant
  BY <1>4, GrantInv
<1>5. CASE \E kind \in Kind : Arrive(kind)
  BY <1>5, ArriveInv
<1>6. CASE Interrupt
  BY <1>6, QuietInv DEF Interrupt
<1>7. CASE UNCHANGED lockVars
  BY <1>7, QuietInv DEF lockVars, LockInv, LockTypeOK
<1> QED
  BY <1>1, <1>2, <1>3, <1>4, <1>5, <1>6, <1>7 DEF LockNext

LEMMA AlwaysInv == LockSpec => []LockInv
BY InitInv, StepInv, PTL DEF LockSpec

-----------------------------------------------------------------------------
\* The queue, the guards and the states of the tasks tell the same: whoever waits
\* stands in the queue once, and whoever works has a guard.
THEOREM LockTypeCorrect == LockSpec => []LockTypeOK
<1>1. LockInv => LockTypeOK
  BY DEF LockInv
<1> QED
  BY <1>1, AlwaysInv, PTL

\* No storage of the world is written by one task while another has it borrowed,
\* whatever messages the bot gets.
THEOREM StoragesSafe == LockSpec => []NoBorrowClash
<1>1. LockInv => NoBorrowClash
  <2> SUFFICES ASSUME LockInv, NEW t \in holders, NEW u \in holders, t # u
               PROVE  Changes(t) \cap (Reads(u) \cup Changes(u)) = {}
    BY DEF NoBorrowClash
  <2>1. ~Writes(t) /\ ~Writes(u)
    BY DEF LockInv
  <2>2. t \in Task /\ u \in Task
    BY DEF LockInv, LockTypeOK
  <2>3. "recv" \in holders => Head(inbox) \in Kind
    BY DEF LockInv, LockTypeOK
  <2>4. CASE t = "send"
    BY <2>4 DEF Changes
  <2>5. CASE t = "recv"
    BY <2>1, <2>2, <2>3, <2>5 DEF Changes, Reads, Writes, Task, Kind
  <2> QED
    BY <2>1, <2>2, <2>4, <2>5 DEF Task, Writes
<1> QED
  BY <1>1, AlwaysInv, PTL

-----------------------------------------------------------------------------
(* The rounds                                                              *)

\* Vectors and polygons that have at least one point.
Vector == Int \X Int
Polys == [centroid : Vector, points : Seq(Vector) \ {<<>>}]

\* The shapes have still to follow the positions.
Halfway == todo # <<>> /\ Head(todo) = "shape_kine"

\* Positions, velocities and shapes of the same bodies, of which there are finitely many,
\* all of them once created, and the marked ones among them.
MotionTyped ==
    /\ IsFiniteSet(Alive) /\ Alive \subseteq used /\ used \subseteq Entity
    /\ pos \in [Alive -> Vector] /\ vel \in [Alive -> Vector] /\ shape \in [Alive -> Polys]
    /\ doomed \subseteq Alive
    /\ pairs \in Seq(Entity \X Entity)

\* What is left of a round is the end of the order, and of maintain().
Turns == Systems \cup {"maintain"}
Round == Append(order, "maintain")

RoundInv ==
    /\ order \in Built
    /\ todo \in Seq(Turns)
    /\ \E n \in 0 .. 6 : Len(todo) = n /\ \A i \in 1 .. n : todo[i] = Round[6 - n + i]

\* Every loop over the pairs begins with the first one, and comes to none beyond the last.
LoopInv ==
    /\ handled \in 0 .. Len(pairs)
    /\ handled # 0 => Due("collider") \/ Due("grav")

\* A shape is where its body is, or one velocity behind.
FollowInv ==
    MovesAlike =>
        \A e \in Alive :
            pos[e] = IF Halfway THEN Plus(shape[e].centroid, vel[e]) ELSE shape[e].centroid

\* The inductive invariant.
MotionInv == MotionTyped /\ RoundInv /\ LoopInv /\ FollowInv

-----------------------------------------------------------------------------
(* Folds                                                                   *)

\* Induction over a finite set, with a set T instead of a predicate: T has every subset
\* of S, if it has each one that it has without any one of its elements.
Grows(T, S) == \A s \in SUBSET S : (\A x \in s : s \ {x} \in T) => s \in T

LEMMA SubsetsUp ==
    ASSUME NEW S, IsFiniteSet(S), NEW T, Grows(T, S)
    PROVE  SUBSET S \subseteq T
<1> SUFFICES ASSUME NEW bad \in SUBSET S, bad \notin T PROVE FALSE
    OBVIOUS
<1> DEFINE Sizes == {n \in Nat : \E s \in SUBSET S : s \notin T /\ Cardinality(s) = n}
<1>1. \A s \in SUBSET S : IsFiniteSet(s) /\ Cardinality(s) \in Nat
    BY FS_Subset, FS_CardinalityType
<1>2. Sizes \subseteq Nat /\ Sizes # {}
    BY <1>1
<1>3. PICK least \in Sizes : \A i \in Sizes : <<i, least>> \notin OpToRel(<, Nat)
    BY <1>2, NatLessThanWellFounded, WFMin
<1>4. PICK s \in SUBSET S : s \notin T /\ Cardinality(s) = least
    BY <1>3
<1>5. PICK x \in s : s \ {x} \notin T
    BY <1>4 DEF Grows
<1>6. s \ {x} \in SUBSET S /\ Cardinality(s \ {x}) = least - 1 /\ Cardinality(s \ {x}) \in Nat
    BY <1>1, <1>4, FS_RemoveElement
<1>7. least - 1 \in Sizes
    BY <1>5, <1>6
<1>8. <<least - 1, least>> \in OpToRel(<, Nat)
    <2>1. <<least - 1, least>> \in Nat \X Nat
        BY <1>2, <1>7
    <2>2. least - 1 < least
        BY <1>2
    <2> QED BY <2>1, <2>2 DEF OpToRel
<1> QED BY <1>3, <1>7, <1>8

\* A fold goes through a set S by some choice c of the element that comes last; G[x] is
\* what it does with x.  On the subsets of S it computes h.
Chooses(c, S) == \A s \in SUBSET S : s # {} => c[s] \in s
Steps(G, S, V) == G \in [S -> [V -> V]]
Iter(c, base, G, h, s) == IF s = {} THEN base ELSE G[c[s]][h[s \ {c[s]}]]
Folds(h, c, base, G, S, V) ==
    h \in [SUBSET S -> V] /\ \A s \in SUBSET S : h[s] = Iter(c, base, G, h, s)

\* A fold whose steps stay in V stays in V.
LEMMA FoldExists ==
    ASSUME NEW S, IsFiniteSet(S), NEW V, NEW base \in V,
           NEW G, Steps(G, S, V), NEW c, Chooses(c, S)
    PROVE  \E h : Folds(h, c, base, G, S, V)
<1> DEFINE D(n) == {s \in SUBSET S : Cardinality(s) <= n}
           Good(n, h) == h \in [D(n) -> V] /\ \A s \in D(n) : h[s] = Iter(c, base, G, h, s)
           T == {t \in SUBSET S : \E h : Good(Cardinality(t), h)}
<1>1. \A s \in SUBSET S : IsFiniteSet(s) /\ Cardinality(s) \in Nat
    BY FS_Subset, FS_CardinalityType
<1>2. ASSUME NEW t \in SUBSET S, \A x \in t : t \ {x} \in T
      PROVE  t \in T
    <2>1. CASE t = {}
        <3> DEFINE h == [s \in D(0) |-> base]
        <3>1. Cardinality(t) = 0 /\ \A s \in D(0) : s = {}
            BY <1>1, <2>1, FS_EmptySet
        <3>2. Good(0, h)
            BY <3>1 DEF Iter
        <3> QED BY <3>1, <3>2
    <2>2. CASE t # {}
        <3> DEFINE n == Cardinality(t)
        <3>1. PICK x \in t : t \ {x} \in T
            BY <1>2, <2>2
        <3>2. n \in Nat /\ n > 0 /\ Cardinality(t \ {x}) = n - 1
            BY <1>1, <2>2, <3>1, FS_RemoveElement, FS_EmptySet
        <3>10. \E h : Good(Cardinality(t \ {x}), h)
            BY <3>1
        <3>3. PICK h : Good(n - 1, h)
            <4> HIDE DEF Good
            <4> QED BY <3>2, <3>10
        <3> DEFINE g == [s \in D(n) |-> Iter(c, base, G, h, s)]
        <3> HIDE DEF n
        <3>4. \A s \in D(n) : s # {} => c[s] \in s /\ s \ {c[s]} \in D(n - 1)
            <4> TAKE s \in D(n)
            <4> HAVE s # {}
            <4>1. c[s] \in s /\ IsFiniteSet(s) /\ Cardinality(s) \in Nat
                BY <1>1 DEF Chooses
            <4>2. Cardinality(s \ {c[s]}) = Cardinality(s) - 1
                BY <4>1, FS_RemoveElement
            <4> QED BY <3>2, <4>1, <4>2
        <3>5. g \in [D(n) -> V]
            <4>1. \A s \in D(n) : Iter(c, base, G, h, s) \in V
                BY <3>3, <3>4 DEF Iter, Steps
            <4> QED BY <4>1
        <3>6. \A s \in D(n - 1) : s \in D(n) /\ g[s] = h[s]
            <4>1. \A s \in D(n - 1) : s \in D(n)
                BY <1>1, <3>2
            <4> QED BY <3>3, <4>1
        <3>7. \A s \in D(n) : g[s] = Iter(c, base, G, g, s)
            <4>1. \A s \in D(n) : Iter(c, base, G, h, s) = Iter(c, base, G, g, s)
                BY <3>4, <3>6 DEF Iter
            <4> QED BY <4>1
        <3>8. Good(n, g)
            BY <3>5, <3>7
        <3> QED BY <3>8 DEF n
    <2> QED BY <2>1, <2>2
<1>3. S \in T
    <2> HIDE DEF T
    <2> QED BY <1>2, SubsetsUp DEF Grows
<1>4. D(Cardinality(S)) = SUBSET S
    BY FS_Subset
<1>5. PICK h : h \in [SUBSET S -> V] /\ \A s \in SUBSET S : h[s] = Iter(c, base, G, h, s)
    BY <1>3, <1>4
<1> QED BY <1>5 DEF Folds

\* Multiplication by a positive number keeps the order of two others.
LEMMA Monotone ==
    ASSUME NEW x \in Int, NEW y \in Int, NEW q \in Int, q > 0
    PROVE  x >= y <=> x * q >= y * q
OBVIOUS

\* The largest and the smallest number of a finite set.
LEMMA MaxMin ==
    ASSUME NEW S \in SUBSET Int, IsFiniteSet(S), S # {}
    PROVE  /\ Max(S) \in S /\ \A x \in S : x <= Max(S)
           /\ Min(S) \in S /\ \A x \in S : x >= Min(S)
<1> DEFINE T == {s \in SUBSET S : s # {} => \E m \in s, n \in s : \A x \in s : n <= x /\ x <= m}
<1>1. ASSUME NEW s \in SUBSET S, \A x \in s : s \ {x} \in T
      PROVE  s \in T
    <2> SUFFICES ASSUME s # {}
                 PROVE  \E m \in s, n \in s : \A x \in s : n <= x /\ x <= m
        OBVIOUS
    <2>1. PICK y \in s : s \ {y} \in T
        BY <1>1
    <2>2. CASE s \ {y} = {}
        BY <2>1, <2>2
    <2>3. CASE s \ {y} # {}
        <3>1. PICK m \in s \ {y}, n \in s \ {y} : \A x \in s \ {y} : n <= x /\ x <= m
            BY <2>1, <2>3
        <3>2. m \in Int /\ n \in Int /\ y \in Int /\ s \subseteq Int
            OBVIOUS
        <3> DEFINE hi == IF y >= m THEN y ELSE m
                   lo == IF y <= n THEN y ELSE n
        <3>3. hi \in s /\ lo \in s /\ \A x \in s : lo <= x /\ x <= hi
            BY <3>1, <3>2
        <3> QED BY <3>3
    <2> QED BY <2>2, <2>3
<1>2. S \in T
    <2> HIDE DEF T
    <2> QED BY <1>1, SubsetsUp DEF Grows
<1>3. PICK m \in S, n \in S : \A x \in S : n <= x /\ x <= m
    BY <1>2
<1>4. Max(S) \in S /\ \A x \in S : x <= Max(S)
    <2>1. \E x \in S : \A y \in S : x >= y
        BY <1>3
    <2> QED BY <2>1 DEF Max
<1>5. Min(S) \in S /\ \A x \in S : x >= Min(S)
    <2>1. \E x \in S : \A y \in S : x <= y
        BY <1>3
    <2> QED BY <2>1 DEF Min
<1> QED BY <1>4, <1>5

-----------------------------------------------------------------------------
(* Vectors and polygons                                                    *)

\* Squares are not negative.
LEMMA SquarePositive == ASSUME NEW a \in Int PROVE a * a >= 0 /\ (a # 0 => a * a > 0)
<1>1. CASE a > 0
    BY <1>1
<1>2. CASE a < 0
    BY <1>2
<1>3. CASE a = 0
    BY <1>3
<1> QED BY <1>1, <1>2, <1>3

\* Division by a positive number stays among the integers.
LEMMA DividesInto ==
    ASSUME NEW a \in Int, NEW d \in Int, d > 0 PROVE a \div d \in Int
OBVIOUS

\* A vector is the pair of its coordinates.
LEMMA VectorPairs ==
    ASSUME NEW v \in Vector
    PROVE  v = <<v[1], v[2]>> /\ v[1] \in Int /\ v[2] \in Int
BY DEF Vector

\* The operations on vectors that need no division.
LEMMA VectorSums ==
    /\ Zero \in Vector
    /\ \A v \in Vector, w \in Vector : Plus(v, w) \in Vector /\ Minus(v, w) \in Vector
    /\ \A v \in Vector, w \in Vector : Dot(v, w) \in Int /\ Cross(v, w) \in Int
    /\ \A v \in Vector : Opposite(v) \in Vector /\ Perp(v) \in Vector /\ Norm2(v) \in Int
BY VectorPairs DEF Zero, Plus, Minus, Opposite, Perp, Dot, Cross, Norm2, Vector

\* A vector can be divided by every number but 0.
LEMMA VectorProducts ==
    ASSUME NEW v \in Vector, NEW k \in Int
    PROVE  Times(v, k) \in Vector /\ (k # 0 => Over(v, k) \in Vector)
<1>1. Times(v, k) \in Vector
    BY VectorPairs DEF Times, Vector
<1>2. ASSUME k # 0 PROVE Over(v, k) \in Vector
    <2> DEFINE d == IF k < 0 THEN -k ELSE k
               u == IF k < 0 THEN Opposite(v) ELSE v
    <2>1. d \in Int /\ d > 0 /\ u \in Vector
        BY <1>2, VectorSums
    <2>2. u[1] \in Int /\ u[2] \in Int
        BY <2>1 DEF Vector
    <2>3. u[1] \div d \in Int /\ u[2] \div d \in Int
        BY <2>1, <2>2, DividesInto
    <2>4. Over(v, k) = <<u[1] \div d, u[2] \div d>>
        BY DEF Over
    <2> QED BY <2>3, <2>4 DEF Vector
<1> QED BY <1>1, <1>2

\* All vectors but zero have a norm greater than 0.
LEMMA NormPositive == ASSUME NEW v \in Vector, v # Zero PROVE Norm2(v) \in Int /\ Norm2(v) > 0
<1> DEFINE a == v[1] * v[1]
           b == v[2] * v[2]
<1>1. Norm2(v) = a + b
    BY DEF Norm2, Dot
<1>2. v[1] # 0 \/ v[2] # 0
    BY VectorPairs DEF Zero
<1>3. v[1] \in Int /\ v[2] \in Int /\ a \in Int /\ b \in Int
    BY VectorPairs
<1>4. a >= 0 /\ b >= 0 /\ (a > 0 \/ b > 0)
    BY <1>2, <1>3, SquarePositive
<1> HIDE DEF a, b
<1> QED BY <1>1, <1>3, <1>4

\* The elements of a sequence, last first: how FoldLeft goes through it.
LEMMA LastFirst ==
    ASSUME NEW n \in Nat, NEW s \in SUBSET (1 .. n)
    PROVE  IsFiniteSet(1 .. n) /\ (s # {} => Max(s) \in s)
<1>1. IsFiniteSet(1 .. n)
    BY FS_Interval
<1>2. IsFiniteSet(s)
    BY <1>1, FS_Subset
<1> QED BY <1>1, <1>2, MaxMin

\* Hits with an axis that can be divided by, and the comparison of their lengths.
Hits == {hit \in [axis : Vector, over : Int] : hit.axis # Zero}

\* The comparison of fractions is transitive.
LEMMA Ratios ==
    ASSUME NEW a \in Int, NEW b \in Int, NEW c \in Int,
           NEW p \in Int, NEW q \in Int, NEW r \in Int, p > 0, q > 0, r > 0,
           a * q >= b * p, b * r >= c * q
    PROVE  a * r >= c * p
<1>1. (a * q) * r >= (b * p) * r
    <2> DEFINE x == a * q
               y == b * p
    <2>1. x \in Int /\ y \in Int /\ x >= y
        OBVIOUS
    <2> HIDE DEF x, y
    <2>2. x * r >= y * r
        BY <2>1, Monotone
    <2> QED BY <2>2 DEF x, y
<1>2. (b * r) * p >= (c * q) * p
    <2> DEFINE x == b * r
               y == c * q
    <2>1. x \in Int /\ y \in Int /\ x >= y
        OBVIOUS
    <2> HIDE DEF x, y
    <2>2. x * p >= y * p
        BY <2>1, Monotone
    <2> QED BY <2>2 DEF x, y
<1>3. (a * r) * q >= (c * p) * q
    BY <1>1, <1>2
<1> DEFINE x == a * r
           y == c * p
<1>4. x \in Int /\ y \in Int /\ x * q >= y * q
    BY <1>3
<1> HIDE DEF x, y
<1>5. x >= y
    BY <1>4, Monotone
<1> QED BY <1>5 DEF x, y

LEMMA NormOpposite ==
    ASSUME NEW v \in Vector PROVE Norm2(Opposite(v)) = Norm2(v)
BY VectorPairs DEF Norm2, Dot, Opposite

LEMMA DotOpposite ==
    ASSUME NEW v \in Vector, NEW w \in Vector
    PROVE  Dot(v, Opposite(w)) = Dot(Opposite(v), w) /\ Dot(v, Opposite(w)) = -Dot(v, w)
BY VectorPairs DEF Dot, Opposite

\* Not shorter is transitive.
LEMMA ShorterOrder ==
    ASSUME NEW h \in Hits, NEW k \in Hits, NEW l \in Hits
    PROVE  ~Shorter(h, h) /\ (~Shorter(k, l) /\ ~Shorter(h, k) => ~Shorter(h, l))
           /\ (Shorter(l, k) => ~Shorter(k, l))
<1> DEFINE len(x) == x.over * x.over
           n(x) == Norm2(x.axis)
<1>1. \A x \in Hits : len(x) \in Int /\ n(x) \in Int /\ n(x) > 0
    <2> TAKE x \in Hits
    <2>1. x.over \in Int /\ x.axis \in Vector /\ x.axis # Zero
        BY DEF Hits
    <2>2. len(x) \in Int
        BY <2>1
    <2> QED BY <2>1, <2>2, NormPositive
<1>2. \A x \in Hits, y \in Hits : Shorter(x, y) <=> len(x) * n(y) < len(y) * n(x)
    BY DEF Shorter
<1> HIDE DEF len, n
<1>3. ~Shorter(h, h)
    <2> DEFINE x == len(h) * n(h)
    <2>1. x \in Int
        BY <1>1
    <2> HIDE DEF x
    <2>2. ~(x < x)
        BY <2>1
    <2> QED BY <1>2, <2>2 DEF x
<1>4. ASSUME NEW x \in Hits, NEW y \in Hits
      PROVE  ~Shorter(x, y) <=> len(x) * n(y) >= len(y) * n(x)
    <2> DEFINE v == len(x) * n(y)
               w == len(y) * n(x)
    <2>1. v \in Int /\ w \in Int
        BY <1>1
    <2>2. Shorter(x, y) <=> v < w
        BY <1>2
    <2> HIDE DEF v, w
    <2>3. ~Shorter(x, y) <=> v >= w
        BY <2>1, <2>2
    <2> QED BY <2>3 DEF v, w
<1>5. ASSUME ~Shorter(k, l), ~Shorter(h, k) PROVE ~Shorter(h, l)
    <2>1. /\ len(h) \in Int /\ len(k) \in Int /\ len(l) \in Int
          /\ n(h) \in Int /\ n(k) \in Int /\ n(l) \in Int /\ n(h) > 0 /\ n(k) > 0 /\ n(l) > 0
        BY <1>1
    <2>2. len(h) * n(k) >= len(k) * n(h) /\ len(k) * n(l) >= len(l) * n(k)
        BY <1>4, <1>5
    <2>3. len(h) * n(l) >= len(l) * n(h)
        <3> DEFINE a == len(h)
                   b == len(k)
                   c == len(l)
                   p == n(h)
                   q == n(k)
                   r == n(l)
        <3>1. a \in Int /\ b \in Int /\ c \in Int /\ p \in Int /\ q \in Int /\ r \in Int
              /\ p > 0 /\ q > 0 /\ r > 0 /\ a * q >= b * p /\ b * r >= c * q
            BY <2>1, <2>2
        <3> HIDE DEF a, b, c, p, q, r
        <3>2. a * r >= c * p
            BY <3>1, Ratios
        <3> QED BY <3>2 DEF a, c, p, r
    <2> QED BY <1>4, <2>3
<1>6. ASSUME Shorter(l, k) PROVE ~Shorter(k, l)
    <2> DEFINE v == len(l) * n(k)
               w == len(k) * n(l)
    <2>1. v \in Int /\ w \in Int /\ v < w
        BY <1>1, <1>2, <1>6
    <2> HIDE DEF v, w
    <2>2. ~(w < v)
        BY <2>1
    <2> QED BY <1>2, <2>2 DEF v, w
<1> QED BY <1>3, <1>5, <1>6

\* The fold of partial_sat picks one of the hits, and none of them is shorter.
Best(hits) == FoldLeft(LAMBDA best, hit : IF Shorter(hit, best) THEN hit ELSE best, hits[1], hits)

LEMMA BestHit ==
    ASSUME NEW n \in Nat, n > 0, NEW V \in SUBSET Hits, NEW hits \in [1 .. n -> V]
    PROVE  Best(hits) \in V /\ \A i \in 1 .. n : ~Shorter(hits[i], Best(hits))
<1> DEFINE S == 1 .. n
           Step(h, s) == IF s = {} THEN hits[1]
                         ELSE IF Shorter(hits[Max(s)], h[s \ {Max(s)}]) THEN hits[Max(s)] ELSE h[s \ {Max(s)}]
           iter == CHOOSE h : h = [s \in SUBSET S |-> Step(h, s)]
           c == [s \in SUBSET S |-> Max(s)]
           G == [i \in S |-> [b \in V |-> IF Shorter(hits[i], b) THEN hits[i] ELSE b]]
           T == {s \in SUBSET S : iter[s] \in V /\ \A i \in s : ~Shorter(hits[i], iter[s])}
<1>1. Best(hits) = iter[S]
    <2>1. DOMAIN hits = S
        OBVIOUS
    <2> QED BY <2>1 DEF Best, FoldLeft, MapThenFoldSet
<1>2. IsFiniteSet(S) /\ \A s \in SUBSET S : s # {} => Max(s) \in s
    BY LastFirst
<1>3. hits[1] \in V /\ Steps(G, S, V)
    <2> HIDE DEF iter, T, c, Step
    <2>1. 1 \in S
        OBVIOUS
    <2>3. \A i \in S : hits[i] \in V
        OBVIOUS
    <2>2. \A i \in S, b \in V : (IF Shorter(hits[i], b) THEN hits[i] ELSE b) \in V
        BY <2>3
    <2> QED BY <2>1, <2>2, <2>3 DEF Steps
<1>4. \E h : h = [s \in SUBSET S |-> Step(h, s)]
    <2>1. Chooses(c, S)
        BY <1>2 DEF Chooses
    <2>2. PICK h : Folds(h, c, hits[1], G, S, V)
        <3> HIDE DEF S, c, G
        <3> QED BY <1>2, <1>3, <2>1, FoldExists
    <2>3. \A s \in SUBSET S : Iter(c, hits[1], G, h, s) = Step(h, s)
        BY <1>2, <2>2 DEF Iter, Folds
    <2>4. h = [s \in SUBSET S |-> Step(h, s)]
        <3> HIDE DEF Step, S, c, G
        <3> QED BY <2>2, <2>3 DEF Folds
    <2> QED BY <2>4
<1>5. iter = [s \in SUBSET S |-> Step(iter, s)]
    <2> HIDE DEF Step
    <2> QED BY <1>4
<1>6. Grows(T, S)
    <2> SUFFICES ASSUME NEW s \in SUBSET S, \A x \in s : s \ {x} \in T
                 PROVE  iter[s] \in V /\ \A i \in s : ~Shorter(hits[i], iter[s])
        BY DEF Grows
    <2>1. iter[s] = Step(iter, s)
        <3> HIDE DEF iter, Step
        <3> QED BY <1>5
    <2> HIDE DEF iter
    <2>2. CASE s = {}
        BY <1>3, <2>1, <2>2
    <2>3. CASE s # {}
        <3> DEFINE m == Max(s)
                   r == s \ {m}
        <3>1. m \in s /\ m \in S /\ iter[r] \in V /\ \A i \in r : ~Shorter(hits[i], iter[r])
            BY <1>2, <2>3
        <3>2. iter[s] = IF Shorter(hits[m], iter[r]) THEN hits[m] ELSE iter[r]
            BY <2>1, <2>3
        <3>3. hits[m] \in V /\ \A i \in s : hits[i] \in V /\ (i = m \/ i \in r)
            BY <3>1
        <3> HIDE DEF m, r
        <3> QED BY <3>1, <3>2, <3>3, ShorterOrder
    <2> QED BY <2>2, <2>3
<1>7. S \in T
    <2> HIDE DEF S, T
    <2> QED BY <1>2, <1>6, SubsetsUp
<1> QED BY <1>1, <1>7

\* The points of an edge.
LEMMA AfterType ==
    ASSUME NEW points \in Seq(Vector), NEW e \in DOMAIN points
    PROVE  points[e] \in Vector /\ After(points, e) \in Vector
<1>1. Len(points) \in Nat /\ e \in 1 .. Len(points)
    OBVIOUS
<1>2. e % Len(points) \in 0 .. (Len(points) - 1)
    BY <1>1
<1> QED BY <1>1, <1>2 DEF After, NextIndex

\* The area of integral points is integral.
LEMMA ShoelaceType ==
    ASSUME NEW points \in Seq(Vector)
    PROVE  Shoelace(points) \in Int
<1> DEFINE S == 1 .. Len(points)
           id == [i \in DOMAIN points |-> i]
           One(i, a) == a + Cross(points[i], After(points, i))
           Step(h, s) == IF s = {} THEN 0 ELSE One(id[Max(s)], h[s \ {Max(s)}])
           iter == CHOOSE h : h = [s \in SUBSET S |-> Step(h, s)]
           c == [s \in SUBSET S |-> Max(s)]
           G == [i \in S |-> [a \in Int |-> One(i, a)]]
           T == {s \in SUBSET S : iter[s] \in Int}
<1>1. Shoelace(points) = iter[S]
    <2>1. DOMAIN id = S /\ DOMAIN points = S
        OBVIOUS
    <2> QED BY <2>1 DEF FoldLeftDomain, FoldLeft, MapThenFoldSet, Shoelace
<1>2. IsFiniteSet(S) /\ \A s \in SUBSET S : s # {} => Max(s) \in s
    <2>1. Len(points) \in Nat
        OBVIOUS
    <2> QED BY <2>1, LastFirst
<1>3. 0 \in Int /\ \A i \in S, a \in Int : One(i, a) \in Int
    <2>1. \A i \in S : Cross(points[i], After(points, i)) \in Int
        BY AfterType, VectorSums
    <2> QED BY <2>1
<1> HIDE DEF One
<1>4. \E h : h = [s \in SUBSET S |-> Step(h, s)]
    <2>1. Chooses(c, S) /\ Steps(G, S, Int)
        BY <1>2, <1>3 DEF Chooses, Steps
    <2>2. PICK h : Folds(h, c, 0, G, S, Int)
        <3> HIDE DEF S, c, G
        <3> QED BY <1>2, <1>3, <2>1, FoldExists
    <2>3. \A s \in SUBSET S : Iter(c, 0, G, h, s) = Step(h, s)
        <3> TAKE s \in SUBSET S
        <3>1. CASE s = {}
            BY <3>1 DEF Iter
        <3>2. CASE s # {}
            <4>1. Max(s) \in S /\ h[s \ {Max(s)}] \in Int
                BY <1>2, <2>2, <3>2 DEF Folds
            <4>2. c[s] = Max(s)
                OBVIOUS
            <4>3. G[Max(s)][h[s \ {Max(s)}]] = One(id[Max(s)], h[s \ {Max(s)}])
                BY <4>1
            <4> HIDE DEF S, G, c, id
            <4> QED BY <3>2, <4>2, <4>3 DEF Iter
        <3> QED BY <3>1, <3>2
    <2>4. h = [s \in SUBSET S |-> Step(h, s)]
        <3> HIDE DEF Step, S, c, G
        <3> QED BY <2>2, <2>3 DEF Folds
    <2> QED BY <2>4
<1>5. iter = [s \in SUBSET S |-> Step(iter, s)]
    <2> HIDE DEF Step
    <2> QED BY <1>4
<1>6. Grows(T, S)
    <2> SUFFICES ASSUME NEW s \in SUBSET S, \A x \in s : s \ {x} \in T
                 PROVE  iter[s] \in Int
        BY DEF Grows
    <2>1. iter[s] = Step(iter, s)
        <3> HIDE DEF iter, Step
        <3> QED BY <1>5
    <2> HIDE DEF iter
    <2>2. CASE s = {}
        BY <1>3, <2>1, <2>2
    <2>3. CASE s # {}
        <3>1. Max(s) \in S /\ iter[s \ {Max(s)}] \in Int
            BY <1>2, <2>3
        <3>2. id[Max(s)] = Max(s)
            BY <3>1
        <3> HIDE DEF S, id
        <3> QED BY <1>3, <2>1, <2>3, <3>1, <3>2
    <2> QED BY <2>2, <2>3
<1>7. S \in T
    <2> HIDE DEF S, T
    <2> QED BY <1>2, <1>6, SubsetsUp
<1> QED BY <1>1, <1>7

\* Points that enclose an area have a centroid.
LEMMA CentroidType ==
    ASSUME NEW points \in Seq(Vector), Shoelace(points) # 0
    PROVE  CentroidOf(points) \in Vector
<1> DEFINE S == 1 .. Len(points)
           id == [i \in DOMAIN points |-> i]
           M(e) == Times(Plus(points[e], After(points, e)), Cross(points[e], After(points, e)))
           Moment == FoldLeftDomain(LAMBDA sum, e : Plus(sum, M(e)), Zero, points)
           One(i, a) == Plus(a, M(i))
           Step(h, s) == IF s = {} THEN Zero ELSE One(id[Max(s)], h[s \ {Max(s)}])
           iter == CHOOSE h : h = [s \in SUBSET S |-> Step(h, s)]
           c == [s \in SUBSET S |-> Max(s)]
           G == [i \in S |-> [a \in Vector |-> One(i, a)]]
           T == {s \in SUBSET S : iter[s] \in Vector}
<1>1. Moment = iter[S]
    <2>1. DOMAIN id = S /\ DOMAIN points = S
        OBVIOUS
    <2> QED BY <2>1 DEF FoldLeftDomain, FoldLeft, MapThenFoldSet
<1>2. IsFiniteSet(S) /\ \A s \in SUBSET S : s # {} => Max(s) \in s
    <2>1. Len(points) \in Nat
        OBVIOUS
    <2> QED BY <2>1, LastFirst
<1>3. Zero \in Vector /\ \A i \in S, a \in Vector : One(i, a) \in Vector
    <2>1. \A i \in S : M(i) \in Vector
        <3> TAKE i \in S
        <3>1. points[i] \in Vector /\ After(points, i) \in Vector
            BY AfterType
        <3> QED BY <3>1, VectorSums, VectorProducts
    <2> HIDE DEF M
    <2> QED BY <2>1, VectorSums
<1> HIDE DEF One
<1>4. \E h : h = [s \in SUBSET S |-> Step(h, s)]
    <2>1. Chooses(c, S) /\ Steps(G, S, Vector)
        BY <1>2, <1>3 DEF Chooses, Steps
    <2>2. PICK h : Folds(h, c, Zero, G, S, Vector)
        <3> HIDE DEF S, c, G
        <3> QED BY <1>2, <1>3, <2>1, FoldExists
    <2>3. \A s \in SUBSET S : Iter(c, Zero, G, h, s) = Step(h, s)
        <3> TAKE s \in SUBSET S
        <3>1. CASE s = {}
            BY <3>1 DEF Iter
        <3>2. CASE s # {}
            <4>1. Max(s) \in S /\ h[s \ {Max(s)}] \in Vector
                BY <1>2, <2>2, <3>2 DEF Folds
            <4>2. c[s] = Max(s)
                OBVIOUS
            <4>3. G[Max(s)][h[s \ {Max(s)}]] = One(id[Max(s)], h[s \ {Max(s)}])
                BY <4>1
            <4> HIDE DEF S, G, c, id
            <4> QED BY <3>2, <4>2, <4>3 DEF Iter
        <3> QED BY <3>1, <3>2
    <2>4. h = [s \in SUBSET S |-> Step(h, s)]
        <3> HIDE DEF Step, S, c, G
        <3> QED BY <2>2, <2>3 DEF Folds
    <2> QED BY <2>4
<1>5. iter = [s \in SUBSET S |-> Step(iter, s)]
    <2> HIDE DEF Step
    <2> QED BY <1>4
<1>6. Grows(T, S)
    <2> SUFFICES ASSUME NEW s \in SUBSET S, \A x \in s : s \ {x} \in T
                 PROVE  iter[s] \in Vector
        BY DEF Grows
    <2>1. iter[s] = Step(iter, s)
        <3> HIDE DEF iter, Step
        <3> QED BY <1>5
    <2> HIDE DEF iter
    <2>2. CASE s = {}
        BY <1>3, <2>1, <2>2
    <2>3. CASE s # {}
        <3>1. Max(s) \in S /\ iter[s \ {Max(s)}] \in Vector
            BY <1>2, <2>3
        <3>2. id[Max(s)] = Max(s)
            BY <3>1
        <3> HIDE DEF S, id
        <3> QED BY <1>3, <2>1, <2>3, <3>1, <3>2
    <2> QED BY <2>2, <2>3
<1>7. S \in T
    <2> HIDE DEF S, T
    <2> QED BY <1>2, <1>6, SubsetsUp
<1>8. 3 * Shoelace(points) \in Int /\ 3 * Shoelace(points) # 0
    BY ShoelaceType
<1>9. CentroidOf(points) = Over(Moment, 3 * Shoelace(points))
    BY DEF CentroidOf
<1>10. Moment \in Vector
    BY <1>1, <1>7
<1> HIDE DEF Moment
<1> QED BY <1>8, <1>9, <1>10, VectorProducts

-----------------------------------------------------------------------------
(* Collisions                                                              *)

\* The larger and the smaller of two numbers.
LEMMA LargerSmaller ==
    ASSUME NEW a \in Int, NEW b \in Int
    PROVE  Max({a, b}) \in Int /\ Min({a, b}) \in Int /\ Max({a, a}) = a /\ Min({a, a}) = a
<1>1. IsFiniteSet({a, b}) /\ IsFiniteSet({a, a})
    <2>1. IsFiniteSet({a} \cup {b}) /\ {a, b} = {a} \cup {b} /\ {a, a} = {a}
        BY FS_Singleton, FS_AddElement
    <2> QED BY <2>1, FS_Singleton
<1>2. Max({a, b}) \in {a, b} /\ Min({a, b}) \in {a, b}
    BY <1>1, MaxMin
<1>3. Max({a, a}) \in {a, a} /\ Min({a, a}) \in {a, a}
    BY <1>1, MaxMin
<1> QED BY <1>2, <1>3

\* A polygon has finitely many points, one at least.
LEMMA PointsType ==
    ASSUME NEW poly \in Polys
    PROVE  Range(poly.points) \subseteq Vector /\ Range(poly.points) # {} /\ IsFiniteSet(Range(poly.points))
<1> DEFINE D == DOMAIN poly.points
           n == Len(poly.points)
<1>1. poly.points \in Seq(Vector) /\ poly.points # <<>>
    BY DEF Polys
<1>2. D = 1 .. n /\ n \in Nat /\ 1 \in D
    BY <1>1
<1>3. Range(poly.points) \subseteq Vector /\ Range(poly.points) # {}
    <2>1. \A i \in D : poly.points[i] \in Vector
        BY <1>1
    <2>2. Range(poly.points) = {poly.points[i] : i \in D}
        BY DEF Range
    <2> HIDE DEF D, n
    <2> QED BY <1>2, <2>1, <2>2
<1>4. IsFiniteSet(1 .. n)
    <2> HIDE DEF n
    <2> QED BY <1>2, FS_Interval
<1>5. IsFiniteSet(D)
    BY <1>2, <1>4
<1>6. poly.points \in Surjection(D, Range(poly.points))
    BY <1>1 DEF Surjection, Range
<1> QED BY <1>3, <1>5, <1>6, FS_Surjection

\* A translation moves the centroid with the points.
LEMMA TranslateType ==
    ASSUME NEW poly \in Polys, NEW t \in Vector
    PROVE  /\ Translate(poly, t) \in Polys
           /\ Translate(poly, t).centroid = Plus(poly.centroid, t)
<1>1. /\ poly.centroid \in Vector /\ poly.points \in Seq(Vector) /\ poly.points # <<>>
      /\ DOMAIN poly.points = 1 .. Len(poly.points) /\ Len(poly.points) \in Nat
    BY DEF Polys
<1> DEFINE points == [e \in DOMAIN poly.points |-> Plus(poly.points[e], t)]
<1>2. Translate(poly, t) = [centroid |-> Plus(poly.centroid, t), points |-> points]
    BY DEF Translate, Mapped
<1>3. points \in Seq(Vector) \ {<<>>}
    <2>1. \A e \in DOMAIN poly.points : Plus(poly.points[e], t) \in Vector
        <3> TAKE e \in DOMAIN poly.points
        <3>1. poly.points[e] \in Vector
            BY <1>1
        <3> QED BY <3>1, VectorSums
    <2>2. points \in Seq(Vector)
        BY <1>1, <2>1
    <2>3. 1 \in DOMAIN points
        BY <1>1
    <2> HIDE DEF points
    <2> QED BY <2>2, <2>3
<1> HIDE DEF points
<1> QED BY <1>1, <1>2, <1>3, VectorSums DEF Polys

\* A polygon has a shadow on every axis; the one on Zero is no longer than a point.
LEMMA ProjectType ==
    ASSUME NEW poly \in Polys, NEW axis \in Vector
    PROVE  /\ Project(poly, axis).lo \in Int /\ Project(poly, axis).hi \in Int
           /\ \A v \in Range(poly.points) : Project(poly, axis).lo <= Dot(v, axis)
                                           /\ Dot(v, axis) <= Project(poly, axis).hi
           /\ \E v \in Range(poly.points) : Project(poly, axis).lo = Dot(v, axis)
           /\ \E v \in Range(poly.points) : Project(poly, axis).hi = Dot(v, axis)
           /\ axis = Zero => Project(poly, axis).lo = 0 /\ Project(poly, axis).hi = 0
<1> DEFINE dots == {Dot(v, axis) : v \in Range(poly.points)}
           f == [v \in Range(poly.points) |-> Dot(v, axis)]
<1>1. Range(poly.points) \subseteq Vector /\ Range(poly.points) # {} /\ IsFiniteSet(Range(poly.points))
    BY PointsType
<1>2. dots \subseteq Int /\ dots # {}
    BY <1>1, VectorSums
<1>3. IsFiniteSet(dots)
    <2>1. f \in Surjection(Range(poly.points), dots)
        BY DEF Surjection
    <2> QED BY <1>1, <2>1, FS_Surjection
<1>4. Project(poly, axis).lo = Min(dots) /\ Project(poly, axis).hi = Max(dots)
    BY DEF Project
<1>5. /\ Max(dots) \in dots /\ \A x \in dots : x <= Max(dots)
      /\ Min(dots) \in dots /\ \A x \in dots : x >= Min(dots)
    <2> HIDE DEF dots
    <2> QED BY <1>2, <1>3, MaxMin
<1>6. /\ \A v \in Range(poly.points) : Dot(v, axis) \in dots
      /\ \A d \in dots : \E v \in Range(poly.points) : d = Dot(v, axis)
    OBVIOUS
<1>7. axis = Zero => \A d \in dots : d = 0
    <2> SUFFICES ASSUME axis = Zero, NEW v \in Vector PROVE Dot(v, axis) = 0
        BY <1>1
    <2> QED BY VectorPairs DEF Dot, Zero
<1> HIDE DEF dots
<1> QED BY <1>2, <1>4, <1>5, <1>6, <1>7

\* Shadows that overlap by more than 0 are on an axis that is not Zero.
LEMMA HitType ==
    ASSUME NEW poly1 \in Polys, NEW poly2 \in Polys, NEW e \in DOMAIN poly1.points
    PROVE  /\ HitOn(poly1, poly2, e) \in [axis : Vector, over : Int]
           /\ HitOn(poly1, poly2, e).over # 0 => HitOn(poly1, poly2, e) \in Hits
           /\ Dot(Minus(poly2.centroid, poly1.centroid), HitOn(poly1, poly2, e).axis) >= 0
<1> DEFINE line == Minus(poly2.centroid, poly1.centroid)
           perp == Perp(Edge(poly1.points, e))
           axis == IF Dot(line, perp) < 0 THEN Opposite(perp) ELSE perp
           i == Project(poly1, axis)
           j == Project(poly2, axis)
<1>1. axis \in Vector
    <2>1. poly1.points \in Seq(Vector)
        BY DEF Polys
    <2>2. Edge(poly1.points, e) \in Vector
        BY <2>1, AfterType, VectorSums DEF Edge
    <2> QED BY <2>2, VectorSums
<1>2. HitOn(poly1, poly2, e) = [axis |-> axis, over |-> IntersectLength(i, j)]
    BY DEF HitOn
<1>7. Dot(line, axis) >= 0
    <2>1. poly1.points \in Seq(Vector) /\ poly1.centroid \in Vector /\ poly2.centroid \in Vector
        BY DEF Polys
    <2>2. line \in Vector /\ perp \in Vector
        <3>1. Edge(poly1.points, e) \in Vector
            BY <2>1, AfterType, VectorSums DEF Edge
        <3> QED BY <2>1, <3>1, VectorSums
    <2> HIDE DEF line, perp
    <2>3. Dot(line, perp) \in Int /\ Dot(line, Opposite(perp)) = -Dot(line, perp)
        BY <2>2, VectorSums, DotOpposite
    <2> QED BY <2>3
<1> HIDE DEF axis
<1>3. i.lo \in Int /\ i.hi \in Int /\ j.lo \in Int /\ j.hi \in Int
    BY <1>1, ProjectType
<1>4. axis = Zero => i.lo = 0 /\ i.hi = 0 /\ j.lo = 0 /\ j.hi = 0
    BY <1>1, ProjectType
<1> HIDE DEF i, j
<1>5. IntersectLength(i, j) \in Int
    <2>1. Min({i.hi, j.hi}) \in Int /\ Max({i.lo, j.lo}) \in Int
        BY <1>3, LargerSmaller
    <2> QED BY <2>1 DEF IntersectLength, Overlap
<1>6. axis = Zero => IntersectLength(i, j) = 0
    BY <1>4, LargerSmaller DEF IntersectLength, Overlap
<1> HIDE DEF line
<1>8. HitOn(poly1, poly2, e).axis = axis /\ HitOn(poly1, poly2, e).over = IntersectLength(i, j)
    BY <1>2
<1>9. HitOn(poly1, poly2, e) \in [axis : Vector, over : Int]
    BY <1>1, <1>2, <1>5
<1>10. HitOn(poly1, poly2, e).over # 0 => HitOn(poly1, poly2, e) \in Hits
    BY <1>6, <1>8, <1>9 DEF Hits
<1> QED BY <1>7, <1>8, <1>9, <1>10 DEF line

\* What the edges of the first polygon have to say, and the hits along a line.
EdgeHits(poly1, poly2) == {HitOn(poly1, poly2, e) : e \in DOMAIN poly1.points}
Towards(line) == {hit \in Hits : Dot(line, hit.axis) >= 0}

\* partial_sat answers with a shortest hit of an edge, unless an edge has an overlap of 0.
LEMMA PartialSatFacts ==
    ASSUME NEW poly1 \in Polys, NEW poly2 \in Polys
    PROVE  /\ PartialSat(poly1, poly2) = None <=> \E h \in EdgeHits(poly1, poly2) : h.over = 0
           /\ PartialSat(poly1, poly2) # None =>
                /\ PartialSat(poly1, poly2) \in EdgeHits(poly1, poly2)
                /\ PartialSat(poly1, poly2) \in Towards(Minus(poly2.centroid, poly1.centroid))
                /\ \A h \in EdgeHits(poly1, poly2) : h \in Hits /\ ~Shorter(h, PartialSat(poly1, poly2))
<1> DEFINE n == Len(poly1.points)
           V == EdgeHits(poly1, poly2) \cap Towards(Minus(poly2.centroid, poly1.centroid))
           hits == [e \in DOMAIN poly1.points |-> HitOn(poly1, poly2, e)]
<1>1. DOMAIN poly1.points = 1 .. n /\ n \in Nat /\ n > 0
    <2>1. poly1.points \in Seq(Vector) /\ poly1.points # <<>>
        BY DEF Polys
    <2> QED BY <2>1
<1>2. PartialSat(poly1, poly2) = IF \E e \in DOMAIN hits : hits[e].over = 0 THEN None ELSE Best(hits)
    BY DEF PartialSat, Best
<1>3. (\E e \in DOMAIN hits : hits[e].over = 0) <=> \E h \in EdgeHits(poly1, poly2) : h.over = 0
    BY DEF EdgeHits
<1>4. ASSUME \A h \in EdgeHits(poly1, poly2) : h.over # 0
      PROVE  /\ Best(hits) \in V /\ Best(hits) # None
             /\ \A h \in EdgeHits(poly1, poly2) : h \in Hits /\ ~Shorter(h, Best(hits))
    <2>1. \A e \in DOMAIN poly1.points : HitOn(poly1, poly2, e) \in V
        <3> SUFFICES ASSUME NEW e \in DOMAIN poly1.points PROVE HitOn(poly1, poly2, e) \in V
            OBVIOUS
        <3>1. HitOn(poly1, poly2, e) \in EdgeHits(poly1, poly2)
            BY DEF EdgeHits
        <3>2. HitOn(poly1, poly2, e).over # 0
            BY <1>4, <3>1
        <3> QED BY <3>1, <3>2, HitType DEF Towards
    <2>2. hits \in [1 .. n -> V]
        BY <1>1, <2>1
    <2>3. V \in SUBSET Hits
        BY DEF Towards
    <2>4. Best(hits) \in V /\ \A i \in 1 .. n : ~Shorter(hits[i], Best(hits))
        <3> HIDE DEF n, V, hits
        <3> QED BY <1>1, <2>2, <2>3, BestHit
    <2>5. \A h \in EdgeHits(poly1, poly2) : h \in V /\ \E i \in 1 .. n : h = hits[i]
        <3>1. \A e \in DOMAIN poly1.points : hits[e] = HitOn(poly1, poly2, e)
            OBVIOUS
        <3> HIDE DEF n, V, hits
        <3> QED BY <1>1, <2>1, <3>1 DEF EdgeHits
    <2>6. Best(hits) # None
        <3>1. Best(hits) \in Hits
            BY <2>3, <2>4
        <3>2. None.axis = Zero
            BY DEF None
        <3> QED BY <3>1, <3>2 DEF Hits
    <2> HIDE DEF n, V, hits
    <2> QED BY <2>3, <2>4, <2>5, <2>6
<1> HIDE DEF hits
<1> QED BY <1>2, <1>3, <1>4

\* find_collision answers unless the bounding boxes are apart or some edge of either
\* polygon has an overlap of 0; the vector it answers is the one of an edge, perhaps
\* turned around, it points from the first polygon to the second, and no edge of either
\* polygon has a shorter one.
THEOREM CollisionIsShortest ==
    ASSUME NEW poly1 \in Polys, NEW poly2 \in Polys
    PROVE  LET hit == FindCollision(poly1, poly2)
               hits == EdgeHits(poly1, poly2) \cup EdgeHits(poly2, poly1)
           IN  /\ hit = None <=> ~BoxesIntersect(poly1, poly2) \/ \E h \in hits : h.over = 0
               /\ hit # None =>
                    /\ hit \in Hits /\ Dot(Minus(poly2.centroid, poly1.centroid), hit.axis) >= 0
                    /\ \E h \in hits : hit.over = h.over /\ hit.axis \in {h.axis, Opposite(h.axis)}
                    /\ \A h \in hits : ~Shorter(h, hit)
<1> DEFINE hit == FindCollision(poly1, poly2)
           hits1 == EdgeHits(poly1, poly2)
           hits2 == EdgeHits(poly2, poly1)
           r1 == PartialSat(poly1, poly2)
           r2 == PartialSat(poly2, poly1)
           turned == [r2 EXCEPT !.axis = Opposite(r2.axis)]
           line1 == Minus(poly2.centroid, poly1.centroid)
           line2 == Minus(poly1.centroid, poly2.centroid)
<1>1. /\ r1 = None <=> \E h \in hits1 : h.over = 0
      /\ r1 # None => /\ r1 \in hits1 /\ r1 \in Towards(line1)
                      /\ \A h \in hits1 : h \in Hits /\ ~Shorter(h, r1)
    BY PartialSatFacts
<1>2. /\ r2 = None <=> \E h \in hits2 : h.over = 0
      /\ r2 # None => /\ r2 \in hits2 /\ r2 \in Towards(line2)
                      /\ \A h \in hits2 : h \in Hits /\ ~Shorter(h, r2)
    BY PartialSatFacts
<1>3. hit = IF r1 = None \/ r2 = None \/ ~BoxesIntersect(poly1, poly2) THEN None
            ELSE IF Shorter(r2, r1) THEN turned ELSE r1
    BY DEF FindCollision
<1>4. \A h \in Hits : h # None
    <2>1. None.axis = Zero
        BY DEF None
    <2> QED BY <2>1 DEF Hits
<1>5. line1 \in Vector /\ line2 = Opposite(line1)
    <2>1. poly1.centroid \in Vector /\ poly2.centroid \in Vector
        BY DEF Polys
    <2>2. \A v \in Vector, w \in Vector : Minus(w, v) = Opposite(Minus(v, w))
        BY VectorPairs DEF Minus, Opposite
    <2> QED BY <2>1, <2>2, VectorSums
<1> HIDE DEF r1, r2, hits1, hits2, hit
<1>6. ASSUME r1 # None, r2 # None
      PROVE  /\ r1 \in Hits /\ r2 \in Hits /\ turned \in Hits /\ turned # None
             /\ turned.over = r2.over /\ turned.axis = Opposite(r2.axis)
             /\ Dot(line1, r1.axis) >= 0 /\ Dot(line1, turned.axis) >= 0
             /\ \A h \in Hits : Shorter(h, turned) <=> Shorter(h, r2)
    <2>0. r1 \in Hits /\ r2 \in Hits /\ Dot(line1, r1.axis) >= 0 /\ Dot(line2, r2.axis) >= 0
        BY <1>1, <1>2, <1>6 DEF Towards
    <2>1. r2.axis \in Vector /\ r2.axis # Zero /\ r2.over \in Int
        BY <2>0 DEF Hits
    <2>2. Opposite(r2.axis) \in Vector /\ Opposite(r2.axis) # Zero
        BY <2>1, VectorPairs, VectorSums DEF Opposite, Zero
    <2>3. Norm2(Opposite(r2.axis)) = Norm2(r2.axis)
        BY <2>1, NormOpposite
    <2>4. Dot(line1, Opposite(r2.axis)) = Dot(line2, r2.axis)
        BY <1>5, <2>1, DotOpposite
    <2>5. turned \in Hits /\ turned.axis = Opposite(r2.axis) /\ turned.over = r2.over
        BY <2>0, <2>1, <2>2 DEF Hits
    <2> HIDE DEF turned, line1, line2
    <2>6. \A h \in Hits : Shorter(h, turned) <=> Shorter(h, r2)
        BY <2>3, <2>5 DEF Shorter
    <2> QED BY <1>4, <2>0, <2>3, <2>4, <2>5, <2>6
<1> HIDE DEF turned, line1, line2
<1>7. hit = None <=> ~BoxesIntersect(poly1, poly2) \/ \E h \in hits1 \cup hits2 : h.over = 0
    <2>1. (\E h \in hits1 \cup hits2 : h.over = 0) <=> r1 = None \/ r2 = None
        BY <1>1, <1>2
    <2> QED BY <1>3, <1>4, <1>6, <2>1
<1>8. ASSUME hit # None
      PROVE  /\ hit \in Hits /\ Dot(line1, hit.axis) >= 0
             /\ \E h \in hits1 \cup hits2 : hit.over = h.over /\ hit.axis \in {h.axis, Opposite(h.axis)}
             /\ \A h \in hits1 \cup hits2 : ~Shorter(h, hit)
    <2>0. r1 # None /\ r2 # None /\ hit = IF Shorter(r2, r1) THEN turned ELSE r1
        BY <1>3, <1>8
    <2>1. /\ r1 \in hits1 /\ \A h \in hits1 : h \in Hits /\ ~Shorter(h, r1)
          /\ r2 \in hits2 /\ \A h \in hits2 : h \in Hits /\ ~Shorter(h, r2)
        BY <1>1, <1>2, <2>0
    <2>2. CASE Shorter(r2, r1)
        <3>1. hit = turned
            BY <2>0, <2>2
        <3>2. \A h \in Hits : ~Shorter(h, r1) => ~Shorter(h, r2)
            BY <1>6, <2>0, <2>2, ShorterOrder
        <3>3. \A h \in hits1 \cup hits2 : ~Shorter(h, hit)
            BY <1>6, <2>0, <2>1, <3>1, <3>2
        <3> QED BY <1>6, <2>0, <2>1, <3>1, <3>3
    <2>3. CASE ~Shorter(r2, r1)
        <3>1. hit = r1
            BY <2>0, <2>3
        <3>2. \A h \in Hits : ~Shorter(h, r2) => ~Shorter(h, r1)
            BY <1>6, <2>0, <2>3, ShorterOrder
        <3>3. \A h \in hits1 \cup hits2 : ~Shorter(h, hit)
            BY <2>1, <3>1, <3>2
        <3> QED BY <1>6, <2>0, <2>1, <3>1, <3>3
    <2> QED BY <2>2, <2>3
<1> QED BY <1>7, <1>8 DEF hit, hits1, hits2, line1

-----------------------------------------------------------------------------
(* Interiors that meet                                                     *)

\* How x and y are turned to each other, seen from a.
LEMMA Turning ==
    ASSUME NEW x \in Vector, NEW y \in Vector, NEW a \in Vector
    PROVE  Cross(x, y) * Norm2(a) = Dot(x, a) * Cross(a, y) - Dot(y, a) * Cross(a, x)
<1> DEFINE x1 == x[1]
           x2 == x[2]
           y1 == y[1]
           y2 == y[2]
           a1 == a[1]
           a2 == a[2]
<1>1. x1 \in Int /\ x2 \in Int /\ y1 \in Int /\ y2 \in Int /\ a1 \in Int /\ a2 \in Int
    BY VectorPairs
<1>2. /\ Cross(x, y) = x1 * y2 - y1 * x2 /\ Norm2(a) = a1 * a1 + a2 * a2
      /\ Dot(x, a) = x1 * a1 + x2 * a2 /\ Dot(y, a) = y1 * a1 + y2 * a2
      /\ Cross(a, y) = a1 * y2 - y1 * a2 /\ Cross(a, x) = a1 * x2 - x1 * a2
    BY DEF Cross, Norm2, Dot
<1> HIDE DEF x1, x2, y1, y2, a1, a2
<1>3. (x1 * y2 - y1 * x2) * (a1 * a1 + a2 * a2)
        = (x1 * a1 + x2 * a2) * (a1 * y2 - y1 * a2) - (y1 * a1 + y2 * a2) * (a1 * x2 - x1 * a2)
    BY <1>1
<1> QED BY <1>2, <1>3

\* Of vectors on one side of a line, one is the last to one hand, and one to the other.
LEMMA Outermost ==
    ASSUME NEW S \in SUBSET Vector, IsFiniteSet(S), S # {}, NEW a \in Vector, a # Zero,
           \A d \in S : Dot(d, a) < 0
    PROVE  \E x \in S, z \in S : \A y \in S : Cross(x, y) >= 0 /\ Cross(z, y) <= 0
<1> DEFINE c(d) == Cross(a, d)
           s(d) == -Dot(d, a)
           Ahead(x, y) == c(x) * s(y) >= c(y) * s(x)
           T == {t \in SUBSET S : t # {} => \E x \in t, z \in t : \A y \in t : Ahead(x, y) /\ Ahead(y, z)}
<1>1. \A d \in S : c(d) \in Int /\ s(d) \in Int /\ s(d) > 0
    BY VectorSums
<1> HIDE DEF c, s
<1>2. \A x \in S : Ahead(x, x)
    <2> TAKE x \in S
    <2> DEFINE p == c(x) * s(x)
    <2>1. p \in Int
        BY <1>1
    <2> HIDE DEF p
    <2>2. p >= p
        BY <2>1
    <2> QED BY <2>2 DEF p
<1>3. ASSUME NEW x \in S, NEW y \in S PROVE Ahead(x, y) \/ Ahead(y, x)
    <2> DEFINE p == c(x) * s(y)
               q == c(y) * s(x)
    <2>1. p \in Int /\ q \in Int
        BY <1>1
    <2> HIDE DEF p, q
    <2>2. p >= q \/ q >= p
        BY <2>1
    <2> QED BY <2>2 DEF p, q
<1>4. ASSUME NEW x \in S, NEW y \in S, NEW z \in S, Ahead(x, y), Ahead(y, z) PROVE Ahead(x, z)
    <2> DEFINE i == c(x)
               j == c(y)
               k == c(z)
               p == s(x)
               q == s(y)
               r == s(z)
    <2>1. i \in Int /\ j \in Int /\ k \in Int /\ p \in Int /\ q \in Int /\ r \in Int
          /\ p > 0 /\ q > 0 /\ r > 0 /\ i * q >= j * p /\ j * r >= k * q
        BY <1>1, <1>4
    <2> HIDE DEF i, j, k, p, q, r
    <2>2. i * r >= k * p
        BY <2>1, Ratios
    <2> QED BY <2>2 DEF i, k, p, r
<1> HIDE DEF Ahead
<1>5. Grows(T, S)
    <2> SUFFICES ASSUME NEW t \in SUBSET S, \A x \in t : t \ {x} \in T, t # {}
                 PROVE  \E x \in t, z \in t : \A y \in t : Ahead(x, y) /\ Ahead(y, z)
        BY DEF Grows
    <2>1. PICK d \in t : TRUE
        OBVIOUS
    <2>2. CASE t \ {d} = {}
        BY <1>2, <2>2
    <2>3. CASE t \ {d} # {}
        <3>1. PICK x \in t \ {d}, z \in t \ {d} : \A y \in t \ {d} : Ahead(x, y) /\ Ahead(y, z)
            BY <2>3
        <3>2. \E u \in t : \A y \in t : Ahead(u, y)
            BY <1>2, <1>3, <1>4, <3>1
        <3>3. \E u \in t : \A y \in t : Ahead(y, u)
            BY <1>2, <1>3, <1>4, <3>1
        <3> QED BY <3>2, <3>3
    <2> QED BY <2>2, <2>3
<1>6. PICK x \in S, z \in S : \A y \in S : Ahead(x, y) /\ Ahead(y, z)
    <2> HIDE DEF T
    <2>1. S \in T
        BY <1>5, SubsetsUp
    <2> QED BY <2>1 DEF T
<1>7. ASSUME NEW u \in S, NEW y \in S, Ahead(u, y) PROVE Cross(u, y) >= 0
    <2> DEFINE p == c(u) * s(y)
               q == c(y) * s(u)
               k == Cross(u, y)
               n == Norm2(a)
    <2>1. p \in Int /\ q \in Int /\ k \in Int /\ n \in Int /\ n > 0
        BY <1>1, VectorSums, NormPositive
    <2>2. k * n = p - q
        <3>1. k * n = Dot(u, a) * Cross(a, y) - Dot(y, a) * Cross(a, u)
            BY Turning
        <3>2. Dot(u, a) = -s(u) /\ Dot(y, a) = -s(y) /\ Cross(a, y) = c(y) /\ Cross(a, u) = c(u)
            BY VectorSums DEF s, c
        <3>3. (-s(u)) * c(y) - (-s(y)) * c(u) = p - q
            BY <1>1
        <3> QED BY <3>1, <3>2, <3>3
    <2>3. p >= q
        BY <1>7 DEF Ahead
    <2> HIDE DEF p, q, k, n
    <2>4. k * n >= 0 * n
        BY <2>1, <2>2, <2>3
    <2>5. k >= 0
        BY <2>1, <2>4, Monotone
    <2> QED BY <2>5 DEF k
<1>8. \A y \in S : Cross(z, y) = -Cross(y, z)
    BY VectorPairs DEF Cross
<1>9. ASSUME NEW y \in S PROVE Cross(x, y) >= 0 /\ Cross(z, y) <= 0
    <2>1. Cross(x, y) >= 0 /\ Cross(y, z) >= 0
        BY <1>6, <1>7
    <2>2. Cross(y, z) \in Int /\ Cross(z, y) = -Cross(y, z)
        BY <1>8, VectorSums
    <2> QED BY <2>1, <2>2
<1> QED BY <1>9

\* No vector is between others that are all on one side of a line.
LEMMA OneSided ==
    ASSUME NEW D \in SUBSET Vector, IsFiniteSet(D), D \ {Zero} # {}, NEW a \in Vector, a # Zero,
           \A d \in D : Dot(d, a) <= 0
    PROVE  \E x \in D \ {Zero} : (\A y \in D : Cross(x, y) >= 0) \/ (\A y \in D : Cross(x, y) <= 0)
<1>1. CASE \E x \in D \ {Zero} : Dot(x, a) = 0
    <2>1. PICK x \in D \ {Zero} : Dot(x, a) = 0
        BY <1>1
    <2> DEFINE n == Norm2(a)
               c == Cross(a, x)
    <2>2. n \in Int /\ n > 0 /\ c \in Int
        BY VectorSums, NormPositive
    <2>3. ASSUME NEW y \in D
          PROVE  (c >= 0 => Cross(x, y) >= 0) /\ (c <= 0 => Cross(x, y) <= 0)
        <3> DEFINE k == Cross(x, y)
                   s == -Dot(y, a)
        <3>1. k \in Int /\ s \in Int /\ s >= 0
            BY VectorSums
        <3>2. k * n = s * c
            <4>1. k * n = Dot(x, a) * Cross(a, y) - Dot(y, a) * c
                BY Turning
            <4>2. Dot(x, a) = 0 /\ Cross(a, y) \in Int /\ Dot(y, a) = -s
                BY <2>1, VectorSums
            <4> HIDE DEF k, n, c, s
            <4> QED BY <2>2, <3>1, <4>1, <4>2
        <3> HIDE DEF k, n, c, s
        <3>3. c >= 0 => s * c >= 0
            BY <2>2, <3>1
        <3>4. c <= 0 => s * c <= 0
            BY <2>2, <3>1
        <3>5. c >= 0 => k * n >= 0 * n
            BY <2>2, <3>1, <3>2, <3>3
        <3>6. c <= 0 => 0 * n >= k * n
            BY <2>2, <3>1, <3>2, <3>4
        <3>7. (c >= 0 => k >= 0) /\ (c <= 0 => 0 >= k)
            BY <2>2, <3>1, <3>5, <3>6, Monotone
        <3> QED BY <3>1, <3>7 DEF k
    <2> HIDE DEF c
    <2> QED BY <2>1, <2>2, <2>3
<1>2. CASE \A x \in D \ {Zero} : Dot(x, a) # 0
    <2> DEFINE S == D \ {Zero}
    <2>1. S \in SUBSET Vector /\ IsFiniteSet(S) /\ S # {}
        BY FS_Subset
    <2>2. \A d \in S : Dot(d, a) < 0
        BY <1>2, VectorSums
    <2>3. PICK x \in S : \A y \in S : Cross(x, y) >= 0
        <3> HIDE DEF S
        <3> QED BY <2>1, <2>2, Outermost
    <2>4. Cross(x, Zero) = 0
        BY <2>1, VectorPairs DEF Cross, Zero
    <2>5. \A y \in D : Cross(x, y) >= 0
        BY <2>3, <2>4
    <2> QED BY <2>3, <2>5
<1> QED BY <1>1, <1>2

\* No edge is a point, and not all points are on one line.
Solid(poly) ==
    /\ \A e \in DOMAIN poly.points : poly.points[e] # After(poly.points, e)
    /\ \E u \in Range(poly.points), v \in Range(poly.points), w \in Range(poly.points) :
            Cross(Minus(v, u), Minus(w, u)) # 0

LEMMA SolidIsWide ==
    ASSUME NEW poly \in Polys, Solid(poly), NEW a \in Vector, a # Zero
    PROVE  \E v \in Range(poly.points), w \in Range(poly.points) : Dot(v, a) # Dot(w, a)
<1>1. PICK u \in Range(poly.points), v \in Range(poly.points), w \in Range(poly.points) :
            Cross(Minus(v, u), Minus(w, u)) # 0
    BY DEF Solid
<1>2. u \in Vector /\ v \in Vector /\ w \in Vector
    BY PointsType
<1> DEFINE x == Minus(v, u)
           y == Minus(w, u)
           k == Cross(x, y)
           n == Norm2(a)
<1>3. x \in Vector /\ y \in Vector /\ k \in Int /\ k # 0 /\ n \in Int /\ n > 0
    BY <1>1, <1>2, VectorSums, NormPositive
<1>4. ASSUME Dot(x, a) = 0, Dot(y, a) = 0 PROVE FALSE
    <2>1. k * n = Dot(x, a) * Cross(a, y) - Dot(y, a) * Cross(a, x)
        BY <1>3, Turning
    <2>2. Cross(a, y) \in Int /\ Cross(a, x) \in Int
        BY <1>3, VectorSums
    <2>3. k * n = 0 * n
        <3> DEFINE p == Cross(a, y)
                   q == Cross(a, x)
        <3>1. k * n = 0 * p - 0 * q /\ p \in Int /\ q \in Int
            BY <1>4, <2>1, <2>2
        <3> HIDE DEF p, q, k, n
        <3> QED BY <1>3, <3>1
    <2> HIDE DEF x, y, k, n
    <2>4. k >= 0 /\ 0 >= k
        <3>1. k * n >= 0 * n /\ 0 * n >= k * n
            BY <1>3, <2>3
        <3> QED BY <1>3, <3>1, Monotone
    <2> QED BY <1>3, <2>4
<1>5. Dot(x, a) = Dot(v, a) - Dot(u, a) /\ Dot(y, a) = Dot(w, a) - Dot(u, a)
    BY <1>2, VectorPairs DEF Dot, Minus
<1>6. Dot(u, a) \in Int /\ Dot(v, a) \in Int /\ Dot(w, a) \in Int
    BY <1>2, VectorSums
<1> HIDE DEF x, y
<1> QED BY <1>4, <1>5, <1>6

\* The shadow of a solid polygon is longer than a point.
LEMMA ShadowIsWide ==
    ASSUME NEW poly \in Polys, Solid(poly), NEW axis \in Vector, axis # Zero
    PROVE  Project(poly, axis).lo < Project(poly, axis).hi
<1>1. PICK v \in Range(poly.points), w \in Range(poly.points) : Dot(v, axis) # Dot(w, axis)
    BY SolidIsWide
<1> DEFINE p == Dot(v, axis)
           q == Dot(w, axis)
           lo == Project(poly, axis).lo
           hi == Project(poly, axis).hi
<1>2. v \in Vector /\ w \in Vector
    BY PointsType
<1>3. p \in Int /\ q \in Int /\ p # q /\ lo \in Int /\ hi \in Int /\ lo <= p /\ p <= hi /\ lo <= q /\ q <= hi
    BY <1>1, <1>2, ProjectType, VectorSums
<1> HIDE DEF p, q, lo, hi
<1>4. lo < hi
    BY <1>3
<1> QED BY <1>4 DEF lo, hi

\* Polygons whose shadows on some axis are apart, or touch, have no interior point in common.
LEMMA ApartOn ==
    ASSUME NEW poly1 \in Polys, NEW poly2 \in Polys, Solid(poly1), NEW axis \in Vector, axis # Zero,
           \/ Project(poly1, axis).hi <= Project(poly2, axis).lo
           \/ Project(poly2, axis).hi <= Project(poly1, axis).lo
    PROVE  ~InteriorsMeet(poly1, poly2)
<1> DEFINE D == Differences(poly1, poly2)
           P == Range(poly1.points)
           Q == Range(poly2.points)
           f == [vw \in P \X Q |-> Minus(vw[1], vw[2])]
<1>1. /\ P \subseteq Vector /\ P # {} /\ IsFiniteSet(P)
      /\ Q \subseteq Vector /\ Q # {} /\ IsFiniteSet(Q)
    BY PointsType
<1>2. D \subseteq Vector
    BY <1>1, VectorSums DEF Differences
<1>3. IsFiniteSet(D)
    <2>1. f \in Surjection(P \X Q, D)
        <3> HIDE DEF P, Q
        <3>1. D = {Minus(v, w) : v \in P, w \in Q}
            BY DEF Differences, P, Q
        <3> HIDE DEF D
        <3>2. \A vw \in P \X Q : f[vw] \in D
            BY <3>1
        <3>3. f \in [P \X Q -> D]
            BY <3>2
        <3>4. ASSUME NEW v \in P, NEW w \in Q PROVE \E vw \in P \X Q : f[vw] = Minus(v, w)
            <4>1. <<v, w>> \in P \X Q /\ f[<<v, w>>] = Minus(v, w)
                OBVIOUS
            <4> QED BY <4>1
        <3> HIDE DEF f
        <3> QED BY <3>1, <3>3, <3>4 DEF Surjection
    <2>2. IsFiniteSet(P \X Q)
        BY <1>1, FS_Product
    <2> QED BY <2>1, <2>2, FS_Surjection
<1>4. D \ {Zero} # {}
    <2>1. PICK v \in P, w \in P : Dot(v, axis) # Dot(w, axis)
        BY SolidIsWide
    <2>2. PICK q \in Q : TRUE
        BY <1>1
    <2>3. Minus(v, q) \in D /\ Minus(w, q) \in D
        BY DEF Differences
    <2>4. \A x \in Vector, y \in Vector : Minus(x, y) = Zero => x = y
        BY VectorPairs DEF Minus, Zero
    <2>5. v # w /\ v \in Vector /\ w \in Vector /\ q \in Vector
        BY <1>1, <2>1
    <2> HIDE DEF D, P, Q
    <2> QED BY <2>3, <2>4, <2>5
<1>5. \A v \in Vector, w \in Vector : Dot(Minus(v, w), axis) = Dot(v, axis) - Dot(w, axis)
    BY VectorPairs DEF Dot, Minus
<1>6. /\ Project(poly1, axis).lo \in Int /\ Project(poly1, axis).hi \in Int
      /\ Project(poly2, axis).lo \in Int /\ Project(poly2, axis).hi \in Int
      /\ \A v \in P : Project(poly1, axis).lo <= Dot(v, axis) /\ Dot(v, axis) <= Project(poly1, axis).hi
      /\ \A w \in Q : Project(poly2, axis).lo <= Dot(w, axis) /\ Dot(w, axis) <= Project(poly2, axis).hi
    BY ProjectType
<1>7. PICK a \in {axis, Opposite(axis)} : \A d \in D : Dot(d, a) <= 0
    <2>1. \A d \in D : \E v \in P, w \in Q : d = Minus(v, w)
        BY DEF Differences
    <2>2. \A v \in P, w \in Q : Dot(v, axis) \in Int /\ Dot(w, axis) \in Int
                                /\ Dot(Minus(v, w), axis) = Dot(v, axis) - Dot(w, axis)
        BY <1>1, <1>5, VectorSums
    <2> HIDE DEF D, P, Q
    <2>3. CASE Project(poly1, axis).hi <= Project(poly2, axis).lo
        <3>1. \A v \in P, w \in Q : Dot(Minus(v, w), axis) <= 0
            BY <1>6, <2>2, <2>3
        <3> QED BY <2>1, <3>1
    <2>4. CASE Project(poly2, axis).hi <= Project(poly1, axis).lo
        <3>1. \A v \in P, w \in Q : Dot(Minus(v, w), axis) >= 0
            BY <1>6, <2>2, <2>4
        <3>2. \A d \in D : Dot(d, axis) >= 0 /\ d \in Vector
            BY <1>2, <2>1, <3>1
        <3>3. \A d \in D : Dot(d, axis) \in Int /\ Dot(d, Opposite(axis)) = -Dot(d, axis)
            BY <3>2, DotOpposite, VectorSums
        <3> QED BY <3>2, <3>3
    <2> QED BY <2>3, <2>4
<1>8. a \in Vector /\ a # Zero
    BY VectorPairs, VectorSums DEF Opposite, Zero
<1>9. PICK x \in D \ {Zero} : (\A y \in D : Cross(x, y) >= 0) \/ (\A y \in D : Cross(x, y) <= 0)
    <2> HIDE DEF D
    <2> QED BY <1>2, <1>3, <1>4, <1>7, <1>8, OneSided
<1>10. \A y \in D : Cross(x, y) \in Int
    BY <1>2, VectorSums
<1> HIDE DEF D
<1> QED BY <1>9, <1>10 DEF InteriorsMeet, D

\* An overlap of 0 is one of shadows that are apart or touch.
LEMMA NoOverlap ==
    ASSUME NEW poly1 \in Polys, NEW poly2 \in Polys, Solid(poly1), Solid(poly2),
           NEW axis \in Vector, axis # Zero,
           IntersectLength(Project(poly1, axis), Project(poly2, axis)) = 0
    PROVE  \/ Project(poly1, axis).hi <= Project(poly2, axis).lo
           \/ Project(poly2, axis).hi <= Project(poly1, axis).lo
<1> DEFINE i == Project(poly1, axis)
           j == Project(poly2, axis)
           a == i.lo
           b == i.hi
           c == j.lo
           d == j.hi
<1>1. a \in Int /\ b \in Int /\ c \in Int /\ d \in Int /\ a < b /\ c < d
    BY ProjectType, ShadowIsWide
<1>2. IF a <= d /\ c <= b THEN Min({b, d}) - Max({a, c}) = 0 ELSE TRUE
    BY DEF IntersectLength, Overlap
<1> HIDE DEF a, b, c, d
<1>3. Min({b, d}) \in {b, d} /\ Max({a, c}) \in {a, c}
    <2>1. IsFiniteSet({b} \cup {d}) /\ IsFiniteSet({a} \cup {c})
        BY FS_Singleton, FS_AddElement
    <2>2. {b, d} = {b} \cup {d} /\ {a, c} = {a} \cup {c} /\ {b, d} # {} /\ {a, c} # {}
        OBVIOUS
    <2>3. {b, d} \in SUBSET Int /\ {a, c} \in SUBSET Int /\ IsFiniteSet({b, d}) /\ IsFiniteSet({a, c})
        BY <1>1, <2>1, <2>2
    <2> QED BY <2>2, <2>3, MaxMin
<1>4. b <= c \/ d <= a
    <2> DEFINE u == Min({b, d})
               v == Max({a, c})
    <2>1. u \in {b, d} /\ v \in {a, c} /\ (a <= d /\ c <= b => u - v = 0)
        BY <1>2, <1>3
    <2> HIDE DEF u, v
    <2> QED BY <1>1, <2>1
<1> QED BY <1>4 DEF a, b, c, d

\* So is the overlap that an edge finds.
LEMMA NoOverlapOn ==
    ASSUME NEW poly1 \in Polys, NEW poly2 \in Polys, Solid(poly1), Solid(poly2),
           NEW h \in EdgeHits(poly1, poly2), h.over = 0
    PROVE  \E axis \in Vector \ {Zero} :
              \/ Project(poly1, axis).hi <= Project(poly2, axis).lo
              \/ Project(poly2, axis).hi <= Project(poly1, axis).lo
<1>1. PICK e \in DOMAIN poly1.points : h = HitOn(poly1, poly2, e)
    BY DEF EdgeHits
<1> DEFINE line == Minus(poly2.centroid, poly1.centroid)
           edge == Edge(poly1.points, e)
           axis == IF Dot(line, Perp(edge)) < 0 THEN Opposite(Perp(edge)) ELSE Perp(edge)
<1>2. h.over = IntersectLength(Project(poly1, axis), Project(poly2, axis))
    BY <1>1 DEF HitOn
<1>3. edge \in Vector /\ edge # Zero
    <2>1. poly1.points \in Seq(Vector)
        BY DEF Polys
    <2>2. poly1.points[e] \in Vector /\ After(poly1.points, e) \in Vector
        BY <2>1, AfterType
    <2>3. poly1.points[e] # After(poly1.points, e)
        BY DEF Solid
    <2>4. \A x \in Vector, y \in Vector : Minus(x, y) = Zero => x = y
        BY VectorPairs DEF Minus, Zero
    <2>5. edge = Minus(After(poly1.points, e), poly1.points[e])
        BY DEF Edge
    <2> HIDE DEF edge
    <2> QED BY <2>2, <2>3, <2>4, <2>5, VectorSums
<1> HIDE DEF edge
<1>4. axis \in Vector /\ axis # Zero
    <2>1. \A v \in Vector : v # Zero => /\ Perp(v) \in Vector /\ Perp(v) # Zero
                                        /\ Opposite(v) \in Vector /\ Opposite(v) # Zero
        BY VectorPairs, VectorSums DEF Perp, Opposite, Zero
    <2> QED BY <1>3, <2>1
<1> HIDE DEF axis
<1> QED BY <1>2, <1>4, NoOverlap

\* Solid polygons whose interiors meet collide: find_collision does not overlook an
\* overlap, however small it is and whatever the shapes.
THEOREM OverlapsAreFound ==
    ASSUME NEW poly1 \in Polys, NEW poly2 \in Polys, Solid(poly1), Solid(poly2),
           InteriorsMeet(poly1, poly2)
    PROVE  FindCollision(poly1, poly2) # None
<1> SUFFICES ASSUME FindCollision(poly1, poly2) = None PROVE FALSE
    OBVIOUS
<1>1. \/ ~BoxesIntersect(poly1, poly2)
      \/ \E h \in EdgeHits(poly1, poly2) : h.over = 0
      \/ \E h \in EdgeHits(poly2, poly1) : h.over = 0
    BY CollisionIsShortest
<1>2. ASSUME ~BoxesIntersect(poly1, poly2)
      PROVE  \E axis \in Vector \ {Zero} : \/ Project(poly1, axis).hi <= Project(poly2, axis).lo
                                           \/ Project(poly2, axis).hi <= Project(poly1, axis).lo
    <2>1. PICK axis \in {<<1, 0>>, <<0, 1>>} :
            ~(/\ Project(poly1, axis).lo < Project(poly2, axis).hi
              /\ Project(poly2, axis).lo < Project(poly1, axis).hi)
        BY <1>2 DEF BoxesIntersect
    <2>2. axis \in Vector \ {Zero}
        BY DEF Vector, Zero
    <2>3. /\ Project(poly1, axis).lo \in Int /\ Project(poly1, axis).hi \in Int
          /\ Project(poly2, axis).lo \in Int /\ Project(poly2, axis).hi \in Int
        BY <2>2, ProjectType
    <2> QED BY <2>1, <2>2, <2>3
<1>3. PICK axis \in Vector \ {Zero} : \/ Project(poly1, axis).hi <= Project(poly2, axis).lo
                                      \/ Project(poly2, axis).hi <= Project(poly1, axis).lo
    BY <1>1, <1>2, NoOverlapOn
<1> QED BY <1>3, ApartOn

\* How a vector lies to the perpendiculars of another.
LEMMA PerpCross ==
    ASSUME NEW g \in Vector, NEW h \in Vector
    PROVE  Dot(h, Perp(g)) = -Cross(g, h) /\ Dot(h, Opposite(Perp(g))) = Cross(g, h)
<1>1. g[1] \in Int /\ g[2] \in Int /\ h[1] \in Int /\ h[2] \in Int
    BY VectorPairs
<1> QED BY <1>1 DEF Dot, Cross, Perp, Opposite

\* Vectors that are not behind a line on which x is: a line along one of them has
\* none behind it either, and x not before it.
LEMMA FirstPassed ==
    ASSUME NEW G \in SUBSET Vector, IsFiniteSet(G), G # {},
           NEW a \in Vector, a # Zero, NEW x \in Vector, Dot(x, a) = 0,
           \A g \in G : Dot(g, a) >= 0
    PROVE  \E g \in G : \E b \in {Perp(g), Opposite(Perp(g))} :
                Dot(x, b) <= 0 /\ \A h \in G : Dot(h, b) >= 0
<1> DEFINE n == Norm2(a)
<1>1. n \in Int /\ n > 0
    BY NormPositive
<1>2. ASSUME NEW g \in G, NEW h \in Vector
      PROVE  /\ Cross(g, h) \in Int /\ Dot(g, a) \in Int /\ Dot(h, a) \in Int
             /\ Cross(a, h) \in Int /\ Cross(a, g) \in Int
             /\ Cross(g, h) * n = Dot(g, a) * Cross(a, h) - Dot(h, a) * Cross(a, g)
    BY VectorSums, Turning
<1> HIDE DEF n
<1>3. ASSUME NEW g \in G, Cross(g, x) <= 0, \A h \in G : Cross(g, h) >= 0
      PROVE  \E b \in {Perp(g), Opposite(Perp(g))} : Dot(x, b) <= 0 /\ \A h \in G : Dot(h, b) >= 0
    <2>1. Dot(x, Opposite(Perp(g))) <= 0 /\ \A h \in G : Dot(h, Opposite(Perp(g))) >= 0
        BY <1>3, PerpCross
    <2> QED BY <2>1
<1>4. ASSUME NEW g \in G, Cross(g, x) >= 0, \A h \in G : Cross(g, h) <= 0
      PROVE  \E b \in {Perp(g), Opposite(Perp(g))} : Dot(x, b) <= 0 /\ \A h \in G : Dot(h, b) >= 0
    <2>1. Dot(x, Perp(g)) = -Cross(g, x) /\ \A h \in G : Dot(h, Perp(g)) = -Cross(g, h)
        BY PerpCross
    <2>2. Cross(g, x) \in Int /\ \A h \in G : Cross(g, h) \in Int
        BY <1>2
    <2>3. Dot(x, Perp(g)) <= 0 /\ \A h \in G : Dot(h, Perp(g)) >= 0
        BY <1>4, <2>1, <2>2
    <2> QED BY <2>3
<1>5. ASSUME NEW k \in Int
      PROVE  (k * n >= 0 => k >= 0) /\ (k * n <= 0 => k <= 0)
    <2>1. 0 * n = 0 /\ k * n \in Int
        BY <1>1, <1>5
    <2>2. (k >= 0 <=> k * n >= 0 * n) /\ (0 >= k <=> 0 * n >= k * n)
        BY <1>1, <1>5, Monotone
    <2> QED BY <1>5, <2>1, <2>2
<1>6. CASE \E g \in G : Dot(g, a) = 0
    <2>1. PICK g \in G : Dot(g, a) = 0
        BY <1>6
    <2> DEFINE c == Cross(a, g)
    <2>2. c \in Int
        BY VectorSums
    <2>3. ASSUME NEW h \in Vector, Dot(h, a) >= 0
          PROVE  /\ c <= 0 => Cross(g, h) >= 0
                 /\ c >= 0 => Cross(g, h) <= 0
        <3> DEFINE k == Cross(g, h)
                   d == Dot(h, a)
                   p == Cross(a, h)
        <3>1. k \in Int /\ d \in Int /\ d >= 0 /\ p \in Int /\ k * n = 0 * p - d * c
            BY <1>2, <2>1, <2>3
        <3> HIDE DEF k, d, p, c
        <3>2. k * n = -(d * c)
            BY <2>2, <3>1
        <3>3. (c <= 0 => k * n >= 0) /\ (c >= 0 => k * n <= 0)
            BY <2>2, <3>1, <3>2
        <3>4. (c <= 0 => k >= 0) /\ (c >= 0 => k <= 0)
            BY <1>5, <3>1, <3>3
        <3> QED BY <3>4 DEF k
    <2>4. Cross(g, x) = 0
        <3> DEFINE k == Cross(g, x)
                   p == Cross(a, x)
        <3>1. k \in Int /\ p \in Int /\ k * n = 0 * p - 0 * c
            BY <1>2, <2>1
        <3> HIDE DEF k, p, c
        <3>2. k * n = 0
            BY <2>2, <3>1
        <3>3. k = 0
            BY <1>5, <3>1, <3>2
        <3> QED BY <3>3 DEF k
    <2> HIDE DEF c
    <2>5. CASE c <= 0
        BY <1>3, <2>3, <2>4, <2>5
    <2>6. CASE c >= 0
        BY <1>4, <2>3, <2>4, <2>6
    <2> QED BY <2>2, <2>5, <2>6
<1>7. CASE \A g \in G : Dot(g, a) # 0
    <2> DEFINE c == Cross(a, x)
               o == Opposite(a)
    <2>1. c \in Int /\ o \in Vector /\ o # Zero
        BY VectorPairs, VectorSums DEF Opposite, Zero
    <2>2. \A g \in G : Dot(g, a) \in Int /\ Dot(g, a) > 0 /\ Dot(g, o) = -Dot(g, a)
        BY <1>7, DotOpposite, VectorSums
    <2>3. \A g \in G : Dot(g, o) < 0
        BY <2>2
    <2>4. PICK l \in G, r \in G : \A h \in G : Cross(l, h) >= 0 /\ Cross(r, h) <= 0
        <3> HIDE DEF o
        <3> QED BY <2>1, <2>3, Outermost
    <2>5. ASSUME NEW g \in G
          PROVE  (c <= 0 => Cross(g, x) <= 0) /\ (c >= 0 => Cross(g, x) >= 0)
        <3> DEFINE k == Cross(g, x)
                   d == Dot(g, a)
                   p == Cross(a, g)
        <3>1. k \in Int /\ d \in Int /\ d > 0 /\ p \in Int /\ k * n = d * c - 0 * p
            BY <1>2, <2>2
        <3> HIDE DEF k, d, p, c
        <3>2. k * n = d * c
            BY <2>1, <3>1
        <3>3. (c <= 0 => k * n <= 0) /\ (c >= 0 => k * n >= 0)
            BY <2>1, <3>1, <3>2
        <3>4. (c <= 0 => k <= 0) /\ (c >= 0 => k >= 0)
            BY <1>5, <3>1, <3>3
        <3> QED BY <3>4 DEF k
    <2> HIDE DEF c
    <2>6. CASE c <= 0
        BY <1>3, <2>4, <2>5, <2>6
    <2>7. CASE c >= 0
        BY <1>4, <2>4, <2>5, <2>7
    <2> QED BY <2>1, <2>6, <2>7
<1> QED BY <1>6, <1>7

\* The edge that ends at a point.
LEMMA EdgeBefore ==
    ASSUME NEW points \in Seq(Vector), NEW k \in DOMAIN points
    PROVE  \E e \in DOMAIN points : NextIndex(points, e) = k
<1> DEFINE n == Len(points)
<1>1. n \in Nat /\ DOMAIN points = 1 .. n /\ k \in 1 .. n
    OBVIOUS
<1> HIDE DEF n
<1>2. CASE k = 1
    <2>1. n % n = 0 /\ n \in 1 .. n
        BY <1>1
    <2> QED BY <1>1, <1>2, <2>1 DEF NextIndex, n
<1>3. CASE k # 1
    <2>1. (k - 1) % n = k - 1 /\ k - 1 \in 1 .. n
        BY <1>1, <1>3
    <2> QED BY <1>1, <2>1 DEF NextIndex, n
<1> QED BY <1>2, <1>3

\* The next index is another one.
LEMMA NextIndexFacts ==
    ASSUME NEW points \in Seq(Vector), Len(points) >= 3, NEW e \in DOMAIN points
    PROVE  /\ NextIndex(points, e) \in DOMAIN points /\ NextIndex(points, e) # e
           /\ NextIndex(points, NextIndex(points, e)) \in DOMAIN points \ {e, NextIndex(points, e)}
<1> DEFINE n == Len(points)
<1>1. n \in Nat /\ n >= 3 /\ DOMAIN points = 1 .. n /\ e \in 1 .. n
    OBVIOUS
<1> HIDE DEF n
<1>2. \A i \in 1 .. n : i % n = IF i = n THEN 0 ELSE i
    BY <1>1
<1>3. \A i \in 1 .. n : NextIndex(points, i) = IF i = n THEN 1 ELSE i + 1
    BY <1>2 DEF NextIndex, n
<1> QED BY <1>1, <1>3

\* A vector between two others, as they lie to a third.
LEMMA Between ==
    ASSUME NEW e \in Vector, NEW f \in Vector, NEW d \in Vector, NEW a \in Vector
    PROVE  Cross(e, f) * Dot(d, a) = Cross(d, f) * Dot(e, a) + Cross(e, d) * Dot(f, a)
<1> DEFINE e1 == e[1]
           e2 == e[2]
           f1 == f[1]
           f2 == f[2]
           d1 == d[1]
           d2 == d[2]
           a1 == a[1]
           a2 == a[2]
<1>1. /\ e1 \in Int /\ e2 \in Int /\ f1 \in Int /\ f2 \in Int
      /\ d1 \in Int /\ d2 \in Int /\ a1 \in Int /\ a2 \in Int
    BY VectorPairs
<1>2. /\ Cross(e, f) = e1 * f2 - f1 * e2 /\ Dot(d, a) = d1 * a1 + d2 * a2
      /\ Cross(d, f) = d1 * f2 - f1 * d2 /\ Dot(e, a) = e1 * a1 + e2 * a2
      /\ Cross(e, d) = e1 * d2 - d1 * e2 /\ Dot(f, a) = f1 * a1 + f2 * a2
    BY DEF Cross, Dot
<1> HIDE DEF e1, e2, f1, f2, d1, d2, a1, a2
<1>3. (e1 * f2 - f1 * e2) * (d1 * a1 + d2 * a2)
        = (d1 * f2 - f1 * d2) * (e1 * a1 + e2 * a2) + (e1 * d2 - d1 * e2) * (f1 * a1 + f2 * a2)
    BY <1>1
<1> QED BY <1>2, <1>3

\* A side is 1 or -1, and what is on it stays there if the edge is moved along itself.
LEMMA Sides ==
    ASSUME NEW side \in {-1, 1}, NEW e \in Vector, NEW d \in Vector
    PROVE  /\ side * Cross(e, d) \in Int
           /\ Cross(e, Plus(d, e)) = Cross(e, d) /\ Cross(e, Plus(e, d)) = Cross(e, d)
           /\ Cross(e, e) = 0 /\ Cross(e, Opposite(e)) = 0 /\ Cross(e, Zero) = 0
           /\ Cross(d, e) = -Cross(e, d)
<1>1. e[1] \in Int /\ e[2] \in Int /\ d[1] \in Int /\ d[2] \in Int
    BY VectorPairs
<1>2. Cross(e, d) \in Int
    BY VectorSums
<1>3. side * Cross(e, d) \in Int
    BY <1>2
<1> QED BY <1>1, <1>3 DEF Cross, Plus, Opposite, Zero

\* Differences of vectors.
LEMMA Ways ==
    ASSUME NEW x \in Vector, NEW y \in Vector, NEW z \in Vector
    PROVE  /\ Minus(x, y) = Plus(Minus(z, y), Minus(x, z)) /\ Minus(x, y) = Plus(Minus(x, z), Minus(z, y))
           /\ Minus(x, x) = Zero /\ Minus(x, y) = Opposite(Minus(y, x))
           /\ Dot(Minus(x, y), z) = Dot(x, z) - Dot(y, z)
           /\ Minus(x, y) = Zero => x = y
<1> DEFINE x1 == x[1]
           x2 == x[2]
           y1 == y[1]
           y2 == y[2]
           z1 == z[1]
           z2 == z[2]
<1>1. /\ x = <<x1, x2>> /\ y = <<y1, y2>> /\ z = <<z1, z2>>
      /\ x1 \in Int /\ x2 \in Int /\ y1 \in Int /\ y2 \in Int /\ z1 \in Int /\ z2 \in Int
    BY VectorPairs
<1> HIDE DEF x1, x2, y1, y2, z1, z2
<1>2. Dot(Minus(x, y), z) = Dot(x, z) - Dot(y, z)
    BY <1>1 DEF Dot, Minus
<1>3. /\ Minus(x, y) = Plus(Minus(z, y), Minus(x, z)) /\ Minus(x, y) = Plus(Minus(x, z), Minus(z, y))
      /\ Minus(x, x) = Zero /\ Minus(x, y) = Opposite(Minus(y, x))
    BY <1>1 DEF Minus, Plus, Opposite, Zero
<1>4. Minus(x, y) = Zero => x = y
    BY <1>1 DEF Minus, Zero
<1> QED BY <1>2, <1>3, <1>4

\* In a convex polygon, the point between two edges is an outermost one in every
\* direction in which they turn round.
LEMMA Corner ==
    ASSUME NEW points \in Seq(Vector), Convex(points), NEW e \in DOMAIN points,
           NEW k, k = NextIndex(points, e), NEW a \in Vector,
           Dot(Edge(points, e), a) >= 0, Dot(Edge(points, k), a) <= 0,
           NEW i \in DOMAIN points
    PROVE  Dot(points[i], a) <= Dot(points[k], a)
<1> DEFINE m == NextIndex(points, k)
           v == points[k]
           e1 == Edge(points, e)
           e2 == Edge(points, k)
           d == Minus(points[i], v)
<1>1. PICK side \in {-1, 1} : \A f, j \in DOMAIN points :
            j \notin {f, NextIndex(points, f)}
                => side * Cross(Edge(points, f), Minus(points[j], points[f])) > 0
    BY DEF Convex
<1>2. k \in DOMAIN points /\ k # e /\ m \in DOMAIN points \ {e, k} /\ Len(points) >= 3
    BY NextIndexFacts DEF Convex
<1>3. v \in Vector /\ points[e] \in Vector /\ points[m] \in Vector /\ points[i] \in Vector
    <2> HIDE DEF m
    <2> QED BY <1>2
<1>4. e1 = Minus(v, points[e]) /\ e2 = Minus(points[m], v)
    BY DEF Edge, After
<1>5. e1 \in Vector /\ e2 \in Vector /\ d \in Vector
    <2> HIDE DEF e1, e2, v, m
    <2> QED BY <1>3, <1>4, VectorSums DEF d
<1>6. /\ Minus(points[m], points[e]) = Plus(e1, e2) /\ Minus(points[i], points[e]) = Plus(d, e1)
      /\ i = k => d = Zero
      /\ i = e => d = Opposite(e1)
      /\ i = m => d = e2
    <2>1. /\ Minus(points[m], points[e]) = Plus(Minus(v, points[e]), Minus(points[m], v))
          /\ Minus(points[i], points[e]) = Plus(Minus(points[i], v), Minus(v, points[e]))
          /\ Minus(v, v) = Zero /\ Minus(points[e], v) = Opposite(Minus(v, points[e]))
        <3> HIDE DEF v, m
        <3> QED BY <1>3, Ways
    <2> QED BY <1>4, <2>1
<1>7. side * Cross(e1, e2) > 0
    <2>1. side * Cross(e1, Minus(points[m], points[e])) > 0
        BY <1>1, <1>2
    <2>2. Cross(e1, Plus(e1, e2)) = Cross(e1, e2)
        <3> HIDE DEF e1, e2
        <3> QED BY <1>5, Sides
    <2> QED BY <1>6, <2>1, <2>2
<1>8. side * Cross(e1, d) >= 0
    <2>1. CASE i \in {e, k}
        <3>1. Cross(e1, d) = 0
            <4>1. d = Zero \/ d = Opposite(e1)
                BY <1>6, <2>1
            <4> HIDE DEF e1, d
            <4> QED BY <1>5, <4>1, Sides
        <3> QED BY <3>1
    <2>2. CASE i \notin {e, k}
        <3>1. side * Cross(e1, Minus(points[i], points[e])) > 0
            BY <1>1, <2>2
        <3>2. Cross(e1, Plus(d, e1)) = Cross(e1, d) /\ side * Cross(e1, d) \in Int
            <4> HIDE DEF e1, d
            <4> QED BY <1>5, Sides
        <3>3. side * Cross(e1, d) > 0
            BY <1>6, <3>1, <3>2
        <3> QED BY <3>2, <3>3
    <2> QED BY <2>1, <2>2
<1>9. side * Cross(e2, d) >= 0
    <2>1. CASE i \in {k, m}
        <3>1. Cross(e2, d) = 0
            <4>1. d = Zero \/ d = e2
                BY <1>6, <2>1
            <4> HIDE DEF e2, d
            <4> QED BY <1>5, <4>1, Sides
        <3> QED BY <3>1
    <2>2. CASE i \notin {k, m}
        <3>1. side * Cross(e2, d) > 0
            BY <1>1, <1>2, <2>2
        <3>2. side * Cross(e2, d) \in Int
            <4> HIDE DEF e2, d
            <4> QED BY <1>5, Sides
        <3> QED BY <3>1, <3>2
    <2> QED BY <2>1, <2>2
<1> DEFINE ef == Cross(e1, e2)
           ed == Cross(e1, d)
           fd == Cross(e2, d)
           x == Dot(d, a)
           p == Dot(e1, a)
           q == Dot(e2, a)
<1>10. /\ ef \in Int /\ ed \in Int /\ fd \in Int /\ x \in Int /\ p \in Int /\ q \in Int
       /\ p >= 0 /\ q <= 0 /\ side * ef > 0 /\ side * ed >= 0 /\ side * fd >= 0
    <2> HIDE DEF e1, e2, d
    <2> QED BY <1>5, <1>7, <1>8, <1>9, VectorSums DEF e1, e2
<1>11. ef * x = (-fd) * p + ed * q
    <2> HIDE DEF e1, e2, d
    <2>1. Cross(d, e2) = -fd
        BY <1>5, Sides
    <2> QED BY <1>5, <2>1, Between
<1>12. x = Dot(points[i], a) - Dot(v, a)
    <2> HIDE DEF v
    <2> QED BY <1>3, Ways DEF d
<1>13. Dot(points[i], a) \in Int /\ Dot(v, a) \in Int
    BY <1>3, VectorSums
<1> HIDE DEF ef, ed, fd, x, p, q
<1>14. x <= 0
    <2>1. ASSUME NEW b \in Int, NEW c \in Int, NEW f \in Int,
                 b > 0, c >= 0, f >= 0, b * x = (-f) * p + c * q
          PROVE  x <= 0
        <3>1. f * p >= 0 /\ c * q <= 0
            BY <1>10, <2>1
        <3>2. (-f) * p = -(f * p)
            BY <1>10, <2>1
        <3>3. b * x <= 0
            BY <1>10, <2>1, <3>1, <3>2
        <3>4. 0 * b >= x * b
            BY <1>10, <2>1, <3>3
        <3> QED BY <1>10, <2>1, <3>4, Monotone
    <2>2. CASE side = 1
        BY <1>10, <1>11, <2>1, <2>2
    <2>3. CASE side = -1
        <3>1. -ef > 0 /\ -ed >= 0 /\ -fd >= 0 /\ -ef \in Int /\ -ed \in Int /\ -fd \in Int
            BY <1>10, <2>3
        <3>2. (-ef) * x = (-(-fd)) * p + (-ed) * q
            <4>1. ef * x \in Int /\ (-ef) * x = -(ef * x) /\ (-(-fd)) * p = -((-fd) * p)
                  /\ (-ed) * q = -(ed * q) /\ (-fd) * p \in Int /\ ed * q \in Int
                BY <1>10
            <4> QED BY <1>11, <4>1
        <3> QED BY <2>1, <3>1, <3>2
    <2> QED BY <2>2, <2>3
<1> HIDE DEF v
<1> QED BY <1>12, <1>13, <1>14 DEF v

\* The points of a polygon, in no order.
Points(poly) == Range(poly.points)

\* No point of Q is behind one of P, as one looks along an axis.
Before(P, Q, axis) == \A p \in P, q \in Q : Dot(p, axis) <= Dot(q, axis)

\* The axes that an edge may have.
PerpsOf(edge) == {Perp(edge), Opposite(Perp(edge))}

\* Polygons whose interiors do not meet are one before the other along a direction in
\* which two of their points are level.
LEMMA Tangent ==
    ASSUME NEW poly1 \in Polys, NEW poly2 \in Polys, ~InteriorsMeet(poly1, poly2)
    PROVE  \E a \in Vector \ {Zero} :
              /\ Before(Points(poly1), Points(poly2), a)
              /\ \E v \in Points(poly1), w \in Points(poly2) : Dot(v, a) = Dot(w, a)
<1> DEFINE D == Differences(poly1, poly2)
           P == Points(poly1)
           Q == Points(poly2)
<1>1. PICK x \in D \ {Zero} : (\A y \in D : ~(Cross(x, y) > 0)) \/ (\A y \in D : ~(Cross(x, y) < 0))
    BY DEF InteriorsMeet
<1>2. P \subseteq Vector /\ Q \subseteq Vector
    BY PointsType DEF Points
<1>3. D = {Minus(v, w) : v \in P, w \in Q}
    BY DEF Differences, Points
<1>4. PICK v \in P, w \in Q : x = Minus(v, w)
    BY <1>3
<1> HIDE DEF D, P, Q
<1>5. /\ x \in Vector /\ x # Zero /\ Perp(x) \in Vector /\ Opposite(Perp(x)) \in Vector
      /\ Perp(x) # Zero /\ Opposite(Perp(x)) # Zero
    <2>1. x \in Vector /\ x # Zero
        BY <1>1, <1>2, <1>4, VectorSums
    <2>2. Perp(x) # Zero /\ Opposite(Perp(x)) # Zero
        BY <2>1, VectorPairs DEF Perp, Opposite, Zero
    <2> QED BY <2>1, <2>2, VectorSums
<1>6. /\ Dot(v, Perp(x)) = Dot(w, Perp(x))
      /\ Dot(v, Opposite(Perp(x))) = Dot(w, Opposite(Perp(x)))
    <2>1. ASSUME NEW a \in Vector, Dot(x, a) = 0
          PROVE  Dot(v, a) = Dot(w, a)
        <3>1. Dot(x, a) = Dot(v, a) - Dot(w, a) /\ Dot(v, a) \in Int /\ Dot(w, a) \in Int
            BY <1>2, <1>4, Ways, VectorSums
        <3> QED BY <2>1, <3>1
    <2>2. Cross(x, x) = 0
        BY <1>5, VectorPairs DEF Cross
    <2>3. Dot(x, Perp(x)) = 0 /\ Dot(x, Opposite(Perp(x))) = 0
        BY <1>5, <2>2, PerpCross
    <2> QED BY <1>5, <2>1, <2>3
<1>7. ASSUME NEW a \in {Perp(x), Opposite(Perp(x))}, \A y \in D : Dot(y, a) <= 0
      PROVE  Before(P, Q, a)
    <2> SUFFICES ASSUME NEW p \in P, NEW q \in Q PROVE Dot(p, a) <= Dot(q, a)
        BY DEF Before
    <2>1. a \in Vector /\ p \in Vector /\ q \in Vector /\ Minus(p, q) \in D
        BY <1>2, <1>3, <1>5
    <2>2. Dot(Minus(p, q), a) = Dot(p, a) - Dot(q, a) /\ Dot(p, a) \in Int /\ Dot(q, a) \in Int
        BY <2>1, Ways, VectorSums
    <2> QED BY <1>7, <2>1, <2>2
<1>8. \A y \in D : /\ Cross(x, y) \in Int
                   /\ Dot(y, Perp(x)) = -Cross(x, y) /\ Dot(y, Opposite(Perp(x))) = Cross(x, y)
    <2> TAKE y \in D
    <2>1. y \in Vector
        BY <1>2, <1>3, VectorSums
    <2> QED BY <1>5, <2>1, PerpCross, VectorSums
<1>9. PICK a \in {Perp(x), Opposite(Perp(x))} : \A y \in D : Dot(y, a) <= 0
    <2>1. CASE \A y \in D : ~(Cross(x, y) > 0)
        <3>1. \A y \in D : Dot(y, Opposite(Perp(x))) <= 0
            BY <1>8, <2>1
        <3> QED BY <3>1
    <2>2. CASE \A y \in D : ~(Cross(x, y) < 0)
        <3>1. \A y \in D : Dot(y, Perp(x)) <= 0
            BY <1>8, <2>2
        <3> QED BY <3>1
    <2> QED BY <1>1, <2>1, <2>2
<1>10. a \in Vector \ {Zero} /\ Before(P, Q, a) /\ Dot(v, a) = Dot(w, a)
    BY <1>5, <1>6, <1>7, <1>9
<1> QED BY <1>10 DEF P, Q

\* The other way, along a vector or an axis.
LEMMA OppositeFacts ==
    ASSUME NEW h \in Vector, NEW b \in Vector
    PROVE  /\ Opposite(h) \in Vector /\ Dot(h, b) \in Int
           /\ Dot(Opposite(h), b) = -Dot(h, b) /\ Dot(h, Opposite(b)) = -Dot(h, b)
<1>1. h[1] \in Int /\ h[2] \in Int /\ b[1] \in Int /\ b[2] \in Int
    BY VectorPairs
<1> QED BY <1>1, VectorSums DEF Dot, Opposite

\* The perpendicular of an edge taken the other way.
LEMMA PerpOpposite ==
    ASSUME NEW h \in Vector
    PROVE  Perp(Opposite(h)) = Opposite(Perp(h)) /\ Opposite(Perp(Opposite(h))) = Perp(h)
<1>1. h = <<h[1], h[2]>> /\ h[1] \in Int /\ h[2] \in Int
    BY VectorPairs
<1> QED BY <1>1 DEF Perp, Opposite

\* Two polygons, one before the other along a direction in which two of their points are
\* level, are so along the perpendicular of an edge at one of these points.
LEMMA TurnedToEdge ==
    ASSUME NEW P \in Seq(Vector), NEW Q \in Seq(Vector), Convex(P), Convex(Q),
           NEW a \in Vector \ {Zero}, Before(Range(P), Range(Q), a),
           NEW k \in DOMAIN P, NEW l \in DOMAIN Q, Dot(P[k], a) = Dot(Q[l], a)
    PROVE  \/ \E e \in DOMAIN P : \E b \in PerpsOf(Edge(P, e)) : Before(Range(P), Range(Q), b)
           \/ \E e \in DOMAIN Q : \E b \in PerpsOf(Edge(Q, e)) : Before(Range(P), Range(Q), b)
<1>1. PICK e \in DOMAIN P : NextIndex(P, e) = k
    BY EdgeBefore
<1>2. PICK f \in DOMAIN Q : NextIndex(Q, f) = l
    BY EdgeBefore
<1> DEFINE m == NextIndex(P, k)
           n == NextIndex(Q, l)
           v == P[k]
           w == Q[l]
           g1 == Edge(P, e)
           g2 == Opposite(Edge(P, k))
           g3 == Opposite(Edge(Q, f))
           g4 == Edge(Q, l)
           G == {g1, g2, g3, g4}
           x == Minus(v, w)
<1>3. m \in DOMAIN P /\ n \in DOMAIN Q
    BY NextIndexFacts DEF Convex
<1>4. /\ v \in Vector /\ P[e] \in Vector /\ P[m] \in Vector
      /\ w \in Vector /\ Q[f] \in Vector /\ Q[n] \in Vector
    <2> HIDE DEF m, n
    <2> QED BY <1>3
<1>5. /\ Edge(P, e) = Minus(v, P[e]) /\ Edge(P, k) = Minus(P[m], v)
      /\ Edge(Q, f) = Minus(w, Q[f]) /\ Edge(Q, l) = Minus(Q[n], w)
    BY <1>1, <1>2 DEF Edge, After
<1>6. /\ Edge(P, e) \in Vector /\ Edge(P, k) \in Vector /\ Edge(Q, f) \in Vector /\ Edge(Q, l) \in Vector
    <2> HIDE DEF v, w, m, n
    <2>1. /\ Minus(v, P[e]) \in Vector /\ Minus(P[m], v) \in Vector
          /\ Minus(w, Q[f]) \in Vector /\ Minus(Q[n], w) \in Vector
        BY <1>4, VectorSums
    <2> HIDE DEF g1, g2, g3, g4, G, x
    <2> QED BY <1>5, <2>1
<1>7. /\ v \in Range(P) /\ P[e] \in Range(P) /\ P[m] \in Range(P)
      /\ w \in Range(Q) /\ Q[f] \in Range(Q) /\ Q[n] \in Range(Q)
    <2> HIDE DEF m, n
    <2> QED BY <1>3 DEF Range
<1>8. \A p \in Range(P), q \in Range(Q) : Dot(p, a) <= Dot(w, a) /\ Dot(v, a) <= Dot(q, a)
    BY <1>7 DEF Before
<1>9. /\ Dot(Edge(P, e), a) = Dot(v, a) - Dot(P[e], a) /\ Dot(Edge(P, k), a) = Dot(P[m], a) - Dot(v, a)
      /\ Dot(Edge(Q, f), a) = Dot(w, a) - Dot(Q[f], a) /\ Dot(Edge(Q, l), a) = Dot(Q[n], a) - Dot(w, a)
      /\ Dot(x, a) = Dot(v, a) - Dot(w, a)
    <2> HIDE DEF v, w, m, n
    <2> QED BY <1>4, <1>5, Ways DEF x
<1>10. /\ Dot(v, a) \in Int /\ Dot(P[e], a) \in Int /\ Dot(P[m], a) \in Int
       /\ Dot(w, a) \in Int /\ Dot(Q[f], a) \in Int /\ Dot(Q[n], a) \in Int
    <2> HIDE DEF v, w, m, n
    <2> QED BY <1>4, VectorSums
<1>11. Dot(x, a) = 0
    <2> HIDE DEF x, m, n
    <2> QED BY <1>9, <1>10
<1>12. /\ Dot(Edge(P, e), a) >= 0 /\ Dot(Edge(P, k), a) <= 0
       /\ Dot(Edge(Q, f), a) <= 0 /\ Dot(Edge(Q, l), a) >= 0
    <2>1. /\ Dot(P[e], a) <= Dot(w, a) /\ Dot(P[m], a) <= Dot(w, a)
          /\ Dot(v, a) <= Dot(Q[f], a) /\ Dot(v, a) <= Dot(Q[n], a) /\ Dot(v, a) = Dot(w, a)
        BY <1>7, <1>8
    <2> HIDE DEF v, w, m, n
    <2> QED BY <1>9, <1>10, <2>1
<1>13. /\ g1 \in Vector /\ g2 \in Vector /\ g3 \in Vector /\ g4 \in Vector
       /\ Dot(g1, a) >= 0 /\ Dot(g2, a) >= 0 /\ Dot(g3, a) >= 0 /\ Dot(g4, a) >= 0
    <2> HIDE DEF x, v, w, m, n
    <2>1. /\ Dot(g2, a) = -Dot(Edge(P, k), a) /\ g2 \in Vector /\ Dot(Edge(P, k), a) \in Int
          /\ Dot(g3, a) = -Dot(Edge(Q, f), a) /\ g3 \in Vector /\ Dot(Edge(Q, f), a) \in Int
        BY <1>6, OppositeFacts
    <2> QED BY <1>6, <1>12, <2>1
<1> HIDE DEF x, v, w, m, n
<1>14. G \in SUBSET Vector /\ G # {} /\ \A g \in G : Dot(g, a) >= 0
    <2> HIDE DEF g1, g2, g3, g4
    <2> QED BY <1>13
<1>15. IsFiniteSet(G)
    <2>1. G = {g1} \cup {g2} \cup {g3} \cup {g4}
        OBVIOUS
    <2> HIDE DEF g1, g2, g3, g4, G
    <2> QED BY <2>1, FS_Singleton, FS_AddElement
<1>16. x \in Vector
    BY <1>4, VectorSums DEF x
<1>17. PICK g \in G : \E b \in {Perp(g), Opposite(Perp(g))} :
            Dot(x, b) <= 0 /\ \A h \in G : Dot(h, b) >= 0
    <2> HIDE DEF G
    <2> QED BY <1>11, <1>14, <1>15, <1>16, FirstPassed
<1>18. PICK b \in {Perp(g), Opposite(Perp(g))} : Dot(x, b) <= 0 /\ \A h \in G : Dot(h, b) >= 0
    BY <1>17
<1>19. b \in Vector /\ Opposite(b) \in Vector
    <2>1. g \in Vector
        <3> HIDE DEF G
        <3> QED BY <1>14, <1>17
    <2> HIDE DEF G
    <2>2. Perp(g) \in Vector /\ Opposite(Perp(g)) \in Vector
        BY <2>1, VectorSums
    <2>3. b \in Vector
        BY <1>18, <2>2
    <2> QED BY <2>3, VectorSums
<1>20. Dot(g1, b) >= 0 /\ Dot(g2, b) >= 0 /\ Dot(g3, b) >= 0 /\ Dot(g4, b) >= 0
    <2> HIDE DEF g1, g2, g3, g4
    <2> QED BY <1>18
<1>21. /\ Dot(Edge(P, e), b) >= 0 /\ Dot(Edge(P, k), b) <= 0
       /\ Dot(Edge(Q, f), Opposite(b)) >= 0 /\ Dot(Edge(Q, l), Opposite(b)) <= 0
    <2>1. /\ Dot(g2, b) = -Dot(Edge(P, k), b) /\ Dot(Edge(P, k), b) \in Int
          /\ Dot(g3, b) = -Dot(Edge(Q, f), b) /\ Dot(Edge(Q, f), b) \in Int
          /\ Dot(Edge(Q, f), Opposite(b)) = -Dot(Edge(Q, f), b)
          /\ Dot(Edge(Q, l), Opposite(b)) = -Dot(Edge(Q, l), b) /\ Dot(Edge(Q, l), b) \in Int
        BY <1>6, <1>19, OppositeFacts
    <2> HIDE DEF G
    <2> QED BY <1>20, <2>1
<1> HIDE DEF G
<1>22. \A p \in Range(P) : Dot(p, b) <= Dot(v, b)
    <2>1. \A i \in DOMAIN P : Dot(P[i], b) <= Dot(P[k], b)
        BY <1>1, <1>19, <1>21, Corner
    <2> QED BY <2>1 DEF Range, v
<1>23. \A q \in Range(Q) : Dot(w, b) <= Dot(q, b)
    <2>1. \A i \in DOMAIN Q : Dot(Q[i], Opposite(b)) <= Dot(Q[l], Opposite(b))
        BY <1>2, <1>19, <1>21, Corner
    <2>2. ASSUME NEW i \in DOMAIN Q PROVE Dot(w, b) <= Dot(Q[i], b)
        <3>1. Q[i] \in Vector
            OBVIOUS
        <3>2. /\ Dot(Q[i], Opposite(b)) = -Dot(Q[i], b) /\ Dot(Q[i], b) \in Int
              /\ Dot(w, Opposite(b)) = -Dot(w, b) /\ Dot(w, b) \in Int
            BY <1>4, <1>19, <3>1, OppositeFacts
        <3>3. Dot(Q[i], Opposite(b)) <= Dot(w, Opposite(b))
            BY <2>1 DEF w
        <3> QED BY <3>2, <3>3
    <2> QED BY <2>2 DEF Range
<1>24. Before(Range(P), Range(Q), b)
    <2>1. Dot(v, b) <= Dot(w, b)
        <3>1. Dot(x, b) = Dot(v, b) - Dot(w, b) /\ Dot(v, b) \in Int /\ Dot(w, b) \in Int
            BY <1>4, <1>19, Ways, VectorSums DEF x
        <3> QED BY <1>18, <3>1
    <2> SUFFICES ASSUME NEW p \in Range(P), NEW q \in Range(Q) PROVE Dot(p, b) <= Dot(q, b)
        BY DEF Before
    <2>2. p \in Vector /\ q \in Vector
        BY DEF Range
    <2>3. Dot(p, b) \in Int /\ Dot(q, b) \in Int /\ Dot(v, b) \in Int /\ Dot(w, b) \in Int
        BY <1>4, <1>19, <2>2, VectorSums
    <2> QED BY <1>22, <1>23, <2>1, <2>3
<1>25. /\ g = g1 => b \in PerpsOf(Edge(P, e))
       /\ g = g2 => b \in PerpsOf(Edge(P, k))
       /\ g = g3 => b \in PerpsOf(Edge(Q, f))
       /\ g = g4 => b \in PerpsOf(Edge(Q, l))
    <2>1. /\ Perp(g2) = Opposite(Perp(Edge(P, k))) /\ Opposite(Perp(g2)) = Perp(Edge(P, k))
          /\ Perp(g3) = Opposite(Perp(Edge(Q, f))) /\ Opposite(Perp(g3)) = Perp(Edge(Q, f))
        BY <1>6, PerpOpposite
    <2> QED BY <1>18, <2>1 DEF PerpsOf
<1>26. g \in {g1, g2, g3, g4}
    BY <1>17 DEF G
<1> HIDE DEF g1, g2, g3, g4
<1> QED BY <1>24, <1>25, <1>26

-----------------------------------------------------------------------------
(* Separating edges                                                        *)

\* Every point of a polygon is one of the sequence.
LEMMA PointsOf ==
    ASSUME NEW poly \in Polys
    PROVE  /\ poly.points \in Seq(Vector) /\ poly.points # <<>>
           /\ \A v \in Points(poly) : v \in Vector /\ \E i \in DOMAIN poly.points : v = poly.points[i]
<1>1. poly.points \in Seq(Vector) /\ poly.points # <<>>
    BY DEF Polys
<1> QED BY <1>1, PointsType DEF Points, Range

\* Convex polygons whose interiors do not meet are apart along the perpendicular of an
\* edge of one of them.
LEMMA SeparatingEdge ==
    ASSUME NEW poly1 \in Polys, NEW poly2 \in Polys, Convex(poly1.points), Convex(poly2.points),
           ~InteriorsMeet(poly1, poly2)
    PROVE  \/ \E e \in DOMAIN poly1.points : \E b \in PerpsOf(Edge(poly1.points, e)) :
                Before(Points(poly1), Points(poly2), b)
           \/ \E e \in DOMAIN poly2.points : \E b \in PerpsOf(Edge(poly2.points, e)) :
                Before(Points(poly1), Points(poly2), b)
<1>1. PICK a \in Vector \ {Zero} :
              /\ Before(Points(poly1), Points(poly2), a)
              /\ \E v \in Points(poly1), w \in Points(poly2) : Dot(v, a) = Dot(w, a)
    BY Tangent
<1>2. PICK v \in Points(poly1), w \in Points(poly2) : Dot(v, a) = Dot(w, a)
    BY <1>1
<1>3. PICK k \in DOMAIN poly1.points : v = poly1.points[k]
    BY PointsOf
<1>4. PICK l \in DOMAIN poly2.points : w = poly2.points[l]
    BY PointsOf
<1>5. poly1.points \in Seq(Vector) /\ poly2.points \in Seq(Vector)
    BY PointsOf
<1> QED BY <1>1, <1>2, <1>3, <1>4, <1>5, TurnedToEdge DEF Points

\* Of two numbers.
LEMMA OfTwo ==
    ASSUME NEW a \in Int, NEW b \in Int
    PROVE  Max({a, b}) = (IF a >= b THEN a ELSE b) /\ Min({a, b}) = (IF a <= b THEN a ELSE b)
<1>1. IsFiniteSet({a, b}) /\ {a, b} \in SUBSET Int /\ {a, b} # {}
    <2>1. IsFiniteSet({a} \cup {b}) /\ {a, b} = {a} \cup {b}
        BY FS_Singleton, FS_AddElement
    <2> QED BY <2>1
<1> DEFINE m == Max({a, b})
           n == Min({a, b})
<1>2. m \in {a, b} /\ m >= a /\ m >= b /\ n \in {a, b} /\ n <= a /\ n <= b
    BY <1>1, MaxMin
<1> HIDE DEF m, n
<1>3. m = (IF a >= b THEN a ELSE b) /\ n = (IF a <= b THEN a ELSE b)
    BY <1>2
<1> QED BY <1>3 DEF m, n

\* An overlap is at most how far the first shadow reaches past the start of the second.
LEMMA OverlapBound ==
    ASSUME NEW i, NEW j, i.lo \in Int, i.hi \in Int, j.lo \in Int, j.hi \in Int,
           i.lo <= i.hi, j.lo <= j.hi
    PROVE  /\ IntersectLength(i, j) \in Int /\ IntersectLength(i, j) >= 0
           /\ IntersectLength(i, j) = IntersectLength(j, i)
           /\ IntersectLength(i, j) # 0 => /\ IntersectLength(i, j) <= i.hi - j.lo
                                           /\ IntersectLength(i, j) <= j.hi - i.lo
           /\ IntersectLength(i, j) # 0 /\ i.lo <= j.lo /\ i.hi <= j.hi
                => IntersectLength(i, j) = i.hi - j.lo
<1> DEFINE a == i.lo
           b == i.hi
           c == j.lo
           d == j.hi
           k == IntersectLength(i, j)
           l == IntersectLength(j, i)
<1>1. /\ k = IF a <= d /\ c <= b THEN Min({b, d}) - Max({a, c}) ELSE 0
      /\ l = IF c <= b /\ a <= d THEN Min({d, b}) - Max({c, a}) ELSE 0
    BY DEF IntersectLength, Overlap
<1>2. a \in Int /\ b \in Int /\ c \in Int /\ d \in Int /\ a <= b /\ c <= d
    OBVIOUS
<1> HIDE DEF a, b, c, d, k, l
<1>3. /\ Min({b, d}) = (IF b <= d THEN b ELSE d) /\ Max({a, c}) = (IF a >= c THEN a ELSE c)
      /\ {b, d} = {d, b} /\ {a, c} = {c, a}
    BY <1>2, OfTwo
<1>4. /\ k = IF a <= d /\ c <= b THEN (IF b <= d THEN b ELSE d) - (IF a >= c THEN a ELSE c) ELSE 0
      /\ k = l
    BY <1>1, <1>3
<1>5. /\ k \in Int /\ k >= 0 /\ k = l
      /\ k # 0 => k <= b - c /\ k <= d - a
      /\ k # 0 /\ a <= c /\ b <= d => k = b - c
    BY <1>2, <1>4
<1> QED BY <1>5 DEF a, b, c, d, k, l

\* A shadow on the opposite axis.
LEMMA OppositeShadow ==
    ASSUME NEW poly \in Polys, NEW axis \in Vector
    PROVE  /\ Project(poly, Opposite(axis)).lo = -Project(poly, axis).hi
           /\ Project(poly, Opposite(axis)).hi = -Project(poly, axis).lo
<1> DEFINE i == Project(poly, axis)
           j == Project(poly, Opposite(axis))
           P == Range(poly.points)
<1>1. ASSUME NEW v \in P
      PROVE  Dot(v, Opposite(axis)) = -Dot(v, axis) /\ Dot(v, axis) \in Int /\ Opposite(axis) \in Vector
    <2>1. v \in Vector
        BY PointsType
    <2> QED BY <2>1, OppositeFacts
<1>2. Opposite(axis) \in Vector
    BY OppositeFacts
<1>3. /\ i.lo \in Int /\ i.hi \in Int /\ \A v \in P : i.lo <= Dot(v, axis) /\ Dot(v, axis) <= i.hi
      /\ (\E v \in P : i.lo = Dot(v, axis)) /\ (\E v \in P : i.hi = Dot(v, axis))
    BY ProjectType
<1>4. /\ j.lo \in Int /\ j.hi \in Int
      /\ \A v \in P : j.lo <= Dot(v, Opposite(axis)) /\ Dot(v, Opposite(axis)) <= j.hi
      /\ (\E v \in P : j.lo = Dot(v, Opposite(axis))) /\ (\E v \in P : j.hi = Dot(v, Opposite(axis)))
    BY <1>2, ProjectType
<1>5. PICK u \in P, v \in P : i.lo = Dot(u, axis) /\ i.hi = Dot(v, axis)
    BY <1>3
<1>6. PICK x \in P, y \in P : j.lo = Dot(x, Opposite(axis)) /\ j.hi = Dot(y, Opposite(axis))
    BY <1>4
<1> DEFINE a == i.lo
           b == i.hi
           c == j.lo
           d == j.hi
<1>7. /\ a \in Int /\ b \in Int /\ c \in Int /\ d \in Int
      /\ c <= -a /\ -a <= d /\ c <= -b /\ -b <= d
      /\ a <= -c /\ -c <= b /\ a <= -d /\ -d <= b
    <2>1. /\ -a = Dot(u, Opposite(axis)) /\ -b = Dot(v, Opposite(axis))
        BY <1>1, <1>5
    <2>2. -c = Dot(x, axis) /\ -d = Dot(y, axis)
        <3>1. c = -Dot(x, axis) /\ d = -Dot(y, axis) /\ Dot(x, axis) \in Int /\ Dot(y, axis) \in Int
            BY <1>1, <1>6
        <3> HIDE DEF c, d
        <3> QED BY <3>1
    <2> HIDE DEF i, j
    <2> QED BY <1>3, <1>4, <2>1, <2>2
<1> HIDE DEF a, b, c, d
<1>8. c = -b /\ d = -a
    BY <1>7
<1> QED BY <1>8 DEF a, b, c, d

\* Opposite axes have the same overlap.
LEMMA OppositeOverlap ==
    ASSUME NEW poly1 \in Polys, NEW poly2 \in Polys, NEW axis \in Vector
    PROVE  IntersectLength(Project(poly1, Opposite(axis)), Project(poly2, Opposite(axis)))
            = IntersectLength(Project(poly1, axis), Project(poly2, axis))
<1> DEFINE i == Project(poly1, axis)
           j == Project(poly2, axis)
           k == Project(poly1, Opposite(axis))
           l == Project(poly2, Opposite(axis))
           a == i.lo
           b == i.hi
           c == j.lo
           d == j.hi
<1>1. a \in Int /\ b \in Int /\ c \in Int /\ d \in Int
    BY ProjectType
<1>2. k.lo = -b /\ k.hi = -a /\ l.lo = -d /\ l.hi = -c
    BY OppositeShadow
<1>3. /\ IntersectLength(i, j) = IF a <= d /\ c <= b THEN Min({b, d}) - Max({a, c}) ELSE 0
      /\ IntersectLength(k, l) = IF -b <= -c /\ -d <= -a THEN Min({-a, -c}) - Max({-b, -d}) ELSE 0
    BY <1>2 DEF IntersectLength, Overlap
<1> DEFINE p == IntersectLength(i, j)
           q == IntersectLength(k, l)
<1> HIDE DEF i, j, k, l, a, b, c, d, p, q
<1>4. /\ Min({b, d}) = (IF b <= d THEN b ELSE d) /\ Max({a, c}) = (IF a >= c THEN a ELSE c)
      /\ Min({-a, -c}) = (IF -a <= -c THEN -a ELSE -c) /\ Max({-b, -d}) = (IF -b >= -d THEN -b ELSE -d)
    <2>1. -a \in Int /\ -b \in Int /\ -c \in Int /\ -d \in Int
        BY <1>1
    <2> QED BY <1>1, <2>1, OfTwo
<1>5. /\ p = IF a <= d /\ c <= b THEN (IF b <= d THEN b ELSE d) - (IF a >= c THEN a ELSE c) ELSE 0
      /\ q = IF -b <= -c /\ -d <= -a THEN (IF -a <= -c THEN -a ELSE -c) - (IF -b >= -d THEN -b ELSE -d)
             ELSE 0
    BY <1>3, <1>4 DEF p, q
<1>6. p = q
    BY <1>1, <1>5
<1> QED BY <1>6 DEF p, q, i, j, k, l

\* No three points of a convex polygon are on a line.
LEMMA ConvexIsSolid ==
    ASSUME NEW poly \in Polys, Convex(poly.points)
    PROVE  Solid(poly)
<1> DEFINE P == poly.points
<1>1. P \in Seq(Vector) /\ P # <<>>
    BY PointsOf
<1>2. PICK side \in {-1, 1} : \A f, j \in DOMAIN P :
            j \notin {f, NextIndex(P, f)} => side * Cross(Edge(P, f), Minus(P[j], P[f])) > 0
    BY DEF Convex
<1>3. ASSUME NEW e \in DOMAIN P
      PROVE  /\ P[e] # After(P, e)
             /\ \E u \in Range(P), v \in Range(P), w \in Range(P) : Cross(Minus(v, u), Minus(w, u)) # 0
    <2> DEFINE k == NextIndex(P, e)
               m == NextIndex(P, k)
               x == Edge(P, e)
               y == Minus(P[m], P[e])
    <2>1. k \in DOMAIN P /\ m \in DOMAIN P \ {e, k}
        BY <1>1, NextIndexFacts DEF Convex
    <2>2. side * Cross(x, y) > 0
        BY <1>2, <2>1
    <2>3. Cross(x, y) # 0
        <3> DEFINE c == Cross(x, y)
        <3>1. side * c > 0
            BY <2>2
        <3> HIDE DEF c
        <3>2. c # 0
            BY <3>1
        <3> QED BY <3>2 DEF c
    <2>4. x = Minus(P[k], P[e])
        BY DEF Edge, After
    <2> HIDE DEF k, m
    <2>5. P[e] \in Vector /\ P[k] \in Vector /\ P[m] \in Vector
        BY <1>1, <2>1
    <2>6. P[e] # P[k]
        <3> SUFFICES ASSUME P[e] = P[k] PROVE FALSE
            OBVIOUS
        <3>1. x = Zero
            BY <2>4, <2>5, Ways
        <3>2. y \in Vector
            BY <2>5, VectorSums
        <3> HIDE DEF x, y, P
        <3>3. Cross(Zero, y) = 0
            BY <3>2, VectorPairs DEF Cross, Zero
        <3> QED BY <2>3, <3>1, <3>3
    <2>7. P[e] \in Range(P) /\ P[k] \in Range(P) /\ P[m] \in Range(P)
        BY <2>1 DEF Range
    <2>8. P[e] # After(P, e)
        BY <2>6 DEF After, k
    <2> HIDE DEF x, P
    <2> QED BY <2>3, <2>4, <2>7, <2>8
<1>4. 1 \in DOMAIN P
    BY <1>1
<1>5. /\ \A e \in DOMAIN P : P[e] # After(P, e)
      /\ \E u \in Range(P), v \in Range(P), w \in Range(P) : Cross(Minus(v, u), Minus(w, u)) # 0
    <2> HIDE DEF P
    <2> QED BY <1>3, <1>4
<1> QED BY <1>5 DEF Solid

\* A shadow starts before it ends.
LEMMA ShadowOrder ==
    ASSUME NEW poly \in Polys, NEW b \in Vector
    PROVE  Project(poly, b).lo <= Project(poly, b).hi
<1> DEFINE i == Project(poly, b)
<1>1. PICK v \in Range(poly.points) : i.lo = Dot(v, b)
    BY ProjectType
<1>2. i.lo <= i.hi
    BY <1>1, ProjectType
<1> QED BY <1>2

\* The hit of an edge is the overlap along either perpendicular of it.
LEMMA HitBound ==
    ASSUME NEW poly1 \in Polys, NEW poly2 \in Polys, NEW e \in DOMAIN poly1.points,
           NEW b \in PerpsOf(Edge(poly1.points, e))
    PROVE  \E h \in EdgeHits(poly1, poly2) :
              /\ b \in Vector /\ Norm2(h.axis) = Norm2(b)
              /\ h.over = IntersectLength(Project(poly1, b), Project(poly2, b))
              /\ h.over = IntersectLength(Project(poly2, b), Project(poly1, b))
<1> DEFINE h == HitOn(poly1, poly2, e)
           perp == Perp(Edge(poly1.points, e))
<1>1. h \in EdgeHits(poly1, poly2)
    BY DEF EdgeHits
<1>2. perp \in Vector /\ Opposite(perp) \in Vector /\ Opposite(Opposite(perp)) = perp
    <2>1. Edge(poly1.points, e) \in Vector
        BY PointsOf, AfterType, VectorSums DEF Edge
    <2>2. perp \in Vector
        BY <2>1, VectorSums
    <2> HIDE DEF perp
    <2> QED BY <2>2, VectorPairs, VectorSums DEF Opposite
<1>3. h.axis \in {perp, Opposite(perp)} /\ h.over = IntersectLength(Project(poly1, h.axis), Project(poly2, h.axis))
    BY DEF HitOn
<1>4. b \in {perp, Opposite(perp)}
    BY DEF PerpsOf
<1> HIDE DEF h, perp
<1>5. b \in Vector /\ Norm2(h.axis) = Norm2(b)
    BY <1>2, <1>3, <1>4, NormOpposite
<1>6. h.over = IntersectLength(Project(poly1, b), Project(poly2, b))
    <2>1. CASE h.axis = b
        BY <1>3, <2>1
    <2>2. CASE h.axis # b
        <3>1. b = Opposite(h.axis) /\ h.axis \in Vector
            BY <1>2, <1>3, <1>4, <2>2
        <3> QED BY <1>3, <3>1, OppositeOverlap
    <2> QED BY <2>1, <2>2
<1>7. IntersectLength(Project(poly1, b), Project(poly2, b)) = IntersectLength(Project(poly2, b), Project(poly1, b))
    <2>1. Project(poly1, b).lo <= Project(poly1, b).hi /\ Project(poly2, b).lo <= Project(poly2, b).hi
        BY <1>5, ShadowOrder
    <2> QED BY <1>5, <2>1, OverlapBound, ProjectType
<1> QED BY <1>1, <1>5, <1>6, <1>7

\* The shadows of polygons one before the other.
LEMMA BeforeShadows ==
    ASSUME NEW poly1 \in Polys, NEW poly2 \in Polys, NEW b \in Vector
    PROVE  Before(Points(poly1), Points(poly2), b) <=> Project(poly1, b).hi <= Project(poly2, b).lo
<1> DEFINE i == Project(poly1, b)
           j == Project(poly2, b)
           P == Points(poly1)
           Q == Points(poly2)
<1>1. /\ i.lo \in Int /\ i.hi \in Int /\ \A v \in P : i.lo <= Dot(v, b) /\ Dot(v, b) <= i.hi
      /\ \E v \in P : i.hi = Dot(v, b)
    BY ProjectType DEF Points
<1>2. /\ j.lo \in Int /\ j.hi \in Int /\ \A v \in Q : j.lo <= Dot(v, b) /\ Dot(v, b) <= j.hi
      /\ \E v \in Q : j.lo = Dot(v, b)
    BY ProjectType DEF Points
<1>3. (\A v \in P : Dot(v, b) \in Int) /\ (\A v \in Q : Dot(v, b) \in Int)
    BY PointsOf, VectorSums
<1> HIDE DEF i, j, P, Q
<1>4. Before(P, Q, b) <=> i.hi <= j.lo
    BY <1>1, <1>2, <1>3 DEF Before
<1> QED BY <1>4 DEF i, j, P, Q

\* An edge along which polygons are one before the other has no overlap.
LEMMA NoHit ==
    ASSUME NEW poly1 \in Polys, NEW poly2 \in Polys, NEW b \in Vector,
           Before(Points(poly1), Points(poly2), b)
    PROVE  IntersectLength(Project(poly1, b), Project(poly2, b)) = 0
<1> DEFINE i == Project(poly1, b)
           j == Project(poly2, b)
           k == IntersectLength(i, j)
<1>1. i.hi <= j.lo
    BY BeforeShadows
<1>2. i.lo \in Int /\ i.hi \in Int /\ j.lo \in Int /\ j.hi \in Int /\ i.lo <= i.hi /\ j.lo <= j.hi
    BY ProjectType, ShadowOrder
<1>3. k \in Int /\ k >= 0 /\ (k # 0 => k <= i.hi - j.lo)
    <2> HIDE DEF i, j
    <2> QED BY <1>2, OverlapBound
<1> HIDE DEF i, j, k
<1>4. k = 0
    BY <1>1, <1>2, <1>3
<1> QED BY <1>4 DEF i, j, k

\* Convex polygons collide exactly if their interiors meet: the axes of the edges, which
\* are all that find_collision tries, are enough to tell.
THEOREM CollisionIsOverlap ==
    ASSUME NEW poly1 \in Polys, NEW poly2 \in Polys, Convex(poly1.points), Convex(poly2.points)
    PROVE  FindCollision(poly1, poly2) # None <=> InteriorsMeet(poly1, poly2)
<1>1. ASSUME InteriorsMeet(poly1, poly2) PROVE FindCollision(poly1, poly2) # None
    BY <1>1, ConvexIsSolid, OverlapsAreFound
<1>2. ASSUME ~InteriorsMeet(poly1, poly2) PROVE FindCollision(poly1, poly2) = None
    <2>1. CASE \E e \in DOMAIN poly1.points : \E b \in PerpsOf(Edge(poly1.points, e)) :
                Before(Points(poly1), Points(poly2), b)
        <3>1. PICK e \in DOMAIN poly1.points, b \in Vector :
                b \in PerpsOf(Edge(poly1.points, e)) /\ Before(Points(poly1), Points(poly2), b)
            BY <2>1, HitBound
        <3>2. PICK h \in EdgeHits(poly1, poly2) : h.over = 0
            BY <3>1, HitBound, NoHit
        <3> QED BY <3>2, CollisionIsShortest
    <2>2. CASE \E e \in DOMAIN poly2.points : \E b \in PerpsOf(Edge(poly2.points, e)) :
                Before(Points(poly1), Points(poly2), b)
        <3>1. PICK e \in DOMAIN poly2.points, b \in Vector :
                b \in PerpsOf(Edge(poly2.points, e)) /\ Before(Points(poly1), Points(poly2), b)
            BY <2>2, HitBound
        <3>2. PICK h \in EdgeHits(poly2, poly1) : h.over = 0
            BY <3>1, HitBound, NoHit
        <3> QED BY <3>2, CollisionIsShortest
    <2> QED BY <1>2, <2>1, <2>2, SeparatingEdge
<1> QED BY <1>1, <1>2

-----------------------------------------------------------------------------
(* The minimum translation                                                 *)

\* Polygons stay convex under what scales all triangles of their points alike.
LEMMA ConvexKept ==
    ASSUME NEW points \in Seq(Vector), Convex(points), NEW image \in Seq(Vector),
           DOMAIN image = DOMAIN points, NEW c \in Int, c > 0,
           \A e, i \in DOMAIN points :
                Cross(Minus(image[NextIndex(points, e)], image[e]), Minus(image[i], image[e]))
                    = c * Cross(Minus(points[NextIndex(points, e)], points[e]), Minus(points[i], points[e]))
    PROVE  Convex(image)
<1>1. PICK side \in {-1, 1} : \A f, j \in DOMAIN points :
            j \notin {f, NextIndex(points, f)} => side * Cross(Edge(points, f), Minus(points[j], points[f])) > 0
    BY DEF Convex
<1>2. Len(image) = Len(points) /\ Len(points) >= 3
    BY DEF Convex
<1>3. \A e : NextIndex(image, e) = NextIndex(points, e)
    BY <1>2 DEF NextIndex
<1>4. ASSUME NEW f \in DOMAIN points, NEW j \in DOMAIN points, j \notin {f, NextIndex(points, f)}
      PROVE  side * Cross(Edge(image, f), Minus(image[j], image[f])) > 0
    <2> DEFINE x == Cross(Edge(points, f), Minus(points[j], points[f]))
               y == Cross(Edge(image, f), Minus(image[j], image[f]))
    <2>1. y = c * x
        BY <1>3 DEF Edge, After
    <2>2. x \in Int
        <3>1. Edge(points, f) \in Vector /\ points[j] \in Vector /\ points[f] \in Vector
            BY AfterType, VectorSums DEF Edge
        <3> QED BY <3>1, VectorSums
    <2>3. side * x > 0
        BY <1>1, <1>4
    <2> HIDE DEF x, y
    <2>4. side = 1 => side * y > 0
        BY <2>1, <2>2, <2>3
    <2>5. ASSUME side = -1 PROVE side * y > 0
        <3>1. -x > 0
            BY <2>2, <2>3, <2>5
        <3>2. c * (-x) > 0
            BY <2>2, <3>1
        <3>3. side * y = c * (-x)
            BY <2>1, <2>2, <2>5
        <3> QED BY <3>2, <3>3
    <2>6. side * y > 0
        BY <2>4, <2>5
    <2> QED BY <2>6 DEF y
<1>5. \A f, j \in DOMAIN image :
            j \notin {f, NextIndex(image, f)} => side * Cross(Edge(image, f), Minus(image[j], image[f])) > 0
    BY <1>3, <1>4
<1> QED BY <1>2, <1>5 DEF Convex

\* What translating does.
LEMMA Translated ==
    ASSUME NEW poly \in Polys, NEW t \in Vector
    PROVE  /\ Translate(poly, t) \in Polys
           /\ DOMAIN Translate(poly, t).points = DOMAIN poly.points
           /\ \A i \in DOMAIN poly.points : Translate(poly, t).points[i] = Plus(poly.points[i], t)
           /\ Points(Translate(poly, t)) = {Plus(v, t) : v \in Points(poly)}
<1>1. Translate(poly, t).points = [e \in DOMAIN poly.points |-> Plus(poly.points[e], t)]
    BY DEF Translate, Mapped
<1>2. Translate(poly, t) \in Polys
    BY TranslateType
<1> QED BY <1>1, <1>2 DEF Points, Range

\* Differences of vectors that are moved alike, or stretched alike.
LEMMA SameWay ==
    ASSUME NEW x \in Vector, NEW y \in Vector, NEW t \in Vector, NEW k \in Int
    PROVE  /\ Minus(Plus(x, t), Plus(y, t)) = Minus(x, y)
           /\ Minus(Times(x, k), Times(y, k)) = Times(Minus(x, y), k)
           /\ Dot(Plus(x, t), y) = Dot(x, y) + Dot(t, y)
           /\ Cross(Times(x, k), Times(y, k)) = (k * k) * Cross(x, y)
           /\ Dot(Times(x, k), y) = k * Dot(x, y)
<1> DEFINE x1 == x[1]
           x2 == x[2]
           y1 == y[1]
           y2 == y[2]
           t1 == t[1]
           t2 == t[2]
<1>1. /\ x1 \in Int /\ x2 \in Int /\ y1 \in Int /\ y2 \in Int /\ t1 \in Int /\ t2 \in Int
      /\ x = <<x1, x2>> /\ y = <<y1, y2>> /\ t = <<t1, t2>>
    BY VectorPairs
<1> HIDE DEF x1, x2, y1, y2, t1, t2
<1>2. Minus(Plus(x, t), Plus(y, t)) = Minus(x, y)
    BY <1>1 DEF Minus, Plus
<1>3. Minus(Times(x, k), Times(y, k)) = Times(Minus(x, y), k)
    <2>1. x1 * k - y1 * k = (x1 - y1) * k /\ x2 * k - y2 * k = (x2 - y2) * k
        BY <1>1
    <2> QED BY <1>1, <2>1 DEF Minus, Times
<1>4. Dot(Plus(x, t), y) = Dot(x, y) + Dot(t, y)
    <2>1. (x1 + t1) * y1 + (x2 + t2) * y2 = (x1 * y1 + x2 * y2) + (t1 * y1 + t2 * y2)
        BY <1>1
    <2> QED BY <1>1, <2>1 DEF Dot, Plus
<1>5. Cross(Times(x, k), Times(y, k)) = (k * k) * Cross(x, y)
    <2>1. (x1 * k) * (y2 * k) - (y1 * k) * (x2 * k) = (k * k) * (x1 * y2 - y1 * x2)
        BY <1>1
    <2> QED BY <1>1, <2>1 DEF Cross, Times
<1>6. Dot(Times(x, k), y) = k * Dot(x, y)
    <2>1. (x1 * k) * y1 + (x2 * k) * y2 = k * (x1 * y1 + x2 * y2)
        BY <1>1
    <2> QED BY <1>1, <2>1 DEF Dot, Times
<1> QED BY <1>2, <1>3, <1>4, <1>5, <1>6

\* Translated polygons stay convex, with the same edges.
LEMMA TranslatedConvex ==
    ASSUME NEW poly \in Polys, Convex(poly.points), NEW t \in Vector
    PROVE  /\ Convex(Translate(poly, t).points)
           /\ \A e \in DOMAIN poly.points : Edge(Translate(poly, t).points, e) = Edge(poly.points, e)
<1> DEFINE P == poly.points
           R == Translate(poly, t).points
<1>1. /\ P \in Seq(Vector) /\ R \in Seq(Vector) /\ DOMAIN R = DOMAIN P
      /\ \A i \in DOMAIN P : R[i] = Plus(P[i], t)
    BY PointsOf, Translated
<1> HIDE DEF P, R
<1>2. Convex(P)
    BY DEF P
<1>3. \A i, j \in DOMAIN P : Minus(R[i], R[j]) = Minus(P[i], P[j])
    <2> TAKE i, j \in DOMAIN P
    <2>1. P[i] \in Vector /\ P[j] \in Vector
        BY <1>1
    <2> QED BY <1>1, <2>1, SameWay
<1>4. \A e \in DOMAIN P : NextIndex(P, e) \in DOMAIN P
    BY <1>1, <1>2, NextIndexFacts DEF Convex
<1> DEFINE c == 1
<1>5. \A e, i \in DOMAIN P :
            Cross(Minus(R[NextIndex(P, e)], R[e]), Minus(R[i], R[e]))
                = c * Cross(Minus(P[NextIndex(P, e)], P[e]), Minus(P[i], P[e]))
    <2> TAKE e, i \in DOMAIN P
    <2>1. P[NextIndex(P, e)] \in Vector /\ P[e] \in Vector /\ P[i] \in Vector
        BY <1>1, <1>4
    <2>2. Cross(Minus(P[NextIndex(P, e)], P[e]), Minus(P[i], P[e])) \in Int
        BY <2>1, VectorSums
    <2>3. /\ Minus(R[NextIndex(P, e)], R[e]) = Minus(P[NextIndex(P, e)], P[e])
          /\ Minus(R[i], R[e]) = Minus(P[i], P[e])
        BY <1>3, <1>4
    <2> QED BY <2>2, <2>3
<1>6. Convex(R)
    <2>1. c \in Int /\ c > 0
        OBVIOUS
    <2> HIDE DEF c
    <2> QED BY <1>1, <1>2, <1>5, <2>1, ConvexKept
<1>7. \A e \in DOMAIN P : Edge(R, e) = Edge(P, e)
    <2>1. \A e : NextIndex(R, e) = NextIndex(P, e)
        <3>1. Len(R) = Len(P)
            BY <1>1
        <3> QED BY <3>1 DEF NextIndex
    <2> QED BY <1>3, <1>4, <2>1 DEF Edge, After
<1> QED BY <1>6, <1>7 DEF P, R

\* The square of a product is at most that of the lengths.
LEMMA Cauchy ==
    ASSUME NEW t \in Vector, NEW b \in Vector
    PROVE  Dot(t, b) * Dot(t, b) <= Norm2(t) * Norm2(b)
<1> DEFINE t1 == t[1]
           t2 == t[2]
           b1 == b[1]
           b2 == b[2]
           d == Dot(t, b)
           c == Cross(t, b)
           m == Norm2(t)
           n == Norm2(b)
<1>1. t1 \in Int /\ t2 \in Int /\ b1 \in Int /\ b2 \in Int
    BY VectorPairs
<1>2. /\ d = t1 * b1 + t2 * b2 /\ c = t1 * b2 - b1 * t2
      /\ m = t1 * t1 + t2 * t2 /\ n = b1 * b1 + b2 * b2
    BY DEF Dot, Cross, Norm2
<1>3. d \in Int /\ c \in Int /\ m \in Int /\ n \in Int
    BY VectorSums
<1> HIDE DEF t1, t2, b1, b2, d, c, m, n
<1>4. (t1 * t1 + t2 * t2) * (b1 * b1 + b2 * b2)
        = (t1 * b1 + t2 * b2) * (t1 * b1 + t2 * b2) + (t1 * b2 - b1 * t2) * (t1 * b2 - b1 * t2)
    BY <1>1
<1>5. m * n = d * d + c * c
    BY <1>2, <1>4
<1>6. c * c >= 0
    BY <1>3, SquarePositive
<1>7. d * d <= m * n
    <2> DEFINE p == m * n
               q == d * d
               r == c * c
    <2>1. p \in Int /\ q \in Int /\ r \in Int /\ p = q + r /\ r >= 0
        BY <1>3, <1>5, <1>6
    <2> HIDE DEF p, q, r
    <2>2. q <= p
        BY <2>1
    <2> QED BY <2>2 DEF p, q
<1> QED BY <1>7 DEF d, m, n

\* The arithmetic of lengths: of a shadow o no longer than its share d of a translation
\* of length m, and not shorter than the hit of length v, each along its axis.
LEMMA NotShorter ==
    ASSUME NEW o \in Int, NEW d \in Int, NEW v \in Int, NEW m \in Int, NEW n \in Int, NEW k \in Int,
           0 <= o, o <= d, d * d <= m * n, n > 0, k > 0, v * v * n <= o * o * k
    PROVE  v * v <= m * k
<1> DEFINE dd == d * d
           oo == o * o
           vv == v * v
           mn == m * n
           mk == m * k
<1>1. /\ dd \in Int /\ oo \in Int /\ vv \in Int /\ mn \in Int /\ mk \in Int
      /\ dd <= mn /\ vv * n <= oo * k /\ mn * k = mk * n
    BY SquarePositive
<1>2. oo <= dd
    <2>1. CASE o = 0
        BY <2>1, SquarePositive
    <2>2. CASE o > 0
        <3>1. o * o <= d * o
            BY <2>2, Monotone
        <3>2. o * d <= d * d
            BY <2>2, Monotone
        <3> QED BY <3>1, <3>2
    <2> QED BY <2>1, <2>2
<1> HIDE DEF dd, oo, vv, mn, mk
<1>3. oo <= mn
    BY <1>1, <1>2
<1>4. oo * k <= mn * k
    BY <1>1, <1>3, Monotone
<1>5. vv * n <= mk * n
    BY <1>1, <1>4
<1>6. vv <= mk
    BY <1>1, <1>5, Monotone
<1> QED BY <1>6 DEF vv, mk

\* The shadow of a translated polygon starts by its share of the translation later.
LEMMA TranslatedShadow ==
    ASSUME NEW poly \in Polys, NEW t \in Vector, NEW b \in Vector
    PROVE  Project(Translate(poly, t), b).lo = Project(poly, b).lo + Dot(t, b)
<1> DEFINE i == Project(poly, b)
           j == Project(Translate(poly, t), b)
           P == Points(poly)
           R == Points(Translate(poly, t))
           d == Dot(t, b)
<1>1. /\ i.lo \in Int /\ \A v \in P : i.lo <= Dot(v, b)
      /\ \E v \in P : i.lo = Dot(v, b)
    BY ProjectType DEF Points
<1>2. /\ j.lo \in Int /\ \A v \in R : j.lo <= Dot(v, b)
      /\ \E v \in R : j.lo = Dot(v, b)
    BY Translated, ProjectType DEF Points
<1>3. R = {Plus(v, t) : v \in P}
    BY Translated
<1>4. \A v \in P : Dot(v, b) \in Int /\ Dot(Plus(v, t), b) = Dot(v, b) + d
    <2> TAKE v \in P
    <2>1. v \in Vector
        BY PointsOf
    <2> QED BY <2>1, SameWay, VectorSums
<1>5. d \in Int
    BY VectorSums
<1> HIDE DEF i, j, P, R, d
<1>6. PICK v \in P : i.lo = Dot(v, b)
    BY <1>1
<1>7. j.lo <= i.lo + d
    BY <1>2, <1>3, <1>4, <1>6
<1>8. PICK w \in P : j.lo = Dot(Plus(w, t), b)
    BY <1>2, <1>3
<1>9. i.lo + d <= j.lo
    BY <1>1, <1>4, <1>5, <1>8
<1>10. j.lo = i.lo + d
    BY <1>1, <1>2, <1>5, <1>7, <1>9
<1> QED BY <1>10 DEF i, j, d

\* If a translation separates two polygons along the perpendicular of an edge, the
\* overlap there is at most its share of the translation.
LEMMA ShareOfTranslation ==
    ASSUME NEW poly1 \in Polys, NEW poly2 \in Polys, NEW t \in Vector, NEW b \in Vector,
           Before(Points(poly1), Points(Translate(poly2, t)), b),
           NEW o, o = IntersectLength(Project(poly1, b), Project(poly2, b)), o # 0
    PROVE  o \in Int /\ 0 <= o /\ o <= Dot(t, b)
<1> DEFINE i == Project(poly1, b)
           j == Project(poly2, b)
           d == Dot(t, b)
<1>1. i.hi <= j.lo + d
    BY Translated, BeforeShadows, TranslatedShadow
<1>2. i.lo \in Int /\ i.hi \in Int /\ j.lo \in Int /\ j.hi \in Int /\ i.lo <= i.hi /\ j.lo <= j.hi
    BY ProjectType, ShadowOrder
<1>3. o \in Int /\ o >= 0 /\ o <= i.hi - j.lo
    <2> HIDE DEF i, j
    <2>1. o = IntersectLength(i, j)
        BY DEF i, j
    <2> QED BY <1>2, <2>1, OverlapBound
<1>4. d \in Int
    BY VectorSums
<1> HIDE DEF i, j, d
<1>5. 0 <= o /\ o <= d
    BY <1>1, <1>2, <1>3, <1>4
<1> QED BY <1>3, <1>5 DEF d

\* No translation shorter than what find_collision answers separates two convex polygons.
LEMMA NoneShorter ==
    ASSUME NEW poly1 \in Polys, NEW poly2 \in Polys, Convex(poly1.points), Convex(poly2.points),
           NEW hit, hit = FindCollision(poly1, poly2), hit # None, NEW t \in Vector,
           Norm2(t) * Norm2(hit.axis) < hit.over * hit.over
    PROVE  InteriorsMeet(poly1, Translate(poly2, t))
<1> SUFFICES ASSUME ~InteriorsMeet(poly1, Translate(poly2, t)) PROVE FALSE
    OBVIOUS
<1> DEFINE moved2 == Translate(poly2, t)
           hits == EdgeHits(poly1, poly2) \cup EdgeHits(poly2, poly1)
<1>1. /\ moved2 \in Polys /\ Convex(moved2.points) /\ DOMAIN moved2.points = DOMAIN poly2.points
      /\ \A e \in DOMAIN poly2.points : Edge(moved2.points, e) = Edge(poly2.points, e)
    BY Translated, TranslatedConvex
<1>2. /\ hit \in Hits
      /\ \A h \in hits : h.over # 0 /\ ~Shorter(h, hit)
    BY CollisionIsShortest
<1> DEFINE Separates(b) == Before(Points(poly1), Points(moved2), b)
<1>3. \/ \E e \in DOMAIN poly1.points : \E b \in PerpsOf(Edge(poly1.points, e)) : Separates(b)
      \/ \E e \in DOMAIN poly2.points : \E b \in PerpsOf(Edge(poly2.points, e)) : Separates(b)
    <2> HIDE DEF moved2
    <2>1. ~InteriorsMeet(poly1, moved2)
        BY DEF moved2
    <2> QED BY <1>1, <2>1, SeparatingEdge
<1>4. \E b \in Vector : \E h \in hits : /\ Separates(b) /\ Norm2(h.axis) = Norm2(b)
                                        /\ h.over = IntersectLength(Project(poly1, b), Project(poly2, b))
    <2> HIDE DEF moved2, Separates
    <2>1. CASE \E e \in DOMAIN poly1.points : \E b \in PerpsOf(Edge(poly1.points, e)) : Separates(b)
        <3>1. PICK e \in DOMAIN poly1.points : \E b \in PerpsOf(Edge(poly1.points, e)) : Separates(b)
            BY <2>1
        <3>2. PICK b \in PerpsOf(Edge(poly1.points, e)) : Separates(b)
            BY <3>1
        <3> QED BY <3>2, HitBound
    <2>2. CASE \E e \in DOMAIN poly2.points : \E b \in PerpsOf(Edge(poly2.points, e)) : Separates(b)
        <3>1. PICK e \in DOMAIN poly2.points : \E b \in PerpsOf(Edge(poly2.points, e)) : Separates(b)
            BY <2>2
        <3>2. PICK b \in PerpsOf(Edge(poly2.points, e)) : Separates(b)
            BY <3>1
        <3> QED BY <3>2, HitBound
    <2> QED BY <1>3, <2>1, <2>2
<1>5. PICK b \in Vector, h \in hits : /\ Separates(b) /\ Norm2(h.axis) = Norm2(b)
                                      /\ h.over = IntersectLength(Project(poly1, b), Project(poly2, b))
    <2> HIDE DEF hits, Separates, moved2
    <2> QED BY <1>4
<1> HIDE DEF hits
<1> DEFINE o == h.over
           d == Dot(t, b)
           v == hit.over
           m == Norm2(t)
           n == Norm2(b)
           k == Norm2(hit.axis)
<1>6. o \in Int /\ 0 <= o /\ o <= d /\ o # 0
    BY <1>2, <1>5, ShareOfTranslation
<1>7. d \in Int /\ m \in Int /\ n \in Int /\ d * d <= m * n
    BY Cauchy, VectorSums
<1>8. v \in Int /\ k \in Int /\ k > 0
    BY <1>2, NormPositive DEF Hits
<1>9. b # Zero
    <2> SUFFICES ASSUME b = Zero PROVE FALSE
        OBVIOUS
    <2>1. d = 0
        BY VectorPairs DEF Dot, Zero
    <2> HIDE DEF o, d
    <2> QED BY <1>6, <2>1
<1>10. n > 0
    BY <1>9, NormPositive
<1>11. ~(o * o * k < v * v * n)
    BY <1>2, <1>5 DEF Shorter
<1>12. m * k < v * v
    OBVIOUS
<1> HIDE DEF o, d, v, m, n, k
<1>13. v * v * n <= o * o * k
    <2> DEFINE p == o * o * k
               q == v * v * n
    <2>1. p \in Int /\ q \in Int /\ ~(p < q)
        BY <1>6, <1>7, <1>8, <1>11
    <2> HIDE DEF p, q
    <2>2. q <= p
        BY <2>1
    <2> QED BY <2>2 DEF p, q
<1>14. v * v <= m * k
    BY <1>6, <1>7, <1>8, <1>10, <1>13, NotShorter
<1> DEFINE p == m * k
           q == v * v
<1>15. p \in Int /\ q \in Int /\ p < q /\ q <= p
    BY <1>7, <1>8, <1>12, <1>14
<1> HIDE DEF p, q
<1> QED BY <1>15

\* What scaling does.
LEMMA ScaledType ==
    ASSUME NEW poly \in Polys, Convex(poly.points), NEW k \in Int, k > 0
    PROVE  /\ Scaled(poly, k) \in Polys /\ Convex(Scaled(poly, k).points)
           /\ Points(Scaled(poly, k)) = {Times(v, k) : v \in Points(poly)}
<1> DEFINE P == poly.points
           R == [e \in DOMAIN P |-> Times(P[e], k)]
<1>1. Scaled(poly, k) = [centroid |-> Times(poly.centroid, k), points |-> R]
    BY DEF Scaled, Mapped
<1>2. P \in Seq(Vector) /\ P # <<>> /\ Times(poly.centroid, k) \in Vector
    BY VectorProducts DEF Polys
<1>3. /\ DOMAIN R = DOMAIN P /\ \A i \in DOMAIN P : R[i] = Times(P[i], k) /\ R[i] \in Vector /\ P[i] \in Vector
    <2>1. \A i \in DOMAIN P : P[i] \in Vector
        BY <1>2
    <2> QED BY <2>1, VectorProducts
<1>4. R \in Seq(Vector) /\ R # <<>>
    <2>1. DOMAIN P = 1 .. Len(P) /\ Len(P) \in Nat /\ 1 \in DOMAIN P
        BY <1>2
    <2>2. R \in [1 .. Len(P) -> Vector]
        BY <1>3, <2>1
    <2> HIDE DEF R
    <2> QED BY <1>3, <2>1, <2>2
<1>5. Scaled(poly, k) \in Polys
    <2> HIDE DEF R
    <2> QED BY <1>1, <1>2, <1>4 DEF Polys
<1>6. Convex(P)
    OBVIOUS
<1> DEFINE c == k * k
<1>7. Convex(R)
    <2> HIDE DEF P, R
    <2>1. c \in Int /\ c > 0
        BY SquarePositive
    <2>2. \A e \in DOMAIN P : NextIndex(P, e) \in DOMAIN P
        BY <1>2, <1>6, NextIndexFacts DEF Convex
    <2>3. ASSUME NEW e \in DOMAIN P, NEW i \in DOMAIN P
          PROVE  Cross(Minus(R[NextIndex(P, e)], R[e]), Minus(R[i], R[e]))
                    = c * Cross(Minus(P[NextIndex(P, e)], P[e]), Minus(P[i], P[e]))
        <3> DEFINE x == Minus(P[NextIndex(P, e)], P[e])
                   y == Minus(P[i], P[e])
        <3>1. x \in Vector /\ y \in Vector
            BY <1>3, <2>2, VectorSums
        <3>2. Minus(R[NextIndex(P, e)], R[e]) = Times(x, k) /\ Minus(R[i], R[e]) = Times(y, k)
            BY <1>3, <2>2, SameWay
        <3> HIDE DEF x, y
        <3>3. Cross(Times(x, k), Times(y, k)) = (k * k) * Cross(x, y)
            BY <3>1, SameWay
        <3> QED BY <3>2, <3>3 DEF x, y
    <2> HIDE DEF c
    <2> QED BY <1>2, <1>3, <1>4, <1>6, <2>1, <2>3, ConvexKept
<1>8. Points(Scaled(poly, k)) = {Times(v, k) : v \in Points(poly)}
    BY <1>1 DEF Points, Range
<1> QED BY <1>1, <1>5, <1>7, <1>8

\* The length of what find_collision answers is the overlap along its direction.
LEMMA HitIsOverlap ==
    ASSUME NEW poly1 \in Polys, NEW poly2 \in Polys,
           NEW hit, hit = FindCollision(poly1, poly2), hit # None
    PROVE  /\ hit.axis \in Vector /\ hit.axis # Zero /\ hit.over # 0
           /\ hit.over = IntersectLength(Project(poly1, hit.axis), Project(poly2, hit.axis))
<1>1. /\ hit \in Hits
      /\ \E h \in EdgeHits(poly1, poly2) \cup EdgeHits(poly2, poly1) :
            hit.over = h.over /\ hit.axis \in {h.axis, Opposite(h.axis)}
      /\ \A h \in EdgeHits(poly1, poly2) \cup EdgeHits(poly2, poly1) : h.over # 0
    BY CollisionIsShortest
<1>2. PICK h \in EdgeHits(poly1, poly2) \cup EdgeHits(poly2, poly1) :
            hit.over = h.over /\ hit.axis \in {h.axis, Opposite(h.axis)}
    BY <1>1
<1>3. /\ h.axis \in Vector
      /\ \/ h.over = IntersectLength(Project(poly1, h.axis), Project(poly2, h.axis))
         \/ h.over = IntersectLength(Project(poly2, h.axis), Project(poly1, h.axis))
    <2>1. CASE h \in EdgeHits(poly1, poly2)
        <3>1. PICK e \in DOMAIN poly1.points : h = HitOn(poly1, poly2, e)
            BY <2>1 DEF EdgeHits
        <3>2. h.axis \in Vector
            BY <3>1, HitType
        <3> QED BY <3>1, <3>2 DEF HitOn
    <2>2. CASE h \in EdgeHits(poly2, poly1)
        <3>1. PICK e \in DOMAIN poly2.points : h = HitOn(poly2, poly1, e)
            BY <2>2 DEF EdgeHits
        <3>2. h.axis \in Vector
            BY <3>1, HitType
        <3> QED BY <3>1, <3>2 DEF HitOn
    <2> QED BY <2>1, <2>2
<1>4. h.over = IntersectLength(Project(poly1, h.axis), Project(poly2, h.axis))
    <2>1. /\ Project(poly1, h.axis).lo <= Project(poly1, h.axis).hi
          /\ Project(poly2, h.axis).lo <= Project(poly2, h.axis).hi
        BY <1>3, ShadowOrder
    <2>2. IntersectLength(Project(poly1, h.axis), Project(poly2, h.axis))
            = IntersectLength(Project(poly2, h.axis), Project(poly1, h.axis))
        BY <1>3, <2>1, ProjectType, OverlapBound
    <2> QED BY <1>3, <2>2
<1>5. hit.over = IntersectLength(Project(poly1, hit.axis), Project(poly2, hit.axis))
    <2>1. CASE hit.axis = h.axis
        BY <1>2, <1>4, <2>1
    <2>2. CASE hit.axis = Opposite(h.axis)
        BY <1>2, <1>3, <1>4, <2>2, OppositeOverlap
    <2> QED BY <1>2, <2>1, <2>2
<1> QED BY <1>1, <1>2, <1>5 DEF Hits

\* Moved by what find_collision answers, the second polygon has left the first one, unless
\* one of them starts before and ends after the other along it.
LEMMA HitSeparates ==
    ASSUME NEW poly1 \in Polys, NEW poly2 \in Polys, Convex(poly1.points), Convex(poly2.points),
           NEW hit, hit = FindCollision(poly1, poly2), hit # None,
           Lined(poly1, poly2, hit.axis)
    PROVE  ~MeetAfter(poly1, poly2, hit)
<1> DEFINE a == hit.axis
           o == hit.over
           k == Norm2(a)
           i == Project(poly1, a)
           j == Project(poly2, a)
           t == Times(a, o)
           big1 == Scaled(poly1, k)
           big2 == Translate(Scaled(poly2, k), t)
<1>1. a \in Vector /\ a # Zero /\ o # 0 /\ o = IntersectLength(i, j)
    BY HitIsOverlap
<1>2. k \in Int /\ k > 0
    <2> HIDE DEF a
    <2> QED BY <1>1, NormPositive
<1>3. /\ i.lo \in Int /\ i.hi \in Int /\ i.lo <= i.hi
      /\ j.lo \in Int /\ j.hi \in Int /\ j.lo <= j.hi
    BY <1>1, ProjectType, ShadowOrder
<1>4. o \in Int /\ o = i.hi - j.lo
    <2>1. i.lo <= j.lo /\ i.hi <= j.hi
        BY DEF Lined
    <2> HIDE DEF a, o, i, j
    <2> QED BY <1>1, <1>3, <2>1, OverlapBound
<1>5. t \in Vector
    <2> HIDE DEF a, o
    <2> QED BY <1>1, <1>4, VectorProducts
<1>6. /\ big1 \in Polys /\ Convex(big1.points) /\ Points(big1) = {Times(v, k) : v \in Points(poly1)}
      /\ Scaled(poly2, k) \in Polys /\ Points(Scaled(poly2, k)) = {Times(v, k) : v \in Points(poly2)}
    <2> HIDE DEF k
    <2> QED BY <1>2, ScaledType
<1>7. big2 \in Polys /\ Points(big2) = {Plus(v, t) : v \in Points(Scaled(poly2, k))}
    <2> HIDE DEF k, t
    <2> QED BY <1>5, <1>6, Translated
<1>8. ASSUME NEW v \in Points(poly1), NEW w \in Points(poly2)
      PROVE  Dot(Times(v, k), a) <= Dot(Plus(Times(w, k), t), a)
    <2> DEFINE p == Dot(v, a)
               q == Dot(w, a)
    <2>1. v \in Vector /\ w \in Vector
        BY PointsOf
    <2> HIDE DEF k
    <2>2. p \in Int /\ q \in Int /\ p <= i.hi /\ j.lo <= q
        <3> HIDE DEF a
        <3> QED BY <1>1, <2>1, ProjectType, VectorSums DEF Points
    <2>3. Dot(Times(v, k), a) = k * p
        <3> HIDE DEF a
        <3> QED BY <1>1, <1>2, <2>1, SameWay
    <2>4. Dot(Plus(Times(w, k), t), a) = k * q + o * k
        <3>1. Times(w, k) \in Vector
            BY <1>2, <2>1, VectorProducts
        <3>2. Dot(Plus(Times(w, k), t), a) = Dot(Times(w, k), a) + Dot(t, a)
            <4> HIDE DEF a, t
            <4> QED BY <1>1, <1>5, <3>1, SameWay
        <3>3. Dot(Times(w, k), a) = k * q
            <4> HIDE DEF a
            <4> QED BY <1>1, <1>2, <2>1, SameWay
        <3>4. Dot(t, a) = o * Dot(a, a)
            <4> HIDE DEF a, o
            <4> QED BY <1>1, <1>4, SameWay
        <3> QED BY <3>2, <3>3, <3>4 DEF k, Norm2
    <2> HIDE DEF a, o, i, j, p, q
    <2>5. p <= q + o
        BY <1>3, <1>4, <2>2
    <2>6. (q + o) * k >= p * k
        BY <1>2, <1>4, <2>2, <2>5, Monotone
    <2>7. k * p <= k * q + o * k
        BY <1>2, <1>4, <2>2, <2>6
    <2> QED BY <2>3, <2>4, <2>7 DEF a
<1>9. Before(Points(big1), Points(big2), a)
    <2> HIDE DEF a, k, t, big1, big2
    <2> QED BY <1>6, <1>7, <1>8 DEF Before
<1>10. ~InteriorsMeet(big1, big2)
    <2> HIDE DEF a, big1, big2
    <2> QED BY <1>1, <1>6, <1>7, <1>9, BeforeShadows, ConvexIsSolid, ApartOn
<1> QED BY <1>10 DEF MeetAfter

\* What find_collision answers for two convex polygons that overlap: no shorter
\* translation parts them, and this one does if neither starts before and ends after the
\* other along it.  If one does, the answer may be too short, and nothing is said of that.
THEOREM CollisionIsMinimal ==
    ASSUME NEW poly1 \in Polys, NEW poly2 \in Polys, Convex(poly1.points), Convex(poly2.points),
           FindCollision(poly1, poly2) # None
    PROVE  IsMtv(poly1, poly2, FindCollision(poly1, poly2))
<1> DEFINE hit == FindCollision(poly1, poly2)
<1>1. Dot(Minus(poly2.centroid, poly1.centroid), hit.axis) >= 0
    BY CollisionIsShortest
<1>2. Lined(poly1, poly2, hit.axis) => ~MeetAfter(poly1, poly2, hit)
    BY HitSeparates
<1>3. Within \subseteq Vector
    BY SpanAssumption DEF Within, Vector
<1>4. \A t \in Within : Norm2(t) * Norm2(hit.axis) < hit.over * hit.over
                            => InteriorsMeet(poly1, Translate(poly2, t))
    BY <1>3, NoneShorter
<1> HIDE DEF hit
<1>5. IsMtv(poly1, poly2, hit)
    BY <1>1, <1>2, <1>4 DEF IsMtv
<1> QED BY <1>5 DEF hit

\* Quarter turns, and what they keep.
LEMMA Turned ==
    ASSUME NEW turns \in 0 .. 3, NEW x \in Vector, NEW y \in Vector, NEW z \in Vector
    PROVE  /\ Rotate(x, turns) \in Vector /\ RotateRelative(x, turns, z) \in Vector
           /\ Minus(RotateRelative(x, turns, z), RotateRelative(y, turns, z)) = Rotate(Minus(x, y), turns)
           /\ Cross(Rotate(x, turns), Rotate(y, turns)) = Cross(x, y)
<1> DEFINE c == Cosine(turns)
           s == Sine(turns)
           x1 == x[1]
           x2 == x[2]
           y1 == y[1]
           y2 == y[2]
           z1 == z[1]
           z2 == z[2]
<1>1. c \in Int /\ s \in Int /\ c * c + s * s = 1
    <2>1. 0 % 4 = 0 /\ 1 % 4 = 1 /\ 2 % 4 = 2 /\ 3 % 4 = 3
        OBVIOUS
    <2>2. turns = 0 \/ turns = 1 \/ turns = 2 \/ turns = 3
        OBVIOUS
    <2>3. (c = 1 /\ s = 0) \/ (c = 0 /\ s = 1) \/ (c = -1 /\ s = 0) \/ (c = 0 /\ s = -1)
        BY <2>1, <2>2 DEF Cosine, Sine
    <2> HIDE DEF c, s
    <2> QED BY <2>3
<1>2. /\ x1 \in Int /\ x2 \in Int /\ y1 \in Int /\ y2 \in Int /\ z1 \in Int /\ z2 \in Int
    BY VectorPairs
<1>3. \A v : Rotate(v, turns) = <<v[1] * c - v[2] * s, v[1] * s + v[2] * c>>
    BY DEF Rotate
<1> HIDE DEF c, s
<1>4. \A v \in Vector : Rotate(v, turns) \in Vector
    <2> TAKE v \in Vector
    <2>1. v[1] \in Int /\ v[2] \in Int
        BY VectorPairs
    <2> QED BY <1>1, <1>3, <2>1 DEF Vector
<1>5. Minus(RotateRelative(x, turns, z), RotateRelative(y, turns, z)) = Rotate(Minus(x, y), turns)
    <2>1. /\ RotateRelative(x, turns, z) = <<(x1 - z1) * c - (x2 - z2) * s + z1, (x1 - z1) * s + (x2 - z2) * c + z2>>
          /\ RotateRelative(y, turns, z) = <<(y1 - z1) * c - (y2 - z2) * s + z1, (y1 - z1) * s + (y2 - z2) * c + z2>>
          /\ Rotate(Minus(x, y), turns) = <<(x1 - y1) * c - (x2 - y2) * s, (x1 - y1) * s + (x2 - y2) * c>>
        BY <1>3 DEF RotateRelative, Minus, Plus
    <2> HIDE DEF x1, x2, y1, y2, z1, z2
    <2>2. /\ ((x1 - z1) * c - (x2 - z2) * s + z1) - ((y1 - z1) * c - (y2 - z2) * s + z1)
                = (x1 - y1) * c - (x2 - y2) * s
          /\ ((x1 - z1) * s + (x2 - z2) * c + z2) - ((y1 - z1) * s + (y2 - z2) * c + z2)
                = (x1 - y1) * s + (x2 - y2) * c
        BY <1>1, <1>2
    <2> QED BY <2>1, <2>2 DEF Minus
<1>6. Cross(Rotate(x, turns), Rotate(y, turns)) = Cross(x, y)
    <2>1. /\ Rotate(x, turns) = <<x1 * c - x2 * s, x1 * s + x2 * c>>
          /\ Rotate(y, turns) = <<y1 * c - y2 * s, y1 * s + y2 * c>>
          /\ Cross(x, y) = x1 * y2 - y1 * x2
        BY <1>3 DEF Cross
    <2> HIDE DEF x1, x2, y1, y2
    <2>2. (x1 * c - x2 * s) * (y1 * s + y2 * c) - (y1 * c - y2 * s) * (x1 * s + x2 * c)
            = (c * c + s * s) * (x1 * y2 - y1 * x2)
        BY <1>1, <1>2
    <2>3. (c * c + s * s) * (x1 * y2 - y1 * x2) = x1 * y2 - y1 * x2
        BY <1>1, <1>2
    <2> QED BY <2>1, <2>2, <2>3 DEF Cross
<1>7. RotateRelative(x, turns, z) \in Vector
    <2>1. Minus(x, z) \in Vector
        BY VectorSums
    <2> QED BY <1>4, <2>1, VectorSums DEF RotateRelative
<1> QED BY <1>4, <1>5, <1>6, <1>7

\* Turned polygons are polygons, and stay convex.
LEMMA TurnedConvex ==
    ASSUME NEW poly \in Polys, Convex(poly.points), NEW turns \in 0 .. 3, NEW center \in Vector
    PROVE  Turn(poly, turns, center) \in Polys /\ Convex(Turn(poly, turns, center).points)
<1> DEFINE P == poly.points
           R == [e \in DOMAIN P |-> RotateRelative(P[e], turns, center)]
<1>1. Turn(poly, turns, center) = [poly EXCEPT !.points = R]
    BY DEF Turn, Mapped
<1>2. P \in Seq(Vector) /\ P # <<>>
    BY PointsOf
<1>3. /\ DOMAIN R = DOMAIN P
      /\ \A i \in DOMAIN P : R[i] = RotateRelative(P[i], turns, center) /\ R[i] \in Vector /\ P[i] \in Vector
    <2>1. \A i \in DOMAIN P : P[i] \in Vector
        BY <1>2
    <2> QED BY <2>1, Turned
<1>4. R \in Seq(Vector) /\ R # <<>>
    <2>1. DOMAIN P = 1 .. Len(P) /\ Len(P) \in Nat /\ 1 \in DOMAIN P
        BY <1>2
    <2>2. R \in [1 .. Len(P) -> Vector]
        BY <1>3, <2>1
    <2> HIDE DEF R
    <2> QED BY <1>3, <2>1, <2>2
<1>5. Turn(poly, turns, center) \in Polys /\ Turn(poly, turns, center).points = R
    <2> HIDE DEF R
    <2> QED BY <1>1, <1>4 DEF Polys
<1>6. Convex(P)
    OBVIOUS
<1> DEFINE c == 1
<1>7. Convex(R)
    <2> HIDE DEF P, R
    <2>1. c \in Int /\ c > 0
        OBVIOUS
    <2>2. \A e \in DOMAIN P : NextIndex(P, e) \in DOMAIN P
        BY <1>2, <1>6, NextIndexFacts DEF Convex
    <2>3. ASSUME NEW e \in DOMAIN P, NEW i \in DOMAIN P
          PROVE  Cross(Minus(R[NextIndex(P, e)], R[e]), Minus(R[i], R[e]))
                    = c * Cross(Minus(P[NextIndex(P, e)], P[e]), Minus(P[i], P[e]))
        <3> DEFINE x == Minus(P[NextIndex(P, e)], P[e])
                   y == Minus(P[i], P[e])
        <3>1. x \in Vector /\ y \in Vector
            BY <1>3, <2>2, VectorSums
        <3>2. Minus(R[NextIndex(P, e)], R[e]) = Rotate(x, turns) /\ Minus(R[i], R[e]) = Rotate(y, turns)
            <4>1. \A k, l \in DOMAIN P : Minus(R[k], R[l]) = Rotate(Minus(P[k], P[l]), turns)
                <5> TAKE k, l \in DOMAIN P
                <5>1. P[k] \in Vector /\ P[l] \in Vector
                    BY <1>3
                <5>2. Minus(RotateRelative(P[k], turns, center), RotateRelative(P[l], turns, center))
                        = Rotate(Minus(P[k], P[l]), turns)
                    BY <5>1, Turned
                <5> QED BY <1>3, <5>2
            <4> QED BY <2>2, <4>1
        <3> HIDE DEF x, y
        <3>3. Cross(Rotate(x, turns), Rotate(y, turns)) = Cross(x, y) /\ Cross(x, y) \in Int
            BY <3>1, Turned, VectorSums
        <3> QED BY <3>2, <3>3 DEF x, y
    <2> HIDE DEF c
    <2> QED BY <1>2, <1>3, <1>4, <1>6, <2>1, <2>3, ConvexKept
<1> QED BY <1>5, <1>7

\* The polygons that are put to the test.
LEMMA PlacedConvex ==
    ASSUME FamilyAssumption, NEW points \in Family
    PROVE  /\ Polygon(points) \in Polys /\ Convex(Polygon(points).points)
           /\ \A offset \in Vector, turns \in 0 .. 3 :
                Placed(points, offset, turns) \in Polys /\ Convex(Placed(points, offset, turns).points)
<1>1. points \in Seq(Vector) /\ Convex(points) /\ Shoelace(points) # 0
    BY FamilyAssumption DEF Vector
<1>2. Polygon(points) \in Polys /\ Polygon(points).points = points
    <2>1. points # <<>>
        BY <1>1 DEF Convex
    <2> QED BY <1>1, <2>1, CentroidType DEF Polygon, Polys
<1>3. ASSUME NEW offset \in Vector, NEW turns \in 0 .. 3
      PROVE  Placed(points, offset, turns) \in Polys /\ Convex(Placed(points, offset, turns).points)
    <2> DEFINE poly == Translate(Polygon(points), offset)
    <2>1. poly \in Polys /\ Convex(poly.points)
        BY <1>1, <1>2, TranslateType, TranslatedConvex
    <2>2. Placed(points, offset, turns) = Turn(poly, turns, poly.centroid)
        BY DEF Placed
    <2> HIDE DEF poly
    <2>3. poly.centroid \in Vector
        BY <2>1 DEF Polys
    <2> QED BY <2>1, <2>2, <2>3, TurnedConvex
<1> QED BY <1>1, <1>2, <1>3

\* For every family of convex polygons, and wherever they are put: find_collision
\* answers exactly when the interiors meet, with the minimum translation vector.
THEOREM TranslationIsMinimal == ShapesSpec => []MinimumTranslation
<1> DEFINE TestInv ==
        still # NoPolygon => /\ still \in Polys /\ Convex(still.points)
                             /\ moved \in Polys /\ Convex(moved.points)
<1>1. Untested \/ Tested => TestInv
    <2>1. Untested => TestInv
        BY DEF Untested
    <2>2. ASSUME Tested PROVE TestInv
        <3>1. PICK points \in Family : still = Polygon(points)
            BY <2>2 DEF Tested
        <3>2. PICK others \in Family, offset \in Within, turns \in 0 .. 3 :
                moved = Placed(others, offset, turns)
            BY <2>2 DEF Tested
        <3>3. offset \in Vector
            BY SpanAssumption DEF Within, Vector
        <3> QED BY <3>1, <3>2, <3>3, FamilyAssumption, PlacedConvex
    <2> QED BY <2>1, <2>2
<1>2. TestInv /\ [FALSE]_shapeVars => TestInv'
    BY DEF shapeVars, NoPolygon
<1>3. TestInv => MinimumTranslation
    <2> SUFFICES ASSUME TestInv, still # NoPolygon
                 PROVE  LET hit == FindCollision(still, moved)
                        IN  /\ (hit # None) <=> InteriorsMeet(still, moved)
                            /\ hit # None => IsMtv(still, moved, hit)
        BY DEF MinimumTranslation
    <2> QED BY CollisionIsOverlap, CollisionIsMinimal
<1> QED BY <1>1, <1>2, <1>3, PTL DEF ShapesSpec

-----------------------------------------------------------------------------
(* Momentum                                                                *)

\* The sum of a function, taken from one subset to the next.
LEMMA SumSteps ==
    ASSUME NEW A, IsFiniteSet(A), NEW v \in [A -> Vector]
    PROVE  \E g \in [SUBSET A -> Vector] :
               /\ SumOf(v) = g[A]
               /\ \A s \in SUBSET A :
                    g[s] = IF s = {} THEN Zero
                           ELSE Plus(v[CHOOSE x \in s : TRUE], g[s \ {CHOOSE x \in s : TRUE}])
<1> DEFINE S == A
           picked(s) == CHOOSE x \in s : TRUE
           One(i, a) == Plus(v[i], a)
           Step(h, s) == IF s = {} THEN Zero ELSE One(picked(s), h[s \ {picked(s)}])
           iter == CHOOSE h : h = [s \in SUBSET S |-> Step(h, s)]
           c == [s \in SUBSET S |-> picked(s)]
           G == [i \in S |-> [a \in Vector |-> One(i, a)]]
           T == {s \in SUBSET S : iter[s] \in Vector}
<1>1. SumOf(v) = iter[S]
    BY DEF SumOf, FoldFunction, FoldFunctionOnSet, MapThenFoldSet
<1>2. IsFiniteSet(S) /\ \A s \in SUBSET S : s # {} => picked(s) \in s
    OBVIOUS
<1>3. Zero \in Vector /\ \A i \in S, a \in Vector : One(i, a) \in Vector
    BY VectorSums
<1> HIDE DEF One
<1>4. \E h : h = [s \in SUBSET S |-> Step(h, s)]
    <2>1. Chooses(c, S) /\ Steps(G, S, Vector)
        BY <1>2, <1>3 DEF Chooses, Steps
    <2>2. PICK h : Folds(h, c, Zero, G, S, Vector)
        <3> HIDE DEF S, c, G
        <3> QED BY <1>2, <1>3, <2>1, FoldExists
    <2>3. \A s \in SUBSET S : Iter(c, Zero, G, h, s) = Step(h, s)
        <3> TAKE s \in SUBSET S
        <3>1. CASE s = {}
            BY <3>1 DEF Iter
        <3>2. CASE s # {}
            <4>1. picked(s) \in S /\ h[s \ {picked(s)}] \in Vector
                BY <1>2, <2>2, <3>2 DEF Folds
            <4>2. c[s] = picked(s)
                OBVIOUS
            <4>3. G[picked(s)][h[s \ {picked(s)}]] = One(picked(s), h[s \ {picked(s)}])
                BY <4>1
            <4> HIDE DEF S, G, c
            <4> QED BY <3>2, <4>2, <4>3 DEF Iter
        <3> QED BY <3>1, <3>2
    <2>4. h = [s \in SUBSET S |-> Step(h, s)]
        <3> HIDE DEF Step, S, c, G
        <3> QED BY <2>2, <2>3 DEF Folds
    <2> QED BY <2>4
<1>5. iter = [s \in SUBSET S |-> Step(iter, s)]
    <2> HIDE DEF Step
    <2> QED BY <1>4
<1>6. Grows(T, S)
    <2> SUFFICES ASSUME NEW s \in SUBSET S, \A x \in s : s \ {x} \in T
                 PROVE  iter[s] \in Vector
        BY DEF Grows
    <2>1. iter[s] = Step(iter, s)
        <3> HIDE DEF iter, Step
        <3> QED BY <1>5
    <2> HIDE DEF iter
    <2>2. CASE s = {}
        BY <1>3, <2>1, <2>2
    <2>3. CASE s # {}
        <3>1. picked(s) \in S /\ iter[s \ {picked(s)}] \in Vector
            BY <1>2, <2>3
        <3> HIDE DEF S
        <3> QED BY <1>3, <2>1, <2>3, <3>1
    <2> QED BY <2>2, <2>3
<1>7. iter \in [SUBSET S -> Vector]
    <2>1. \A s \in SUBSET S : iter[s] \in Vector
        <3>1. SUBSET S \subseteq T
            <4> HIDE DEF S, T
            <4> QED BY <1>2, <1>6, SubsetsUp
        <3> QED BY <3>1
    <2> HIDE DEF iter, Step
    <2> QED BY <1>5, <2>1
<1>8. \A s \in SUBSET S : iter[s] = Step(iter, s)
    <2> HIDE DEF iter, Step
    <2> QED BY <1>5
<1> HIDE DEF iter
<1> QED BY <1>1, <1>7, <1>8 DEF One

\* Sums of vectors may be taken in any order, and a difference is a sum.
LEMMA PlusMoves ==
    ASSUME NEW v \in Vector, NEW w \in Vector, NEW d \in Vector
    PROVE  /\ Plus(Plus(v, d), w) = Plus(Plus(v, w), d) /\ Plus(v, Plus(w, d)) = Plus(Plus(v, w), d)
           /\ Minus(v, d) = Plus(v, Opposite(d)) /\ Plus(Plus(v, d), Opposite(d)) = v
BY VectorPairs DEF Plus, Minus, Opposite

\* What is added to one body is added to the sum.
LEMMA SumAdded ==
    ASSUME NEW A, IsFiniteSet(A), NEW v \in [A -> Vector], NEW w \in [A -> Vector],
           NEW b \in A, NEW d \in Vector, w[b] = Plus(v[b], d), \A x \in A \ {b} : w[x] = v[x]
    PROVE  SumOf(v) \in Vector /\ SumOf(w) = Plus(SumOf(v), d)
<1>1. PICK g \in [SUBSET A -> Vector] :
        /\ SumOf(v) = g[A]
        /\ \A s \in SUBSET A :
             g[s] = IF s = {} THEN Zero ELSE Plus(v[CHOOSE x \in s : TRUE], g[s \ {CHOOSE x \in s : TRUE}])
    BY SumSteps
<1>2. PICK h \in [SUBSET A -> Vector] :
        /\ SumOf(w) = h[A]
        /\ \A s \in SUBSET A :
             h[s] = IF s = {} THEN Zero ELSE Plus(w[CHOOSE x \in s : TRUE], h[s \ {CHOOSE x \in s : TRUE}])
    BY SumSteps
<1> DEFINE T == {s \in SUBSET A : h[s] = IF b \in s THEN Plus(g[s], d) ELSE g[s]}
<1>3. ASSUME NEW s \in SUBSET A, \A x \in s : s \ {x} \in T
      PROVE  h[s] = IF b \in s THEN Plus(g[s], d) ELSE g[s]
    <2>1. CASE s = {}
        BY <1>1, <1>2, <2>1
    <2>2. CASE s # {}
        <3> DEFINE x == CHOOSE y \in s : TRUE
                   r == s \ {x}
        <3>1. x \in s /\ x \in A /\ r \in SUBSET A /\ g[r] \in Vector /\ v[x] \in Vector
            BY <2>2
        <3>2. g[s] = Plus(v[x], g[r]) /\ h[s] = Plus(w[x], h[r])
            BY <1>1, <1>2, <2>2
        <3>3. h[r] = IF b \in r THEN Plus(g[r], d) ELSE g[r]
            BY <1>3, <3>1
        <3>4. (b \in r) <=> (b \in s /\ b # x)
            OBVIOUS
        <3> HIDE DEF x, r
        <3>5. CASE b = x
            BY <3>1, <3>2, <3>3, <3>4, <3>5, PlusMoves
        <3>6. CASE b # x
            <4>1. w[x] = v[x]
                BY <3>1, <3>6
            <4> QED BY <3>1, <3>2, <3>3, <3>4, <3>6, <4>1, PlusMoves
        <3> QED BY <3>5, <3>6
    <2> QED BY <2>1, <2>2
<1>4. A \in T
    <2>1. Grows(T, A)
        BY <1>3 DEF Grows
    <2> HIDE DEF T
    <2>2. SUBSET A \subseteq T
        BY <2>1, SubsetsUp
    <2> QED BY <2>2
<1> QED BY <1>1, <1>2, <1>4

\* What one body gets and the other gives leaves the sum as it was.
LEMMA SumExchanged ==
    ASSUME NEW A, IsFiniteSet(A), NEW v \in [A -> Vector], NEW w \in [A -> Vector],
           NEW a \in A, NEW b \in A, a # b, NEW d \in Vector,
           w[a] = Plus(v[a], d), w[b] = Minus(v[b], d), \A x \in A \ {a, b} : w[x] = v[x]
    PROVE  SumOf(w) = SumOf(v)
<1> DEFINE u == [v EXCEPT ![a] = Plus(v[a], d)]
<1>1. u \in [A -> Vector] /\ u[a] = Plus(v[a], d) /\ \A x \in A \ {a} : u[x] = v[x]
    BY VectorSums
<1> HIDE DEF u
<1>2. SumOf(v) \in Vector /\ SumOf(u) = Plus(SumOf(v), d)
    BY <1>1, SumAdded
<1>3. Opposite(d) \in Vector /\ w[b] = Plus(u[b], Opposite(d)) /\ \A x \in A \ {b} : w[x] = u[x]
    <2>1. u[b] = v[b] /\ v[b] \in Vector /\ u[a] = w[a]
        BY <1>1
    <2>2. Opposite(d) \in Vector /\ Minus(v[b], d) = Plus(v[b], Opposite(d))
        BY <2>1, VectorSums, PlusMoves
    <2>3. \A x \in A \ {b} : w[x] = u[x]
        BY <1>1, <2>1
    <2> QED BY <2>1, <2>2, <2>3
<1>4. SumOf(w) = Plus(SumOf(u), Opposite(d))
    BY <1>1, <1>3, SumAdded
<1> QED BY <1>2, <1>4, PlusMoves

-----------------------------------------------------------------------------
(* The collider                                                            *)

\* What the collider passes from one pair to the next: if F holds, every shape is where
\* its body is, and the momentum is m.
Arena == [pos : [Alive -> Vector], vel : [Alive -> Vector], shape : [Alive -> Polys]]

World(F, m) ==
    {w \in Arena : /\ F => \A e \in Alive : w.pos[e] = w.shape[e].centroid
                   /\ SumOf(w.vel) = m}

\* A push moves a body and its shape alike.
LEMMA PushedStays ==
    ASSUME NEW F \in BOOLEAN, NEW m, NEW w \in World(F, m), NEW e \in Alive, NEW half \in Vector
    PROVE  Pushed(w, e, half) \in World(F, m)
<1> DEFINE pushed == Pushed(w, e, half)
           p == [w.pos EXCEPT ![e] = Plus(w.pos[e], half)]
           s == [w.shape EXCEPT ![e] = Translate(w.shape[e], half)]
<1>1. w \in Arena /\ SumOf(w.vel) = m /\ (F => \A x \in Alive : w.pos[x] = w.shape[x].centroid)
    BY DEF World
<1>2. w.pos \in [Alive -> Vector] /\ w.vel \in [Alive -> Vector] /\ w.shape \in [Alive -> Polys]
    BY <1>1 DEF Arena
<1>3. pushed \in Arena /\ pushed.pos = p /\ pushed.vel = w.vel /\ pushed.shape = s
    <2>1. p \in [Alive -> Vector] /\ s \in [Alive -> Polys]
        BY <1>2, VectorSums, TranslateType
    <2>2. pushed = [[w EXCEPT !.pos = p] EXCEPT !.shape = s]
        BY <1>1 DEF Pushed, Arena
    <2> HIDE DEF pushed, p, s
    <2> QED BY <1>1, <2>1, <2>2 DEF Arena
<1>4. ASSUME F, NEW x \in Alive PROVE p[x] = s[x].centroid
    <2>1. CASE x = e
        BY <1>1, <1>2, <1>4, <2>1, TranslateType
    <2>2. CASE x # e
        BY <1>1, <1>2, <1>4, <2>2
    <2> QED BY <2>1, <2>2
<1> HIDE DEF pushed, p, s
<1>5. pushed \in World(F, m)
    BY <1>1, <1>3, <1>4 DEF World
<1> QED BY <1>5 DEF pushed

\* What one body gets is taken from the other.
LEMMA ExchangedStays ==
    ASSUME IsFiniteSet(Alive), NEW F \in BOOLEAN, NEW m, NEW w \in World(F, m),
           NEW pair, Living(pair), NEW impulse \in Vector
    PROVE  Exchanged(w, pair, impulse) \in World(F, m)
<1> DEFINE a == pair[1]
           b == pair[2]
           v == [[w.vel EXCEPT ![a] = Plus(w.vel[a], impulse)] EXCEPT ![b] = Minus(w.vel[b], impulse)]
           exchanged == Exchanged(w, pair, impulse)
<1>1. w \in Arena /\ SumOf(w.vel) = m /\ (F => \A x \in Alive : w.pos[x] = w.shape[x].centroid)
    BY DEF World
<1>2. w.vel \in [Alive -> Vector] /\ a \in Alive /\ b \in Alive /\ a # b
    BY <1>1 DEF Arena, Living
<1>3. /\ v \in [Alive -> Vector] /\ v[a] = Plus(w.vel[a], impulse) /\ v[b] = Minus(w.vel[b], impulse)
      /\ \A x \in Alive \ {a, b} : v[x] = w.vel[x]
    BY <1>2, VectorSums
<1>4. exchanged = [w EXCEPT !.vel = v]
    BY <1>1, <1>2 DEF Exchanged, Arena
<1> HIDE DEF a, b, v, exchanged
<1>5. SumOf(v) = m
    BY <1>1, <1>2, <1>3, SumExchanged
<1>6. exchanged \in World(F, m)
    BY <1>1, <1>3, <1>4, <1>5 DEF World, Arena
<1> QED BY <1>6 DEF exchanged

\* A pair that collides or does not.
LEMMA CollidedStays ==
    ASSUME IsFiniteSet(Alive), NEW F \in BOOLEAN, NEW m, NEW w \in World(F, m), NEW pair
    PROVE  Collided(w, pair) \in World(F, m)
<1> DEFINE hit == FindCollision(w.shape[pair[1]], w.shape[pair[2]])
           push == Over(Times(hit.axis, hit.over), Norm2(hit.axis))
           ua == Dot(w.vel[pair[1]], hit.axis)
           ub == Dot(w.vel[pair[2]], hit.axis)
           impulse == Over(Times(hit.axis, ub - ua), Norm2(hit.axis))
           half == Over(push, 2)
           rest == Minus(push, half)
           apart == Pushed(Pushed(w, pair[1], Opposite(half)), pair[2], rest)
<1>1. Collided(w, pair) = IF ~Living(pair) \/ hit = None THEN w ELSE Exchanged(apart, pair, impulse)
    BY DEF Collided
<1>2. ASSUME Living(pair), hit # None
      PROVE  Exchanged(apart, pair, impulse) \in World(F, m)
    <2>1. /\ w.vel \in [Alive -> Vector] /\ w.shape \in [Alive -> Polys]
          /\ pair[1] \in Alive /\ pair[2] \in Alive
        BY <1>2 DEF World, Arena, Living
    <2>2. hit \in Hits
        <3>1. w.shape[pair[1]] \in Polys /\ w.shape[pair[2]] \in Polys
            BY <2>1
        <3> QED BY <1>2, <3>1, CollisionIsShortest
    <2> HIDE DEF hit
    <2>3. hit.axis \in Vector /\ hit.axis # Zero /\ hit.over \in Int
        BY <2>2 DEF Hits
    <2>4. Norm2(hit.axis) \in Int /\ Norm2(hit.axis) # 0
        BY <2>3, NormPositive
    <2>5. ua \in Int /\ ub \in Int
        BY <2>1, <2>3, VectorSums
    <2> HIDE DEF ua, ub
    <2>6. push \in Vector /\ impulse \in Vector
        <3>1. ub - ua \in Int
            BY <2>5
        <3>2. Times(hit.axis, hit.over) \in Vector /\ Times(hit.axis, ub - ua) \in Vector
            BY <2>3, <3>1, VectorProducts
        <3> QED BY <2>4, <3>2, VectorProducts
    <2> HIDE DEF push, impulse
    <2>7. Opposite(half) \in Vector /\ rest \in Vector
        <3>1. half \in Vector
            BY <2>6, VectorProducts
        <3> QED BY <2>6, <3>1, VectorSums
    <2> HIDE DEF half, rest
    <2>8. apart \in World(F, m)
        <3>1. Pushed(w, pair[1], Opposite(half)) \in World(F, m)
            BY <2>1, <2>7, PushedStays
        <3> QED BY <2>1, <2>7, <3>1, PushedStays
    <2> HIDE DEF apart
    <2> QED BY <1>2, <2>6, <2>8, ExchangedStays
<1> HIDE DEF hit, apart, impulse
<1> QED BY <1>1, <1>2

\* What is left of the pairs are pairs that there were.
LEMMA RetainedType ==
    ASSUME NEW P, pairs \in Seq(P), NEW e
    PROVE  Retained(e) \in Seq(P)
<1> DEFINE S == 1 .. Len(pairs)
           One(i, a) == IF e \in {pairs[i][1], pairs[i][2]} THEN a ELSE Append(a, pairs[i])
           Step(h, s) == IF s = {} THEN <<>> ELSE One(Max(s), h[s \ {Max(s)}])
           iter == CHOOSE h : h = [s \in SUBSET S |-> Step(h, s)]
           c == [s \in SUBSET S |-> Max(s)]
           G == [i \in S |-> [a \in Seq(P) |-> One(i, a)]]
           T == {s \in SUBSET S : iter[s] \in Seq(P)}
<1>1. Retained(e) = iter[S]
    <2>1. DOMAIN pairs = S
        OBVIOUS
    <2> QED BY <2>1 DEF FoldLeft, MapThenFoldSet, Retained
<1>2. IsFiniteSet(S) /\ \A s \in SUBSET S : s # {} => Max(s) \in s
    <2>1. Len(pairs) \in Nat
        OBVIOUS
    <2> QED BY <2>1, LastFirst
<1>3. /\ <<>> \in Seq(P)
      /\ \A i \in S, a \in Seq(P) : One(i, a) \in Seq(P)
    <2>1. <<>> \in Seq(P)
        OBVIOUS
    <2>2. \A i \in S : pairs[i] \in P
        OBVIOUS
    <2> QED BY <2>1, <2>2
<1> HIDE DEF One
<1>4. \E h : h = [s \in SUBSET S |-> Step(h, s)]
    <2>1. Chooses(c, S) /\ Steps(G, S, Seq(P))
        BY <1>2, <1>3 DEF Chooses, Steps
    <2>2. PICK h : Folds(h, c, <<>>, G, S, Seq(P))
        <3> HIDE DEF S, c, G
        <3> QED BY <1>2, <1>3, <2>1, FoldExists
    <2>3. \A s \in SUBSET S : Iter(c, <<>>, G, h, s) = Step(h, s)
        <3> TAKE s \in SUBSET S
        <3>1. CASE s = {}
            BY <3>1 DEF Iter
        <3>2. CASE s # {}
            <4>1. Max(s) \in S /\ h[s \ {Max(s)}] \in Seq(P)
                BY <1>2, <2>2, <3>2 DEF Folds
            <4>2. c[s] = Max(s)
                OBVIOUS
            <4>3. G[Max(s)][h[s \ {Max(s)}]] = One(Max(s), h[s \ {Max(s)}])
                BY <4>1
            <4> HIDE DEF S, G, c
            <4> QED BY <3>2, <4>2, <4>3 DEF Iter
        <3> QED BY <3>1, <3>2
    <2>4. h = [s \in SUBSET S |-> Step(h, s)]
        <3> HIDE DEF Step, S, c, G
        <3> QED BY <2>2, <2>3 DEF Folds
    <2> QED BY <2>4
<1>5. iter = [s \in SUBSET S |-> Step(iter, s)]
    <2> HIDE DEF Step
    <2> QED BY <1>4
<1>6. Grows(T, S)
    <2> SUFFICES ASSUME NEW s \in SUBSET S, \A x \in s : s \ {x} \in T
                 PROVE  iter[s] \in Seq(P)
        BY DEF Grows
    <2>1. iter[s] = Step(iter, s)
        <3> HIDE DEF iter, Step
        <3> QED BY <1>5
    <2> HIDE DEF iter
    <2>2. CASE s = {}
        BY <1>3, <2>1, <2>2
    <2>3. CASE s # {}
        <3>1. Max(s) \in S /\ iter[s \ {Max(s)}] \in Seq(P)
            BY <1>2, <2>3
        <3> HIDE DEF S
        <3> QED BY <1>3, <2>1, <2>3, <3>1
    <2> QED BY <2>2, <2>3
<1>7. S \in T
    <2> HIDE DEF S, T
    <2> QED BY <1>2, <1>6, SubsetsUp
<1> QED BY <1>1, <1>7

-----------------------------------------------------------------------------
(* The order of a round                                                    *)

\* An order has every system, and has it once.
LEMMA OrderFacts ==
    ASSUME NEW o \in Orders
    PROVE  /\ o \in Seq(Systems) /\ Len(o) = 5 /\ DOMAIN o = 1 .. 5
           /\ \A i \in 1 .. 5, j \in 1 .. 5 : o[i] = o[j] => i = j
           /\ \A s \in Systems : Position(o, s) \in 1 .. 5 /\ o[Position(o, s)] = s
<1>1. IsFiniteSet(Systems) /\ Cardinality(Systems) = 5
    <2> DEFINE s1 == {"kine"}
               s2 == s1 \cup {"shape_kine"}
               s3 == s2 \cup {"edge_deflect"}
               s4 == s3 \cup {"collider"}
    <2>1. IsFiniteSet(s1) /\ Cardinality(s1) = 1
        BY FS_Singleton
    <2>2. IsFiniteSet(s2) /\ Cardinality(s2) = 2
        <3>1. "shape_kine" \notin s1
            OBVIOUS
        <3> HIDE DEF s1
        <3> QED BY <2>1, <3>1, FS_AddElement
    <2>3. IsFiniteSet(s3) /\ Cardinality(s3) = 3
        <3>1. "edge_deflect" \notin s2
            OBVIOUS
        <3> HIDE DEF s2
        <3> QED BY <2>2, <3>1, FS_AddElement
    <2>4. IsFiniteSet(s4) /\ Cardinality(s4) = 4
        <3>1. "collider" \notin s3
            OBVIOUS
        <3> HIDE DEF s3
        <3> QED BY <2>3, <3>1, FS_AddElement
    <2>5. "grav" \notin s4 /\ Systems = s4 \cup {"grav"}
        BY DEF Systems
    <2> HIDE DEF s4
    <2> QED BY <2>4, <2>5, FS_AddElement
<1> DEFINE n == Cardinality(Systems)
<1>2. o \in [1 .. n -> Systems] /\ \A i \in 1 .. n, j \in 1 .. n : i # j => o[i] # o[j]
    BY DEF Orders, SetToSeqs
<1>3. o \in Surjection(1 .. n, Systems)
    <2> HIDE DEF n
    <2>1. n \in Nat
        BY <1>1 DEF n
    <2>2. IsFiniteSet(1 .. n) /\ Cardinality(1 .. n) = n
        BY <2>1, FS_Interval
    <2>3. o \in Injection(1 .. n, Systems)
        BY <1>2 DEF Injection, IsInjective
    <2>4. Cardinality(1 .. n) = Cardinality(Systems)
        BY <2>2 DEF n
    <2> QED BY <1>1, <2>2, <2>3, <2>4, FS_Injection
<1>4. \A s \in Systems : Position(o, s) \in 1 .. 5 /\ o[Position(o, s)] = s
    <2> TAKE s \in Systems
    <2>1. \E i \in DOMAIN o : o[i] = s
        BY <1>2, <1>3 DEF Surjection
    <2> QED BY <1>1, <1>2, <2>1 DEF Position
<1>5. o \in Seq(Systems) /\ Len(o) = 5
    <2>1. n \in Nat
        BY <1>1
    <2>2. o \in Seq(Systems) /\ Len(o) = n
        <3> HIDE DEF n
        <3> QED BY <1>2, <2>1
    <2> QED BY <1>1, <2>2
<1> QED BY <1>1, <1>2, <1>4, <1>5

\* A round has every system once, and maintain() at its end.
LEMMA RoundFacts ==
    ASSUME order \in Built
    PROVE  /\ Round \in Seq(Turns) /\ Len(Round) = 6
           /\ \A i \in 1 .. 5 : Round[i] = order[i] /\ Round[i] \in Systems
           /\ \A i \in 1 .. 6, j \in 1 .. 6 : Round[i] = Round[j] => i = j
<1>1. /\ order \in Seq(Systems) /\ Len(order) = 5
      /\ \A i \in 1 .. 5, j \in 1 .. 5 : order[i] = order[j] => i = j
    <2>1. order \in Orders
        BY BuiltAssumption
    <2> QED BY <2>1, OrderFacts
<1> DEFINE last == "maintain"
<1>2. last \in Turns /\ last \notin Systems /\ order \in Seq(Turns)
    BY <1>1 DEF Systems, Turns
<1>3. Round = Append(order, last)
    BY DEF Round
<1> HIDE DEF last
<1>4. /\ Round \in Seq(Turns) /\ Len(Round) = 6 /\ Round[6] = last
      /\ \A i \in 1 .. 5 : Round[i] = order[i]
    <2>1. /\ Append(order, last) \in Seq(Turns) /\ Len(Append(order, last)) = Len(order) + 1
          /\ \A i \in 1 .. Len(order) : Append(order, last)[i] = order[i]
          /\ Append(order, last)[Len(order) + 1] = last
        BY <1>2, AppendProperties
    <2>2. Len(order) + 1 = 6
        BY <1>1
    <2> QED BY <1>1, <1>3, <2>1, <2>2
<1>5. \A i \in 1 .. 5 : Round[i] \in Systems
    <2>1. \A i \in 1 .. 5 : order[i] \in Systems
        BY <1>1
    <2> QED BY <1>4, <2>1
<1>6. ASSUME NEW i \in 1 .. 6, NEW j \in 1 .. 6, Round[i] = Round[j] PROVE i = j
    <2>1. CASE i # 6 /\ j # 6
        <3>1. i \in 1 .. 5 /\ j \in 1 .. 5
            BY <2>1
        <3> QED BY <1>1, <1>4, <1>6, <3>1
    <2>2. CASE i = 6 /\ j # 6
        <3>1. j \in 1 .. 5
            BY <2>2
        <3> QED BY <1>2, <1>4, <1>5, <1>6, <2>2, <3>1
    <2>3. CASE i # 6 /\ j = 6
        <3>1. i \in 1 .. 5
            BY <2>3
        <3> QED BY <1>2, <1>4, <1>5, <1>6, <2>3, <3>1
    <2> QED BY <2>1, <2>2, <2>3
<1> QED BY <1>4, <1>5, <1>6

\* A system is the first of what is left, and the next one is its successor in the order;
\* in an order that moves both alike, shape_kine comes after kine and nothing else.
LEMMA TurnFacts ==
    ASSUME RoundInv, NEW s \in Turns, Due(s), todo' = Tail(todo), order' = order
    PROVE  /\ RoundInv'
           /\ Halfway <=> s = "shape_kine"
           /\ MovesAlike => (Halfway' <=> s = "kine")
           /\ MovesAlike' = MovesAlike
<1>1. PICK n \in 0 .. 6 : Len(todo) = n /\ \A i \in 1 .. n : todo[i] = Round[6 - n + i]
    BY DEF RoundInv
<1>2. todo \in Seq(Turns) /\ todo # <<>> /\ Head(todo) = s /\ order \in Built
    BY DEF RoundInv, Due
<1>3. n \in 1 .. 6 /\ todo[1] = s /\ Round[7 - n] = s
    <2>1. n > 0 /\ Head(todo) = todo[1]
        BY <1>1, <1>2
    <2>2. todo[1] = Round[6 - n + 1] /\ 6 - n + 1 = 7 - n
        BY <1>1, <2>1
    <2> QED BY <1>1, <1>2, <2>1, <2>2
<1>4. todo' \in Seq(Turns) /\ Len(todo') = n - 1 /\ \A i \in 1 .. (n - 1) : todo'[i] = Round[6 - (n - 1) + i]
    <2>1. todo' \in Seq(Turns) /\ Len(todo') = n - 1
        BY <1>1, <1>2, <1>3
    <2>2. ASSUME NEW i \in 1 .. (n - 1) PROVE todo'[i] = Round[6 - (n - 1) + i]
        <3>1. todo'[i] = todo[i + 1] /\ i + 1 \in 1 .. n
            BY <1>1, <1>2, <1>3
        <3>2. 6 - n + (i + 1) = 6 - (n - 1) + i
            BY <1>3
        <3> QED BY <1>1, <3>1, <3>2
    <2> QED BY <2>1, <2>2
<1>5. RoundInv'
    <2>1. n - 1 \in 0 .. 6
        BY <1>3
    <2>2. Round' = Round
        BY DEF Round
    <2> QED BY <1>2, <1>4, <2>1, <2>2 DEF RoundInv
<1>6. Halfway <=> s = "shape_kine"
    BY <1>2 DEF Halfway
<1>7. order \in Orders
    BY <1>2, BuiltAssumption
<1>8. Halfway' <=> n > 1 /\ Round[8 - n] = "shape_kine"
    <2>1. todo' # <<>> <=> n > 1
        <3>1. Len(todo') = n - 1 /\ todo' \in Seq(Turns)
            BY <1>4
        <3>2. todo' = <<>> <=> n - 1 = 0
            BY <3>1, EmptySeq
        <3> QED BY <1>3, <3>2
    <2>2. ASSUME n > 1 PROVE Head(todo') = Round[8 - n]
        <3>1. Head(todo') = todo'[1] /\ 1 \in 1 .. (n - 1) /\ 6 - (n - 1) + 1 = 8 - n
            BY <1>3, <1>4, <2>2
        <3>2. todo'[1] = Round[6 - (n - 1) + 1]
            BY <1>4, <3>1
        <3> QED BY <3>1, <3>2
    <2> QED BY <2>1, <2>2 DEF Halfway
<1>9. ASSUME MovesAlike PROVE Halfway' <=> s = "kine"
    <2> DEFINE k == Position(order, "kine")
               l == Position(order, "shape_kine")
    <2>1. /\ k \in 1 .. 5 /\ l \in 1 .. 5 /\ k + 1 = l
          /\ order[k] = "kine" /\ order[l] = "shape_kine"
        BY <1>7, <1>9, OrderFacts DEF MovesAlike, Systems
    <2> HIDE DEF k, l
    <2>2. /\ Round[k] = "kine" /\ Round[l] = "shape_kine"
          /\ \A i \in 1 .. 6, j \in 1 .. 6 : Round[i] = Round[j] => i = j
        BY <1>2, <2>1, RoundFacts
    <2>3. ASSUME s = "kine" PROVE Halfway'
        <3>1. 7 - n = k
            BY <1>3, <2>1, <2>2, <2>3
        <3> QED BY <1>3, <1>8, <2>1, <2>2, <3>1
    <2>4. ASSUME Halfway' PROVE s = "kine"
        <3>1. 8 - n = l
            BY <1>3, <1>8, <2>1, <2>2, <2>4
        <3>2. 7 - n = k
            BY <1>3, <2>1, <3>1
        <3> QED BY <1>3, <2>2, <3>2
    <2> QED BY <2>3, <2>4
<1>10. MovesAlike' = MovesAlike
    BY DEF MovesAlike
<1> QED BY <1>5, <1>6, <1>9, <1>10

\* What runs once in a round finds no loop under way.
LEMMA RunFacts ==
    ASSUME MotionInv, NEW s \in Turns \ {"collider", "grav"}, Run(s)
    PROVE  /\ RoundInv' /\ LoopInv' /\ used' = used /\ pairs' = pairs
           /\ Halfway <=> s = "shape_kine"
           /\ MovesAlike => (Halfway' <=> s = "kine")
           /\ MovesAlike' = MovesAlike
<1>1. /\ Due(s) /\ todo' = Tail(todo) /\ order' = order
      /\ used' = used /\ pairs' = pairs /\ handled' = handled
    BY DEF Run
<1>2. /\ RoundInv' /\ MovesAlike' = MovesAlike /\ (Halfway <=> s = "shape_kine")
      /\ MovesAlike => (Halfway' <=> s = "kine")
    BY <1>1, TurnFacts DEF MotionInv
<1>3. handled = 0 /\ Len(pairs) \in Nat
    BY <1>1 DEF MotionInv, LoopInv, Due, MotionTyped
<1>4. LoopInv'
    BY <1>1, <1>3 DEF LoopInv
<1> QED BY <1>1, <1>2, <1>4

\* A system that comes to its next pair has more to do in this round.
LEMMA PairFacts ==
    ASSUME MotionInv, NEW s \in {"collider", "grav"}, ForPair(s)
    PROVE  /\ RoundInv' /\ LoopInv' /\ used' = used /\ pairs' = pairs /\ doomed' = doomed
           /\ ~Halfway /\ ~Halfway' /\ MovesAlike' = MovesAlike
<1>1. /\ Due(s) /\ handled < Len(pairs) /\ handled' = handled + 1
      /\ doomed' = doomed /\ used' = used /\ pairs' = pairs /\ order' = order /\ todo' = todo
    BY DEF ForPair
<1>2. handled \in 0 .. Len(pairs) /\ Len(pairs) \in Nat
    BY DEF MotionInv, LoopInv, MotionTyped
<1>3. LoopInv'
    <2>1. handled + 1 \in 0 .. Len(pairs)
        BY <1>1, <1>2
    <2> QED BY <1>1, <2>1 DEF LoopInv, Due
<1>4. RoundInv' /\ MovesAlike' = MovesAlike
    BY <1>1 DEF MotionInv, RoundInv, Round, MovesAlike
<1>5. ~Halfway /\ ~Halfway'
    BY <1>1 DEF Halfway, Due
<1> QED BY <1>1, <1>3, <1>4, <1>5

\* Between rounds no loop is under way.
LEMMA BetweenFacts ==
    ASSUME MotionInv, todo = <<>>, todo' = todo, order' = order, handled' = handled,
           pairs' \in Seq(Entity \X Entity)
    PROVE  RoundInv' /\ LoopInv' /\ ~Halfway /\ ~Halfway' /\ MovesAlike' = MovesAlike
<1>1. handled = 0 /\ Len(pairs') \in Nat
    BY DEF MotionInv, LoopInv, Due
<1>2. LoopInv'
    BY <1>1 DEF LoopInv
<1>3. RoundInv' /\ MovesAlike' = MovesAlike /\ ~Halfway /\ ~Halfway'
    BY DEF MotionInv, RoundInv, Round, MovesAlike, Halfway
<1> QED BY <1>2, <1>3

-----------------------------------------------------------------------------
(* The invariant                                                           *)

\* A body lies where it is put.
LEMMA BodyType ==
    ASSUME NEW p \in Vector
    PROVE  /\ Body(p) \in Polys /\ Body(Zero).centroid \in Vector
           /\ Body(p).centroid = Plus(Body(Zero).centroid, p)
<1>1. Polygon(Corners) \in Polys
    <2>1. Corners \in Seq(Vector) /\ Corners # <<>> /\ Shoelace(Corners) # 0
        BY CornersAssumption DEF Vector
    <2> QED BY <2>1, CentroidType DEF Polygon, Polys
<1>2. /\ Polygon(Corners).centroid \in Vector
      /\ Body(Zero).centroid = Plus(Polygon(Corners).centroid, Zero)
      /\ Body(p).centroid = Plus(Polygon(Corners).centroid, p)
      /\ Body(p) \in Polys
    BY <1>1, VectorSums, TranslateType DEF Body, Polys
<1>3. \A v \in Vector : Plus(v, Zero) = v
    BY VectorPairs DEF Plus, Zero
<1> HIDE DEF Polys
<1> QED BY <1>2, <1>3

\* A simulation begins with shapes at their bodies.
LEMMA MotionInit == Init => MotionInv
<1> SUFFICES ASSUME Init PROVE MotionInv
    OBVIOUS
<1>1. PICK s \in Start :
        /\ pos = s.pos /\ vel = s.vel /\ pairs = s.pairs
        /\ shape = [e \in DOMAIN s.pos |-> Body(Minus(s.pos[e], Body(Zero).centroid))]
        /\ doomed = {} /\ used = DOMAIN s.pos
        /\ order \in Built
        /\ todo = <<>> /\ handled = 0
    BY DEF Init
<1>2. /\ IsFiniteSet(Alive) /\ Alive \subseteq used /\ used \subseteq Entity /\ doomed \subseteq Alive
      /\ pos \in [Alive -> Vector] /\ vel \in [Alive -> Vector] /\ pairs \in Seq(Entity \X Entity)
    BY <1>1, StartAssumption DEF IsMap, Alive, Vector
<1>3. \A e \in Alive : shape[e] \in Polys /\ shape[e].centroid = pos[e]
    <2> TAKE e \in Alive
    <2> DEFINE c == Body(Zero).centroid
    <2>1. pos[e] \in Vector /\ shape[e] = Body(Minus(pos[e], c))
        BY <1>1, <1>2 DEF Alive
    <2>2. c \in Vector
        BY VectorSums, BodyType
    <2>3. Minus(pos[e], c) \in Vector /\ Plus(c, Minus(pos[e], c)) = pos[e]
        <3>1. \A v \in Vector, w \in Vector : Plus(w, Minus(v, w)) = v
            BY VectorPairs DEF Plus, Minus
        <3> QED BY <2>1, <2>2, <3>1, VectorSums
    <2> HIDE DEF c
    <2>4. Body(Minus(pos[e], c)) \in Polys
        BY <2>3, BodyType
    <2>5. Body(Minus(pos[e], c)).centroid = Plus(Body(Zero).centroid, Minus(pos[e], c))
        BY <2>3, BodyType
    <2> QED BY <2>1, <2>3, <2>4, <2>5 DEF c
<1>4. shape \in [Alive -> Polys]
    <2>1. DOMAIN shape = Alive /\ shape = [e \in Alive |-> shape[e]]
        BY <1>1 DEF Alive
    <2> QED BY <1>3, <2>1
<1>5. RoundInv
    <2>1. todo \in Seq(Turns) /\ Len(todo) = 0
        BY <1>1
    <2> QED BY <1>1, <2>1 DEF RoundInv
<1>6. ~Halfway
    BY <1>1 DEF Halfway
<1>7. LoopInv
    <2>1. Len(pairs) \in Nat
        BY <1>2
    <2> QED BY <1>1, <2>1 DEF LoopInv
<1> QED BY <1>2, <1>3, <1>4, <1>5, <1>6, <1>7 DEF MotionInv, MotionTyped, FollowInv

\* The positions move, and shapes are one velocity behind.
LEMMA KineStep == MotionInv /\ TranslationalKinematicSys => MotionInv'
<1> SUFFICES ASSUME MotionInv, TranslationalKinematicSys PROVE MotionInv'
    OBVIOUS
<1>1. /\ RoundInv' /\ LoopInv' /\ ~Halfway /\ (MovesAlike => Halfway') /\ MovesAlike' = MovesAlike
      /\ pairs' = pairs /\ used' = used
    <2>1. Run("kine") /\ "kine" \in Turns \ {"collider", "grav"}
        BY DEF TranslationalKinematicSys, Turns, Systems
    <2> QED BY <2>1, RunFacts
<1>2. MotionTyped /\ FollowInv
    BY DEF MotionInv
<1>3. /\ Alive' = Alive /\ vel' = vel /\ shape' = shape /\ doomed' = doomed
      /\ \A e \in Alive : pos'[e] = Plus(pos[e], vel[e])
      /\ pos' = [e \in Alive |-> Plus(pos[e], vel[e])]
    BY DEF TranslationalKinematicSys, Alive
<1>4. MotionTyped'
    <2>1. pos' \in [Alive -> Vector]
        BY <1>2, <1>3, VectorSums DEF MotionTyped
    <2> QED BY <1>1, <1>2, <1>3, <2>1 DEF MotionTyped
<1>5. FollowInv'
    BY <1>1, <1>2, <1>3 DEF FollowInv
<1> QED BY <1>1, <1>4, <1>5 DEF MotionInv

\* The shapes follow.
LEMMA ShapeStep == MotionInv /\ ShapeKineticSys => MotionInv'
<1> SUFFICES ASSUME MotionInv, ShapeKineticSys PROVE MotionInv'
    OBVIOUS
<1>1. /\ RoundInv' /\ LoopInv' /\ Halfway /\ (MovesAlike => ~Halfway') /\ MovesAlike' = MovesAlike
      /\ pairs' = pairs /\ used' = used
    <2>1. Run("shape_kine") /\ "shape_kine" \in Turns \ {"collider", "grav"}
        BY DEF ShapeKineticSys, Turns, Systems
    <2> QED BY <2>1, RunFacts
<1>2. MotionTyped /\ FollowInv
    BY DEF MotionInv
<1>3. /\ Alive' = Alive /\ vel' = vel /\ pos' = pos /\ doomed' = doomed
      /\ shape' = [e \in Alive |-> Translate(shape[e], vel[e])]
    BY DEF ShapeKineticSys, Alive
<1>4. \A e \in Alive : shape'[e] \in Polys /\ shape'[e].centroid = Plus(shape[e].centroid, vel[e])
    BY <1>2, <1>3, TranslateType DEF MotionTyped
<1>5. MotionTyped'
    <2>1. shape' \in [Alive -> Polys]
        <3>1. \A e \in Alive : Translate(shape[e], vel[e]) \in Polys
            BY <1>2, TranslateType DEF MotionTyped
        <3> QED BY <1>3, <3>1
    <2> QED BY <1>1, <1>2, <1>3, <2>1 DEF MotionTyped
<1>6. FollowInv'
    BY <1>1, <1>2, <1>3, <1>4 DEF FollowInv
<1> QED BY <1>1, <1>5, <1>6 DEF MotionInv

\* An edge turns velocities.
LEMMA EdgeStep == MotionInv /\ EdgeDeflectSys => MotionInv'
<1> SUFFICES ASSUME MotionInv, EdgeDeflectSys PROVE MotionInv'
    OBVIOUS
<1>1. /\ RoundInv' /\ LoopInv' /\ ~Halfway /\ (MovesAlike => ~Halfway') /\ MovesAlike' = MovesAlike
      /\ pairs' = pairs /\ used' = used
    <2>1. Run("edge_deflect") /\ "edge_deflect" \in Turns \ {"collider", "grav"}
        BY DEF EdgeDeflectSys, Turns, Systems
    <2> QED BY <2>1, RunFacts
<1>2. MotionTyped /\ FollowInv
    BY DEF MotionInv
<1>3. /\ pos' = pos /\ shape' = shape /\ doomed' = doomed /\ Alive' = Alive
      /\ vel' = [e \in Alive |-> Deflected(e, vel[e])]
    BY DEF EdgeDeflectSys, Alive
<1>4. \A e \in Alive : Deflected(e, vel[e]) \in Vector
    <2> TAKE e \in Alive
    <2>1. vel[e] \in Vector
        BY DEF MotionInv, MotionTyped
    <2> QED BY <2>1, VectorPairs DEF Deflected, Vector
<1>5. vel' \in [Alive -> Vector]
    BY <1>3, <1>4
<1>6. MotionTyped'
    BY <1>1, <1>2, <1>3, <1>5 DEF MotionTyped
<1>7. FollowInv'
    BY <1>1, <1>2, <1>3 DEF FollowInv
<1> QED BY <1>1, <1>6, <1>7 DEF MotionInv

\* Gravity: what it does to a pair adds up to nothing.
LEMMA GravityFacts ==
    ASSUME MotionInv, GravitySys
    PROVE  /\ vel' \in [Alive -> Vector] /\ SumOf(vel') = SumOf(vel)
           /\ pos' = pos /\ shape' = shape /\ ForPair("grav")
<1>1. IsFiniteSet(Alive) /\ vel \in [Alive -> Vector] /\ pos \in [Alive -> Vector]
    BY DEF MotionInv, MotionTyped
<1>2. pos' = pos /\ shape' = shape /\ ForPair("grav")
    BY DEF GravitySys
<1>3. CASE ~Living(Pair)
    <2>1. vel' = vel
        BY <1>3 DEF GravitySys
    <2> QED BY <1>1, <1>2, <2>1
<1>4. CASE Living(Pair)
    <2>1. PICK pull \in Pulls(Pair) : vel' = Attracted(Pair, pull)
        BY <1>4 DEF GravitySys
    <2> DEFINE a == Pair[1]
               b == Pair[2]
    <2>2. a \in Alive /\ b \in Alive /\ a # b
        BY <1>4 DEF Living
    <2>3. pull \in Vector
        BY VectorsAssumption, VectorSums DEF Pulls, Vector
    <2>4. vel' = [[vel EXCEPT ![a] = Plus(vel[a], pull)] EXCEPT ![b] = Minus(vel[b], pull)]
        BY <1>1, <2>1, <2>2 DEF Attracted
    <2> HIDE DEF a, b
    <2>5. /\ vel' \in [Alive -> Vector] /\ vel'[a] = Plus(vel[a], pull) /\ vel'[b] = Minus(vel[b], pull)
          /\ \A x \in Alive \ {a, b} : vel'[x] = vel[x]
        BY <1>1, <2>2, <2>3, <2>4, VectorSums
    <2>6. SumOf(vel') = SumOf(vel)
        BY <1>1, <2>2, <2>3, <2>5, SumExchanged
    <2> QED BY <1>2, <2>5, <2>6
<1> QED BY <1>3, <1>4

\* Gravity changes velocities.
LEMMA GravityStep == MotionInv /\ GravitySys => MotionInv'
<1> SUFFICES ASSUME MotionInv, GravitySys PROVE MotionInv'
    OBVIOUS
<1>1. /\ vel' \in [Alive -> Vector] /\ pos' = pos /\ shape' = shape /\ Alive' = Alive
      /\ ForPair("grav")
    BY GravityFacts DEF Alive
<1>2. /\ RoundInv' /\ LoopInv' /\ used' = used /\ pairs' = pairs /\ doomed' = doomed
      /\ ~Halfway /\ ~Halfway' /\ MovesAlike' = MovesAlike
    BY <1>1, PairFacts
<1>3. MotionTyped'
    BY <1>1, <1>2 DEF MotionInv, MotionTyped
<1>4. FollowInv'
    BY <1>1, <1>2 DEF MotionInv, FollowInv
<1> QED BY <1>2, <1>3, <1>4 DEF MotionInv

\* A finite set is listed by a sequence.
LEMMA ListedOnce ==
    ASSUME NEW S, IsFiniteSet(S)
    PROVE  SetToSeq(S) \in [1 .. Cardinality(S) -> S] /\ Cardinality(S) \in Nat
<1>1. Cardinality(S) \in Nat /\ ExistsBijection(1 .. Cardinality(S), S)
    BY FS_NatBijection, FS_CardinalityType, FS_CountingElements
<1>2. \E f \in [1 .. Cardinality(S) -> S] : IsInjective(f)
    BY <1>1 DEF ExistsBijection, Bijection, Injection, Surjection, IsInjective
<1> QED BY <1>1, <1>2 DEF SetToSeq

\* The collider: what it moves it moves with its shape, and what it gives it takes.
LEMMA ColliderFacts ==
    ASSUME MotionInv, PhysicalColliderSys
    PROVE  /\ ForPair("collider") /\ Alive' = Alive
           /\ pos' \in [Alive -> Vector] /\ vel' \in [Alive -> Vector] /\ shape' \in [Alive -> Polys]
           /\ MovesAlike => \A e \in Alive : pos'[e] = shape'[e].centroid
           /\ SumOf(vel') = SumOf(vel)
<1> DEFINE w0 == [pos |-> pos, vel |-> vel, shape |-> shape]
           w == Collided(w0, Pair)
           m == SumOf(vel)
<1>1. ForPair("collider") /\ pos' = w.pos /\ vel' = w.vel /\ shape' = w.shape
    BY DEF PhysicalColliderSys, Become
<1>2. MotionTyped /\ FollowInv
    BY DEF MotionInv
<1>3. MovesAlike \in BOOLEAN
    BY DEF MovesAlike
<1>4. ~Halfway
    BY <1>1, PairFacts
<1>5. w0 \in World(MovesAlike, m)
    BY <1>2, <1>4 DEF World, Arena, MotionTyped, FollowInv
<1>6. w \in World(MovesAlike, m)
    <2>1. IsFiniteSet(Alive)
        BY <1>2 DEF MotionTyped
    <2> HIDE DEF w0, m
    <2> QED BY <1>3, <1>5, <2>1, CollidedStays
<1> HIDE DEF w, m
<1>7. pos' \in [Alive -> Vector] /\ vel' \in [Alive -> Vector] /\ shape' \in [Alive -> Polys]
    BY <1>1, <1>6 DEF World, Arena
<1>8. Alive' = Alive
    BY <1>7 DEF Alive
<1>9. MovesAlike => \A e \in Alive : pos'[e] = shape'[e].centroid
    BY <1>1, <1>6 DEF World
<1>10. SumOf(vel') = m
    BY <1>1, <1>6 DEF World
<1> QED BY <1>1, <1>7, <1>8, <1>9, <1>10 DEF m

\* So shapes stay with their bodies.
LEMMA ColliderStep == MotionInv /\ PhysicalColliderSys => MotionInv'
<1> SUFFICES ASSUME MotionInv, PhysicalColliderSys PROVE MotionInv'
    OBVIOUS
<1>1. /\ ForPair("collider") /\ Alive' = Alive
      /\ pos' \in [Alive -> Vector] /\ vel' \in [Alive -> Vector] /\ shape' \in [Alive -> Polys]
      /\ MovesAlike => \A e \in Alive : pos'[e] = shape'[e].centroid
    BY ColliderFacts
<1>2. /\ RoundInv' /\ LoopInv' /\ used' = used /\ pairs' = pairs /\ doomed' = doomed
      /\ ~Halfway' /\ MovesAlike' = MovesAlike
    BY <1>1, PairFacts
<1>3. MotionTyped'
    BY <1>1, <1>2 DEF MotionInv, MotionTyped
<1>4. FollowInv'
    BY <1>1, <1>2 DEF FollowInv
<1> QED BY <1>2, <1>3, <1>4 DEF MotionInv

\* A loop over the pairs ends and the next system has its turn.
LEMMA LoopEndsStep == MotionInv /\ LoopEnds => MotionInv'
<1> SUFFICES ASSUME MotionInv, LoopEnds PROVE MotionInv'
    OBVIOUS
<1>1. PICK s \in {"collider", "grav"} : Due(s)
    BY DEF LoopEnds
<1>2. /\ handled' = 0 /\ todo' = Tail(todo) /\ order' = order /\ pairs' = pairs
      /\ pos' = pos /\ vel' = vel /\ shape' = shape /\ doomed' = doomed /\ used' = used /\ Alive' = Alive
    BY DEF LoopEnds, bodies, Alive
<1>3. /\ RoundInv' /\ ~Halfway /\ (MovesAlike => ~Halfway') /\ MovesAlike' = MovesAlike
    <2>1. s \in Turns /\ s # "shape_kine" /\ s # "kine"
        BY DEF Turns, Systems
    <2> QED BY <1>1, <1>2, <2>1, TurnFacts DEF MotionInv
<1>4. MotionTyped'
    BY <1>2 DEF MotionInv, MotionTyped
<1>5. LoopInv'
    <2>1. Len(pairs) \in Nat
        BY DEF MotionInv, MotionTyped
    <2> QED BY <1>2, <2>1 DEF LoopInv
<1>6. FollowInv'
    BY <1>2, <1>3 DEF MotionInv, FollowInv
<1> QED BY <1>3, <1>4, <1>5, <1>6 DEF MotionInv

\* The bodies that stay, of those there were.
LEMMA Restricted ==
    ASSUME MotionInv, NEW S \in SUBSET Alive,
           pos' = Restrict(pos, S), vel' = Restrict(vel, S), shape' = Restrict(shape, S)
    PROVE  /\ Alive' = S /\ IsFiniteSet(S)
           /\ pos' \in [S -> Vector] /\ vel' \in [S -> Vector] /\ shape' \in [S -> Polys]
           /\ \A x \in S : pos'[x] = pos[x] /\ vel'[x] = vel[x] /\ shape'[x] = shape[x]
<1>1. /\ IsFiniteSet(Alive)
      /\ pos \in [Alive -> Vector] /\ vel \in [Alive -> Vector] /\ shape \in [Alive -> Polys]
    BY DEF MotionInv, MotionTyped
<1>2. Alive' = S
    BY DEF Restrict, Alive
<1>3. \A x \in S : pos'[x] = pos[x] /\ vel'[x] = vel[x] /\ shape'[x] = shape[x]
    BY DEF Restrict
<1>4. pos' \in [S -> Vector] /\ vel' \in [S -> Vector] /\ shape' \in [S -> Polys]
    <2>1. \A x \in S : pos[x] \in Vector /\ vel[x] \in Vector /\ shape[x] \in Polys
        BY <1>1
    <2> QED BY <2>1 DEF Restrict
<1> QED BY <1>1, <1>2, <1>3, <1>4, FS_Subset

\* The marked bodies go.
LEMMA MaintainStep == MotionInv /\ Maintain => MotionInv'
<1> SUFFICES ASSUME MotionInv, Maintain PROVE MotionInv'
    OBVIOUS
<1>1. /\ RoundInv' /\ LoopInv' /\ ~Halfway /\ (MovesAlike => ~Halfway') /\ MovesAlike' = MovesAlike
      /\ pairs' = pairs /\ used' = used
    <2>1. Run("maintain") /\ "maintain" \in Turns \ {"collider", "grav"}
        BY DEF Maintain, Turns
    <2> QED BY <2>1, RunFacts
<1> DEFINE S == Alive \ doomed
<1>2. /\ pos' = Restrict(pos, S) /\ vel' = Restrict(vel, S) /\ shape' = Restrict(shape, S)
      /\ doomed' = {} /\ S \in SUBSET Alive
    BY DEF Maintain
<1> HIDE DEF S
<1>3. /\ Alive' = S /\ IsFiniteSet(S)
      /\ pos' \in [S -> Vector] /\ vel' \in [S -> Vector] /\ shape' \in [S -> Polys]
      /\ \A x \in S : pos'[x] = pos[x] /\ vel'[x] = vel[x] /\ shape'[x] = shape[x]
    BY <1>2, Restricted
<1>4. MotionTyped'
    BY <1>1, <1>2, <1>3 DEF MotionInv, MotionTyped
<1>5. FollowInv'
    BY <1>1, <1>2, <1>3 DEF MotionInv, FollowInv
<1> QED BY <1>1, <1>4, <1>5 DEF MotionInv

\* A round begins with the whole order, which does not begin with shape_kine if it moves both alike.
LEMMA DispatchStep == MotionInv /\ Dispatch => MotionInv'
<1> SUFFICES ASSUME MotionInv, Dispatch PROVE MotionInv'
    OBVIOUS
<1>1. /\ todo = <<>> /\ todo' = Round /\ order' = order /\ pairs' = pairs /\ handled' = handled
      /\ pos' = pos /\ vel' = vel /\ shape' = shape /\ doomed' = doomed /\ used' = used
    BY DEF Dispatch, bodies, Round
<1>2. MotionTyped /\ FollowInv /\ order \in Built /\ ~Halfway
    BY <1>1 DEF MotionInv, RoundInv, Halfway
<1>3. order \in Orders
    BY <1>2, BuiltAssumption
<1>4. Round \in Seq(Turns) /\ Len(Round) = 6 /\ Round[1] = order[1]
    BY <1>2, RoundFacts
<1>5. MotionTyped' /\ Alive' = Alive
    BY <1>1, <1>2 DEF MotionTyped, Alive
<1>6. RoundInv'
    <2>1. \A i \in 1 .. 6 : Round[i] = Round[6 - 6 + i]
        OBVIOUS
    <2>2. Round' = Round
        BY <1>1 DEF Round
    <2> QED BY <1>1, <1>2, <1>4, <2>1, <2>2 DEF RoundInv
<1>7. MovesAlike => ~Halfway'
    <2> SUFFICES ASSUME MovesAlike, order[1] = "shape_kine" PROVE FALSE
        BY <1>1, <1>4 DEF Halfway
    <2> DEFINE k == Position(order, "kine")
               l == Position(order, "shape_kine")
    <2>1. k \in 1 .. 5 /\ l \in 1 .. 5 /\ k + 1 = l /\ order[l] = "shape_kine"
        BY <1>3, OrderFacts DEF MovesAlike, Systems
    <2> HIDE DEF k, l
    <2>2. l = 1
        <3>1. 1 \in 1 .. 5 /\ \A i \in 1 .. 5, j \in 1 .. 5 : order[i] = order[j] => i = j
            BY <1>3, OrderFacts
        <3> QED BY <2>1, <3>1
    <2> QED BY <2>1, <2>2
<1>8. MovesAlike' = MovesAlike
    BY <1>1 DEF MovesAlike
<1>9. FollowInv'
    BY <1>1, <1>2, <1>5, <1>7, <1>8 DEF FollowInv
<1>10. LoopInv'
    <2>1. handled = 0 /\ Len(pairs) \in Nat
        BY <1>1, <1>2 DEF MotionInv, LoopInv, Due, MotionTyped
    <2> QED BY <1>1, <2>1 DEF LoopInv
<1> QED BY <1>5, <1>6, <1>9, <1>10 DEF MotionInv

\* A body comes with its shape where it is.
LEMMA AddedStep ==
    ASSUME MotionInv, NEW e \in Entity, NEW p \in Vector, NEW v \in Vector, NEW s \in Polys,
           MovesAlike => s.centroid = p, Added(e, p, v, s)
    PROVE  MotionInv'
<1>1. /\ todo = <<>> /\ todo' = todo /\ order' = order /\ handled' = handled
      /\ used' = used \cup {e} /\ doomed' = doomed
      /\ pos' = Put(pos, e, p) /\ vel' = Put(vel, e, v) /\ shape' = Put(shape, e, s)
      /\ pairs' = pairs \o SetToSeq({<<e, f>> : f \in Alive})
    BY DEF Added
<1>2. MotionTyped /\ FollowInv
    BY <1>1 DEF MotionInv
<1>3. /\ DOMAIN pos = Alive /\ DOMAIN vel = Alive /\ DOMAIN shape = Alive
      /\ Alive' = Alive \cup {e} /\ IsFiniteSet(Alive')
    <2>1. DOMAIN pos = Alive /\ DOMAIN vel = Alive /\ DOMAIN shape = Alive
        BY <1>2 DEF MotionTyped, Alive
    <2>2. Alive' = Alive \cup {e}
        BY <1>1, <2>1 DEF Put, Alive
    <2> QED BY <1>2, <2>1, <2>2, FS_AddElement DEF MotionTyped
<1>4. \A x \in Alive' : /\ pos'[x] = IF x = e THEN p ELSE pos[x]
                        /\ vel'[x] = IF x = e THEN v ELSE vel[x]
                        /\ shape'[x] = IF x = e THEN s ELSE shape[x]
    BY <1>1, <1>3 DEF Put
<1>5. pos' \in [Alive' -> Vector] /\ vel' \in [Alive' -> Vector] /\ shape' \in [Alive' -> Polys]
    <2>1. \A x \in Alive \cup {e} : /\ (IF x = e THEN p ELSE pos[x]) \in Vector
                                    /\ (IF x = e THEN v ELSE vel[x]) \in Vector
                                    /\ (IF x = e THEN s ELSE shape[x]) \in Polys
        BY <1>2 DEF MotionTyped
    <2> QED BY <1>1, <1>3, <2>1 DEF Put
<1>6. pairs' \in Seq(Entity \X Entity)
    <2> DEFINE new == {<<e, f>> : f \in Alive}
    <2>1. new \subseteq Entity \X Entity
        BY <1>2 DEF MotionTyped
    <2>2. IsFiniteSet(new)
        <3> DEFINE g == [f \in Alive |-> <<e, f>>]
        <3>1. g \in Surjection(Alive, new)
            BY DEF Surjection
        <3> HIDE DEF g, new
        <3> QED BY <1>2, <3>1, FS_Surjection DEF MotionTyped
    <2> HIDE DEF new
    <2>3. SetToSeq(new) \in [1 .. Cardinality(new) -> new] /\ Cardinality(new) \in Nat
        BY <2>2, ListedOnce
    <2>4. SetToSeq(new) \in Seq(Entity \X Entity)
        BY <2>1, <2>3
    <2>5. pairs \in Seq(Entity \X Entity)
        BY <1>2 DEF MotionTyped
    <2> QED BY <1>1, <2>4, <2>5 DEF new
<1>7. MotionTyped'
    BY <1>1, <1>2, <1>3, <1>5, <1>6 DEF MotionTyped
<1>8. RoundInv' /\ LoopInv' /\ MovesAlike' = MovesAlike /\ ~Halfway /\ ~Halfway'
    BY <1>1, <1>6, BetweenFacts
<1>9. FollowInv'
    <2> SUFFICES ASSUME MovesAlike, NEW x \in Alive' PROVE pos'[x] = shape'[x].centroid
        BY <1>8 DEF FollowInv
    <2> QED BY <1>2, <1>3, <1>4, <1>8 DEF FollowInv
<1> QED BY <1>7, <1>8, <1>9 DEF MotionInv

\* A clone starts where its original is, shape and all.
LEMMA CloneStep ==
    ASSUME MotionInv, NEW e \in Entity, NEW f \in Alive, NEW v \in Velocity, Clone(e, f, v)
    PROVE  MotionInv'
<1>1. pos[f] \in Vector /\ shape[f] \in Polys /\ v \in Vector
    BY VectorsAssumption DEF MotionInv, MotionTyped, Vector
<1>2. Added(e, pos[f], v, shape[f])
    BY DEF Clone
<1>3. MovesAlike => shape[f].centroid = pos[f]
    BY <1>2 DEF MotionInv, FollowInv, Halfway, Added
<1> QED BY <1>1, <1>2, <1>3, AddedStep

\* A spawned body is at the centroid of its shape.
LEMMA SpawnStep ==
    ASSUME MotionInv, NEW e \in Entity, NEW p \in Places, Spawn(e, p)
    PROVE  MotionInv'
<1>1. p \in Vector
    BY VectorsAssumption DEF Vector
<1>2. Body(p) \in Polys /\ Body(p).centroid \in Vector /\ Zero \in Vector
    BY <1>1, BodyType, VectorSums DEF Polys
<1>3. Added(e, Body(p).centroid, Zero, Body(p))
    BY DEF Spawn
<1> QED BY <1>2, <1>3, AddedStep

\* A body that is marked stays as it is, and loses its pairs.
LEMMA TouchStep ==
    ASSUME MotionInv, NEW e \in Alive, Touch(e)
    PROVE  MotionInv'
<1>1. /\ todo = <<>> /\ todo' = todo /\ order' = order /\ handled' = handled /\ used' = used
      /\ pos' = pos /\ vel' = vel /\ shape' = shape /\ Alive' = Alive
      /\ doomed' = doomed \cup {e} /\ pairs' = Retained(e)
    BY DEF Touch, bodies, Alive
<1>2. pairs' \in Seq(Entity \X Entity)
    BY <1>1, RetainedType DEF MotionInv, MotionTyped
<1>3. RoundInv' /\ LoopInv' /\ MovesAlike' = MovesAlike /\ ~Halfway /\ ~Halfway'
    BY <1>1, <1>2, BetweenFacts
<1>4. MotionTyped'
    BY <1>1, <1>2 DEF MotionInv, MotionTyped
<1>5. FollowInv'
    BY <1>1, <1>3 DEF MotionInv, FollowInv
<1> QED BY <1>3, <1>4, <1>5 DEF MotionInv

\* A body goes with its position and its shape.
LEMMA DeleteStep ==
    ASSUME MotionInv, NEW e \in Alive, Delete(e)
    PROVE  MotionInv'
<1> DEFINE S == Alive \ {e}
<1>1. /\ todo = <<>> /\ todo' = todo /\ order' = order /\ handled' = handled /\ used' = used
      /\ doomed' = doomed \ {e} /\ pairs' = pairs
      /\ pos' = Erase(pos, e) /\ vel' = Erase(vel, e) /\ shape' = Erase(shape, e)
    BY DEF Delete
<1>2. pos' = Restrict(pos, S) /\ vel' = Restrict(vel, S) /\ shape' = Restrict(shape, S) /\ S \in SUBSET Alive
    <2>1. DOMAIN pos = Alive /\ DOMAIN vel = Alive /\ DOMAIN shape = Alive
        BY DEF MotionInv, MotionTyped, Alive
    <2> QED BY <1>1, <2>1 DEF Erase
<1>3. RoundInv' /\ LoopInv' /\ MovesAlike' = MovesAlike /\ ~Halfway /\ ~Halfway'
    BY <1>1, BetweenFacts DEF MotionInv, MotionTyped
<1>4. doomed' \subseteq S
    BY <1>1 DEF MotionInv, MotionTyped
<1> HIDE DEF S
<1>5. /\ Alive' = S /\ IsFiniteSet(S)
      /\ pos' \in [S -> Vector] /\ vel' \in [S -> Vector] /\ shape' \in [S -> Polys]
      /\ \A x \in S : pos'[x] = pos[x] /\ vel'[x] = vel[x] /\ shape'[x] = shape[x]
    BY <1>2, Restricted
<1>6. MotionTyped'
    BY <1>1, <1>2, <1>4, <1>5 DEF MotionInv, MotionTyped
<1>7. FollowInv'
    BY <1>2, <1>3, <1>5 DEF MotionInv, FollowInv
<1> QED BY <1>3, <1>6, <1>7 DEF MotionInv

\* Steps of others.
LEMMA MotionStutter == MotionInv /\ UNCHANGED motionVars => MotionInv'
<1> SUFFICES ASSUME MotionInv, UNCHANGED motionVars PROVE MotionInv'
    OBVIOUS
<1>1. /\ pos' = pos /\ vel' = vel /\ shape' = shape /\ doomed' = doomed /\ used' = used
      /\ pairs' = pairs /\ order' = order /\ todo' = todo /\ handled' = handled
    BY DEF motionVars, bodies
<1> QED BY <1>1 DEF MotionInv, MotionTyped, RoundInv, Round, LoopInv, Due, FollowInv, MovesAlike, Halfway, Alive

\* The invariant is inductive.
LEMMA MotionNext == MotionInv /\ [Next]_motionVars => MotionInv'
<1> SUFFICES ASSUME MotionInv, [Next]_motionVars PROVE MotionInv'
    OBVIOUS
<1>1. CASE Dispatch
    BY <1>1, DispatchStep
<1>2. CASE RunsSystem
    BY <1>2, KineStep, ShapeStep, EdgeStep, ColliderStep, GravityStep, LoopEndsStep DEF RunsSystem
<1>3. CASE Maintain
    BY <1>3, MaintainStep
<1>4. CASE \E e \in Entity, f \in Alive, v \in Velocity \ {Zero} : Clone(e, f, v)
    BY <1>4, CloneStep
<1>5. CASE \E e \in Entity, p \in Places : Spawn(e, p)
    BY <1>5, SpawnStep
<1>6. CASE \E e \in Alive : Touch(e) \/ Delete(e)
    BY <1>6, TouchStep, DeleteStep
<1>7. CASE UNCHANGED motionVars
    BY <1>7, MotionStutter
<1> QED BY <1>1, <1>2, <1>3, <1>4, <1>5, <1>6, <1>7 DEF Next

-----------------------------------------------------------------------------
(* Squares that collide                                                    *)

\* Two convex polygons pushed from each other by their overlap, however it is split
\* between them, collide no more, unless one of them starts before and ends after the
\* other.
LEMMA PushesSeparate ==
    ASSUME NEW poly1 \in Polys, NEW poly2 \in Polys, Convex(poly1.points), Convex(poly2.points),
           NEW hit, hit = FindCollision(poly1, poly2), hit # None,
           Lined(poly1, poly2, hit.axis), NEW back \in Vector, NEW forth \in Vector,
           Dot(forth, hit.axis) - Dot(back, hit.axis) = hit.over
    PROVE  FindCollision(Translate(poly1, back), Translate(poly2, forth)) = None
<1> DEFINE a == hit.axis
           o == hit.over
           h == Dot(back, a)
           g == Dot(forth, a)
           i == Project(poly1, a)
           j == Project(poly2, a)
           moved1 == Translate(poly1, back)
           moved2 == Translate(poly2, forth)
<1>1. a \in Vector /\ a # Zero /\ o # 0 /\ o = IntersectLength(i, j)
    BY HitIsOverlap
<1>2. /\ i.lo \in Int /\ i.hi \in Int /\ i.lo <= i.hi
      /\ j.lo \in Int /\ j.hi \in Int /\ j.lo <= j.hi
    BY <1>1, ProjectType, ShadowOrder
<1>3. o = i.hi - j.lo
    <2>1. i.lo <= j.lo /\ i.hi <= j.hi
        BY DEF Lined
    <2> HIDE DEF a, o, i, j
    <2> QED BY <1>1, <1>2, <2>1, OverlapBound
<1>4. h \in Int /\ g \in Int /\ g - h = o
    <2>1. h \in Int /\ g \in Int
        <3> HIDE DEF a
        <3> QED BY <1>1, VectorSums
    <2> QED BY <2>1
<1>5. /\ moved1 \in Polys /\ Convex(moved1.points) /\ Points(moved1) = {Plus(v, back) : v \in Points(poly1)}
      /\ moved2 \in Polys /\ Convex(moved2.points) /\ Points(moved2) = {Plus(v, forth) : v \in Points(poly2)}
    BY Translated, TranslatedConvex
<1>6. ASSUME NEW v \in Points(poly1), NEW w \in Points(poly2)
      PROVE  Dot(Plus(v, back), a) <= Dot(Plus(w, forth), a)
    <2> DEFINE p == Dot(v, a)
               q == Dot(w, a)
    <2>1. v \in Vector /\ w \in Vector
        BY PointsOf
    <2>2. p \in Int /\ q \in Int /\ p <= i.hi /\ j.lo <= q
        <3> HIDE DEF a
        <3> QED BY <1>1, <2>1, ProjectType, VectorSums DEF Points
    <2>3. Dot(Plus(v, back), a) = p + h /\ Dot(Plus(w, forth), a) = q + g
        <3> HIDE DEF a
        <3> QED BY <1>1, <2>1, SameWay
    <2> HIDE DEF a, o, h, g, i, j, p, q
    <2>4. p + h <= q + g
        BY <1>2, <1>3, <1>4, <2>2
    <2> QED BY <2>3, <2>4
<1> HIDE DEF moved1, moved2, a
<1>7. Before(Points(moved1), Points(moved2), a)
    BY <1>5, <1>6 DEF Before
<1>8. ~InteriorsMeet(moved1, moved2)
    BY <1>1, <1>5, <1>7, BeforeShadows, ConvexIsSolid, ApartOn
<1>9. FindCollision(moved1, moved2) = None
    BY <1>5, <1>8, CollisionIsOverlap
<1> QED BY <1>9 DEF moved1, moved2

\* Of two translations of one polygon, neither starts before and ends after the other.
LEMMA TwinsLined ==
    ASSUME NEW poly \in Polys, NEW p \in Vector, NEW q \in Vector, NEW a \in Vector,
           Dot(Minus(q, p), a) >= 0
    PROVE  Lined(Translate(poly, p), Translate(poly, q), a)
<1> DEFINE k == Project(poly, a)
           x == Dot(p, a)
           y == Dot(q, a)
<1>1. x \in Int /\ y \in Int /\ Dot(Minus(q, p), a) = y - x
    BY Ways, VectorSums
<1>2. ASSUME NEW t \in Vector
      PROVE  /\ Project(Translate(poly, t), a).lo = k.lo + Dot(t, a)
             /\ Project(Translate(poly, t), a).hi = k.hi + Dot(t, a)
    <2>1. Opposite(a) \in Vector /\ Dot(t, Opposite(a)) = -Dot(t, a) /\ Dot(t, a) \in Int
        BY OppositeFacts, VectorSums
    <2>2. Translate(poly, t) \in Polys
        BY Translated
    <2>3. /\ Project(Translate(poly, t), Opposite(a)).lo = -Project(Translate(poly, t), a).hi
          /\ Project(poly, Opposite(a)).lo = -k.hi
          /\ k.hi \in Int /\ Project(Translate(poly, t), a).hi \in Int
        BY <2>2, OppositeShadow, ProjectType
    <2>4. Project(Translate(poly, t), Opposite(a)).lo = Project(poly, Opposite(a)).lo + Dot(t, Opposite(a))
        BY <2>1, TranslatedShadow
    <2> DEFINE b == k.hi
               c == Project(Translate(poly, t), a).hi
               d == Dot(t, a)
    <2>5. b \in Int /\ c \in Int /\ d \in Int /\ -c = -b + (-d)
        BY <2>1, <2>3, <2>4
    <2> HIDE DEF b, c, d
    <2>6. c = b + d
        BY <2>5
    <2> QED BY <2>6, TranslatedShadow DEF b, c, d
<1>3. k.lo \in Int /\ k.hi \in Int
    BY ProjectType
<1>4. x <= y
    BY <1>1
<1>5. /\ Project(Translate(poly, p), a).lo = k.lo + x /\ Project(Translate(poly, q), a).lo = k.lo + y
      /\ Project(Translate(poly, p), a).hi = k.hi + x /\ Project(Translate(poly, q), a).hi = k.hi + y
    BY <1>2
<1> HIDE DEF x, y, k
<1> QED BY <1>1, <1>3, <1>4, <1>5 DEF Lined

\* Division of what was multiplied.
LEMMA OverTimes ==
    ASSUME NEW v \in Vector, NEW k \in Int, k > 0
    PROVE  Over(Times(v, k), k) = v
<1> DEFINE x == v[1]
           y == v[2]
<1>1. x \in Int /\ y \in Int /\ v = <<x, y>>
    BY VectorPairs
<1>2. ASSUME NEW z \in Int PROVE (z * k) \div k = z
    BY <1>2
<1> HIDE DEF x, y
<1>3. (x * k) \div k = x /\ (y * k) \div k = y
    BY <1>1, <1>2
<1>4. Times(v, k) = <<x * k, y * k>>
    BY <1>1 DEF Times
<1> QED BY <1>1, <1>3, <1>4 DEF Over

\* Sums and differences of vectors, reordered.
LEMMA Shuffled ==
    ASSUME NEW v \in Vector, NEW w \in Vector, NEW p \in Vector, NEW q \in Vector
    PROVE  /\ Minus(Plus(v, p), Plus(w, q)) = Minus(Minus(v, w), Minus(q, p))
           /\ Minus(Plus(v, p), Plus(w, q)) = Plus(Minus(v, w), Minus(p, q))
           /\ Minus(Plus(v, p), Plus(v, q)) = Minus(p, q)
           /\ Plus(Plus(v, p), q) = Plus(v, Plus(p, q))
           /\ Minus(p, q) = Opposite(Minus(q, p))
<1>1. /\ v[1] \in Int /\ v[2] \in Int /\ w[1] \in Int /\ w[2] \in Int
      /\ p[1] \in Int /\ p[2] \in Int /\ q[1] \in Int /\ q[2] \in Int
    BY VectorPairs
<1> QED BY <1>1 DEF Plus, Minus, Opposite

Units == {<<1, 0>>, <<0, 1>>, <<-1, 0>>, <<0, -1>>}

\* The squares of main.rs and of the bot.
LEMMA Squares ==
    ASSUME Square
    PROVE  /\ Corners \in Seq(Vector) /\ Convex(Corners)
           /\ \E s \in Int :
                /\ s > 0
                /\ \A e \in DOMAIN Corners : \E u \in Units : Perp(Edge(Corners, e)) = Times(u, s)
<1> DEFINE c == Corners[1]
           s == Corners[2][1] - Corners[1][1]
           x == c[1]
           y == c[2]
<1>1. Corners \in Seq(Vector) /\ Len(Corners) >= 3
    BY CornersAssumption DEF Vector
<1>2. c \in Vector /\ Corners[2] \in Vector
    BY <1>1
<1>3. x \in Int /\ y \in Int /\ s \in Int /\ s > 0
    BY <1>2, VectorPairs DEF Square
<1>4. Corners = [i \in 1 .. 4 |-> Plus(c, << <<0, 0>>, <<s, 0>>, <<s, s>>, <<0, s>> >>[i])]
    BY DEF Square
<1> HIDE DEF s
<1>5. /\ DOMAIN Corners = 1 .. 4
      /\ Corners[1] = <<x, y>> /\ Corners[2] = <<x + s, y>>
      /\ Corners[3] = <<x + s, y + s>> /\ Corners[4] = <<x, y + s>>
    <2>1. /\ DOMAIN Corners = 1 .. 4
          /\ Corners[1] = Plus(c, <<0, 0>>) /\ Corners[2] = Plus(c, <<s, 0>>)
          /\ Corners[3] = Plus(c, <<s, s>>) /\ Corners[4] = Plus(c, <<0, s>>)
        BY <1>4
    <2> HIDE DEF c
    <2>2. /\ Plus(c, <<0, 0>>) = <<x, y>> /\ Plus(c, <<s, 0>>) = <<x + s, y>>
          /\ Plus(c, <<s, s>>) = <<x + s, y + s>> /\ Plus(c, <<0, s>>) = <<x, y + s>>
        BY <1>3 DEF Plus, x, y
    <2> QED BY <2>1, <2>2
<1> HIDE DEF c, x, y
<1>6. Len(Corners) = 4
    BY <1>1, <1>5
<1>7. /\ NextIndex(Corners, 1) = 2 /\ NextIndex(Corners, 2) = 3
      /\ NextIndex(Corners, 3) = 4 /\ NextIndex(Corners, 4) = 1
    <2>1. 1 % 4 = 1 /\ 2 % 4 = 2 /\ 3 % 4 = 3 /\ 4 % 4 = 0
        OBVIOUS
    <2> QED BY <1>6, <2>1 DEF NextIndex
<1>8. /\ Edge(Corners, 1) = <<s, 0>> /\ Edge(Corners, 2) = <<0, s>>
      /\ Edge(Corners, 3) = <<-s, 0>> /\ Edge(Corners, 4) = <<0, -s>>
    BY <1>3, <1>5, <1>7 DEF Edge, After, Minus
<1>9. s * s \in Int /\ s * s > 0
    BY <1>3, SquarePositive
<1>10. ASSUME NEW e \in 1 .. 4, NEW i \in 1 .. 4, i # e, i # NextIndex(Corners, e)
       PROVE  1 * Cross(Edge(Corners, e), Minus(Corners[i], Corners[e])) > 0
    <2>1. Cross(Edge(Corners, e), Minus(Corners[i], Corners[e])) = s * s
        <3>1. CASE e = 1
            <4>1. i = 3 \/ i = 4
                BY <1>7, <1>10, <3>1
            <4>2. Minus(Corners[i], Corners[e]) = <<s, s>> \/ Minus(Corners[i], Corners[e]) = <<0, s>>
                BY <1>3, <1>5, <3>1, <4>1 DEF Minus
            <4> QED BY <1>3, <1>8, <3>1, <4>2 DEF Cross
        <3>2. CASE e = 2
            <4>1. i = 4 \/ i = 1
                BY <1>7, <1>10, <3>2
            <4>2. Minus(Corners[i], Corners[e]) = <<-s, s>> \/ Minus(Corners[i], Corners[e]) = <<-s, 0>>
                BY <1>3, <1>5, <3>2, <4>1 DEF Minus
            <4> QED BY <1>3, <1>8, <3>2, <4>2 DEF Cross
        <3>3. CASE e = 3
            <4>1. i = 1 \/ i = 2
                BY <1>7, <1>10, <3>3
            <4>2. Minus(Corners[i], Corners[e]) = <<-s, -s>> \/ Minus(Corners[i], Corners[e]) = <<0, -s>>
                BY <1>3, <1>5, <3>3, <4>1 DEF Minus
            <4> QED BY <1>3, <1>8, <3>3, <4>2 DEF Cross
        <3>4. CASE e = 4
            <4>1. i = 2 \/ i = 3
                BY <1>7, <1>10, <3>4
            <4>2. Minus(Corners[i], Corners[e]) = <<s, -s>> \/ Minus(Corners[i], Corners[e]) = <<s, 0>>
                BY <1>3, <1>5, <3>4, <4>1 DEF Minus
            <4> QED BY <1>3, <1>8, <3>4, <4>2 DEF Cross
        <3> QED BY <3>1, <3>2, <3>3, <3>4
    <2> QED BY <1>9, <2>1
<1>11. Convex(Corners)
    BY <1>1, <1>5, <1>10 DEF Convex
<1>12. ASSUME NEW e \in 1 .. 4 PROVE \E u \in Units : Perp(Edge(Corners, e)) = Times(u, s)
    <2>1. /\ Times(<<0, -1>>, s) = <<0, -s>> /\ Times(<<1, 0>>, s) = <<s, 0>>
          /\ Times(<<0, 1>>, s) = <<0, s>> /\ Times(<<-1, 0>>, s) = <<-s, 0>>
        BY <1>3 DEF Times
    <2>2. Perp(Edge(Corners, e)) \in {<<0, -s>>, <<s, 0>>, <<0, s>>, <<-s, 0>>}
        BY <1>3, <1>8 DEF Perp
    <2> QED BY <2>1, <2>2 DEF Units
<1> QED BY <1>1, <1>3, <1>5, <1>11, <1>12

\* Units have the length 1, also when they are turned around.
LEMMA UnitFacts ==
    ASSUME NEW u \in Units, NEW s \in Int
    PROVE  u \in Vector /\ Norm2(u) = 1 /\ \E w \in Units : Opposite(Times(u, s)) = Times(w, s)
<1>1. u \in Vector /\ Norm2(u) = 1 /\ Opposite(u) \in Units
    <2>1. ASSUME NEW x \in Int, NEW y \in Int, u = <<x, y>>, NEW m \in Int, NEW n \in Int, m = -x, n = -y
          PROVE  u \in Vector /\ Norm2(u) = x * x + y * y /\ Opposite(u) = <<m, n>>
        BY <2>1 DEF Vector, Norm2, Dot, Opposite
    <2>2. CASE u = <<1, 0>>
        <3>1. u \in Vector /\ Norm2(u) = (1) * (1) + (0) * (0) /\ Opposite(u) = <<-1, 0>>
            BY <2>1, <2>2
        <3> QED BY <3>1 DEF Units
    <2>3. CASE u = <<0, 1>>
        <3>1. u \in Vector /\ Norm2(u) = (0) * (0) + (1) * (1) /\ Opposite(u) = <<0, -1>>
            BY <2>1, <2>3
        <3> QED BY <3>1 DEF Units
    <2>4. CASE u = <<-1, 0>>
        <3>1. u \in Vector /\ Norm2(u) = (-1) * (-1) + (0) * (0) /\ Opposite(u) = <<1, 0>>
            BY <2>1, <2>4
        <3> QED BY <3>1 DEF Units
    <2>5. CASE u = <<0, -1>>
        <3>1. u \in Vector /\ Norm2(u) = (0) * (0) + (-1) * (-1) /\ Opposite(u) = <<0, 1>>
            BY <2>1, <2>5
        <3> QED BY <3>1 DEF Units
    <2> QED BY <2>2, <2>3, <2>4, <2>5 DEF Units
<1>2. Opposite(Times(u, s)) = Times(Opposite(u), s)
    BY DEF Units, Opposite, Times
<1> QED BY <1>1, <1>2

\* Bodies are convex, with the edges of the square.
LEMMA BodyFacts ==
    ASSUME Square, NEW p \in Vector
    PROVE  /\ Polygon(Corners) \in Polys /\ Body(p) = Translate(Polygon(Corners), p)
           /\ Body(p) \in Polys /\ Convex(Body(p).points)
           /\ DOMAIN Body(p).points = DOMAIN Corners
           /\ \A e \in DOMAIN Corners : Edge(Body(p).points, e) = Edge(Corners, e)
           /\ \A v \in Points(Body(p)) : \E e \in DOMAIN Corners : v = Plus(Corners[e], p)
<1>1. Polygon(Corners) \in Polys /\ Polygon(Corners).points = Corners
    <2>1. Corners \in Seq(Vector) /\ Corners # <<>> /\ Shoelace(Corners) # 0
        BY CornersAssumption DEF Vector
    <2> QED BY <2>1, CentroidType DEF Polygon, Polys
<1>2. Body(p) = Translate(Polygon(Corners), p)
    BY DEF Body
<1>3. Convex(Polygon(Corners).points)
    BY <1>1, Squares
<1> DEFINE poly == Polygon(Corners)
<1>4. poly \in Polys /\ Convex(poly.points) /\ poly.points = Corners
    BY <1>1, <1>3
<1> HIDE DEF poly
<1>5. Translate(poly, p) \in Polys /\ Convex(Translate(poly, p).points)
    BY <1>4, Translated, TranslatedConvex
<1>6. /\ DOMAIN Translate(poly, p).points = DOMAIN poly.points
      /\ \A e \in DOMAIN poly.points : Edge(Translate(poly, p).points, e) = Edge(poly.points, e)
    BY <1>4, Translated, TranslatedConvex
<1>7. ASSUME NEW v \in Points(Translate(poly, p)) PROVE \E e \in DOMAIN Corners : v = Plus(Corners[e], p)
    <2>1. PICK w \in Points(poly) : v = Plus(w, p)
        BY <1>4, <1>7, Translated
    <2> QED BY <1>4, <2>1, PointsOf
<1> QED BY <1>1, <1>2, <1>4, <1>5, <1>6, <1>7 DEF poly

\* A factor of the second vector of a product.
LEMMA DotTimes ==
    ASSUME NEW m \in Vector, NEW u \in Vector, NEW s \in Int
    PROVE  Dot(m, Times(u, s)) = s * Dot(m, u)
<1> DEFINE m1 == m[1]
           m2 == m[2]
           u1 == u[1]
           u2 == u[2]
<1>1. m1 \in Int /\ m2 \in Int /\ u1 \in Int /\ u2 \in Int
    BY VectorPairs
<1>2. Dot(m, Times(u, s)) = m1 * (u1 * s) + m2 * (u2 * s) /\ Dot(m, u) = m1 * u1 + m2 * u2
    BY DEF Dot, Times
<1> HIDE DEF m1, m2, u1, u2
<1>3. m1 * (u1 * s) + m2 * (u2 * s) = s * (m1 * u1 + m2 * u2)
    BY <1>1
<1> QED BY <1>2, <1>3

\* How two such squares overlap: along a unit.
LEMMA SquareHit ==
    ASSUME Square, NEW p \in Vector, NEW q \in Vector,
           NEW hit, hit = FindCollision(Body(p), Body(q)), hit # None
    PROVE  /\ Lined(Body(p), Body(q), hit.axis)
           /\ \E u \in Vector : \E s, h \in Int :
                s > 0 /\ Norm2(u) = 1 /\ hit.axis = Times(u, s) /\ hit.over = s * h
<1> DEFINE A == Body(p)
           B == Body(q)
           a == hit.axis
           o == hit.over
           i == Project(A, a)
           j == Project(B, a)
<1>1. A \in Polys /\ B \in Polys
    BY BodyFacts
<1>2. a \in Vector /\ o # 0 /\ o = IntersectLength(i, j)
    BY <1>1, HitIsOverlap
<1>3. Dot(Minus(B.centroid, A.centroid), a) >= 0
    BY <1>1, CollisionIsShortest
<1>4. Minus(B.centroid, A.centroid) = Minus(q, p)
    <2>1. /\ A.centroid = Plus(Body(Zero).centroid, p) /\ B.centroid = Plus(Body(Zero).centroid, q)
          /\ Body(Zero).centroid \in Vector
        BY BodyType
    <2> QED BY <2>1, Shuffled
<1>5. Lined(A, B, a)
    <2>1. Dot(Minus(q, p), a) >= 0
        BY <1>3, <1>4
    <2> HIDE DEF a
    <2> QED BY <1>2, <2>1, BodyFacts, TwinsLined
<1>6. PICK s \in Int :
        /\ s > 0
        /\ \A e \in DOMAIN Corners : \E u \in Units : Perp(Edge(Corners, e)) = Times(u, s)
    BY Squares
<1>7. PICK u \in Units : a = Times(u, s)
    <2>1. PICK h \in EdgeHits(A, B) \cup EdgeHits(B, A) : a \in {h.axis, Opposite(h.axis)}
        BY <1>1, CollisionIsShortest
    <2>2. PICK e \in DOMAIN Corners : h.axis \in PerpsOf(Edge(Corners, e))
        <3>1. ASSUME h \in EdgeHits(A, B) PROVE \E e \in DOMAIN Corners : h.axis \in PerpsOf(Edge(Corners, e))
            <4>1. PICK e \in DOMAIN Corners : h = HitOn(A, B, e)
                BY <3>1, BodyFacts DEF EdgeHits
            <4>2. h.axis \in PerpsOf(Edge(A.points, e))
                BY <4>1 DEF HitOn, PerpsOf
            <4> QED BY <4>2, BodyFacts
        <3>2. ASSUME h \in EdgeHits(B, A) PROVE \E e \in DOMAIN Corners : h.axis \in PerpsOf(Edge(Corners, e))
            <4>1. PICK e \in DOMAIN Corners : h = HitOn(B, A, e)
                BY <3>2, BodyFacts DEF EdgeHits
            <4>2. h.axis \in PerpsOf(Edge(B.points, e))
                BY <4>1 DEF HitOn, PerpsOf
            <4> QED BY <4>2, BodyFacts
        <3> QED BY <3>1, <3>2
    <2>3. PICK u \in Units : Perp(Edge(Corners, e)) = Times(u, s)
        BY <1>6
    <2>4. Times(u, s) \in Vector /\ Opposite(Opposite(Times(u, s))) = Times(u, s)
        <3>1. Times(u, s) \in Vector
            BY UnitFacts, VectorProducts
        <3> QED BY <3>1, VectorPairs DEF Opposite
    <2>5. a = Times(u, s) \/ a = Opposite(Times(u, s))
        BY <2>1, <2>2, <2>3, <2>4 DEF PerpsOf
    <2> QED BY <2>5, UnitFacts
<1>8. PICK v \in Points(A), w \in Points(B) : o = Dot(v, a) - Dot(w, a)
    <2>1. /\ i.lo \in Int /\ i.hi \in Int /\ i.lo <= i.hi
          /\ j.lo \in Int /\ j.hi \in Int /\ j.lo <= j.hi
        BY <1>1, <1>2, ProjectType, ShadowOrder
    <2>2. o = i.hi - j.lo
        <3>1. i.lo <= j.lo /\ i.hi <= j.hi
            BY <1>5 DEF Lined
        <3> HIDE DEF i, j, o
        <3> QED BY <1>2, <2>1, <3>1, OverlapBound
    <2>3. (\E v \in Points(A) : i.hi = Dot(v, a)) /\ (\E w \in Points(B) : j.lo = Dot(w, a))
        BY <1>1, <1>2, ProjectType DEF Points
    <2> QED BY <2>2, <2>3
<1> DEFINE m == Minus(v, w)
<1>9. v \in Vector /\ w \in Vector /\ m \in Vector
    BY <1>1, <1>8, PointsOf, VectorSums
<1> DEFINE h == Dot(m, u)
<1>10. h \in Int /\ u \in Vector /\ Norm2(u) = 1
    BY <1>9, UnitFacts, VectorSums
<1>11. o = s * h
    <2>1. o = Dot(m, a)
        BY <1>2, <1>8, <1>9, Ways
    <2>2. Dot(m, Times(u, s)) = s * h
        <3> HIDE DEF m
        <3> QED BY <1>9, <1>10, DotTimes
    <2> QED BY <1>7, <2>1, <2>2
<1> HIDE DEF h
<1> QED BY <1>5, <1>6, <1>7, <1>10, <1>11

\* Along a unit, what is scaled by a length and divided by its square.
LEMMA AlongUnit ==
    ASSUME NEW u \in Vector, Norm2(u) = 1, NEW s \in Int, s > 0, NEW k \in Int
    PROVE  /\ Norm2(Times(u, s)) = s * s /\ s * s \in Int /\ s * s > 0
           /\ Over(Times(Times(u, s), s * k), Norm2(Times(u, s))) = Times(u, k)
           /\ Dot(Times(u, k), Times(u, s)) = s * k
<1> DEFINE x == u[1]
           y == u[2]
<1>1. x \in Int /\ y \in Int /\ u = <<x, y>>
    BY VectorPairs
<1>2. x * x + y * y = 1
    BY DEF Norm2, Dot
<1>3. /\ Times(u, s) = <<x * s, y * s>> /\ Times(u, k) = <<x * k, y * k>>
    BY DEF Times
<1> HIDE DEF x, y
<1>4. s * s \in Int /\ s * s > 0
    BY SquarePositive
<1>5. Norm2(Times(u, s)) = s * s
    <2>1. Norm2(Times(u, s)) = (x * s) * (x * s) + (y * s) * (y * s)
        BY <1>3 DEF Norm2, Dot
    <2>2. (x * s) * (x * s) + (y * s) * (y * s) = (x * x + y * y) * (s * s)
        BY <1>1
    <2> QED BY <1>2, <1>4, <2>1, <2>2
<1>6. Dot(Times(u, k), Times(u, s)) = s * k
    <2>1. Dot(Times(u, k), Times(u, s)) = (x * k) * (x * s) + (y * k) * (y * s)
        BY <1>3 DEF Dot
    <2>2. (x * k) * (x * s) + (y * k) * (y * s) = (x * x + y * y) * (s * k)
        BY <1>1
    <2>3. s * k \in Int
        OBVIOUS
    <2> QED BY <1>2, <2>1, <2>2, <2>3
<1>7. Times(Times(u, s), s * k) = Times(Times(u, k), s * s)
    <2>1. (x * s) * (s * k) = (x * k) * (s * s) /\ (y * s) * (s * k) = (y * k) * (s * s)
        BY <1>1
    <2> QED BY <1>3, <2>1 DEF Times
<1>8. Over(Times(Times(u, k), s * s), s * s) = Times(u, k)
    <2> DEFINE n == s * s
    <2>1. n \in Int /\ n > 0 /\ Times(u, k) \in Vector
        BY <1>4, VectorProducts
    <2> HIDE DEF n
    <2>2. Over(Times(Times(u, k), n), n) = Times(u, k)
        BY <2>1, OverTimes
    <2> QED BY <2>2 DEF n
<1> QED BY <1>4, <1>5, <1>6, <1>7, <1>8

\* A body that is moved is the body of another place.
LEMMA BodyMoved ==
    ASSUME Square, NEW p \in Vector, NEW t \in Vector
    PROVE  Translate(Body(p), t) = Body(Plus(p, t))
<1> DEFINE poly == Polygon(Corners)
<1>1. poly \in Polys /\ \A q : Body(q) = Translate(poly, q)
    BY BodyFacts DEF Body
<1> HIDE DEF poly
<1>2. ASSUME NEW v \in Vector PROVE Plus(Plus(v, p), t) = Plus(v, Plus(p, t))
    BY <1>2, Shuffled
<1>3. poly.centroid \in Vector /\ \A e \in DOMAIN poly.points : poly.points[e] \in Vector
    BY <1>1 DEF Polys
<1>4. Translate(Translate(poly, p), t) = Translate(poly, Plus(p, t))
    <2>1. \A e \in DOMAIN poly.points : Plus(Plus(poly.points[e], p), t) = Plus(poly.points[e], Plus(p, t))
        BY <1>2, <1>3
    <2>2. Plus(Plus(poly.centroid, p), t) = Plus(poly.centroid, Plus(p, t))
        BY <1>2, <1>3
    <2>3. /\ Translate(poly, p).centroid = Plus(poly.centroid, p)
          /\ Translate(poly, p).points = [e \in DOMAIN poly.points |-> Plus(poly.points[e], p)]
        BY DEF Translate, Mapped
    <2>4. Translate(Translate(poly, p), t) =
            [centroid |-> Plus(Plus(poly.centroid, p), t),
             points |-> [e \in DOMAIN poly.points |-> Plus(Plus(poly.points[e], p), t)]]
        <3> DEFINE r == Translate(poly, p)
        <3>1. Translate(r, t) = [centroid |-> Plus(r.centroid, t),
                                 points |-> [e \in DOMAIN r.points |-> Plus(r.points[e], t)]]
            BY DEF Translate, Mapped
        <3> HIDE DEF r
        <3>2. /\ r.centroid = Plus(poly.centroid, p) /\ DOMAIN r.points = DOMAIN poly.points
              /\ \A e \in DOMAIN poly.points : r.points[e] = Plus(poly.points[e], p)
            BY <2>3 DEF r
        <3>3. [e \in DOMAIN r.points |-> Plus(r.points[e], t)]
                = [e \in DOMAIN poly.points |-> Plus(Plus(poly.points[e], p), t)]
            BY <3>2
        <3> QED BY <3>1, <3>2, <3>3 DEF r
    <2>5. Translate(poly, Plus(p, t)) =
            [centroid |-> Plus(poly.centroid, Plus(p, t)),
             points |-> [e \in DOMAIN poly.points |-> Plus(poly.points[e], Plus(p, t))]]
        BY DEF Translate, Mapped
    <2>6. [e \in DOMAIN poly.points |-> Plus(Plus(poly.points[e], p), t)]
            = [e \in DOMAIN poly.points |-> Plus(poly.points[e], Plus(p, t))]
        BY <2>1
    <2> QED BY <2>2, <2>4, <2>5, <2>6
<1> QED BY <1>1, <1>4

\* What the collider makes of two such squares: it pushes them from each other by the whole
\* of their overlap, whatever is the part of each, and then they collide no more.
LEMMA SquaresPart ==
    ASSUME Square, NEW p \in Vector, NEW q \in Vector,
           NEW hit, hit = FindCollision(Body(p), Body(q)), hit # None
    PROVE  \E u \in Vector : \E s \in Int : \E push \in Vector :
             /\ s > 0 /\ Norm2(u) = 1 /\ hit.axis = Times(u, s)
             /\ Over(Times(hit.axis, hit.over), Norm2(hit.axis)) = push
             /\ \A half \in Vector :
                  FindCollision(Translate(Body(p), Opposite(half)),
                                Translate(Body(q), Minus(push, half))) = None
<1>0. Lined(Body(p), Body(q), hit.axis)
      /\ \E u \in Vector : \E s, h \in Int :
                s > 0 /\ Norm2(u) = 1 /\ hit.axis = Times(u, s) /\ hit.over = s * h
    BY SquareHit
<1>1. PICK u \in Vector : \E s, h \in Int :
        s > 0 /\ Norm2(u) = 1 /\ hit.axis = Times(u, s) /\ hit.over = s * h
    BY <1>0
<1>2. PICK s \in Int, h \in Int :
        s > 0 /\ Norm2(u) = 1 /\ hit.axis = Times(u, s) /\ hit.over = s * h
    BY <1>1
<1> DEFINE push == Times(u, h)
<1>3. /\ push \in Vector /\ Dot(push, hit.axis) = hit.over /\ hit.axis \in Vector
      /\ Over(Times(hit.axis, hit.over), Norm2(hit.axis)) = push
    <2>1. push \in Vector /\ Times(u, s) \in Vector
        BY <1>2, VectorProducts
    <2>2. /\ Over(Times(Times(u, s), s * h), Norm2(Times(u, s))) = push
          /\ Dot(push, Times(u, s)) = s * h
        BY <1>2, AlongUnit
    <2> QED BY <1>2, <2>1, <2>2
<1> HIDE DEF push
<1>4. ASSUME NEW half \in Vector
      PROVE  FindCollision(Translate(Body(p), Opposite(half)), Translate(Body(q), Minus(push, half))) = None
    <2> DEFINE back == Opposite(half)
               forth == Minus(push, half)
    <2>1. /\ Body(p) \in Polys /\ Convex(Body(p).points)
          /\ Body(q) \in Polys /\ Convex(Body(q).points)
        BY BodyFacts
    <2>2. back \in Vector /\ forth \in Vector
        BY <1>3, VectorSums
    <2>3. Dot(forth, hit.axis) - Dot(back, hit.axis) = hit.over
        <3> DEFINE x == Dot(half, hit.axis)
                   y == Dot(push, hit.axis)
        <3>1. x \in Int /\ y \in Int
            BY <1>3, VectorSums
        <3>2. Dot(forth, hit.axis) = y - x /\ Dot(back, hit.axis) = -x
            BY <1>3, Ways, OppositeFacts
        <3> HIDE DEF x
        <3>3. (y - x) - (-x) = y
            BY <3>1
        <3> QED BY <1>3, <3>2, <3>3
    <2> HIDE DEF back, forth
    <2>4. FindCollision(Translate(Body(p), back), Translate(Body(q), forth)) = None
        BY <1>0, <2>1, <2>2, <2>3, PushesSeparate
    <2> QED BY <2>4 DEF back, forth
<1> QED BY <1>2, <1>3, <1>4

-----------------------------------------------------------------------------
(* A pair of squares                                                       *)

\* A push, body by body.
LEMMA PushedIs ==
    ASSUME NEW w \in Arena, NEW e \in Alive, NEW half \in Vector
    PROVE  /\ Pushed(w, e, half) \in Arena
           /\ Pushed(w, e, half).vel = w.vel
           /\ Pushed(w, e, half).pos[e] = Plus(w.pos[e], half)
           /\ Pushed(w, e, half).shape[e] = Translate(w.shape[e], half)
           /\ \A x \in Alive : x # e => /\ Pushed(w, e, half).pos[x] = w.pos[x]
                                        /\ Pushed(w, e, half).shape[x] = w.shape[x]
<1> DEFINE pushed == Pushed(w, e, half)
           p == [w.pos EXCEPT ![e] = Plus(w.pos[e], half)]
           s == [w.shape EXCEPT ![e] = Translate(w.shape[e], half)]
<1>1. w.pos \in [Alive -> Vector] /\ w.vel \in [Alive -> Vector] /\ w.shape \in [Alive -> Polys]
    BY DEF Arena
<1>2. p \in [Alive -> Vector] /\ s \in [Alive -> Polys]
    BY <1>1, VectorSums, TranslateType
<1>3. pushed = [[w EXCEPT !.pos = p] EXCEPT !.shape = s]
    BY DEF Pushed, Arena
<1>4. /\ p[e] = Plus(w.pos[e], half) /\ s[e] = Translate(w.shape[e], half)
      /\ \A x \in Alive : x # e => p[x] = w.pos[x] /\ s[x] = w.shape[x]
    BY <1>1
<1> HIDE DEF pushed, p, s
<1>5. pushed \in Arena /\ pushed.pos = p /\ pushed.vel = w.vel /\ pushed.shape = s
    BY <1>2, <1>3 DEF Arena
<1> QED BY <1>4, <1>5 DEF pushed

\* An exchange, body by body.
LEMMA ExchangedIs ==
    ASSUME NEW w \in Arena, NEW pair, Living(pair), NEW impulse \in Vector
    PROVE  /\ Exchanged(w, pair, impulse) \in Arena
           /\ Exchanged(w, pair, impulse).pos = w.pos
           /\ Exchanged(w, pair, impulse).shape = w.shape
           /\ Exchanged(w, pair, impulse).vel[pair[1]] = Plus(w.vel[pair[1]], impulse)
           /\ Exchanged(w, pair, impulse).vel[pair[2]] = Minus(w.vel[pair[2]], impulse)
<1> DEFINE a == pair[1]
           b == pair[2]
           v == [[w.vel EXCEPT ![a] = Plus(w.vel[a], impulse)] EXCEPT ![b] = Minus(w.vel[b], impulse)]
           exchanged == Exchanged(w, pair, impulse)
<1>1. w.vel \in [Alive -> Vector] /\ a \in Alive /\ b \in Alive /\ a # b
    BY DEF Arena, Living
<1>2. v \in [Alive -> Vector] /\ v[a] = Plus(w.vel[a], impulse) /\ v[b] = Minus(w.vel[b], impulse)
    BY <1>1, VectorSums
<1>3. exchanged = [w EXCEPT !.vel = v]
    BY <1>1 DEF Exchanged, Arena
<1> HIDE DEF v, exchanged
<1>4. exchanged \in Arena /\ exchanged.pos = w.pos /\ exchanged.shape = w.shape /\ exchanged.vel = v
    BY <1>2, <1>3 DEF Arena
<1> QED BY <1>2, <1>4 DEF exchanged

\* Velocities of which the parts along a unit are exchanged.
LEMMA SpeedsExchanged ==
    ASSUME NEW va \in Vector, NEW vb \in Vector,
           NEW u \in Vector, Norm2(u) = 1, NEW s \in Int, s > 0,
           NEW axis, axis = Times(u, s),
           NEW impulse, impulse = Over(Times(axis, Dot(vb, axis) - Dot(va, axis)), Norm2(axis))
    PROVE  /\ impulse \in Vector
           /\ Dot(Plus(va, impulse), axis) = Dot(vb, axis)
           /\ Dot(Minus(vb, impulse), axis) = Dot(va, axis)
<1> DEFINE m == Minus(vb, va)
           d == Dot(m, u)
<1>1. axis \in Vector /\ m \in Vector /\ d \in Int
    BY VectorSums, VectorProducts
<1>2. Dot(vb, axis) - Dot(va, axis) = s * d
    <2>1. Dot(vb, axis) - Dot(va, axis) = Dot(m, axis)
        BY <1>1, Ways
    <2>2. Dot(m, axis) = s * d
        <3> HIDE DEF m
        <3> QED BY <1>1, DotTimes
    <2> QED BY <2>1, <2>2
<1> HIDE DEF d
<1>3. impulse = Times(u, d) /\ impulse \in Vector
    BY <1>1, <1>2, AlongUnit, VectorProducts
<1>4. Dot(impulse, axis) = s * d
    BY <1>1, <1>3, AlongUnit
<1>5. /\ Dot(Minus(vb, impulse), axis) = Dot(vb, axis) - Dot(impulse, axis)
      /\ Dot(Plus(va, impulse), axis) = Dot(va, axis) + Dot(impulse, axis)
    BY <1>1, <1>3, Ways, SameWay
<1> DEFINE x == Dot(vb, axis)
           y == Dot(va, axis)
           z == s * d
<1>6. x \in Int /\ y \in Int /\ z \in Int /\ x - y = z
    BY <1>1, <1>2, VectorSums
<1>7. Dot(Minus(vb, impulse), axis) = x - z /\ Dot(Plus(va, impulse), axis) = y + z
    BY <1>4, <1>5
<1> HIDE DEF x, y, z
<1>8. x - z = y /\ y + z = x
    BY <1>6
<1> QED BY <1>3, <1>7, <1>8 DEF x, y

\* Every body is a square.
Squared(polys) == \A e \in DOMAIN polys : \E p \in Vector : polys[e] = Body(p)

\* A pair, whatever other bodies there are: its shapes are parted and stay squares, and
\* the speeds along what parts them are exchanged.
LEMMA PairParts ==
    ASSUME Square, NEW w \in Arena, Squared(w.shape), NEW pair, Living(pair)
    PROVE  LET c == Collided(w, pair)
               hit == FindCollision(w.shape[pair[1]], w.shape[pair[2]])
               along(v) == Dot(v, hit.axis)
           IN  /\ c \in Arena /\ Squared(c.shape)
               /\ FindCollision(c.shape[pair[1]], c.shape[pair[2]]) = None
               /\ hit # None => along(c.vel[pair[1]]) = along(w.vel[pair[2]])
                                /\ along(c.vel[pair[2]]) = along(w.vel[pair[1]])
               /\ hit = None => c.vel = w.vel
<1> DEFINE a == pair[1]
           b == pair[2]
           c == Collided(w, pair)
           hit == FindCollision(w.shape[a], w.shape[b])
           push == Over(Times(hit.axis, hit.over), Norm2(hit.axis))
           va == w.vel[a]
           vb == w.vel[b]
           impulse == Over(Times(hit.axis, Dot(vb, hit.axis) - Dot(va, hit.axis)), Norm2(hit.axis))
           half == Over(push, 2)
           back == Opposite(half)
           forth == Minus(push, half)
           one == Pushed(w, a, back)
           both == Pushed(one, b, forth)
<1>1. /\ a \in Alive /\ b \in Alive /\ a # b
      /\ w.pos \in [Alive -> Vector] /\ w.vel \in [Alive -> Vector] /\ w.shape \in [Alive -> Polys]
    BY DEF Living, Arena
<1>2. c = IF hit = None THEN w ELSE Exchanged(both, pair, impulse)
    BY DEF Collided
<1>3. CASE hit = None
    <2>1. c = w
        BY <1>2, <1>3
    <2> HIDE DEF c, hit
    <2> QED BY <1>3, <2>1 DEF c, hit
<1>4. CASE hit # None
    <2>1. PICK p \in Vector, q \in Vector : w.shape[a] = Body(p) /\ w.shape[b] = Body(q)
        BY <1>1 DEF Squared
    <2>2. \E u \in Vector : \E s \in Int : \E t \in Vector :
             /\ s > 0 /\ Norm2(u) = 1 /\ hit.axis = Times(u, s) /\ push = t
             /\ \A x \in Vector : FindCollision(Translate(Body(p), Opposite(x)),
                                                Translate(Body(q), Minus(t, x))) = None
        <3>1. hit = FindCollision(Body(p), Body(q))
            BY <2>1
        <3> HIDE DEF hit
        <3> QED BY <1>4, <3>1, SquaresPart
    <2>3. PICK u \in Vector : \E s \in Int : \E t \in Vector :
             /\ s > 0 /\ Norm2(u) = 1 /\ hit.axis = Times(u, s) /\ push = t
             /\ \A x \in Vector : FindCollision(Translate(Body(p), Opposite(x)),
                                                Translate(Body(q), Minus(t, x))) = None
        BY <2>2
    <2>4. PICK s \in Int, t \in Vector :
             /\ s > 0 /\ Norm2(u) = 1 /\ hit.axis = Times(u, s) /\ push = t
             /\ \A x \in Vector : FindCollision(Translate(Body(p), Opposite(x)),
                                                Translate(Body(q), Minus(t, x))) = None
        BY <2>3
    <2> HIDE DEF hit, push
    <2>5. half \in Vector /\ back \in Vector /\ forth \in Vector
        <3>1. half \in Vector
            BY <2>4, VectorProducts
        <3> QED BY <2>4, <3>1, VectorSums
    <2> HIDE DEF half
    <2>6. FindCollision(Translate(Body(p), back), Translate(Body(q), forth)) = None
        BY <2>4, <2>5
    <2> HIDE DEF back, forth
    <2>7. va \in Vector /\ vb \in Vector
        BY <1>1
    <2> HIDE DEF va, vb
    <2>8. /\ impulse \in Vector
          /\ Dot(Plus(va, impulse), hit.axis) = Dot(vb, hit.axis)
          /\ Dot(Minus(vb, impulse), hit.axis) = Dot(va, hit.axis)
        <3> DEFINE axis == hit.axis
        <3>1. axis = Times(u, s) /\ s > 0 /\ Norm2(u) = 1
            BY <2>4
        <3>2. impulse = Over(Times(axis, Dot(vb, axis) - Dot(va, axis)), Norm2(axis))
            OBVIOUS
        <3> HIDE DEF impulse, axis
        <3>3. /\ impulse \in Vector
              /\ Dot(Plus(va, impulse), axis) = Dot(vb, axis)
              /\ Dot(Minus(vb, impulse), axis) = Dot(va, axis)
            BY <2>7, <3>1, <3>2, SpeedsExchanged
        <3> QED BY <3>3 DEF axis
    <2> HIDE DEF impulse
    <2>9. /\ one \in Arena /\ one.vel = w.vel
          /\ one.shape[a] = Translate(w.shape[a], back)
          /\ \A x \in Alive : x # a => one.shape[x] = w.shape[x]
        <3>1. a \in Alive
            BY <1>1
        <3> HIDE DEF a
        <3> QED BY <2>5, <3>1, PushedIs
    <2> HIDE DEF one
    <2>10. /\ both \in Arena /\ both.vel = w.vel
           /\ both.shape[a] = Translate(w.shape[a], back)
           /\ both.shape[b] = Translate(w.shape[b], forth)
           /\ \A x \in Alive : x # a /\ x # b => both.shape[x] = w.shape[x]
        <3>1. a \in Alive /\ b \in Alive /\ b # a
            BY <1>1
        <3> HIDE DEF a, b
        <3>2. /\ both \in Arena /\ both.vel = one.vel
              /\ both.shape[b] = Translate(one.shape[b], forth)
              /\ \A x \in Alive : x # b => both.shape[x] = one.shape[x]
            BY <2>5, <2>9, <3>1, PushedIs
        <3> HIDE DEF both
        <3> QED BY <2>9, <3>1, <3>2
    <2> HIDE DEF both
    <2>11. /\ c \in Arena
           /\ c.vel[a] = Plus(va, impulse) /\ c.vel[b] = Minus(vb, impulse)
           /\ c.shape = both.shape
        <3>1. c = Exchanged(both, pair, impulse)
            BY <1>2, <1>4
        <3> HIDE DEF c
        <3>2. /\ Exchanged(both, pair, impulse) \in Arena
              /\ Exchanged(both, pair, impulse).shape = both.shape
              /\ Exchanged(both, pair, impulse).vel[a] = Plus(both.vel[a], impulse)
              /\ Exchanged(both, pair, impulse).vel[b] = Minus(both.vel[b], impulse)
            BY <2>8, <2>10, ExchangedIs
        <3> QED BY <2>10, <3>1, <3>2 DEF va, vb
    <2> HIDE DEF c
    <2>12. FindCollision(c.shape[a], c.shape[b]) = None
        BY <2>1, <2>6, <2>10, <2>11
    <2>13. ASSUME NEW x \in Alive PROVE \E r \in Vector : c.shape[x] = Body(r)
        <3>1. CASE x = a
            <4>1. c.shape[x] = Translate(Body(p), back)
                BY <2>1, <2>10, <2>11, <3>1
            <4>2. Translate(Body(p), back) = Body(Plus(p, back)) /\ Plus(p, back) \in Vector
                BY <2>5, BodyMoved, VectorSums
            <4> QED BY <4>1, <4>2
        <3>2. CASE x = b
            <4>1. c.shape[x] = Translate(Body(q), forth)
                BY <2>1, <2>10, <2>11, <3>2
            <4>2. Translate(Body(q), forth) = Body(Plus(q, forth)) /\ Plus(q, forth) \in Vector
                BY <2>5, BodyMoved, VectorSums
            <4> QED BY <4>1, <4>2
        <3>3. CASE x # a /\ x # b
            BY <1>1, <2>10, <2>11, <3>3 DEF Squared
        <3> QED BY <3>1, <3>2, <3>3
    <2>14. Squared(c.shape)
        <3>1. DOMAIN c.shape = Alive
            BY <2>11 DEF Arena
        <3> QED BY <2>13, <3>1 DEF Squared
    <2> QED BY <1>4, <2>8, <2>11, <2>12, <2>14 DEF c, hit, va, vb
<1> QED BY <1>3, <1>4

\* The inductive invariant of squares.
SquareInv == MotionInv /\ Squared(shape)

\* What the collider does to a pair it comes to.
LEMMA ColliderParts ==
    ASSUME Square, SquareInv, PhysicalColliderSys, Living(Pair)
    PROVE  LET a == Pair[1]
               b == Pair[2]
               hit == FindCollision(shape[a], shape[b])
               along(v) == Dot(v, hit.axis)
           IN  /\ FindCollision(shape'[a], shape'[b]) = None
               /\ hit # None => along(vel'[a]) = along(vel[b]) /\ along(vel'[b]) = along(vel[a])
               /\ hit = None => vel' = vel
<1> DEFINE w == [pos |-> pos, vel |-> vel, shape |-> shape]
           c == Collided(w, Pair)
<1>1. vel' = c.vel /\ shape' = c.shape
    BY DEF PhysicalColliderSys, Become
<1>2. w \in Arena /\ w.shape = shape /\ w.vel = vel /\ Squared(w.shape)
    BY DEF SquareInv, MotionInv, MotionTyped, Arena
<1> HIDE DEF w
<1>3. LET hit == FindCollision(w.shape[Pair[1]], w.shape[Pair[2]])
          along(v) == Dot(v, hit.axis)
      IN  /\ FindCollision(c.shape[Pair[1]], c.shape[Pair[2]]) = None
          /\ hit # None => along(c.vel[Pair[1]]) = along(w.vel[Pair[2]])
                           /\ along(c.vel[Pair[2]]) = along(w.vel[Pair[1]])
          /\ hit = None => c.vel = w.vel
    BY <1>2, PairParts
<1> HIDE DEF c
<1> QED BY <1>1, <1>2, <1>3

\* Bodies that are squares stay squares, where the collider pushes them too.
LEMMA ColliderSquares == Square /\ SquareInv /\ PhysicalColliderSys => Squared(shape')
<1> SUFFICES ASSUME Square, SquareInv, PhysicalColliderSys PROVE Squared(shape')
    OBVIOUS
<1> DEFINE w == [pos |-> pos, vel |-> vel, shape |-> shape]
           c == Collided(w, Pair)
<1>1. shape' = c.shape
    BY DEF PhysicalColliderSys, Become
<1>2. w \in Arena /\ w.shape = shape /\ Squared(w.shape)
    BY DEF SquareInv, MotionInv, MotionTyped, Arena
<1> HIDE DEF w
<1>3. CASE Living(Pair)
    <2>1. Squared(c.shape)
        BY <1>2, <1>3, PairParts
    <2> QED BY <1>1, <2>1
<1>4. CASE ~Living(Pair)
    <2>1. c = w
        BY <1>4 DEF Collided
    <2> QED BY <1>1, <1>2, <2>1
<1> QED BY <1>3, <1>4

\* A simulation begins with squares.
LEMMA SquareInit == Init => SquareInv
<1> SUFFICES ASSUME Init PROVE SquareInv
    OBVIOUS
<1>1. MotionInv
    BY MotionInit
<1>2. PICK s \in Start :
        /\ pos = s.pos
        /\ shape = [e \in DOMAIN s.pos |-> Body(Minus(s.pos[e], Body(Zero).centroid))]
    BY DEF Init
<1>3. ASSUME NEW e \in DOMAIN shape PROVE \E p \in Vector : shape[e] = Body(p)
    <2>1. pos[e] \in Vector /\ shape[e] = Body(Minus(pos[e], Body(Zero).centroid))
        BY <1>1, <1>2, <1>3 DEF MotionInv, MotionTyped, Alive
    <2>2. Minus(pos[e], Body(Zero).centroid) \in Vector
        BY <2>1, VectorSums, BodyType
    <2> QED BY <2>1, <2>2
<1> QED BY <1>1, <1>3 DEF SquareInv, Squared

\* A body that comes is a square, as the one that it is cloned from.
LEMMA AddedSquare ==
    ASSUME SquareInv, NEW e, NEW p, NEW v, NEW s, Added(e, p, v, s), \E r \in Vector : s = Body(r)
    PROVE  Squared(shape')
<1>1. shape' = Put(shape, e, s)
    BY DEF Added
<1>2. DOMAIN shape' = DOMAIN shape \cup {e} /\ \A x \in DOMAIN shape' : shape'[x] = IF x = e THEN s ELSE shape[x]
    BY <1>1 DEF Put
<1> QED BY <1>2 DEF SquareInv, Squared

\* No step makes anything but squares.
LEMMA SquareNext == Square /\ SquareInv /\ [Next]_motionVars => SquareInv'
<1> SUFFICES ASSUME Square, SquareInv, [Next]_motionVars PROVE SquareInv'
    OBVIOUS
<1>1. MotionInv /\ MotionInv'
    BY MotionNext DEF SquareInv
<1>2. Squared(shape) /\ DOMAIN shape = Alive /\ vel \in [Alive -> Vector]
    BY <1>1 DEF SquareInv, MotionInv, MotionTyped
<1>3. ASSUME UNCHANGED shape PROVE Squared(shape')
    BY <1>2, <1>3
<1>4. CASE ShapeKineticSys
    <2>1. shape' = [e \in Alive |-> Translate(shape[e], vel[e])]
        BY <1>4 DEF ShapeKineticSys
    <2>2. ASSUME NEW e \in Alive PROVE \E p \in Vector : shape'[e] = Body(p)
        <3>1. PICK p \in Vector : shape[e] = Body(p)
            BY <1>2 DEF Squared
        <3>2. vel[e] \in Vector /\ shape'[e] = Translate(Body(p), vel[e])
            BY <1>2, <2>1, <3>1
        <3>3. Translate(Body(p), vel[e]) = Body(Plus(p, vel[e])) /\ Plus(p, vel[e]) \in Vector
            BY <3>2, BodyMoved, VectorSums
        <3> QED BY <3>2, <3>3
    <2>3. Squared(shape')
        BY <2>1, <2>2 DEF Squared
    <2> QED BY <1>1, <2>3 DEF SquareInv
<1>5. CASE PhysicalColliderSys
    <2>1. Squared(shape')
        BY <1>5, ColliderSquares
    <2> QED BY <1>1, <2>1 DEF SquareInv
<1>6. CASE \/ Dispatch \/ TranslationalKinematicSys \/ EdgeDeflectSys \/ GravitySys \/ LoopEnds
           \/ UNCHANGED motionVars \/ \E e \in Alive : Touch(e)
    <2>1. shape' = shape
        BY <1>6 DEF Dispatch, TranslationalKinematicSys, EdgeDeflectSys, GravitySys, LoopEnds,
                    Touch, motionVars, bodies
    <2>2. Squared(shape')
        BY <1>3, <2>1
    <2> QED BY <1>1, <2>2 DEF SquareInv
<1>7. CASE Maintain \/ \E e \in Alive : Delete(e)
    <2>1. PICK S \in SUBSET Alive : shape' = Restrict(shape, S)
        <3>1. CASE Maintain
            <4>1. shape' = Restrict(shape, Alive \ doomed)
                BY <3>1 DEF Maintain
            <4> QED BY <4>1
        <3>2. ASSUME NEW e \in Alive, Delete(e) PROVE \E S \in SUBSET Alive : shape' = Restrict(shape, S)
            <4>1. shape' = Restrict(shape, Alive \ {e})
                BY <1>2, <3>2 DEF Delete, Erase
            <4> QED BY <4>1
        <3> QED BY <1>7, <3>1, <3>2
    <2>2. Squared(shape')
        BY <1>2, <2>1 DEF Squared, Restrict
    <2> QED BY <1>1, <2>2 DEF SquareInv
<1>8. CASE \E e \in Entity, f \in Alive, v \in Velocity \ {Zero} : Clone(e, f, v)
    <2>1. PICK e \in Entity, f \in Alive, v \in Velocity : Added(e, pos[f], v, shape[f])
        BY <1>8 DEF Clone
    <2>2. \E r \in Vector : shape[f] = Body(r)
        BY <1>2 DEF Squared
    <2>3. Squared(shape')
        BY <2>1, <2>2, AddedSquare
    <2> QED BY <1>1, <2>3 DEF SquareInv
<1>9. CASE \E e \in Entity, p \in Places : Spawn(e, p)
    <2>1. PICK e \in Entity, p \in Places : Added(e, Body(p).centroid, Zero, Body(p))
        BY <1>9 DEF Spawn
    <2>2. p \in Vector
        BY VectorsAssumption DEF Vector
    <2>3. Squared(shape')
        BY <2>1, <2>2, AddedSquare
    <2> QED BY <1>1, <2>3 DEF SquareInv
<1> QED BY <1>4, <1>5, <1>6, <1>7, <1>8, <1>9 DEF Next, RunsSystem

-----------------------------------------------------------------------------
(* Theorems                                                                *)

\* The tables of the bodies have the same entities and hold vectors and polygons, what is
\* left of a round is the end of the order, and a loop over the pairs misses none.
THEOREM MotionTypeCorrect == Spec => [](MotionTyped /\ RoundInv /\ LoopInv)
<1>1. MotionInv => MotionTyped /\ RoundInv /\ LoopInv
    BY DEF MotionInv
<1> QED BY <1>1, MotionInit, MotionNext, PTL DEF Spec

\* In every order that moves a position and its shape one right after the other, shapes
\* are where their bodies are between rounds, whatever the bodies are, however many
\* collide and whatever is spawned, cloned, touched and deleted.
THEOREM ShapesFollow == Spec => []ShapeFollowsPos
<1>1. MotionInv => ShapeFollowsPos
    BY DEF MotionInv, FollowInv, ShapeFollowsPos, Halfway
<1> QED BY <1>1, MotionInit, MotionNext, PTL DEF Spec

\* Collisions and gravity keep the momentum with each pair that they come to, of however
\* many, and so over a round.
THEOREM MomentumIsKept == Spec => MomentumKept
<1>1. MotionInv /\ [Next]_motionVars =>
        [todo # <<>> /\ Head(todo) \notin {"edge_deflect", "maintain"}
            => SumOf(vel') = SumOf(vel)]_motionVars
    <2> SUFFICES ASSUME MotionInv, Next, todo # <<>>, Head(todo) \notin {"edge_deflect", "maintain"}
                 PROVE  SumOf(vel') = SumOf(vel)
        OBVIOUS
    <2>1. RunsSystem /\ ~EdgeDeflectSys
        BY DEF Next, RunsSystem, Dispatch, Maintain, Clone, Spawn, Added, Touch, Delete,
               EdgeDeflectSys, Run, Due
    <2>2. CASE TranslationalKinematicSys \/ ShapeKineticSys \/ LoopEnds
        BY <2>2 DEF TranslationalKinematicSys, ShapeKineticSys, LoopEnds, bodies
    <2>3. CASE PhysicalColliderSys
        BY <2>3, ColliderFacts
    <2>4. CASE GravitySys
        BY <2>4, GravityFacts
    <2> QED BY <2>1, <2>2, <2>3, <2>4 DEF RunsSystem
<1> QED BY <1>1, MotionInit, MotionNext, PTL DEF Spec, MomentumKept

\* Of however many bodies, all of them squares, the collider parts the shapes of each pair
\* when it comes to it, wherever the two are, and has them exchange their speeds along
\* what parts them; of bodies that do not overlap it leaves the speeds as they are.
THEOREM CollidersPart == ASSUME Square PROVE Spec => Separated
<1>1. Init => SquareInv
    BY SquareInit
<1>2. SquareInv /\ [Next]_motionVars => SquareInv'
    BY SquareNext
<1>3. SquareInv /\ [Next]_motionVars =>
        [PhysicalColliderSys /\ Living(Pair) =>
            LET a == Pair[1]
                b == Pair[2]
                hit == FindCollision(shape[a], shape[b])
                along(v) == Dot(v, hit.axis)
            IN  /\ FindCollision(shape'[a], shape'[b]) = None
                /\ hit # None => along(vel'[a]) = along(vel[b]) /\ along(vel'[b]) = along(vel[a])
                /\ hit = None => vel' = vel]_motionVars
    BY ColliderParts
<1> QED BY <1>1, <1>2, <1>3, PTL DEF Spec, Separated
=============================================================================
