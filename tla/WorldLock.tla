------------------------------ MODULE WorldLock ------------------------------
(***************************************************************************)
(* The three tasks of the physics service and the lock around the ECS      *)
(* world that they share: system_loop (physics_sim/src/main.rs), send_loop *)
(* and recv_loop (concierge_bot/src/service.rs).  Both loops keep their    *)
(* guard while they sleep, so that a task gets in only when the lock hands *)
(* it on.  tokio's RwLock serves its waiters first come, first served.     *)
(*                                                                         *)
(* Under a guard for reading, two tasks may borrow the storages of the     *)
(* world at once; a storage panics when one of them writes it meanwhile.   *)
(* What the handlers do to the entities is in PhysicsGame.tla.             *)
(***************************************************************************)
EXTENDS Integers, SequencesExt

CONSTANT InboxBound   \* bound of the model: messages on their way to the bot

ASSUME InboxAssumption == InboxBound \in Nat

VARIABLES
    queue,     \* tasks that wait for the lock, in the order in which they came
    holders,   \* tasks that have a guard
    at,        \* task -> "idle", "waiting", "working" or "ended"
    inbox,     \* kinds of the messages that the bot has not taken
    running,   \* FALSE after Ctrl-C
    started    \* system_loop has set up the world

lockVars == <<queue, holders, at, inbox, running, started>>

Task == {"system", "send", "recv"}
Storage == {"Id", "Owner", "Pos", "Vel", "Mass", "Shape", "Rgb"}
Kind == {"SPAWN_ENTITY", "TOUCH_ENTITY", "UNSUBSCRIBED", "FETCH_ENTITIES", "TOGGLE_COLOR"}

\* Slip: only what adds entities asks for the world to write.
WritesFew(t) ==
    \/ t = "system"
    \/ t = "recv" /\ Head(inbox) \in {"SPAWN_ENTITY", "TOUCH_ENTITY"}

\* world.write() rather than world.read().
Writes(t) ==
    \/ t = "system"
    \/ t = "recv" /\ Head(inbox) \in {"SPAWN_ENTITY", "TOUCH_ENTITY", "UNSUBSCRIBED"}

\* Storages that a task at work reads and those that it writes.
Reads(t) ==
    CASE t = "system" -> Storage
      [] t = "send"   -> {"Id", "Pos"}
      [] t = "recv"   -> CASE Head(inbox) = "FETCH_ENTITIES" -> {"Id", "Shape", "Rgb"}
                           [] Head(inbox) = "TOGGLE_COLOR"   -> {"Id"}
                           [] OTHER                          -> Storage
Changes(t) ==
    CASE t = "system" -> Storage
      [] t = "send"   -> {}
      [] t = "recv"   -> CASE Head(inbox) = "FETCH_ENTITIES" -> {}
                           [] Head(inbox) = "TOGGLE_COLOR"   -> {"Rgb"}
                           [] OTHER                          -> Storage

-----------------------------------------------------------------------------
(* The lock                                                                *)

Admits(t) == IF Writes(t) THEN holders = {} ELSE \A h \in holders : ~Writes(h)

Admit(t, rest) ==
    /\ queue' = rest
    /\ holders' = holders \cup {t}
    /\ at' = [at EXCEPT ![t] = "working"]
    /\ UNCHANGED <<inbox, running, started>>

\* Slip: a lock that lets in whoever fits.
GrantAnyone == \E t \in Range(queue) : Admits(t) /\ Admit(t, Remove(queue, t))

Grant == queue # <<>> /\ Admits(Head(queue)) /\ Admit(Head(queue), Tail(queue))

Ask(t) ==
    /\ at[t] = "idle"
    /\ queue' = Append(queue, t)
    /\ at' = [at EXCEPT ![t] = "waiting"]
    /\ UNCHANGED <<holders, inbox, running, started>>

\* The guard is dropped, by the end of a round or by a panic.
Drop(t, next) ==
    /\ at[t] = "working"
    /\ holders' = holders \ {t}
    /\ at' = [at EXCEPT ![t] = next]

-----------------------------------------------------------------------------
(* The tasks                                                               *)

\* The set-up takes the lock whether Ctrl-C was pressed or not, a round does not.
SystemAsks == (running \/ ~started) /\ Ask("system")

SystemRound ==
    /\ Drop("system", "idle")
    /\ started' = TRUE
    /\ UNCHANGED <<queue, inbox, running>>

\* Slip: the other tasks outlive main.
SystemEndsAlone ==
    /\ at["system"] = "idle" /\ started /\ ~running
    /\ at' = [at EXCEPT !["system"] = "ended"]
    /\ UNCHANGED <<queue, holders, inbox, running, started>>

\* main returns, and the other tasks end with it.
SystemEnds ==
    /\ at["system"] = "idle" /\ started /\ ~running
    /\ at' = [t \in Task |-> "ended"]
    /\ queue' = <<>> /\ holders' = {} /\ inbox' = <<>>
    /\ UNCHANGED <<running, started>>

SendAsks == running /\ Ask("send")

\* The dump, and the sleep after it.
SendRound ==
    /\ Drop("send", "idle")
    /\ UNCHANGED <<queue, inbox, running, started>>

SendEnds ==
    /\ at["send"] = "idle" /\ ~running
    /\ at' = [at EXCEPT !["send"] = "ended"]
    /\ UNCHANGED <<queue, holders, inbox, running, started>>

Arrive(kind) ==
    /\ at["recv"] # "ended"
    /\ Len(inbox) < InboxBound
    /\ inbox' = Append(inbox, kind)
    /\ UNCHANGED <<queue, holders, at, running, started>>

RecvAsks == inbox # <<>> /\ Ask("recv")

RecvHandles ==
    /\ Drop("recv", "idle")
    /\ Head(inbox) = "SPAWN_ENTITY" => started
    /\ inbox' = Tail(inbox)
    /\ UNCHANGED <<queue, running, started>>

\* The lists are not there before the set-up: write_resource panics, the guard is
\* dropped and the task is gone.
RecvPanics ==
    /\ Drop("recv", "ended")
    /\ Head(inbox) = "SPAWN_ENTITY" /\ ~started
    /\ inbox' = <<>>
    /\ UNCHANGED <<queue, running, started>>

Interrupt ==
    /\ running
    /\ running' = FALSE
    /\ UNCHANGED <<queue, holders, at, inbox, started>>

-----------------------------------------------------------------------------
LockInit ==
    /\ queue = <<>> /\ holders = {}
    /\ at = [t \in Task |-> "idle"]
    /\ inbox = <<>>
    /\ running = TRUE /\ started = FALSE

System == SystemAsks \/ SystemRound \/ SystemEnds
SendLoop == SendAsks \/ SendRound \/ SendEnds
RecvLoop == RecvAsks \/ RecvHandles \/ RecvPanics

LockNext ==
    \/ System \/ SendLoop \/ RecvLoop
    \/ Grant
    \/ \E kind \in Kind : Arrive(kind)
    \/ Interrupt

LockSpec == LockInit /\ [][LockNext]_lockVars

\* The runtime polls every task that is ready, and the lock wakes its first waiter.
LockFairness ==
    /\ WF_lockVars(System) /\ WF_lockVars(SendLoop) /\ WF_lockVars(RecvLoop)
    /\ WF_lockVars(Grant)

FairLockSpec == LockSpec /\ LockFairness

-----------------------------------------------------------------------------
(* Properties                                                              *)

\* Whoever waits stands in the queue once, and whoever works has a guard.
LockTypeOK ==
    /\ at \in [Task -> {"idle", "waiting", "working", "ended"}]
    /\ inbox \in Seq(Kind) /\ Len(inbox) <= InboxBound
    /\ running \in BOOLEAN /\ started \in BOOLEAN
    /\ IsInjective(queue)
    /\ Range(queue) = {t \in Task : at[t] = "waiting"}
    /\ holders = {t \in Task : at[t] = "working"}

\* No storage is written by one task while another has it, for which specs panics: the
\* handlers that take the world for reading touch nothing that send_loop holds.
NoBorrowClash ==
    \A t, u \in holders : t # u => Changes(t) \cap (Reads(u) \cup Changes(u)) = {}

\* Every task that waits gets its turn, though two of the three sleep with the lock.
NobodyStarves == \A t \in Task : at[t] = "waiting" ~> at[t] # "waiting"

InterruptEnds == ~running ~> \A t \in Task : at[t] = "ended"
=============================================================================
