------------------------------ MODULE Directory ------------------------------
(***************************************************************************)
(* What the concierge promises, without its tables: who is connected under *)
(* which name, who owns which service and who is subscribed to it.  Every  *)
(* operation is atomic, a departure takes everything the member held with  *)
(* it, and an identity is used once.  Concierge.tla is checked and proved  *)
(* to implement this specification.                                        *)
(***************************************************************************)
CONSTANTS Uuid, Name, Service

VARIABLES
    members,     \* <<uuid, name>>: the member is present under that name
    owns,        \* <<uuid, service>>: the member owns that service
    subscribed,  \* <<uuid, service>>: the member is subscribed to it
    departed     \* identities that were used and are gone

vars == <<members, owns, subscribed, departed>>

Present == {m[1] : m \in members}
Taken   == {m[2] : m \in members}
Offered == {o[2] : o \in owns}

Init == members = {} /\ owns = {} /\ subscribed = {} /\ departed = {}

Join(u, n) ==
    /\ u \notin Present \cup departed
    /\ n \notin Taken
    /\ members' = members \cup {<<u, n>>}
    /\ UNCHANGED <<owns, subscribed, departed>>

Leave(u) ==
    /\ u \in Present
    /\ members' = {m \in members : m[1] # u}
    /\ owns' = {o \in owns : o[1] # u}
    /\ subscribed' = {b \in subscribed : b[1] # u /\ <<u, b[2]>> \notin owns}
    /\ departed' = departed \cup {u}

Create(u, s) ==
    /\ u \in Present
    /\ s \notin Offered
    /\ owns' = owns \cup {<<u, s>>}
    /\ UNCHANGED <<members, subscribed, departed>>

Delete(u, s) ==
    /\ <<u, s>> \in owns
    /\ owns' = owns \ {<<u, s>>}
    /\ subscribed' = {b \in subscribed : b[2] # s}
    /\ UNCHANGED <<members, departed>>

Subscribe(u, s) ==
    /\ u \in Present
    /\ s \in Offered
    /\ subscribed' = subscribed \cup {<<u, s>>}
    /\ UNCHANGED <<members, owns, departed>>

Unsubscribe(u, s) ==
    /\ <<u, s>> \in subscribed
    /\ subscribed' = subscribed \ {<<u, s>>}
    /\ UNCHANGED <<members, owns, departed>>

Next ==
    \E u \in Uuid :
        \/ \E n \in Name : Join(u, n)
        \/ Leave(u)
        \/ \E s \in Service : Create(u, s) \/ Delete(u, s)
                              \/ Subscribe(u, s) \/ Unsubscribe(u, s)

Spec == Init /\ [][Next]_vars
=============================================================================
