-------------------------- MODULE SessionOwnership --------------------------
(***************************************************************************)
(* What the world server promises about the ownership of sessions: a key   *)
(* (channel, session id) has at most one owner, a live connection claims   *)
(* it, and it is given up only by an owner that leaves, by a newcomer that *)
(* found this very owner, or by decree of the zone server.  A connection   *)
(* is told to leave only by such a newcomer, and is gone only when it owns *)
(* nothing.  The locks, queues and routes of WorldSessions are left out.   *)
(***************************************************************************)
EXTENDS FiniteSets

CONSTANTS Conns, Keys, None

VARIABLES
    owner,  \* who owns each key, or None
    life,   \* how far each connection is
    rival,  \* the owner a newcomer found and replaces, or None
    told,   \* the connections told to leave
    decree  \* the keys whose end the zone server has confirmed

abstract == <<owner, life, rival, told, decree>>

Init ==
    /\ owner = [k \in Keys |-> None]
    /\ life = [c \in Conns |-> "new"]
    /\ rival = [c \in Conns |-> None]
    /\ told = {} /\ decree = {}

Connect(c) ==
    /\ life[c] = "new"
    /\ life' = [life EXCEPT ![c] = "live"]
    /\ UNCHANGED <<owner, rival, told, decree>>

Challenge(c, k) ==
    /\ life[c] = "live" /\ rival[c] = None /\ owner[k] \notin {None, c}
    /\ rival' = [rival EXCEPT ![c] = owner[k]]
    /\ UNCHANGED <<owner, life, told, decree>>

Tell(c) ==
    /\ rival[c] # None
    /\ told' = told \cup {rival[c]}
    /\ rival' = [rival EXCEPT ![c] = None]
    /\ UNCHANGED <<owner, life, decree>>

\* Two newcomers may both have found the key free: the later one has it.
Claim(c, k) ==
    /\ life[c] = "live" /\ rival[c] = None
    /\ owner' = [owner EXCEPT ![k] = c]
    /\ UNCHANGED <<life, rival, told, decree>>

Leave(c) ==
    /\ life[c] = "live" /\ rival[c] = None
    /\ life' = [life EXCEPT ![c] = "leaving"]
    /\ told' \in {told, told \ {c}}
    /\ UNCHANGED <<owner, rival, decree>>

Release(k) ==
    /\ owner[k] # None
    /\ life[owner[k]] = "leaving" \/ \E d \in Conns : rival[d] = owner[k]
    /\ owner' = [owner EXCEPT ![k] = None]
    /\ UNCHANGED <<life, rival, told, decree>>

Decree(ks) ==
    /\ decree' = decree \cup ks
    /\ UNCHANGED <<owner, life, rival, told>>

Revoke(k) ==
    /\ k \in decree
    /\ owner' = [owner EXCEPT ![k] = None]
    /\ decree' \in {decree, decree \ {k}}
    /\ UNCHANGED <<life, rival, told>>

Gone(c) ==
    /\ life[c] = "leaving" /\ \A k \in Keys : owner[k] # c
    /\ life' = [life EXCEPT ![c] = "gone"]
    /\ UNCHANGED <<owner, rival, told, decree>>

Next ==
    \/ \E c \in Conns : Connect(c) \/ Tell(c) \/ Leave(c) \/ Gone(c)
    \/ \E c \in Conns, k \in Keys : Challenge(c, k) \/ Claim(c, k)
    \/ \E k \in Keys : Release(k) \/ Revoke(k)
    \/ \E ks \in SUBSET Keys : Decree(ks)

Spec == Init /\ [][Next]_abstract
=============================================================================
