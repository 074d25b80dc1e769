-------------------------- MODULE SessionLifecycle --------------------------
(***************************************************************************)
(* The world server of WorldSessions composed with the map server of the   *)
(* repository: the two ends of a player's session.  The map server reads    *)
(* one world link sequentially; a SessionBegin makes (or replaces) the      *)
(* session, the client entry and the player's actor, a SessionEnd removes   *)
(* them and answers with error code 1.                                      *)
(***************************************************************************)
EXTENDS WorldSessions

CONSTANT
  CharacterLoads  \* whether load_player_character may succeed or fail

(* The code of the map server's end reply is one a zone server may send. *)
ASSUME ReplyAssumption == 1 \in ConfirmCodes

ASSUME LoadAssumption == CharacterLoads \subseteq BOOLEAN

VARIABLE
  mapLive   \* sessions (with their client and actor) of each map server

lifeVars == <<vars, mapLive>>

LifeInit == Init /\ mapLive = [v \in Servers |-> {}]
----------------------------------------------------------------------------
(* PacketProcessor::handle_session_begin; no reply is sent. *)
MapSessionBegin(v) ==
  /\ Receive(v, "begin")
  /\ \E loaded \in CharacterLoads :
       mapLive' = IF loaded THEN [mapLive EXCEPT ![v] = @ \cup {Head(toMap[v]).id}]
                  ELSE mapLive
  /\ UNCHANGED fromMap

(* The reply of handle_session_end: error_code 1, destination_zone 0. *)
EndReply(id) == [type |-> "end_confirm", id |-> id, err |-> 1, dest |-> None]

(* Mutants: an end clears the table of every player; the session is kept. *)
RemoveEverySession(v, id) == {}
RemoveNoSession(v, id) == mapLive[v]

RemoveSession(v, id) == mapLive[v] \ {id}

(* PacketProcessor::handle_session_end: whoever asks, the session goes. *)
MapSessionEnd(v) ==
  /\ Receive(v, "end")
  /\ LET id == Head(toMap[v]).id
     IN  /\ mapLive' = [mapLive EXCEPT ![v] = RemoveSession(v, id)]
         /\ Reply(v, EndReply(id))

MapServer(v) ==
  /\ MapSessionBegin(v) \/ MapSessionEnd(v)
  /\ UNCHANGED <<connVars, tableVars, linkVars, begun, changes, readVars>>

(* The link fails and the map server lives on, keeping its sessions; or the *)
(* map server process ends and loses them.                                  *)
LinkLoss(v) == ZoneDrop(v) /\ UNCHANGED mapLive

MapCrash(v) == ZoneDrop(v) /\ mapLive' = [mapLive EXCEPT ![v] = {}]

LifeNext ==
  \/ WorldNext /\ UNCHANGED mapLive
  \/ \E v \in Servers : MapServer(v) \/ LinkLoss(v) \/ MapCrash(v)

LifeSpec == LifeInit /\ [][LifeNext]_lifeVars

(* The tasks of both servers run; see Fairness. *)
LifeFairness ==
  /\ \A c \in Conns :
       /\ WF_lifeVars(Task(c) /\ UNCHANGED mapLive)
       /\ SF_lifeVars(Shutdown(c) /\ UNCHANGED mapLive)
  /\ \A v \in Servers :
       /\ WF_lifeVars(Link(v) /\ UNCHANGED mapLive)
       /\ WF_lifeVars(Reader(v) /\ UNCHANGED mapLive)
       /\ WF_lifeVars(MapServer(v))

(* The same from the state that start-up leads to before the first client:  *)
(* every endpoint is connected and routed.  With MaxEpoch = 1 it stays so.  *)
SteadyInit ==
  /\ ConnInit /\ TableInit /\ WireInit
  /\ link = [v \in Servers |-> <<v, 1>>]
  /\ zoneRouting = [v \in Servers |-> <<v, 1>>]
  /\ epoch = [v \in Servers |-> 1]
  /\ mapLive = [v \in Servers |-> {}]

SteadySpec == SteadyInit /\ [][LifeNext]_lifeVars
LiveSteadySpec == SteadySpec /\ LifeFairness
----------------------------------------------------------------------------
(* No task is inside a handler and nothing is on the wire. *)
Quiet ==
  /\ \A c \in Conns : pc[c] \in {"idle", "read", "done"}
  /\ \A v \in Servers : toMap[v] = <<>> /\ fromMap[v] = <<>> /\ rpc[v] = "ready"

(* Whenever both servers are at rest, a session of the map server belongs   *)
(* to a registered session of the world server: no login, duplicate login,  *)
(* eviction or disconnect leaves a player's actor behind (from a routed     *)
(* start, and as long as the link holds).                                   *)
NeverLost(v) == link[v] = <<v, 1>>

NoGhostSession ==
  Quiet => \A v \in Servers : NeverLost(v) =>
    \A id \in mapLive[v] : reg[<<"zone", id>>] # None

(* Once every client is gone the map server's sessions end, unless another  *)
(* client comes or the link is lost.                                        *)
Gone(c) == pc[c] \in {"idle", "done"}
AbandonedSessionsEnd ==
  (\A c \in Conns : Gone(c)) ~>
    ((\A v \in Servers : NeverLost(v) => mapLive[v] = {}) \/ \E c \in Conns : ~Gone(c))

(* Whenever both servers are at rest, a registered zone session routed over *)
(* the live link has its session on the map server, for every id only one   *)
(* connection ever claimed: link failures, map restarts, repeated hellos    *)
(* and what other players do never cost such a player the map session.      *)
Contested(id) ==
  \E c, d \in Conns : c # d /\ <<"zone", id>> \in Claimed(c) \cap Claimed(d)

Attached(id) ==
  \A v \in Servers : LET s == reg[<<"zone", id>>] IN
    s # None /\ routing1[s] # None /\ routing1[s] = link[v] => id \in mapLive[v]

UncontestedSessionIsAttached ==
  Quiet => \A id \in Ids : ~Contested(id) => Attached(id)

(* "a duplicate login supersedes the stale connection cleanly": whenever    *)
(* both servers are at rest, a registered zone session routed over the live *)
(* link has its session on the map server.                                  *)
LiveSessionHasMapSession == Quiet => \A id \in Ids : Attached(id)
=============================================================================
