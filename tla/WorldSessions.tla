--------------------------- MODULE WorldSessions ---------------------------
(***************************************************************************)
(* The world server's session registry (world-server/src/server.rs,        *)
(* processor.rs, data.rs, world_master.rs) and the tasks that share it:    *)
(*                                                                         *)
(*  - one task per accepted client socket, which handles the hello of a    *)
(*    login (evicting the previous owner of the session id) and, whatever  *)
(*    ends its read loop, tears down the sessions it owns;                 *)
(*  - one task per zone server endpoint, which supervises the link,        *)
(*    registers it for routing and handles the control packets            *)
(*    (type >= 0x1000) the zone server sends back.                         *)
(*                                                                         *)
(* Every lock().await and every queue send is a step of its own: between   *)
(* two of them any other task may run.  A session object (the code's       *)
(* Arc<Session>) is named <<c, n>>, the object made by the n-th hello of   *)
(* connection c, so that two holders of one Arc see the same routing1.     *)
(*                                                                         *)
(* The zone server itself is external to this module: it consumes what the *)
(* world server sends and answers within the protocol.  SessionLifecycle   *)
(* composes this module with the map server of the repository instead.     *)
(***************************************************************************)
EXTENDS Naturals, Sequences, FiniteSets

CONSTANTS
  Conns,         \* connections; each stands for its unique conn_seq
  Ids,           \* session ids (character ids)
  Servers,       \* zone server endpoints
  None,          \* the code's None
  HelloZones,    \* where the character row may place a login (None: no row)
  ConfirmCodes,  \* error codes a zone server may put in a 0x1001 confirm
  LoginChannels, \* the channels clients log in on
  MaxHello,      \* bound: hellos per connection
  MaxEpoch,      \* bound: links per endpoint
  MaxChange,     \* bound: 0x1002 requests per endpoint
  QueueDepth     \* bound: SEND_QUEUE_DEPTH of the outbound queue

Channels == {"zone", "chat"}

ASSUME BoundsAssumption ==
  /\ MaxHello \in Nat \ {0}
  /\ MaxEpoch \in Nat \ {0}
  /\ MaxChange \in Nat
  /\ QueueDepth \in Nat \ {0}

ASSUME NoneAssumption ==
  /\ None \notin Conns
  /\ None \notin Servers
  /\ None \notin Channels \X Ids
  /\ None \notin Conns \X (1..MaxHello)
  /\ None \notin Servers \X (1..MaxEpoch)
  /\ HelloZones \subseteq Servers \cup {None}

ASSUME InputAssumption ==
  /\ LoginChannels \subseteq Channels
  /\ ConfirmCodes \subseteq Nat

VARIABLES
  pc,         \* where each connection's task stands
  arg,        \* the (channel, id) the task is working on
  old,        \* the session object the task looked up
  dst,        \* the ZoneServerHandle the task is about to send to
  todo,       \* sessions a disconnect has still to visit
  hellos,     \* hellos received per connection
  owned,      \* ClientHandle.owned
  notified,   \* ClientHandle.shutdown holds a permit
  reg,        \* SessionRegistry.zone and .chat
  pending,    \* SessionRegistry.pending_session_ends
  routing1,   \* SessionState.routing1 of every session object
  zoneRouting,\* WorldMaster.zone_routing
  link,       \* the live link of an endpoint, or None
  epoch,      \* links opened so far per endpoint
  toMap,      \* ZoneServerHandle.outbound of the live link
  begun,      \* history: the (link, id) a SessionBegin was queued for
  fromMap,    \* control packets on their way from the zone server
  changes,    \* 0x1002 requests issued so far per endpoint
  rpc,        \* where each endpoint's reader stands
  rmsg,       \* the control packet it handles
  rses,       \* the session object it looked up
  rdst,       \* the handle it is about to send to
  rrec        \* the pending-end record it took

connVars  == <<pc, arg, old, dst, todo, hellos, owned, notified>>
tableVars == <<reg, pending, routing1>>
linkVars  == <<zoneRouting, link, epoch>>
wireVars  == <<toMap, begun, fromMap>>
readVars  == <<rpc, rmsg, rses, rdst, rrec>>
vars == <<connVars, tableVars, linkVars, wireVars, changes, readVars>>

Keys     == Channels \X Ids
Sessions == Conns \X (1..MaxHello)
Handles  == Servers \X (1..MaxEpoch)

HelloPCs == {"route", "begin", "lookup", "evict_mark", "evict_send",
             "evict_remove", "evict_notify", "add", "own"}
EvictPCs == {"evict_mark", "evict_send", "evict_remove", "evict_notify"}
DiscPCs  == {"disc", "disc_mark", "disc_send", "disc_remove"}
PCs      == {"idle", "read", "done"} \cup HelloPCs \cup DiscPCs
ReadPCs  == {"ready", "end_confirm", "take", "current", "rm_zone", "rm_chat",
             "begin", "set_route", "change", "change_send"}

(* Packets world -> zone server: SessionBegin, SessionEnd (dest = None) *)
(* and SessionEnd with a destination zone.                                  *)
ToMapMsg == [type : {"begin", "end"}, id : Ids, dest : Servers \cup {None}]

(* Control packets zone server -> world: 0x1001 and 0x1002. *)
FromMapMsg == [type : {"end_confirm", "zone_change"},
               id : Ids, err : Nat, dest : Servers \cup {None}]

BeginMsg(id)      == [type |-> "begin", id |-> id, dest |-> None]
EndMsg(id)        == [type |-> "end", id |-> id, dest |-> None]
EndToMsg(id, srv) == [type |-> "end", id |-> id, dest |-> srv]

ConnOf(s) == s[1]
----------------------------------------------------------------------------
ConnInit ==
  /\ pc = [c \in Conns |-> "idle"]
  /\ arg = [c \in Conns |-> None]
  /\ old = [c \in Conns |-> None]
  /\ dst = [c \in Conns |-> None]
  /\ todo = [c \in Conns |-> {}]
  /\ hellos = [c \in Conns |-> 0]
  /\ owned = [c \in Conns |-> {}]
  /\ notified = [c \in Conns |-> FALSE]

TableInit ==
  /\ reg = [k \in Keys |-> None]
  /\ pending = [id \in Ids |-> None]
  /\ routing1 = [s \in Sessions |-> None]

LinkInit ==
  /\ zoneRouting = [v \in Servers |-> None]
  /\ link = [v \in Servers |-> None]
  /\ epoch = [v \in Servers |-> 0]

WireInit ==
  /\ toMap = [v \in Servers |-> <<>>]
  /\ begun = {}
  /\ fromMap = [v \in Servers |-> <<>>]
  /\ changes = [v \in Servers |-> 0]
  /\ rpc = [v \in Servers |-> "ready"]
  /\ rmsg = [v \in Servers |-> None]
  /\ rses = [v \in Servers |-> None]
  /\ rdst = [v \in Servers |-> None]
  /\ rrec = [v \in Servers |-> None]

Init == ConnInit /\ TableInit /\ LinkInit /\ WireInit
----------------------------------------------------------------------------
(* ZoneServerHandle::send_bytes: the send waits for room in the queue of a  *)
(* live link; on a link that is gone the packet is dropped.                 *)
Send(h, msg) ==
  /\ link[h[1]] = h => Len(toMap[h[1]]) < QueueDepth
  /\ toMap' = IF link[h[1]] = h
              THEN [toMap EXCEPT ![h[1]] = Append(@, msg)] ELSE toMap
  /\ begun' = IF msg.type = "begin" THEN begun \cup {<<h, msg.id>>} ELSE begun

(* Mutant: the removal that does not compare. *)
RemoveAlways(k, c) == [reg EXCEPT ![k] = None]

(* SessionRegistry::remove_if: compare-and-remove by conn_seq. *)
RemoveIf(k, c) ==
  IF reg[k] # None /\ ConnOf(reg[k]) = c
  THEN [reg EXCEPT ![k] = None] ELSE reg

GoTo(c, where) == pc' = [pc EXCEPT ![c] = where]

(* The handler is over; its locals are gone. *)
DropLocals(c) ==
  /\ arg' = [arg EXCEPT ![c] = None]
  /\ old' = [old EXCEPT ![c] = None]
  /\ dst' = [dst EXCEPT ![c] = None]

Mine(c) == <<c, hellos[c]>>

(* Steps that a login's eviction and a disconnect share: put a packet on    *)
(* the link chosen before; record whose end is requested and read the       *)
(* route to request it on, if the session has one.                          *)
SendStep(c, from, msg, to) ==
  /\ pc[c] = from
  /\ Send(dst[c], msg)
  /\ GoTo(c, to)
  /\ UNCHANGED <<arg, old, dst, todo, hellos, owned, notified, tableVars>>

MarkStep(c, from, who, send, skip) ==
  /\ pc[c] = from
  /\ LET h == routing1[old[c]]
     IN  IF h = None
         THEN GoTo(c, skip) /\ UNCHANGED <<dst, pending>>
         ELSE /\ GoTo(c, send)
              /\ dst' = [dst EXCEPT ![c] = h]
              /\ pending' = [pending EXCEPT ![arg[c][2]] = who]
  /\ UNCHANGED <<arg, old, todo, hellos, owned, notified, reg, routing1,
                 toMap, begun>>
----------------------------------------------------------------------------
(* The connection task: handle_connection, handle_hello,                   *)
(* end_existing_session.                                                   *)

Accept(c) ==
  /\ pc[c] = "idle"
  /\ GoTo(c, "read")
  /\ UNCHANGED <<arg, old, dst, todo, hellos, owned, notified, tableVars,
                 toMap, begun>>

(* A hello packet is read: a fresh Session object is made for it. *)
RecvHello(c, k) ==
  /\ pc[c] = "read"
  /\ hellos[c] < MaxHello
  /\ hellos' = [hellos EXCEPT ![c] = @ + 1]
  /\ arg' = [arg EXCEPT ![c] = k]
  /\ GoTo(c, IF k[1] = "zone" THEN "route" ELSE "lookup")
  /\ UNCHANGED <<old, dst, todo, owned, notified, tableVars, toMap, begun>>

(* Mutant: the handle is used without asking whether there is one. *)
AfterRouteUnchecked(h) == "begin"

AfterRoute(h) == IF h = None THEN "lookup" ELSE "begin"

(* The character row names the zone (or cannot be read: None), and          *)
(* zone_server_for gives its current handle, if one is registered.          *)
HelloRoute(c) ==
  /\ pc[c] = "route"
  /\ \E z \in HelloZones :
       LET h == IF z = None THEN None ELSE zoneRouting[z]
       IN  /\ routing1' = [routing1 EXCEPT ![Mine(c)] = h]
           /\ dst' = [dst EXCEPT ![c] = h]
           /\ GoTo(c, AfterRoute(h))
  /\ UNCHANGED <<arg, old, todo, hellos, owned, notified, reg, pending,
                 toMap, begun>>

(* SessionBegin goes to the zone server before the old owner is looked up. *)
HelloBegin(c) == SendStep(c, "begin", BeginMsg(arg[c][2]), "lookup")

(* Mutant: a resent hello is taken for a takeover. *)
IsNeverResend(s, c) == FALSE

(* A hello on the connection that owns the session already: not evicted. *)
IsResend(s, c) == ConnOf(s) = c

HelloLookup(c) ==
  /\ pc[c] = "lookup"
  /\ LET s == reg[arg[c]]
     IN  /\ old' = [old EXCEPT ![c] = s]
         /\ GoTo(c, IF s = None \/ IsResend(s, c) THEN "add"
                    ELSE IF arg[c][1] = "zone" THEN "evict_mark" ELSE "evict_remove")
  /\ UNCHANGED <<arg, dst, todo, hellos, owned, notified, tableVars, toMap,
                 begun>>

(* Mutant: the record names the newcomer instead of the evicted. *)
EvictMarkNewcomer(c) ==
  MarkStep(c, "evict_mark", c, "evict_send", "evict_remove")

EvictMark(c) ==
  MarkStep(c, "evict_mark", ConnOf(old[c]), "evict_send", "evict_remove")

EvictSend(c) == SendStep(c, "evict_send", EndMsg(arg[c][2]), "evict_remove")

EvictRemove(c) ==
  /\ pc[c] = "evict_remove"
  /\ reg' = RemoveIf(arg[c], ConnOf(old[c]))
  /\ GoTo(c, "evict_notify")
  /\ UNCHANGED <<arg, old, dst, todo, hellos, owned, notified, pending,
                 routing1, toMap, begun>>

(* shutdown.notify_one stores a permit when the old task is not waiting. *)
EvictNotify(c) ==
  /\ pc[c] = "evict_notify"
  /\ notified' = [notified EXCEPT ![ConnOf(old[c])] = TRUE]
  /\ GoTo(c, "add")
  /\ UNCHANGED <<arg, old, dst, todo, hellos, owned, tableVars, toMap, begun>>

HelloAdd(c) ==
  /\ pc[c] = "add"
  /\ reg' = [reg EXCEPT ![arg[c]] = Mine(c)]
  /\ GoTo(c, "own")
  /\ UNCHANGED <<arg, old, dst, todo, hellos, owned, notified, pending,
                 routing1, toMap, begun>>

(* Mutant: the session is not noted. *)
NotNoted(c) == owned[c]

(* ClientHandle::note_owned. *)
NoteOwned(c) == owned[c] \cup {arg[c]}

HelloOwn(c) ==
  /\ pc[c] = "own"
  /\ owned' = [owned EXCEPT ![c] = NoteOwned(c)]
  /\ GoTo(c, "read")
  /\ DropLocals(c)
  /\ UNCHANGED <<todo, hellos, notified, tableVars, toMap, begun>>

Hello(c) ==
  \/ HelloRoute(c) \/ HelloBegin(c) \/ HelloLookup(c) \/ EvictMark(c)
  \/ EvictSend(c) \/ EvictRemove(c) \/ EvictNotify(c) \/ HelloAdd(c)
  \/ HelloOwn(c)
----------------------------------------------------------------------------
(* The end of the read loop: EOF or a read error, or the shutdown branch of *)
(* the select; either way one handle_disconnect follows.                    *)

LeaveLoop(c) ==
  /\ pc[c] = "read"
  /\ GoTo(c, "disc")
  /\ todo' = [todo EXCEPT ![c] = owned[c]]
  /\ UNCHANGED <<arg, old, dst, hellos, owned, tableVars, toMap, begun>>

PeerClose(c) == LeaveLoop(c) /\ UNCHANGED notified

(* Mutant: the select has no shutdown branch. *)
NoSuperseded(c) == FALSE

Superseded(c) ==
  /\ notified[c]
  /\ LeaveLoop(c)
  /\ notified' = [notified EXCEPT ![c] = FALSE]

(* Mutant: the teardown drops the entry without telling the zone server. *)
TeardownSilent(k) == "disc_remove"

Teardown(k) == IF k[1] = "zone" THEN "disc_mark" ELSE "disc_remove"

(* The loop of handle_disconnect.  The order of `owned` is not modelled: any *)
(* of the remaining pairs may be next; one that is gone or taken over by a  *)
(* newer connection is skipped.                                             *)
DiscNext(c) ==
  /\ pc[c] = "disc"
  /\ \/ /\ todo[c] = {}
        /\ GoTo(c, "done")
        /\ UNCHANGED <<arg, old, todo>>
     \/ \E k \in todo[c] :
          IF reg[k] = None \/ ConnOf(reg[k]) # c
          THEN /\ todo' = [todo EXCEPT ![c] = @ \ {k}]
               /\ UNCHANGED <<pc, arg, old>>
          ELSE /\ arg' = [arg EXCEPT ![c] = k]
               /\ old' = [old EXCEPT ![c] = reg[k]]
               /\ GoTo(c, Teardown(k))
               /\ UNCHANGED todo
  /\ UNCHANGED <<dst, hellos, owned, notified, tableVars, toMap, begun>>

DiscMark(c) == MarkStep(c, "disc_mark", c, "disc_send", "disc_remove")

DiscSend(c) == SendStep(c, "disc_send", EndMsg(arg[c][2]), "disc_remove")

DiscRemove(c) ==
  /\ pc[c] = "disc_remove"
  /\ reg' = RemoveIf(arg[c], c)
  /\ todo' = [todo EXCEPT ![c] = @ \ {arg[c]}]
  /\ GoTo(c, "disc")
  /\ DropLocals(c)
  /\ UNCHANGED <<hellos, owned, notified, pending, routing1, toMap, begun>>

Disconnect(c) == DiscNext(c) \/ DiscMark(c) \/ DiscSend(c) \/ DiscRemove(c)
----------------------------------------------------------------------------
(* The endpoint task: supervise_zone_endpoint and run_zone_connection.      *)

(* Mutant: the supervisor connects once and never retries. *)
ConnectOnce(v) == epoch[v] = 0

RetryAllowed(v) == epoch[v] < MaxEpoch

ZoneConnect(v) ==
  /\ link[v] = None /\ zoneRouting[v] = None /\ RetryAllowed(v)
  /\ epoch' = [epoch EXCEPT ![v] = @ + 1]
  /\ link' = [link EXCEPT ![v] = <<v, epoch[v] + 1>>]
  /\ UNCHANGED <<zoneRouting, toMap, fromMap>>

ZoneRegister(v) ==
  /\ link[v] # None /\ zoneRouting[v] = None
  /\ zoneRouting' = [zoneRouting EXCEPT ![v] = link[v]]
  /\ UNCHANGED <<link, epoch, toMap, fromMap>>

(* The socket dies; what either side had still queued is lost. The bound on *)
(* links leaves the last one up.                                            *)
ZoneDrop(v) ==
  /\ link[v] # None /\ zoneRouting[v] # None /\ epoch[v] < MaxEpoch
  /\ link' = [link EXCEPT ![v] = None]
  /\ toMap' = [toMap EXCEPT ![v] = <<>>]
  /\ fromMap' = [fromMap EXCEPT ![v] = <<>>]
  /\ UNCHANGED <<connVars, tableVars, zoneRouting, epoch, begun, changes,
                 readVars>>

(* The reader notices once it is back at its read. *)
ZoneUnregister(v) ==
  /\ link[v] = None /\ zoneRouting[v] # None /\ rpc[v] = "ready"
  /\ zoneRouting' = [zoneRouting EXCEPT ![v] = None]
  /\ UNCHANGED <<link, epoch, toMap, fromMap>>
----------------------------------------------------------------------------
(* handle_world_packet, run by the endpoint's reader.                       *)

ReadTo(v, where) == rpc' = [rpc EXCEPT ![v] = where]

(* Back to the read; the locals of the handler are gone. *)
ReadDone(v) ==
  /\ ReadTo(v, "ready")
  /\ rmsg' = [rmsg EXCEPT ![v] = None]
  /\ rses' = [rses EXCEPT ![v] = None]
  /\ rdst' = [rdst EXCEPT ![v] = None]
  /\ rrec' = [rrec EXCEPT ![v] = None]

(* An end confirm that carries an error is only logged. *)
Ignored(m) == m.type = "end_confirm" /\ m.err # 0

(* The session is looked up first, whatever the packet. *)
ReadPacket(v) ==
  /\ rpc[v] = "ready" /\ zoneRouting[v] # None /\ fromMap[v] # <<>>
  /\ LET m == Head(fromMap[v])
     IN  IF Ignored(m) THEN UNCHANGED readVars
         ELSE /\ rmsg' = [rmsg EXCEPT ![v] = m]
              /\ rses' = [rses EXCEPT ![v] = reg[<<"zone", m.id>>]]
              /\ ReadTo(v, IF m.type = "end_confirm" THEN "end_confirm" ELSE "change")
              /\ UNCHANGED <<rdst, rrec>>
  /\ fromMap' = [fromMap EXCEPT ![v] = Tail(@)]
  /\ UNCHANGED <<tableVars, toMap, begun>>

(* An accepted end: the player moves on to another zone server, if the      *)
(* packet names one and the session still exists (and nothing happens when  *)
(* that server is not routed); otherwise the session is over.               *)
EndConfirm(v) ==
  /\ rpc[v] = "end_confirm"
  /\ IF rmsg[v].dest # None /\ rses[v] # None
     THEN LET h == zoneRouting[rmsg[v].dest]
          IN  IF h = None THEN ReadDone(v)
              ELSE /\ rdst' = [rdst EXCEPT ![v] = h]
                   /\ ReadTo(v, "begin")
                   /\ UNCHANGED <<rmsg, rses, rrec>>
     ELSE ReadTo(v, "take") /\ UNCHANGED <<rmsg, rses, rdst, rrec>>
  /\ UNCHANGED <<tableVars, wireVars>>

(* Mutant: the move takes the route but sends no SessionBegin. *)
MoveSilent(v) ==
  /\ rpc[v] = "begin"
  /\ ReadTo(v, "set_route")
  /\ UNCHANGED <<tableVars, wireVars, rmsg, rses, rdst, rrec>>

MoveBegin(v) ==
  /\ rpc[v] = "begin"
  /\ Send(rdst[v], BeginMsg(rmsg[v].id))
  /\ ReadTo(v, "set_route")
  /\ UNCHANGED <<tableVars, fromMap, rmsg, rses, rdst, rrec>>

(* The session object looked up before the send gets the new route, even if *)
(* it has left the registry since.                                          *)
MoveRoute(v) ==
  /\ rpc[v] = "set_route"
  /\ routing1' = [routing1 EXCEPT ![rses[v]] = rdst[v]]
  /\ ReadDone(v)
  /\ UNCHANGED <<reg, pending, wireVars>>

TakePendingEnd(v) ==
  /\ rpc[v] = "take"
  /\ rrec' = [rrec EXCEPT ![v] = pending[rmsg[v].id]]
  /\ pending' = [pending EXCEPT ![rmsg[v].id] = None]
  /\ ReadTo(v, "current")
  /\ UNCHANGED <<reg, routing1, wireVars, rmsg, rses, rdst>>

(* is_stale_end_confirm: only when both sides are known and differ. *)
IsStaleEndConfirm(current, recorded) ==
  current # None /\ recorded # None /\ ConnOf(current) # recorded

StaleGuard(v) ==
  /\ rpc[v] = "current"
  /\ IF IsStaleEndConfirm(reg[<<"zone", rmsg[v].id>>], rrec[v])
     THEN ReadDone(v)
     ELSE ReadTo(v, "rm_zone") /\ UNCHANGED <<rmsg, rses, rdst, rrec>>
  /\ UNCHANGED <<tableVars, wireVars>>

(* SessionRegistry::remove, on the zone and then on the chat channel. *)
RemoveZone(v) ==
  /\ rpc[v] = "rm_zone"
  /\ reg' = [reg EXCEPT ![<<"zone", rmsg[v].id>>] = None]
  /\ ReadTo(v, "rm_chat")
  /\ UNCHANGED <<pending, routing1, wireVars, rmsg, rses, rdst, rrec>>

RemoveChat(v) ==
  /\ rpc[v] = "rm_chat"
  /\ reg' = [reg EXCEPT ![<<"chat", rmsg[v].id>>] = None]
  /\ ReadDone(v)
  /\ UNCHANGED <<pending, routing1, wireVars>>

(* 0x1002: the zone server asks to move a player; the world server asks the *)
(* session's current zone server to end it with that destination.           *)
ZoneChange(v) ==
  /\ rpc[v] = "change"
  /\ IF rses[v] = None \/ routing1[rses[v]] = None THEN ReadDone(v)
     ELSE /\ rdst' = [rdst EXCEPT ![v] = routing1[rses[v]]]
          /\ ReadTo(v, "change_send")
          /\ UNCHANGED <<rmsg, rses, rrec>>
  /\ UNCHANGED <<tableVars, wireVars>>

ZoneChangeSend(v) ==
  /\ rpc[v] = "change_send"
  /\ Send(rdst[v], EndToMsg(rmsg[v].id, rmsg[v].dest))
  /\ ReadDone(v)
  /\ UNCHANGED <<tableVars, fromMap>>

HandleWorldPacket(v) ==
  \/ ReadPacket(v) \/ EndConfirm(v) \/ MoveBegin(v) \/ MoveRoute(v)
  \/ TakePendingEnd(v) \/ StaleGuard(v) \/ RemoveZone(v) \/ RemoveChat(v)
  \/ ZoneChange(v) \/ ZoneChangeSend(v)
----------------------------------------------------------------------------
(* External: a zone server that follows the protocol.  It answers every end *)
(* and may ask to move a player.  The confirm of a begin (0x1000), which    *)
(* the map server of this repository never sends, is only logged by the     *)
(* world server and left out.                                               *)

Reply(v, m) == fromMap' = [fromMap EXCEPT ![v] = Append(@, m)]

Receive(v, type) ==
  /\ link[v] # None /\ toMap[v] # <<>> /\ Head(toMap[v]).type = type
  /\ toMap' = [toMap EXCEPT ![v] = Tail(@)]

ZoneServerBegin(v) ==
  /\ Receive(v, "begin")
  /\ UNCHANGED <<fromMap, changes>>

ZoneServerEnd(v) ==
  /\ Receive(v, "end")
  /\ \E e \in ConfirmCodes :
       Reply(v, [type |-> "end_confirm", id |-> Head(toMap[v]).id,
                 err |-> e, dest |-> Head(toMap[v]).dest])
  /\ UNCHANGED changes

ZoneServerMove(v, id, w) ==
  /\ link[v] # None /\ changes[v] < MaxChange
  /\ changes' = [changes EXCEPT ![v] = @ + 1]
  /\ Reply(v, [type |-> "zone_change", id |-> id, err |-> 0, dest |-> w])
  /\ UNCHANGED toMap

ZoneServerAnswers(v) ==
  /\ ZoneServerBegin(v) \/ ZoneServerEnd(v)
  /\ UNCHANGED <<connVars, tableVars, linkVars, begun, readVars>>

ZoneServerAsks(v) ==
  /\ \E id \in Ids, w \in Servers : ZoneServerMove(v, id, w)
  /\ UNCHANGED <<connVars, tableVars, linkVars, begun, readVars>>
----------------------------------------------------------------------------
(* What the clients do, and what the server's own tasks do.  A connection's *)
(* task leaves the links alone, an endpoint's task the connections.         *)
zoneSide == <<linkVars, fromMap, changes, readVars>>

Client(c) ==
  /\ Accept(c) \/ PeerClose(c) \/ \E k \in LoginChannels \X Ids : RecvHello(c, k)
  /\ UNCHANGED zoneSide

Task(c) == (Hello(c) \/ Disconnect(c)) /\ UNCHANGED zoneSide

Shutdown(c) == Superseded(c) /\ UNCHANGED zoneSide

Link(v) ==
  /\ ZoneConnect(v) \/ ZoneRegister(v) \/ ZoneUnregister(v)
  /\ UNCHANGED <<connVars, tableVars, begun, changes, readVars>>

Reader(v) == HandleWorldPacket(v) /\ UNCHANGED <<connVars, linkVars, changes>>

WorldNext ==
  \/ \E c \in Conns : Client(c) \/ Task(c) \/ Shutdown(c)
  \/ \E v \in Servers : Link(v) \/ Reader(v)

Next ==
  \/ WorldNext
  \/ \E v \in Servers : ZoneDrop(v) \/ ZoneServerAnswers(v) \/ ZoneServerAsks(v)

Spec == Init /\ [][Next]_vars

(* Scheduling: every task that can take a step of its own takes one, the    *)
(* shutdown branch of the select is polled in random order with the read,   *)
(* and the zone server keeps answering.  Clients and link failures are not  *)
(* forced.                                                                  *)
Fairness ==
  /\ \A c \in Conns : WF_vars(Task(c)) /\ SF_vars(Shutdown(c))
  /\ \A v \in Servers :
       /\ WF_vars(Link(v)) /\ WF_vars(Reader(v))
       /\ WF_vars(ZoneServerAnswers(v))

LiveSpec == Spec /\ Fairness
----------------------------------------------------------------------------
(* The types of the shared state and of the tasks' locals: a task that acts *)
(* on a key, an old session or a handle has one.                            *)
SharedTypes ==
  /\ hellos \in [Conns -> 0..MaxHello]
  /\ owned \in [Conns -> SUBSET Keys]
  /\ notified \in [Conns -> BOOLEAN]
  /\ reg \in [Keys -> Sessions \cup {None}]
  /\ pending \in [Ids -> Conns \cup {None}]
  /\ routing1 \in [Sessions -> Handles \cup {None}]
  /\ zoneRouting \in [Servers -> Handles \cup {None}]
  /\ link \in [Servers -> Handles \cup {None}]
  /\ epoch \in [Servers -> 0..MaxEpoch]
  /\ toMap \in [Servers -> Seq(ToMapMsg)]
  /\ begun \subseteq Handles \X Ids
  /\ fromMap \in [Servers -> Seq(FromMapMsg)]
  /\ changes \in [Servers -> 0..MaxChange]

TaskTypes ==
  /\ pc \in [Conns -> PCs]
  /\ arg \in [Conns -> Keys \cup {None}]
  /\ old \in [Conns -> Sessions \cup {None}]
  /\ dst \in [Conns -> Handles \cup {None}]
  /\ todo \in [Conns -> SUBSET Keys]
  /\ \A c \in Conns :
       /\ pc[c] \in HelloPCs => arg[c] \in Keys /\ hellos[c] > 0
       /\ pc[c] \in DiscPCs \ {"disc"} => arg[c] \in Keys
       /\ pc[c] \in EvictPCs \cup {"disc_mark"} => old[c] \in Sessions
       /\ pc[c] \in {"begin", "evict_send", "disc_send"} => dst[c] \in Handles

ReaderTypes ==
  /\ rpc \in [Servers -> ReadPCs]
  /\ rmsg \in [Servers -> FromMapMsg \cup {None}]
  /\ rses \in [Servers -> Sessions \cup {None}]
  /\ rdst \in [Servers -> Handles \cup {None}]
  /\ rrec \in [Servers -> Conns \cup {None}]
  /\ \A v \in Servers :
       /\ rpc[v] # "ready" => rmsg[v] \in FromMapMsg
       /\ rpc[v] \in {"begin", "set_route"} =>
            /\ rses[v] \in Sessions
            /\ rdst[v] \in Handles
       /\ rpc[v] = "change_send" => rdst[v] \in Handles

TypeOK == SharedTypes /\ TaskTypes /\ ReaderTypes

(* A connection whose task has ended owns no entry of the registry: every   *)
(* path out of the read loop tears down all of its sessions, even when      *)
(* other logins replace, evict or end them at the same time.                *)
NoDeadOwner ==
  \A c \in Conns, k \in Keys :
    pc[c] = "done" => reg[k] = None \/ ConnOf(reg[k]) # c

Claimed(c) == owned[c] \cup (IF pc[c] \in HelloPCs THEN {arg[c]} ELSE {})

(* A connection is told to shut down only because another connection        *)
(* claimed one of its session ids; a hello resent on the same connection    *)
(* never makes a client evict itself.                                       *)
ShutdownOnlyOnTakeover ==
  \A c \in Conns : notified[c] =>
    \E d \in Conns \ {c} : Claimed(c) \cap Claimed(d) # {}

Evicting(d, c) == pc[d] \in EvictPCs /\ ConnOf(old[d]) = c
Leaving(c)     == pc[c] \in DiscPCs \cup {"done"}

(* The end record that the stale guard compares with names a connection     *)
(* that is leaving, has been told to, or is being evicted right now: never  *)
(* one that stays.                                                          *)
PendingEndIsForDeparting ==
  \A id \in Ids, c \in Conns : pending[id] = c =>
    Leaving(c) \/ notified[c] \/ \E d \in Conns : Evicting(d, c)

(* A registry entry disappears only because its own connection is leaving,  *)
(* because a task that found this very connection as the previous owner     *)
(* evicts it, or by an accepted end confirm; never by the teardown of a     *)
(* connection that lost the id before.                                      *)
EntryOutlivesStaleTeardown ==
  [][\A k \in Keys : reg[k] # None /\ reg'[k] = None =>
       LET c == ConnOf(reg[k])
       IN  \/ Leaving(c)
           \/ \E d \in Conns : Evicting(d, c)
           \/ \E v \in Servers : rpc[v] \in {"rm_zone", "rm_chat"}]_vars

(* The link a registered zone session forwards to has been sent the         *)
(* session's SessionBegin: no game packet of the session can reach a zone   *)
(* server ahead of it, at a login or after a move to another server.        *)
RegisteredRouteIsBegun ==
  \A id \in Ids : LET s == reg[<<"zone", id>>] IN
    s # None /\ routing1[s] # None => <<routing1[s], id>> \in begun

(* Ownership as SessionOwnership has it. *)
Life(c) ==
  CASE pc[c] = "idle" -> "new"
    [] pc[c] = "done" -> "gone"
    [] pc[c] \in DiscPCs -> "leaving"
    [] OTHER -> "live"

Revoking(v, k) ==
  /\ rpc[v] \in {"rm_zone", "rm_chat"} /\ rmsg[v].id = k[2]
  /\ rpc[v] = "rm_zone" \/ k[1] = "chat"

Ownership == INSTANCE SessionOwnership WITH
  owner  <- [k \in Keys |-> IF reg[k] = None THEN None ELSE ConnOf(reg[k])],
  life   <- [c \in Conns |-> Life(c)],
  rival  <- [c \in Conns |-> IF pc[c] \in EvictPCs THEN ConnOf(old[c]) ELSE None],
  told   <- {c \in Conns : notified[c]},
  decree <- {k \in Keys : \E v \in Servers : Revoking(v, k)}

(* Every step of every task is a step of the ownership of sessions, or      *)
(* leaves it alone: whatever interleaving of hellos, evictions, teardowns   *)
(* and end confirms, keys change hands only as SessionOwnership allows.     *)
ImplementsOwnership == Ownership!Spec

(* An evicted connection's task ends. *)
EvictedConnectionStops ==
  \A c \in Conns : notified[c] ~> pc[c] = "done"

(* After a link failure the endpoint is routed again. *)
LinkReattaches ==
  \A v \in Servers : zoneRouting[v] = None ~> zoneRouting[v] # None
=============================================================================
