------------------------ MODULE WorldSessionsProofs ------------------------
(***************************************************************************)
(* Proofs about WorldSessions, and about its composition with the map      *)
(* server (SessionLifecycle), for any number of connections, session ids   *)
(* and zone servers, and any bounds.                                       *)
(***************************************************************************)
EXTENDS SessionLifecycle, TLAPS

(***************************************************************************)
(* Type correctness.                                                       *)
(***************************************************************************)

(* A packet put on a link keeps the wires well typed. *)
LEMMA SendTypes ==
  ASSUME SharedTypes, NEW h \in Handles, NEW msg \in ToMapMsg, Send(h, msg)
  PROVE  /\ toMap' \in [Servers -> Seq(ToMapMsg)]
         /\ begun' \subseteq Handles \X Ids
<1>1. h[1] \in Servers
  BY DEF Handles
<1>2. toMap[h[1]] \in Seq(ToMapMsg)
  BY <1>1 DEF SharedTypes
<1>3. Append(toMap[h[1]], msg) \in Seq(ToMapMsg)
  BY <1>2
<1>4. toMap' \in [Servers -> Seq(ToMapMsg)]
  BY <1>1, <1>3 DEF Send, SharedTypes
<1>5. msg.id \in Ids
  BY DEF ToMapMsg
<1>6. begun' \subseteq Handles \X Ids
  BY <1>5 DEF Send, SharedTypes
<1> QED
  BY <1>4, <1>6

(* Every packet the world server sends is one of the protocol's. *)
LEMMA MessageTypes ==
  ASSUME NEW id \in Ids
  PROVE  /\ BeginMsg(id) \in ToMapMsg
         /\ EndMsg(id) \in ToMapMsg
         /\ \A v \in Servers \cup {None} : EndToMsg(id, v) \in ToMapMsg
  BY DEF BeginMsg, EndMsg, EndToMsg, ToMapMsg

\* A key is a channel and an id.
LEMMA KeyParts == \A k \in Keys : k[1] \in Channels /\ k[2] \in Ids
  BY DEF Keys

(* The session object a hello works on. *)
LEMMA MineTypes ==
  ASSUME TypeOK, NEW c \in Conns, pc[c] \in HelloPCs
  PROVE  Mine(c) \in Sessions
  BY DEF TypeOK, SharedTypes, TaskTypes, Mine, Sessions

(* The steps that an eviction and a disconnect share. *)
LEMMA SendStepTypes ==
  ASSUME TypeOK, NEW c \in Conns, NEW from, NEW msg \in ToMapMsg, NEW to,
         SendStep(c, from, msg, to),
         UNCHANGED <<zoneSide>>,
         from \in {"begin", "evict_send", "disc_send"},
         to \in {"lookup", "evict_remove", "disc_remove"},
         from = "begin" => to = "lookup",
         from = "evict_send" => to = "evict_remove",
         from = "disc_send" => to = "disc_remove"
  PROVE  TypeOK'
<1>1. dst[c] \in Handles
  BY DEF SendStep, TypeOK, TaskTypes
<1>2. toMap' \in [Servers -> Seq(ToMapMsg)] /\ begun' \subseteq Handles \X Ids
  BY <1>1, SendTypes DEF SendStep, TypeOK
<1>3. SharedTypes'
  BY <1>2 DEF SendStep, TypeOK, SharedTypes, tableVars, zoneSide, linkVars
<1>4. TaskTypes'
  BY DEF SendStep, GoTo, TypeOK, TaskTypes, PCs, HelloPCs, DiscPCs, EvictPCs
<1>5. ReaderTypes'
  BY DEF TypeOK, ReaderTypes, zoneSide, readVars
<1> QED
  BY <1>3, <1>4, <1>5 DEF TypeOK

\* Types when the pending-end record is set, at an eviction or a disconnect.
LEMMA MarkStepTypes ==
  ASSUME TypeOK, NEW c \in Conns, NEW from, NEW who \in Conns, NEW send, NEW skip,
         MarkStep(c, from, who, send, skip),
         UNCHANGED <<zoneSide>>,
         \/ from = "evict_mark" /\ send = "evict_send" /\ skip = "evict_remove"
         \/ from = "disc_mark" /\ send = "disc_send" /\ skip = "disc_remove"
  PROVE  TypeOK'
<1>1. old[c] \in Sessions /\ arg[c] \in Keys /\ arg[c][2] \in Ids
  BY KeyParts DEF MarkStep, TypeOK, TaskTypes, EvictPCs, HelloPCs, DiscPCs
<1>2. routing1[old[c]] \in Handles \cup {None}
  BY <1>1 DEF TypeOK, SharedTypes
<1>3. SharedTypes'
  BY <1>1 DEF MarkStep, TypeOK, SharedTypes, zoneSide, linkVars
<1>4. TaskTypes'
  BY <1>1, <1>2 DEF MarkStep, GoTo, TypeOK, TaskTypes, PCs, HelloPCs, DiscPCs, EvictPCs
<1>5. ReaderTypes'
  BY DEF TypeOK, ReaderTypes, zoneSide, readVars
<1> QED
  BY <1>3, <1>4, <1>5 DEF TypeOK

(* The steps of a connection's task preserve the types. *)
LEMMA ConnTypes ==
  ASSUME TypeOK, NEW c \in Conns,
         Client(c) \/ Task(c) \/ Shutdown(c)
  PROVE  TypeOK'
<1> USE DEF TypeOK, SharedTypes, TaskTypes, PCs, HelloPCs, DiscPCs, EvictPCs,
            GoTo, DropLocals
<1>0. UNCHANGED zoneSide
  BY DEF Client, Task, Shutdown
<1>1. UNCHANGED <<zoneRouting, link, epoch, fromMap, changes>> /\ ReaderTypes'
  BY <1>0 DEF ReaderTypes, zoneSide, linkVars, readVars
<1>2. CASE Accept(c)
  BY <1>1, <1>2 DEF Accept, tableVars
<1>3. ASSUME NEW k \in Keys, RecvHello(c, k) PROVE TypeOK'
  BY <1>1, <1>3, BoundsAssumption DEF RecvHello, tableVars
<1>4. CASE LeaveLoop(c) /\ notified' \in [Conns -> BOOLEAN]
  BY <1>1, <1>4 DEF LeaveLoop, tableVars
<1>5. CASE HelloRoute(c)
  <2>1. PICK h \in Handles \cup {None} :
          /\ routing1' = [routing1 EXCEPT ![Mine(c)] = h]
          /\ dst' = [dst EXCEPT ![c] = h]
          /\ GoTo(c, AfterRoute(h))
    BY <1>5, NoneAssumption DEF HelloRoute
  <2>2. Mine(c) \in Sessions
    BY <1>5, MineTypes DEF HelloRoute
  <2> QED
    BY <1>1, <1>5, <2>1, <2>2 DEF HelloRoute, AfterRoute
<1>6. CASE HelloBegin(c)
  BY <1>0, <1>6, SendStepTypes, MessageTypes, KeyParts DEF HelloBegin, SendStep
<1>7. CASE HelloLookup(c)
  <2>1. arg[c] \in Keys /\ reg[arg[c]] \in Sessions \cup {None}
    BY <1>7 DEF HelloLookup
  <2>2. old' = [old EXCEPT ![c] = reg[arg[c]]]
    BY <1>7 DEF HelloLookup
  <2>3. PICK w \in {"add", "evict_mark", "evict_remove"} :
          /\ pc' = [pc EXCEPT ![c] = w]
          /\ w # "add" => reg[arg[c]] # None
    BY <1>7 DEF HelloLookup
  <2> QED
    BY <1>1, <1>7, <2>1, <2>2, <2>3 DEF HelloLookup, tableVars
<1>8. CASE EvictMark(c)
  <2>1. ConnOf(old[c]) \in Conns
    BY <1>8 DEF EvictMark, MarkStep, ConnOf, Sessions
  <2> QED
    BY <1>0, <1>8, <2>1, MarkStepTypes DEF EvictMark
<1>9. CASE EvictSend(c)
  BY <1>0, <1>9, SendStepTypes, MessageTypes, KeyParts DEF EvictSend, SendStep
<1>10. CASE EvictRemove(c)
  BY <1>1, <1>10 DEF EvictRemove, RemoveIf
<1>11. CASE EvictNotify(c)
  BY <1>1, <1>11 DEF EvictNotify, tableVars
<1>12. CASE HelloAdd(c)
  BY <1>1, <1>12, MineTypes DEF HelloAdd
<1>13. CASE HelloOwn(c)
  BY <1>1, <1>13 DEF HelloOwn, NoteOwned, tableVars
<1>14. CASE DiscNext(c)
  <2>1. CASE todo[c] = {} /\ pc' = [pc EXCEPT ![c] = "done"] /\ UNCHANGED <<arg, old, todo>>
    BY <1>1, <1>14, <2>1 DEF DiscNext, tableVars
  <2>2. ASSUME NEW k \in todo[c],
               todo' = [todo EXCEPT ![c] = @ \ {k}], UNCHANGED <<pc, arg, old>>
        PROVE  TypeOK'
    BY <1>1, <1>14, <2>2 DEF DiscNext, tableVars
  <2>3. ASSUME NEW k \in todo[c], reg[k] # None,
               arg' = [arg EXCEPT ![c] = k], old' = [old EXCEPT ![c] = reg[k]],
               pc' = [pc EXCEPT ![c] = Teardown(k)], UNCHANGED todo
        PROVE  TypeOK'
    <3>1. k \in Keys /\ reg[k] \in Sessions /\ Teardown(k) \in {"disc_mark", "disc_remove"}
      BY <2>3 DEF Teardown
    <3> QED
      BY <1>1, <1>14, <2>3, <3>1 DEF DiscNext, tableVars
  <2> QED
    BY <1>14, <2>1, <2>2, <2>3 DEF DiscNext
<1>15. CASE DiscMark(c)
  BY <1>0, <1>15, MarkStepTypes DEF DiscMark
<1>16. CASE DiscSend(c)
  BY <1>0, <1>16, SendStepTypes, MessageTypes, KeyParts DEF DiscSend, SendStep
<1>17. CASE DiscRemove(c)
  BY <1>1, <1>17 DEF DiscRemove, RemoveIf
<1>18. CASE Client(c)
  BY <1>18, <1>2, <1>3, <1>4, InputAssumption DEF Client, PeerClose, Keys
<1>19. CASE Shutdown(c)
  BY <1>19, <1>4 DEF Shutdown, Superseded
<1> QED
  BY <1>5, <1>6, <1>7, <1>8, <1>9, <1>10, <1>11, <1>12, <1>13, <1>14, <1>15,
     <1>16, <1>17, <1>18, <1>19 DEF Task, Hello, Disconnect

(* The supervisor of an endpoint, a dropped link and the zone server. *)
LEMMA EndpointTypes ==
  ASSUME TypeOK, NEW v \in Servers,
         Link(v) \/ ZoneDrop(v) \/ ZoneServerAnswers(v) \/ ZoneServerAsks(v)
  PROVE  TypeOK'
<1>1. TaskTypes' /\ ReaderTypes'
  BY DEF Link, ZoneDrop, ZoneServerAnswers, ZoneServerAsks, TypeOK, TaskTypes,
     ReaderTypes, connVars, readVars
<1>2. CASE Link(v)
  <2>1. CASE ZoneConnect(v)
    <3>1. epoch[v] + 1 \in 1..MaxEpoch
      BY <2>1, BoundsAssumption DEF ZoneConnect, RetryAllowed, TypeOK, SharedTypes
    <3>2. <<v, epoch[v] + 1>> \in Handles
      BY <3>1 DEF Handles
    <3>3. epoch' \in [Servers -> 0..MaxEpoch] /\ link' \in [Servers -> Handles \cup {None}]
      BY <2>1, <3>1, <3>2, BoundsAssumption DEF ZoneConnect, TypeOK, SharedTypes
    <3> QED
      BY <1>1, <1>2, <2>1, <3>3 DEF Link, ZoneConnect, TypeOK, SharedTypes,
         connVars, tableVars
  <2>2. CASE ZoneRegister(v)
    BY <1>1, <1>2, <2>2 DEF Link, ZoneRegister, TypeOK, SharedTypes, connVars, tableVars
  <2>3. CASE ZoneUnregister(v)
    BY <1>1, <1>2, <2>3 DEF Link, ZoneUnregister, TypeOK, SharedTypes, connVars, tableVars
  <2> QED
    BY <1>1, <1>2, <2>1, <2>2, <2>3 DEF Link, TypeOK
<1>3. CASE ZoneDrop(v)
  BY <1>1, <1>3 DEF ZoneDrop, TypeOK, SharedTypes, connVars, tableVars
<1>4. CASE ZoneServerAnswers(v)
  <2>1. /\ link[v] # None
        /\ toMap[v] # <<>>
        /\ toMap' = [toMap EXCEPT ![v] = Tail(@)]
    BY <1>4 DEF ZoneServerAnswers, ZoneServerBegin, ZoneServerEnd, Receive
  <2>2. toMap[v] \in Seq(ToMapMsg)
    BY DEF TypeOK, SharedTypes
  <2>3. Head(toMap[v]) \in ToMapMsg /\ Tail(toMap[v]) \in Seq(ToMapMsg)
    BY <2>1, <2>2
  <2>4. CASE ZoneServerBegin(v)
    BY <1>1, <1>4, <2>1, <2>3, <2>4 DEF ZoneServerAnswers, ZoneServerBegin, TypeOK,
       SharedTypes, connVars, tableVars, linkVars
  <2>5. CASE ZoneServerEnd(v)
    <3>1. PICK e \in ConfirmCodes :
            Reply(v, [type |-> "end_confirm", id |-> Head(toMap[v]).id,
                      err |-> e, dest |-> Head(toMap[v]).dest])
      BY <2>5 DEF ZoneServerEnd
    <3> DEFINE m == [type |-> "end_confirm", id |-> Head(toMap[v]).id,
                     err |-> e, dest |-> Head(toMap[v]).dest]
    <3>2. m \in FromMapMsg
      BY <2>3, InputAssumption DEF ToMapMsg, FromMapMsg
    <3>3. fromMap' \in [Servers -> Seq(FromMapMsg)]
      <4> HIDE DEF m
      <4>1. fromMap' = [fromMap EXCEPT ![v] = Append(@, m)]
        BY <3>1 DEF Reply, m
      <4>2. fromMap[v] \in Seq(FromMapMsg)
        BY DEF TypeOK, SharedTypes
      <4>3. Append(fromMap[v], m) \in Seq(FromMapMsg)
        BY <3>2, <4>2
      <4> QED
        BY <4>1, <4>3 DEF TypeOK, SharedTypes
    <3> QED
      BY <1>1, <1>4, <2>1, <2>3, <2>5, <3>3 DEF ZoneServerAnswers, ZoneServerEnd,
         TypeOK, SharedTypes, connVars, tableVars, linkVars
  <2> QED
    BY <1>4, <2>4, <2>5 DEF ZoneServerAnswers
<1>5. CASE ZoneServerAsks(v)
  <2>1. PICK id \in Ids, w \in Servers : ZoneServerMove(v, id, w)
    BY <1>5 DEF ZoneServerAsks
  <2> DEFINE m == [type |-> "zone_change", id |-> id, err |-> 0, dest |-> w]
  <2>2. m \in FromMapMsg
    BY DEF FromMapMsg
  <2>3. fromMap' \in [Servers -> Seq(FromMapMsg)]
    <3> HIDE DEF m
    <3>1. fromMap' = [fromMap EXCEPT ![v] = Append(@, m)]
      BY <2>1 DEF ZoneServerMove, Reply, m
    <3>2. fromMap[v] \in Seq(FromMapMsg)
      BY DEF TypeOK, SharedTypes
    <3>3. Append(fromMap[v], m) \in Seq(FromMapMsg)
      BY <2>2, <3>2
    <3> QED
      BY <3>1, <3>3 DEF TypeOK, SharedTypes
  <2>4. changes' \in [Servers -> 0..MaxChange]
    BY <2>1, BoundsAssumption DEF ZoneServerMove, TypeOK, SharedTypes
  <2> QED
    BY <1>1, <1>5, <2>1, <2>3, <2>4 DEF ZoneServerAsks, ZoneServerMove, TypeOK,
       SharedTypes, connVars, tableVars, linkVars
<1> QED
  BY <1>2, <1>3, <1>4, <1>5

(* A reader back at its read. *)
LEMMA ReadDoneTypes ==
  ASSUME ReaderTypes, NEW v \in Servers, ReadDone(v)
  PROVE  ReaderTypes'
  BY DEF ReadDone, ReadTo, ReaderTypes, ReadPCs

(* The steps of an endpoint's reader. *)
LEMMA ReaderStepTypes ==
  ASSUME TypeOK, NEW v \in Servers, Reader(v)
  PROVE  TypeOK'
<1> USE DEF TypeOK, SharedTypes
<1>0. UNCHANGED <<connVars, linkVars, changes>>
  BY DEF Reader
<1>1. /\ UNCHANGED <<hellos, owned, notified, zoneRouting, link, epoch, changes>>
      /\ TaskTypes'
  BY <1>0 DEF TaskTypes, connVars, linkVars
<1>2. rmsg[v] \in FromMapMsg => rmsg[v].id \in Ids /\ rmsg[v].dest \in Servers \cup {None}
  BY DEF FromMapMsg
<1>3. \A id \in Ids : <<"zone", id>> \in Keys /\ <<"chat", id>> \in Keys
  BY DEF Keys, Channels
<1>4. CASE ReadPacket(v)
  <2>1. fromMap[v] \in Seq(FromMapMsg) /\ fromMap[v] # <<>>
    BY <1>4 DEF ReadPacket
  <2>2. Head(fromMap[v]) \in FromMapMsg /\ Tail(fromMap[v]) \in Seq(FromMapMsg)
    BY <2>1
  <2>3. reg[<<"zone", Head(fromMap[v]).id>>] \in Sessions \cup {None}
    BY <1>3, <2>2 DEF FromMapMsg
  <2>4. SharedTypes'
    BY <1>1, <1>4, <2>2 DEF ReadPacket, tableVars
  <2>5. CASE Ignored(Head(fromMap[v]))
    BY <1>1, <1>4, <2>4, <2>5 DEF ReadPacket, readVars, ReaderTypes
  <2>6. CASE ~Ignored(Head(fromMap[v]))
    <3>1. PICK w \in {"end_confirm", "change"} :
            /\ rpc' = [rpc EXCEPT ![v] = w]
            /\ rmsg' = [rmsg EXCEPT ![v] = Head(fromMap[v])]
            /\ rses' = [rses EXCEPT ![v] = reg[<<"zone", Head(fromMap[v]).id>>]]
            /\ UNCHANGED <<rdst, rrec>>
      BY <1>4, <2>6 DEF ReadPacket, ReadTo
    <3>2. ReaderTypes'
      BY <2>2, <2>3, <3>1 DEF ReaderTypes, ReadPCs
    <3> QED
      BY <1>1, <2>4, <3>2
  <2> QED
    BY <2>5, <2>6
<1>5. CASE EndConfirm(v)
  <2>1. SharedTypes'
    BY <1>1, <1>5 DEF EndConfirm, tableVars, wireVars
  <2>2. CASE ReadDone(v)
    BY <1>1, <2>1, <2>2, ReadDoneTypes
  <2>3. CASE ~ReadDone(v) /\ rmsg[v].dest # None /\ rses[v] # None
    <3>1. rmsg[v] \in FromMapMsg /\ rses[v] \in Sessions
      BY <1>5, <2>3 DEF EndConfirm, ReaderTypes
    <3>2. zoneRouting[rmsg[v].dest] \in Handles \cup {None}
      BY <1>2, <2>3, <3>1
    <3>3. /\ rdst' = [rdst EXCEPT ![v] = zoneRouting[rmsg[v].dest]]
          /\ zoneRouting[rmsg[v].dest] # None
          /\ rpc' = [rpc EXCEPT ![v] = "begin"]
          /\ UNCHANGED <<rmsg, rses, rrec>>
      BY <1>5, <2>3 DEF EndConfirm, ReadTo
    <3>4. ReaderTypes'
      BY <3>1, <3>2, <3>3 DEF ReaderTypes, ReadPCs
    <3> QED
      BY <1>1, <2>1, <3>4
  <2>4. CASE ~(rmsg[v].dest # None /\ rses[v] # None)
    BY <1>1, <1>5, <2>1, <2>4, ZenonT(60) DEF EndConfirm, ReaderTypes, ReadPCs, ReadTo
  <2> QED
    BY <2>2, <2>3, <2>4
<1>6. CASE MoveBegin(v)
  <2>1. toMap' \in [Servers -> Seq(ToMapMsg)] /\ begun' \subseteq Handles \X Ids
    BY <1>2, <1>6, SendTypes, MessageTypes DEF MoveBegin, ReaderTypes
  <2> QED
    BY <1>1, <1>6, <2>1 DEF MoveBegin, tableVars, ReaderTypes, ReadPCs, ReadTo
<1>7. CASE MoveRoute(v)
  BY <1>1, <1>7, ReadDoneTypes DEF MoveRoute, wireVars, ReaderTypes
<1>8. CASE TakePendingEnd(v)
  BY <1>1, <1>2, <1>8 DEF TakePendingEnd, wireVars, ReaderTypes, ReadPCs, ReadTo
<1>9. CASE StaleGuard(v)
  <2>1. SharedTypes'
    BY <1>1, <1>9 DEF StaleGuard, tableVars, wireVars
  <2>2. CASE ReadDone(v)
    BY <1>1, <2>1, <2>2, ReadDoneTypes
  <2>3. CASE ~ReadDone(v)
    BY <1>1, <1>9, <2>1, <2>3, ZenonT(60) DEF StaleGuard, ReaderTypes, ReadPCs, ReadTo
  <2> QED
    BY <2>2, <2>3
<1>10. CASE RemoveZone(v)
  BY <1>1, <1>2, <1>3, <1>10 DEF RemoveZone, wireVars, ReaderTypes, ReadPCs, ReadTo
<1>11. CASE RemoveChat(v)
  BY <1>1, <1>2, <1>3, <1>11, ReadDoneTypes DEF RemoveChat, wireVars, ReaderTypes
<1>12. CASE ZoneChange(v)
  <2>1. SharedTypes'
    BY <1>1, <1>12 DEF ZoneChange, tableVars, wireVars
  <2>2. CASE ReadDone(v)
    BY <1>1, <2>1, <2>2, ReadDoneTypes
  <2>3. CASE ~ReadDone(v)
    <3>1. rses[v] \in Sessions /\ routing1[rses[v]] \in Handles
      BY <1>12, <2>3 DEF ZoneChange, ReaderTypes
    <3> QED
      BY <1>1, <1>12, <2>1, <2>3, <3>1, ZenonT(60) DEF ZoneChange, ReaderTypes, ReadPCs, ReadTo
  <2> QED
    BY <2>2, <2>3
<1>13. CASE ZoneChangeSend(v)
  <2>1. toMap' \in [Servers -> Seq(ToMapMsg)] /\ begun' \subseteq Handles \X Ids
    BY <1>2, <1>13, SendTypes, MessageTypes DEF ZoneChangeSend, ReaderTypes
  <2> QED
    BY <1>1, <1>13, <2>1, ReadDoneTypes DEF ZoneChangeSend, tableVars
<1> QED
  BY <1>4, <1>5, <1>6, <1>7, <1>8, <1>9, <1>10, <1>11, <1>12, <1>13
     DEF Reader, HandleWorldPacket

\* Types at the start.
LEMMA InitTypes == Init => TypeOK
  BY BoundsAssumption DEF Init, ConnInit, TableInit, LinkInit, WireInit, TypeOK,
     SharedTypes, TaskTypes, ReaderTypes, PCs, HelloPCs, DiscPCs, EvictPCs, ReadPCs

\* Types when nothing changes.
LEMMA StutterTypes == TypeOK /\ UNCHANGED vars => TypeOK'
  BY DEF TypeOK, SharedTypes, TaskTypes, ReaderTypes, vars, connVars, tableVars,
     linkVars, wireVars, readVars

\* Every step keeps the types.
LEMMA NextTypes == TypeOK /\ [Next]_vars => TypeOK'
  BY ConnTypes, EndpointTypes, ReaderStepTypes, StutterTypes DEF Next, WorldNext

(* Every reachable state is well typed: a task that acts on a key, an old   *)
(* session or a zone server handle always has one (the code's unwraps and   *)
(* early returns of handle_hello, handle_disconnect, handle_world_packet).  *)
THEOREM TypeCorrectness == Spec => []TypeOK
<1>1. Init => TypeOK
  BY InitTypes
<1>2. TypeOK /\ [Next]_vars => TypeOK'
  BY NextTypes
<1> QED
  BY <1>1, <1>2, PTL DEF Spec

(***************************************************************************)
(* What a step can change.                                                 *)
(***************************************************************************)
ConnStep(c) == Client(c) \/ Task(c) \/ Shutdown(c)

ZoneStep(v) ==
  Link(v) \/ Reader(v) \/ ZoneDrop(v) \/ ZoneServerAnswers(v) \/ ZoneServerAsks(v)

\* A step is a connection's or a zone server's.
LEMMA NextSteps ==
  Next <=> (\E c \in Conns : ConnStep(c)) \/ (\E v \in Servers : ZoneStep(v))
  BY DEF Next, WorldNext, ConnStep, ZoneStep

(* A connection's task changes the locals of no other task. *)
LEMMA ConnFrame ==
  ASSUME TypeOK, NEW c \in Conns, ConnStep(c), NEW d \in Conns, d # c
  PROVE  /\ pc'[d] = pc[d] /\ arg'[d] = arg[d] /\ old'[d] = old[d]
         /\ todo'[d] = todo[d] /\ owned'[d] = owned[d]
<1> USE DEF TypeOK, SharedTypes, TaskTypes, GoTo, DropLocals
<1>1. CASE Client(c) \/ Shutdown(c)
  BY <1>1 DEF Client, Shutdown, Accept, RecvHello, PeerClose, Superseded, LeaveLoop
<1>2. CASE Hello(c)
  BY <1>2 DEF Hello, HelloRoute, HelloBegin, HelloLookup, EvictMark, EvictSend,
     EvictRemove, EvictNotify, HelloAdd, HelloOwn, SendStep, MarkStep
<1>3. CASE DiscNext(c)
  BY <1>3 DEF DiscNext
<1>4. CASE DiscMark(c) \/ DiscSend(c) \/ DiscRemove(c)
  BY <1>4 DEF DiscMark, DiscSend, DiscRemove, SendStep, MarkStep
<1> QED
  BY <1>1, <1>2, <1>3, <1>4 DEF ConnStep, Task, Disconnect

(* An endpoint's tasks and the zone server leave the connections alone, and *)
(* only empty entries of the registry and of the pending ends.              *)
LEMMA ZoneFrame ==
  ASSUME TypeOK, NEW v \in Servers, ZoneStep(v)
  PROVE  /\ UNCHANGED connVars
         /\ \A k \in Keys : reg'[k] \in {reg[k], None}
         /\ \A id \in Ids : pending'[id] \in {pending[id], None}
<1> USE DEF TypeOK, SharedTypes
<1>1. UNCHANGED connVars
  BY DEF ZoneStep, Link, Reader, ZoneDrop, ZoneServerAnswers, ZoneServerAsks
<1>2. CASE ~Reader(v)
  BY <1>1, <1>2 DEF ZoneStep, Link, ZoneDrop, ZoneServerAnswers, ZoneServerAsks, tableVars
<1>3. CASE Reader(v)
  BY <1>1, <1>3 DEF Reader, HandleWorldPacket, ReadPacket, EndConfirm, MoveBegin,
     MoveRoute, TakePendingEnd, StaleGuard, RemoveZone, RemoveChat, ZoneChange,
     ZoneChangeSend, tableVars
<1> QED
  BY <1>1, <1>2, <1>3

(***************************************************************************)
(* No entry outlives its connection.                                       *)
(***************************************************************************)

(* The owner of an entry is running, has noted the entry (or is about to),  *)
(* and once it leaves, has still to visit it.                               *)
Kept(c, k) ==
  /\ pc[c] \notin {"idle", "done"}
  /\ k \in owned[c] \/ (pc[c] = "own" /\ arg[c] = k)
  /\ pc[c] \in DiscPCs => k \in todo[c]

OwnerInv ==
  \A k \in Keys, c \in Conns : reg[k] # None /\ ConnOf(reg[k]) = c => Kept(c, k)

(* What a connection keeps it keeps through its own steps, or the entry is  *)
(* gone from it.                                                            *)
LEMMA KeptByOwner ==
  ASSUME TypeOK, NEW c \in Conns, ConnStep(c), NEW k \in Keys, NEW s \in Sessions,
         ConnOf(s) = c, reg[k] = s, reg'[k] = s, Kept(c, k)
  PROVE  Kept(c, k)'
<1> USE DEF TypeOK, SharedTypes, TaskTypes, Kept, GoTo, DropLocals, HelloPCs, DiscPCs,
            EvictPCs
<1>1. CASE Client(c) \/ Shutdown(c)
  BY <1>1 DEF Client, Shutdown, Accept, RecvHello, PeerClose, Superseded, LeaveLoop
<1>2. CASE HelloRoute(c)
  BY <1>2 DEF HelloRoute, AfterRoute
<1>3. CASE HelloLookup(c)
  BY <1>3 DEF HelloLookup
<1>4. CASE EvictMark(c) \/ DiscMark(c)
  BY <1>4 DEF EvictMark, DiscMark, MarkStep
<1>5. CASE HelloBegin(c) \/ EvictSend(c) \/ DiscSend(c)
  BY <1>5 DEF HelloBegin, EvictSend, DiscSend, SendStep
<1>6. CASE EvictRemove(c) \/ EvictNotify(c) \/ HelloAdd(c)
  BY <1>6 DEF EvictRemove, EvictNotify, HelloAdd
<1>7. CASE HelloOwn(c)
  BY <1>7 DEF HelloOwn, NoteOwned
<1>8. CASE DiscNext(c)
  <2>1. k \in todo[c] /\ pc[c] = "disc" /\ UNCHANGED owned
    BY <1>8 DEF DiscNext
  <2>2. pc' = pc \/ \E j \in Keys : pc' = [pc EXCEPT ![c] = Teardown(j)]
    BY <1>8, <2>1 DEF DiscNext
  <2>3. k \in todo'[c]
    BY <1>8, <2>1, NoneAssumption DEF DiscNext, Sessions
  <2> QED
    BY <2>1, <2>2, <2>3 DEF Teardown
<1>9. CASE DiscRemove(c)
  <2>1. k # arg[c]
    BY <1>9, NoneAssumption DEF DiscRemove, RemoveIf, Sessions
  <2> QED
    BY <1>9, <2>1 DEF DiscRemove
<1> QED
  BY <1>1, <1>2, <1>3, <1>4, <1>5, <1>6, <1>7, <1>8, <1>9
     DEF ConnStep, Task, Hello, Disconnect

(* An entry changes owner only when a hello adds it. *)
LEMMA EntryChange ==
  ASSUME TypeOK, NEW c \in Conns, ConnStep(c), NEW k \in Keys
  PROVE  \/ reg'[k] = reg[k]
         \/ reg'[k] = None
         \/ HelloAdd(c) /\ arg[c] = k /\ reg'[k] = Mine(c)
<1> USE DEF TypeOK, SharedTypes, TaskTypes, tableVars
<1>1. CASE Client(c) \/ Shutdown(c)
  BY <1>1 DEF Client, Shutdown, Accept, RecvHello, PeerClose, Superseded, LeaveLoop
<1>2. CASE HelloRoute(c) \/ HelloLookup(c) \/ HelloBegin(c) \/ EvictMark(c)
           \/ EvictSend(c) \/ EvictNotify(c) \/ HelloOwn(c)
  BY <1>2 DEF HelloRoute, HelloLookup, HelloBegin, EvictMark, EvictSend, EvictNotify,
     HelloOwn, SendStep, MarkStep
<1>3. CASE EvictRemove(c) \/ DiscRemove(c)
  BY <1>3 DEF EvictRemove, DiscRemove, RemoveIf
<1>4. CASE HelloAdd(c)
  BY <1>4 DEF HelloAdd
<1>5. CASE DiscNext(c) \/ DiscMark(c) \/ DiscSend(c)
  BY <1>5 DEF DiscNext, DiscMark, DiscSend, SendStep, MarkStep
<1> QED
  BY <1>1, <1>2, <1>3, <1>4, <1>5 DEF ConnStep, Task, Hello, Disconnect

\* Every step keeps owners alive.
LEMMA OwnerStep ==
  ASSUME TypeOK, TypeOK', OwnerInv, [Next]_vars
  PROVE  OwnerInv'
<1> SUFFICES ASSUME NEW k \in Keys, NEW o \in Conns, reg'[k] # None, ConnOf(reg'[k]) = o
             PROVE  Kept(o, k)'
  BY DEF OwnerInv
<1>0. reg[k] \in Sessions \cup {None} /\ reg'[k] \in Sessions
  BY DEF TypeOK, SharedTypes
<1>1. ASSUME NEW c \in Conns, ConnStep(c) PROVE Kept(o, k)'
  <2>1. CASE HelloAdd(c) /\ arg[c] = k /\ reg'[k] = Mine(c)
    <3>1. o = c
      BY <2>1 DEF Mine, ConnOf
    <3> QED
      BY <2>1, <3>1 DEF Kept, HelloAdd, GoTo, TypeOK, TaskTypes, DiscPCs
  <2>2. CASE reg'[k] = reg[k]
    <3>1. Kept(o, k)
      BY <2>2 DEF OwnerInv
    <3>2. CASE o = c
      BY <1>0, <1>1, <2>2, <3>1, <3>2, KeptByOwner
    <3>3. CASE o # c
      BY <1>1, <3>1, <3>3, ConnFrame DEF Kept
    <3> QED
      BY <3>2, <3>3
  <2> QED
    BY <1>1, <2>1, <2>2, EntryChange
<1>2. ASSUME NEW v \in Servers, ZoneStep(v) PROVE Kept(o, k)'
  <2>1. reg[k] = reg'[k] /\ UNCHANGED connVars
    BY <1>2, ZoneFrame
  <2>2. Kept(o, k)
    BY <2>1 DEF OwnerInv
  <2> QED
    BY <2>1, <2>2 DEF Kept, connVars
<1>3. CASE UNCHANGED vars
  BY <1>3 DEF OwnerInv, Kept, vars, connVars, tableVars
<1> QED
  BY <1>1, <1>2, <1>3, NextSteps

\* Owners at the start.
LEMMA OwnerInit == Init => OwnerInv
  BY DEF Init, TableInit, OwnerInv

\* An owner that has noted its entry, or is about to, is not gone.
LEMMA OwnerIsAlive == TypeOK /\ OwnerInv => NoDeadOwner
  BY DEF OwnerInv, Kept, NoDeadOwner, TypeOK, SharedTypes

(* A connection whose task has ended owns no entry of the session registry, *)
(* whatever logins, evictions, end confirms and disconnects of whatever     *)
(* other connections interleave with its teardown.                          *)
THEOREM NoDeadOwnerHolds == Spec => []NoDeadOwner
<1>1. Init => TypeOK /\ OwnerInv
  BY InitTypes, OwnerInit
<1>2. TypeOK /\ OwnerInv /\ [Next]_vars => TypeOK' /\ OwnerInv'
  BY NextTypes, OwnerStep
<1>3. TypeOK /\ OwnerInv => NoDeadOwner
  BY OwnerIsAlive
<1> QED
  BY <1>1, <1>2, <1>3, PTL DEF Spec

(***************************************************************************)
(* Evictions.                                                              *)
(***************************************************************************)

(* A connection never gives up a claim. *)
LEMMA ClaimsGrow ==
  ASSUME TypeOK, [Next]_vars, NEW c \in Conns
  PROVE  Claimed(c) \subseteq Claimed(c)'
<1> USE DEF TypeOK, SharedTypes, TaskTypes, Claimed, HelloPCs, GoTo, DropLocals
<1>1. ASSUME NEW d \in Conns, ConnStep(d), d # c PROVE Claimed(c) \subseteq Claimed(c)'
  BY <1>1, ConnFrame
<1>2. CASE ConnStep(c)
  <2>1. CASE Client(c) \/ Shutdown(c)
    BY <2>1 DEF Client, Shutdown, Accept, RecvHello, PeerClose, Superseded, LeaveLoop
  <2>2. CASE HelloRoute(c) \/ HelloLookup(c)
    BY <2>2 DEF HelloRoute, AfterRoute, HelloLookup
  <2>3. CASE EvictMark(c) \/ HelloBegin(c) \/ EvictSend(c)
    BY <2>3 DEF EvictMark, MarkStep, HelloBegin, EvictSend, SendStep
  <2>4. CASE EvictRemove(c) \/ EvictNotify(c) \/ HelloAdd(c)
    BY <2>4 DEF EvictRemove, EvictNotify, HelloAdd
  <2>5. CASE HelloOwn(c)
    BY <2>5 DEF HelloOwn, NoteOwned
  <2>6. CASE Disconnect(c)
    BY <2>6 DEF Disconnect, DiscNext, DiscMark, DiscSend, DiscRemove, MarkStep, SendStep
  <2> QED
    BY <1>2, <2>1, <2>2, <2>3, <2>4, <2>5, <2>6 DEF ConnStep, Task, Hello
<1>3. ASSUME NEW v \in Servers, ZoneStep(v) PROVE Claimed(c) \subseteq Claimed(c)'
  BY <1>3, ZoneFrame DEF connVars
<1>4. CASE UNCHANGED vars
  BY <1>4 DEF vars, connVars
<1> QED
  BY <1>1, <1>2, <1>3, <1>4, NextSteps

(* A task evicts another connection, one that claims the same session. *)
Victim(d, c) == c # d /\ arg[d] \in Claimed(c)

EvictInv == \A c, d \in Conns : Evicting(d, c) => Victim(d, c)

\* Every step keeps the victim of an eviction a claimant of the id.
LEMMA EvictStep ==
  ASSUME TypeOK, OwnerInv, EvictInv, [Next]_vars
  PROVE  EvictInv'
<1> SUFFICES ASSUME NEW c \in Conns, NEW d \in Conns, Evicting(d, c)'
             PROVE  Victim(d, c)'
  BY DEF EvictInv
<1>0. Claimed(c) \subseteq Claimed(c)'
  BY ClaimsGrow
<1>1. CASE Evicting(d, c) /\ arg'[d] = arg[d]
  BY <1>0, <1>1 DEF EvictInv, Victim
<1>2. CASE HelloLookup(d)
  <2>1. /\ reg[arg[d]] # None /\ ConnOf(reg[arg[d]]) # d
        /\ old'[d] = reg[arg[d]] /\ arg'[d] = arg[d] /\ arg[d] \in Keys
    BY <1>2 DEF HelloLookup, GoTo, Evicting, EvictPCs, IsResend, TypeOK, TaskTypes, HelloPCs
  <2>2. ConnOf(reg[arg[d]]) = c
    BY <2>1 DEF Evicting
  <2>3. arg[d] \in Claimed(c)
    BY <2>1, <2>2 DEF OwnerInv, Kept, Claimed, HelloPCs
  <2> QED
    BY <1>0, <2>1, <2>2, <2>3 DEF Victim
<1>3. ASSUME NEW e \in Conns, ConnStep(e), e # d PROVE Victim(d, c)'
  BY <1>1, <1>3, ConnFrame DEF Evicting
<1>4. CASE ConnStep(d) /\ ~HelloLookup(d)
  <2> USE DEF TypeOK, SharedTypes, TaskTypes, GoTo, DropLocals, Evicting, EvictPCs
  <2>1. CASE Client(d) \/ Shutdown(d)
    BY <2>1 DEF Client, Shutdown, Accept, RecvHello, PeerClose, Superseded, LeaveLoop
  <2>2. CASE HelloRoute(d) \/ HelloBegin(d) \/ HelloAdd(d) \/ HelloOwn(d)
    BY <2>2 DEF HelloRoute, AfterRoute, HelloBegin, HelloAdd, HelloOwn, SendStep
  <2>3. CASE EvictMark(d)
    BY <1>1, <2>3 DEF EvictMark, MarkStep
  <2>4. CASE EvictSend(d)
    BY <1>1, <2>4 DEF EvictSend, SendStep
  <2>5. CASE EvictRemove(d) \/ EvictNotify(d)
    BY <1>1, <2>5 DEF EvictRemove, EvictNotify
  <2>6. CASE Disconnect(d)
    BY <2>6 DEF Disconnect, DiscNext, Teardown, DiscMark, DiscSend, DiscRemove, MarkStep,
       SendStep
  <2> QED
    BY <1>4, <2>1, <2>2, <2>3, <2>4, <2>5, <2>6 DEF ConnStep, Task, Hello
<1>5. ASSUME NEW v \in Servers, ZoneStep(v) PROVE Victim(d, c)'
  BY <1>1, <1>5, ZoneFrame DEF Evicting, connVars
<1>6. CASE UNCHANGED vars
  BY <1>1, <1>6 DEF Evicting, vars, connVars
<1> QED
  BY <1>2, <1>3, <1>4, <1>5, <1>6, NextSteps

(* A permit is stored only by an eviction. *)
LEMMA NotifyStep ==
  ASSUME TypeOK, [Next]_vars, NEW c \in Conns, notified'[c]
  PROVE  notified[c] \/ \E d \in Conns : pc[d] = "evict_notify" /\ Evicting(d, c)
<1> USE DEF TypeOK, SharedTypes, TaskTypes
<1>1. ASSUME NEW d \in Conns, ConnStep(d)
      PROVE  notified[c] \/ (pc[d] = "evict_notify" /\ Evicting(d, c))
  <2>1. CASE EvictNotify(d)
    BY <2>1 DEF EvictNotify, Evicting, EvictPCs, HelloPCs
  <2>2. CASE Client(d) \/ Shutdown(d)
    BY <2>2 DEF Client, Shutdown, Accept, RecvHello, PeerClose, Superseded, LeaveLoop
  <2>3. CASE Hello(d) /\ ~EvictNotify(d)
    BY <2>3 DEF Hello, HelloRoute, HelloBegin, HelloLookup, EvictMark, EvictSend,
       EvictRemove, HelloAdd, HelloOwn, SendStep, MarkStep
  <2>4. CASE Disconnect(d)
    BY <2>4 DEF Disconnect, DiscNext, DiscMark, DiscSend, DiscRemove, SendStep, MarkStep
  <2> QED
    BY <1>1, <2>1, <2>2, <2>3, <2>4 DEF ConnStep, Task
<1>2. ASSUME NEW v \in Servers, ZoneStep(v) PROVE notified[c]
  BY <1>2, ZoneFrame DEF connVars
<1>3. CASE UNCHANGED vars
  BY <1>3 DEF vars, connVars
<1> QED
  BY <1>1, <1>2, <1>3, NextSteps

\* A shutdown is sent in an eviction only, whose victim has lost its id.
LEMMA TakeoverStep ==
  ASSUME TypeOK, EvictInv, ShutdownOnlyOnTakeover, [Next]_vars
  PROVE  ShutdownOnlyOnTakeover'
<1> SUFFICES ASSUME NEW c \in Conns, notified'[c]
             PROVE  \E d \in Conns \ {c} : (Claimed(c) \cap Claimed(d) # {})'
  BY DEF ShutdownOnlyOnTakeover
<1>1. PICK d \in Conns \ {c} : Claimed(c) \cap Claimed(d) # {}
  <2>1. CASE notified[c]
    BY <2>1 DEF ShutdownOnlyOnTakeover
  <2>2. ASSUME NEW d \in Conns, pc[d] = "evict_notify", Evicting(d, c)
        PROVE  \E e \in Conns \ {c} : Claimed(c) \cap Claimed(e) # {}
    <3>1. d # c /\ arg[d] \in Claimed(c)
      BY <2>2 DEF EvictInv, Victim
    <3>2. arg[d] \in Claimed(d)
      BY <2>2 DEF Claimed, HelloPCs
    <3> QED
      BY <3>1, <3>2
  <2> QED
    BY <2>1, <2>2, NotifyStep
<1>2. Claimed(c) \subseteq Claimed(c)' /\ Claimed(d) \subseteq Claimed(d)'
  BY ClaimsGrow
<1> QED
  BY <1>1, <1>2

\* Evictions at the start.
LEMMA EvictInit == Init => EvictInv /\ ShutdownOnlyOnTakeover
  BY DEF Init, ConnInit, EvictInv, Evicting, EvictPCs, ShutdownOnlyOnTakeover

(* A connection is told to shut down only because another connection        *)
(* claimed one of its session ids: end_existing_session never notifies the  *)
(* connection it runs on, whatever the registry went through in between.    *)
THEOREM ShutdownOnlyOnTakeoverHolds == Spec => []ShutdownOnlyOnTakeover
<1> DEFINE Inv == TypeOK /\ OwnerInv /\ EvictInv /\ ShutdownOnlyOnTakeover
<1>1. Init => Inv
  BY InitTypes, OwnerInit, EvictInit
<1>2. Inv /\ [Next]_vars => Inv'
  BY NextTypes, OwnerStep, EvictStep, TakeoverStep
<1> QED
  BY <1>1, <1>2, PTL DEF Spec

(***************************************************************************)
(* The record of a pending end.                                            *)
(***************************************************************************)
Departing(c) == Leaving(c) \/ notified[c] \/ \E d \in Conns : Evicting(d, c)

(* A connection that departs does so until it is gone. *)
LEMMA DepartingStays ==
  ASSUME TypeOK, [Next]_vars, NEW c \in Conns, Departing(c)
  PROVE  Departing(c)'
<1> USE DEF TypeOK, SharedTypes, TaskTypes, GoTo, DropLocals, Leaving, DiscPCs
<1>1. ASSUME NEW e \in Conns, ConnStep(e) PROVE Departing(c)'
  <2>1. CASE Leaving(c)
    <3>1. CASE e # c
      BY <1>1, <2>1, <3>1, ConnFrame DEF Departing
    <3>2. CASE e = c
      <4>1. Disconnect(c)
        BY <1>1, <2>1, <3>2 DEF ConnStep, Client, Task, Shutdown, Accept, RecvHello,
           PeerClose, Superseded, LeaveLoop, Hello, HelloRoute, HelloBegin, HelloLookup,
           EvictMark, EvictSend, EvictRemove, EvictNotify, HelloAdd, HelloOwn, SendStep,
           MarkStep
      <4>2. Leaving(c)'
        BY <4>1 DEF Disconnect, DiscNext, Teardown, DiscMark, DiscSend, DiscRemove,
           MarkStep, SendStep
      <4> QED
        BY <4>2 DEF Departing
    <3> QED
      BY <3>1, <3>2
  <2>2. CASE notified[c]
    <3>1. CASE Superseded(e) /\ e = c
      BY <3>1 DEF Superseded, LeaveLoop, Departing
    <3>2. CASE ~(Superseded(e) /\ e = c)
      <4>1. CASE Client(e)
        BY <2>2, <4>1 DEF Client, Accept, RecvHello, PeerClose, Departing
      <4>2. CASE Shutdown(e)
        BY <2>2, <3>2, <4>2 DEF Shutdown, Superseded, Departing
      <4>3. CASE Hello(e)
        BY <2>2, <4>3 DEF Hello, HelloRoute, HelloBegin, HelloLookup, EvictMark, EvictSend,
           EvictRemove, EvictNotify, HelloAdd, HelloOwn, SendStep, MarkStep, Departing
      <4>4. CASE Disconnect(e)
        BY <2>2, <4>4 DEF Disconnect, DiscNext, DiscMark, DiscSend, DiscRemove, SendStep,
           MarkStep, Departing
      <4> QED
        BY <1>1, <4>1, <4>2, <4>3, <4>4 DEF ConnStep, Task
    <3> QED
      BY <3>1, <3>2
  <2>3. ASSUME NEW d \in Conns, Evicting(d, c) PROVE Departing(c)'
    <3> USE DEF Evicting, EvictPCs
    <3>1. CASE e # d
      BY <1>1, <2>3, <3>1, ConnFrame, ZenonT(60) DEF Departing
    <3>2. CASE e = d /\ EvictNotify(d)
      BY <2>3, <3>2 DEF EvictNotify, Departing
    <3>3. CASE e = d /\ (EvictMark(d) \/ EvictSend(d) \/ EvictRemove(d))
      <4>1. Evicting(d, c)'
        BY <2>3, <3>3 DEF EvictMark, EvictSend, EvictRemove, MarkStep, SendStep
      <4> QED
        BY <4>1 DEF Departing
    <3>4. CASE e = d /\ ~(EvictMark(d) \/ EvictSend(d) \/ EvictRemove(d) \/ EvictNotify(d))
      BY <1>1, <2>3, <3>4 DEF ConnStep, Client, Task, Shutdown, Accept, RecvHello,
         PeerClose, Superseded, LeaveLoop, Hello, HelloRoute, HelloBegin, HelloLookup,
         HelloAdd, HelloOwn, Disconnect, DiscNext, DiscMark, DiscSend, DiscRemove,
         SendStep, MarkStep
    <3> QED
      BY <3>1, <3>2, <3>3, <3>4
  <2> QED
    BY <2>1, <2>2, <2>3 DEF Departing
<1>2. ASSUME NEW v \in Servers, ZoneStep(v) PROVE Departing(c)'
  BY <1>2, ZoneFrame DEF Departing, Evicting, connVars
<1>3. CASE UNCHANGED vars
  BY <1>3 DEF Departing, Evicting, vars, connVars
<1> QED
  BY <1>1, <1>2, <1>3, NextSteps

(* A record is made for the evicted connection or for the one leaving. *)
LEMMA RecordStep ==
  ASSUME TypeOK, [Next]_vars, NEW id \in Ids, NEW c \in Conns, pending'[id] = c
  PROVE  pending[id] = c \/ Departing(c)'
<1> USE DEF TypeOK, SharedTypes, TaskTypes, GoTo, tableVars
<1>1. ASSUME NEW e \in Conns, ConnStep(e) PROVE pending[id] = c \/ Departing(c)'
  <2>1. CASE Client(e) \/ Shutdown(e)
    BY <2>1 DEF Client, Shutdown, Accept, RecvHello, PeerClose, Superseded, LeaveLoop
  <2>2. CASE Hello(e) /\ ~EvictMark(e)
    BY <2>2 DEF Hello, HelloRoute, HelloBegin, HelloLookup, EvictSend, EvictRemove,
       EvictNotify, HelloAdd, HelloOwn, SendStep
  <2>3. CASE Disconnect(e) /\ ~DiscMark(e)
    BY <2>3 DEF Disconnect, DiscNext, DiscSend, DiscRemove, SendStep
  <2>4. CASE EvictMark(e)
    <3>1. CASE pending'[id] = pending[id]
      BY <3>1
    <3>2. CASE pending'[id] # pending[id]
      <4>1. ConnOf(old[e]) = c
        BY <2>4, <3>2 DEF EvictMark, MarkStep
      <4>2. Evicting(e, c)'
        BY <2>4, <3>2, <4>1 DEF EvictMark, MarkStep, Evicting, EvictPCs
      <4> QED
        BY <4>2 DEF Departing
    <3> QED
      BY <3>1, <3>2
  <2>5. CASE DiscMark(e)
    <3>1. CASE pending'[id] = pending[id]
      BY <3>1
    <3>2. CASE pending'[id] # pending[id]
      BY <2>5, <3>2 DEF DiscMark, MarkStep, Departing, Leaving, DiscPCs
    <3> QED
      BY <3>1, <3>2
  <2> QED
    BY <1>1, <2>1, <2>2, <2>3, <2>4, <2>5 DEF ConnStep, Task
<1>2. ASSUME NEW v \in Servers, ZoneStep(v) PROVE pending[id] = c
  BY <1>2, ZoneFrame, NoneAssumption
<1>3. CASE UNCHANGED vars
  BY <1>3 DEF vars
<1> QED
  BY <1>1, <1>2, <1>3, NextSteps

(* The record that is_stale_end_confirm compares with always names a        *)
(* connection that is leaving, was told to, or is being evicted: requesting *)
(* an end never marks a connection that stays.                              *)
THEOREM PendingEndIsForDepartingHolds == Spec => []PendingEndIsForDeparting
<1>1. Init => TypeOK /\ PendingEndIsForDeparting
  <2>1. Init => PendingEndIsForDeparting
    BY NoneAssumption DEF Init, TableInit, PendingEndIsForDeparting
  <2> QED
    BY <2>1, InitTypes
<1>2. TypeOK /\ PendingEndIsForDeparting /\ [Next]_vars
        => TypeOK' /\ PendingEndIsForDeparting'
  <2> SUFFICES ASSUME TypeOK, PendingEndIsForDeparting, [Next]_vars
               PROVE  PendingEndIsForDeparting'
    BY NextTypes
  <2>1. \A id \in Ids, c \in Conns : pending[id] = c => Departing(c)
    BY DEF PendingEndIsForDeparting, Departing
  <2>2. \A id \in Ids, c \in Conns : pending'[id] = c => Departing(c)'
    BY <2>1, RecordStep, DepartingStays
  <2> QED
    BY <2>2 DEF PendingEndIsForDeparting, Departing
<1> QED
  BY <1>1, <1>2, PTL DEF Spec

(***************************************************************************)
(* Who removes an entry.                                                   *)
(***************************************************************************)
LEMMA RemovalStep ==
  ASSUME TypeOK, [Next]_vars, NEW k \in Keys, reg[k] # None, reg'[k] = None
  PROVE  LET c == ConnOf(reg[k])
         IN  \/ Leaving(c)
             \/ \E d \in Conns : Evicting(d, c)
             \/ \E v \in Servers : rpc[v] \in {"rm_zone", "rm_chat"}
<1> USE DEF TypeOK, SharedTypes, TaskTypes, tableVars
<1>1. ASSUME NEW e \in Conns, ConnStep(e)
      PROVE  Leaving(ConnOf(reg[k])) \/ Evicting(e, ConnOf(reg[k]))
  <2>1. CASE Client(e) \/ Shutdown(e)
    BY <2>1 DEF Client, Shutdown, Accept, RecvHello, PeerClose, Superseded, LeaveLoop
  <2>2. CASE HelloRoute(e) \/ HelloLookup(e) \/ HelloBegin(e) \/ EvictMark(e)
             \/ EvictSend(e) \/ EvictNotify(e) \/ HelloOwn(e)
    BY <2>2 DEF HelloRoute, HelloLookup, HelloBegin, EvictMark, EvictSend, EvictNotify,
       HelloOwn, SendStep, MarkStep
  <2>3. CASE EvictRemove(e)
    BY <2>3 DEF EvictRemove, RemoveIf, Evicting, EvictPCs
  <2>4. CASE HelloAdd(e)
    <3>1. Mine(e) \in Sessions
      BY <2>4, MineTypes DEF HelloAdd, HelloPCs
    <3>2. Mine(e) # None
      BY <3>1, NoneAssumption DEF Sessions
    <3> QED
      BY <2>4, <3>2 DEF HelloAdd
  <2>5. CASE DiscNext(e) \/ DiscMark(e) \/ DiscSend(e)
    BY <2>5 DEF DiscNext, DiscMark, DiscSend, SendStep, MarkStep
  <2>6. CASE DiscRemove(e)
    BY <2>6 DEF DiscRemove, RemoveIf, Leaving, DiscPCs
  <2> QED
    BY <1>1, <2>1, <2>2, <2>3, <2>4, <2>5, <2>6 DEF ConnStep, Task, Hello, Disconnect
<1>2. ASSUME NEW v \in Servers, ZoneStep(v) PROVE rpc[v] \in {"rm_zone", "rm_chat"}
  <2>1. CASE ~Reader(v)
    BY <1>2, <2>1 DEF ZoneStep, Link, ZoneDrop, ZoneServerAnswers, ZoneServerAsks
  <2>2. CASE Reader(v)
    BY <2>2 DEF Reader, HandleWorldPacket, ReadPacket, EndConfirm, MoveBegin, MoveRoute,
       TakePendingEnd, StaleGuard, RemoveZone, RemoveChat, ZoneChange, ZoneChangeSend
  <2> QED
    BY <2>1, <2>2
<1>3. CASE UNCHANGED vars
  BY <1>3 DEF vars
<1> QED
  BY <1>1, <1>2, <1>3, NextSteps

(* remove_if does its work: the teardown of a connection that lost an id    *)
(* before never removes the entry of the connection that took it over.      *)
THEOREM EntryOutlivesStaleTeardownHolds == Spec => EntryOutlivesStaleTeardown
<1> DEFINE A == \A k \in Keys : reg[k] # None /\ reg'[k] = None =>
                  LET c == ConnOf(reg[k])
                  IN  \/ Leaving(c)
                      \/ \E d \in Conns : Evicting(d, c)
                      \/ \E v \in Servers : rpc[v] \in {"rm_zone", "rm_chat"}
<1>1. TypeOK /\ [Next]_vars => [A]_vars
  BY RemovalStep
<1>2. Spec => []TypeOK
  BY TypeCorrectness
<1>3. Spec => [][A]_vars
  BY <1>1, <1>2, PTL DEF Spec
<1> QED
  BY <1>3 DEF EntryOutlivesStaleTeardown

(***************************************************************************)
(* The route of a registered session.                                      *)
(***************************************************************************)

(* The steps of a hello before its session object enters the registry. *)
AddingPCs == HelloPCs \ {"own"}

(* A session object that anybody holds was made by a hello of its           *)
(* connection, and not by the one that is still under way.                  *)
Known(s) ==
  LET c == ConnOf(s)
  IN  s[2] <= hellos[c] /\ (pc[c] \in AddingPCs => s[2] < hellos[c])

KnownInv ==
  /\ \A k \in Keys : reg[k] # None => Known(reg[k])
  /\ \A v \in Servers : rses[v] # None => Known(rses[v])

(* A session object is registered under one key only, and a reader that     *)
(* holds it handles a packet of that key's id.                              *)
BoundInv ==
  /\ \A k, j \in Keys : reg[k] # None /\ reg[k] = reg[j] => k = j
  /\ \A v \in Servers, k \in Keys :
       rses[v] # None /\ rses[v] = reg[k] => k = <<"zone", rmsg[v].id>>

(* The SessionBegin has been queued before the route is used: by a hello    *)
(* before it adds the session, and by a move before it sets the new route.  *)
SentInv ==
  /\ \A c \in Conns :
       /\ pc[c] = "begin" => routing1[Mine(c)] = dst[c]
       /\ pc[c] \in AddingPCs \ {"route", "begin"} /\ arg[c][1] = "zone"
            /\ routing1[Mine(c)] # None
            => <<routing1[Mine(c)], arg[c][2]>> \in begun
  /\ \A v \in Servers :
       rpc[v] = "set_route" => <<rdst[v], rmsg[v].id>> \in begun

RouteInv == KnownInv /\ BoundInv /\ SentInv /\ RegisteredRouteIsBegun

(* What a step of a connection's task does to what routes depend on. *)
LEMMA ConnShared ==
  ASSUME TypeOK, NEW c \in Conns, ConnStep(c)
  PROVE  /\ UNCHANGED readVars
         /\ begun \subseteq begun'
         /\ \A d \in Conns : d # c => hellos'[d] = hellos[d] /\ dst'[d] = dst[d]
         /\ \/ hellos'[c] = hellos[c] /\ (pc'[c] \in AddingPCs => pc[c] \in AddingPCs)
            \/ /\ pc[c] = "read" /\ hellos'[c] = hellos[c] + 1
               /\ pc'[c] = (IF arg'[c][1] = "zone" THEN "route" ELSE "lookup")
         /\ \A s \in Sessions : routing1'[s] = routing1[s] \/ (HelloRoute(c) /\ s = Mine(c))
<1> USE DEF TypeOK, SharedTypes, TaskTypes, GoTo, DropLocals, AddingPCs, HelloPCs,
            zoneSide, tableVars
<1>1. UNCHANGED readVars
  BY DEF ConnStep, Client, Task, Shutdown
<1> HIDE DEF zoneSide
<1>2. CASE Accept(c) \/ PeerClose(c) \/ Superseded(c)
  BY <1>1, <1>2 DEF Accept, PeerClose, Superseded, LeaveLoop
<1>3. ASSUME NEW k \in Keys, RecvHello(c, k)
      PROVE  /\ UNCHANGED <<begun, routing1, dst>>
             /\ pc[c] = "read" /\ hellos' = [hellos EXCEPT ![c] = hellos[c] + 1]
             /\ pc'[c] = (IF arg'[c][1] = "zone" THEN "route" ELSE "lookup")
  BY <1>3 DEF RecvHello
<1>4. CASE HelloRoute(c)
  <2>1. \A s \in Sessions : routing1'[s] = routing1[s] \/ s = Mine(c)
    BY <1>4, MineTypes DEF HelloRoute
  <2> QED
    BY <1>1, <1>4, <2>1 DEF HelloRoute, AfterRoute
<1>5. CASE HelloLookup(c) \/ HelloAdd(c) \/ HelloOwn(c)
  BY <1>1, <1>5 DEF HelloLookup, HelloAdd, HelloOwn
<1>6. CASE EvictRemove(c) \/ EvictNotify(c)
  BY <1>1, <1>6 DEF EvictRemove, EvictNotify
<1>7. CASE HelloBegin(c) \/ EvictSend(c) \/ DiscSend(c)
  BY <1>1, <1>7 DEF HelloBegin, EvictSend, DiscSend, SendStep, Send
<1>8. CASE EvictMark(c) \/ DiscMark(c)
  BY <1>1, <1>8 DEF EvictMark, DiscMark, MarkStep
<1>9. CASE DiscNext(c)
  BY <1>1, <1>9 DEF DiscNext, Teardown
<1>10. CASE DiscRemove(c)
  BY <1>1, <1>10 DEF DiscRemove
<1>11. CASE \E k \in Keys : RecvHello(c, k)
  BY <1>1, <1>3, <1>11
<1> QED
  BY <1>2, <1>4, <1>5, <1>6, <1>7, <1>8, <1>9, <1>10, <1>11, InputAssumption
     DEF ConnStep, Client, Task, Shutdown, Hello, Disconnect, Keys

(* What an endpoint's step does to them. *)
LEMMA ZoneShared ==
  ASSUME TypeOK, NEW v \in Servers, ZoneStep(v)
  PROVE  /\ begun \subseteq begun'
         /\ \A w \in Servers : w # v => /\ rpc'[w] = rpc[w] /\ rmsg'[w] = rmsg[w]
                                        /\ rses'[w] = rses[w] /\ rdst'[w] = rdst[w]
         /\ \/ rses'[v] = None
            \/ rses'[v] = rses[v] /\ rmsg'[v] = rmsg[v]
            \/ /\ rmsg'[v] \in FromMapMsg /\ rses'[v] = reg[<<"zone", rmsg'[v].id>>]
               /\ UNCHANGED <<reg, routing1>>
         /\ \A s \in Sessions : routing1'[s] = routing1[s]
                                \/ (MoveRoute(v) /\ s = rses[v] /\ routing1'[s] = rdst[v])
         /\ rpc'[v] = "set_route" =>
              \/ rpc[v] = "set_route" /\ rdst'[v] = rdst[v] /\ rmsg'[v] = rmsg[v]
              \/ <<rdst'[v], rmsg'[v].id>> \in begun'
<1> USE DEF TypeOK, SharedTypes, ReaderTypes, ReadTo, readVars, tableVars, wireVars
<1>1. CASE ~Reader(v)
  BY <1>1 DEF ZoneStep, Link, ZoneDrop, ZoneServerAnswers, ZoneServerAsks
<1>2. CASE ReadPacket(v)
  <2>1. CASE Ignored(Head(fromMap[v]))
    BY <1>2, <2>1 DEF ReadPacket
  <2>2. CASE ~Ignored(Head(fromMap[v]))
    <3> DEFINE m == Head(fromMap[v])
    <3>1. m \in FromMapMsg
      BY <1>2 DEF ReadPacket
    <3> HIDE DEF m
    <3>2. PICK w \in {"end_confirm", "change"} :
            /\ rmsg' = [rmsg EXCEPT ![v] = m]
            /\ rses' = [rses EXCEPT ![v] = reg[<<"zone", m.id>>]]
            /\ rpc' = [rpc EXCEPT ![v] = w]
            /\ UNCHANGED <<rdst, reg, routing1, begun>>
      BY <1>2, <2>2 DEF ReadPacket, m
    <3> QED
      BY <3>1, <3>2
  <2> QED
    BY <2>1, <2>2
<1>3. CASE ReadDone(v) /\ UNCHANGED <<begun, routing1>>
  BY <1>3 DEF ReadDone
<1>4. CASE EndConfirm(v) /\ ~ReadDone(v)
  BY <1>4 DEF EndConfirm
<1>5. CASE MoveBegin(v)
  BY <1>5 DEF MoveBegin, Send, BeginMsg
<1>6. CASE MoveRoute(v)
  BY <1>6 DEF MoveRoute, ReadDone
<1>7. CASE TakePendingEnd(v) \/ RemoveZone(v)
  BY <1>7 DEF TakePendingEnd, RemoveZone
<1>8. CASE StaleGuard(v) /\ ~ReadDone(v)
  BY <1>8 DEF StaleGuard
<1>9. CASE ZoneChange(v) /\ ~ReadDone(v)
  BY <1>9 DEF ZoneChange
<1>10. CASE ZoneChangeSend(v)
  BY <1>10 DEF ZoneChangeSend, ReadDone, Send
<1>11. CASE EndConfirm(v) \/ StaleGuard(v) \/ ZoneChange(v) \/ RemoveChat(v)
  BY <1>3, <1>4, <1>8, <1>9, <1>11 DEF EndConfirm, StaleGuard, ZoneChange, RemoveChat
<1> QED
  BY <1>1, <1>2, <1>5, <1>6, <1>7, <1>10, <1>11 DEF Reader, HandleWorldPacket

(* A session object that is held stays one that an earlier hello made. *)
LEMMA KnownStep ==
  ASSUME TypeOK, TypeOK', KnownInv, [Next]_vars
  PROVE  KnownInv'
<1>0. ASSUME NEW s \in Sessions PROVE ConnOf(s) \in Conns /\ s[2] \in Nat
  BY BoundsAssumption DEF Sessions, ConnOf
<1>1. ASSUME NEW c \in Conns, ConnStep(c), NEW s \in Sessions, Known(s)
      PROVE  Known(s)'
  <2>1. CASE ConnOf(s) = c
    BY <1>0, <1>1, <2>1, ConnShared DEF Known, TypeOK, SharedTypes
  <2>2. CASE ConnOf(s) # c
    BY <1>0, <1>1, <2>2, ConnShared, ConnFrame DEF Known
  <2> QED
    BY <2>1, <2>2
<1>2. ASSUME NEW c \in Conns, ConnStep(c) PROVE KnownInv'
  <2>1. ASSUME NEW k \in Keys, reg'[k] # None PROVE Known(reg[k])'
    <3>1. CASE reg'[k] = reg[k]
      <4>1. reg[k] \in Sessions /\ Known(reg[k])
        BY <2>1, <3>1 DEF KnownInv, TypeOK, SharedTypes
      <4> QED
        BY <1>1, <1>2, <3>1, <4>1 DEF Known
    <3>2. CASE HelloAdd(c) /\ reg'[k] = Mine(c)
      BY <3>2 DEF HelloAdd, GoTo, Known, Mine, ConnOf, AddingPCs, TypeOK, TaskTypes, SharedTypes
    <3> QED
      BY <1>2, <2>1, <3>1, <3>2, EntryChange
  <2>2. ASSUME NEW v \in Servers, rses'[v] # None PROVE Known(rses[v])'
    <3>1. rses'[v] = rses[v] /\ rses[v] \in Sessions /\ Known(rses[v])
      BY <1>2, <2>2, ConnShared DEF readVars, KnownInv, TypeOK, ReaderTypes
    <3> QED
      BY <1>1, <1>2, <3>1 DEF Known
  <2> QED
    BY <2>1, <2>2 DEF KnownInv
<1>3. ASSUME NEW v \in Servers, ZoneStep(v) PROVE KnownInv'
  <2>1. UNCHANGED <<pc, hellos>>
    BY <1>3, ZoneFrame DEF connVars
  <2>2. ASSUME NEW k \in Keys, reg'[k] # None PROVE Known(reg[k])'
    BY <1>3, <2>1, <2>2, ZoneFrame DEF KnownInv, Known
  <2>3. ASSUME NEW w \in Servers, rses'[w] # None PROVE Known(rses[w])'
    <3>1. rmsg'[w] \in FromMapMsg => <<"zone", rmsg'[w].id>> \in Keys
      BY DEF FromMapMsg, Keys, Channels
    <3>2. rses'[w] = rses[w] \/ \E k \in Keys : rses'[w] = reg[k]
      BY <1>3, <2>3, <3>1, ZoneShared
    <3> QED
      BY <2>1, <2>3, <3>2 DEF KnownInv, Known
  <2> QED
    BY <2>2, <2>3 DEF KnownInv
<1>4. CASE UNCHANGED vars
  BY <1>4 DEF KnownInv, Known, vars, connVars, tableVars, readVars
<1> QED
  BY <1>2, <1>3, <1>4, NextSteps

(* Nobody holds the session object of a hello that has not added it yet. *)
LEMMA UnknownMine ==
  ASSUME TypeOK, NEW c \in Conns, pc[c] \in AddingPCs
  PROVE  ~Known(Mine(c))
  BY DEF Known, Mine, ConnOf, TypeOK, SharedTypes

(* A session object keeps to its key. *)
LEMMA BoundStep ==
  ASSUME TypeOK, TypeOK', KnownInv, BoundInv, [Next]_vars
  PROVE  BoundInv'
<1>1. ASSUME NEW c \in Conns, ConnStep(c) PROVE BoundInv'
  <2>1. UNCHANGED <<rses, rmsg>>
    BY <1>1, ConnShared DEF readVars
  <2>2. CASE \A k \in Keys : reg'[k] = reg[k] \/ reg'[k] = None
    BY <2>1, <2>2 DEF BoundInv
  <2>3. CASE HelloAdd(c)
    <3>1. /\ \A k \in Keys : reg[k] # Mine(c)
          /\ \A v \in Servers : rses[v] # Mine(c)
      <4>1. Mine(c) \in Sessions /\ ~Known(Mine(c))
        BY <2>3, MineTypes, UnknownMine DEF HelloAdd, AddingPCs, HelloPCs
      <4> QED
        BY <4>1, NoneAssumption DEF KnownInv, Sessions
    <3>2. \A k \in Keys : reg'[k] = (IF k = arg[c] THEN Mine(c) ELSE reg[k])
      BY <2>3 DEF HelloAdd, TypeOK, SharedTypes
    <3> QED
      BY <2>1, <3>1, <3>2 DEF BoundInv
  <2> QED
    BY <1>1, <2>2, <2>3, EntryChange
<1>2. ASSUME NEW v \in Servers, ZoneStep(v) PROVE BoundInv'
  <2>1. \A k \in Keys : reg'[k] \in {reg[k], None}
    BY <1>2, ZoneFrame
  <2>2. ASSUME NEW w \in Servers, NEW k \in Keys, rses'[w] # None, rses'[w] = reg'[k]
        PROVE  k = <<"zone", rmsg'[w].id>>
    <3>1. CASE rses'[w] = rses[w] /\ rmsg'[w] = rmsg[w]
      BY <2>1, <2>2, <3>1 DEF BoundInv
    <3>2. CASE w = v /\ rmsg'[v] \in FromMapMsg /\ rses'[v] = reg[<<"zone", rmsg'[v].id>>]
      <4>1. <<"zone", rmsg'[v].id>> \in Keys
        BY <3>2 DEF FromMapMsg, Keys, Channels
      <4> QED
        BY <2>1, <2>2, <3>2, <4>1 DEF BoundInv
    <3> QED
      BY <1>2, <2>2, <3>1, <3>2, ZoneShared
  <2> QED
    BY <2>1, <2>2 DEF BoundInv
<1>3. CASE UNCHANGED vars
  BY <1>3 DEF BoundInv, vars, tableVars, readVars
<1> QED
  BY <1>1, <1>2, <1>3, NextSteps

(* What a hello has queued before it adds its session. *)
Queued(c) ==
  /\ pc[c] = "begin" => routing1[Mine(c)] = dst[c]
  /\ pc[c] \in AddingPCs \ {"route", "begin"} /\ arg[c][1] = "zone"
       /\ routing1[Mine(c)] # None
       => <<routing1[Mine(c)], arg[c][2]>> \in begun

\* A connection's own step keeps what its hello has queued.
LEMMA QueuedByOwn ==
  ASSUME TypeOK, NEW c \in Conns, ConnStep(c), Queued(c)
  PROVE  Queued(c)'
<1> USE DEF Queued, TypeOK, SharedTypes, TaskTypes, GoTo, DropLocals, AddingPCs, HelloPCs,
            tableVars
<1>1. CASE Client(c) \/ Shutdown(c)
  BY <1>1 DEF Client, Accept, RecvHello, PeerClose, LeaveLoop, Shutdown, Superseded
<1>2. CASE HelloRoute(c)
  <2>1. Mine(c) \in Sessions /\ Mine(c)' = Mine(c)
    BY <1>2, MineTypes DEF HelloRoute, Mine
  <2> HIDE DEF Mine
  <2>2. PICK h : /\ routing1' = [routing1 EXCEPT ![Mine(c)] = h]
                 /\ dst' = [dst EXCEPT ![c] = h]
                 /\ pc' = [pc EXCEPT ![c] = IF h = None THEN "lookup" ELSE "begin"]
    BY <1>2 DEF HelloRoute, AfterRoute
  <2> QED
    BY <2>1, <2>2
<1>3. CASE HelloBegin(c)
  BY <1>3 DEF HelloBegin, SendStep, Send, BeginMsg, Mine
<1>4. CASE HelloLookup(c)
  BY <1>4 DEF HelloLookup, Mine
<1>5. CASE EvictMark(c)
  BY <1>5 DEF EvictMark, MarkStep, Mine
<1>6. CASE EvictSend(c)
  BY <1>6 DEF EvictSend, SendStep, Send, EndMsg, Mine
<1>7. CASE EvictRemove(c) \/ EvictNotify(c)
  BY <1>7 DEF EvictRemove, EvictNotify, Mine
<1>8. CASE HelloAdd(c) \/ HelloOwn(c)
  BY <1>8 DEF HelloAdd, HelloOwn
<1>9. CASE Disconnect(c)
  BY <1>9 DEF Disconnect, DiscNext, Teardown, DiscMark, DiscSend, DiscRemove, MarkStep,
     SendStep
<1> QED
  BY <1>1, <1>2, <1>3, <1>4, <1>5, <1>6, <1>7, <1>8, <1>9 DEF ConnStep, Task, Hello

\* Every step keeps what was sent for a hello.
LEMMA SentStep ==
  ASSUME TypeOK, TypeOK', KnownInv, SentInv, [Next]_vars
  PROVE  SentInv'
<1>0. /\ \A c \in Conns : Queued(c)
      /\ \A v \in Servers : rpc[v] = "set_route" => <<rdst[v], rmsg[v].id>> \in begun
  BY DEF SentInv, Queued
<1> SUFFICES /\ \A c \in Conns : Queued(c)'
             /\ \A v \in Servers : rpc'[v] = "set_route"
                                    => <<rdst'[v], rmsg'[v].id>> \in begun'
  BY DEF SentInv, Queued
<1>1. ASSUME NEW c \in Conns, ConnStep(c), NEW d \in Conns PROVE Queued(d)'
  <2>1. CASE d = c
    BY <1>0, <1>1, <2>1, QueuedByOwn
  <2>2. CASE d # c
    <3>1. pc[d] \in AddingPCs => Mine(d) \in Sessions /\ Mine(d) # Mine(c)
      BY <2>2, MineTypes DEF Mine, AddingPCs
    <3>2. Mine(d)' = Mine(d)
      BY <1>1, <2>2, ConnShared DEF Mine
    <3>3. pc[d] \in AddingPCs => routing1'[Mine(d)] = routing1[Mine(d)]
      BY <1>1, <3>1, ConnShared
    <3> QED
      BY <1>0, <1>1, <2>2, <3>2, <3>3, ConnShared, ConnFrame
         DEF Queued, AddingPCs, HelloPCs
  <2> QED
    BY <2>1, <2>2
<1>2. ASSUME NEW c \in Conns, ConnStep(c), NEW v \in Servers, rpc'[v] = "set_route"
      PROVE  <<rdst'[v], rmsg'[v].id>> \in begun'
  BY <1>0, <1>2, ConnShared DEF readVars
<1>3. ASSUME NEW v \in Servers, ZoneStep(v), NEW d \in Conns PROVE Queued(d)'
  <2>1. UNCHANGED <<pc, arg, dst, hellos>> /\ Mine(d)' = Mine(d)
    BY <1>3, ZoneFrame DEF connVars, Mine
  <2>2. ASSUME pc[d] \in AddingPCs PROVE routing1'[Mine(d)] = routing1[Mine(d)]
    <3>1. Mine(d) \in Sessions /\ ~Known(Mine(d))
      BY <2>2, MineTypes, UnknownMine DEF AddingPCs
    <3>2. rses[v] # Mine(d)
      BY <3>1, NoneAssumption DEF KnownInv, Sessions
    <3> QED
      BY <1>3, <3>1, <3>2, ZoneShared
  <2> QED
    BY <1>0, <1>3, <2>1, <2>2, ZoneShared DEF Queued, AddingPCs, HelloPCs
<1>4. ASSUME NEW v \in Servers, ZoneStep(v), NEW w \in Servers, rpc'[w] = "set_route"
      PROVE  <<rdst'[w], rmsg'[w].id>> \in begun'
  BY <1>0, <1>4, ZoneShared
<1>5. CASE UNCHANGED vars
  BY <1>0, <1>5 DEF Queued, Mine, vars, connVars, tableVars, wireVars, readVars
<1> QED
  BY <1>1, <1>2, <1>3, <1>4, <1>5, NextSteps

\* Every step keeps registered routes begun.
LEMMA BegunStep ==
  ASSUME TypeOK, TypeOK', RouteInv, [Next]_vars
  PROVE  RegisteredRouteIsBegun'
<1> SUFFICES ASSUME NEW id \in Ids, reg'[<<"zone", id>>] # None,
                    routing1'[reg'[<<"zone", id>>]] # None
             PROVE  <<routing1'[reg'[<<"zone", id>>]], id>> \in begun'
  BY DEF RegisteredRouteIsBegun
<1> DEFINE k == <<"zone", id>>
<1>0. k \in Keys
  BY DEF Keys, Channels
<1>1. ASSUME reg'[k] = reg[k]
      PROVE  /\ reg[k] \in Sessions /\ Known(reg[k])
             /\ routing1[reg[k]] # None => <<routing1[reg[k]], id>> \in begun
  BY <1>0, <1>1 DEF RouteInv, KnownInv, RegisteredRouteIsBegun, TypeOK, SharedTypes
<1>2. ASSUME NEW c \in Conns, ConnStep(c)
      PROVE  <<routing1'[reg'[k]], id>> \in begun'
  <2>1. CASE reg'[k] = reg[k]
    <3>1. HelloRoute(c) => ~Known(Mine(c))
      BY UnknownMine DEF HelloRoute, AddingPCs, HelloPCs
    <3>2. routing1'[reg[k]] = routing1[reg[k]]
      BY <1>1, <1>2, <2>1, <3>1, ConnShared
    <3> QED
      BY <1>1, <1>2, <2>1, <3>2, ConnShared
  <2>2. CASE HelloAdd(c) /\ arg[c] = k /\ reg'[k] = Mine(c)
    <3>1. UNCHANGED <<routing1, begun>> /\ pc[c] \in AddingPCs \ {"route", "begin"}
      BY <2>2 DEF HelloAdd, AddingPCs, HelloPCs
    <3> QED
      BY <2>2, <3>1 DEF RouteInv, SentInv
  <2> QED
    BY <1>0, <1>2, <2>1, <2>2, EntryChange
<1>3. ASSUME NEW v \in Servers, ZoneStep(v)
      PROVE  <<routing1'[reg'[k]], id>> \in begun'
  <2>1. reg'[k] = reg[k]
    BY <1>0, <1>3, ZoneFrame
  <2>2. CASE routing1'[reg[k]] = routing1[reg[k]]
    BY <1>1, <1>3, <2>1, <2>2, ZoneShared
  <2>3. CASE MoveRoute(v) /\ reg[k] = rses[v] /\ routing1'[reg[k]] = rdst[v]
    <3>1. k = <<"zone", rmsg[v].id>>
      BY <1>0, <2>1, <2>3 DEF RouteInv, BoundInv
    <3>2. <<rdst[v], rmsg[v].id>> \in begun
      BY <2>3 DEF RouteInv, SentInv, MoveRoute
    <3> QED
      BY <1>3, <2>1, <2>3, <3>1, <3>2, ZoneShared
  <2> QED
    BY <1>1, <1>3, <2>1, <2>2, <2>3, ZoneShared
<1>4. CASE UNCHANGED vars
  BY <1>1, <1>4 DEF vars, tableVars, wireVars
<1> QED
  BY <1>2, <1>3, <1>4, NextSteps

\* Routes at the start.
LEMMA RouteInit == Init => RouteInv
  BY DEF Init, ConnInit, TableInit, WireInit, RouteInv, KnownInv, BoundInv, SentInv,
     RegisteredRouteIsBegun, AddingPCs, HelloPCs, Keys, Channels

(* No game packet of a session can reach a zone server ahead of the         *)
(* session's SessionBegin: handle_hello queues it before it registers the   *)
(* session, handle_world_packet before it sets a moved session's route,     *)
(* and no other task's step in between gives a registered session a route   *)
(* that was not begun.                                                      *)
THEOREM RegisteredRouteIsBegunHolds == Spec => []RegisteredRouteIsBegun
<1>1. Init => TypeOK /\ RouteInv
  BY InitTypes, RouteInit
<1>2. TypeOK /\ RouteInv /\ [Next]_vars => TypeOK' /\ RouteInv'
  <2>1. ASSUME TypeOK, RouteInv, [Next]_vars PROVE TypeOK' /\ RouteInv'
    BY <2>1, NextTypes, KnownStep, BoundStep, SentStep, BegunStep DEF RouteInv
  <2> QED
    BY <2>1
<1>3. RouteInv => RegisteredRouteIsBegun
  BY DEF RouteInv
<1> QED
  BY <1>1, <1>2, <1>3, PTL DEF Spec

(***************************************************************************)
(* The registry implements the ownership of sessions.                      *)
(***************************************************************************)

(* The abstract state, as Ownership's refinement mapping has it. *)
OwnerOf(k)  == IF reg[k] = None THEN None ELSE ConnOf(reg[k])
RivalOf(c)  == IF pc[c] \in EvictPCs THEN ConnOf(old[c]) ELSE None
OwnerBar    == [k \in Keys |-> OwnerOf(k)]
LifeBar     == [c \in Conns |-> Life(c)]
RivalBar    == [c \in Conns |-> RivalOf(c)]
ToldBar     == {c \in Conns : notified[c]}
DecreeBar   == {k \in Keys : \E v \in Servers : Revoking(v, k)}

\* The initial state maps to the abstract one.
LEMMA InitRefines == Init => Ownership!Init
<1> SUFFICES ASSUME Init PROVE Ownership!Init
  OBVIOUS
<1>1. /\ \A k \in Keys : reg[k] = None
      /\ \A c \in Conns : pc[c] = "idle" /\ ~notified[c]
      /\ \A v \in Servers : rpc[v] = "ready"
  BY DEF Init, ConnInit, TableInit, WireInit
<1>2. \A c \in Conns : Life(c) = "new" /\ pc[c] \notin EvictPCs
  BY <1>1 DEF Life, EvictPCs, DiscPCs
<1>3. \A k \in Keys : ~\E v \in Servers : Revoking(v, k)
  BY <1>1 DEF Revoking
<1> QED
  BY <1>1, <1>2, <1>3 DEF Ownership!Init

(* What a connection's step leaves alone. *)
LEMMA ConnBar ==
  ASSUME TypeOK, NEW c \in Conns, ConnStep(c)
  PROVE  /\ UNCHANGED DecreeBar
         /\ \A d \in Conns : d # c => Life(d)' = Life(d) /\ RivalOf(d)' = RivalOf(d)
<1>1. UNCHANGED readVars
  BY ConnShared
<1>2. UNCHANGED DecreeBar
  BY <1>1 DEF DecreeBar, Revoking, readVars
<1>3. \A d \in Conns : d # c => pc'[d] = pc[d] /\ old'[d] = old[d]
  BY ConnFrame
<1>4. \A d \in Conns : d # c => Life(d)' = Life(d) /\ RivalOf(d)' = RivalOf(d)
  BY <1>3 DEF Life, RivalOf
<1> QED
  BY <1>2, <1>4

(* The steps that leave the life and the rival of a connection alone. *)
LEMMA ConnQuiet ==
  ASSUME TypeOK, NEW c \in Conns, ConnStep(c), UNCHANGED <<reg, notified>>,
         Life(c)' = Life(c), RivalOf(c)' = RivalOf(c)
  PROVE  UNCHANGED Ownership!abstract
<1>1. UNCHANGED <<LifeBar, RivalBar>>
  BY ConnBar DEF LifeBar, RivalBar
<1>2. UNCHANGED <<OwnerBar, ToldBar, DecreeBar>>
  BY ConnBar DEF OwnerBar, OwnerOf, ToldBar
<1> QED
  BY <1>1, <1>2 DEF Ownership!abstract, OwnerBar, OwnerOf, LifeBar, RivalBar, RivalOf,
     ToldBar, DecreeBar

\* The other steps of a hello are none the abstract specification sees.
LEMMA HelloQuiet ==
  ASSUME TypeOK, NEW c \in Conns, ConnStep(c),
         \/ \E k \in Keys : RecvHello(c, k)
         \/ HelloRoute(c) \/ HelloBegin(c) \/ HelloOwn(c) \/ EvictMark(c) \/ EvictSend(c)
  PROVE  UNCHANGED Ownership!abstract
<1> USE DEF TypeOK, TaskTypes, SharedTypes, GoTo, Life, RivalOf, DiscPCs, EvictPCs, tableVars
<1>1. ASSUME NEW k \in Keys, RecvHello(c, k)
      PROVE  UNCHANGED <<reg, notified>> /\ Life(c)' = Life(c) /\ RivalOf(c)' = RivalOf(c)
  BY <1>1 DEF RecvHello
<1>2. CASE HelloRoute(c)
  BY <1>2, ConnQuiet DEF HelloRoute, AfterRoute
<1>3. CASE HelloBegin(c) \/ EvictSend(c)
  BY <1>3, ConnQuiet DEF HelloBegin, EvictSend, SendStep
<1>4. CASE HelloOwn(c)
  BY <1>4, ConnQuiet DEF HelloOwn, DropLocals
<1>5. CASE EvictMark(c)
  BY <1>5, ConnQuiet DEF EvictMark, MarkStep
<1> QED
  BY <1>1, <1>2, <1>3, <1>4, <1>5, ConnQuiet

(* The steps of a connection that ownership sees. *)
LEMMA ClientRefines ==
  ASSUME TypeOK, NEW c \in Conns, ConnStep(c)
  PROVE  /\ Accept(c) => Ownership!Connect(c)
         /\ PeerClose(c) \/ Superseded(c) => Ownership!Leave(c)
<1> USE DEF TypeOK, TaskTypes, SharedTypes, GoTo, DiscPCs, EvictPCs, tableVars
<1>1. ASSUME Accept(c) PROVE Ownership!Connect(c)
  <2>1. UNCHANGED <<OwnerBar, ToldBar, DecreeBar>>
    BY <1>1, ConnBar DEF Accept, OwnerBar, OwnerOf, ToldBar
  <2>2. Life(c) = "new" /\ Life(c)' = "live" /\ RivalOf(c)' = RivalOf(c)
    BY <1>1 DEF Accept, Life, RivalOf
  <2>3. UNCHANGED RivalBar /\ LifeBar' = [LifeBar EXCEPT ![c] = "live"]
    BY <2>2, ConnBar DEF LifeBar, RivalBar
  <2> QED
    BY <2>1, <2>2, <2>3 DEF Ownership!Connect, OwnerBar, OwnerOf, RivalBar, RivalOf,
       LifeBar, ToldBar, DecreeBar
<1>2. ASSUME PeerClose(c) \/ Superseded(c) PROVE Ownership!Leave(c)
  <2>1. UNCHANGED <<OwnerBar, DecreeBar>>
    BY <1>2, ConnBar DEF PeerClose, Superseded, LeaveLoop, OwnerBar, OwnerOf
  <2>2. ToldBar' \in {ToldBar, ToldBar \ {c}}
    <3>1. CASE PeerClose(c)
      BY <3>1 DEF PeerClose, ToldBar
    <3>2. CASE Superseded(c)
      <4>1. ToldBar' = ToldBar \ {c}
        BY <3>2 DEF Superseded, ToldBar
      <4> QED
        BY <4>1
    <3> QED
      BY <1>2, <3>1, <3>2
  <2>3. /\ Life(c) = "live" /\ Life(c)' = "leaving"
        /\ RivalOf(c) = None /\ RivalOf(c)' = None
    BY <1>2 DEF PeerClose, Superseded, LeaveLoop, Life, RivalOf
  <2>4. UNCHANGED RivalBar /\ LifeBar' = [LifeBar EXCEPT ![c] = "leaving"]
    BY <2>3, ConnBar DEF LifeBar, RivalBar
  <2> QED
    BY <2>1, <2>2, <2>3, <2>4 DEF Ownership!Leave, OwnerBar, OwnerOf, RivalBar, RivalOf,
       LifeBar, ToldBar, DecreeBar
<1> QED
  BY <1>1, <1>2

\* A lookup that finds an owner is a challenge.
LEMMA LookupRefines ==
  ASSUME TypeOK, NEW c \in Conns, ConnStep(c), HelloLookup(c),
         NEW k \in Keys, arg[c] = k
  PROVE  UNCHANGED Ownership!abstract \/ Ownership!Challenge(c, k)
<1> USE DEF TypeOK, TaskTypes, SharedTypes, GoTo, DiscPCs, EvictPCs, tableVars
<1>1. /\ reg[k] \in Sessions \cup {None} /\ UNCHANGED <<reg, notified>>
      /\ Life(c) = "live" /\ RivalOf(c) = None
  BY DEF HelloLookup, HelloPCs, Life, RivalOf
<1>2. CASE reg[k] = None \/ ConnOf(reg[k]) = c
  <2>1. Life(c)' = "live" /\ RivalOf(c)' = None
    BY <1>2 DEF HelloLookup, IsResend, Life, RivalOf
  <2> QED
    BY <1>1, <2>1, ConnQuiet
<1>3. CASE reg[k] # None /\ ConnOf(reg[k]) # c
  <2>1. Life(c)' = "live" /\ RivalOf(c)' = OwnerOf(k) /\ OwnerOf(k) \notin {None, c}
    <3>1. ConnOf(reg[k]) \in Conns /\ ConnOf(reg[k]) # None
      BY <1>1, <1>3, NoneAssumption DEF ConnOf, Sessions
    <3> QED
      BY <1>3, <3>1 DEF HelloLookup, IsResend, Life, RivalOf, OwnerOf
  <2>2. UNCHANGED LifeBar /\ RivalBar' = [RivalBar EXCEPT ![c] = OwnerBar[k]]
    BY <1>1, <2>1, ConnBar DEF LifeBar, RivalBar, OwnerBar
  <2>3. UNCHANGED <<OwnerBar, ToldBar, DecreeBar>>
    BY <1>1, ConnBar DEF OwnerBar, OwnerOf, ToldBar
  <2> QED
    BY <1>1, <2>1, <2>2, <2>3 DEF Ownership!Challenge, OwnerBar, OwnerOf, RivalBar, RivalOf,
       LifeBar, ToldBar, DecreeBar
<1> QED
  BY <1>2, <1>3

\* The shutdown notice is the abstract one.
LEMMA NotifyRefines ==
  ASSUME TypeOK, NEW c \in Conns, ConnStep(c), EvictNotify(c)
  PROVE  Ownership!Tell(c)
<1> USE DEF TypeOK, TaskTypes, SharedTypes, GoTo, DiscPCs, EvictPCs, tableVars
<1>1. ConnOf(old[c]) \in Conns /\ ConnOf(old[c]) # None
  BY NoneAssumption DEF EvictNotify, ConnOf, Sessions
<1>2. /\ RivalOf(c) = ConnOf(old[c]) /\ RivalOf(c)' = None
      /\ Life(c)' = Life(c)
  BY DEF EvictNotify, Life, RivalOf
<1>3. UNCHANGED <<OwnerBar, DecreeBar>>
  BY ConnBar DEF EvictNotify, OwnerBar, OwnerOf
<1>4. UNCHANGED LifeBar /\ RivalBar' = [RivalBar EXCEPT ![c] = None]
  BY <1>2, ConnBar DEF LifeBar, RivalBar
<1>5. ToldBar' = ToldBar \cup {ConnOf(old[c])}
  BY <1>1 DEF EvictNotify, ToldBar
<1> QED
  BY <1>1, <1>2, <1>3, <1>4, <1>5 DEF Ownership!Tell, OwnerBar, OwnerOf, RivalBar, RivalOf,
     LifeBar, ToldBar, DecreeBar

\* The registration is the claim.
LEMMA AddRefines ==
  ASSUME TypeOK, NEW c \in Conns, ConnStep(c), HelloAdd(c),
         NEW k \in Keys, arg[c] = k
  PROVE  Ownership!Claim(c, k)
<1> USE DEF TypeOK, TaskTypes, SharedTypes, GoTo, DiscPCs, EvictPCs, tableVars
<1>1. Mine(c) # None /\ ConnOf(Mine(c)) = c
  BY MineTypes, NoneAssumption DEF HelloAdd, HelloPCs, Sessions, Mine, ConnOf
<1>2. /\ RivalOf(c) = None /\ RivalOf(c)' = None
      /\ Life(c) = "live" /\ Life(c)' = "live"
  BY DEF HelloAdd, Life, RivalOf
<1>3. UNCHANGED <<DecreeBar, ToldBar>>
  BY ConnBar DEF HelloAdd, ToldBar
<1>4. UNCHANGED <<LifeBar, RivalBar>>
  BY <1>2, ConnBar DEF LifeBar, RivalBar
<1>5. OwnerBar' = [OwnerBar EXCEPT ![k] = c]
  BY <1>1 DEF HelloAdd, OwnerBar, OwnerOf
<1> QED
  BY <1>1, <1>2, <1>3, <1>4, <1>5 DEF Ownership!Claim, OwnerBar, OwnerOf, RivalBar, RivalOf,
     LifeBar, ToldBar, DecreeBar

(* A removal that compares: of the one evicted, or of one's own. *)
LEMMA RemoveRefines ==
  ASSUME TypeOK, NEW c \in Conns, ConnStep(c), EvictRemove(c) \/ DiscRemove(c),
         NEW k \in Keys, arg[c] = k
  PROVE  UNCHANGED Ownership!abstract \/ Ownership!Release(k)
<1> USE DEF TypeOK, TaskTypes, SharedTypes, GoTo, DiscPCs, EvictPCs, tableVars
<1> DEFINE who == IF pc[c] = "disc_remove" THEN c ELSE ConnOf(old[c])
<1>1. /\ who \in Conns /\ who # None
      /\ reg' = RemoveIf(k, who) /\ UNCHANGED notified
      /\ Life(c)' = Life(c) /\ RivalOf(c)' = RivalOf(c)
      /\ (Life(c) = "leaving" /\ who = c) \/ RivalOf(c) = who
  <2>1. CASE EvictRemove(c)
    BY <2>1, NoneAssumption DEF EvictRemove, HelloPCs, Sessions, ConnOf, Life, RivalOf
  <2>2. CASE DiscRemove(c)
    BY <2>2, NoneAssumption DEF DiscRemove, DropLocals, Life, RivalOf
  <2> QED
    BY <2>1, <2>2
<1> HIDE DEF who
<1>2. CASE UNCHANGED reg
  BY <1>1, <1>2, ConnQuiet
<1>3. CASE ~UNCHANGED reg
  <2>1. reg[k] # None /\ OwnerOf(k) = who /\ reg' = [reg EXCEPT ![k] = None]
    BY <1>1, <1>3 DEF RemoveIf, OwnerOf
  <2>2. OwnerBar' = [OwnerBar EXCEPT ![k] = None]
    BY <1>1, <2>1 DEF OwnerBar, OwnerOf
  <2>3. UNCHANGED <<LifeBar, RivalBar>>
    BY <1>1, ConnBar DEF LifeBar, RivalBar
  <2>4. UNCHANGED <<ToldBar, DecreeBar>>
    BY <1>1, ConnBar DEF ToldBar
  <2>5. OwnerBar[k] # None /\ (LifeBar[OwnerBar[k]] = "leaving" \/ RivalBar[c] = OwnerBar[k])
    BY <1>1, <2>1 DEF OwnerBar, LifeBar, RivalBar
  <2> QED
    BY <2>2, <2>3, <2>4, <2>5 DEF Ownership!Release, OwnerBar, OwnerOf, RivalBar, RivalOf,
       LifeBar, ToldBar, DecreeBar
<1> QED
  BY <1>2, <1>3

\* A teardown changes nothing the abstract specification sees until it is over.
LEMMA DisconnectRefines ==
  ASSUME TypeOK, OwnerInv, NEW c \in Conns, ConnStep(c),
         DiscNext(c) \/ DiscMark(c) \/ DiscSend(c)
  PROVE  UNCHANGED Ownership!abstract \/ Ownership!Gone(c)
<1> USE DEF TypeOK, TaskTypes, SharedTypes, GoTo, DiscPCs, EvictPCs, tableVars
<1>1. /\ UNCHANGED <<reg, notified>> /\ Life(c) = "leaving"
      /\ RivalOf(c) = None /\ RivalOf(c)' = None
  BY DEF DiscNext, Teardown, DiscMark, DiscSend, MarkStep, SendStep, Life, RivalOf
<1>2. CASE Life(c)' = "leaving"
  BY <1>1, <1>2, ConnQuiet
<1>3. CASE Life(c)' # "leaving"
  <2>1. todo[c] = {} /\ pc[c] = "disc" /\ pc'[c] = "done"
    BY <1>3 DEF DiscNext, Teardown, DiscMark, DiscSend, MarkStep, SendStep, Life
  <2>2. \A k \in Keys : OwnerOf(k) # c
    BY <2>1, NoneAssumption DEF OwnerInv, Kept, OwnerOf
  <2>3. UNCHANGED RivalBar /\ LifeBar' = [LifeBar EXCEPT ![c] = "gone"]
    BY <1>1, <2>1, ConnBar DEF LifeBar, RivalBar, Life
  <2>4. UNCHANGED <<OwnerBar, ToldBar, DecreeBar>>
    BY <1>1, ConnBar DEF OwnerBar, OwnerOf, ToldBar
  <2> QED
    BY <1>1, <2>2, <2>3, <2>4 DEF Ownership!Gone, OwnerBar, OwnerOf, RivalBar, RivalOf,
       LifeBar, ToldBar, DecreeBar
<1> QED
  BY <1>2, <1>3

(* A step of ownership, by name. *)
LEMMA OwnershipSteps ==
  ASSUME NEW c \in Conns, NEW k \in Keys,
         \/ Ownership!Connect(c) \/ Ownership!Tell(c) \/ Ownership!Leave(c)
         \/ Ownership!Gone(c) \/ Ownership!Challenge(c, k) \/ Ownership!Claim(c, k)
         \/ Ownership!Release(k) \/ Ownership!Revoke(k)
  PROVE  Ownership!Next
  BY DEF Ownership!Next

\* Every step of a connection is an abstract step or none.
LEMMA ConnRefines ==
  ASSUME TypeOK, OwnerInv, NEW c \in Conns, ConnStep(c)
  PROVE  [Ownership!Next]_(Ownership!abstract)
<1>1. CASE Client(c) \/ Shutdown(c)
  <2>1. CASE Accept(c) \/ PeerClose(c) \/ Superseded(c)
    BY <2>1, ClientRefines DEF Ownership!Next
  <2>2. CASE \E k \in LoginChannels \X Ids : RecvHello(c, k)
    <3>1. LoginChannels \X Ids \subseteq Keys
      BY InputAssumption DEF Keys
    <3> QED
      BY <2>2, <3>1, HelloQuiet
  <2> QED
    BY <1>1, <2>1, <2>2 DEF Client, Shutdown
<1>2. CASE Hello(c)
  <2>1. PICK k \in Keys : arg[c] = k
    BY <1>2 DEF TypeOK, TaskTypes, HelloPCs, Hello, HelloRoute, HelloBegin, HelloLookup,
       EvictMark, EvictSend, EvictRemove, EvictNotify, HelloAdd, HelloOwn, SendStep, MarkStep
  <2>2. CASE HelloLookup(c) \/ EvictNotify(c) \/ HelloAdd(c)
    BY <2>1, <2>2, LookupRefines, NotifyRefines, AddRefines, OwnershipSteps
  <2>3. CASE EvictRemove(c)
    BY <2>1, <2>3, RemoveRefines, OwnershipSteps
  <2>4. CASE HelloRoute(c) \/ HelloBegin(c) \/ HelloOwn(c) \/ EvictMark(c) \/ EvictSend(c)
    BY <2>4, HelloQuiet
  <2> QED
    BY <1>2, <2>2, <2>3, <2>4 DEF Hello
<1>3. CASE Disconnect(c)
  <2>1. DiscRemove(c) => arg[c] \in Keys
    BY DEF TypeOK, TaskTypes, DiscPCs, DiscRemove
  <2>2. CASE DiscRemove(c)
    <3>1. PICK k \in Keys : arg[c] = k
      BY <2>1, <2>2
    <3> QED
      BY <2>2, <3>1, RemoveRefines, OwnershipSteps
  <2>3. CASE DiscNext(c) \/ DiscMark(c) \/ DiscSend(c)
    BY <2>3, DisconnectRefines DEF Ownership!Next
  <2> QED
    BY <1>3, <2>2, <2>3 DEF Disconnect
<1> QED
  BY <1>1, <1>2, <1>3 DEF ConnStep, Task

(* What an endpoint's step leaves alone. *)
LEMMA ZoneBar ==
  ASSUME TypeOK, NEW v \in Servers, ZoneStep(v)
  PROVE  UNCHANGED <<LifeBar, RivalBar, ToldBar>>
<1>1. UNCHANGED <<pc, old, notified>>
  BY ZoneFrame DEF connVars
<1> QED
  BY <1>1 DEF LifeBar, Life, RivalBar, RivalOf, ToldBar

\* A zone server's step that leaves the registry and revocations is none.
LEMMA ZoneQuiet ==
  ASSUME TypeOK, NEW v \in Servers, ZoneStep(v), UNCHANGED reg,
         \A k \in Keys : Revoking(v, k)' <=> Revoking(v, k)
  PROVE  UNCHANGED Ownership!abstract
<1>1. \A w \in Servers, k \in Keys : Revoking(w, k)' <=> Revoking(w, k)
  BY ZoneShared, ZenonT(60) DEF Revoking
<1>2. UNCHANGED <<DecreeBar, OwnerBar>>
  BY <1>1 DEF DecreeBar, OwnerBar, OwnerOf
<1> QED
  BY <1>2, ZoneBar DEF Ownership!abstract, OwnerBar, OwnerOf, LifeBar, RivalBar, RivalOf,
     ToldBar, DecreeBar

(* The stale guard lets an accepted end through. *)
LEMMA GuardRefines ==
  ASSUME TypeOK, NEW v \in Servers, ZoneStep(v), StaleGuard(v)
  PROVE  [Ownership!Next]_(Ownership!abstract)
<1> DEFINE id == rmsg[v].id
           ks == {<<"zone", id>>, <<"chat", id>>}
<1>1. ks \subseteq Keys /\ rpc[v] = "current" /\ UNCHANGED reg
  BY DEF StaleGuard, tableVars, TypeOK, ReaderTypes, FromMapMsg, Keys, Channels
<1>2. \A k \in Keys : ~Revoking(v, k)
  BY <1>1 DEF Revoking
<1>3. CASE rpc'[v] = "ready"
  BY <1>1, <1>2, <1>3, ZoneQuiet DEF Revoking
<1>4. CASE rpc'[v] # "ready"
  <2>1. rpc'[v] = "rm_zone" /\ rmsg'[v] = rmsg[v]
    BY <1>4 DEF StaleGuard, ReadDone, ReadTo, TypeOK, ReaderTypes
  <2>2. \A k \in Keys : Revoking(v, k)' <=> k \in ks
    BY <2>1 DEF Revoking, Keys, Channels
  <2>3. \A w \in Servers, k \in Keys : w # v => (Revoking(w, k)' <=> Revoking(w, k))
    BY ZoneShared DEF Revoking
  <2> HIDE DEF ks
  <2>4. DecreeBar' = DecreeBar \cup ks
    BY <1>1, <1>2, <2>2, <2>3 DEF DecreeBar
  <2>5. UNCHANGED OwnerBar
    BY <1>1 DEF OwnerBar, OwnerOf
  <2>6. Ownership!Decree(ks)
    BY <2>4, <2>5, ZoneBar DEF Ownership!Decree, OwnerBar, OwnerOf, LifeBar, RivalBar,
       RivalOf, ToldBar, DecreeBar
  <2> QED
    BY <1>1, <2>6 DEF Ownership!Next
<1> QED
  BY <1>3, <1>4

(* An accepted end empties the entries of its session. *)
LEMMA RevokeRefines ==
  ASSUME TypeOK, NEW v \in Servers, ZoneStep(v), RemoveZone(v) \/ RemoveChat(v)
  PROVE  Ownership!Next
<1>1. PICK k \in Keys :
        /\ reg' = [reg EXCEPT ![k] = None]
        /\ Revoking(v, k)
        /\ \A j \in Keys : j # k => (Revoking(v, j)' <=> Revoking(v, j))
  <2>1. rmsg[v].id \in Ids
    BY DEF RemoveZone, RemoveChat, FromMapMsg, TypeOK, ReaderTypes
  <2>2. CASE RemoveZone(v)
    <3>1. <<"zone", rmsg[v].id>> \in Keys
      BY <2>1 DEF Keys, Channels
    <3>2. \A j \in Keys : j # <<"zone", rmsg[v].id>> => (Revoking(v, j)' <=> Revoking(v, j))
      BY <2>1, <2>2 DEF RemoveZone, ReadTo, Revoking, Keys, Channels, TypeOK, ReaderTypes
    <3> QED
      BY <2>2, <3>1, <3>2 DEF RemoveZone, Revoking
  <2>3. CASE RemoveChat(v)
    <3>1. <<"chat", rmsg[v].id>> \in Keys
      BY <2>1 DEF Keys, Channels
    <3>2. \A j \in Keys : j # <<"chat", rmsg[v].id>> => (Revoking(v, j)' <=> Revoking(v, j))
      BY <2>1, <2>3 DEF RemoveChat, ReadDone, ReadTo, Revoking, Keys, Channels, TypeOK,
         ReaderTypes
    <3> QED
      BY <2>3, <3>1, <3>2 DEF RemoveChat, Revoking
  <2> QED
    BY <2>2, <2>3
<1>2. \A w \in Servers, j \in Keys : w # v => (Revoking(w, j)' <=> Revoking(w, j))
  BY ZoneShared DEF Revoking
<1>3. k \in DecreeBar /\ DecreeBar' \in {DecreeBar, DecreeBar \ {k}}
  BY <1>1, <1>2 DEF DecreeBar
<1>4. OwnerBar' = [OwnerBar EXCEPT ![k] = None]
  BY <1>1 DEF OwnerBar, OwnerOf, TypeOK, SharedTypes
<1>5. Ownership!Revoke(k)
  BY <1>3, <1>4, ZoneBar DEF Ownership!Revoke, OwnerBar, OwnerOf, LifeBar, RivalBar,
     RivalOf, ToldBar, DecreeBar
<1> QED
  BY <1>1, <1>5 DEF Ownership!Next

\* Every step of a zone server's reader is an abstract step or none.
LEMMA ZoneRefines ==
  ASSUME TypeOK, NEW v \in Servers, ZoneStep(v)
  PROVE  [Ownership!Next]_(Ownership!abstract)
<1> USE DEF TypeOK, ReaderTypes, ReadTo, tableVars
<1>1. CASE ~Reader(v)
  BY <1>1, ZoneQuiet DEF ZoneStep, Link, ZoneDrop, ZoneServerAnswers, ZoneServerAsks,
     readVars, Revoking
<1>2. CASE ReadPacket(v)
  <2>1. rpc[v] = "ready" /\ rpc'[v] \notin {"rm_zone", "rm_chat"} /\ UNCHANGED reg
    BY <1>2 DEF ReadPacket, readVars
  <2> QED
    BY <2>1, ZoneQuiet DEF Revoking
<1>3. CASE EndConfirm(v) \/ MoveBegin(v) \/ MoveRoute(v) \/ TakePendingEnd(v)
           \/ ZoneChange(v) \/ ZoneChangeSend(v)
  <2>1. /\ rpc[v] \notin {"rm_zone", "rm_chat"} /\ rpc'[v] \notin {"rm_zone", "rm_chat"}
        /\ UNCHANGED reg
    BY <1>3 DEF EndConfirm, MoveBegin, MoveRoute, TakePendingEnd, ZoneChange,
       ZoneChangeSend, ReadDone
  <2> QED
    BY <2>1, ZoneQuiet DEF Revoking
<1>4. CASE StaleGuard(v)
  BY <1>4, GuardRefines
<1>5. CASE RemoveZone(v) \/ RemoveChat(v)
  BY <1>5, RevokeRefines
<1> QED
  BY <1>1, <1>2, <1>3, <1>4, <1>5 DEF Reader, HandleWorldPacket

\* Nothing changed is nothing seen.
LEMMA StutterRefines == UNCHANGED vars => UNCHANGED Ownership!abstract
  BY DEF vars, connVars, tableVars, readVars, Ownership!abstract, Life, Revoking

(* Whatever tasks interleave, session keys change hands only as             *)
(* SessionOwnership allows: every hello, eviction, teardown and end confirm *)
(* of the world server is a step of the ownership of sessions or leaves it  *)
(* alone.                                                                   *)
THEOREM OwnershipRefined == Spec => ImplementsOwnership
<1>1. Init => Ownership!Init
  BY InitRefines
<1>2. TypeOK /\ OwnerInv /\ [Next]_vars => [Ownership!Next]_(Ownership!abstract)
  BY ConnRefines, ZoneRefines, StutterRefines, NextSteps
<1>3. Init => TypeOK /\ OwnerInv
  BY InitTypes, OwnerInit
<1>4. TypeOK /\ OwnerInv /\ [Next]_vars => TypeOK' /\ OwnerInv'
  BY NextTypes, OwnerStep
<1> QED
  BY <1>1, <1>2, <1>3, <1>4, PTL DEF Spec, ImplementsOwnership, Ownership!Spec

-----------------------------------------------------------------------------
(***************************************************************************)
(* SessionLifecycle: with the map server of the repository.                *)
(***************************************************************************)

(* A queue that grows at its end. *)
LEMMA QueueAppend ==
  ASSUME NEW S, NEW q \in Seq(S), NEW m \in S
  PROVE  /\ Append(q, m) \in Seq(S) /\ Len(Append(q, m)) = Len(q) + 1 /\ Len(q) \in Nat
         /\ \A i \in 1..Len(q) : Append(q, m)[i] = q[i]
         /\ Append(q, m)[Len(q) + 1] = m
  OBVIOUS

(* A queue whose head is taken. *)
LEMMA QueueTail ==
  ASSUME NEW S, NEW q \in Seq(S), q # <<>>
  PROVE  /\ Tail(q) \in Seq(S) /\ Len(q) \in Nat \ {0} /\ Len(Tail(q)) = Len(q) - 1
         /\ Head(q) = q[1] /\ q[1] \in S
         /\ \A i \in 1..Len(Tail(q)) : Tail(q)[i] = q[i + 1] /\ i + 1 \in 1..Len(q)
  OBVIOUS

(* The map server asks for no zone change and refuses every end, so the     *)
(* readers of the world server have nothing to handle.                      *)
NoMoves ==
  \A v \in Servers :
    /\ rpc[v] = "ready"
    /\ \A i \in 1..Len(fromMap[v]) : Ignored(fromMap[v][i])
    /\ \A i \in 1..Len(toMap[v]) : toMap[v][i].dest = None

(* What a Send does to the queue of an endpoint. *)
LEMMA SendEffect ==
  ASSUME TypeOK, NEW h \in Handles, NEW m \in ToMapMsg, Send(h, m), NEW v \in Servers
  PROVE  /\ toMap'[v] = (IF v = h[1] /\ link[v] = h THEN Append(toMap[v], m) ELSE toMap[v])
         /\ begun' = (IF m.type = "begin" THEN begun \cup {<<h, m.id>>} ELSE begun)
         /\ toMap[v] \in Seq(ToMapMsg) /\ h[1] \in Servers
<1>1. h[1] \in Servers
  BY DEF Handles
<1> QED
  BY <1>1 DEF Send, TypeOK, SharedTypes

(* The step of a connection sends at most one packet, of its own key. *)
LEMMA ConnSends ==
  ASSUME TypeOK, NEW c \in Conns, ConnStep(c)
  PROVE  /\ UNCHANGED <<readVars, linkVars, fromMap>>
         /\ \/ UNCHANGED <<toMap, begun>>
            \/ HelloBegin(c) \/ EvictSend(c) \/ DiscSend(c)
<1>1. UNCHANGED <<readVars, linkVars, fromMap>>
  BY DEF ConnStep, Client, Task, Shutdown, zoneSide
<1>2. CASE Client(c) \/ Shutdown(c)
  BY <1>1, <1>2 DEF Client, Shutdown, Accept, RecvHello, PeerClose, Superseded, LeaveLoop
<1>3. CASE Hello(c) /\ ~HelloBegin(c) /\ ~EvictSend(c)
  BY <1>1, <1>3 DEF Hello, HelloRoute, HelloLookup, EvictMark, MarkStep, EvictRemove,
     EvictNotify, HelloAdd, HelloOwn
<1>4. CASE Disconnect(c) /\ ~DiscSend(c)
  BY <1>1, <1>4 DEF Disconnect, DiscNext, DiscMark, MarkStep, DiscRemove
<1> QED
  BY <1>1, <1>2, <1>3, <1>4 DEF ConnStep, Task, Hello, Disconnect

(* What the packet is and where it goes. *)
LEMMA ConnPacket ==
  ASSUME TypeOK, NEW c \in Conns, HelloBegin(c) \/ EvictSend(c) \/ DiscSend(c)
  PROVE  /\ dst[c] \in Handles /\ arg[c] \in Keys /\ arg[c][2] \in Ids
         /\ HelloBegin(c) => pc[c] = "begin" /\ pc'[c] = "lookup" /\ Send(dst[c], BeginMsg(arg[c][2]))
         /\ EvictSend(c) => pc[c] = "evict_send" /\ Send(dst[c], EndMsg(arg[c][2]))
         /\ DiscSend(c) => pc[c] = "disc_send" /\ pc'[c] = "disc_remove" /\ Send(dst[c], EndMsg(arg[c][2]))
         /\ BeginMsg(arg[c][2]) \in ToMapMsg /\ EndMsg(arg[c][2]) \in ToMapMsg
         /\ UNCHANGED <<arg, old, dst, todo, hellos, owned, notified, reg, pending, routing1>>
<1>1. pc[c] \in {"begin", "evict_send", "disc_send"}
  BY DEF HelloBegin, EvictSend, DiscSend, SendStep
<1>2. dst[c] \in Handles /\ arg[c] \in Keys
  BY <1>1 DEF TypeOK, TaskTypes, HelloPCs, DiscPCs
<1>3. arg[c][2] \in Ids
  BY <1>2, KeyParts
<1>4. BeginMsg(arg[c][2]) \in ToMapMsg /\ EndMsg(arg[c][2]) \in ToMapMsg
  BY <1>3, MessageTypes
<1> QED
  BY <1>2, <1>3, <1>4
     DEF HelloBegin, EvictSend, DiscSend, SendStep, GoTo, tableVars, TypeOK, TaskTypes

(* The step of the composition. *)
Carried == UNCHANGED mapLive

LEMMA LifeSteps ==
  ASSUME [LifeNext]_lifeVars
  PROVE  \/ \E c \in Conns : ConnStep(c) /\ Carried
         \/ \E v \in Servers : (Link(v) \/ Reader(v)) /\ Carried
         \/ \E v \in Servers : MapServer(v)
         \/ \E v \in Servers : LinkLoss(v) \/ MapCrash(v)
         \/ UNCHANGED lifeVars
  BY DEF LifeNext, WorldNext, ConnStep, Carried

(* With every reader ready, only ignored packets are read. *)
LEMMA ReaderIgnores ==
  ASSUME TypeOK, NoMoves, NEW v \in Servers, Reader(v)
  PROVE  /\ fromMap[v] # <<>> /\ fromMap' = [fromMap EXCEPT ![v] = Tail(@)]
         /\ UNCHANGED <<connVars, tableVars, linkVars, toMap, begun, changes, readVars>>
<1>1. rpc[v] = "ready"
  BY DEF NoMoves
<1>2. ReadPacket(v)
  BY <1>1 DEF Reader, HandleWorldPacket, EndConfirm, MoveBegin, MoveRoute,
     TakePendingEnd, StaleGuard, RemoveZone, RemoveChat, ZoneChange, ZoneChangeSend
<1>3. fromMap[v] # <<>> /\ fromMap[v] \in Seq(FromMapMsg)
  BY <1>2 DEF ReadPacket, TypeOK, SharedTypes
<1>4. Head(fromMap[v]) = fromMap[v][1] /\ 1 \in 1..Len(fromMap[v])
  BY <1>3, QueueTail
<1>5. Ignored(Head(fromMap[v]))
  BY <1>4 DEF NoMoves
<1> QED
  BY <1>2, <1>3, <1>5 DEF ReadPacket, Reader

(* What the map server takes from its link, and what it answers.  A begin   *)
(* makes the session (or fails to), an end removes it.                      *)
LEMMA MapServerStep ==
  ASSUME TypeOK, NEW v \in Servers, MapServer(v)
  PROVE  /\ UNCHANGED <<connVars, tableVars, linkVars, begun, changes, readVars>>
         /\ toMap[v] \in Seq(ToMapMsg) /\ toMap[v] # <<>> /\ toMap' = [toMap EXCEPT ![v] = Tail(@)]
         /\ link[v] # None /\ Head(toMap[v]) = toMap[v][1] /\ toMap[v][1] \in ToMapMsg
         /\ \/ /\ toMap[v][1].type = "begin" /\ UNCHANGED fromMap
               /\ \E loaded \in CharacterLoads :
                    mapLive' = IF loaded THEN [mapLive EXCEPT ![v] = @ \cup {toMap[v][1].id}]
                               ELSE mapLive
            \/ /\ toMap[v][1].type = "end"
               /\ mapLive' = [mapLive EXCEPT ![v] = @ \ {toMap[v][1].id}]
               /\ fromMap' = [fromMap EXCEPT ![v] = Append(@, EndReply(toMap[v][1].id))]
<1>1. toMap[v] \in Seq(ToMapMsg) /\ toMap[v] # <<>> /\ toMap' = [toMap EXCEPT ![v] = Tail(@)] /\ link[v] # None
  BY DEF MapServer, MapSessionBegin, MapSessionEnd, Receive, TypeOK, SharedTypes
<1>2. Head(toMap[v]) = toMap[v][1] /\ toMap[v][1] \in ToMapMsg
  BY <1>1, QueueTail
<1> QED
  BY <1>1, <1>2 DEF MapServer, MapSessionBegin, MapSessionEnd, Receive, Reply, RemoveSession

(* A map server handles its own queue and keeps its own sessions. *)
LEMMA MapServerFrame ==
  ASSUME TypeOK, NEW v \in Servers, MapServer(v), mapLive \in [Servers -> SUBSET Ids],
         NEW w \in Servers, w # v
  PROVE  toMap'[w] = toMap[w] /\ mapLive'[w] = mapLive[w]
<1>1. toMap \in [Servers -> Seq(ToMapMsg)] /\ toMap' = [toMap EXCEPT ![v] = Tail(@)]
  BY MapServerStep DEF TypeOK, SharedTypes
<1>2. PICK id : id = toMap[v][1].id
  OBVIOUS
<1>3. \/ \E loaded \in CharacterLoads :
           mapLive' = IF loaded THEN [mapLive EXCEPT ![v] = @ \cup {id}] ELSE mapLive
      \/ mapLive' = [mapLive EXCEPT ![v] = @ \ {id}]
  BY <1>2, MapServerStep
<1>4. \/ mapLive' = mapLive
      \/ mapLive' = [mapLive EXCEPT ![v] = @ \cup {id}]
      \/ mapLive' = [mapLive EXCEPT ![v] = @ \ {id}]
  BY <1>3, LoadAssumption
<1>5. mapLive'[w] = mapLive[w]
  BY <1>4
<1> QED
  BY <1>1, <1>5

(* The end reply is what a zone server of WorldSessions may answer.         *)
LEMMA MapServerAnswers ==
  ASSUME TypeOK, NoMoves, NEW v \in Servers, MapServer(v)
  PROVE  ZoneServerAnswers(v)
<1> DEFINE m == toMap[v][1]
<1>1. UNCHANGED <<connVars, tableVars, linkVars, begun, readVars, changes>>
  BY MapServerStep DEF connVars, tableVars, linkVars, readVars
<1>2. CASE MapSessionBegin(v)
  BY <1>1, <1>2 DEF MapSessionBegin, ZoneServerBegin, ZoneServerAnswers
<1>3. CASE MapSessionEnd(v)
  <2>1. toMap[v] \in Seq(ToMapMsg) /\ toMap[v] # <<>> /\ Head(toMap[v]) = m /\ 1 \in 1..Len(toMap[v])
    BY MapServerStep, QueueTail
  <2>2. m.dest = None
    BY <2>1 DEF NoMoves
  <2>3. EndReply(m.id) = [type |-> "end_confirm", id |-> m.id, err |-> 1, dest |-> m.dest]
    BY <2>2 DEF EndReply
  <2>4. Receive(v, "end") /\ Reply(v, EndReply(m.id))
    BY <1>3, <2>1 DEF MapSessionEnd
  <2>5. ZoneServerEnd(v)
    BY <1>1, <2>1, <2>3, <2>4, ReplyAssumption DEF ZoneServerEnd
  <2> QED
    BY <1>1, <2>5 DEF ZoneServerAnswers
<1> QED
  BY <1>2, <1>3 DEF MapServer

(* Every step of the composition is a step of WorldSessions. *)
LEMMA LifeStepIsStep ==
  ASSUME TypeOK, NoMoves, [LifeNext]_lifeVars
  PROVE  [Next]_vars
<1>1. CASE \E v \in Servers : MapServer(v)
  BY <1>1, MapServerAnswers DEF Next
<1>2. CASE ~\E v \in Servers : MapServer(v)
  BY <1>2 DEF LifeNext, Next, LinkLoss, MapCrash, lifeVars
<1> QED
  BY <1>1, <1>2

(* The packets a connection sends name no destination zone. *)
LEMMA NoMovesConn ==
  ASSUME TypeOK, NoMoves, NEW c \in Conns, ConnStep(c)
  PROVE  NoMoves'
<1>1. UNCHANGED <<rpc, fromMap>>
  BY ConnSends DEF readVars
<1>2. SUFFICES ASSUME NEW v \in Servers, NEW i \in 1..Len(toMap'[v]) PROVE toMap'[v][i].dest = None
  BY <1>1 DEF NoMoves
<1>3. CASE UNCHANGED toMap
  BY <1>3 DEF NoMoves
<1>4. CASE HelloBegin(c) \/ EvictSend(c) \/ DiscSend(c)
  <2>1. PICK m \in ToMapMsg : Send(dst[c], m) /\ m.dest = None /\ dst[c] \in Handles
    BY <1>4, ConnPacket DEF BeginMsg, EndMsg
  <2>2. toMap[v] \in Seq(ToMapMsg) /\ toMap'[v] \in {toMap[v], Append(toMap[v], m)}
    BY <2>1, SendEffect
  <2> QED
    BY <2>1, <2>2, QueueAppend DEF NoMoves
<1> QED
  BY <1>3, <1>4, ConnSends

(* The map server answers every end with an error. *)
LEMMA NoMovesMap ==
  ASSUME TypeOK, NoMoves, NEW v \in Servers, MapServer(v)
  PROVE  NoMoves'
<1> SUFFICES ASSUME NEW w \in Servers
             PROVE  /\ rpc'[w] = "ready"
                    /\ \A i \in 1..Len(fromMap'[w]) : Ignored(fromMap'[w][i])
                    /\ \A i \in 1..Len(toMap'[w]) : toMap'[w][i].dest = None
  BY DEF NoMoves
<1>1. /\ fromMap[w] \in Seq(FromMapMsg) /\ toMap[v] \in Seq(ToMapMsg) /\ toMap[v] # <<>>
      /\ toMap' = [toMap EXCEPT ![v] = Tail(@)] /\ toMap \in [Servers -> Seq(ToMapMsg)]
      /\ toMap[v][1] \in ToMapMsg
  BY MapServerStep DEF TypeOK, SharedTypes
<1>2. rpc'[w] = "ready"
  BY MapServerStep DEF NoMoves, readVars
<1>3. \A i \in 1..Len(toMap'[w]) : toMap'[w][i].dest = None
  <2>1. CASE w = v
    <3>1. toMap'[w] = Tail(toMap[v])
      BY <1>1, <2>1
    <3>2. \A i \in 1..Len(Tail(toMap[v])) : Tail(toMap[v])[i].dest = None
      BY <1>1, QueueTail DEF NoMoves
    <3> QED
      BY <3>1, <3>2
  <2>2. CASE w # v
    BY <1>1, <2>2 DEF NoMoves
  <2> QED
    BY <2>1, <2>2
<1>4. PICK r : r = EndReply(toMap[v][1].id)
  OBVIOUS
<1>5. r \in FromMapMsg /\ Ignored(r)
  BY <1>1, <1>4 DEF EndReply, FromMapMsg, ToMapMsg, Ignored
<1>6. UNCHANGED fromMap \/ fromMap' = [fromMap EXCEPT ![v] = Append(@, r)]
  BY <1>4, MapServerStep
<1>7. fromMap'[w] = fromMap[w] \/ fromMap'[w] = Append(fromMap[w], r)
  BY <1>6 DEF TypeOK, SharedTypes
<1>8. \A i \in 1..Len(fromMap[w]) : Ignored(fromMap[w][i])
  BY DEF NoMoves
<1>9. \A i \in 1..Len(fromMap'[w]) : Ignored(fromMap'[w][i])
  <2>1. CASE fromMap'[w] = Append(fromMap[w], r)
    <3>1. PICK q : q = Append(fromMap[w], r)
      OBVIOUS
    <3>2. \A i \in 1..Len(q) : q[i] = r \/ (i \in 1..Len(fromMap[w]) /\ q[i] = fromMap[w][i])
      BY <1>1, <1>5, <3>1, QueueAppend
    <3> QED
      BY <1>5, <1>8, <2>1, <3>1, <3>2
  <2> QED
    BY <1>7, <1>8, <2>1
<1> QED
  BY <1>2, <1>3, <1>9

(* No step of the composition gives a reader something to handle. *)
LEMMA NoMovesStep ==
  ASSUME TypeOK, NoMoves, [LifeNext]_lifeVars
  PROVE  NoMoves'
<1>1. CASE \E v \in Servers : Link(v)
  BY <1>1 DEF Link, ZoneConnect, ZoneRegister, ZoneUnregister, NoMoves, readVars
<1>2. ASSUME NEW v \in Servers, Reader(v)
      PROVE  NoMoves'
  <2>1. UNCHANGED <<toMap, rpc>> /\ fromMap[v] # <<>> /\ fromMap' = [fromMap EXCEPT ![v] = Tail(@)]
    BY <1>2, ReaderIgnores DEF readVars
  <2>2. fromMap[v] \in Seq(FromMapMsg)
    BY DEF TypeOK, SharedTypes
  <2>3. \A i \in 1..Len(Tail(fromMap[v])) : Ignored(Tail(fromMap[v])[i])
    BY <2>1, <2>2, QueueTail DEF NoMoves
  <2> QED
    BY <2>1, <2>3 DEF NoMoves, TypeOK, SharedTypes
<1>3. ASSUME NEW v \in Servers, ZoneDrop(v)
      PROVE  NoMoves'
  <2>1. UNCHANGED rpc /\ toMap' = [toMap EXCEPT ![v] = <<>>] /\ fromMap' = [fromMap EXCEPT ![v] = <<>>]
    BY <1>3 DEF ZoneDrop, readVars
  <2> QED
    BY <2>1 DEF NoMoves, TypeOK, SharedTypes
<1>4. CASE UNCHANGED lifeVars
  BY <1>4 DEF NoMoves, lifeVars, vars, wireVars, readVars
<1> QED
  BY <1>1, <1>2, <1>3, <1>4, LifeSteps, NoMovesConn, NoMovesMap DEF LinkLoss, MapCrash

LEMMA NoMovesInit == WireInit => NoMoves
  BY DEF WireInit, NoMoves

(* The map server of the repository is a zone server as WorldSessions has   *)
(* it: its SessionEnd reply (error code 1, no destination) is one of the    *)
(* confirms world-server/src/server.rs is prepared for, and it asks for no  *)
(* zone change; so what is proved of the world server with any zone server  *)
(* holds with this one.                                                     *)
THEOREM CompositionImplementsWorld == LifeSpec => Spec
<1>1. LifeInit => Init /\ TypeOK /\ NoMoves
  BY InitTypes, NoMovesInit DEF LifeInit, Init
<1>2. TypeOK /\ NoMoves /\ [LifeNext]_lifeVars => [Next]_vars /\ TypeOK' /\ NoMoves'
  BY LifeStepIsStep, NextTypes, NoMovesStep
<1> QED
  BY <1>1, <1>2, PTL DEF LifeSpec, Spec

(* What is known of the world server in the composition. *)
WorldInv == TypeOK /\ OwnerInv /\ EvictInv /\ RouteInv /\ NoMoves

LEMMA WorldInvInit == LifeInit \/ SteadyInit => WorldInv
<1>1. LifeInit \/ SteadyInit => ConnInit /\ TableInit /\ WireInit
  BY DEF LifeInit, SteadyInit, Init
<1>2. LifeInit => TypeOK
  BY InitTypes DEF LifeInit
<1>3. SteadyInit => TypeOK
  <2>1. \A v \in Servers : <<v, 1>> \in Handles
    BY BoundsAssumption DEF Handles
  <2>2. 1 \in 0..MaxEpoch
    BY BoundsAssumption
  <2>3. SteadyInit => SharedTypes
    BY <2>1, <2>2, BoundsAssumption DEF SteadyInit, ConnInit, TableInit, WireInit, SharedTypes
  <2> QED
    BY <2>3 DEF SteadyInit, ConnInit, WireInit, TypeOK, TaskTypes, ReaderTypes, PCs,
       HelloPCs, DiscPCs, EvictPCs, ReadPCs
<1>4. ConnInit /\ TableInit /\ WireInit => OwnerInv /\ EvictInv /\ RouteInv
  BY DEF ConnInit, TableInit, WireInit, OwnerInv, EvictInv, Evicting, EvictPCs, RouteInv,
     KnownInv, BoundInv, SentInv, RegisteredRouteIsBegun, AddingPCs, HelloPCs, Keys, Channels
<1> QED
  BY <1>1, <1>2, <1>3, <1>4, NoMovesInit DEF WorldInv

LEMMA WorldInvStep ==
  ASSUME WorldInv, [LifeNext]_lifeVars
  PROVE  WorldInv' /\ [Next]_vars
<1>1. TypeOK /\ OwnerInv /\ EvictInv /\ RouteInv /\ NoMoves
  BY DEF WorldInv
<1>2. [Next]_vars /\ TypeOK' /\ NoMoves'
  BY <1>1, LifeStepIsStep, NextTypes, NoMovesStep
<1>3. OwnerInv' /\ EvictInv'
  BY <1>1, <1>2, OwnerStep, EvictStep
<1>4. RouteInv'
  BY <1>1, <1>2, KnownStep, BoundStep, SentStep, BegunStep DEF RouteInv
<1> QED
  BY <1>2, <1>3, <1>4 DEF WorldInv

(* A link has one owner in time: what is kept of a link was kept when or    *)
(* after it was opened, so a new link is not among it.                      *)
Opened(h) == h[2] <= epoch[h[1]]

LinkInv ==
  /\ \A v \in Servers : link[v] # None => link[v] = <<v, epoch[v]>>
  /\ \A v \in Servers : zoneRouting[v] # None => Opened(zoneRouting[v])
  /\ \A s \in Sessions : routing1[s] # None => Opened(routing1[s])
  /\ \A c \in Conns : pc[c] \in {"begin", "evict_send", "disc_send"} => Opened(dst[c])
  /\ \A p \in begun : Opened(p[1])

(* Whom a task works for: what a task tells the map server is about a zone  *)
(* session, and a teardown is about a session its connection has noted.     *)
ZoneWork == {"route", "begin", "evict_mark", "evict_send", "disc_mark", "disc_send"}

WorkInv ==
  \A c \in Conns :
    /\ pc[c] \in ZoneWork => arg[c][1] = "zone"
    /\ pc[c] \in DiscPCs => todo[c] \subseteq owned[c]
    /\ pc[c] \in DiscPCs \ {"disc"} => arg[c] \in owned[c]

LEMMA LinkWorkInit == LifeInit \/ SteadyInit => LinkInv /\ WorkInv
<1>1. LifeInit \/ SteadyInit => ConnInit /\ TableInit /\ WireInit
  BY DEF LifeInit, SteadyInit, Init
<1>2. LifeInit \/ SteadyInit => /\ \A v \in Servers : link[v] # None => link[v] = <<v, epoch[v]>>
                                /\ \A v \in Servers : zoneRouting[v] # None => Opened(zoneRouting[v])
  BY DEF LifeInit, SteadyInit, Init, LinkInit, Opened
<1> QED
  BY <1>1, <1>2 DEF ConnInit, TableInit, WireInit, LinkInv, WorkInv, ZoneWork, DiscPCs

\* A teardown's work is its connection's.
LEMMA WorkStep ==
  ASSUME TypeOK, WorkInv, [Next]_vars
  PROVE  WorkInv'
<1> DEFINE Fine(c) == /\ pc[c] \in ZoneWork => arg[c][1] = "zone"
                      /\ pc[c] \in DiscPCs => todo[c] \subseteq owned[c]
                      /\ pc[c] \in DiscPCs \ {"disc"} => arg[c] \in owned[c]
<1>1. ASSUME NEW c \in Conns, ConnStep(c)
      PROVE  Fine(c)'
  <2> USE <1>1 DEF TypeOK, SharedTypes, TaskTypes, GoTo, DropLocals, DiscPCs, HelloPCs, EvictPCs, ZoneWork
  <2>0. Fine(c)
    BY DEF WorkInv
  <2>1. CASE Accept(c) \/ PeerClose(c) \/ Superseded(c)
    BY <2>0, <2>1 DEF Accept, PeerClose, Superseded, LeaveLoop
  <2>2. ASSUME NEW k \in Keys, RecvHello(c, k)
        PROVE  Fine(c)'
    BY <2>2 DEF RecvHello
  <2>3. CASE HelloRoute(c) \/ HelloLookup(c)
    BY <2>0, <2>3 DEF HelloRoute, HelloLookup, AfterRoute
  <2>4. CASE HelloBegin(c) \/ EvictSend(c) \/ DiscSend(c)
    BY <2>0, <2>4 DEF HelloBegin, EvictSend, DiscSend, SendStep
  <2>5. CASE EvictMark(c) \/ DiscMark(c)
    BY <2>0, <2>5 DEF EvictMark, DiscMark, MarkStep
  <2>6. CASE EvictRemove(c) \/ EvictNotify(c) \/ HelloAdd(c) \/ HelloOwn(c)
    BY <2>6 DEF EvictRemove, EvictNotify, HelloAdd, HelloOwn
  <2>7. CASE DiscNext(c)
    BY <2>0, <2>7 DEF DiscNext, Teardown
  <2>8. CASE DiscRemove(c)
    BY <2>0, <2>8 DEF DiscRemove
  <2> QED
    BY <2>1, <2>2, <2>3, <2>4, <2>5, <2>6, <2>7, <2>8, InputAssumption
       DEF ConnStep, Client, Task, Shutdown, Hello, Disconnect, Keys
<1>2. ASSUME NEW c \in Conns, UNCHANGED <<pc[c], arg[c], todo[c], owned[c]>>
      PROVE  Fine(c)'
  BY <1>2 DEF WorkInv
<1>3. ASSUME NEW v \in Servers, ZoneStep(v), NEW c \in Conns
      PROVE  Fine(c)'
  BY <1>2, <1>3, ZoneFrame DEF connVars
<1>4. ASSUME NEW d \in Conns, ConnStep(d), NEW c \in Conns, c # d
      PROVE  Fine(c)'
  BY <1>2, <1>4, ConnFrame
<1>5. ASSUME UNCHANGED vars, NEW c \in Conns
      PROVE  Fine(c)'
  BY <1>2, <1>5 DEF vars, connVars
<1>6. \A c \in Conns : Fine(c)'
  BY <1>1, <1>3, <1>4, <1>5, NextSteps
<1> QED
  BY <1>6 DEF WorkInv

(* A hello chooses the route its row's zone has, if any. *)
LEMMA ChosenRoute ==
  ASSUME TypeOK, NEW c \in Conns, HelloRoute(c)
  PROVE  \E z \in HelloZones :
           /\ routing1' = [routing1 EXCEPT ![Mine(c)] = IF z = None THEN None ELSE zoneRouting[z]]
           /\ dst' = [dst EXCEPT ![c] = IF z = None THEN None ELSE zoneRouting[z]]
           /\ pc' = [pc EXCEPT ![c] = AfterRoute(IF z = None THEN None ELSE zoneRouting[z])]
           /\ z # None => z \in Servers
<1>1. \A z \in HelloZones : z # None => z \in Servers
  BY NoneAssumption
<1> QED
  BY <1>1 DEF HelloRoute, GoTo

(* A task is about to send on a link: the one a hello has just chosen, or   *)
(* the route of the session whose end it has just recorded.                 *)
LEMMA HandleOrigin ==
  ASSUME TypeOK, NEW c \in Conns, ConnStep(c), pc'[c] \in {"begin", "evict_send", "disc_send"}
  PROVE  \/ \E z \in HelloZones \cap Servers : HelloRoute(c) /\ zoneRouting[z] # None /\ dst'[c] = zoneRouting[z]
         \/ /\ pc[c] \in {"evict_mark", "disc_mark"}
            /\ old[c] \in Sessions /\ routing1[old[c]] # None /\ dst'[c] = routing1[old[c]]
<1> USE DEF TypeOK, TaskTypes
<1>1. CASE HelloRoute(c)
  <2>1. PICK z \in HelloZones : /\ dst' = [dst EXCEPT ![c] = IF z = None THEN None ELSE zoneRouting[z]]
                                /\ pc' = [pc EXCEPT ![c] = AfterRoute(IF z = None THEN None ELSE zoneRouting[z])]
                                /\ z # None => z \in Servers
    BY <1>1, ChosenRoute
  <2>2. z # None /\ zoneRouting[z] # None /\ dst'[c] = zoneRouting[z]
    BY <2>1 DEF AfterRoute
  <2> QED
    BY <1>1, <2>1, <2>2
<1>2. CASE EvictMark(c) \/ DiscMark(c)
  BY <1>2 DEF EvictMark, DiscMark, MarkStep, GoTo, EvictPCs
<1>3. CASE HelloBegin(c) \/ HelloLookup(c) \/ EvictSend(c) \/ EvictRemove(c) \/ EvictNotify(c)
           \/ HelloAdd(c) \/ HelloOwn(c)
  BY <1>3 DEF HelloBegin, HelloLookup, EvictSend, EvictRemove, EvictNotify, HelloAdd, HelloOwn,
     SendStep, GoTo
<1>4. CASE DiscNext(c) \/ DiscSend(c) \/ DiscRemove(c) \/ Client(c) \/ Shutdown(c)
  BY <1>4 DEF DiscNext, Teardown, DiscSend, DiscRemove, SendStep, GoTo, Client, Shutdown,
     Accept, RecvHello, PeerClose, Superseded, LeaveLoop
<1> QED
  BY <1>1, <1>2, <1>3, <1>4 DEF ConnStep, Task, Hello, Disconnect

(* What a step of a connection does to what it keeps of links. *)
LEMMA LinkStepConn ==
  ASSUME TypeOK, LinkInv, NEW c \in Conns, ConnStep(c)
  PROVE  LinkInv'
<1> USE DEF TypeOK, SharedTypes, TaskTypes
<1>1. UNCHANGED <<link, epoch, zoneRouting>>
  BY ConnSends DEF linkVars
<1>2. \A h : Opened(h)' <=> Opened(h)
  BY <1>1 DEF Opened
<1>3. \A s \in Sessions : routing1'[s] # None => Opened(routing1'[s])
  <2>1. CASE HelloRoute(c)
    <3>1. PICK z \in HelloZones :
            /\ routing1' = [routing1 EXCEPT ![Mine(c)] = IF z = None THEN None ELSE zoneRouting[z]]
            /\ z # None => z \in Servers
      BY <2>1, ChosenRoute
    <3> QED
      BY <3>1 DEF LinkInv
  <2>2. CASE ~HelloRoute(c)
    BY <2>2, ConnShared DEF LinkInv
  <2> QED
    BY <2>1, <2>2
<1>4. \A p \in begun' : Opened(p[1])
  <2>1. CASE HelloBegin(c) \/ EvictSend(c) \/ DiscSend(c)
    <3>1. PICK m \in ToMapMsg : Send(dst[c], m) /\ Opened(dst[c])
      BY <2>1, ConnPacket DEF LinkInv
    <3>2. begun' \subseteq begun \cup {<<dst[c], m.id>>}
      BY <3>1 DEF Send
    <3> QED
      BY <3>1, <3>2 DEF LinkInv
  <2> QED
    BY <2>1, ConnSends DEF LinkInv
<1>5. ASSUME NEW d \in Conns, pc'[d] \in {"begin", "evict_send", "disc_send"}
      PROVE  Opened(dst'[d])
  <2>1. CASE d # c
    BY <1>5, <2>1, ConnFrame, ConnShared DEF LinkInv
  <2>2. CASE d = c
    BY <1>5, <2>2, HandleOrigin DEF LinkInv
  <2> QED
    BY <2>1, <2>2
<1> QED
  BY <1>1, <1>2, <1>3, <1>4, <1>5 DEF LinkInv

(* An endpoint opens its links one after the other. *)
LEMMA LinkStep ==
  ASSUME WorldInv, LinkInv, [LifeNext]_lifeVars
  PROVE  LinkInv'
<1> USE DEF TypeOK, SharedTypes
<1>0. TypeOK /\ NoMoves
  BY DEF WorldInv
<1>1. ASSUME NEW v \in Servers, ZoneConnect(v), UNCHANGED <<connVars, tableVars, begun>>
      PROVE  LinkInv'
  <2>1. /\ link' = [link EXCEPT ![v] = <<v, epoch[v] + 1>>]
        /\ epoch' = [epoch EXCEPT ![v] = @ + 1] /\ UNCHANGED zoneRouting
    BY <1>1 DEF ZoneConnect
  <2>2. \A h \in Handles : Opened(h) => Opened(h)'
    BY <1>0, <2>1, BoundsAssumption DEF Opened, Handles
  <2>3. \A w \in Servers : link'[w] # None => link'[w] = <<w, epoch'[w]>>
    BY <1>0, <2>1 DEF LinkInv
  <2>4. \A c \in Conns : pc[c] \in {"begin", "evict_send", "disc_send"} => dst[c] \in Handles /\ Opened(dst[c])
    BY <1>0 DEF LinkInv, TaskTypes
  <2>5. \A p \in begun : p[1] \in Handles /\ Opened(p[1])
    BY <1>0 DEF LinkInv
  <2>6. \A w \in Servers : zoneRouting[w] # None => Opened(zoneRouting[w])'
    BY <1>0, <2>1, <2>2 DEF LinkInv
  <2>7. \A s \in Sessions : routing1[s] # None => Opened(routing1[s])'
    BY <1>0, <1>1, <2>2 DEF LinkInv, tableVars
  <2>8. \A c \in Conns : pc[c] \in {"begin", "evict_send", "disc_send"} => Opened(dst[c])'
    BY <1>1, <2>2, <2>4 DEF connVars
  <2>9. \A p \in begun : Opened(p[1])'
    BY <1>1, <2>2, <2>5
  <2> QED
    BY <1>1, <2>1, <2>3, <2>6, <2>7, <2>8, <2>9 DEF LinkInv, connVars, tableVars
<1>2. ASSUME UNCHANGED <<epoch, pc, dst, routing1, begun>>,
             \A w \in Servers : link'[w] \in {link[w], None},
             \A w \in Servers : zoneRouting'[w] \in {zoneRouting[w], None, link[w]}
      PROVE  LinkInv'
  <2>1. \A h : Opened(h)' <=> Opened(h)
    BY <1>2 DEF Opened
  <2>2. \A w \in Servers : link[w] # None => Opened(link[w])
    BY <1>0, BoundsAssumption DEF LinkInv, Opened
  <2>3. \A w \in Servers : link'[w] # None => link'[w] = <<w, epoch'[w]>>
    BY <1>2 DEF LinkInv
  <2>4. \A w \in Servers : zoneRouting'[w] # None => Opened(zoneRouting'[w])
    BY <1>2, <2>2 DEF LinkInv
  <2> QED
    BY <1>2, <2>1, <2>3, <2>4 DEF LinkInv
<1>3. ASSUME NEW v \in Servers, Link(v)
      PROVE  LinkInv'
  <2>1. CASE ZoneConnect(v)
    BY <1>1, <1>3, <2>1 DEF Link
  <2>2. CASE ~ZoneConnect(v)
    BY <1>0, <1>2, <1>3, <2>2 DEF Link, ZoneRegister, ZoneUnregister, connVars, tableVars
  <2> QED
    BY <2>1, <2>2
<1>4. ASSUME NEW v \in Servers, ZoneDrop(v)
      PROVE  LinkInv'
  BY <1>0, <1>2, <1>4 DEF ZoneDrop, connVars, tableVars
<1>5. ASSUME NEW v \in Servers, Reader(v) \/ MapServer(v)
      PROVE  LinkInv'
  <2>1. UNCHANGED <<epoch, pc, dst, routing1, begun, link, zoneRouting>>
    BY <1>0, <1>5, ReaderIgnores, MapServerStep DEF connVars, tableVars, linkVars
  <2> QED
    BY <1>2, <2>1
<1>6. CASE UNCHANGED lifeVars
  BY <1>2, <1>6 DEF lifeVars, vars, connVars, tableVars, linkVars, wireVars
<1> QED
  BY <1>0, <1>3, <1>4, <1>5, <1>6, LifeSteps, LinkStepConn DEF LinkLoss, MapCrash

(* An id that one connection claims at most, and that is not given up.      *)
Settled(id) ==
  /\ ~Contested(id)
  /\ \A c \in Conns : <<"zone", id>> \in Claimed(c) => ~Leaving(c)

\* The packets of an id in a queue.
Begins(q, id) == \E i \in 1..Len(q) : q[i].type = "begin" /\ q[i].id = id
Ends(q, id) == \E i \in 1..Len(q) : q[i].type = "end" /\ q[i].id = id

(* The map server has the session of a settled id on every live link its    *)
(* SessionBegin went to, or is about to make it; nobody ends it.            *)
AttachInv ==
  \A id \in Ids, v \in Servers : Settled(id) =>
    /\ ~Ends(toMap[v], id)
    /\ link[v] # None /\ <<link[v], id>> \in begun => id \in mapLive[v] \/ Begins(toMap[v], id)

(* A disconnect is not called off. *)
LEMMA LeavingStays ==
  ASSUME TypeOK, [Next]_vars, NEW c \in Conns, Leaving(c)
  PROVE  Leaving(c)'
<1> USE DEF Leaving, DiscPCs
<1>1. CASE ConnStep(c)
  <2> USE DEF TypeOK, TaskTypes, GoTo
  <2>1. CASE Client(c) \/ Shutdown(c)
    BY <2>1 DEF Client, Shutdown, Accept, RecvHello, PeerClose, Superseded, LeaveLoop
  <2>2. CASE Hello(c)
    BY <2>2 DEF Hello, HelloRoute, HelloBegin, HelloLookup, EvictMark, EvictSend, EvictRemove,
       EvictNotify, HelloAdd, HelloOwn, MarkStep, SendStep
  <2>3. CASE Disconnect(c)
    BY <2>3 DEF Disconnect, DiscNext, Teardown, DiscMark, DiscSend, DiscRemove, MarkStep, SendStep
  <2> QED
    BY <1>1, <2>1, <2>2, <2>3 DEF ConnStep, Task
<1>2. ASSUME NEW d \in Conns, ConnStep(d), d # c PROVE Leaving(c)'
  BY <1>2, ConnFrame
<1>3. ASSUME NEW v \in Servers, ZoneStep(v) PROVE Leaving(c)'
  BY <1>3, ZoneFrame DEF connVars
<1>4. CASE UNCHANGED vars
  BY <1>4 DEF vars, connVars
<1> QED
  BY <1>1, <1>2, <1>3, <1>4, NextSteps

(* An id that is settled has always been. *)
LEMMA SettledBefore ==
  ASSUME TypeOK, [Next]_vars, NEW id \in Ids, Settled(id)'
  PROVE  Settled(id)
<1>1. \A c \in Conns : Claimed(c) \subseteq Claimed(c)'
  BY ClaimsGrow
<1>2. \A c \in Conns : Leaving(c) => Leaving(c)'
  BY LeavingStays
<1>3. ~Contested(id)
  BY <1>1 DEF Settled, Contested
<1>4. \A c \in Conns : <<"zone", id>> \in Claimed(c) => ~Leaving(c)
  BY <1>1, <1>2 DEF Settled
<1> QED
  BY <1>3, <1>4 DEF Settled

(* Nobody sends the SessionEnd of a settled id: an eviction has a rival     *)
(* that claims the id, and a teardown is of a connection that leaves.       *)
LEMMA EndsAreUnsettled ==
  ASSUME TypeOK, EvictInv, WorkInv, NEW c \in Conns, EvictSend(c) \/ DiscSend(c)
  PROVE  ~Settled(arg[c][2])
<1>1. arg[c] \in Keys /\ pc[c] \in {"evict_send", "disc_send"}
  BY ConnPacket
<1>2. arg[c] = <<"zone", arg[c][2]>>
  BY <1>1 DEF WorkInv, ZoneWork, Keys
<1>3. CASE EvictSend(c)
  <2>1. pc[c] = "evict_send" /\ old[c] \in Sessions
    BY <1>3, ConnPacket DEF TypeOK, TaskTypes, EvictPCs
  <2>2. PICK o \in Conns : o = ConnOf(old[c])
    BY <2>1 DEF Sessions, ConnOf
  <2>3. Victim(c, o)
    BY <2>1, <2>2 DEF EvictInv, Evicting, EvictPCs
  <2>4. arg[c] \in Claimed(c)
    BY <2>1 DEF Claimed, HelloPCs
  <2>5. Contested(arg[c][2])
    BY <1>2, <2>2, <2>3, <2>4 DEF Victim, Contested
  <2> QED
    BY <2>5 DEF Settled
<1>4. CASE DiscSend(c)
  <2>1. pc[c] = "disc_send"
    BY <1>4, ConnPacket
  <2>2. arg[c] \in Claimed(c) /\ Leaving(c)
    BY <2>1 DEF WorkInv, DiscPCs, Claimed, Leaving
  <2> QED
    BY <1>2, <2>2 DEF Settled
<1> QED
  BY <1>3, <1>4

(* What a settled id has on a link, after the steps of connections. *)
LEMMA AttachStepConn ==
  ASSUME TypeOK, EvictInv, WorkInv, LinkInv, AttachInv, NEW c \in Conns, ConnStep(c), Carried,
         NEW id \in Ids, NEW v \in Servers, Settled(id)
  PROVE  /\ ~Ends(toMap'[v], id)
         /\ link'[v] # None /\ <<link'[v], id>> \in begun' =>
              id \in mapLive'[v] \/ Begins(toMap'[v], id)
<1>1. UNCHANGED <<link, mapLive>>
  BY ConnSends DEF linkVars, Carried
<1>2. /\ ~Ends(toMap[v], id)
      /\ link[v] # None /\ <<link[v], id>> \in begun => id \in mapLive[v] \/ Begins(toMap[v], id)
  BY DEF AttachInv
<1>3. CASE UNCHANGED <<toMap, begun>>
  BY <1>1, <1>2, <1>3
<1>4. CASE HelloBegin(c) \/ EvictSend(c) \/ DiscSend(c)
  <2>1. PICK m \in ToMapMsg :
          /\ Send(dst[c], m) /\ dst[c] \in Handles /\ m.id = arg[c][2]
          /\ m.type = IF HelloBegin(c) THEN "begin" ELSE "end"
    BY <1>4, ConnPacket DEF BeginMsg, EndMsg
  <2>2. m.type = "end" => m.id # id
    BY <1>4, <2>1, EndsAreUnsettled
  <2>3. /\ toMap'[v] = (IF v = dst[c][1] /\ link[v] = dst[c] THEN Append(toMap[v], m) ELSE toMap[v])
        /\ begun' = (IF m.type = "begin" THEN begun \cup {<<dst[c], m.id>>} ELSE begun)
        /\ toMap[v] \in Seq(ToMapMsg)
    BY <2>1, SendEffect
  <2>4. PICK q : q = Append(toMap[v], m)
    OBVIOUS
  <2>5. /\ Len(q) = Len(toMap[v]) + 1 /\ Len(toMap[v]) \in Nat /\ q[Len(q)] = m
        /\ \A i \in 1..Len(toMap[v]) : q[i] = toMap[v][i]
    BY <2>3, <2>4, QueueAppend
  <2>6. ~Ends(q, id)
    BY <1>2, <2>2, <2>5 DEF Ends
  <2>7. Begins(toMap[v], id) => Begins(q, id)
    BY <2>5 DEF Begins
  <2>8. m.type = "begin" /\ m.id = id => Begins(q, id)
    BY <2>5 DEF Begins
  <2>9. ~Ends(toMap'[v], id)
    BY <1>2, <2>3, <2>4, <2>6
  <2>10. link[v] # None /\ link[v] = dst[c] => v = dst[c][1]
    BY DEF LinkInv
  <2>11. ASSUME link[v] # None, <<link[v], id>> \in begun'
         PROVE  id \in mapLive[v] \/ Begins(toMap'[v], id)
    <3>1. CASE <<link[v], id>> \in begun
      BY <1>2, <2>3, <2>4, <2>7, <2>11, <3>1
    <3>2. CASE <<link[v], id>> \notin begun
      <4>1. m.type = "begin" /\ m.id = id /\ link[v] = dst[c]
        BY <2>3, <2>11, <3>2
      <4> QED
        BY <2>3, <2>4, <2>8, <2>10, <2>11, <4>1
    <3> QED
      BY <3>1, <3>2
  <2> QED
    BY <1>1, <2>9, <2>11
<1> QED
  BY <1>3, <1>4, ConnSends

(* The map server takes the session it is sent, and keeps that of an id     *)
(* whose end nobody asks for.                                               *)
LEMMA AttachStepMap ==
  ASSUME TypeOK, mapLive \in [Servers -> SUBSET Ids], CharacterLoads = {TRUE}, AttachInv,
         NEW w \in Servers, MapServer(w),
         NEW id \in Ids, NEW v \in Servers, Settled(id)
  PROVE  /\ ~Ends(toMap'[v], id)
         /\ link'[v] # None /\ <<link'[v], id>> \in begun' =>
              id \in mapLive'[v] \/ Begins(toMap'[v], id)
<1>1. /\ UNCHANGED <<link, begun>> /\ toMap[w] \in Seq(ToMapMsg) /\ toMap[w] # <<>>
      /\ toMap' = [toMap EXCEPT ![w] = Tail(@)] /\ toMap \in [Servers -> Seq(ToMapMsg)]
  BY MapServerStep DEF linkVars, TypeOK, SharedTypes
<1>2. /\ ~Ends(toMap[v], id)
      /\ link[v] # None /\ <<link[v], id>> \in begun => id \in mapLive[v] \/ Begins(toMap[v], id)
  BY DEF AttachInv
<1>3. CASE v # w
  <2>1. toMap'[v] = toMap[v] /\ mapLive'[v] = mapLive[v]
    BY <1>3, MapServerFrame
  <2> QED
    BY <1>1, <1>2, <2>1
<1>4. CASE v = w
  <2>1. PICK q : q = Tail(toMap[v])
    OBVIOUS
  <2>2. toMap'[v] = q
    BY <1>1, <1>4, <2>1
  <2>3. /\ Len(toMap[v]) \in Nat \ {0} /\ Len(q) = Len(toMap[v]) - 1
        /\ \A i \in 1..Len(q) : q[i] = toMap[v][i + 1] /\ i + 1 \in 1..Len(toMap[v])
    BY <1>1, <1>4, <2>1, QueueTail
  <2>4. ~Ends(q, id)
    BY <1>2, <2>3 DEF Ends
  <2>5. Begins(toMap[v], id) => Begins(q, id) \/ (toMap[v][1].type = "begin" /\ toMap[v][1].id = id)
    <3>1. SUFFICES ASSUME NEW i \in 1..Len(toMap[v]), toMap[v][i].type = "begin", toMap[v][i].id = id, i # 1
                   PROVE  Begins(q, id)
      BY DEF Begins
    <3>2. i - 1 \in 1..Len(q) /\ q[i - 1] = toMap[v][i]
      BY <2>3, <3>1
    <3> QED
      BY <3>1, <3>2 DEF Begins
  <2>6. CASE toMap[v][1].type = "begin"
    <3>1. mapLive'[v] = mapLive[v] \cup {toMap[v][1].id}
      BY <1>4, <2>6, MapServerStep
    <3> QED
      BY <1>1, <1>2, <2>2, <2>4, <2>5, <3>1
  <2>7. CASE toMap[v][1].type = "end"
    <3>1. mapLive'[v] = mapLive[v] \ {toMap[v][1].id}
      BY <1>4, <2>7, MapServerStep
    <3>2. toMap[v][1].id # id
      <4>1. 1 \in 1..Len(toMap[v])
        BY <2>3
      <4> QED
        BY <1>2, <2>7, <4>1 DEF Ends
    <3> QED
      BY <1>1, <1>2, <2>2, <2>4, <2>5, <2>7, <3>1, <3>2
  <2> QED
    BY <1>4, <2>6, <2>7, MapServerStep DEF ToMapMsg
<1> QED
  BY <1>3, <1>4

(* The map server's table holds sessions it was sent. *)
LEMMA LiveStep ==
  ASSUME WorldInv, mapLive \in [Servers -> SUBSET Ids], [LifeNext]_lifeVars
  PROVE  mapLive' \in [Servers -> SUBSET Ids]
<1>1. ASSUME NEW v \in Servers, MapServer(v)
      PROVE  mapLive' \in [Servers -> SUBSET Ids]
  <2>1. TypeOK
    BY DEF WorldInv
  <2>2. toMap[v][1].id \in Ids
    BY <1>1, <2>1, MapServerStep DEF ToMapMsg
  <2> QED
    BY <1>1, <2>1, <2>2, MapServerStep
<1>2. ASSUME NEW v \in Servers, LinkLoss(v) \/ MapCrash(v)
      PROVE  mapLive' \in [Servers -> SUBSET Ids]
  BY <1>2 DEF LinkLoss, MapCrash
<1> QED
  BY <1>1, <1>2, LifeSteps DEF Carried, lifeVars

(* Every step of the composition keeps what settled ids have. *)
LEMMA AttachStep ==
  ASSUME WorldInv, LinkInv, WorkInv, mapLive \in [Servers -> SUBSET Ids],
         CharacterLoads = {TRUE}, AttachInv, [LifeNext]_lifeVars
  PROVE  AttachInv'
<1>0. TypeOK /\ EvictInv /\ NoMoves /\ [Next]_vars
  BY WorldInvStep DEF WorldInv
<1> SUFFICES ASSUME NEW id \in Ids, NEW v \in Servers, Settled(id)'
             PROVE  /\ ~Ends(toMap'[v], id)
                    /\ link'[v] # None /\ <<link'[v], id>> \in begun' =>
                         id \in mapLive'[v] \/ Begins(toMap'[v], id)
  BY DEF AttachInv
<1>1. Settled(id)
  BY <1>0, SettledBefore
<1>2. /\ ~Ends(toMap[v], id)
      /\ link[v] # None /\ <<link[v], id>> \in begun => id \in mapLive[v] \/ Begins(toMap[v], id)
  BY <1>1 DEF AttachInv
<1>3. CASE UNCHANGED <<toMap, mapLive, begun>> /\ link'[v] \in {link[v], None}
  BY <1>2, <1>3
<1>4. ASSUME NEW w \in Servers, Link(w), Carried
      PROVE  /\ ~Ends(toMap'[v], id)
             /\ link'[v] # None /\ <<link'[v], id>> \in begun' =>
                  id \in mapLive'[v] \/ Begins(toMap'[v], id)
  <2>1. UNCHANGED <<toMap, mapLive, begun>>
    BY <1>4 DEF Link, ZoneConnect, ZoneRegister, ZoneUnregister, Carried
  <2>2. CASE ZoneConnect(w) /\ v = w
    <3>1. link'[v] = <<v, epoch[v] + 1>> /\ epoch[v] \in Nat
      BY <1>0, <2>2 DEF ZoneConnect, TypeOK, SharedTypes
    <3>2. ~Opened(link'[v])
      BY <3>1 DEF Opened
    <3>3. <<link'[v], id>> \notin begun
      <4>1. PICK h : h = link'[v]
        OBVIOUS
      <4> QED
        BY <3>2, <4>1 DEF LinkInv, Opened
    <3> QED
      BY <1>2, <2>1, <3>3
  <2>3. CASE ~(ZoneConnect(w) /\ v = w)
    BY <1>0, <1>3, <1>4, <2>1, <2>3
       DEF Link, ZoneConnect, ZoneRegister, ZoneUnregister, TypeOK, SharedTypes
  <2> QED
    BY <2>2, <2>3
<1>5. ASSUME NEW w \in Servers, Reader(w), Carried
      PROVE  UNCHANGED <<toMap, mapLive, begun, link>>
  BY <1>0, <1>5, ReaderIgnores DEF Carried, linkVars
<1>6. ASSUME NEW w \in Servers, LinkLoss(w) \/ MapCrash(w)
      PROVE  /\ ~Ends(toMap'[v], id)
             /\ link'[v] # None /\ <<link'[v], id>> \in begun' =>
                  id \in mapLive'[v] \/ Begins(toMap'[v], id)
  <2>1. /\ link' = [link EXCEPT ![w] = None] /\ toMap' = [toMap EXCEPT ![w] = <<>>] /\ UNCHANGED begun
        /\ mapLive' = mapLive \/ mapLive' = [mapLive EXCEPT ![w] = {}]
    BY <1>6 DEF LinkLoss, MapCrash, ZoneDrop
  <2>2. CASE v = w
    <3>1. link'[v] = None /\ toMap'[v] = <<>>
      BY <1>0, <2>1, <2>2 DEF TypeOK, SharedTypes
    <3> QED
      BY <3>1 DEF Ends
  <2>3. CASE v # w
    BY <1>0, <1>2, <2>1, <2>3 DEF TypeOK, SharedTypes
  <2> QED
    BY <2>2, <2>3
<1>7. CASE UNCHANGED lifeVars
  BY <1>3, <1>7 DEF lifeVars, vars, wireVars, linkVars
<1> QED
  BY <1>0, <1>1, <1>3, <1>4, <1>5, <1>6, <1>7, LifeSteps, AttachStepConn, AttachStepMap

(* With nothing under way, a registered session's id is settled when one    *)
(* connection claims it at most, and its route has been sent the begin.     *)
LEMMA AttachedAtRest ==
  ASSUME WorldInv, AttachInv
  PROVE  UncontestedSessionIsAttached
<1> SUFFICES ASSUME Quiet, NEW id \in Ids, ~Contested(id), NEW v \in Servers,
                    NEW s, s = reg[<<"zone", id>>], s # None, routing1[s] # None, routing1[s] = link[v]
             PROVE  id \in mapLive[v]
  BY DEF UncontestedSessionIsAttached, Attached
<1>1. TypeOK /\ OwnerInv /\ RegisteredRouteIsBegun
  BY DEF WorldInv, RouteInv
<1>2. <<"zone", id>> \in Keys /\ s \in Sessions
  BY <1>1 DEF Keys, Channels, TypeOK, SharedTypes
<1>3. PICK o \in Conns : o = ConnOf(s)
  BY <1>2 DEF Sessions, ConnOf
<1>4. Kept(o, <<"zone", id>>)
  BY <1>1, <1>2, <1>3 DEF OwnerInv
<1>5. pc[o] = "read" /\ <<"zone", id>> \in owned[o]
  BY <1>4 DEF Kept, Quiet
<1>6. \A c \in Conns : <<"zone", id>> \in Claimed(c) => c = o
  BY <1>5 DEF Contested, Claimed
<1>7. Settled(id)
  BY <1>5, <1>6 DEF Settled, Leaving, DiscPCs
<1>8. <<routing1[s], id>> \in begun
  BY <1>1 DEF RegisteredRouteIsBegun
<1>9. ~Begins(toMap[v], id)
  BY DEF Quiet, Begins
<1> QED
  BY <1>7, <1>8, <1>9 DEF AttachInv

(* When character loads succeed, a player only one connection ever claimed  *)
(* keeps the session that handle_session_begin made on the map server, for  *)
(* as long as the world server has the player registered and routed over    *)
(* the live link: whatever logins, evictions and teardowns of other players *)
(* send over that link, and however often links and map servers fail.       *)
THEOREM UncontestedSessionIsAttachedHolds ==
  ASSUME CharacterLoads = {TRUE}
  PROVE  (LifeSpec \/ SteadySpec) => []UncontestedSessionIsAttached
<1> DEFINE IInv == WorldInv /\ LinkInv /\ WorkInv /\ AttachInv /\ mapLive \in [Servers -> SUBSET Ids]
<1>1. LifeInit \/ SteadyInit => IInv
  <2>1. LifeInit \/ SteadyInit => WireInit /\ mapLive = [v \in Servers |-> {}]
    BY DEF LifeInit, SteadyInit, Init
  <2>2. LifeInit \/ SteadyInit => AttachInv
    BY <2>1 DEF WireInit, AttachInv, Ends
  <2>3. LifeInit \/ SteadyInit => mapLive \in [Servers -> SUBSET Ids]
    BY <2>1
  <2> QED
    BY <2>2, <2>3, WorldInvInit, LinkWorkInit
<1>2. IInv /\ [LifeNext]_lifeVars => IInv'
  <2> SUFFICES ASSUME IInv, [LifeNext]_lifeVars PROVE IInv'
    OBVIOUS
  <2>1. WorldInv' /\ [Next]_vars /\ TypeOK
    BY WorldInvStep DEF WorldInv
  <2> QED
    BY <2>1, LinkStep, WorkStep, AttachStep, LiveStep
<1>3. IInv => UncontestedSessionIsAttached
  BY AttachedAtRest
<1> HIDE DEF IInv
<1> QED
  BY <1>1, <1>2, <1>3, PTL DEF LifeSpec, SteadySpec

-----------------------------------------------------------------------------
(***************************************************************************)
(* One map server, from a routed start: no session is left behind.         *)
(***************************************************************************)

(* A session that stays when the map server has handled its queue: it is    *)
(* there and no end follows, or a begin follows and no end after it.        *)
Left(q, live, id) ==
  \/ id \in live /\ ~Ends(q, id)
  \/ \E i \in 1..Len(q) :
       /\ q[i].type = "begin" /\ q[i].id = id
       /\ \A j \in 1..Len(q) : j > i => ~(q[j].type = "end" /\ q[j].id = id)

\* A packet more leaves no session but its own, and an end not that one.
LEMMA LeftAppend ==
  ASSUME NEW q \in Seq(ToMapMsg), NEW m \in ToMapMsg, NEW live, NEW id,
         Left(Append(q, m), live, id)
  PROVE  \/ m.type = "begin" /\ m.id = id
         \/ Left(q, live, id) /\ ~(m.type = "end" /\ m.id = id)
<1> SUFFICES ASSUME ~(m.type = "begin" /\ m.id = id)
             PROVE  Left(q, live, id) /\ ~(m.type = "end" /\ m.id = id)
  OBVIOUS
<1>1. PICK p : p = Append(q, m)
  OBVIOUS
<1>2. /\ Len(p) = Len(q) + 1 /\ Len(q) \in Nat /\ p[Len(p)] = m /\ Len(p) \in 1..Len(p)
      /\ \A i \in 1..Len(q) : p[i] = q[i] /\ i \in 1..Len(p) /\ i < Len(p)
  BY <1>1, QueueAppend
<1>3. CASE id \in live /\ ~Ends(p, id)
  BY <1>2, <1>3 DEF Left, Ends
<1>4. ASSUME NEW i \in 1..Len(p), p[i].type = "begin" /\ p[i].id = id,
             \A j \in 1..Len(p) : j > i => ~(p[j].type = "end" /\ p[j].id = id)
      PROVE  Left(q, live, id) /\ ~(m.type = "end" /\ m.id = id)
  <2>1. i \in 1..Len(q)
    BY <1>2, <1>4
  <2>2. ~(m.type = "end" /\ m.id = id)
    BY <1>2, <1>4, <2>1
  <2>3. \A j \in 1..Len(q) : j > i => ~(q[j].type = "end" /\ q[j].id = id)
    BY <1>2, <1>4
  <2> QED
    BY <1>2, <1>4, <2>1, <2>2, <2>3 DEF Left
<1> QED
  BY <1>1, <1>3, <1>4 DEF Left

\* A packet handled leaves no session that the queue had not.
LEMMA LeftTail ==
  ASSUME NEW q \in Seq(ToMapMsg), q # <<>>, NEW live, NEW then, NEW id,
         Left(Tail(q), then, id),
         \/ q[1].type = "begin" /\ then \subseteq live \cup {q[1].id}
         \/ q[1].type = "end" /\ then = live \ {q[1].id}
  PROVE  Left(q, live, id)
<1>1. PICK p : p = Tail(q)
  OBVIOUS
<1>2. /\ Len(q) \in Nat \ {0} /\ Len(p) = Len(q) - 1 /\ 1 \in 1..Len(q)
      /\ \A i \in 1..Len(p) : p[i] = q[i + 1] /\ i + 1 \in 1..Len(q)
      /\ \A j \in 1..Len(q) : j > 1 => j - 1 \in 1..Len(p) /\ q[j] = p[j - 1]
  BY <1>1, QueueTail
<1>3. CASE id \in then /\ ~Ends(p, id)
  <2>1. \A j \in 1..Len(q) : j > 1 => ~(q[j].type = "end" /\ q[j].id = id)
    BY <1>2, <1>3 DEF Ends
  <2>2. CASE q[1].type = "begin" /\ q[1].id = id
    BY <1>2, <2>1, <2>2 DEF Left
  <2>3. CASE ~(q[1].type = "begin" /\ q[1].id = id)
    <3>1. id \in live /\ ~(q[1].type = "end" /\ q[1].id = id)
      BY <1>3, <2>3
    <3>2. ~Ends(q, id)
      <4> SUFFICES ASSUME NEW j \in 1..Len(q), q[j].type = "end" /\ q[j].id = id PROVE FALSE
        BY DEF Ends
      <4>1. j = 1 \/ j > 1
        BY <1>2
      <4> QED
        BY <2>1, <3>1, <4>1
    <3> QED
      BY <3>1, <3>2 DEF Left
  <2> QED
    BY <2>2, <2>3
<1>4. ASSUME NEW i \in 1..Len(p), p[i].type = "begin" /\ p[i].id = id,
             \A j \in 1..Len(p) : j > i => ~(p[j].type = "end" /\ p[j].id = id)
      PROVE  Left(q, live, id)
  <2>1. i + 1 \in 1..Len(q) /\ q[i + 1].type = "begin" /\ q[i + 1].id = id
    BY <1>2, <1>4
  <2>2. ASSUME NEW j \in 1..Len(q), j > i + 1
        PROVE  ~(q[j].type = "end" /\ q[j].id = id)
    <3>1. j - 1 \in 1..Len(p) /\ j - 1 > i /\ q[j] = p[j - 1]
      BY <1>2, <2>2
    <3> QED
      BY <1>4, <3>1
  <2> QED
    BY <2>1, <2>2 DEF Left
<1> QED
  BY <1>1, <1>3, <1>4 DEF Left

(* A hello that has sent its begin (or needs none) and not yet added its    *)
(* session.                                                                 *)
PastBegin == {"lookup", "evict_mark", "evict_send", "evict_remove", "evict_notify", "add"}

Coming(id) == \E c \in Conns : arg[c] = <<"zone", id>> /\ pc[c] \in PastBegin

MayLive(z, id) == Left(toMap[z], mapLive[z], id)

(* With one map server everything goes there, over its first link for as    *)
(* long as that is up.                                                      *)
OneServer(z) ==
  /\ epoch[z] >= 1
  /\ zoneRouting[z] # None => zoneRouting[z][1] = z
  /\ NeverLost(z) => zoneRouting[z] = <<z, 1>>
  /\ \A s \in Sessions : routing1[s] # None => routing1[s][1] = z
  /\ \A c \in Conns : pc[c] \in {"begin", "evict_send", "disc_send"} => dst[c][1] = z
  /\ \A w \in Servers \ {z} : toMap[w] = <<>> /\ mapLive[w] = {}

(* As long as the first link is up, every zone session has its route.       *)
Routed(z, c) ==
  /\ pc[c] \in {"evict_mark", "disc_mark"} => Known(old[c]) /\ (NeverLost(z) => routing1[old[c]] = <<z, 1>>)
  /\ NeverLost(z) /\ pc[c] \in AddingPCs \ {"route"} /\ arg[c][1] = "zone" => routing1[Mine(c)] = <<z, 1>>
  /\ NeverLost(z) /\ pc[c] \in {"begin", "evict_send", "disc_send"} => dst[c] = <<z, 1>>

RoutedInv(z) ==
  /\ \A c \in Conns : Routed(z, c)
  /\ NeverLost(z) => \A id \in Ids : reg[<<"zone", id>>] # None => routing1[reg[<<"zone", id>>]] = <<z, 1>>

(* A session that stays on the map server is registered or will be; and one *)
(* whose registration a teardown is about to remove does not stay.          *)
Removing(c, id) ==
  /\ pc[c] = "disc_remove" /\ arg[c] = <<"zone", id>>
  /\ reg[arg[c]] # None /\ ConnOf(reg[arg[c]]) = c

GhostInv(z) ==
  NeverLost(z) => \A id \in Ids : MayLive(z, id) =>
    \/ Coming(id)
    \/ reg[<<"zone", id>>] # None /\ \A c \in Conns : ~Removing(c, id)

LEMMA GhostInit ==
  ASSUME NEW z \in Servers
  PROVE  SteadyInit => OneServer(z) /\ RoutedInv(z) /\ GhostInv(z)
<1> SUFFICES ASSUME SteadyInit PROVE OneServer(z) /\ RoutedInv(z) /\ GhostInv(z)
  OBVIOUS
<1>1. OneServer(z)
  BY DEF SteadyInit, ConnInit, TableInit, WireInit, OneServer, NeverLost
<1>2. RoutedInv(z)
  BY DEF SteadyInit, ConnInit, TableInit, RoutedInv, Routed, AddingPCs, HelloPCs, Keys, Channels
<1>3. \A id \in Ids : ~MayLive(z, id)
  BY DEF SteadyInit, WireInit, MayLive, Left
<1> QED
  BY <1>1, <1>2, <1>3 DEF GhostInv

(* The step of a connection sends only to the one server. *)
LEMMA OneServerConn ==
  ASSUME TypeOK, NEW z \in Servers, HelloZones = {z}, OneServer(z),
         NEW c \in Conns, ConnStep(c), Carried
  PROVE  OneServer(z)'
<1>1. UNCHANGED <<epoch, zoneRouting, link, mapLive>>
  BY ConnSends DEF linkVars, Carried
<1>2. NeverLost(z)' <=> NeverLost(z)
  BY <1>1 DEF NeverLost
<1>3. \A s \in Sessions : routing1'[s] # None => routing1'[s][1] = z
  <2>1. CASE HelloRoute(c)
    <3>1. routing1' = [routing1 EXCEPT ![Mine(c)] = IF z = None THEN None ELSE zoneRouting[z]]
      BY <2>1, ChosenRoute
    <3> QED
      BY <3>1 DEF OneServer, TypeOK, SharedTypes
  <2>2. CASE ~HelloRoute(c)
    BY <2>2, ConnShared DEF OneServer
  <2> QED
    BY <2>1, <2>2
<1>4. ASSUME NEW d \in Conns, pc'[d] \in {"begin", "evict_send", "disc_send"}
      PROVE  dst'[d][1] = z
  <2>1. CASE d # c
    BY <1>4, <2>1, ConnFrame, ConnShared DEF OneServer
  <2>2. CASE d = c
    BY <1>4, <2>2, HandleOrigin DEF OneServer
  <2> QED
    BY <2>1, <2>2
<1>5. ASSUME NEW w \in Servers \ {z}
      PROVE  toMap'[w] = <<>>
  <2>1. CASE HelloBegin(c) \/ EvictSend(c) \/ DiscSend(c)
    <3>1. PICK m \in ToMapMsg : Send(dst[c], m) /\ dst[c] \in Handles /\ dst[c][1] = z
      BY <2>1, ConnPacket DEF OneServer
    <3> QED
      BY <1>5, <3>1, SendEffect DEF OneServer
  <2> QED
    BY <1>5, <2>1, ConnSends DEF OneServer
<1> QED
  BY <1>1, <1>2, <1>3, <1>4, <1>5 DEF OneServer

(* The links of the one server: the first is the one it starts with. *)
LEMMA OneServerLink ==
  ASSUME TypeOK, LinkInv, NEW z \in Servers, OneServer(z), NEW v \in Servers, Link(v), Carried
  PROVE  OneServer(z)' /\ (NeverLost(z)' => NeverLost(z))
<1> USE DEF TypeOK, SharedTypes, NeverLost
<1>1. UNCHANGED <<connVars, tableVars, toMap, mapLive>>
  BY DEF Link, ZoneConnect, ZoneRegister, ZoneUnregister, Carried
<1>2. <<z, 1>> # None
  BY NoneAssumption, BoundsAssumption
<1>3. epoch[z] \in Nat
  OBVIOUS
<1>4. /\ epoch'[z] >= 1
      /\ zoneRouting'[z] # None => zoneRouting'[z][1] = z
      /\ NeverLost(z)' => NeverLost(z) /\ zoneRouting'[z] = <<z, 1>>
  <2>1. CASE v # z
    <3>1. UNCHANGED <<epoch[z], link[z], zoneRouting[z]>>
      BY <2>1 DEF Link, ZoneConnect, ZoneRegister, ZoneUnregister
    <3> QED
      BY <3>1 DEF OneServer
  <2>2. CASE v = z /\ ZoneConnect(v)
    BY <1>3, <2>2 DEF ZoneConnect, OneServer
  <2>3. CASE v = z /\ ZoneRegister(v)
    BY <2>3 DEF ZoneRegister, OneServer, LinkInv
  <2>4. CASE v = z /\ ZoneUnregister(v)
    BY <1>2, <2>4 DEF ZoneUnregister, OneServer
  <2> QED
    BY <2>1, <2>2, <2>3, <2>4 DEF Link
<1> QED
  BY <1>1, <1>4 DEF OneServer, connVars, tableVars

(* The one server is the only one that ever has a packet or a session. *)
LEMMA OneServerZone ==
  ASSUME TypeOK, NoMoves, mapLive \in [Servers -> SUBSET Ids],
         NEW z \in Servers, OneServer(z), NEW v \in Servers,
         (Reader(v) /\ Carried) \/ MapServer(v) \/ LinkLoss(v) \/ MapCrash(v)
  PROVE  OneServer(z)' /\ (NeverLost(z)' => NeverLost(z))
<1> USE DEF TypeOK, SharedTypes, NeverLost
<1>1. <<z, 1>> # None
  BY NoneAssumption, BoundsAssumption
<1>2. CASE Reader(v) /\ Carried
  BY <1>2, ReaderIgnores DEF OneServer, Carried, connVars, tableVars, linkVars
<1>3. CASE MapServer(v)
  <2>1. UNCHANGED <<connVars, tableVars, linkVars>> /\ toMap[v] # <<>> /\ toMap' = [toMap EXCEPT ![v] = Tail(@)]
    BY <1>3, MapServerStep
  <2>2. v = z
    BY <2>1 DEF OneServer
  <2>3. \A w \in Servers \ {z} : mapLive'[w] = mapLive[w]
    BY <1>3, <2>2, MapServerFrame
  <2> QED
    BY <2>1, <2>2, <2>3 DEF OneServer, connVars, tableVars, linkVars
<1>4. CASE LinkLoss(v) \/ MapCrash(v)
  <2>1. /\ UNCHANGED <<connVars, tableVars, zoneRouting, epoch>>
        /\ link' = [link EXCEPT ![v] = None] /\ toMap' = [toMap EXCEPT ![v] = <<>>]
        /\ mapLive' = mapLive \/ mapLive' = [mapLive EXCEPT ![v] = {}]
    BY <1>4 DEF LinkLoss, MapCrash, ZoneDrop
  <2>2. NeverLost(z)' => NeverLost(z)
    BY <1>1, <2>1
  <2>3. \A w \in Servers \ {z} : toMap'[w] = <<>> /\ mapLive'[w] = {}
    BY <2>1 DEF OneServer
  <2> QED
    BY <2>1, <2>2, <2>3 DEF OneServer, connVars, tableVars
<1> QED
  BY <1>2, <1>3, <1>4

(* A step of a connection keeps a known session object known, with its      *)
(* route: only the hello that makes an object sets its route.               *)
LEMMA KnownKeepsRoute ==
  ASSUME TypeOK, NEW c \in Conns, ConnStep(c), NEW s \in Sessions, Known(s)
  PROVE  Known(s)' /\ routing1'[s] = routing1[s]
<1>0. ConnOf(s) \in Conns /\ s[2] \in Nat
  BY BoundsAssumption DEF Sessions, ConnOf
<1>1. Known(s)'
  <2>1. CASE ConnOf(s) = c
    BY <1>0, <2>1, ConnShared DEF Known, TypeOK, SharedTypes
  <2>2. CASE ConnOf(s) # c
    BY <1>0, <2>2, ConnShared, ConnFrame DEF Known
  <2> QED
    BY <2>1, <2>2
<1>2. HelloRoute(c) => pc[c] = "route"
  BY DEF HelloRoute
<1>3. HelloRoute(c) => s # Mine(c)
  BY <1>2, UnknownMine DEF AddingPCs, HelloPCs
<1> QED
  BY <1>1, <1>3, ConnShared

(* The routes a connection works with, after a step of its own. *)
LEMMA RoutedByOwn ==
  ASSUME TypeOK, KnownInv, NEW z \in Servers, HelloZones = {z}, OneServer(z), RoutedInv(z),
         NEW c \in Conns, ConnStep(c)
  PROVE  Routed(z, c)'
<1> USE DEF TypeOK, SharedTypes, TaskTypes
<1>1. NeverLost(z)' <=> NeverLost(z)
  BY ConnSends DEF linkVars, NeverLost
<1>2. Routed(z, c)
  BY DEF RoutedInv
<1>3. ASSUME pc'[c] \in {"evict_mark", "disc_mark"}
      PROVE  Known(old[c])' /\ (NeverLost(z) => routing1'[old'[c]] = <<z, 1>>)
  <2>1. \E id \in Ids : reg[<<"zone", id>>] # None /\ old'[c] = reg[<<"zone", id>>]
    <3>1. CASE HelloLookup(c)
      <4>1. arg[c] \in Keys /\ arg[c][1] = "zone" /\ reg[arg[c]] # None /\ old'[c] = reg[arg[c]]
        BY <1>3, <3>1 DEF HelloLookup, GoTo, HelloPCs
      <4>2. arg[c] = <<"zone", arg[c][2]>> /\ arg[c][2] \in Ids
        BY <4>1 DEF Keys
      <4> QED
        BY <4>1, <4>2
    <3>2. CASE DiscNext(c)
      <4>1. PICK k \in todo[c] : reg[k] # None /\ old'[c] = reg[k] /\ pc'[c] = Teardown(k)
        BY <1>3, <3>2 DEF DiscNext, GoTo
      <4>2. k[1] = "zone" /\ k \in Keys
        BY <1>3, <4>1 DEF Teardown
      <4>3. k = <<"zone", k[2]>> /\ k[2] \in Ids
        BY <4>2 DEF Keys
      <4> QED
        BY <4>1, <4>3
    <3>3. CASE ~HelloLookup(c) /\ ~DiscNext(c)
      <4>1. CASE Hello(c)
        BY <1>3, <3>3, <4>1 DEF Hello, HelloRoute, AfterRoute, HelloBegin, EvictMark, EvictSend,
           EvictRemove, EvictNotify, HelloAdd, HelloOwn, MarkStep, SendStep, GoTo
      <4>2. CASE Disconnect(c)
        BY <1>3, <3>3, <4>2 DEF Disconnect, DiscMark, DiscSend, DiscRemove, MarkStep, SendStep, GoTo
      <4>3. CASE Client(c) \/ Shutdown(c)
        BY <1>3, <4>3 DEF Client, Shutdown, Accept, RecvHello, PeerClose, Superseded, LeaveLoop, GoTo
      <4> QED
        BY <4>1, <4>2, <4>3 DEF ConnStep, Task
    <3> QED
      BY <3>1, <3>2, <3>3
  <2>2. PICK id \in Ids : reg[<<"zone", id>>] # None /\ old'[c] = reg[<<"zone", id>>]
    BY <2>1
  <2>3. PICK s \in Sessions : s = old'[c] /\ Known(s) /\ (NeverLost(z) => routing1[s] = <<z, 1>>)
    BY <2>2 DEF KnownInv, RoutedInv, Keys, Channels
  <2>4. Known(s)' /\ routing1'[s] = routing1[s]
    BY <2>3, KnownKeepsRoute
  <2> QED
    BY <2>3, <2>4 DEF Known
<1>4. ASSUME NeverLost(z), pc'[c] \in AddingPCs \ {"route"}, arg'[c][1] = "zone"
      PROVE  routing1'[Mine(c)'] = <<z, 1>>
  <2>1. CASE HelloRoute(c)
    <3>1. routing1' = [routing1 EXCEPT ![Mine(c)] = zoneRouting[z]] /\ zoneRouting[z] = <<z, 1>>
      <4>1. z # None
        BY NoneAssumption
      <4> QED
        BY <1>4, <2>1, <4>1, ChosenRoute DEF OneServer
    <3>2. Mine(c) \in Sessions /\ Mine(c)' = Mine(c)
      BY <2>1, MineTypes DEF HelloRoute, Mine, HelloPCs
    <3> QED
      BY <3>1, <3>2
  <2>2. ASSUME NEW k \in Keys, RecvHello(c, k)
        PROVE  FALSE
    BY <1>4, <2>2 DEF RecvHello, GoTo, AddingPCs, HelloPCs
  <2>3. CASE ~HelloRoute(c) /\ ~\E k \in Keys : RecvHello(c, k)
    <3>1. pc[c] \in AddingPCs \ {"route"} /\ arg'[c] = arg[c] /\ hellos'[c] = hellos[c]
      <4>1. CASE Hello(c)
        BY <1>4, <2>3, <4>1 DEF Hello, HelloBegin, HelloLookup, EvictMark, EvictSend, EvictRemove,
           EvictNotify, HelloAdd, HelloOwn, MarkStep, SendStep, GoTo, AddingPCs, HelloPCs
      <4>2. CASE Disconnect(c)
        BY <1>4, <4>2 DEF Disconnect, DiscNext, Teardown, DiscMark, DiscSend, DiscRemove,
           MarkStep, SendStep, GoTo, AddingPCs, HelloPCs
      <4>3. CASE Client(c) \/ Shutdown(c)
        BY <1>4, <2>3, <4>3, InputAssumption DEF Client, Shutdown, Accept, PeerClose,
           Superseded, LeaveLoop, GoTo, AddingPCs, HelloPCs, Keys
      <4> QED
        BY <4>1, <4>2, <4>3 DEF ConnStep, Task
    <3>2. Mine(c)' = Mine(c) /\ Mine(c) \in Sessions
      BY <3>1, MineTypes DEF Mine, AddingPCs
    <3>3. routing1'[Mine(c)] = routing1[Mine(c)]
      BY <2>3, <3>2, ConnShared
    <3> QED
      BY <1>2, <1>4, <3>1, <3>2, <3>3 DEF Routed
  <2> QED
    BY <2>1, <2>2, <2>3
<1>5. ASSUME NeverLost(z), pc'[c] \in {"begin", "evict_send", "disc_send"}
      PROVE  dst'[c] = <<z, 1>>
  BY <1>2, <1>5, HandleOrigin DEF OneServer, Routed
<1> QED
  BY <1>1, <1>3, <1>4, <1>5 DEF Routed

(* Every step keeps the routes, as long as the first link is up. *)
LEMMA RoutedStepConn ==
  ASSUME TypeOK, KnownInv, NEW z \in Servers, HelloZones = {z}, OneServer(z), RoutedInv(z),
         NEW c \in Conns, ConnStep(c)
  PROVE  RoutedInv(z)'
<1>1. NeverLost(z)' <=> NeverLost(z)
  BY ConnSends DEF linkVars, NeverLost
<1>2. ASSUME NEW d \in Conns, d # c
      PROVE  Routed(z, d)'
  <2>1. /\ pc'[d] = pc[d] /\ arg'[d] = arg[d] /\ old'[d] = old[d]
        /\ hellos'[d] = hellos[d] /\ dst'[d] = dst[d]
    BY <1>2, ConnFrame, ConnShared
  <2>2. Routed(z, d)
    BY DEF RoutedInv
  <2>3. ASSUME pc[d] \in {"evict_mark", "disc_mark"}
        PROVE  Known(old[d])' /\ routing1'[old[d]] = routing1[old[d]]
    <3>1. PICK s \in Sessions : s = old[d] /\ Known(s)
      BY <2>2, <2>3 DEF Routed, TypeOK, TaskTypes, EvictPCs
    <3>2. Known(s)' /\ routing1'[s] = routing1[s]
      BY <3>1, KnownKeepsRoute
    <3> QED
      BY <2>1, <3>1, <3>2 DEF Known
  <2>4. ASSUME pc[d] \in AddingPCs
        PROVE  routing1'[Mine(d)] = routing1[Mine(d)] /\ Mine(d)' = Mine(d)
    <3>1. Mine(d) \in Sessions /\ Mine(d) # Mine(c)
      BY <1>2, <2>4, MineTypes DEF AddingPCs, Mine
    <3> QED
      BY <2>1, <3>1, ConnShared DEF Mine
  <2> QED
    BY <1>1, <2>1, <2>2, <2>3, <2>4 DEF Routed
<1>3. ASSUME NeverLost(z), NEW id \in Ids, reg'[<<"zone", id>>] # None
      PROVE  routing1'[reg'[<<"zone", id>>]] = <<z, 1>>
  <2>1. PICK k \in Keys : k = <<"zone", id>>
    BY DEF Keys, Channels
  <2>2. CASE reg'[k] = reg[k]
    <3>1. PICK s \in Sessions : s = reg[k] /\ Known(s) /\ routing1[s] = <<z, 1>>
      BY <1>3, <2>1, <2>2 DEF KnownInv, RoutedInv, TypeOK, SharedTypes
    <3> QED
      BY <2>1, <2>2, <3>1, KnownKeepsRoute
  <2>3. CASE HelloAdd(c) /\ arg[c] = k /\ reg'[k] = Mine(c)
    <3>1. pc[c] = "add" /\ UNCHANGED routing1
      BY <2>3 DEF HelloAdd
    <3>2. Routed(z, c) /\ arg[c][1] = "zone"
      BY <2>1, <2>3 DEF RoutedInv
    <3> QED
      BY <1>3, <2>1, <2>3, <3>1, <3>2 DEF Routed, AddingPCs, HelloPCs
  <2> QED
    BY <1>3, <2>1, <2>2, <2>3, EntryChange
<1> QED
  BY <1>1, <1>2, <1>3, RoutedByOwn DEF RoutedInv

(* The other steps leave tasks and tables alone.                            *)
LEMMA RoutedKept ==
  ASSUME NEW z \in Servers, RoutedInv(z), UNCHANGED <<connVars, tableVars>>,
         NeverLost(z)' => NeverLost(z)
  PROVE  RoutedInv(z)'
<1>1. \A s : Known(s)' <=> Known(s)
  BY DEF Known, connVars
<1>2. \A c : Mine(c)' = Mine(c)
  BY DEF Mine, connVars
<1>3. ASSUME NEW c \in Conns
      PROVE  Routed(z, c)'
  <2>1. Known(old[c])' <=> Known(old[c])
    BY DEF Known, connVars
  <2> QED
    BY <1>2, <2>1 DEF RoutedInv, Routed, connVars, tableVars
<1> QED
  BY <1>3 DEF RoutedInv, tableVars

(* What a step of a connection does to the sessions that stay. *)
LEMMA LeftByConn ==
  ASSUME TypeOK, WorkInv, NEW z \in Servers, NeverLost(z), RoutedInv(z),
         NEW c \in Conns, ConnStep(c), Carried, NEW id \in Ids, MayLive(z, id)'
  PROVE  \/ HelloBegin(c) /\ arg[c] = <<"zone", id>>
         \/ MayLive(z, id) /\ ~(DiscSend(c) /\ arg[c] = <<"zone", id>>)
<1>1. CASE UNCHANGED <<toMap, begun>> /\ ~HelloBegin(c) /\ ~EvictSend(c) /\ ~DiscSend(c)
  BY <1>1 DEF MayLive, Carried
<1>2. CASE HelloBegin(c) \/ EvictSend(c) \/ DiscSend(c)
  <2>1. PICK m \in ToMapMsg :
          /\ Send(dst[c], m) /\ dst[c] \in Handles /\ m.id = arg[c][2]
          /\ m.type = IF HelloBegin(c) THEN "begin" ELSE "end"
    BY <1>2, ConnPacket DEF BeginMsg, EndMsg
  <2>2. pc[c] \in {"begin", "evict_send", "disc_send"} /\ arg[c] \in Keys
    BY <1>2, ConnPacket
  <2>3. arg[c] = <<"zone", m.id>>
    BY <2>1, <2>2 DEF WorkInv, ZoneWork, Keys
  <2>4. dst[c] = <<z, 1>>
    BY <2>2 DEF RoutedInv, Routed
  <2>5. toMap'[z] = Append(toMap[z], m) /\ toMap[z] \in Seq(ToMapMsg)
    <3>1. dst[c][1] = z /\ link[z] = dst[c]
      BY <2>4 DEF NeverLost
    <3> QED
      BY <2>1, <3>1, SendEffect
  <2>6. Left(Append(toMap[z], m), mapLive[z], id)
    BY <2>5 DEF MayLive, Carried
  <2>7. (m.type = "begin" /\ m.id = id) \/ (MayLive(z, id) /\ ~(m.type = "end" /\ m.id = id))
    BY <2>5, <2>6, LeftAppend DEF MayLive
  <2>8. DiscSend(c) => ~HelloBegin(c)
    BY DEF DiscSend, HelloBegin, SendStep
  <2> QED
    BY <2>1, <2>3, <2>7, <2>8
<1> QED
  BY <1>1, <1>2, ConnSends

(* A hello that comes goes on until it has added its session.               *)
LEMMA ComingGoesOn ==
  ASSUME TypeOK, NEW c \in Conns, ConnStep(c), NEW id \in Ids, Coming(id)
  PROVE  Coming(id)' \/ (HelloAdd(c) /\ arg[c] = <<"zone", id>>)
<1>1. PICK d \in Conns : arg[d] = <<"zone", id>> /\ pc[d] \in PastBegin
  BY DEF Coming
<1>2. CASE d # c
  <2>1. arg'[d] = <<"zone", id>> /\ pc'[d] \in PastBegin
    BY <1>1, <1>2, ConnFrame
  <2> QED
    BY <2>1 DEF Coming
<1>3. CASE d = c /\ ~HelloAdd(c)
  <2> USE DEF PastBegin, TypeOK, TaskTypes, GoTo
  <2>1. arg'[c] = arg[c] /\ pc'[c] \in PastBegin
    <3>1. CASE Hello(c)
      BY <1>1, <1>3, <3>1 DEF Hello, HelloRoute, HelloBegin, HelloLookup, EvictMark, EvictSend,
         EvictRemove, EvictNotify, HelloOwn, MarkStep, SendStep
    <3>2. CASE Disconnect(c)
      BY <1>1, <1>3, <3>2 DEF Disconnect, DiscNext, DiscMark, DiscSend, DiscRemove, MarkStep, SendStep
    <3>3. CASE Client(c) \/ Shutdown(c)
      BY <1>1, <1>3, <3>3 DEF Client, Shutdown, Accept, RecvHello, PeerClose, Superseded, LeaveLoop
    <3> QED
      BY <3>1, <3>2, <3>3 DEF ConnStep, Task
  <2> QED
    BY <1>1, <1>3, <2>1 DEF Coming
<1> QED
  BY <1>1, <1>2, <1>3

(* A teardown that has told the map server, or has nobody to tell, comes to *)
(* remove the session.                                                      *)
LEMMA RemovingStarts ==
  ASSUME TypeOK, NEW z \in Servers, NeverLost(z), RoutedInv(z),
         NEW c \in Conns, ConnStep(c), NEW id \in Ids,
         pc'[c] = "disc_remove", arg'[c] = <<"zone", id>>
  PROVE  DiscSend(c) /\ arg[c] = <<"zone", id>>
<1> USE DEF TypeOK, TaskTypes, GoTo
<1>1. CASE DiscSend(c)
  BY <1>1 DEF DiscSend, SendStep
<1>2. CASE DiscMark(c)
  <2>1. routing1[old[c]] = <<z, 1>> /\ <<z, 1>> # None
    BY <1>2, NoneAssumption, BoundsAssumption DEF DiscMark, MarkStep, RoutedInv, Routed
  <2> QED
    BY <1>2, <2>1 DEF DiscMark, MarkStep
<1>3. CASE DiscNext(c)
  BY <1>3 DEF DiscNext, Teardown
<1>4. CASE DiscRemove(c)
  BY <1>4 DEF DiscRemove
<1>5. CASE Hello(c)
  BY <1>5 DEF Hello, HelloRoute, AfterRoute, HelloBegin, HelloLookup, EvictMark, EvictSend,
     EvictRemove, EvictNotify, HelloAdd, HelloOwn, MarkStep, SendStep
<1>6. CASE Client(c) \/ Shutdown(c)
  BY <1>6 DEF Client, Shutdown, Accept, RecvHello, PeerClose, Superseded, LeaveLoop
<1> QED
  BY <1>1, <1>2, <1>3, <1>4, <1>5, <1>6 DEF ConnStep, Task, Disconnect

(* Who takes an entry from the registry: an eviction, or the teardown of    *)
(* its owner.                                                               *)
LEMMA EntryTaken ==
  ASSUME TypeOK, NEW c \in Conns, ConnStep(c), NEW id \in Ids,
         reg[<<"zone", id>>] # None, reg'[<<"zone", id>>] = None
  PROVE  Coming(id) \/ Removing(c, id)
<1>1. PICK k \in Keys : k = <<"zone", id>>
  BY DEF Keys, Channels
<1> USE DEF TypeOK, SharedTypes, TaskTypes, RemoveIf
<1>2. CASE EvictRemove(c)
  <2>1. arg[c] = k /\ pc[c] = "evict_remove"
    BY <1>1, <1>2 DEF EvictRemove
  <2> QED
    BY <1>1, <2>1 DEF Coming, PastBegin
<1>3. CASE DiscRemove(c)
  BY <1>1, <1>3 DEF DiscRemove, Removing
<1>4. CASE HelloAdd(c)
  BY <1>1, <1>4, MineTypes, NoneAssumption DEF HelloAdd, HelloPCs, Sessions
<1>5. CASE ~EvictRemove(c) /\ ~DiscRemove(c) /\ ~HelloAdd(c)
  <2>1. reg' = reg
    BY <1>5 DEF ConnStep, Client, Task, Shutdown, Hello, Disconnect, Accept, RecvHello, PeerClose,
       Superseded, LeaveLoop, HelloRoute, HelloBegin, HelloLookup, EvictMark, EvictSend, EvictNotify,
       HelloOwn, DiscNext, DiscMark, DiscSend, MarkStep, SendStep, tableVars
  <2> QED
    BY <2>1
<1> QED
  BY <1>2, <1>3, <1>4, <1>5

LEMMA GhostStepConn ==
  ASSUME TypeOK, WorkInv, NEW z \in Servers, RoutedInv(z), GhostInv(z),
         NEW c \in Conns, ConnStep(c), Carried
  PROVE  GhostInv(z)'
<1>0. NeverLost(z)' <=> NeverLost(z)
  BY ConnSends DEF linkVars, NeverLost
<1> SUFFICES ASSUME NeverLost(z), NEW id \in Ids, MayLive(z, id)', ~Coming(id)'
             PROVE  reg'[<<"zone", id>>] # None /\ \A e \in Conns : ~Removing(e, id)'
  BY <1>0 DEF GhostInv
<1>1. PICK k \in Keys : k = <<"zone", id>>
  BY DEF Keys, Channels
<1>2. ~(HelloBegin(c) /\ arg[c] = k)
  <2>1. HelloBegin(c) => pc'[c] = "lookup" /\ UNCHANGED arg
    BY ConnPacket
  <2> QED
    BY <1>1, <2>1 DEF Coming, PastBegin
<1>3. MayLive(z, id) /\ ~(DiscSend(c) /\ arg[c] = k)
  BY <1>1, <1>2, LeftByConn
<1>4. CASE HelloAdd(c) /\ arg[c] = k
  <2>1. reg'[k] = Mine(c) /\ pc'[c] = "own" /\ Mine(c) # None
    BY <1>4, MineTypes, NoneAssumption DEF HelloAdd, GoTo, HelloPCs, Sessions, TypeOK, SharedTypes, TaskTypes
  <2>2. ASSUME NEW e \in Conns, Removing(e, id)'
        PROVE  FALSE
    <3>1. pc'[e] = "disc_remove" /\ ConnOf(reg'[k]) = e
      BY <1>1, <2>2 DEF Removing, ConnOf
    <3> QED
      BY <2>1, <3>1 DEF ConnOf, Mine
  <2> QED
    BY <1>1, <2>1, <2>2
<1>5. CASE ~(HelloAdd(c) /\ arg[c] = k)
  <2>1. ~Coming(id) /\ reg[k] # None /\ \A e \in Conns : ~Removing(e, id)
    BY <1>1, <1>3, <1>5, ComingGoesOn DEF GhostInv
  <2>2. reg'[k] = reg[k]
    <3>1. reg'[k] # None
      BY <1>1, <2>1, EntryTaken
    <3> QED
      BY <1>5, <3>1, EntryChange
  <2>3. ASSUME NEW e \in Conns, Removing(e, id)'
        PROVE  FALSE
    <3>1. pc'[e] = "disc_remove" /\ arg'[e] = k /\ ConnOf(reg[k]) = e
      BY <1>1, <2>2, <2>3 DEF Removing, ConnOf
    <3>2. CASE e = c
      BY <1>1, <1>3, <3>1, <3>2, RemovingStarts
    <3>3. CASE e # c
      BY <1>1, <2>1, <3>1, <3>3, ConnFrame DEF Removing
    <3> QED
      BY <3>2, <3>3
  <2> QED
    BY <1>1, <2>1, <2>2, <2>3
<1> QED
  BY <1>4, <1>5

LEMMA GhostKept ==
  ASSUME NEW z \in Servers, GhostInv(z), UNCHANGED <<connVars, tableVars>>,
         NeverLost(z)' => NeverLost(z),
         \A id \in Ids : NeverLost(z)' /\ MayLive(z, id)' => MayLive(z, id)
  PROVE  GhostInv(z)'
<1>1. \A id : Coming(id)' <=> Coming(id)
  BY DEF Coming, connVars
<1>2. \A c, id : Removing(c, id)' <=> Removing(c, id)
  BY DEF Removing, ConnOf, connVars, tableVars
<1> QED
  BY <1>1, <1>2 DEF GhostInv, tableVars

(* The map server handles what was queued, in that order. *)
LEMMA LeftByMap ==
  ASSUME TypeOK, mapLive \in [Servers -> SUBSET Ids], NEW v \in Servers, MapServer(v),
         NEW z \in Servers, NEW id \in Ids, MayLive(z, id)'
  PROVE  MayLive(z, id)
<1>1. /\ toMap[v] \in Seq(ToMapMsg) /\ toMap[v] # <<>> /\ toMap' = [toMap EXCEPT ![v] = Tail(@)]
      /\ toMap \in [Servers -> Seq(ToMapMsg)]
  BY MapServerStep DEF TypeOK, SharedTypes
<1>2. PICK then : then = mapLive'[z]
  OBVIOUS
<1>3. CASE z # v
  <2>1. toMap'[z] = toMap[z] /\ mapLive'[z] = mapLive[z]
    BY <1>3, MapServerFrame
  <2> QED
    BY <2>1 DEF MayLive
<1>4. CASE z = v
  <2>1. toMap'[z] = Tail(toMap[z])
    BY <1>1, <1>4
  <2>2. Left(Tail(toMap[z]), then, id)
    BY <1>2, <2>1 DEF MayLive
  <2>3. \/ toMap[z][1].type = "begin" /\ then \subseteq mapLive[z] \cup {toMap[z][1].id}
        \/ toMap[z][1].type = "end" /\ then = mapLive[z] \ {toMap[z][1].id}
    <3>1. CASE toMap[z][1].type = "begin"
      <4>1. \/ mapLive' = [mapLive EXCEPT ![v] = @ \cup {toMap[v][1].id}]
            \/ mapLive' = mapLive
        BY <1>4, <3>1, MapServerStep, LoadAssumption
      <4> QED
        BY <1>2, <1>4, <3>1, <4>1
    <3>2. CASE toMap[z][1].type = "end"
      <4>1. mapLive' = [mapLive EXCEPT ![v] = @ \ {toMap[v][1].id}]
        BY <1>4, <3>2, MapServerStep
      <4> QED
        BY <1>2, <1>4, <3>2, <4>1
    <3> QED
      BY <1>4, <3>1, <3>2, MapServerStep
  <2>4. Left(toMap[z], mapLive[z], id)
    BY <1>1, <1>4, <2>2, <2>3, LeftTail
  <2> QED
    BY <2>4 DEF MayLive
<1> QED
  BY <1>3, <1>4

(* What one server keeps. *)
GhostFree(z) == OneServer(z) /\ RoutedInv(z) /\ GhostInv(z)

LEMMA GhostStep ==
  ASSUME WorldInv, LinkInv, WorkInv, mapLive \in [Servers -> SUBSET Ids],
         NEW z \in Servers, HelloZones = {z}, GhostFree(z), [LifeNext]_lifeVars
  PROVE  GhostFree(z)'
<1>0. TypeOK /\ KnownInv /\ NoMoves /\ OneServer(z) /\ RoutedInv(z) /\ GhostInv(z)
  BY DEF WorldInv, RouteInv, GhostFree
<1>1. ASSUME NEW c \in Conns, ConnStep(c), Carried
      PROVE  GhostFree(z)'
  BY <1>0, <1>1, OneServerConn, RoutedStepConn, GhostStepConn DEF GhostFree
<1>2. ASSUME NEW v \in Servers, (Link(v) \/ Reader(v)) /\ Carried
      PROVE  GhostFree(z)'
  <2>1. OneServer(z)' /\ (NeverLost(z)' => NeverLost(z))
    BY <1>0, <1>2, OneServerLink, OneServerZone
  <2>2. UNCHANGED <<connVars, tableVars, toMap, mapLive>>
    <3>1. CASE Link(v)
      BY <1>2, <3>1 DEF Link, ZoneConnect, ZoneRegister, ZoneUnregister, Carried
    <3>2. CASE Reader(v)
      BY <1>0, <1>2, <3>2, ReaderIgnores DEF Carried
    <3> QED
      BY <1>2, <3>1, <3>2
  <2>3. \A id \in Ids : MayLive(z, id)' => MayLive(z, id)
    BY <2>2 DEF MayLive
  <2> QED
    BY <1>0, <2>1, <2>2, <2>3, RoutedKept, GhostKept DEF GhostFree
<1>3. ASSUME NEW v \in Servers, MapServer(v)
      PROVE  GhostFree(z)'
  <2>1. OneServer(z)' /\ (NeverLost(z)' => NeverLost(z))
    BY <1>0, <1>3, OneServerZone
  <2>2. UNCHANGED <<connVars, tableVars>>
    BY <1>0, <1>3, MapServerStep
  <2>3. \A id \in Ids : MayLive(z, id)' => MayLive(z, id)
    BY <1>0, <1>3, LeftByMap
  <2> QED
    BY <1>0, <2>1, <2>2, <2>3, RoutedKept, GhostKept DEF GhostFree
<1>4. ASSUME NEW v \in Servers, LinkLoss(v) \/ MapCrash(v)
      PROVE  GhostFree(z)'
  <2>1. OneServer(z)' /\ (NeverLost(z)' => NeverLost(z))
    BY <1>0, <1>4, OneServerZone
  <2>2. /\ UNCHANGED <<connVars, tableVars>>
        /\ link' = [link EXCEPT ![v] = None] /\ toMap' = [toMap EXCEPT ![v] = <<>>]
        /\ mapLive' = mapLive \/ mapLive' = [mapLive EXCEPT ![v] = {}]
    BY <1>4 DEF LinkLoss, MapCrash, ZoneDrop
  <2>3. NeverLost(z)' => z # v
    <3>1. <<z, 1>> # None
      BY NoneAssumption, BoundsAssumption
    <3> QED
      BY <1>0, <2>2, <3>1 DEF NeverLost, TypeOK, SharedTypes
  <2>4. z # v => toMap'[z] = toMap[z] /\ mapLive'[z] = mapLive[z]
    BY <1>0, <2>2 DEF TypeOK, SharedTypes
  <2>5. \A id \in Ids : NeverLost(z)' /\ MayLive(z, id)' => MayLive(z, id)
    BY <2>3, <2>4 DEF MayLive
  <2> QED
    BY <1>0, <2>1, <2>2, <2>5, RoutedKept, GhostKept DEF GhostFree
<1>5. CASE UNCHANGED lifeVars
  <2>1. UNCHANGED <<connVars, tableVars, zoneRouting, link, epoch, toMap, mapLive>>
    BY <1>5 DEF lifeVars, vars, linkVars, wireVars
  <2>2. OneServer(z)' /\ (NeverLost(z)' => NeverLost(z))
    BY <1>0, <2>1 DEF OneServer, NeverLost, connVars, tableVars
  <2>3. \A id \in Ids : MayLive(z, id)' => MayLive(z, id)
    BY <2>1 DEF MayLive
  <2> QED
    BY <1>0, <2>1, <2>2, <2>3, RoutedKept, GhostKept DEF GhostFree
<1> QED
  BY <1>1, <1>2, <1>3, <1>4, <1>5, LifeSteps

\* With nothing under way, whatever stays is registered.
LEMMA GhostFreeAtRest ==
  ASSUME mapLive \in [Servers -> SUBSET Ids], NEW z \in Servers, GhostFree(z)
  PROVE  NoGhostSession
<1> SUFFICES ASSUME Quiet, NEW v \in Servers, NeverLost(v), NEW id \in mapLive[v]
             PROVE  reg[<<"zone", id>>] # None
  BY DEF NoGhostSession
<1>1. v = z /\ id \in Ids
  BY DEF GhostFree, OneServer
<1>2. MayLive(z, id)
  BY <1>1 DEF Quiet, MayLive, Left, Ends
<1>3. ~Coming(id)
  BY DEF Quiet, Coming, PastBegin
<1> QED
  BY <1>1, <1>2, <1>3 DEF GhostFree, GhostInv

(* With one map server, whose zones every character row names, no login,    *)
(* duplicate login, eviction (end_existing_session) or disconnect           *)
(* (handle_disconnect) leaves a player's actor behind on it: each of them   *)
(* sends its SessionEnd after the begin of the session it ends, or the id   *)
(* has a registered owner who will.                                         *)
THEOREM NoGhostSessionHolds ==
  ASSUME NEW z \in Servers, HelloZones = {z}
  PROVE  SteadySpec => []NoGhostSession
<1> DEFINE IInv == WorldInv /\ LinkInv /\ WorkInv /\ mapLive \in [Servers -> SUBSET Ids] /\ GhostFree(z)
<1>1. SteadyInit => IInv
  <2>1. SteadyInit => mapLive \in [Servers -> SUBSET Ids]
    BY DEF SteadyInit
  <2> QED
    BY <2>1, WorldInvInit, LinkWorkInit, GhostInit DEF GhostFree
<1>2. IInv /\ [LifeNext]_lifeVars => IInv'
  <2> SUFFICES ASSUME IInv, [LifeNext]_lifeVars PROVE IInv'
    OBVIOUS
  <2>1. WorldInv' /\ [Next]_vars /\ TypeOK
    BY WorldInvStep DEF WorldInv
  <2> QED
    BY <2>1, LinkStep, WorkStep, LiveStep, GhostStep
<1>3. IInv => NoGhostSession
  BY GhostFreeAtRest
<1> HIDE DEF IInv
<1> QED
  BY <1>1, <1>2, <1>3, PTL DEF SteadySpec
=============================================================================
