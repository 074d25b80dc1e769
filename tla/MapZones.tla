------------------------------ MODULE MapZones ------------------------------
(***************************************************************************)
(* Where one player is, on the map server: the Session record, the actor   *)
(* lists of the zones and private areas, the actor registry, the stored    *)
(* position, and what the client has loaded (world_manager.rs,             *)
(* runtime/quest_apply.rs, processor.rs, runtime/ticker.rs).               *)
(*                                                                         *)
(* Scripts warp the player, kick events at the client and open and close   *)
(* content instances, on the packet task and on the ticker.  Most handlers *)
(* change the Session record by cloning it, editing the clone and storing  *)
(* it whole (session, upsert_session), so an edit is two steps here, and a *)
(* handler is a program of steps that the tasks interleave.  The client    *)
(* loads what it is sent in its own time, acknowledges each load, and      *)
(* meanwhile keeps reporting positions of the place it shows.              *)
(***************************************************************************)
EXTENDS Integers, Sequences, FiniteSets

CONSTANTS
    Zones,
    Loaded,       \* the zones this map server has loaded
    Region,       \* the region of each zone
    Boundary,     \* <<zone 1, zone 2>> of the seamless boundary
    Installed,    \* the private areas that exist: <<zone, name>>
    Destinations, \* <<zone, name>> a script may warp to, installed or not, loaded or not
    Home,         \* where the character is stored at first
    Packet, Ticker,
    Arenas,       \* zones whose content instances the scripts use
    MaxCommands,  \* bound: script commands and logouts
    MaxUplink     \* bound: client messages under way

Public == "public"
None == "none"
Nowhere == <<None, Public>>
NoSession == [zone |-> None]
Tasks == {Packet, Ticker}
Owners == {"director", "npc"} \* whose event is kicked: the instance's director, or another actor

Edits == {"touch", "latch", "park", "unpark", "kicked", "rekick", "warped"}
Names == {Public} \cup {loc[2] : loc \in Destinations \cup Installed \cup {Home}}

ASSUME ZonesAssumption ==
    /\ Boundary \in Zones \X Zones /\ Boundary[1] # Boundary[2]
    /\ Region[Boundary[1]] = Region[Boundary[2]]
    /\ Zones \cap (Edits \cup Owners \cup {None, "strip", "inside"}) = {} \* zones are numbers in the code
    /\ Destinations \cup {Home} \subseteq Zones \X Names /\ Arenas \cup Loaded \subseteq Zones
    /\ Packet # Ticker

VARIABLES
    session,    \* WorldManager.sessions, this player's entry
    online,     \* the client handle is registered
    placed,     \* the zones and areas whose actor list holds the player
    reg,        \* ActorHandle.zone_id, or None
    saved,      \* the stored position
    client,     \* what the client shows and has been told (external)
    uplink,     \* client messages on their way, oldest first
    program,    \* what each task has still to do, the next step first
    commands,   \* history: script commands and logouts so far
    warps,      \* history: moves so far
    left,       \* history: listings that ended sessions left behind
    disturbed,  \* history: what overlapping tasks have disturbed, and other exceptions
    broken      \* history: promises that were broken

server == <<session, online, placed, reg, saved>>
history == <<commands, warps, left, disturbed, broken>>
vars == <<server, client, uplink, program, history>>

\* Session::new
FreshSession == [zone |-> None, area |-> Public, merged |-> None, defer |-> FALSE, deferred |-> Nowhere,
                 reload |-> FALSE, parked |-> FALSE, kick |-> None, contentKick |-> FALSE,
                 content |-> None, acked |-> FALSE]

Loc(s) == <<s.zone, s.area>>
NoClient == [zone |-> None, epoch |-> -1, loads |-> <<>>, latched |-> FALSE, wiped |-> FALSE, reload |-> FALSE]

-----------------------------------------------------------------------------
(* Programs *)

Step(t) == Head(program[t])
At(t, what) == program[t] # <<>> /\ Head(program[t]).do = what
Instead(t, steps) == program' = [program EXCEPT ![t] = steps \o Tail(@)]
Done(t) == Instead(t, <<>>)
Issue(t, steps) == program' = [program EXCEPT ![t] = steps \o @] /\ commands' = commands + 1
Queue(t, steps) == program' = [program EXCEPT ![t] = steps \o @]
Other(t) == CHOOSE u \in Tasks : u # t
Quiet == \A t \in Tasks : program[t] = <<>>

\* A command comes from a packet or a resumed coroutine when the task is free,
\* and from the scripts of a login while its hook runs.
MayIssue(t) == (program[t] # <<>> => Step(t).do = "hook") /\ reg # None /\ commands < MaxCommands

Edit(e) == [do |-> "edit", e |-> e]
Write(old, new) == [do |-> "write", read |-> old, new |-> new]
Do(what) == [do |-> what]
To(what, loc) == [do |-> what, loc |-> loc]

\* Steps by which a task moves the player or tells the client so.
Moving(t) ==
    \E i \in DOMAIN program[t] :
        program[t][i].do \in {"check", "move", "moved", "deliver", "bundle", "flip", "flipped", "land", "kick"}
Raced(t) == IF Moving(Other(t)) THEN disturbed \cup {"race"} ELSE disturbed

\* A wipe runs into a task that has decided to kick an event and not yet sent it.
Wiped(t) == IF \E i \in DOMAIN program[Other(t)] : program[Other(t)][i].do = "kick" THEN disturbed \cup {"race"} ELSE disturbed

\* A move also runs into a task that holds a clone of the record.
Overran(t) == IF At(Other(t), "write") THEN disturbed \cup {"race"} ELSE Raced(t)

-----------------------------------------------------------------------------
(* The Session record *)

Edited(s, e) ==
    CASE e = "touch"   -> s
      [] e = "latch"   -> [s EXCEPT !.reload = TRUE]
      [] e = "park"    -> [s EXCEPT !.parked = TRUE]
      [] e = "unpark"  -> [s EXCEPT !.parked = FALSE]
      [] e = "kicked"  -> [s EXCEPT !.kick = None]
      [] e = "rekick"  -> IF s.kick # None THEN [s EXCEPT !.kick = None, !.contentKick = TRUE] ELSE s
      [] e = "warped"  -> [s EXCEPT !.acked = TRUE]
      [] e \in Owners  -> IF s.reload THEN [s EXCEPT !.contentKick = TRUE] ELSE [s EXCEPT !.kick = e]
      [] e \in Zones   -> [s EXCEPT !.content = e, !.acked = FALSE]

\* session(id): a clone, edited.
ReadSession(t) ==
    /\ At(t, "edit")
    /\ IF session = NoSession THEN Done(t)
       ELSE Instead(t, <<Write(session, Edited(session, Step(t).e))>>)
    /\ UNCHANGED <<server, client, uplink, history>>

\* upsert_session: the whole record, whatever has happened to it since.
UpsertSession(t) ==
    /\ At(t, "write")
    /\ session' = Step(t).new
    /\ disturbed' = IF session = Step(t).read THEN disturbed ELSE disturbed \cup {"torn"}
    /\ Done(t)
    /\ UNCHANGED <<online, placed, reg, saved, client, uplink, warps, left, broken, commands>>

\* The handlers that edit what is not modelled here: parties and director
\* rosters, retainers, sleep and dreams, positions, login directors.
Touch(t) ==
    /\ MayIssue(t) /\ program[t] = <<>>
    /\ Issue(t, <<Edit("touch")>>)
    /\ UNCHANGED <<server, client, uplink, warps, left, disturbed, broken>>

-----------------------------------------------------------------------------
(* Zones *)

Arrived(loc) == IF loc \in Installed THEN loc ELSE <<loc[1], Public>>
SameRegion(z1, z2) == {z1, z2} \subseteq Loaded /\ Region[z1] = Region[z2]

\* The player is sent to a zone that is not on this map server: nobody is moved,
\* and the caller, told that all is well, goes on as if (history only).
Unloaded(z) == IF z \in Loaded THEN {} ELSE {"unloaded"}

\* Fault: the player is always taken out of the zone's own list.
DoZoneChangeCore(loc) ==
    LET s == IF session = NoSession THEN FreshSession ELSE session
        new == Arrived(loc)
    IN IF loc[1] \notin Loaded THEN UNCHANGED <<session, placed>>
       ELSE /\ placed' = ((IF Loc(s) # loc THEN placed \ {<<s.zone, Public>>} ELSE placed) \cup {new})
            /\ session' = [s EXCEPT !.zone = new[1], !.area = new[2]]

\* do_zone_change_with_private_area, under the lock of the session table: out
\* of the list of the old place, into that of the new one, or of its zone when
\* there is no such area.  A projection into a merged zone is left alone, and
\* so is its latch.  A zone that is not on this map server is no error.
DoZoneChange(loc) ==
    LET s == IF session = NoSession THEN FreshSession ELSE session
        new == Arrived(loc)
    IN IF loc[1] \notin Loaded THEN UNCHANGED <<session, placed>>
       ELSE /\ placed' = ((IF Loc(s) # loc THEN placed \ {Loc(s)} ELSE placed) \cup {new})
            /\ session' = [s EXCEPT !.zone = new[1], !.area = new[2]]

Partners(z1, z2) == {z1, z2} = {Boundary[1], Boundary[2]}

\* The geometry is resident: wipe the actors and reload.
Resident(old, loc) ==
    \/ old[1] = loc[1]
    \/ SameRegion(old[1], loc[1]) /\ Partners(old[1], loc[1]) /\ old[2] = Public /\ loc[2] = Public

Warp(t, loc) ==
    /\ MayIssue(t)
    /\ Issue(t, <<To("check", loc)>>)
    /\ UNCHANGED <<server, client, uplink, warps, left, disturbed, broken>>

\* apply_do_zone_change: parked during a login, the last one wins.
CheckDeferral(t) ==
    /\ At(t, "check")
    /\ LET loc == Step(t).loc IN
       IF session # NoSession /\ session.defer
       THEN Instead(t, <<Write(session, [session EXCEPT !.deferred = loc])>>)
       ELSE Instead(t, <<[do |-> "move", loc |-> loc, old |-> IF session = NoSession THEN Nowhere ELSE Loc(session)]>>)
    /\ disturbed' = Raced(t)
    /\ UNCHANGED <<server, client, uplink, warps, left, broken, commands>>

Move(t) ==
    /\ At(t, "move")
    /\ LET loc == Step(t).loc
           wipe == Resident(Step(t).old, loc)
           near == SameRegion(Step(t).old[1], loc[1])
       IN /\ DoZoneChange(loc)
          /\ Instead(t, <<To("moved", loc), Edit(IF wipe THEN "latch" ELSE "touch"),
                          [do |-> "deliver", how |-> IF wipe THEN "wipe" ELSE IF near THEN "later" ELSE "now"]>>)
    /\ warps' = warps + 1
    /\ disturbed' = Overran(t) \cup Unloaded(Step(t).loc[1])
    /\ UNCHANGED <<online, reg, saved, client, uplink, left, broken, commands>>

\* The registry and the stored position follow, whether or not anybody moved.
Moved(t) ==
    /\ At(t, "moved")
    /\ reg' = IF reg = None THEN None ELSE Step(t).loc[1]
    /\ saved' = Step(t).loc
    /\ Done(t)
    /\ UNCHANGED <<session, online, placed, client, uplink, history>>

\* Fault: a warp within the region is told to the client and not parked.
DeliverUnparked(t) ==
    /\ At(t, "deliver")
    /\ IF ~online THEN Done(t) /\ UNCHANGED client
       ELSE LET wipe == Step(t).how = "wipe" IN
            /\ client' = [client EXCEPT !.latched = TRUE, !.wiped = @ \/ wipe, !.reload = wipe]
            /\ Instead(t, <<IF Step(t).how = "later" THEN Edit("touch") ELSE Do("bundle")>>)
    /\ UNCHANGED <<server, uplink, history>>

\* The client is told to let go of its world.  Within a region, unless the
\* geometry is resident, the zone-in waits for the ticker.
Deliver(t) ==
    /\ At(t, "deliver")
    /\ IF ~online THEN Done(t) /\ UNCHANGED client
       ELSE LET wipe == Step(t).how = "wipe" IN
            /\ client' = [client EXCEPT !.latched = TRUE, !.wiped = @ \/ wipe, !.reload = wipe]
            /\ Instead(t, <<IF Step(t).how = "later" THEN Edit("park") ELSE Do("bundle")>>)
    /\ disturbed' = Wiped(t)
    /\ UNCHANGED <<server, uplink, commands, warps, left, broken>>

\* The ticker finds the parked zone-in due, in its own time.
ZoneInDue ==
    /\ program[Ticker] = <<>> /\ session # NoSession /\ session.parked
    /\ Queue(Ticker, <<Edit("unpark"), Do("bundle")>>)
    /\ UNCHANGED <<server, client, uplink, history>>

\* send_zone_in_bundle: the place the session names now, if this server has it,
\* and at its end the event that waited for it.
SendBundle(t) ==
    /\ At(t, "bundle")
    /\ IF session = NoSession \/ ~online \/ reg = None \/ session.zone \notin Loaded THEN Done(t) /\ UNCHANGED client
       ELSE /\ client' = [client EXCEPT !.latched = FALSE,
                             !.loads = Append(@, [zone |-> session.zone, epoch |-> warps])]
            /\ IF session.kick # None THEN Instead(t, <<Edit("kicked")>>) ELSE Done(t)
    /\ UNCHANGED <<server, uplink, history>>

-----------------------------------------------------------------------------
(* Content instances and events *)

CreateContentArea(z) ==
    /\ MayIssue(Packet)
    /\ Issue(Packet, <<Edit(z)>>)
    /\ UNCHANGED <<server, client, uplink, warps, left, disturbed, broken>>

\* apply_do_zone_change_content: always a wipe, never deferred, not stored.
ContentWarp(z) ==
    /\ MayIssue(Packet)
    /\ Issue(Packet, <<To("land", <<z, Public>>), Edit("latch"), Do("content")>>)
    /\ UNCHANGED <<server, client, uplink, warps, left, disturbed, broken>>

Land(t) ==
    /\ At(t, "land")
    /\ DoZoneChange(Step(t).loc)
    /\ reg' = IF reg = None THEN None ELSE Step(t).loc[1]
    /\ warps' = warps + 1
    /\ disturbed' = Overran(t) \cup Unloaded(Step(t).loc[1])
                    \cup (IF \E i \in DOMAIN program[t] : program[t][i].do = "place" THEN {"login"} ELSE {})
    /\ Done(t)
    /\ UNCHANGED <<online, saved, client, uplink, left, broken, commands>>

\* A waiting event of the director goes out before the wipe, any other waits
\* for the acknowledgement.
SendContent(t) ==
    /\ At(t, "content")
    /\ IF ~online THEN Done(t) /\ UNCHANGED client
       ELSE /\ client' = [client EXCEPT !.latched = TRUE, !.wiped = TRUE, !.reload = TRUE]
            /\ LET own == session # NoSession /\ session.kick = "director" /\ session.content # None
               IN Instead(t, <<Edit(IF own THEN "kicked" ELSE "rekick"), Do("bundle"), Edit("warped")>>)
    /\ disturbed' = Wiped(t)
    /\ UNCHANGED <<server, uplink, commands, warps, left, broken>>

\* apply_content_finished: the record is read before the instance's actors
\* are despawned one by one, and stored after.
ContentFinished(t) ==
    /\ MayIssue(t) /\ session # NoSession /\ session.content # None
    /\ Issue(t, <<Write(session, [session EXCEPT !.content = None, !.contentKick = FALSE])>>)
    /\ UNCHANGED <<server, client, uplink, warps, left, disturbed, broken>>

\* apply_kick_event: parked while the client reloads, and for the director of
\* an instance the client has not been sent to.
KickEvent(t, owner) ==
    /\ MayIssue(t) /\ online
    /\ Issue(t, IF session # NoSession /\ (session.reload \/ (owner = "director" /\ session.content # None /\ ~session.acked))
                THEN <<Write(session, [session EXCEPT !.contentKick = TRUE])>>
                ELSE <<Do("kick")>>)
    /\ UNCHANGED <<server, client, uplink, warps, left, disturbed, broken>>

\* The KickEvent of a login script waits for the next zone-in.
LoginKick(owner) ==
    /\ MayIssue(Packet)
    /\ Issue(Packet, <<Edit(owner)>>)
    /\ UNCHANGED <<server, client, uplink, warps, left, disturbed, broken>>

\* A kick that reaches a client whose actors were just wiped is lost there.
SendKick(t) ==
    /\ At(t, "kick")
    /\ broken' = IF client.wiped THEN broken \cup {"kick"} ELSE broken
    /\ disturbed' = Raced(t)
    /\ Done(t)
    /\ UNCHANGED <<server, client, uplink, warps, left, commands>>

-----------------------------------------------------------------------------
(* The client, and its messages *)

\* It has loaded the oldest bundle it was sent.  The epoch of a load or message
\* is history: the number of the last move then, which the server never reads.
ClientLoads ==
    /\ client.loads # <<>> /\ Len(uplink) < MaxUplink
    /\ client' = [client EXCEPT !.zone = Head(client.loads).zone, !.epoch = Head(client.loads).epoch,
                     !.loads = Tail(@), !.wiped = @ /\ (client.latched \/ Len(client.loads) > 1)]
    /\ uplink' = Append(uplink, [m |-> "ack", epoch |-> Head(client.loads).epoch])
    /\ UNCHANGED <<server, program, history>>

\* It reports where it walks in the place it shows: in one of the two boxes of
\* the boundary, on the strip between them, or away from it.
ClientReports(spot) ==
    /\ client.zone # None /\ Len(uplink) < MaxUplink
    /\ spot = "away" \/ client.zone \in {Boundary[1], Boundary[2]}
    /\ uplink' = Append(uplink, [m |-> "report", epoch |-> client.epoch, spot |-> spot])
    /\ UNCHANGED <<server, client, program, history>>

Receives(m) == program[Packet] = <<>> /\ uplink # <<>> /\ Head(uplink).m = m /\ uplink' = Tail(uplink)

Acked(s) ==
    [s EXCEPT !.reload = FALSE, !.defer = FALSE, !.deferred = Nowhere,
              !.contentKick = @ /\ s.deferred # Nowhere]

\* handle_zone_in_complete: the latches are released, then the event that was
\* parked, or the warp that was parked at login, which keeps the event parked.
\* Nothing tells which load an acknowledgement is for.
ZoneInComplete ==
    /\ Receives("ack")
    /\ IF session = NoSession THEN UNCHANGED program
       ELSE Queue(Packet, <<Write(session, Acked(session))>>
               \o (IF session.deferred # Nowhere THEN <<To("check", session.deferred)>>
                   ELSE IF session.contentKick THEN <<Do("kick")>> ELSE <<>>))
    /\ disturbed' = Raced(Packet) \cup (IF client.latched \/ client.loads # <<>> \/ Head(uplink).epoch # warps THEN {"acks"} ELSE {})
    /\ UNCHANGED <<server, client, warps, left, broken, commands>>

\* Fault: only a parked zone-in holds reports off.
HoldsWhenParked(s) == s.parked

\* Reports are held off while a zone-in is parked or a reload is under way.
HoldsReports(s) == s.parked \/ s.reload

\* seamless_check: what the spot means for the zone the session is in.
Crossing(s, spot) ==
    IF s.content = s.zone \/ s.zone \notin Loaded \/ Region[s.zone] # Region[Boundary[1]] THEN None
    ELSE CASE spot = "away" -> None
           [] spot = "strip" -> "strip"
           [] spot = "box1" -> IF s.zone = Boundary[1] THEN "inside" ELSE Boundary[1]
           [] spot = "box2" -> IF s.zone = Boundary[2] THEN "inside" ELSE Boundary[2]

\* A record in which a zone-in is parked is about to be stored.
Parking(t) ==
    \E i \in DOMAIN program[t] :
        program[t][i] = Edit("park") \/ (program[t][i].do = "write" /\ program[t][i].new.parked)

\* handle_update_position, as far as merge_zones.  A report counts as breaking
\* the promise if it is from before the last move and is let through although
\* the client has been told to let go of that world and has no other yet, or
\* reloads it in place.
UpdatePosition ==
    /\ Receives("report")
    /\ LET r == Head(uplink)
           cross == Crossing(session, r.spot)
           other == IF session.zone = Boundary[1] THEN Boundary[2] ELSE Boundary[1]
       IN IF session = NoSession \/ reg = None \/ HoldsReports(session)
          THEN UNCHANGED <<server, client, program, history>>
          ELSE /\ broken' = IF r.epoch # warps /\ (client.reload \/ client.latched) THEN broken \cup {"report"} ELSE broken
               /\ disturbed' = Raced(Packet) \cup (IF Parking(Ticker) THEN {"race"} ELSE {})
                               \cup (IF cross \in Zones /\ session.area # Public THEN {"seam"} ELSE {})
               /\ CASE cross = "strip" /\ other \in Loaded ->
                         /\ placed' = IF session.merged = other THEN placed ELSE placed \cup {<<other, Public>>}
                         /\ session' = [session EXCEPT !.merged = other]
                         /\ UNCHANGED program
                    [] cross = "inside" ->
                         /\ session' = [session EXCEPT !.merged = None]
                         /\ UNCHANGED <<placed, program>>
                    [] cross \in Zones ->
                         /\ Queue(Packet, <<To("flip", <<cross, Public>>), To("flipped", <<cross, Public>>)>>)
                         /\ UNCHANGED <<session, placed>>
                    [] OTHER -> UNCHANGED <<session, placed, program>>
               /\ UNCHANGED <<online, reg, saved, client, warps, left, commands>>

\* do_seamless_zone_change: between the public lists of the two zones.
Flip(t) ==
    /\ At(t, "flip")
    /\ placed' = IF Step(t).loc[1] \notin Loaded THEN placed
                 ELSE (IF session = NoSession THEN placed ELSE placed \ {<<session.zone, Public>>}) \cup {Step(t).loc}
    /\ disturbed' = disturbed \cup Unloaded(Step(t).loc[1])
    /\ Done(t)
    /\ UNCHANGED <<session, online, reg, saved, client, uplink, commands, warps, left, broken>>

\* Then the session's zone, unless nobody was moved; the registry and the
\* stored position, in either case.
Flipped(t) ==
    /\ At(t, "flipped")
    /\ session' = IF session = NoSession \/ Step(t).loc[1] \notin Loaded THEN session
                  ELSE [session EXCEPT !.zone = Step(t).loc[1], !.merged = None]
    /\ reg' = IF reg = None THEN None ELSE Step(t).loc[1]
    /\ saved' = IF session = NoSession THEN saved ELSE <<Step(t).loc[1], session.area>>
    /\ Done(t)
    /\ UNCHANGED <<online, placed, client, uplink, history>>

-----------------------------------------------------------------------------
(* Sessions *)

\* handle_session_begin; for a login also handle_language_code, whose scripts
\* run before (onBeginLogin) and after (onZoneIn) the first zone-in.
SessionBegin(login) ==
    /\ program[Packet] = <<>> /\ ~online
    /\ online' = TRUE /\ reg' = saved[1] /\ client' = NoClient
    /\ session' = [FreshSession EXCEPT !.zone = saved[1], !.area = saved[2], !.defer = TRUE]
    /\ Queue(Packet, IF login THEN <<Edit("touch"), Do("hook"), To("place", saved), Do("bundle"), Do("hook")>>
                              ELSE <<To("place", saved), Do("bundle")>>)
    /\ disturbed' = IF program[Ticker] # <<>> THEN disturbed \cup {"race", "torn"} ELSE disturbed
    /\ UNCHANGED <<placed, saved, uplink, warps, left, broken, commands>>

Place(t) ==
    /\ At(t, "place")
    /\ DoZoneChange(<<Step(t).loc[1], IF session = NoSession THEN Public ELSE session.area>>)
    /\ disturbed' = disturbed \cup Unloaded(Step(t).loc[1])
    /\ Done(t)
    /\ UNCHANGED <<online, reg, saved, client, uplink, commands, warps, left, broken>>

HookEnds(t) ==
    /\ At(t, "hook")
    /\ Done(t)
    /\ UNCHANGED <<server, client, uplink, history>>

\* handle_session_end: the zones' lists keep the player.
SessionEnd ==
    /\ program[Packet] = <<>> /\ online /\ commands < MaxCommands
    /\ commands' = commands + 1
    /\ online' = FALSE /\ session' = NoSession /\ reg' = None
    /\ client' = NoClient /\ uplink' = <<>>
    /\ left' = placed
    /\ disturbed' = IF program[Ticker] # <<>> THEN disturbed \cup {"race", "torn"} ELSE disturbed
    /\ UNCHANGED <<placed, saved, program, warps, broken>>

Init ==
    /\ session = NoSession /\ online = FALSE /\ placed = {} /\ reg = None /\ saved = Home
    /\ client = NoClient /\ uplink = <<>>
    /\ program = [t \in Tasks |-> <<>>]
    /\ commands = 0 /\ warps = 0 /\ left = {} /\ disturbed = {} /\ broken = {}

Command(t) ==
    \/ \E loc \in Destinations : Warp(t, loc)
    \/ Touch(t) \/ ContentFinished(t) \/ (\E owner \in Owners : KickEvent(t, owner))

Rest(t) ==
    \/ ReadSession(t) \/ UpsertSession(t) \/ CheckDeferral(t) \/ Move(t) \/ Moved(t) \/ Deliver(t)
    \/ SendBundle(t) \/ Land(t) \/ SendContent(t) \/ SendKick(t) \/ Flip(t) \/ Flipped(t) \/ Place(t) \/ HookEnds(t)

Next ==
    \/ \E t \in Tasks : Command(t) \/ Rest(t)
    \/ (\E z \in Arenas : CreateContentArea(z) \/ ContentWarp(z)) \/ ZoneInDue
    \/ (\E owner \in Owners : LoginKick(owner))
    \/ ClientLoads \/ (\E spot \in {"away", "strip", "box1", "box2"} : ClientReports(spot))
    \/ ZoneInComplete \/ UpdatePosition
    \/ (\E login \in BOOLEAN : SessionBegin(login)) \/ SessionEnd

Spec == Init /\ [][Next]_vars

-----------------------------------------------------------------------------
(* Properties *)

\* When nothing is under way, the player is listed where the session says, the
\* registry has the same zone, and apart from projections over the boundary
\* the player is listed nowhere else, whatever scripts, content instances,
\* boundary crossings and logins led there.  Exempt: a warp, crossing or login
\* to a zone that is not on this map server, which moves nobody and sets the
\* registry and the stored position all the same; tasks that ran into each
\* other; an acknowledgement taken for that of a later load; a boundary crossed
\* inside a private area, which "public by construction" (world_manager.rs:3506)
\* rules out and nothing checks; and a content instance entered by onBeginLogin,
\* which the login's own placement then undoes.
InOnePlace ==
    Quiet /\ online /\ disturbed = {} =>
        /\ Loc(session) \in placed /\ reg = session.zone
        /\ \A loc \in placed \ (left \cup {Loc(session)}) : loc[2] = Public /\ loc[1] \in {Boundary[1], Boundary[2]}

\* A client that was told to let go of its world gets a new one: the zone-in
\* was sent, or is parked for the ticker.  Two things can leave the client
\* waiting for ever: a lost update of the session record, and a login into a
\* zone that is not on this map server, for which no zone-in is ever sent.
NeverStranded ==
    Quiet /\ online /\ client.latched /\ "torn" \notin disturbed =>
        session # NoSession /\ (session.parked \/ session.zone \notin Loaded)

\* While a client reloads its world in place, and while a zone-in is parked for
\* it, no position it reported before the last move moves the player, and no
\* event is kicked at actors it does not have.  Only that much is held off: a
\* warp to another region sends its zone-in at once and sets no latch, and one
\* within the region has none left when its zone-in has gone out, so what the
\* client reports from the old place until it has loaded does move the player.
\* Exempt: the disturbances InOnePlace names.
HeldOffWhileReloading == disturbed = {} => broken = {}
=============================================================================
