---------------------------- MODULE EventScripts ----------------------------
(***************************************************************************)
(* The event scripts of the map server: the coroutine scheduler            *)
(* (map-server/src/lua/scheduler.rs), the engine calls that resume and park *)
(* coroutines (lua/mod.rs), and the two tasks that drive them:             *)
(*                                                                         *)
(*  - the packet task of the world link, which handles one packet at a     *)
(*    time (EventStart, EventUpdate, session end, hooks run outside an      *)
(*    event);                                                              *)
(*  - the ticker, which runs beside it, resumes the coroutines whose wait  *)
(*    is over and applies what they queued.                                *)
(*                                                                         *)
(* A step is one acquisition of the scheduler's lock.  A Lua slice touches *)
(* the scheduler only when it parks, so a slice and its park are one step. *)
(* What a slice does is left open: any wait of Waits, and any commands of  *)
(* ScriptCommands.  Coroutines with no owning player (director main        *)
(* scripts) are not modelled, nor the park key 0 that only a yield without *)
(* a player produces: global.lua always yields the player.                 *)
(***************************************************************************)
EXTENDS Naturals, FiniteSets, Sequences

CONSTANTS
    Players,         \* player actors
    Npcs,            \* event owners with an NPC script
    Directors,       \* content directors
    CommandActors,   \* command static actors (0xA0F.....)
    Signals,         \* names for waitForSignal / sendSignal
    Waits,           \* what scripts wait on: subset of Signals, "time", "event"
    ScriptCommands,  \* commands of interest: subset of Signals, "finish"
    MaxCoroutines,   \* bound on the coroutines created in a behaviour
    None             \* no owner (EVENT_OWNER_UNKNOWN), no coroutine, no content

ASSUME WaitsAssumption == Waits \subseteq Signals \cup {"time", "event"}
ASSUME CommandsAssumption == ScriptCommands \subseteq Signals \cup {"finish"}
ASSUME BoundAssumption == MaxCoroutines \in Nat
\* The tags of this module (kinds of wait, commands, tasks) name no signal.
ASSUME SignalsAssumption ==
    Signals \cap {"time", "event", "done", "finish", "rpc", "packet", "ticker"} = {}
ASSUME NoneAssumption ==
    None \notin Players \cup Npcs \cup Directors \cup CommandActors \cup (1..MaxCoroutines)

Owners == Npcs \cup Directors \cup CommandActors
Coroutines == 1..MaxCoroutines
Actors == {"packet", "ticker"}

\* A queued RunEventFunction or KickEvent: no effect on the scheduler, but it
\* makes the batch non-empty.
Commands == ScriptCommands \cup {"rpc"}

NotParked == [co |-> None, owner |-> None]

VARIABLES
    \* CoroutineScheduler
    onTime,         \* sleeping_on_time
    due,            \* those of onTime whose deadline has passed
    onSignal,       \* sleeping_on_signal
    onEvent,        \* sleeping_on_player_event: player -> coroutine and stamp
    ownerCtx,       \* event_owner_context
    \* Character and session state the scheduler's users read
    online,         \* players with a session and an actor handle
    currentOwner,   \* event_session.current_event_owner
    content,        \* active_content_script's director
    \* Coroutines
    co,             \* for each created coroutine, its player and the event it
                    \* was created for (home: history, not in the code)
    \* Tasks
    pc,             \* control point
    hand,           \* taken from the scheduler, not yet resumed
    cmds,           \* drained commands not yet applied
    actingFor,      \* packet task: the player of the packet
    evOwner, arm,   \* packet task: the event's owner; which resume arm it is in
    took,           \* packet task: what take_event returned to the running slice
    batches,        \* ticker: (coroutine, commands) drained and not applied
    gone            \* history: coroutines a purge dropped from the scheduler

schedVars == <<onTime, due, onSignal, onEvent>>
worldVars == <<online, currentOwner, content>>
packetVars == <<actingFor, evOwner, arm, took>>
taskVars == <<pc, hand, cmds>>
vars == <<schedVars, ownerCtx, worldVars, co, taskVars, packetVars, batches, gone>>

Init ==
    /\ onTime = {} /\ due = {}
    /\ onSignal = [s \in Signals |-> {}]
    /\ onEvent = [p \in Players |-> NotParked]
    /\ ownerCtx = [p \in Players |-> None]
    /\ online = Players
    /\ currentOwner = [p \in Players |-> None]
    /\ content = [p \in Players |-> None]
    /\ co = <<>>
    /\ pc = [a \in Actors |-> "idle"]
    /\ hand = [a \in Actors |-> {}]
    /\ cmds = [a \in Actors |-> {}]
    /\ actingFor = None /\ evOwner = None /\ arm = None
    /\ took = NotParked
    /\ batches = {}
    /\ gone = {}

Goto(a, label) == pc' = [pc EXCEPT ![a] = label]

-----------------------------------------------------------------------------
(* Mutated forms of definitions below, one for each property's check *)

LeakScope(p) == ownerCtx                     \* CloseScope: no drop guard
TakenButKept(p) == onEvent                   \* Taken: read, not removed
NotDueYet == onTime \ due                    \* DueNow: comparison inverted
PurgedNoSignals(p) == onSignal               \* PurgedSignals: table forgotten
DueUnpurged(p) == due                        \* StillDue: entry left behind

-----------------------------------------------------------------------------
(* The scheduler *)

\* The stamp of an event park: the owner context of the coroutine's player.
Stamp(p) == ownerCtx[p]

\* repark: park_time, park_signal or park_event (which displaces what is
\* there); a finished coroutine is dropped.
Park(c, p, wait) ==
    /\ onTime' = IF wait = "time" THEN onTime \cup {c} ELSE onTime
    /\ onSignal' = [s \in Signals |->
                      IF wait = s THEN onSignal[s] \cup {c} ELSE onSignal[s]]
    /\ onEvent' = IF wait = "event"
                    THEN [onEvent EXCEPT ![p] = [co |-> c, owner |-> Stamp(p)]]
                    ELSE onEvent
    /\ UNCHANGED due

\* What one slice may end in and queue.  Both helpers of global.lua that wait
\* for the client queue a command first.
Outcomes ==
    {o \in [wait : Waits \cup {"done"}, out : SUBSET Commands] :
        /\ Cardinality(o.out) <= 2
        /\ o.wait = "event" => "rpc" \in o.out}

\* take_event's effect on the table.
Taken(p) == [onEvent EXCEPT ![p] = NotParked]

\* drain_due_time
DueNow == due

\* What purge_owner(p) drops: the player's coroutines in all three tables.
Owned(p) == {c \in DOMAIN co : co[c].player = p}
Parked(c) ==
    \/ c \in onTime
    \/ \E s \in Signals : c \in onSignal[s]
    \/ \E p \in Players : onEvent[p].co = c
StillDue(p) == due \ Owned(p)
PurgedSignals(p) == [s \in Signals |-> onSignal[s] \ Owned(p)]

Purge(p) ==
    /\ onTime' = onTime \ Owned(p)
    /\ due' = StillDue(p)
    /\ onSignal' = PurgedSignals(p)
    /\ onEvent' = [onEvent EXCEPT ![p] = NotParked]
    /\ ownerCtx' = [ownerCtx EXCEPT ![p] = None]
    /\ gone' = gone \cup {c \in Owned(p) : Parked(c)}

\* A deadline passes.
Expire(c) ==
    /\ c \in onTime \ due
    /\ due' = due \cup {c}
    /\ UNCHANGED <<onTime, onSignal, onEvent, ownerCtx, worldVars, co, taskVars,
                   packetVars, batches, gone>>

-----------------------------------------------------------------------------
(* Applying a batch of commands: apply_event_script_commands.  The signals  *)
(* are applied last; what a signal's coroutines queue is applied in turn.   *)

\* Content teardown of the first session found with active content, any of
\* them, as the sessions are scanned in the order of a hash map.
ApplyFinish(a) ==
    /\ pc[a] = "apply" /\ hand[a] = {}
    /\ "finish" \in cmds[a]
    /\ cmds' = [cmds EXCEPT ![a] = @ \ {"finish"}]
    /\ \/ /\ \A q \in Players : content[q] = None
          /\ UNCHANGED <<schedVars, ownerCtx, content, gone>>
       \/ \E q \in Players :
            /\ content[q] # None
            /\ content' = [content EXCEPT ![q] = None]
            /\ IF q \in online THEN Purge(q)
                               ELSE UNCHANGED <<schedVars, ownerCtx, gone>>
    /\ UNCHANGED <<online, currentOwner, co, pc, hand, packetVars, batches>>

\* fire_signal_and_drain takes everything parked on the signal, of any player.
ApplySignal(a, s) ==
    /\ pc[a] = "apply" /\ hand[a] = {}
    /\ s \in cmds[a] /\ "finish" \notin cmds[a]
    /\ cmds' = [cmds EXCEPT ![a] = @ \ {s}]
    /\ hand' = [hand EXCEPT ![a] = onSignal[s]]
    /\ onSignal' = [onSignal EXCEPT ![s] = {}]
    /\ UNCHANGED <<onTime, due, onEvent, ownerCtx, worldVars, co, pc, packetVars, batches, gone>>

\* ... and resumes them one after the other.
ApplyResume(a, c) ==
    /\ pc[a] = "apply" /\ c \in hand[a]
    /\ hand' = [hand EXCEPT ![a] = @ \ {c}]
    /\ \E o \in Outcomes :
         /\ Park(c, co[c].player, o.wait)
         /\ cmds' = [cmds EXCEPT ![a] = @ \cup (o.out \ {"rpc"})]
    /\ UNCHANGED <<ownerCtx, worldVars, co, pc, packetVars, batches, gone>>

\* The batch is applied; the caller goes on.
ApplyEnd(a) ==
    /\ pc[a] = "apply" /\ hand[a] = {} /\ cmds[a] = {}
    /\ Goto(a, IF a = "ticker" THEN "resume"
               ELSE IF arm \in {"director", "fresh"} THEN "fresh" ELSE "close")
    /\ UNCHANGED <<schedVars, ownerCtx, worldVars, co, hand, cmds,
                   packetVars, batches, gone>>

-----------------------------------------------------------------------------
(* The packet task: EventStart *)

\* Command actors skip the gate.
FirstStep(o) == IF o \in CommandActors THEN "scope" ELSE "gate"

\* handle_event_start up to the gate.
EventStart(p, o) ==
    /\ pc["packet"] = "idle" /\ p \in online
    /\ Goto("packet", FirstStep(o))
    /\ actingFor' = p
    /\ evOwner' = o
    /\ UNCHANGED <<schedVars, ownerCtx, worldVars, co, hand, cmds, arm, took,
                   batches, gone>>

\* The gate's verdict on the player's parked coroutine.
GateVerdict(park) ==
    IF park.co # None /\ park.owner = evOwner THEN "claim"
    ELSE IF park.owner # None THEN "discard" ELSE "scope"

\* parked_event_owner: one lock, released before the verdict is acted on.
GateRead ==
    LET park == onEvent[actingFor] IN
    /\ pc["packet"] = "gate"
    /\ Goto("packet", GateVerdict(park))
    /\ UNCHANGED <<schedVars, ownerCtx, worldVars, co, actingFor, hand, cmds, evOwner,
                   arm, took, batches, gone>>

\* The resume arm records the event and opens the owner scope.
Claim ==
    LET p == actingFor IN
    /\ pc["packet"] = "claim"
    /\ currentOwner' = [currentOwner EXCEPT ![p] = evOwner]
    /\ ownerCtx' = [ownerCtx EXCEPT ![p] = evOwner]
    /\ arm' = "start"
    /\ Goto("packet", "take")
    /\ UNCHANGED <<schedVars, online, content, co, actingFor, hand, cmds, evOwner, took,
                   batches, gone>>

\* discard_parked_event
Discard ==
    /\ pc["packet"] = "discard"
    /\ onEvent' = [onEvent EXCEPT ![actingFor] = NotParked]
    /\ Goto("packet", "scope")
    /\ UNCHANGED <<onTime, due, onSignal, ownerCtx, worldVars, co, hand, cmds, actingFor,
                   evOwner, arm, took, batches, gone>>

\* The owner scope of a fresh dispatch.
OpenScope(p, o) == [ownerCtx EXCEPT ![p] = o]

\* The fresh dispatch: open the scope, start_event; an EventStart of the
\* player's content director then looks for a parked coroutine once more.  A
\* hotbar skill executes inline, ends its event and is done.
Scope ==
    LET p == actingFor IN
    /\ pc["packet"] = "scope"
    /\ ownerCtx' = OpenScope(p, evOwner)
    /\ \/ /\ currentOwner' = [currentOwner EXCEPT ![p] = evOwner]
          /\ LET toDirector == evOwner = content[p] IN
               /\ arm' = IF toDirector THEN "director" ELSE "fresh"
               /\ Goto("packet", IF toDirector THEN "take" ELSE "fresh")
       \/ /\ evOwner \in CommandActors
          /\ currentOwner' = [currentOwner EXCEPT ![p] = None]
          /\ arm' = "fresh"
          /\ Goto("packet", "close")
    /\ UNCHANGED <<schedVars, online, content, co, actingFor, hand, cmds, evOwner, took,
                   batches, gone>>

\* Where a resume arm goes on when it has no commands to apply: nothing was
\* parked, or the slice queued nothing.
WhenEmpty ==
    CASE arm = "update"   -> "echo"
      [] arm = "director" -> "director"
      [] OTHER            -> "close"

\* fire_player_event_and_drain: take_event ...
Take ==
    LET p == actingFor
        park == onEvent[p] IN
    /\ pc["packet"] = "take"
    /\ took' = park
    /\ onEvent' = Taken(p)
    /\ hand' = [hand EXCEPT !["packet"] = {park.co} \ {None}]
    /\ Goto("packet", IF park.co = None THEN WhenEmpty ELSE "slice")
    /\ UNCHANGED <<onTime, due, onSignal, ownerCtx, worldVars, co, actingFor, cmds,
                   evOwner, arm, batches, gone>>

\* ... and the slice.  The echo's drain applies no signals.
Slice ==
    /\ pc["packet"] = "slice"
    /\ \E c \in hand["packet"], o \in Outcomes :
         /\ Park(c, co[c].player, o.wait)
         /\ hand' = [hand EXCEPT !["packet"] = @ \ {c}]
         /\ cmds' = [cmds EXCEPT !["packet"] =
                       (o.out \ {"rpc"}) \ (IF arm = "echo" THEN Signals ELSE {})]
         /\ Goto("packet", IF o.out = {} THEN WhenEmpty ELSE "apply")
         /\ took' = NotParked
    /\ UNCHANGED <<ownerCtx, worldVars, co, actingFor, evOwner, arm, batches, gone>>

\* A hook of a script runs as a new coroutine of player p up to its first wait.
RunHook(p, home, drops) ==
    LET c == Len(co) + 1 IN
    /\ c \in Coroutines
    /\ co' = Append(co, [player |-> p, home |-> home])
    /\ \E o \in Outcomes :
         /\ Park(c, p, o.wait)
         /\ cmds' = [cmds EXCEPT !["packet"] = (o.out \ {"rpc"}) \ drops]

\* Of the fan-out's hooks only a command's script is drained by
\* apply_event_script_commands; the other drains know no signals.
DroppedBy(o) == IF o \in CommandActors THEN {} ELSE Signals

\* One hook of the fan-out: the NPC's or command's own script, or a quest's.
FreshHook ==
    /\ pc["packet"] = "fresh"
    /\ RunHook(actingFor, evOwner, DroppedBy(evOwner))
    /\ arm' = "fresh"
    /\ Goto("packet", "apply")
    /\ UNCHANGED <<ownerCtx, worldVars, actingFor, hand, evOwner, took, batches, gone>>

\* The director's onEventStarted, when no coroutine of it was resumed or the
\* resumed one queued nothing.
DirectorHook ==
    /\ pc["packet"] = "director"
    /\ RunHook(actingFor, evOwner, {})
    /\ Goto("packet", "apply")
    /\ UNCHANGED <<ownerCtx, worldVars, hand, packetVars, batches, gone>>

\* No hook (left) to run, or its script is not on disk.
FreshEnd ==
    /\ pc["packet"] \in {"fresh", "director"}
    /\ Goto("packet", "close")
    /\ UNCHANGED <<schedVars, ownerCtx, worldVars, co, hand, cmds, packetVars,
                   batches, gone>>

\* The owner scope ends with the handler.
CloseScope(p) == [ownerCtx EXCEPT ![p] = None]

Close ==
    /\ pc["packet"] = "close"
    /\ ownerCtx' = CloseScope(actingFor)
    /\ actingFor' = None
    /\ evOwner' = None /\ arm' = None
    /\ Goto("packet", "idle")
    /\ UNCHANGED <<schedVars, worldVars, co, hand, cmds, took, batches, gone>>

-----------------------------------------------------------------------------
(* The packet task: EventUpdate, hooks outside an event, session end *)

\* The owner scope of a resume by EventUpdate: the open event's owner, if any.
UpdateScope(p) ==
    ownerCtx' = IF currentOwner[p] # None
                  THEN [ownerCtx EXCEPT ![p] = currentOwner[p]] ELSE ownerCtx

EventUpdate(p) ==
    /\ pc["packet"] = "idle" /\ p \in online
    /\ UpdateScope(p)
    /\ actingFor' = p
    /\ arm' = "update"
    /\ Goto("packet", "take")
    /\ UNCHANGED <<schedVars, worldVars, co, hand, cmds, evOwner, took, batches, gone>>

\* The fallback: dispatch_event_updated_drain fires the player's event again.
Echo ==
    /\ pc["packet"] = "echo"
    /\ UpdateScope(actingFor)
    /\ arm' = "echo"
    /\ Goto("packet", "take")
    /\ UNCHANGED <<schedVars, worldVars, co, actingFor, hand, cmds, evOwner, took,
                   batches, gone>>

\* A burst that creates a content area sets the session's content script.
EnterContent(p) == \E d \in Directors : content' = [content EXCEPT ![p] = d]

\* A quest hook run outside an event (login, zone-in).
OutsideHook(p) ==
    /\ pc["packet"] = "idle" /\ p \in online
    /\ RunHook(p, None, Signals)
    /\ UNCHANGED content \/ EnterContent(p)
    /\ actingFor' = p
    /\ arm' = "outside"
    /\ Goto("packet", "apply")
    /\ UNCHANGED <<ownerCtx, online, currentOwner, hand, evOwner, took, batches, gone>>

\* handle_session_end: purge, then forget the actor and the session.
SessionEnd(p) ==
    /\ pc["packet"] = "idle" /\ p \in online
    /\ Purge(p)
    /\ actingFor' = p
    /\ Goto("packet", "forget")
    /\ UNCHANGED <<worldVars, co, hand, cmds, evOwner, arm, took, batches>>

Forget ==
    LET p == actingFor IN
    /\ pc["packet"] = "forget"
    /\ online' = online \ {p}
    /\ currentOwner' = [currentOwner EXCEPT ![p] = None]
    /\ content' = [content EXCEPT ![p] = None]
    /\ actingFor' = None
    /\ Goto("packet", "idle")
    /\ UNCHANGED <<schedVars, ownerCtx, co, hand, cmds, evOwner, arm, took, batches,
                   gone>>

\* The player logs in again.
SessionBegin(p) ==
    /\ pc["packet"] = "idle" /\ p \notin online
    /\ online' = online \cup {p}
    /\ UNCHANGED <<schedVars, ownerCtx, currentOwner, content, co, taskVars, packetVars,
                   batches, gone>>

-----------------------------------------------------------------------------
(* The ticker *)

\* LuaEngine::tick takes every coroutine that is due ...
TickDrain ==
    /\ pc["ticker"] = "idle" /\ DueNow # {}
    /\ hand' = [hand EXCEPT !["ticker"] = DueNow]
    /\ onTime' = onTime \ DueNow
    /\ due' = due \ DueNow
    /\ Goto("ticker", "resume")
    /\ UNCHANGED <<onSignal, onEvent, ownerCtx, worldVars, co, cmds, packetVars,
                   batches, gone>>

\* ... and resumes each, keeping the non-empty batches.
TickResume(c) ==
    /\ pc["ticker"] = "resume" /\ c \in hand["ticker"]
    /\ hand' = [hand EXCEPT !["ticker"] = @ \ {c}]
    /\ \E o \in Outcomes :
         /\ Park(c, co[c].player, o.wait)
         /\ batches' = IF o.out = {} THEN batches
                       ELSE batches \cup {[co |-> c, cmds |-> o.out \ {"rpc"}]}
    /\ UNCHANGED <<ownerCtx, worldVars, co, pc, cmds, packetVars, gone>>

\* tick_once applies the batches: through the event bridge if the owner still
\* has a handle, else through the runtime drain, which knows no signals.
TickApply(b) ==
    LET p == co[b.co].player IN
    /\ pc["ticker"] = "resume" /\ hand["ticker"] = {}
    /\ b \in batches
    /\ batches' = batches \ {b}
    /\ cmds' = [cmds EXCEPT !["ticker"] =
                  b.cmds \ (IF p \in online THEN {} ELSE Signals)]
    /\ Goto("ticker", "apply")
    /\ UNCHANGED <<schedVars, ownerCtx, worldVars, co, hand, packetVars, gone>>

TickEnd ==
    /\ pc["ticker"] = "resume" /\ hand["ticker"] = {} /\ batches = {}
    /\ Goto("ticker", "idle")
    /\ UNCHANGED <<schedVars, ownerCtx, worldVars, co, hand, cmds, packetVars, batches, gone>>

\* The combat step of the ticker fires a signal for a player in content
\* (fire_content_signal, check_content_battle_complete).
TickSignal(p, s) ==
    /\ pc["ticker"] = "idle" /\ p \in online /\ content[p] # None
    /\ cmds' = [cmds EXCEPT !["ticker"] = {s}]
    /\ Goto("ticker", "apply")
    /\ UNCHANGED <<schedVars, ownerCtx, worldVars, co, hand, packetVars, batches, gone>>

-----------------------------------------------------------------------------
Apply(a) ==
    \/ ApplyFinish(a) \/ ApplyEnd(a)
    \/ \E s \in Signals : ApplySignal(a, s)
    \/ \E c \in hand[a] : ApplyResume(a, c)

Packet ==
    \/ \E p \in Players :
         \/ \E o \in Owners : EventStart(p, o)
         \/ EventUpdate(p) \/ OutsideHook(p) \/ SessionEnd(p) \/ SessionBegin(p)
    \/ GateRead \/ Claim \/ Discard \/ Scope \/ Take \/ Slice
    \/ FreshHook \/ DirectorHook \/ FreshEnd \/ Close \/ Echo \/ Forget
    \/ Apply("packet")

Ticker ==
    \/ TickDrain \/ TickEnd
    \/ \E c \in hand["ticker"] : TickResume(c)
    \/ \E b \in batches : TickApply(b)
    \/ Apply("ticker")

Next ==
    \/ Packet \/ Ticker
    \/ \E p \in Players, s \in Signals : TickSignal(p, s)
    \/ \E c \in onTime : Expire(c)

Spec == Init /\ [][Next]_vars

\* The ticker runs for ever, and every pass of tick_once reaches lua.tick(),
\* whatever its combat step did before.  Clients need not send anything.
FairSpec == Spec /\ WF_vars(Ticker) /\ SF_vars(TickDrain)

-----------------------------------------------------------------------------
(* Properties *)

PacketLabels == {"idle", "gate", "claim", "discard", "scope", "take", "slice", "fresh",
                 "director", "apply", "echo", "close", "forget"}
TickerLabels == {"idle", "resume", "apply"}

\* The tables hold coroutines that exist, each under its own player's key, and
\* every task's locals fit its control point.
TypeOK ==
    /\ co \in Seq([player : Players, home : Owners \cup {None}])
    /\ Len(co) <= MaxCoroutines
    /\ onTime \subseteq DOMAIN co /\ due \subseteq onTime
    /\ onSignal \in [Signals -> SUBSET DOMAIN co]
    /\ onEvent \in [Players -> [co : DOMAIN co \cup {None}, owner : Owners \cup {None}]]
    /\ ownerCtx \in [Players -> Owners \cup {None}]
    /\ online \subseteq Players
    /\ currentOwner \in [Players -> Owners \cup {None}]
    /\ content \in [Players -> Directors \cup {None}]
    /\ pc \in [Actors -> PacketLabels \cup TickerLabels]
    /\ pc["ticker"] \in TickerLabels /\ pc["packet"] \in PacketLabels
    /\ actingFor \in Players \cup {None} /\ (pc["packet"] # "idle" => actingFor # None)
    /\ hand \in [Actors -> SUBSET DOMAIN co]
    /\ cmds \in [Actors -> SUBSET (ScriptCommands \cup Signals)]
    /\ evOwner \in Owners \cup {None}
    /\ arm \in {"start", "update", "echo", "director", "fresh", "outside", None}
    /\ batches \subseteq [co : DOMAIN co, cmds : SUBSET ScriptCommands]

\* Where a coroutine can be held.
Holds(place, c) ==
    CASE place = "time"    -> c \in onTime
      [] place = "event"   -> \E p \in Players : onEvent[p].co = c
      [] place \in Signals -> c \in onSignal[place]
      [] OTHER             -> c \in hand[place]
Places == {"time", "event"} \cup Signals \cup Actors

\* A coroutine is in one table or one task's hands, never in two: nothing is
\* resumed twice from one wait, whichever of the two tasks got to it first.
\* The park under a player's key is a coroutine of that player.
SingleCustody ==
    /\ \A c \in DOMAIN co :
         Cardinality({place \in Places : Holds(place, c)}) <= 1
    /\ \A p \in Players : onEvent[p].co # None => co[onEvent[p].co].player = p

\* The owner context a dispatch sets ends with it, on every path out of the
\* handlers: outside a dispatch for the player there is none, so a park made
\* by the ticker between two packets is stamped unknown.
ScopeEndsWithDispatch ==
    \A p \in Players :
        ownerCtx[p] # None => pc["packet"] # "idle" /\ actingFor = p

\* What purge_owner dropped (session end, content teardown) is never run
\* again: no table and no task holds it, wherever the ticker was.
PurgedNeverResumes ==
    \A c \in gone : \A place \in Places : ~Holds(place, c)

\* A coroutine whose wait is over is taken by the ticker or purged, whatever
\* the packet task does.
DueIsTaken == \A c \in Coroutines : c \in due ~> c \notin due
=============================================================================
