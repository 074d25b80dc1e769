# TLA+ specifications of Garlemald Server

Garlemald Server emulates the servers of FINAL FANTASY XIV 1.23b: a web
service for accounts, a lobby server for characters, a world server that
owns the players' connections, and one or more map servers that run the
game and its Lua scripts. This directory holds TLA+ models of the parts of
it where several tasks, processes or messages meet, the TLC runs that check
them on small instances, and TLAPS proofs of the most important invariants
for instances of any size.

`PROJECT.json` is the index: components, runs, the mutated definitions that
show a property can fail, the source lines behind every definition, the
findings, the hazards, and the theorems.

To check a run: `tlc -config <run>.cfg <module>`; to check the proofs of a
component: `tlapm <component>Proofs.tla`.

## 1. Inventory

| component | state it keeps | operations | how it interacts | what makes it correct |
|---|---|---|---|---|
| world session registry (`world-server/src/server.rs`, `processor.rs`, `data.rs`) | zone and chat session per id, pending ends, per-connection owned list and shutdown permit | hello, eviction, disconnect, end confirm | one task per client socket; one reader per zone server; all share the registry through short locks | teardown is complete and never hits a successor; an evicted task stops; together they implement one owner per key |
| zone-endpoint links (`world_master.rs`, `server.rs`) | routing table, outbound queue per link | connect, register, drop, retry | sessions hold a handle of the link they were routed to | an endpoint comes back; no game packet overtakes its SessionBegin |
| map server sessions (`map-server/src/processor.rs`, `world_manager.rs`) | session, client, actor per player | session begin, session end | driven by the world link | the two servers agree who is logged in |
| Lua scheduler and event dispatch (`map-server/src/lua/scheduler.rs`, `lua/mod.rs`, `processor.rs`, `event/*`, `runtime/ticker.rs`, `runtime/quest_apply.rs`) | coroutines asleep on time, signals or a client event; the owner context; the open event of each player | EventStart, EventUpdate, hooks, signals, purge, tick | packet task and ticker on different threads over one mutex | a coroutine is resumed once, by its own event, never after a purge, and always eventually |
| lobby characters (`lobby-server/src/*`) | characters tables; per-connection reservation scratchpad | reserve, make, rename, delete, recover a reservation | one task per client; one database thread; other processes on the same file | nobody fills in another's reservation; nothing listed is incomplete; nothing is made twice |
| map zones (`world_manager.rs`, `zone/*`, `runtime/actor_registry.rs`, `processor.rs`) | the session record, the zones' and private areas' lists, the registry, the client's latches, the stored place | zone change, deferred warp, parked zone-in, content instance, boundary crossing, position report, event kick, login, logout | packet task and ticker clone a session, wait, and store it whole; the client loads in its own time | a player is listed in one place, the one the session names; a client told to let go of its world gets the next one; nothing of the old world is acted on |
| quest journal (`actor/quest.rs`, `runtime/quest_apply.rs`, `database.rs`) | slots, marker sets, completed set; their tables; the client's markers | add, sequence, mark, complete, abandon, regional leves | handlers change memory under a lock and tables, markers and script hooks after it | tables and client follow the journal; one payment per completion |
| items and retainers (`database.rs`, `runtime/quest_apply.rs`) | item, inventory, retainer, storage and bazaar tables | grant, remove, gil, hire, list, purchase | one transaction per call, several calls per handler | an item has one home; sales conserve; removals are exact; no debt |
| battle (`battle/*`, `runtime/dispatcher.rs`, `runtime/ticker.rs`) | state stack, hate, main state, hit points of each actor | engage, swing, cast, retarget, die, revive, sheathe, respawn | the ticker takes the actors in turn, the packet task carries out orders, each lock one actor | a kill is paid once; a battle ends once; the dead are left alone |
| advancement (`runtime/quest_apply.rs`, `processor.rs`, `actor/gc.rs`, `battle/save.rs`) | class, levels, points, rested bonus, company, ranks, seals | gain, kill reward, class change, enlist, promote | memory under the lock, then one call per column | tables follow memory; no level without its points; no rank without its seals |
| database boot (`common/src/db.rs`, `migrations.rs`) | schema, `schema_migrations` | create schema, apply migrations | four processes open one file at boot | every process sees the whole schema; each migration once |
| world groups, guildleve directors | see section 6: no packet or caller reaches them | | | |
| crafting, gathering, social, packets, cipher, web | see `PROJECT.json` | | | |

What is hard in this code: every `lock().await` and queue send of the world
server is a point where another login may run; the two ends of a session
live in two processes joined by a link that fails; the map server's packet
task and ticker take coroutines from the same tables and act on what they
read under an earlier lock; scripts stop in the middle and go on minutes
later, when the player may be in another event, zone or session; the
lobby's longest database closure is not a transaction; and nearly every
handler of the map server changes the live character under its lock and
writes the tables after it, one call at a time, so that two handlers, a
failed call, a relogin or the end of the process can come in between.

`PROJECT.json` lists each such place under `hazards` with its line and the
properties that watch it. Entries without a property say why.

## 2. Modules

| module | models | extends |
|---|---|---|
| `WorldSessions` | the world server's tasks; the zone server is external | |
| `SessionOwnership` | abstract: what the registry promises about owners of keys | |
| `SessionLifecycle` | the world server together with the repository's map server | `WorldSessions` |
| `EventScripts` | scheduler, event dispatch, ticker | |
| `LobbyCharacters` | lobby connections and the characters tables | |
| `ItemTables` | items, gil, retainers and the bazaar | |
| `QuestJournal` | the journal, its tables and markers, regional leves | |
| `MapZones` | where a player is, for the session, the zones and the client | |
| `Battle` | a fight in one zone | |
| `Advancement` | experience, levels, class, Grand Company of one character | |
| `WorldSessionsProofs`, `EventScriptsProofs`, `LobbyCharactersProofs`, `BattleProofs`, `AdvancementProofs`, `ItemTablesProofs`, `QuestJournalProofs`, `MapZonesProofs` | theorems | their module, `TLAPS`; the first `SessionLifecycle`, over `WorldSessions` |
| `MC...` | symmetry sets and constant functions for TLC | their module |

A definition whose comment begins with Mutant or Fault (in `EventScripts` and
the older modules, the section of mutated forms) is a plausible slip of the
definition that follows it; `PROJECT.json` names the property it breaks.

The modules about the map server share one shape. A handler is an action for
what it does under its first lock and then a *program*, the sequence of locks,
calls and sends it has still to take, kept per task (packet task, ticker) in
`program`; every later step is an action that takes the head of a program, so
the two tasks interleave exactly where the code awaits. Where the code itself
loses a race, a history variable (`spoiled`, `disturbed`, `raced`) notes it
and the properties exempt what was disturbed, no more; each such race is a
hazard in `PROJECT.json`.

### WorldSessions

A connection task is a program counter per connection (`pc`) with the locals
of `handle_hello` and `handle_disconnect` (`arg`, `old`, `dst`, `todo`). One
action is one lock acquisition or one queue send. A session object, the
code's `Arc<Session>`, is named by the connection and the number of its
hello, so that two tasks holding the same object see each other's change of
`routing1`. A `ZoneServerHandle` is `<<server, epoch>>`: after a reconnect
the epoch differs and sends on the old handle are dropped.

| code | actions |
|---|---|
| `handle_hello` | `RecvHello`, `HelloRoute`, `HelloBegin`, `HelloLookup`, `HelloAdd`, `HelloOwn` |
| `end_existing_session` | `EvictMark`, `EvictSend`, `EvictRemove`, `EvictNotify` |
| read loop and `handle_disconnect` | `PeerClose`, `Superseded`, `DiscNext`, `DiscMark`, `DiscSend`, `DiscRemove` |
| `supervise_zone_endpoint`, `run_zone_connection` | `ZoneConnect`, `ZoneRegister`, `ZoneDrop`, `ZoneUnregister` |
| `handle_world_packet` 0x1001, 0x1002 | `ReadPacket`, `EndConfirm`, `MoveBegin`, `MoveRoute`, `TakePendingEnd`, `StaleGuard`, `RemoveZone`, `RemoveChat`, `ZoneChange`, `ZoneChangeSend` |
| a zone server (external) | `ZoneServerBegin`, `ZoneServerEnd`, `ZoneServerMove` |

Left out: forwarded game packets (they change no state here), group opcodes
(never sent, section 6), the confirm of a begin (only logged).

### SessionOwnership

A key (channel, id) has at most one owner; ownership ends with an owner that
leaves, by a newcomer that found this very owner, or by decree of the zone
server. `WorldSessions` instantiates it (`Ownership`): the owner of a key is
the connection of the registered session, `life` follows the program
counter, `rival` is the session an evicting task holds, `told` the shutdown
permits, `decree` the ends a zone server has confirmed. `ImplementsOwnership`
is its whole specification, checked as a property of `world_sessions`.

### SessionLifecycle

Replaces the external zone server by the map server's `handle_session_begin`
and `handle_session_end`. The latter answers every end with error code 1,
which the world server reads as a failure; nothing is removed on that path
and no move between zone servers ever completes. A link may fail with the
map server living on (`LinkLoss`) or with it (`MapCrash`).

### EventScripts

A step is one acquisition of the scheduler's mutex; a Lua slice touches the
scheduler only when it parks, so slice and park are one step. What a slice
does is left open: it ends in any wait of `Waits` or finishes, and queues
any of `ScriptCommands`; a wait for the client always comes with a queued
RPC, as in `global.lua`. Coroutines are numbered and never reused.

| code | actions |
|---|---|
| `handle_event_start` | `EventStart`, `GateRead`, `Claim`, `Discard`, `Scope`, `FreshHook`, `DirectorHook`, `FreshEnd`, `Close` |
| `fire_player_event_and_drain` | `Take`, `Slice` |
| `handle_event_update`, `dispatch_event_updated_drain` | `EventUpdate`, `Echo` |
| hooks at login and zone-in | `OutsideHook` |
| `handle_session_end`, `handle_session_begin` | `SessionEnd`, `Forget`, `SessionBegin` |
| `apply_event_script_commands` | `ApplyFinish`, `ApplySignal`, `ApplyResume`, `ApplyEnd` |
| `LuaEngine::tick`, `tick_once` | `TickDrain`, `TickResume`, `TickApply`, `TickEnd`, `TickSignal` |

Simplifications: the signals of a batch are a set; a content teardown hits
any session with content (the code takes the first of a hash map); clearing
the content and purging its coroutines is one step. The drains of the echo,
of NPC and quest hooks, and the ticker's drain for an owner who is offline
do not know signals and drop them, in the model as in the code. Not
modelled: director main coroutines, which have no owning player; the park
key 0; GM console commands; the routing of the login burst.

### LobbyCharacters

One task per connection with its `LobbySession` scratchpad. Each `call_db`
is a step, since the database runs one closure at a time; `make_character`
is a step per statement because it has no transaction and the process may
end in the middle, and no other task reaches the database meanwhile
(`DbFree`). A character's other tables are the set of rows that exist
(`parts`). `characters_parametersave` is keyed by the character and is
inserted without OR IGNORE, so a second MAKE fails there and the error ends
the connection (`MakeFails`). A class number that `class_name_for_id` does not
list, and the client may send any, makes the class statement name a column
that does not exist: it fails after the row was made and the appearance was
written (`ClassRefused`), and that character stays half made, with no process
end and for ever, as no retry finds it reserved. The history `refused` notes
them; `CrashLeavesOneHalfMade` counts the others.

| code | actions |
|---|---|
| `handle_connection` | `Open`, `Drop`, `MakeFails` |
| `handle_session_ack` | `SessionAck` |
| `handle_modify_character` | `Modify`, `LookupWorld`, `Recover`, `Refuse`, `Reserve`, `Make`, `Rename`, `Delete`, `RenameRetainer` |
| `make_character` | `MakeState`, `MakeAppearance`, `MakeClasses`, `ClassRefused`, `MakeParams`, `MakeHotbar` |
| the process ends (external) | `Crash` |

The client is assumed to be the game's: it acknowledges its session once,
before anything else, and leaves when it is refused. Slots, appearance data
and the read-only list and selection requests are left out.

### ItemTables

A call of `database.rs` is one transaction and one action (`AddItem`,
`AddHarvestItem`, `AddGil`, `AddKeyItem`, `Purchase`, `HireRetainer`, ...).
`apply_remove_item` reads the stacks (`RemoveRead`) and writes them one call
at a time (`RemoveRow`, `RemoveDone`). i32 arithmetic is saturated at
`I32Max`, and a quantity past it cannot be read, as rusqlite refuses it.

### QuestJournal

`AddQuest`, `StartSequence`, `SetEnpc`, `CompleteQuest`, `AbandonQuest`,
`AcceptRegionalLeve`, `AdvanceLeve`, `HandIn` and the other commands are the
locked parts; `SaveQuest`, `RemoveQuest`, `LoadCompleted`, `SaveCompleted`,
`Swap`, `Drain`, `Pay` and the rest are the calls after it. A hook runs a
script whose commands come before the rest of the program that called it.
Flags and counters of a quest are one saved value (`ChangeData`). `ClearData`
zeroes the linkshell call as well, in memory alone: `cleared` is the slots where
memory has no call and the row still may. `SetEnpc` changes the marker set under
the lock and broadcasts after it. `left` is what the client keeps marked with no
clear on its way: the markers of an abandoned quest, and those of a swap that was
dropped by the next before its drain. `Relogin` may come while the other task
still holds the old character and finishes what it was doing to it.

### MapZones

One player; the session record is edited by `ReadSession` and
`UpsertSession`, two steps, as the code clones and stores it. `DoZoneChange`
is the locked move of `do_zone_change`; `Deliver`, `SendBundle`, `Land` the
zone-in, parked for the ticker within a region (`ZoneInDue`). The client is
external: it loads what it is sent (`ClientLoads`), acknowledges, and reports
positions of what it shows (`ClientReports`).

A zone may be on another map server (`Loaded`). `do_zone_change` and
`do_seamless_zone_change` then return Ok and move nobody
(`world_manager.rs:1613-1619`, `:3388-3390`), and their callers go on: the
registry and the stored position name a place where the player is not
(`Moved`, `Land`, `Flipped`), no zone-in is sent for it (`SendBundle`), and a
login reads it back. Such a step leaves the mark `unloaded`.

Reports of old positions are held off only while `reload_in_flight` or
`pending_zone_in` is set. A warp to another region sets neither, and a warp
within a region has none left once its zone-in has gone out; until the client
has loaded, its reports of the old place are taken up. `broken` records a
stale report only in the two covered cases, and `HeldOffWhileReloading` claims
no more.

### Battle

Hit points are up or not, enmity is who is hated, time and distance are
choices. A turn of the ticker is `TakeTurn`, `Look` (the view the controller
decides on), `Update` (states and decisions under the lock) and the events it
asked for; deaths are `Mark`, `Clear` and `Complete`. Orders of the packet
task are `SetTarget`, `Hotbar` and `Push`, `Draw`, `Sheathe`, and the
script's engage, die and revive.

A player who sheathes by command is flushed first (`Sheathe`). A script that
calls `ChangeState(0)` after a wait, on the ticker, or in answer to an event,
on the packet task, is not: `apply_change_state` sets the stance alone
(`ScriptSheathe`, `ChangeState`). A player it finds in a fight, or about to
push into one, is marked `unflushed` until the next flush or death. Of the
other stances scripts give, riding is only an initial state, and sitting,
crafting and gathering are left out.

### Advancement

`Gain` is the locked part of `apply_add_exp`; `Saves` its writes in order. A
kill pays seals (`Award`, by a rank and a balance read earlier) and then
experience to the class of the moment (`PickClass`, `KillExp`).
`apply_promote_gc` is `PromoteGC`, `Balance`, `Spend`, `Bump` and a save.
Ranks are numbered along `next_rank`; hotbars, the level shown and the
experience formulae are left out; GM commands too.

## 3. Runs

Passing runs:

| run | instance | shows |
|---|---|---|
| `world_sessions` | 2 connections, 1 id, zone and chat, 2 hellos each, 1 link | `NoDeadOwner`: no entry outlives its task. `PendingEndIsForDeparting`: an end record names a connection that goes. `ShutdownOnlyOnTakeover`: only another's claim evicts. `EntryOutlivesStaleTeardown`: a late teardown spares the successor. `ImplementsOwnership`: every step is a step of `SessionOwnership` or none |
| `world_zone_change` | 1 connection, 2 zone servers with 2 links each, moves, fairness | `RegisteredRouteIsBegun`: SessionBegin precedes every route. `LinkReattaches`: a lost endpoint is routed again |
| `life_sessions` | 2 connections, 2 ids, both servers, link loss and map restart, fairness | `NoGhostSession`: no map session without a world session at rest. `UncontestedSessionIsAttached`: a session only one connection claimed, routed over the live link, has its map session. `AbandonedSessionsEnd`: when all clients go, map sessions end. `EvictedConnectionStops` |
| `events_core` | 1 player, a director, a command actor, all waits, signals from scripts and ticker, session ends, 2 coroutines | `SingleCustody`: a coroutine is in one place. `ScopeEndsWithDispatch`: the owner context never leaks. `PurgedNeverResumes` |
| `events_liveness` | 1 player, an NPC, all waits, 2 coroutines, fairness | `DueIsTaken`: a wait that is over is served or purged |
| `lobby_characters` | 2 connections, 2 accounts, 2 names, 2 rows, 1 process end | `ScratchIsOwn`, `ListedIsComplete`, `MadeOnce`, `CrashLeavesOneHalfMade` |
| `item_tables` | 2 characters, 1 retainer both may hire, 4 item rows, i32 scaled to 3 | `OneHome`: no item row is in two places, no place without its row. `NoDebt`. `UncontestedRemovalIsExact`. `SaleConserves`: a sale creates and destroys nothing |
| `quest_journal` | 1 quest, 1 leve, 2 slots, packet task and ticker, relogins, process ends | `MemoryMirrored`: at rest the tables are the journal, the call of `ClearData` apart. `MarkersMatch`: the client shows the quest's markers and what was left. `PaidOncePerCompletion` |
| `map_zones` | 3 zones and one that is on another server, 1 private area, 1 content arena, 3 commands, a client that loads late | `InOnePlace`: listed where the session says and nowhere else. `NeverStranded`: a client told to let go gets a world. `HeldOffWhileReloading`: while a client reloads in place or a zone-in is parked, no old position moves the player and no event is kicked at missing actors |
| `battle` | a player, an ally, 2 mobs, 2 orders, heals, drains, scripted sheathing, respawn, raise | `KillPaidOnce`, `BattleCompletesOnce`, `DeadAreForgotten`, `DeathsAreMarked`, `SheathedIsIdle` |
| `advancement` | 2 classes of 3 levels, 1 company of 2 ranks, 3 requests, 2 failures or process ends | `ProgressMirrored`: at rest the tables are the character. `NoFreeProgress`: the tables never stand for more experience than was granted. `PromotionIsPaid`: a rank costs its seals, and seals buy a rank |

`TypeOK` is checked in `world_sessions`, `events_core` and
`lobby_characters`; `Battle` and `Advancement` have theirs with the proofs.

One run is expected to be violated: in `life_duplicate_login` the new login's
SessionBegin is queued before the old one's SessionEnd, and the map server
ends the new session (`LiveSessionHasMapSession`), although a comment says
that a duplicate login supersedes the stale connection cleanly.

Other places where code and comments part are in the models, exempt from the
properties by a history variable, and listed as hazards with the quoted
comment: the event gate that resumes another event's coroutine, names that
count as taken only while reserved, stacks that a purchase fills past
`maxStack`, a leve paid again after a failed delete or a relogin that
comes before the delete, a linkshell call that `clear_data` takes from memory
alone though both columns are documented as persisted
(`actor/quest.rs:107`, `:112`), the markers an abandoned quest leaves, a
boundary crossed inside a private area though flips are "public by
construction" (`world_manager.rs:3506`), a caster locked onto a corpse, a
player sheathed by a script who "keeps resolving swings forever"
(`processor.rs:8524`), a promotion charged twice after a process end, a rank said to
reconcile at the next login.

### Bounds

- Two connections are enough for one to replace, evict or overtake another;
  two hellos let a connection resend, or use both channels. The safety
  results are proved for any number.
- Two links per endpoint give one loss and one reconnect. The last link
  stays up, which the liveness property needs and a longer history repeats.
- The queue depth of 2 makes senders block (the code has a deeper queue;
  blocking is what matters).
- Two coroutines are one that sleeps and one that displaces, signals or is
  purged. Bounding their number bounds the hooks run in a behaviour, not the
  resumes.
- Two rows and three connects suffice for two reservations, a reconnect with
  recovery, and a second MAKE.
- Four item rows hold a listing, the gil of buyer and owner and one stack; an
  `I32Max` of 3 is reached by two grants, so saturation and the unreadable
  balance occur.
- `quest_journal` and `map_zones` stop at the first disturbance
  (`Undisturbed`): what follows one is exempt. `map_zones` goes on after
  `unloaded`, of which `NeverStranded` still speaks; a player who logs in in a
  zone that is elsewhere never gets a zone-in, so with its commands used up
  the instance may stop, and deadlock is not checked. The programs of `quest_journal`
  are bounded by the steps that may be pending when a command is issued,
  which still lets a hook nest in a handler and the other task cut into both.
  One completion of its leve waits for payment at a time, so that a payment
  too many is seen at once.
  Those of `map_zones` are not bounded but by its three commands; one client
  message is under way at a time. The proofs need none of these bounds.
- No mob of `battle` is aggressive, as in every pool the repository seeds.
  With an aggressive one `DeadAreForgotten` is violated: the zone's copy of
  "alive" is never written after a spawn, so the mob turns on a dead player
  again (a hazard in `PROJECT.json`).
- Two mobs are enough for a battle to end by two deaths at once, and for a
  mob to turn from one to the other; two orders let the packet task kill and
  revive, or press and sheathe, inside a turn of the ticker.
- Three requests give a kill that crosses a gain, and enlist, earn, be
  promoted; two faults a failed call followed by a process end. Thresholds
  and costs are small numbers: rolling over one level, two levels, and the
  cap all happen.

### Fairness

- World server: every task that can take a step of its own takes one, as
  tokio polls ready tasks. The shutdown branch of the select is strongly
  fair because `select!` polls its branches in random order. The zone server
  answers. Clients, link losses and restarts are not forced.
- Event scripts: weak fairness of the ticker, which loops for ever, and
  strong fairness of the drain, because every pass of `tick_once` reaches
  `lua.tick()` whatever its combat step did before. The instance of
  `events_liveness` has scripts that send no signals: a script that signals
  itself in a loop holds the pass for ever, in the code as well.
- The lobby, items, quests, zones, battle and advancement have no liveness
  property: what must eventually happen there waits for a client or a script,
  which nothing forces.

## 4. Proofs

All theorems hold for any constants that satisfy the modules' named
assumptions: bounds are natural numbers, `None` is no element of the sets it
is added to, inputs are of the protocol, error code 1 is one a zone server
may reply with (`ReplyAssumption`: it is what the map server does reply), a
character loads or does not (`LoadAssumption`), no signal has the name of one of
the scheduler's own tags (`SignalsAssumption`), no quest has the name of the empty
journal slot and the tasks are finitely many (`JournalAssumption`), a battle has a mob
(`MobsAssumption`; with none, `BattleCompletesOnce` would ask for a report
of a battle nobody fights). Every inductive invariant below was checked by
TLC on the instance of its run before it was proved.

`WorldSessionsProofs`:

- `TypeCorrectness`. `TypeOK` is inductive because it ties the locals to the
  program counter: a task about to send holds a handle, one that evicts
  holds the old session. One lemma per group of steps.
- `NoDeadOwnerHolds`. Strengthened by `OwnerInv`: the owner of an entry has
  noted it, or is between `HelloAdd` and `HelloOwn`, or is leaving with the
  key still on its list. `EntryChange` says which steps change an entry.
- `ShutdownOnlyOnTakeoverHolds`. Strengthened by `EvictInv`: the victim of an
  eviction in progress claims the evictor's id; claims only grow.
- `PendingEndIsForDepartingHolds`. A departing connection stays departing
  (`DepartingStays`) until the record names somebody else.
- `EntryOutlivesStaleTeardownHolds`. An action property, from the same
  invariants and the compare-and-remove of `remove_if`.
- `RegisteredRouteIsBegunHolds`. `RouteInv` adds three facts. `SentInv`: a
  hello past its send, and a move about to set the route, have queued the
  SessionBegin of exactly that link. `KnownInv` and `BoundInv`: a session
  object is made by a hello that is over and is registered under one key;
  without them a reader that still holds an old object could be thought to
  set the route of a session that a hello is just building.
- `OwnershipRefined`: `Spec => ImplementsOwnership`. The mapping reads the
  life of a connection off its program counter, its holdings off the
  registry, and a revocation in progress off the reader that is about to
  remove the entry. Every action is shown to be a step of `SessionOwnership`
  or to leave the mapped state alone, from `OwnerInv` and `EvictInv`.

and, over `SessionLifecycle`, the world server with the repository's map
server:

- `CompositionImplementsWorld`: `LifeSpec => Spec`. `NoMoves`: the map server
  never asks for a zone move, so what it sends is among what `WorldSessions`
  expects of any map server. All the theorems above hold of the composition.
- `UncontestedSessionIsAttachedHolds`, when every character row loads
  (`CharacterLoads = {TRUE}`): a row that does not load leaves an accepted
  login with no session at the map server, by design of
  `build_player_actor_for_session`. `LinkInv`: links are opened one after the
  other and only the last is in use. `AttachInv`: for an id that one
  connection claims, the begin of its last link is queued, being handled, or
  done, and nothing behind it on that link ends the session.
- `NoGhostSessionHolds`, from the routed start, when every hello finds its
  character in the zone of one map server (`HelloZones = {z}`, any `z` of any
  number of servers). `GhostInv` reads a queue to its end: a map session that
  will be live once all that is queued is handled has an owner, a hello on
  its way to own it, or a teardown on its way to end it. Beyond the
  hypothesis the property is false, of the code too: a hello sent again whose
  row cannot be read, or names another server's zone, replaces the
  registered session by one without the earlier route, and the disconnect
  that follows sends the first map server no SessionEnd.

`EventScriptsProofs`:

- `TypeCorrectness`.
- `ScopeEndsWithDispatchHolds`. `ScopeInv` adds that a session end has closed
  every scope before it forgets the player it acts for.
- `SingleCustodyHolds`, `PurgedNeverResumesHolds`. The property counts places
  by cardinality; `CustodyInv` says the same pairwise (`OnePlace`), which the
  steps preserve one table at a time, and adds that what was purged is
  nowhere. A purge takes a coroutine from a table, so by its single custody
  no task holds it: that is why the two are proved together.

`LobbyCharactersProofs`: one inductive invariant `Inv` for
`LobbyTypeCorrectness`, `ScratchIsOwnHolds`, `ListedIsCompleteHolds` and
`MadeOnceHolds`. Its additions are `OneInDb` (one task inside
`make_character`), `Progress` (what the statements before the current one
have left), `ConfirmedHasParams` (a confirmed character has the keyed row,
which makes a second confirmation impossible) and `TaskShape`. One lemma
per action. `CrashLeavesOneHalfMadeHolds` bounds a cardinality by a counter:
`HalfInv` says that a half-made character, other than one whose class was
refused, is being written or is held by no session, so that only a process end can add one to the set, and the database
thread's mutual exclusion makes it one.

`BattleProofs`, over the programs of the ticker and the packet task:

- `TypeCorrectness` of the state and of every pending step.
- `RitesInv`: deaths are not nested. A task is in the middle of at most one
  burial, whose remaining steps come first and in the order of `apply_die`;
  only the ticker has rewards to pay. The next three rest on it.
- `KillPaidOnceHolds`. `KillInv`: a reward is pending only while unpaid, and
  while the packet task lays a mob out none is pending or paid for it, which
  is what a revival between the two tasks' burials could break.
- `DeathsAreMarkedHolds`. `DeathInv`: hit points and dead stance agree but
  for the one whose fall the ticker is settling.
- `BattleCompletesOnceHolds`. `CompleteInv`: when all mobs are dead the script
  was told or the news is under way; without a race, under way in one task.

- `SheathedIsIdleHolds`. `IdleInv`: the stance changes the ticker's
  turns ask for give a player no stance but the dead one (`TickerInv`), and a
  script's, on either task, makes it passive but marks it `unflushed` if it
  has a state or one is about to be pushed; whoever the packet task is about to make passive has
  dropped its states, and a push is the last thing it does (`PacketInv`); and,
  with no death or revival cut, players who are dead, being laid out or
  without a drawn weapon have no state, at every step and not only at rest,
  unless excused by a rental or a script (`RestInv`).

The first attempt at `TypeCorrectness` failed on `DoCombatTick` and
`Decisions`, whose `CASE` arms overlapped although the code tries its
conditions in order; they are now written in that order.

`AdvancementProofs`:

- `TypeCorrectness`. `RollOverFacts`: for any thresholds, rolling over leads
  to a level within the cap, never a lower one, and level and points
  together stand for no more experience than before.
- `PromotionIsPaidHolds`. `PaidInv`: a promotion about to take its seals finds
  them, because only the packet task takes any; what was taken exceeds what
  ranks cost by the promotion whose rank is still to be raised.
- `ProgressMirroredHolds`. At rest says nothing of the steps in between, so
  `MirrorInv` speaks of `Due`, the writes each task still has to do: all
  pending writes of a cell are one task's and write what memory holds, and
  a cell with no pending write is equal to memory. Levels and ranks have
  their own form, because a class change saves before it resets memory and
  an enlistment reads the rank again before it saves it.
- `NoFreeProgressHolds`. `FreeInv`, on top of `MirrorInv`: memory and table
  stand for no more than was granted, the table's level is not above
  memory's, and a level whose points are already written may be written.
  That the points are saved first is what makes it inductive.

`ItemTablesProofs`. The inductive invariant `ItemInv` has three parts:

- `HomeInv`: `OneHome`, every slot in use is below the next item id (so that
  `MAX(slot) + 1` is a free slot and stays within the types), and a character
  has one currency row at most, which is gil. Without the last, the balance
  that `purchase_retainer_bazaar_item` reads, a sum, would not bound the one
  row it debits; `NoDebtHolds` rests on it.
- `ReadInv`: the rows a removal has read are of its character and kind, or are
  gone; ids are never used again, so nobody else's item has such an id.
- `ExactInv`: for an undisturbed removal, the rows it read are the stacks there
  are, and taking what is still left from them leaves what is due.
  `UncontestedRemovalIsExactHolds` is the case where nothing is left to take.

The operations update sets and functions with long expressions, so each is
first brought to a *view* (`HarvestView`, `PurchaseView`, `RemoveView`):
which ids appear and go, and which quantities stay. The invariant is shown
from the views. `SaleConservesHolds` adds `SaleView`, the quantities after a
purchase by their amounts: the sum over the goods loses the listing and gains
the same in the buyer's stack, the sum over gil gains and loses the price, in
each of the cases where a row exists or has to be made.

`MapZonesProofs`, over programs of any length. Its basis is `Inv`: types, what an
online player has (`OnlineInv`), and `ShapeInv`, which steps can stand where in
a program. A handler that is called from a login hook puts its steps before
those of its caller, so a program nests; what can come first, and what follows
what, is still fixed (`ShapeAt`), and every later argument reads it from there.

- `TypeCorrectness`.
- `NeverStrandedHolds`. `StrandedInv`: a latched client has a zone-in *promised*
  by a pending step, or parked in the session, or its session names a zone
  that is not here. A step keeps the later ones (`Keeps`) and replaces a
  promise by a promise. `HereInv` gives that a session leaves such a zone only
  by a step that promises: a crossing starts from a zone that is here, and
  without `unloaded` only a login still to be placed names another.
- `InOnePlaceHolds`. `PlaceInv` says where the player is between steps: `Listed`
  (in the place the session names, unless a login waits to be placed or a
  crossing is half done), `Named` (the pending placement or crossing is of the
  session's own zone), `Registered` (the registry agrees, or the task that
  moved the player will tell it) and `Apart` (who has moved the player is
  alone with it).
- `HeldOffWhileReloadingHolds`. `OrderInv`: loads and client messages come in
  the order they were sent, and none is of a move to come. `Held`: a client
  whose actors were wiped has its session latched, a wipe is pending only
  behind its latch, no event is about to be kicked at a wiped client, and the
  latch is lifted only for a client that has loaded the last place, with no
  wipe under way. That a report let through comes from a client that has not
  been told to let go is `StrandedInv` again: nothing is parked or promised.

The last one corrected the model. The invariant TLC had accepted was not
inductive: an event decided before a wipe and sent after it, and an
acknowledgement of an earlier load, break the property, and the bounds on
pending steps and on messages had kept TLC from both. Both are in the code,
which decides a kick under one lock and sends it under none, and which cannot
tell which load an acknowledgement is for. They are now among the exemptions
(`Wiped`, the mark `acks`), and the bound on pending steps is gone.

`QuestJournalProofs`, over programs of any length. A handler that fires a hook
has the hook's commands put before its own remaining steps, so a program
nests; but every command leaves at most one write, one call about the
completed set and one payment, and they are done before anything that can
fire a hook. `ShapeInv` says so: writes and payments stand at the head of a
program, and a swap has its drain after it. The other parts then speak of what
each task is about to do (`RowWork`, `BitWork`, `PayWork`) and of the set
`Todo` of all that is pending:

- `TypeCorrectness`, with `ShapeInv`.
- `MemoryMirroredHolds`. `RowsGood`: a row differs from its journal entry only
  while a write of it is pending, in one task (`OneWriter`), and each pending
  write finds what it expects (`Finds`: the entry it saves is the one in memory,
  the row it changes is of the same quest). What makes this false is a second
  handler of the entry, and that is what `Overlap`, the exemption, records.
  The call in `cleared` is not in the induction: `journal` keeps it as the row
  does, and `InMemory` takes it away.
  `BitsGood`: one task at most has loaded the completed set and not saved it,
  and memory is what the table will be but for the change of a task that has
  still to load.
- `PaidOncePerCompletionHolds`, in the same induction. `PayGood`: there is a
  completion for each pending payment and one more for what journal or table
  record as completed and no pending step deletes. A process end between the
  deletion and the payment loses the payment; one before the deletion brings
  back a completion that was not paid for. A relogin after the deletion changes
  nothing of this; one before it loads the completed leve while its payment is
  pending, and is exempt (`LateTables`).
- `MarkersMatchHolds`. `MarkInv`: the client shows, or is about to be shown, the markers of both
  sets of a quest and what was left, and nothing more but what is about to be cleared; an old set is about to be drained;
  a quest out of the journal has neither set. For one quest this is `MarksOf`, over
  what is `Named` (both sets and what was left) and what is about to be shown or
  cleared; `MarksShift` is the one lemma all marker steps go through.

Numbers and sums. The library's induction theorems take an operator and cannot
be applied here, so `LeastNat` (in `AdvancementProofs` and `ItemTablesProofs`)
derives the least-element principle from `WFMin` and the well-foundedness of
`<`, and `Induct` states induction for a set of numbers. `SumIs` and `SumTake` of
`ItemTablesProofs` show from it that `SumFunction` of `Functions.tla` is a sum:
empty, it is 0, and any element can be taken out first. `TotalExists` and
`TotalIs` of `AdvancementProofs` do the same for the recursive function `Total`.

Only model-checked:

- liveness (`EvictedConnectionStops` and the other leads-to properties) and anything
  about ENABLED: the prover has no rules for them;
- `DeadAreForgotten` of `Battle`. It holds only without aggressive mobs, and an
  inductive form would need, for every pending hate or aim, whether it was
  decided before or after the death.

## 5. Plan

In order:

1. `DeadAreForgotten` of `Battle`, under an assumption that no mob is aggressive.
2. `DatabaseBoot`: four processes on one file, with a process end anywhere.
3. The Lua command queues of a cached VM shared by two tasks;
   `hoist_end_events_before_warps` as an operator against its specification.

## 6. Not modelled

- World groups: parties and linkshells change on packets that the map server
  never sends (their builders have no caller, the Lua methods are stubs).
- Guildleve directors: created by tests only. Regional leves, which the
  server does run, are in `QuestJournal`.
- Formulae (damage, experience, crafting), geometry, byte layouts, the
  cipher, packet wording, configuration and the web pages: data without
  control, or output only. They are most of the lines of the repository:
  the map of `PROJECT.json` covers about a tenth of them. The three largest
  files beside the ones modelled (`lua/userdata.rs`, `blowfish_tables.rs`,
  the packet builders) have no state to check, and large parts of
  `processor.rs` and `quest_apply.rs` send packets or set one column.
- The in-memory inventory packages are not reached by the running server.

`PROJECT.json` gives the reason for each component.
