-------------------------- MODULE LobbyCharacters --------------------------
(***************************************************************************)
(* The lobby server's character operations (lobby-server/src/server.rs,     *)
(* processor.rs, database.rs): every client connection is a task with a     *)
(* LobbySession of its own; all tasks share the characters tables.          *)
(*                                                                         *)
(* The database runs one closure at a time, on one thread, so a call_db is  *)
(* atomic for the other connections; but its statements are committed one   *)
(* by one, and the process can end between two of them.  make_character,    *)
(* the only closure with several writes, is therefore a step per statement, *)
(* during which no other connection reaches the database.                   *)
(*                                                                         *)
(* The client is the game's: it acknowledges its session once, before       *)
(* anything else, and leaves when the session is refused.  Everything after *)
(* that it may send in any order, from any number of connections.           *)
(***************************************************************************)
EXTENDS Naturals, Sequences, FiniteSets

CONSTANTS
  Conns,      \* client connections
  Users,      \* accounts
  Names,      \* character names
  Worlds,     \* the worlds of servers.toml
  None,       \* user, character or world 0, the empty name
  MaxRows,    \* bound: rows of the characters table
  MaxOpens,   \* bound: connects, counted over all connections
  MaxCrashes  \* bound: ends of the lobby process

ASSUME LobbyAssumption ==
  /\ None \notin Users \cup Names \cup Worlds \cup Nat
  /\ MaxRows \in Nat /\ MaxOpens \in Nat /\ MaxCrashes \in Nat

VARIABLES
  rows,     \* the characters table; a row's id is its position
  parts,    \* which rows of the other character tables exist, per id
  session,  \* LobbySession: the user and the reservation scratchpad
  pc,       \* where each connection's task stands
  req,      \* the request it handles; world and name as resolved so far
  made,     \* history: CMD_MAKE confirmed, per id
  refused,  \* history: ids whose class statement failed
  opens, crashes

vars == <<rows, parts, session, pc, req, made, refused, opens, crashes>>
tables == <<rows, parts, made, refused>>
counters == <<opens, crashes>>

Commands == {"reserve", "make", "rename", "delete", "rename_retainer"}
Parts    == {"appearance", "classes", "params", "hotbar"}
Request == [command : Commands, name : Names \cup {None},
             world : Worlds \cup {None}, cid : (1..MaxRows) \cup {None}]
MakePCs  == {"make_state", "make_appearance", "make_classes", "make_params", "make_hotbar"}
PCs      == {"closed", "unacked", "ready", "world", "recover", "run", "refuse"} \cup MakePCs

Reserved == 0
Deleted  == 1
Made     == 2
Row == [user : Users, name : Names, world : Worlds, state : {Reserved, Deleted, Made}]

NoSession == [user |-> None, cid |-> None, name |-> None, world |-> None]
NoRequest == [command |-> "rename_retainer", name |-> None, world |-> None, cid |-> None]

Init ==
  /\ rows = <<>>
  /\ parts = [i \in 1..MaxRows |-> {}]
  /\ session = [c \in Conns |-> NoSession]
  /\ pc = [c \in Conns |-> "closed"]
  /\ req = [c \in Conns |-> NoRequest]
  /\ made = [i \in 1..MaxRows |-> 0]
  /\ refused = {}
  /\ opens = 0 /\ crashes = 0
----------------------------------------------------------------------------
(* The tables (database.rs). *)

Ids == DOMAIN rows

\* Mutant: a database connection for each client.
DbUnshared(c) == TRUE

\* The database thread is not inside another connection's make_character.
DbFree(c) == \A d \in Conns \ {c} : pc[d] \notin MakePCs \ {"make_state"}

\* get_character: the INNER JOIN needs the parametersave row; any state will do.
Found(user, i) == i \in Ids /\ rows[i].user = user /\ "params" \in parts[i]

\* reserve_character refuses a name another reservation holds.
ReservedName(name, world) ==
  \E i \in Ids : rows[i].name = name /\ rows[i].world = world /\ rows[i].state = Reserved

\* rename_character refuses a name any row holds.
NameTaken(name, world) == \E i \in Ids : rows[i].name = name /\ rows[i].world = world

\* Mutant: not scoped to the user.
AnyReservations(user) == {i \in Ids : rows[i].state = Reserved}

\* get_reserved_character: the newest of the user's reservations.
Reservations(user) == {i \in Ids : rows[i].user = user /\ rows[i].state = Reserved}
IsNewest(i, S) == i \in S /\ \A j \in S : j <= i
----------------------------------------------------------------------------
(* The connection (server.rs, handle_session_ack). *)

Goto(c, where) == pc' = [pc EXCEPT ![c] = where]

Answered(c, where) == Goto(c, where) /\ req' = [req EXCEPT ![c] = NoRequest]

Open(c) ==
  /\ pc[c] = "closed" /\ opens < MaxOpens
  /\ opens' = opens + 1
  /\ session' = [session EXCEPT ![c] = NoSession]
  /\ Goto(c, "unacked")
  /\ UNCHANGED <<tables, req, crashes>>

\* An expired or unknown session id gives user 0 and an error reply.
SessionAck(c, user) ==
  /\ pc[c] = "unacked" /\ DbFree(c)
  /\ session' = [session EXCEPT ![c].user = user]
  /\ Goto(c, IF user = None THEN "unacked" ELSE "ready")
  /\ UNCHANGED <<tables, req, counters>>

\* The peer is gone: the task ends and its LobbySession with it.
Drop(c) ==
  /\ pc[c] \in {"unacked", "ready"}
  /\ Goto(c, "closed")
  /\ session' = [session EXCEPT ![c] = NoSession]
  /\ UNCHANGED <<tables, req, counters>>
----------------------------------------------------------------------------
(* handle_modify_character: resolve the world, recover a lost reservation,  *)
(* then run the command.  Each database call is an await.                   *)

\* should_recover_reservation
Recovers(command, world, s) ==
  command = "make" /\ (world = None \/ s.cid = None \/ s.name = None)

\* Mutant: a MAKE without a reservation goes on.
NeverMissing(s) == FALSE

\* reservation_missing
Missing(s) == s.cid = None \/ s.name = None

\* A world that is not listed ends the request with an error.
RunOrRefuse(world) == IF world = None THEN "refuse" ELSE "run"

AfterWorld(command, world, s) ==
  IF Recovers(command, world, s) THEN "recover" ELSE RunOrRefuse(world)

\* What clients send: a name with every command about one, and the id of the
\* character to rename or delete.  A world of 0 is left to the server.
Requests ==
  {r \in Request :
     /\ r.command \in {"reserve", "rename", "delete"} <=> r.name # None
     /\ r.command \in {"rename", "delete"} <=> r.cid # None}

Modify(c, r) ==
  /\ pc[c] = "ready"
  /\ LET world == IF r.world = None THEN session[c].world ELSE r.world
     IN  /\ req' = [req EXCEPT ![c] = [r EXCEPT !.world = world]]
         /\ Goto(c, IF world = None /\ r.cid # None THEN "world"
                    ELSE AfterWorld(r.command, world, session[c]))
  /\ UNCHANGED <<tables, session, counters>>

LookupWorld(c) ==
  /\ pc[c] = "world" /\ DbFree(c)
  /\ LET i == req[c].cid
         world == IF Found(session[c].user, i) THEN rows[i].world ELSE None
     IN  /\ req' = [req EXCEPT ![c].world = world]
         /\ Goto(c, AfterWorld(req[c].command, world, session[c]))
  /\ UNCHANGED <<tables, session, counters>>

Rehydrated(s, i) ==
  [s EXCEPT !.cid = i, !.name = rows[i].name, !.world = rows[i].world]

Recover(c) ==
  /\ pc[c] = "recover" /\ DbFree(c)
  /\ LET mine == Reservations(session[c].user)
     IN  \/ /\ mine = {}
            /\ Goto(c, RunOrRefuse(req[c].world))
            /\ UNCHANGED <<session, req>>
         \/ \E i \in mine :
              /\ IsNewest(i, mine)
              /\ session' = [session EXCEPT ![c] = Rehydrated(@, i)]
              /\ req' = [req EXCEPT ![c].world = rows[i].world, ![c].name = rows[i].name]
              /\ Goto(c, "run")
  /\ UNCHANGED <<tables, counters>>

Run(c, command) == pc[c] = "run" /\ req[c].command = command /\ DbFree(c)

Reserve(c) ==
  LET r == req[c]
      i == Len(rows) + 1
  IN
  /\ Run(c, "reserve")
  /\ IF ReservedName(r.name, r.world) THEN UNCHANGED <<rows, session>>
     ELSE /\ i <= MaxRows
          /\ rows' = Append(rows, [user |-> session[c].user, name |-> r.name,
                                   world |-> r.world, state |-> Reserved])
          /\ session' = [session EXCEPT ![c].cid = i, ![c].name = r.name,
                                        ![c].world = r.world]
  /\ Answered(c, "ready")
  /\ UNCHANGED <<parts, made, refused, counters>>

\* Only the user's own row is renamed.
Rename(c) ==
  LET r == req[c] IN
  /\ Run(c, "rename")
  /\ rows' = IF NameTaken(r.name, r.world) \/ r.cid \notin Ids THEN rows
             ELSE IF rows[r.cid].user # session[c].user THEN rows
             ELSE [rows EXCEPT ![r.cid].name = r.name]
  /\ Answered(c, "ready")
  /\ UNCHANGED <<parts, made, refused, session, counters>>

\* The soft delete: id, name and owner must match.
Delete(c) ==
  LET r == req[c] IN
  /\ Run(c, "delete")
  /\ rows' = IF r.cid \notin Ids THEN rows
             ELSE IF rows[r.cid].user # session[c].user \/ rows[r.cid].name # r.name THEN rows
             ELSE [rows EXCEPT ![r.cid].state = Deleted]
  /\ Answered(c, "ready")
  /\ UNCHANGED <<parts, made, refused, session, counters>>

\* "World Does not exist or is inactive."
Refuse(c) ==
  /\ pc[c] = "refuse"
  /\ Answered(c, "ready")
  /\ UNCHANGED <<tables, session, counters>>

\* Only a reply.
RenameRetainer(c) ==
  /\ Run(c, "rename_retainer")
  /\ Answered(c, "ready")
  /\ UNCHANGED <<tables, session, counters>>

Make(c) ==
  /\ Run(c, "make")
  /\ Answered(c, IF Missing(session[c]) THEN "ready" ELSE "make_state")
  /\ UNCHANGED <<tables, session, counters>>
----------------------------------------------------------------------------
(* make_character, statement by statement. *)

MakeState(c) ==
  LET i == session[c].cid IN
  /\ pc[c] = "make_state" /\ DbFree(c)
  /\ rows' = IF rows[i].user = session[c].user THEN [rows EXCEPT ![i].state = Made] ELSE rows
  /\ Goto(c, "make_appearance")
  /\ UNCHANGED <<parts, made, refused, session, req, counters>>

Insert(c, from, part, to) ==
  /\ pc[c] = from
  /\ parts' = [parts EXCEPT ![session[c].cid] = @ \cup {part}]
  /\ Goto(c, to)
  /\ UNCHANGED <<rows, made, refused, session, req, counters>>

\* Mutant: the character's look is left for later.
NoAppearance(c) ==
  /\ pc[c] = "make_appearance"
  /\ Goto(c, "make_classes")
  /\ UNCHANGED <<tables, session, req, counters>>

\* The appearance table has no key on the character: a repeated MAKE adds a row.
MakeAppearance(c) == Insert(c, "make_appearance", "appearance", "make_classes")

\* Class levels and experience: INSERT OR IGNORE.
MakeClasses(c) == Insert(c, "make_classes", "classes", "make_params")

\* A class the lobby does not know, and the client may send any, is named
\* "undefined": no such column, so the UPDATE fails and ends the connection.
\* The statements before stay.
ClassRefused(c) ==
  /\ pc[c] = "make_classes"
  /\ Goto(c, "closed")
  /\ session' = [session EXCEPT ![c] = NoSession]
  /\ refused' = refused \cup {session[c].cid}
  /\ UNCHANGED <<rows, parts, made, req, counters>>

\* Mutant: INSERT OR IGNORE here too.
NoConflict(i) == FALSE

\* The parametersave row is keyed by the character.
KeyConflict(i) == "params" \in parts[i]

MakeParams(c) ==
  /\ pc[c] = "make_params" /\ ~KeyConflict(session[c].cid)
  /\ Insert(c, "make_params", "params", "make_hotbar")

\* The insert fails: the error ends the connection, the statements before stay.
MakeFails(c) ==
  /\ pc[c] = "make_params" /\ KeyConflict(session[c].cid)
  /\ Goto(c, "closed")
  /\ session' = [session EXCEPT ![c] = NoSession]
  /\ UNCHANGED <<tables, req, counters>>

\* The reply confirms the character; the scratchpad is kept.
MakeHotbar(c) ==
  LET i == session[c].cid IN
  /\ pc[c] = "make_hotbar"
  /\ parts' = [parts EXCEPT ![i] = @ \cup {"hotbar"}]
  /\ made' = [made EXCEPT ![i] = @ + 1]
  /\ Goto(c, "ready")
  /\ UNCHANGED <<rows, refused, session, req, counters>>

\* The lobby process ends; what was committed stays.
Crash ==
  /\ crashes < MaxCrashes
  /\ crashes' = crashes + 1
  /\ pc' = [c \in Conns |-> "closed"]
  /\ session' = [c \in Conns |-> NoSession]
  /\ req' = [c \in Conns |-> NoRequest]
  /\ UNCHANGED <<tables, opens>>
----------------------------------------------------------------------------
Client(c) ==
  \/ Open(c) \/ Drop(c)
  \/ \E user \in Users \cup {None} : SessionAck(c, user)
  \/ \E r \in Requests : Modify(c, r)

MakeCharacter(c) ==
  \/ MakeState(c) \/ MakeAppearance(c) \/ MakeClasses(c) \/ ClassRefused(c)
  \/ MakeParams(c) \/ MakeFails(c) \/ MakeHotbar(c)

Handler(c) ==
  \/ LookupWorld(c) \/ Recover(c) \/ Refuse(c) \/ Reserve(c) \/ Rename(c) \/ Delete(c)
  \/ RenameRetainer(c) \/ Make(c) \/ MakeCharacter(c)

Next == Crash \/ \E c \in Conns : Client(c) \/ Handler(c)

Spec == Init /\ [][Next]_vars
----------------------------------------------------------------------------
LobbySession == [user : Users \cup {None}, cid : Ids \cup {None},
                 name : Names \cup {None}, world : Worlds \cup {None}]

\* The tables and the tasks' locals; a scratchpad points at a row that exists,
\* and make_character is only entered with one.
TypeOK ==
  /\ rows \in Seq(Row) /\ Len(rows) <= MaxRows
  /\ parts \in [1..MaxRows -> SUBSET Parts]
  /\ session \in [Conns -> LobbySession]
  /\ pc \in [Conns -> PCs]
  /\ req \in [Conns -> Request]
  /\ made \in [1..MaxRows -> Nat]
  /\ refused \subseteq 1..MaxRows
  /\ opens \in 0..MaxOpens /\ crashes \in 0..MaxCrashes
  /\ \A c \in Conns : pc[c] \in MakePCs => session[c].cid \in Ids

\* The reservation a LobbySession carries, reserved on this connection or
\* recovered after a reconnect, is a row of its own user: CMD_MAKE never
\* fills in another account's character.
ScratchIsOwn ==
  \A c \in Conns : session[c].cid # None => rows[session[c].cid].user = session[c].user

\* What get_characters and get_character can show has been made and has all
\* its rows but the hotbar, wherever the process ended: make_character writes
\* the row that makes a character visible after the others.
ListedIsComplete ==
  \A i \in Ids : "params" \in parts[i] =>
    rows[i].state # Reserved /\ {"appearance", "classes"} \subseteq parts[i]

\* A reservation is confirmed as made at most once, although the session that
\* reserved it and one that recovered it can both send CMD_MAKE.
MadeOnce == \A i \in Ids : made[i] <= 1

\* A character left half made (not a reservation any more, so that no retry
\* recovers it, and never listed) is the price of a process end, and one process
\* end leaves at most one.  Not counted are the characters made with a class the
\* lobby does not know: each is left half made with no process end at all.
HalfMade ==
  {i \in Ids : /\ rows[i].state = Made /\ "params" \notin parts[i]
               /\ \A c \in Conns : pc[c] \in MakePCs => session[c].cid # i}
CrashLeavesOneHalfMade == Cardinality(HalfMade \ refused) <= crashes
=============================================================================
