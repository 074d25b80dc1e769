----------------------- MODULE LobbyCharactersProofs -----------------------
(***************************************************************************)
(* The character tables of LobbyCharacters are consistent for any number of *)
(* connections, accounts, names, worlds, rows and process ends.             *)
(***************************************************************************)
EXTENDS LobbyCharacters, FiniteSetTheorems, TLAPS

\* A task inside make_character has the database thread to itself.
InDb(c) == pc[c] \in MakePCs \ {"make_state"}
OneInDb == \A c, d \in Conns : InDb(c) /\ InDb(d) => c = d

\* What the statements before the current one have left behind.
Progress ==
  \A c \in Conns :
    LET i == session[c].cid IN
    /\ InDb(c) => rows[i].state # Reserved
    /\ pc[c] \in {"make_classes", "make_params", "make_hotbar"} => "appearance" \in parts[i]
    /\ pc[c] \in {"make_params", "make_hotbar"} => "classes" \in parts[i]
    /\ pc[c] = "make_hotbar" => "params" \in parts[i] /\ made[i] = 0

\* A confirmed character has its parametersave row, and only a character has
\* rows in the other tables.
ConfirmedHasParams ==
  \A i \in 1..MaxRows : /\ made[i] > 0 => "params" \in parts[i]
                        /\ parts[i] # {} => i \in Ids

\* A task between requests, or with no user, handles none.
TaskShape ==
  \A c \in Conns :
    /\ pc[c] \in {"ready", "world", "recover", "run", "refuse"} \cup MakePCs
         => session[c].user \in Users
    /\ pc[c] \in {"unacked", "closed"} => session[c].cid = None
    /\ pc[c] = "run" => req[c].world \in Worlds
    /\ req[c].command \in {"reserve", "rename"} => req[c].name \in Names

Inv == /\ TypeOK /\ OneInDb /\ ScratchIsOwn /\ Progress /\ ListedIsComplete
       /\ ConfirmedHasParams /\ MadeOnce /\ TaskShape
----------------------------------------------------------------------------
(* Tables as sequences of rows: what an update and an insert leave.         *)

\* An updated row, and the rows beside it.
LEMMA RowUpdate ==
  ASSUME NEW s \in Seq(Row), NEW i \in DOMAIN s, NEW r \in Row
  PROVE  LET t == [s EXCEPT ![i] = r] IN
         /\ t \in Seq(Row) /\ Len(t) = Len(s) /\ DOMAIN t = DOMAIN s
         /\ t[i] = r /\ \A j \in DOMAIN s \ {i} : t[j] = s[j]
  OBVIOUS

\* The types of the fields of a row.
LEMMA RowFields ==
  ASSUME TypeOK
  PROVE  \A i \in Ids : /\ rows[i] \in Row /\ rows[i].name \in Names
                        /\ rows[i].world \in Worlds /\ rows[i].user \in Users
<1>1. rows \in Seq(Row)
  BY DEF TypeOK
<1>2. \A i \in Ids : rows[i] \in Row
  BY <1>1 DEF Ids
<1> QED BY <1>2 DEF Row

\* An inserted row, and the rows before it.
LEMMA RowInsert ==
  ASSUME NEW s \in Seq(Row), NEW r \in Row
  PROVE  LET t == Append(s, r) IN
         /\ t \in Seq(Row) /\ Len(t) = Len(s) + 1
         /\ DOMAIN t = DOMAIN s \cup {Len(s) + 1} /\ Len(s) + 1 \notin DOMAIN s
         /\ t[Len(s) + 1] = r /\ \A j \in DOMAIN s : t[j] = s[j]
  OBVIOUS

\* A client connects.
LEMMA OpenStep ==
  ASSUME Inv, NEW c \in Conns, Open(c)
  PROVE  Inv'
<1> USE LobbyAssumption DEF Inv, Open, Goto, tables, counters
<1>1. TypeOK'
  BY DEF TypeOK, LobbySession, Ids, Row, Request, PCs, MakePCs, Parts, Commands,
     NoSession, NoRequest
<1>2. OneInDb'
  BY DEF TypeOK, OneInDb, InDb, MakePCs
<1>3. ScratchIsOwn'
  BY DEF TypeOK, LobbySession, Ids, Row, ScratchIsOwn, NoSession, MakePCs, TaskShape
<1>4. Progress'
  BY DEF TypeOK, LobbySession, Ids, Row, Progress, OneInDb, InDb, MakePCs,
     ScratchIsOwn, ListedIsComplete, ConfirmedHasParams, Reserved, Deleted, Made
<1>5. ListedIsComplete' /\ ConfirmedHasParams' /\ MadeOnce'
  BY DEF ListedIsComplete, ConfirmedHasParams, MadeOnce, Ids
<1>6. TaskShape'
  BY DEF TypeOK, TaskShape, Request, LobbySession, NoSession, NoRequest, MakePCs
<1> QED BY <1>1, <1>2, <1>3, <1>4, <1>5, <1>6

\* A session is acknowledged, or refused.
LEMMA SessionAckStep ==
  ASSUME Inv, NEW c \in Conns, NEW user \in Users \cup {None}, SessionAck(c, user)
  PROVE  Inv'
<1> USE LobbyAssumption DEF Inv, SessionAck, Goto, tables, counters
<1>1. TypeOK'
  <2>1. [session[c] EXCEPT !.user = user] \in LobbySession
    BY DEF TypeOK, LobbySession, Ids
  <2>2. session' \in [Conns -> LobbySession]
    BY <2>1 DEF TypeOK
  <2> QED BY <2>2 DEF TypeOK, LobbySession, Ids, PCs, MakePCs
<1>2. OneInDb'
  BY DEF TypeOK, OneInDb, InDb, MakePCs
<1>3. ScratchIsOwn'
  BY DEF TypeOK, LobbySession, Ids, Row, ScratchIsOwn, NoSession, MakePCs, TaskShape
<1>4. Progress'
  BY DEF TypeOK, LobbySession, Ids, Row, Progress, OneInDb, InDb, MakePCs,
     ScratchIsOwn, ListedIsComplete, ConfirmedHasParams, Reserved, Deleted, Made
<1>5. ListedIsComplete' /\ ConfirmedHasParams' /\ MadeOnce'
  BY DEF ListedIsComplete, ConfirmedHasParams, MadeOnce, Ids
<1>6. TaskShape'
  BY DEF TypeOK, TaskShape, Request, LobbySession, NoSession, NoRequest, MakePCs
<1> QED BY <1>1, <1>2, <1>3, <1>4, <1>5, <1>6

\* A connection ends.
LEMMA DropStep ==
  ASSUME Inv, NEW c \in Conns, Drop(c)
  PROVE  Inv'
<1> USE LobbyAssumption DEF Inv, Drop, Goto, tables, counters
<1>1. TypeOK'
  BY DEF TypeOK, LobbySession, Ids, Row, Request, PCs, MakePCs, Parts, Commands,
     NoSession, NoRequest
<1>2. OneInDb'
  BY DEF TypeOK, OneInDb, InDb, MakePCs
<1>3. ScratchIsOwn'
  BY DEF TypeOK, LobbySession, Ids, Row, ScratchIsOwn, NoSession, MakePCs, TaskShape
<1>4. Progress'
  BY DEF TypeOK, LobbySession, Ids, Row, Progress, OneInDb, InDb, MakePCs,
     ScratchIsOwn, ListedIsComplete, ConfirmedHasParams, Reserved, Deleted, Made
<1>5. ListedIsComplete' /\ ConfirmedHasParams' /\ MadeOnce'
  BY DEF ListedIsComplete, ConfirmedHasParams, MadeOnce, Ids
<1>6. TaskShape'
  BY DEF TypeOK, TaskShape, Request, LobbySession, NoSession, NoRequest, MakePCs
<1> QED BY <1>1, <1>2, <1>3, <1>4, <1>5, <1>6

\* A character request arrives.
LEMMA ModifyStep ==
  ASSUME Inv, NEW c \in Conns, NEW r \in Requests, Modify(c, r)
  PROVE  Inv'
<1> USE LobbyAssumption DEF Inv, Modify, AfterWorld, Recovers, RunOrRefuse,
       Requests, Goto, tables, counters
<1>1. TypeOK'
  <2>1. session[c].world \in Worlds \cup {None}
    BY DEF TypeOK, LobbySession
  <2>2. [r EXCEPT !.world = IF r.world = None THEN session[c].world ELSE r.world] \in Request
    BY <2>1 DEF Requests, Request
  <2>3. req' \in [Conns -> Request]
    BY <2>2 DEF TypeOK
  <2>4. pc' \in [Conns -> PCs] /\ pc'[c] \notin MakePCs
    BY DEF TypeOK, PCs, MakePCs
  <2> QED BY <2>3, <2>4 DEF TypeOK, LobbySession, Ids
<1>2. OneInDb'
  BY DEF TypeOK, OneInDb, InDb, MakePCs
<1>3. ScratchIsOwn'
  BY DEF TypeOK, LobbySession, Ids, Row, ScratchIsOwn, NoSession, MakePCs, TaskShape
<1>4. Progress'
  BY DEF TypeOK, LobbySession, Ids, Row, Progress, OneInDb, InDb, MakePCs,
     ScratchIsOwn, ListedIsComplete, ConfirmedHasParams, Reserved, Deleted, Made
<1>5. ListedIsComplete' /\ ConfirmedHasParams' /\ MadeOnce'
  BY DEF ListedIsComplete, ConfirmedHasParams, MadeOnce, Ids
<1>6. TaskShape'
  BY DEF TypeOK, TaskShape, Request, LobbySession, NoSession, NoRequest, MakePCs
<1> QED BY <1>1, <1>2, <1>3, <1>4, <1>5, <1>6

\* The world of a reservation is looked up.
LEMMA LookupWorldStep ==
  ASSUME Inv, NEW c \in Conns, LookupWorld(c)
  PROVE  Inv'
<1> USE LobbyAssumption DEF Inv, LookupWorld, AfterWorld, Recovers, RunOrRefuse,
       Goto, tables, counters
<1> DEFINE world == IF Found(session[c].user, req[c].cid) THEN rows[req[c].cid].world ELSE None
<1>a. world \in Worlds \cup {None}
  BY RowFields DEF Found
<1>b. req' = [req EXCEPT ![c] = [req[c] EXCEPT !.world = world]]
  BY DEF TypeOK
<1>c. pc' = [pc EXCEPT ![c] = AfterWorld(req[c].command, world, session[c])]
  OBVIOUS
<1> HIDE DEF world
<1>1. TypeOK'
  <2>1. [req[c] EXCEPT !.world = world] \in Request
    BY <1>a DEF TypeOK, Request
  <2>2. req' \in [Conns -> Request]
    BY <1>b, <2>1 DEF TypeOK
  <2>3. pc' \in [Conns -> PCs] /\ pc'[c] \notin MakePCs
    BY <1>c DEF TypeOK, PCs, MakePCs
  <2> QED BY <2>2, <2>3 DEF TypeOK, LobbySession, Ids
<1>2. OneInDb'
  BY DEF TypeOK, OneInDb, InDb, MakePCs
<1>3. ScratchIsOwn'
  BY DEF TypeOK, LobbySession, Ids, Row, ScratchIsOwn, NoSession, MakePCs, TaskShape
<1>4. Progress'
  BY DEF TypeOK, LobbySession, Ids, Row, Progress, OneInDb, InDb, MakePCs,
     ScratchIsOwn, ListedIsComplete, ConfirmedHasParams, Reserved, Deleted, Made
<1>5. ListedIsComplete' /\ ConfirmedHasParams' /\ MadeOnce'
  BY DEF ListedIsComplete, ConfirmedHasParams, MadeOnce, Ids
<1>6. TaskShape'
  <2>1. req'[c].world = world /\ req'[c].command = req[c].command /\ req'[c].name = req[c].name
    BY <1>b DEF TypeOK, Request
  <2>2. pc'[c] = "run" => world \in Worlds
    BY <1>a, <1>c DEF TypeOK
  <2> QED BY <1>b, <1>c, <2>1, <2>2 DEF TaskShape, TypeOK, PCs, MakePCs
<1> QED BY <1>1, <1>2, <1>3, <1>4, <1>5, <1>6

\* A reservation of before is taken up again.
LEMMA RecoverStep ==
  ASSUME Inv, NEW c \in Conns, Recover(c)
  PROVE  Inv'
<1> USE LobbyAssumption DEF Inv, Recover, RunOrRefuse, Goto, tables, counters
<1> DEFINE mine == Reservations(session[c].user)
<1>a. CASE mine = {} /\ UNCHANGED <<session, req>>
  <2>1. /\ pc' = [pc EXCEPT ![c] = RunOrRefuse(req[c].world)]
        /\ RunOrRefuse(req[c].world) \in {"run", "refuse"}
        /\ RunOrRefuse(req[c].world) = "run" => req[c].world \in Worlds
    BY <1>a DEF TypeOK, Request, Reservations
  <2> QED BY <1>a, <2>1 DEF InDb, OneInDb, ScratchIsOwn, Progress, ListedIsComplete,
       ConfirmedHasParams, MadeOnce, TaskShape, TypeOK, LobbySession, Ids, Row,
       Request, PCs, MakePCs, Parts, Commands, NoSession, NoRequest, Reserved,
       Deleted, Made
<1>b. CASE mine # {}
  <2>1. PICK i \in mine :
          /\ session' = [session EXCEPT ![c] = Rehydrated(@, i)]
          /\ req' = [req EXCEPT ![c].world = rows[i].world, ![c].name = rows[i].name]
          /\ pc' = [pc EXCEPT ![c] = "run"]
    BY <1>b
  <2> HIDE DEF Recover
  <2>2. /\ i \in Ids /\ rows[i].user = session[c].user /\ rows[i] \in Row
        /\ rows[i].world \in Worlds /\ rows[i].name \in Names
    BY RowFields DEF Reservations
  <2>3. /\ Rehydrated(session[c], i) \in LobbySession
        /\ Rehydrated(session[c], i).cid = i
        /\ Rehydrated(session[c], i).user = session[c].user
    BY <2>2 DEF TypeOK, LobbySession, Rehydrated, Row, Ids
  <2>4. /\ req'[c] \in Request /\ req'[c].world \in Worlds /\ req'[c].name \in Names
        /\ req'[c].command = req[c].command
        /\ \A d \in Conns \ {c} : req'[d] = req[d]
        /\ req' \in [Conns -> Request]
    <3>1. [[req[c] EXCEPT !.world = rows[i].world] EXCEPT !.name = rows[i].name] \in Request
      BY <2>2, ZenonT(60) DEF TypeOK, Request
    <3>2. req' = [req EXCEPT ![c] = [[req[c] EXCEPT !.world = rows[i].world]
                                        EXCEPT !.name = rows[i].name]]
      BY <2>1 DEF TypeOK
    <3> QED BY <2>2, <3>1, <3>2 DEF TypeOK, Request
  <2>5. /\ session'[c] \in LobbySession /\ session'[c].cid = i
        /\ session'[c].user = session[c].user
        /\ \A d \in Conns \ {c} : session'[d] = session[d]
        /\ session' \in [Conns -> LobbySession]
    BY <2>1, <2>3 DEF TypeOK
  <2>6. UNCHANGED <<rows, parts, made, refused, opens, crashes>> /\ pc[c] = "recover"
    BY DEF Recover
  <2> HIDE DEF mine
  <2>7. TypeOK'
    BY <2>1, <2>4, <2>5, <2>6 DEF TypeOK, LobbySession, Ids, PCs, MakePCs
  <2>8. OneInDb' /\ Progress'
    BY <2>1, <2>5, <2>6 DEF TypeOK, OneInDb, Progress, InDb, MakePCs
  <2>9. ScratchIsOwn'
    BY <2>2, <2>5, <2>6 DEF TypeOK, ScratchIsOwn
  <2>10. ListedIsComplete' /\ ConfirmedHasParams' /\ MadeOnce'
    BY <2>6 DEF ListedIsComplete, ConfirmedHasParams, MadeOnce, Ids
  <2>11. TaskShape'
    BY <2>1, <2>4, <2>5, <2>6 DEF TypeOK, TaskShape, MakePCs
  <2> QED BY <2>7, <2>8, <2>9, <2>10, <2>11
<1> QED BY <1>a, <1>b

\* A name is reserved.
LEMMA ReserveStep ==
  ASSUME Inv, NEW c \in Conns, Reserve(c)
  PROVE  Inv'
<1> USE LobbyAssumption DEF Inv, Reserve, Run, Answered, Goto, tables, counters
<1> DEFINE i == Len(rows) + 1
           new == [user |-> session[c].user, name |-> req[c].name,
                   world |-> req[c].world, state |-> Reserved]
<1>a. CASE UNCHANGED <<rows, session>>
  BY <1>a DEF InDb, OneInDb, ScratchIsOwn, Progress, ListedIsComplete,
       ConfirmedHasParams, MadeOnce, TaskShape, TypeOK, LobbySession, Ids, Row,
       Request, PCs, MakePCs, Parts, Commands, NoSession, NoRequest, Reserved,
       Deleted, Made
<1>b. CASE /\ i <= MaxRows
           /\ rows' = Append(rows, new)
           /\ session' = [session EXCEPT ![c].cid = i, ![c].name = req[c].name,
                                         ![c].world = req[c].world]
  <2>1. new \in Row
    BY DEF TaskShape, Row, Reserved
  <2>2. /\ rows' \in Seq(Row) /\ Len(rows') = i
        /\ Ids' = Ids \cup {i} /\ i \notin Ids /\ i \in 1..MaxRows
        /\ rows'[i] = new /\ \A j \in Ids : rows'[j] = rows[j]
    BY <1>b, <2>1, RowInsert DEF TypeOK, Ids
  <2>3. session'[c] \in [user : Users \cup {None}, cid : Ids' \cup {None},
                         name : Names \cup {None}, world : Worlds \cup {None}]
        /\ session'[c].cid = i /\ session'[c].user = session[c].user
        /\ session' \in [Conns -> LobbySession']
        /\ \A d \in Conns \ {c} : session'[d] = session[d]
    <3> DEFINE s == [[[session[c] EXCEPT !.cid = i] EXCEPT !.name = req[c].name]
                        EXCEPT !.world = req[c].world]
    <3>0. /\ session[c] \in LobbySession /\ i \in Ids'
          /\ req[c].name \in Names /\ req[c].world \in Worlds
      BY <2>2 DEF TypeOK, TaskShape
    <3>1. s \in LobbySession' /\ s.cid = i /\ s.user = session[c].user
      <4> HIDE DEF Reserve, i
      <4> QED BY <3>0 DEF LobbySession
    <3>2. session' = [session EXCEPT ![c] = s]
      BY <1>b DEF TypeOK
    <3>3. \A d \in Conns : session[d] \in LobbySession'
      BY <2>2 DEF TypeOK, LobbySession
    <3> HIDE DEF s
    <3>4. session' \in [Conns -> LobbySession'] /\ session'[c] = s
      BY <3>1, <3>2, <3>3 DEF TypeOK
    <3> QED BY <3>1, <3>2, <3>4 DEF LobbySession, TypeOK
  <2>4. /\ pc' = [pc EXCEPT ![c] = "ready"] /\ pc[c] = "run"
        /\ req' = [req EXCEPT ![c] = NoRequest]
        /\ UNCHANGED <<parts, made, refused, opens, crashes>>
    OBVIOUS
  <2>5. new.user = session[c].user
    OBVIOUS
  <2> HIDE DEF Reserve, i, new
  <2>6. TypeOK'
    BY <2>2, <2>3, <2>4 DEF TypeOK, PCs, MakePCs, Request, NoRequest, Commands
  <2>7. OneInDb'
    BY <2>4 DEF TypeOK, OneInDb, InDb, MakePCs
  <2>7a. Progress'
    <3> SUFFICES ASSUME NEW d \in Conns
                 PROVE  Progress!(d)'
      BY DEF Progress
    <3> QED BY <2>2, <2>3, <2>4 DEF TypeOK, Progress, InDb, MakePCs
  <2>8. ScratchIsOwn'
    <3> SUFFICES ASSUME NEW d \in Conns, session'[d].cid # None
                 PROVE  rows'[session'[d].cid].user = session'[d].user
      BY DEF ScratchIsOwn
    <3>1. CASE d = c
      BY <3>1, <2>2, <2>3, <2>5
    <3>2. CASE d # c
      <4>1. session'[d] = session[d] /\ session[d].cid \in Ids
        BY <3>2, <2>3 DEF TypeOK, LobbySession
      <4> QED BY <4>1, <2>2 DEF ScratchIsOwn
    <3> QED BY <3>1, <3>2
  <2>9. "params" \notin parts[i] /\ made[i] = 0
    <3>1. i \in 1..MaxRows /\ i \notin Ids /\ made[i] \in Nat
      BY <2>2 DEF TypeOK
    <3> QED BY <3>1 DEF ConfirmedHasParams
  <2>10. ListedIsComplete' /\ ConfirmedHasParams' /\ MadeOnce'
    BY <2>2, <2>4, <2>9, SMTT(60) DEF ListedIsComplete, ConfirmedHasParams, MadeOnce
  <2>11. TaskShape'
    BY <2>3, <2>4 DEF TypeOK, TaskShape, MakePCs, NoRequest
  <2> QED BY <2>6, <2>7, <2>7a, <2>8, <2>10, <2>11
<1> QED BY <1>a, <1>b

\* A character is renamed.
LEMMA RenameStep ==
  ASSUME Inv, NEW c \in Conns, Rename(c)
  PROVE  Inv'
<1> USE LobbyAssumption DEF Inv, Rename, Run, Answered, Goto, tables, counters
<1>1. TypeOK'
  <2>1. req[c].cid \in Ids => [rows[req[c].cid] EXCEPT !.name = req[c].name] \in Row
    BY RowFields DEF Row, TaskShape, Reserved, Deleted, Made
  <2>2. \/ rows' = rows
        \/ req[c].cid \in Ids /\ rows' = [rows EXCEPT ![req[c].cid] = [rows[req[c].cid] EXCEPT !.name = req[c].name]]
    BY DEF TypeOK, MakePCs
  <2> HIDE DEF Rename
  <2>3. rows' \in Seq(Row) /\ Len(rows') = Len(rows) /\ Ids' = Ids
    <3>1. CASE rows' = rows
      BY <3>1 DEF TypeOK, Ids
    <3>2. CASE rows' # rows
      <4> DEFINE row == [rows[req[c].cid] EXCEPT !.name = req[c].name]
      <4>1. /\ rows \in Seq(Row) /\ req[c].cid \in DOMAIN rows /\ row \in Row
            /\ rows' = [rows EXCEPT ![req[c].cid] = row]
        BY <3>2, <2>1, <2>2 DEF TypeOK, Ids
      <4> HIDE DEF row
      <4> QED BY <4>1, RowUpdate DEF Ids
    <3> QED BY <3>1, <3>2
  <2> QED BY <2>3 DEF Rename, TypeOK, LobbySession, Request, PCs, MakePCs,
       NoRequest, Commands
<1>2. OneInDb'
  BY DEF TypeOK, OneInDb, InDb, MakePCs
<1>3. ScratchIsOwn'
  BY DEF TypeOK, LobbySession, Ids, Row, ScratchIsOwn, NoSession, MakePCs, TaskShape
<1>4. Progress'
  BY DEF TypeOK, LobbySession, Ids, Row, Progress, OneInDb, InDb, MakePCs,
     ScratchIsOwn, ListedIsComplete, ConfirmedHasParams, Reserved, Deleted, Made
<1>5. ListedIsComplete'
  BY DEF TypeOK, LobbySession, Ids, ListedIsComplete, Progress, InDb, MakePCs,
     Reserved, Deleted, Made
<1>6. ConfirmedHasParams'
  BY DEF TypeOK, LobbySession, Ids, ConfirmedHasParams, Progress, InDb, MakePCs
<1>7. MadeOnce'
  BY DEF TypeOK, LobbySession, Ids, MadeOnce, Progress, InDb, MakePCs
<1>8. TaskShape'
  BY DEF TypeOK, TaskShape, Request, LobbySession, NoSession, NoRequest, MakePCs
<1> QED BY <1>1, <1>2, <1>3, <1>4, <1>5, <1>6, <1>7, <1>8

\* A character is deleted.
LEMMA DeleteStep ==
  ASSUME Inv, NEW c \in Conns, Delete(c)
  PROVE  Inv'
<1> USE LobbyAssumption DEF Inv, Delete, Run, Answered, Goto, tables, counters
<1>1. TypeOK'
  <2>1. req[c].cid \in Ids => [rows[req[c].cid] EXCEPT !.state = Deleted] \in Row
    BY RowFields DEF Row, TaskShape, Reserved, Deleted, Made
  <2>2. \/ rows' = rows
        \/ req[c].cid \in Ids /\ rows' = [rows EXCEPT ![req[c].cid] = [rows[req[c].cid] EXCEPT !.state = Deleted]]
    BY DEF TypeOK, MakePCs
  <2> HIDE DEF Delete
  <2>3. rows' \in Seq(Row) /\ Len(rows') = Len(rows) /\ Ids' = Ids
    <3>1. CASE rows' = rows
      BY <3>1 DEF TypeOK, Ids
    <3>2. CASE rows' # rows
      <4> DEFINE row == [rows[req[c].cid] EXCEPT !.state = Deleted]
      <4>1. /\ rows \in Seq(Row) /\ req[c].cid \in DOMAIN rows /\ row \in Row
            /\ rows' = [rows EXCEPT ![req[c].cid] = row]
        BY <3>2, <2>1, <2>2 DEF TypeOK, Ids
      <4> HIDE DEF row
      <4> QED BY <4>1, RowUpdate DEF Ids
    <3> QED BY <3>1, <3>2
  <2> QED BY <2>3 DEF Delete, TypeOK, LobbySession, Request, PCs, MakePCs,
       NoRequest, Commands
<1>2. OneInDb'
  BY DEF TypeOK, OneInDb, InDb, MakePCs
<1>3. ScratchIsOwn'
  BY DEF TypeOK, LobbySession, Ids, Row, ScratchIsOwn, NoSession, MakePCs, TaskShape
<1>4. Progress'
  BY DEF TypeOK, LobbySession, Ids, Row, Progress, OneInDb, InDb, MakePCs,
     ScratchIsOwn, ListedIsComplete, ConfirmedHasParams, Reserved, Deleted, Made
<1>5. ListedIsComplete'
  BY DEF TypeOK, LobbySession, Ids, ListedIsComplete, Progress, InDb, MakePCs,
     Reserved, Deleted, Made
<1>6. ConfirmedHasParams'
  BY DEF TypeOK, LobbySession, Ids, ConfirmedHasParams, Progress, InDb, MakePCs
<1>7. MadeOnce'
  BY DEF TypeOK, LobbySession, Ids, MadeOnce, Progress, InDb, MakePCs
<1>8. TaskShape'
  BY DEF TypeOK, TaskShape, Request, LobbySession, NoSession, NoRequest, MakePCs
<1> QED BY <1>1, <1>2, <1>3, <1>4, <1>5, <1>6, <1>7, <1>8

\* A request is refused.
LEMMA RefuseStep ==
  ASSUME Inv, NEW c \in Conns, Refuse(c)
  PROVE  Inv'
<1> USE LobbyAssumption DEF Inv, Refuse, Answered, Goto, tables, counters
<1>1. TypeOK'
  BY DEF TypeOK, LobbySession, Ids, Row, Request, PCs, MakePCs, Parts, Commands,
     NoSession, NoRequest
<1>2. OneInDb'
  BY DEF TypeOK, OneInDb, InDb, MakePCs
<1>3. ScratchIsOwn'
  BY DEF TypeOK, LobbySession, Ids, Row, ScratchIsOwn, NoSession, MakePCs, TaskShape
<1>4. Progress'
  BY DEF TypeOK, LobbySession, Ids, Row, Progress, OneInDb, InDb, MakePCs,
     ScratchIsOwn, ListedIsComplete, ConfirmedHasParams, Reserved, Deleted, Made
<1>5. ListedIsComplete' /\ ConfirmedHasParams' /\ MadeOnce'
  BY DEF ListedIsComplete, ConfirmedHasParams, MadeOnce, Ids
<1>6. TaskShape'
  BY DEF TypeOK, TaskShape, Request, LobbySession, NoSession, NoRequest, MakePCs
<1> QED BY <1>1, <1>2, <1>3, <1>4, <1>5, <1>6

\* A retainer is renamed.
LEMMA RenameRetainerStep ==
  ASSUME Inv, NEW c \in Conns, RenameRetainer(c)
  PROVE  Inv'
<1> USE LobbyAssumption DEF Inv, RenameRetainer, Run, Answered, Goto, tables,
       counters
<1>1. TypeOK'
  BY DEF TypeOK, LobbySession, Ids, Row, Request, PCs, MakePCs, Parts, Commands,
     NoSession, NoRequest
<1>2. OneInDb'
  BY DEF TypeOK, OneInDb, InDb, MakePCs
<1>3. ScratchIsOwn'
  BY DEF TypeOK, LobbySession, Ids, Row, ScratchIsOwn, NoSession, MakePCs, TaskShape
<1>4. Progress'
  BY DEF TypeOK, LobbySession, Ids, Row, Progress, OneInDb, InDb, MakePCs,
     ScratchIsOwn, ListedIsComplete, ConfirmedHasParams, Reserved, Deleted, Made
<1>5. ListedIsComplete' /\ ConfirmedHasParams' /\ MadeOnce'
  BY DEF ListedIsComplete, ConfirmedHasParams, MadeOnce, Ids
<1>6. TaskShape'
  BY DEF TypeOK, TaskShape, Request, LobbySession, NoSession, NoRequest, MakePCs
<1> QED BY <1>1, <1>2, <1>3, <1>4, <1>5, <1>6

\* A MAKE request is refused without a reservation, else make_character begins.
LEMMA MakeStep ==
  ASSUME Inv, NEW c \in Conns, Make(c)
  PROVE  Inv'
<1> USE LobbyAssumption DEF Inv, Make, Run, Missing, Answered, Goto, tables,
       counters
<1>1. TypeOK'
  BY DEF TypeOK, LobbySession, Ids, Row, Request, PCs, MakePCs, Parts, Commands,
     NoSession, NoRequest
<1>2. OneInDb'
  BY DEF TypeOK, OneInDb, InDb, MakePCs
<1>3. ScratchIsOwn'
  BY DEF TypeOK, LobbySession, Ids, Row, ScratchIsOwn, NoSession, MakePCs, TaskShape
<1>4. Progress'
  BY DEF TypeOK, LobbySession, Ids, Row, Progress, OneInDb, InDb, MakePCs,
     ScratchIsOwn, ListedIsComplete, ConfirmedHasParams, Reserved, Deleted, Made
<1>5. ListedIsComplete' /\ ConfirmedHasParams' /\ MadeOnce'
  BY DEF ListedIsComplete, ConfirmedHasParams, MadeOnce, Ids
<1>6. TaskShape'
  BY DEF TypeOK, TaskShape, Request, LobbySession, NoSession, NoRequest, MakePCs
<1> QED BY <1>1, <1>2, <1>3, <1>4, <1>5, <1>6

\* make_character confirms the reservation.
LEMMA MakeStateStep ==
  ASSUME Inv, NEW c \in Conns, MakeState(c)
  PROVE  Inv'
<1> USE LobbyAssumption DEF Inv, MakeState, DbFree, Goto, tables, counters
<1>1. TypeOK'
  <2>1. session[c].cid \in Ids => [rows[session[c].cid] EXCEPT !.state = Made] \in Row
    BY RowFields DEF Row, TaskShape, Reserved, Deleted, Made
  <2>2. \/ rows' = rows
        \/ session[c].cid \in Ids /\ rows' = [rows EXCEPT ![session[c].cid] = [rows[session[c].cid] EXCEPT !.state = Made]]
    BY DEF TypeOK, MakePCs
  <2> HIDE DEF MakeState
  <2>3. rows' \in Seq(Row) /\ Len(rows') = Len(rows) /\ Ids' = Ids
    <3>1. CASE rows' = rows
      BY <3>1 DEF TypeOK, Ids
    <3>2. CASE rows' # rows
      <4> DEFINE row == [rows[session[c].cid] EXCEPT !.state = Made]
      <4>1. /\ rows \in Seq(Row) /\ session[c].cid \in DOMAIN rows /\ row \in Row
            /\ rows' = [rows EXCEPT ![session[c].cid] = row]
        BY <3>2, <2>1, <2>2 DEF TypeOK, Ids
      <4> HIDE DEF row
      <4> QED BY <4>1, RowUpdate DEF Ids
    <3> QED BY <3>1, <3>2
  <2> QED BY <2>3 DEF MakeState, TypeOK, LobbySession, Request, PCs, MakePCs,
       NoRequest, Commands
<1>2. OneInDb'
  BY DEF TypeOK, OneInDb, InDb, MakePCs
<1>3. ScratchIsOwn'
  BY DEF TypeOK, LobbySession, Ids, Row, ScratchIsOwn, NoSession, MakePCs, TaskShape
<1>4. Progress'
  BY DEF TypeOK, LobbySession, Ids, Row, Progress, OneInDb, InDb, MakePCs,
     ScratchIsOwn, ListedIsComplete, ConfirmedHasParams, Reserved, Deleted, Made
<1>5. ListedIsComplete'
  BY DEF TypeOK, LobbySession, Ids, ListedIsComplete, Progress, InDb, MakePCs,
     Reserved, Deleted, Made
<1>6. ConfirmedHasParams'
  BY DEF TypeOK, LobbySession, Ids, ConfirmedHasParams, Progress, InDb, MakePCs
<1>7. MadeOnce'
  BY DEF TypeOK, LobbySession, Ids, MadeOnce, Progress, InDb, MakePCs
<1>8. TaskShape'
  BY DEF TypeOK, TaskShape, Request, LobbySession, NoSession, NoRequest, MakePCs
<1> QED BY <1>1, <1>2, <1>3, <1>4, <1>5, <1>6, <1>7, <1>8

\* make_character writes the appearance.
LEMMA MakeAppearanceStep ==
  ASSUME Inv, NEW c \in Conns, MakeAppearance(c)
  PROVE  Inv'
<1> USE LobbyAssumption DEF Inv, MakeAppearance, Insert, Goto, tables, counters
<1>1. TypeOK'
  BY DEF TypeOK, LobbySession, Ids, Row, Request, PCs, MakePCs, Parts, Commands,
     NoSession, NoRequest
<1>2. OneInDb'
  BY DEF TypeOK, OneInDb, InDb, MakePCs
<1>3. ScratchIsOwn'
  BY DEF TypeOK, LobbySession, Ids, Row, ScratchIsOwn, NoSession, MakePCs, TaskShape
<1>4. Progress'
  BY DEF TypeOK, LobbySession, Ids, Row, Progress, OneInDb, InDb, MakePCs,
     ScratchIsOwn, ListedIsComplete, ConfirmedHasParams, Reserved, Deleted, Made
<1>5. ListedIsComplete'
  BY DEF TypeOK, LobbySession, Ids, ListedIsComplete, Progress, InDb, MakePCs,
     Reserved, Deleted, Made
<1>6. ConfirmedHasParams'
  BY DEF TypeOK, LobbySession, Ids, ConfirmedHasParams, Progress, InDb, MakePCs
<1>7. MadeOnce'
  BY DEF TypeOK, LobbySession, Ids, MadeOnce, Progress, InDb, MakePCs
<1>8. TaskShape'
  BY DEF TypeOK, TaskShape, Request, LobbySession, NoSession, NoRequest, MakePCs
<1> QED BY <1>1, <1>2, <1>3, <1>4, <1>5, <1>6, <1>7, <1>8

\* make_character writes the class rows.
LEMMA MakeClassesStep ==
  ASSUME Inv, NEW c \in Conns, MakeClasses(c)
  PROVE  Inv'
<1> USE LobbyAssumption DEF Inv, MakeClasses, Insert, Goto, tables, counters
<1>1. TypeOK'
  BY DEF TypeOK, LobbySession, Ids, Row, Request, PCs, MakePCs, Parts, Commands,
     NoSession, NoRequest
<1>2. OneInDb'
  BY DEF TypeOK, OneInDb, InDb, MakePCs
<1>3. ScratchIsOwn'
  BY DEF TypeOK, LobbySession, Ids, Row, ScratchIsOwn, NoSession, MakePCs, TaskShape
<1>4. Progress'
  BY DEF TypeOK, LobbySession, Ids, Row, Progress, OneInDb, InDb, MakePCs,
     ScratchIsOwn, ListedIsComplete, ConfirmedHasParams, Reserved, Deleted, Made
<1>5. ListedIsComplete'
  BY DEF TypeOK, LobbySession, Ids, ListedIsComplete, Progress, InDb, MakePCs,
     Reserved, Deleted, Made
<1>6. ConfirmedHasParams'
  BY DEF TypeOK, LobbySession, Ids, ConfirmedHasParams, Progress, InDb, MakePCs
<1>7. MadeOnce'
  BY DEF TypeOK, LobbySession, Ids, MadeOnce, Progress, InDb, MakePCs
<1>8. TaskShape'
  BY DEF TypeOK, TaskShape, Request, LobbySession, NoSession, NoRequest, MakePCs
<1> QED BY <1>1, <1>2, <1>3, <1>4, <1>5, <1>6, <1>7, <1>8

\* make_character writes the keyed row.
LEMMA MakeParamsStep ==
  ASSUME Inv, NEW c \in Conns, MakeParams(c)
  PROVE  Inv'
<1> USE LobbyAssumption DEF Inv, MakeParams, Insert, KeyConflict, Goto, tables,
       counters
<1>1. TypeOK'
  BY DEF TypeOK, LobbySession, Ids, Row, Request, PCs, MakePCs, Parts, Commands,
     NoSession, NoRequest
<1>2. OneInDb'
  BY DEF TypeOK, OneInDb, InDb, MakePCs
<1>3. ScratchIsOwn'
  BY DEF TypeOK, LobbySession, Ids, Row, ScratchIsOwn, NoSession, MakePCs, TaskShape
<1>4. Progress'
  BY DEF TypeOK, LobbySession, Ids, Row, Progress, OneInDb, InDb, MakePCs,
     ScratchIsOwn, ListedIsComplete, ConfirmedHasParams, Reserved, Deleted, Made
<1>5. ListedIsComplete'
  BY DEF TypeOK, LobbySession, Ids, ListedIsComplete, Progress, InDb, MakePCs,
     Reserved, Deleted, Made
<1>6. ConfirmedHasParams'
  BY DEF TypeOK, LobbySession, Ids, ConfirmedHasParams, Progress, InDb, MakePCs
<1>7. MadeOnce'
  BY DEF TypeOK, LobbySession, Ids, MadeOnce, Progress, InDb, MakePCs
<1>8. TaskShape'
  BY DEF TypeOK, TaskShape, Request, LobbySession, NoSession, NoRequest, MakePCs
<1> QED BY <1>1, <1>2, <1>3, <1>4, <1>5, <1>6, <1>7, <1>8

\* The class statement of make_character fails.
LEMMA ClassRefusedStep ==
  ASSUME Inv, NEW c \in Conns, ClassRefused(c)
  PROVE  Inv'
<1> USE LobbyAssumption DEF Inv, ClassRefused, Goto, tables, counters
<1>0. session[c].cid \in 1..MaxRows
  BY DEF TypeOK, Ids, MakePCs
<1>1. TypeOK'
  BY <1>0 DEF TypeOK, LobbySession, Ids, Row, Request, PCs, MakePCs, Parts, Commands,
     NoSession, NoRequest
<1>2. OneInDb'
  BY DEF TypeOK, OneInDb, InDb, MakePCs
<1>3. ScratchIsOwn'
  BY DEF TypeOK, LobbySession, Ids, Row, ScratchIsOwn, NoSession, MakePCs, TaskShape
<1>4. Progress'
  BY DEF TypeOK, LobbySession, Ids, Row, Progress, OneInDb, InDb, MakePCs,
     ScratchIsOwn, ListedIsComplete, ConfirmedHasParams, Reserved, Deleted, Made
<1>5. ListedIsComplete' /\ ConfirmedHasParams' /\ MadeOnce'
  BY DEF ListedIsComplete, ConfirmedHasParams, MadeOnce, Ids
<1>6. TaskShape'
  BY DEF TypeOK, TaskShape, Request, LobbySession, NoSession, NoRequest, MakePCs
<1> QED BY <1>1, <1>2, <1>3, <1>4, <1>5, <1>6

\* A statement of make_character fails.
LEMMA MakeFailsStep ==
  ASSUME Inv, NEW c \in Conns, MakeFails(c)
  PROVE  Inv'
<1> USE LobbyAssumption DEF Inv, MakeFails, Goto, tables, counters
<1>1. TypeOK'
  BY DEF TypeOK, LobbySession, Ids, Row, Request, PCs, MakePCs, Parts, Commands,
     NoSession, NoRequest
<1>2. OneInDb'
  BY DEF TypeOK, OneInDb, InDb, MakePCs
<1>3. ScratchIsOwn'
  BY DEF TypeOK, LobbySession, Ids, Row, ScratchIsOwn, NoSession, MakePCs, TaskShape
<1>4. Progress'
  BY DEF TypeOK, LobbySession, Ids, Row, Progress, OneInDb, InDb, MakePCs,
     ScratchIsOwn, ListedIsComplete, ConfirmedHasParams, Reserved, Deleted, Made
<1>5. ListedIsComplete' /\ ConfirmedHasParams' /\ MadeOnce'
  BY DEF ListedIsComplete, ConfirmedHasParams, MadeOnce, Ids
<1>6. TaskShape'
  BY DEF TypeOK, TaskShape, Request, LobbySession, NoSession, NoRequest, MakePCs
<1> QED BY <1>1, <1>2, <1>3, <1>4, <1>5, <1>6

\* make_character writes the hotbar and answers.
LEMMA MakeHotbarStep ==
  ASSUME Inv, NEW c \in Conns, MakeHotbar(c)
  PROVE  Inv'
<1> USE LobbyAssumption DEF Inv, MakeHotbar, Goto, tables, counters
<1>1. TypeOK'
  BY DEF TypeOK, LobbySession, Ids, Row, Request, PCs, MakePCs, Parts, Commands,
     NoSession, NoRequest
<1>2. OneInDb'
  BY DEF TypeOK, OneInDb, InDb, MakePCs
<1>3. ScratchIsOwn'
  BY DEF TypeOK, LobbySession, Ids, Row, ScratchIsOwn, NoSession, MakePCs, TaskShape
<1>4. Progress'
  BY DEF TypeOK, LobbySession, Ids, Row, Progress, OneInDb, InDb, MakePCs,
     ScratchIsOwn, ListedIsComplete, ConfirmedHasParams, Reserved, Deleted, Made
<1>5. ListedIsComplete'
  BY DEF TypeOK, LobbySession, Ids, ListedIsComplete, Progress, InDb, MakePCs,
     Reserved, Deleted, Made
<1>6. ConfirmedHasParams'
  BY DEF TypeOK, LobbySession, Ids, ConfirmedHasParams, Progress, InDb, MakePCs
<1>7. MadeOnce'
  BY DEF TypeOK, LobbySession, Ids, MadeOnce, Progress, InDb, MakePCs
<1>8. TaskShape'
  BY DEF TypeOK, TaskShape, Request, LobbySession, NoSession, NoRequest, MakePCs
<1> QED BY <1>1, <1>2, <1>3, <1>4, <1>5, <1>6, <1>7, <1>8

\* The process ends.
LEMMA CrashStep ==
  ASSUME Inv, Crash
  PROVE  Inv'
<1> USE LobbyAssumption DEF Inv, Crash, Goto, tables, counters
<1>1. TypeOK'
  BY DEF TypeOK, LobbySession, Ids, Row, Request, PCs, MakePCs, Parts, Commands,
     NoSession, NoRequest
<1>2. OneInDb'
  BY DEF TypeOK, OneInDb, InDb, MakePCs
<1>3. ScratchIsOwn'
  BY DEF TypeOK, LobbySession, Ids, Row, ScratchIsOwn, NoSession, MakePCs, TaskShape
<1>4. Progress'
  BY DEF TypeOK, LobbySession, Ids, Row, Progress, OneInDb, InDb, MakePCs,
     ScratchIsOwn, ListedIsComplete, ConfirmedHasParams, Reserved, Deleted, Made
<1>5. ListedIsComplete' /\ ConfirmedHasParams' /\ MadeOnce'
  BY DEF ListedIsComplete, ConfirmedHasParams, MadeOnce, Ids
<1>6. TaskShape'
  BY DEF TypeOK, TaskShape, Request, LobbySession, NoSession, NoRequest, MakePCs
<1> QED BY <1>1, <1>2, <1>3, <1>4, <1>5, <1>6

\* One step of one of the server's tasks, or of a client, preserves Inv.
LEMMA NextStep ==
  ASSUME Inv, Next
  PROVE  Inv'
<1>1. CASE Crash
  BY <1>1, CrashStep
<1>2. ASSUME NEW c \in Conns, Client(c)
      PROVE  Inv'
  BY <1>2, OpenStep, DropStep, SessionAckStep, ModifyStep DEF Client
<1>3. ASSUME NEW c \in Conns, MakeCharacter(c)
      PROVE  Inv'
  BY <1>3, MakeStateStep, MakeAppearanceStep, MakeClassesStep, MakeParamsStep,
     ClassRefusedStep, MakeFailsStep, MakeHotbarStep DEF MakeCharacter
<1>4. ASSUME NEW c \in Conns, Handler(c)
      PROVE  Inv'
  BY <1>3, <1>4, LookupWorldStep, RecoverStep, RefuseStep, ReserveStep, RenameStep,
     DeleteStep, RenameRetainerStep, MakeStep DEF Handler
<1> QED BY <1>1, <1>2, <1>4 DEF Next

\* The invariant at the start.
LEMMA InitInv == Init => Inv
<1> SUFFICES ASSUME Init PROVE Inv
  OBVIOUS
<1>1. rows = <<>> /\ rows \in Seq(Row) /\ Len(rows) = 0 /\ Ids = {}
  BY DEF Init, Ids
<1>2. TypeOK
  BY <1>1, LobbyAssumption DEF Init, TypeOK, LobbySession, Ids, Row, Request, PCs,
     MakePCs, Parts, Commands, NoSession, NoRequest
<1>3. OneInDb /\ ScratchIsOwn /\ Progress /\ TaskShape
  BY DEF Init, OneInDb, ScratchIsOwn, Progress, TaskShape, InDb, MakePCs, NoSession, NoRequest
<1>4. ListedIsComplete /\ ConfirmedHasParams /\ MadeOnce
  BY <1>1 DEF Init, ListedIsComplete, ConfirmedHasParams, MadeOnce
<1> QED BY <1>2, <1>3, <1>4 DEF Inv

\* The invariant holds in every reachable state.
LEMMA Invariance == Spec => []Inv
<1>1. Inv /\ UNCHANGED vars => Inv'
  BY DEF vars, Inv, InDb, OneInDb, ScratchIsOwn, Progress, ListedIsComplete,
     ConfirmedHasParams, MadeOnce, TaskShape, TypeOK, LobbySession, Ids
<1>2. Inv /\ [Next]_vars => Inv'
  BY <1>1, NextStep
<1> QED BY <1>2, InitInv, PTL DEF Spec

\* The lobby's tables and tasks stay well typed; in particular make_character is
\* never entered without a reservation that exists.
THEOREM LobbyTypeCorrectness == Spec => []TypeOK
<1>1. Inv => TypeOK
  BY DEF Inv
<1> QED BY <1>1, Invariance, PTL

\* A session only ever carries a reservation of its own user, after any
\* sequence of reserves, recoveries, drops and process ends.
THEOREM ScratchIsOwnHolds == Spec => []ScratchIsOwn
<1>1. Inv => ScratchIsOwn
  BY DEF Inv
<1> QED BY <1>1, Invariance, PTL

\* Wherever the process ends inside make_character, no character becomes
\* visible before its rows are there.
THEOREM ListedIsCompleteHolds == Spec => []ListedIsComplete
<1>1. Inv => ListedIsComplete
  BY DEF Inv
<1> QED BY <1>1, Invariance, PTL

\* However many sessions hold one reservation, one CMD_MAKE at most succeeds.
THEOREM MadeOnceHolds == Spec => []MadeOnce
<1>1. Inv => MadeOnce
  BY DEF Inv
<1> QED BY <1>1, Invariance, PTL
----------------------------------------------------------------------------
(* What a process end leaves half made.                                     *)

Half(i) == i \in Ids \ refused /\ rows[i].state = Made /\ "params" \notin parts[i]

\* Half made, and not for its class: what the process ends account for.
Left == HalfMade \ refused

\* A character half made, not for its class, is being written, or no session holds it any more.
HalfInv ==
  \A i \in Ids : Half(i) =>
    \/ \E c \in Conns : InDb(c) /\ session[c].cid = i
    \/ \A c \in Conns : session[c].cid # i

\* What one step of a connection does to the rows and to its session.
HalfFrame(c) ==
  /\ \A i \in Ids' : Half(i)' => Half(i) \/ (MakeState(c) /\ i = session[c].cid)
  /\ \A d \in Conns : d # c => pc'[d] = pc[d] /\ session'[d] = session[d]
  /\ \/ session'[c].cid \in {session[c].cid, None}
     \/ ~Half(session[c].cid)'
  /\ pc[c] \in MakePCs =>
       \/ InDb(c)' /\ session'[c] = session[c]
       \/ "params" \in parts'[session[c].cid]
       \/ session[c].cid \in refused'

\* What clients do leaves no character half made.
LEMMA HalfClient ==
  ASSUME Inv, NEW c \in Conns, Client(c)
  PROVE  HalfFrame(c)
<1> USE DEF Inv, TypeOK, HalfFrame, Goto, tables, Half, Ids, MakePCs, LobbySession
<1>1. CASE Open(c) \/ Drop(c)
  <2>1. /\ UNCHANGED <<rows, parts, refused>> /\ session'[c] = NoSession /\ pc[c] \notin MakePCs
        /\ \A d \in Conns : d # c => pc'[d] = pc[d] /\ session'[d] = session[d]
    BY <1>1 DEF Open, Drop
  <2> QED
    BY <2>1 DEF NoSession
<1>2. ASSUME NEW user \in Users \cup {None}, SessionAck(c, user) PROVE HalfFrame(c)
  BY <1>2 DEF SessionAck
<1>3. ASSUME NEW r \in Requests, Modify(c, r) PROVE HalfFrame(c)
  BY <1>3 DEF Modify
<1> QED
  BY <1>1, <1>2, <1>3 DEF Client

\* The statements of make_character keep its character in hand.
LEMMA HalfMake ==
  ASSUME Inv, NEW c \in Conns, MakeCharacter(c)
  PROVE  HalfFrame(c)
<1> USE DEF Inv, TypeOK, HalfFrame, Goto, tables, Half, Ids, MakePCs, LobbySession, InDb
<1>1. CASE MakeState(c)
  <2>1. session[c].cid \in DOMAIN rows /\ rows \in Seq(Row)
    BY <1>1 DEF MakeState
  <2>2. DOMAIN rows' = DOMAIN rows /\ \A i \in DOMAIN rows : i # session[c].cid => rows'[i] = rows[i]
    BY <1>1, <2>1 DEF MakeState
  <2> QED
    BY <1>1, <2>2 DEF MakeState
<1>2. CASE MakeAppearance(c) \/ MakeClasses(c)
  <2>1. /\ UNCHANGED <<rows, session, refused>>
        /\ \A d \in Conns : pc'[d] = pc[d] \/ (d = c /\ pc'[d] \in {"make_classes", "make_params"})
        /\ \A i \in 1..MaxRows : parts[i] \subseteq parts'[i]
        /\ pc'[c] \in {"make_classes", "make_params"}
    BY <1>2 DEF MakeAppearance, MakeClasses, Insert
  <2>2. DOMAIN rows \subseteq 1..MaxRows
    BY LobbyAssumption
  <2> QED
    BY <2>1, <2>2
<1>3. CASE MakeParams(c)
  BY <1>3 DEF MakeParams, Insert
<1>4. CASE MakeFails(c)
  BY <1>4 DEF MakeFails, KeyConflict, NoSession
<1>5. CASE MakeHotbar(c)
  BY <1>5 DEF MakeHotbar, Progress
<1>6. CASE ClassRefused(c)
  BY <1>6 DEF ClassRefused, NoSession
<1> QED
  BY <1>1, <1>2, <1>3, <1>4, <1>5, <1>6 DEF MakeCharacter

\* The other handlers leave no other character half made.
LEMMA HalfHandler ==
  ASSUME Inv, Inv', NEW c \in Conns, Handler(c)
  PROVE  HalfFrame(c)
<1>0. CASE MakeCharacter(c)
  BY <1>0, HalfMake
<1> USE DEF Inv, TypeOK, HalfFrame, Goto, Answered, Run, tables, Half, Ids, MakePCs, LobbySession
<1>1. CASE LookupWorld(c) \/ Refuse(c) \/ RenameRetainer(c) \/ Make(c)
  BY <1>1 DEF LookupWorld, Refuse, RenameRetainer, Make
<1>2. CASE Recover(c)
  <2>1. CASE UNCHANGED session
    BY <1>2, <2>1 DEF Recover
  <2>2. ASSUME NEW i \in Reservations(session[c].user),
               session' = [session EXCEPT ![c] = Rehydrated(@, i)]
        PROVE  HalfFrame(c)
    <3>1. session'[c].cid = i /\ rows[i].state = Reserved
      BY <2>2 DEF Rehydrated, Reservations
    <3>2. /\ UNCHANGED <<rows, parts, refused>> /\ pc[c] \notin MakePCs
          /\ \A d \in Conns : d # c => pc'[d] = pc[d] /\ session'[d] = session[d]
      BY <1>2, <2>2 DEF Recover
    <3> QED
      BY <3>1, <3>2 DEF Reserved, Made
  <2> QED
    BY <1>2, <2>1, <2>2 DEF Recover
<1>3. CASE Reserve(c)
  <2>1. CASE UNCHANGED <<rows, session>>
    BY <1>3, <2>1 DEF Reserve
  <2>2. CASE ~UNCHANGED <<rows, session>>
    <3> DEFINE i == Len(rows) + 1
               new == [user |-> session[c].user, name |-> req[c].name,
                       world |-> req[c].world, state |-> Reserved]
    <3>1. /\ rows' = Append(rows, new)
          /\ session' = [session EXCEPT ![c].cid = i, ![c].name = req[c].name,
                                        ![c].world = req[c].world]
          /\ UNCHANGED <<parts, refused>>
      BY <1>3, <2>2 DEF Reserve
    <3>2. session'[c].cid = i /\ new.state = Reserved
      BY <3>1
    <3> HIDE DEF new
    <3>3. /\ \A j \in DOMAIN rows : rows'[j] = rows[j]
          /\ DOMAIN rows' = DOMAIN rows \cup {i}
          /\ rows'[i] = new
      BY <3>1
    <3> QED
      BY <1>3, <3>1, <3>2, <3>3 DEF Reserve, Reserved, Made
  <2> QED
    BY <2>1, <2>2
<1>4. CASE Rename(c) \/ Delete(c)
  <2>1. /\ DOMAIN rows' = DOMAIN rows
        /\ \A i \in DOMAIN rows : rows'[i].state \in {rows[i].state, Deleted}
    <3>1. CASE UNCHANGED rows
      BY <3>1
    <3>2. ASSUME NEW j \in DOMAIN rows, NEW n,
                 rows' = [rows EXCEPT ![j].name = n] \/ rows' = [rows EXCEPT ![j].state = Deleted]
          PROVE  /\ DOMAIN rows' = DOMAIN rows
                 /\ \A i \in DOMAIN rows : rows'[i].state \in {rows[i].state, Deleted}
      <4>1. \A i \in DOMAIN rows : rows[i] \in Row
        BY RowFields
      <4> QED
        BY <3>2, <4>1, ZenonT(60) DEF Row
    <3> QED
      BY <1>4, <3>1, <3>2 DEF Rename, Delete
  <2> QED
    BY <1>4, <2>1 DEF Rename, Delete, Deleted, Made
<1> QED
  BY <1>0, <1>1, <1>2, <1>3, <1>4 DEF Handler

\* A step of a connection leaves nothing half made behind.
LEMMA HalfByConn ==
  ASSUME Inv, Inv', HalfInv, NEW c \in Conns, HalfFrame(c)
  PROVE  HalfInv' /\ Left' \subseteq Left
<1>1. ASSUME NEW i \in Ids', Half(i)' PROVE
        \/ \E d \in Conns : InDb(d)' /\ session'[d].cid = i
        \/ \A d \in Conns : session'[d].cid # i
  <2>1. CASE MakeState(c) /\ i = session[c].cid
    BY <2>1 DEF MakeState, Goto, InDb, MakePCs, Inv, TypeOK
  <2>2. ASSUME NEW d \in Conns, InDb(d), session[d].cid = i, Half(i)
        PROVE  \E e \in Conns : InDb(e)' /\ session'[e].cid = i
    BY <1>1, <2>2 DEF HalfFrame, InDb, Half
  <2>3. ASSUME \A d \in Conns : session[d].cid # i
        PROVE  \A d \in Conns : session'[d].cid # i
    <3>1. i # None
      BY <1>1, LobbyAssumption DEF Half, Ids, Inv, TypeOK
    <3> QED
      BY <1>1, <2>3, <3>1 DEF HalfFrame
  <2> QED
    BY <1>1, <2>1, <2>2, <2>3 DEF HalfFrame, HalfInv, Half
<1>2. HalfInv'
  BY <1>1 DEF HalfInv
<1>3. ASSUME NEW i \in Left' PROVE i \in Left
  <2>1. /\ i \in Ids' /\ Half(i)'
        /\ \A d \in Conns : pc'[d] \in MakePCs => session'[d].cid # i
    BY DEF Left, HalfMade, Half
  <2>2. ~(MakeState(c) /\ i = session[c].cid)
    BY <2>1 DEF MakeState, Goto, MakePCs, Inv, TypeOK
  <2>3. Half(i)
    BY <2>1, <2>2 DEF HalfFrame
  <2>4. ASSUME NEW d \in Conns, pc[d] \in MakePCs PROVE session[d].cid # i
    BY <2>1, <2>4 DEF HalfFrame, InDb, Half
  <2> QED
    BY <2>3, <2>4 DEF Left, HalfMade, Half
<1> QED
  BY <1>2, <1>3

\* A process end leaves the one that was being written, if any.
LEMMA HalfByCrash ==
  ASSUME Inv, HalfInv, Crash
  PROVE  HalfInv' /\ \E i : Left' \subseteq Left \cup {i}
<1>1. \A i : Half(i)' <=> Half(i)
  BY DEF Crash, tables, Half, Ids
<1>2. HalfInv'
  <2>1. \A i \in Ids, c \in Conns : session'[c].cid # i
    BY LobbyAssumption DEF Crash, NoSession, Ids, Inv, TypeOK
  <2> QED
    BY <2>1 DEF HalfInv, Crash, tables, Ids
<1>3. PICK w : \A c \in Conns : InDb(c) => session[c].cid = w
  BY DEF Inv, OneInDb
<1>4. Left' \subseteq Left \cup {w}
  BY <1>1, <1>3 DEF Left, HalfMade, HalfInv, Half, Crash, tables, Ids, InDb
<1> QED
  BY <1>2, <1>4

\* There are finitely many characters, so half-made ones can be counted.
LEMMA HalfMadeFinite ==
  ASSUME TypeOK
  PROVE  IsFiniteSet(Left) /\ Cardinality(Left) \in Nat
<1>1. Ids = 1..Len(rows) /\ Len(rows) \in Nat
  BY DEF TypeOK, Ids
<1>2. IsFiniteSet(Ids)
  BY <1>1, FS_Interval
<1>3. Left \in SUBSET Ids
  BY DEF Left, HalfMade
<1>4. IsFiniteSet(Left)
  BY <1>2, <1>3, FS_Subset
<1> QED
  BY <1>4, FS_CardinalityType

\* Only a process end adds a half-made character, and one at most.
LEMMA HalfStep ==
  ASSUME Inv, Inv', HalfInv, CrashLeavesOneHalfMade, [Next]_vars
  PROVE  HalfInv' /\ CrashLeavesOneHalfMade'
<1>c. /\ CrashLeavesOneHalfMade <=> Cardinality(Left) <= crashes
      /\ CrashLeavesOneHalfMade' <=> Cardinality(Left') <= crashes'
  BY DEF CrashLeavesOneHalfMade, Left
<1>0. IsFiniteSet(Left) /\ Cardinality(Left) \in Nat
  BY HalfMadeFinite DEF Inv
<1>1. ASSUME Left' \subseteq Left, crashes' = crashes
      PROVE  CrashLeavesOneHalfMade'
  <2>1. IsFiniteSet(Left') /\ Cardinality(Left') <= Cardinality(Left)
    BY <1>0, <1>1, FS_Subset
  <2>2. Cardinality(Left') \in Nat /\ crashes \in Nat
    BY <2>1, FS_CardinalityType, LobbyAssumption DEF Inv, TypeOK
  <2> QED
    BY <1>c, <1>0, <1>1, <2>1, <2>2
<1>2. ASSUME NEW c \in Conns, Client(c) \/ Handler(c)
      PROVE  HalfInv' /\ CrashLeavesOneHalfMade'
  <2>1. HalfFrame(c)
    BY <1>2, HalfClient, HalfHandler
  <2>2. crashes' = crashes
    BY <1>2 DEF Client, Handler, MakeCharacter, Open, Drop, SessionAck, Modify, LookupWorld,
       Recover, Refuse, Reserve, Rename, Delete, RenameRetainer, Make, MakeState,
       MakeAppearance, MakeClasses, ClassRefused, MakeParams, MakeFails, MakeHotbar, Insert, counters
  <2> QED
    BY <1>1, <2>1, <2>2, HalfByConn
<1>3. CASE Crash
  <2>1. PICK i : Left' \subseteq Left \cup {i}
    BY <1>3, HalfByCrash
  <2>a. /\ IsFiniteSet(Left \cup {i})
        /\ Cardinality(Left \cup {i}) = IF i \in Left THEN Cardinality(Left)
                                                     ELSE Cardinality(Left) + 1
    BY <1>0, FS_AddElement, Zenon
  <2>2. IsFiniteSet(Left \cup {i}) /\ Cardinality(Left \cup {i}) <= Cardinality(Left) + 1
    BY <1>0, <2>a
  <2>3. Cardinality(Left') <= Cardinality(Left \cup {i})
    BY <2>1, <2>2, FS_Subset
  <2>4. /\ Cardinality(Left \cup {i}) \in Nat
        /\ Cardinality(Left') \in Nat
        /\ crashes' = crashes + 1 /\ crashes \in Nat
    <3>1. IsFiniteSet(Left')
      BY <2>1, <2>2, FS_Subset
    <3> QED
      BY <1>3, <2>2, <3>1, FS_CardinalityType, LobbyAssumption DEF Crash, Inv, TypeOK
  <2> QED
    BY <1>c, <1>0, <1>3, <2>2, <2>3, <2>4, HalfByCrash
<1>4. CASE UNCHANGED vars
  <2>1. HalfInv' /\ UNCHANGED Left
    BY <1>4 DEF vars, HalfInv, Half, InDb, Ids, Left, HalfMade
  <2> QED
    BY <1>c, <1>4, <2>1 DEF vars
<1> QED
  BY <1>2, <1>3, <1>4 DEF Next

\* A character that is neither a reservation nor listed is the price of a
\* process end, and one process end leaves at most one: make_character runs
\* alone on the database thread, and every other way out of it leaves the
\* parametersave row behind, except the failed class statement, whose
\* characters (`refused`) are not counted.
THEOREM CrashLeavesOneHalfMadeHolds == Spec => []CrashLeavesOneHalfMade
<1>1. Init => HalfInv /\ CrashLeavesOneHalfMade
  <2>1. Init => Ids = {}
    BY DEF Init, Ids
  <2>2. Init => Left = {} /\ HalfInv
    BY <2>1 DEF Left, HalfMade, HalfInv
  <2>3. Cardinality({}) = 0
    BY FS_EmptySet
  <2>4. Init => crashes = 0
    BY DEF Init
  <2> QED
    BY <2>2, <2>3, <2>4 DEF CrashLeavesOneHalfMade, Left
<1>2. Inv /\ Inv' /\ HalfInv /\ CrashLeavesOneHalfMade /\ [Next]_vars
        => HalfInv' /\ CrashLeavesOneHalfMade'
  BY HalfStep
<1> QED
  BY <1>1, <1>2, Invariance, PTL DEF Spec
=============================================================================
