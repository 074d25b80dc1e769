--------------------------- MODULE MapZonesProofs ---------------------------
(***************************************************************************)
(* Proofs about MapZones: the player is listed in one place, a client told *)
(* to let go of its world gets the next one, and while it loads it neither *)
(* moves the player from the old place nor misses an event.                *)
(*                                                                         *)
(* The three rest on Inv: the types, the shapes a task's program can have  *)
(* (ShapeInv), and what a session that is online has (OnlineInv).  To it   *)
(* come HereInv (the session names a zone that is on this server) with     *)
(* StrandedInv, PlaceInv, and OrderInv with HeldInv.                       *)
(***************************************************************************)
EXTENDS MapZones, SequenceTheorems, TLAPS

-----------------------------------------------------------------------------
(* Types *)

Places == Zones \X Names
Sessions ==
    [zone : Zones, area : Names, merged : Zones \cup {None}, defer : BOOLEAN,
     deferred : Places \cup {Nowhere}, reload : BOOLEAN, parked : BOOLEAN,
     kick : Owners \cup {None}, contentKick : BOOLEAN, content : Zones \cup {None}, acked : BOOLEAN]
Steps ==
    {Edit(e) : e \in Edits \cup Owners \cup Zones} \cup {Write(r, n) : r \in Sessions, n \in Sessions}
    \cup {Do(w) : w \in {"bundle", "content", "kick", "hook"}}
    \cup {To(w, l) : w \in {"check", "moved", "land", "flip", "flipped", "place"}, l \in Places}
    \cup [do : {"move"}, loc : Places, old : Places \cup {Nowhere}]
    \cup [do : {"deliver"}, how : {"wipe", "later", "now"}]
Loads == [zone : Zones, epoch : Int]
Clients == [zone : Zones \cup {None}, epoch : Int, loads : Seq(Loads), latched : BOOLEAN, wiped : BOOLEAN, reload : BOOLEAN]
Messages == [m : {"ack"}, epoch : Int] \cup [m : {"report"}, epoch : Int, spot : {"away", "strip", "box1", "box2"}]

TypeOK ==
    /\ session \in Sessions \cup {NoSession} /\ online \in BOOLEAN
    /\ placed \subseteq Places /\ reg \in Zones \cup {None} /\ saved \in Places
    /\ client \in Clients /\ uplink \in Seq(Messages)
    /\ program \in [Tasks -> Seq(Steps)]
    /\ commands \in Nat /\ warps \in Nat /\ left \subseteq Places
    /\ disturbed \subseteq {"torn", "race", "login", "acks", "seam", "unloaded"} /\ broken \subseteq {"kick", "report"}

-----------------------------------------------------------------------------
(* The shapes of a program *)

\* Steps that come first in a program: what they need was decided the step before.
First(s) == s.do \in {"write", "move", "moved", "land", "flip"} \/ (s.do = "edit" /\ s.e \notin {"touch", "latch", "warped"})
Unparks(s) == (s.do = "edit" /\ s.e = "unpark") \/ (s.do = "write" /\ s.read.parked /\ ~s.new.parked)
Latches(s) == (s.do = "edit" /\ s.e = "latch") \/ (s.do = "write" /\ s.new.reload)
Wipes(s) == (s.do = "deliver" /\ s.how = "wipe") \/ s.do = "content"

\* A stored record names the place of the one that was read, and lifts a latch only for
\* an acknowledgement, which the packet task takes when it has nothing else to do.
Rewrites(t, s, rest) ==
    /\ Loc(s.new) = Loc(s.read)
    /\ \/ s.new.defer = s.read.defer /\ (s.read.reload => s.new.reload)
       \/ t = Packet /\ ~s.new.reload /\ rest \in {"none", "check", "kick"}
Rest2(p) == IF Len(p) = 1 THEN "none" ELSE IF Len(p) = 2 THEN p[2].do ELSE "more"

\* The placement of a login, at i, has the first zone-in after it and is the only one.
Placement(p, i) ==
    /\ \E j \in DOMAIN p : j > i /\ p[j].do = "bundle"
    /\ \A j \in DOMAIN p : j > i => p[j].do # "place"

\* What stands where in the program p of task t.
ShapeAt(t, p, i) ==
    /\ First(p[i]) => i = 1
    /\ p[i].do \in {"deliver", "content"} => \/ i = 1
                                             \/ i = 2 /\ p[1].do \in {"edit", "write"}
                                             \/ i = 3 /\ p[1].do \in {"moved", "land"} /\ p[2].do = "edit"
    /\ Wipes(p[i]) /\ i > 1 => Latches(p[i - 1])
    /\ p[i].do = "flipped" => Len(p) = i /\ i <= 2 /\ (i = 2 => p[1].do = "flip" /\ p[1].loc = p[2].loc)
    /\ p[i].do = "flip" => Len(p) = 2 /\ p[2].do = "flipped"
    /\ p[i].do = "kick" => i = 1 \/ (i = 2 /\ p[1].do = "write" /\ Len(p) = 2)
    /\ p[i].do = "place" => Placement(p, i)
    /\ p[i].do = "land" => Len(p) > 2 /\ p[3].do = "content"
    /\ Unparks(p[i]) => Len(p) > 1 /\ p[2].do = "bundle"
    /\ p[i].do \in {"hook", "place", "land", "flip", "flipped", "content"} => t = Packet
    /\ p[i].do = "write" => Rewrites(t, p[i], Rest2(p))
Shape(t, p) == \A i \in DOMAIN p : ShapeAt(t, p, i)
ShapeInv == \A t \in Tasks : Shape(t, program[t])

\* Who is online has a session and an actor; who is not has no client; and, undisturbed,
\* a session that ended leaves nothing behind but its listings.
OnlineInv ==
    /\ online => session # NoSession /\ reg # None
    /\ ~online => reg = None /\ client = NoClient /\ uplink = <<>>
    /\ ~online /\ disturbed = {} => Quiet /\ session = NoSession /\ placed \subseteq left

Inv == TypeOK /\ ShapeInv /\ OnlineInv

-----------------------------------------------------------------------------
(* Sequences *)

\* The program of a task that is given steps to do first.
LEMMA Prefixed ==
    ASSUME NEW S, NEW p \in Seq(S), NEW s \in Seq(S)
    PROVE  LET q == s \o p IN
           /\ q \in Seq(S) /\ Len(q) = Len(s) + Len(p) /\ Len(p) \in Nat /\ Len(s) \in Nat
           /\ \A i \in 1..Len(s) : q[i] = s[i]
           /\ \A i \in 1..Len(q) : i > Len(s) => q[i] = p[i - Len(s)]
  OBVIOUS

\* The head of a sequence is its first element.
LEMMA HeadIs == ASSUME NEW S, NEW p \in Seq(S), p # <<>> PROVE Head(p) = p[1] /\ 1 \in DOMAIN p /\ Head(p) \in S
  OBVIOUS

\* There are two tasks.
LEMMA OtherIs == Other(Packet) = Ticker /\ Other(Ticker) = Packet /\ Packet # Ticker
<1>1. \A t \in Tasks : \E u \in Tasks : u # t
  BY ZonesAssumption DEF Tasks
<1>2. \A t \in Tasks : Other(t) \in Tasks /\ Other(t) # t
  BY <1>1 DEF Other
<1> QED BY <1>2, ZonesAssumption DEF Tasks

\* What replacing the program of one task leaves of the other's.
LEMMA Replaced ==
    ASSUME TypeOK, NEW t \in Tasks, NEW q \in Seq(Steps), program' = [program EXCEPT ![t] = q]
    PROVE  /\ program' \in [Tasks -> Seq(Steps)] /\ program'[t] = q /\ program'[Other(t)] = program[Other(t)]
           /\ Other(t) \in Tasks /\ Other(t) # t /\ Tasks = {t, Other(t)}
  BY OtherIs DEF TypeOK, Tasks

-----------------------------------------------------------------------------
(* Steps and records *)

\* The steps the handlers build.
LEMMA StepTypes ==
    /\ \A e \in Edits \cup Owners \cup Zones : Edit(e) \in Steps
    /\ \A r, n \in Sessions : Write(r, n) \in Steps
    /\ \A w \in {"bundle", "content", "kick", "hook"} : Do(w) \in Steps
    /\ \A w \in {"check", "moved", "land", "flip", "flipped", "place"}, l \in Places : To(w, l) \in Steps
    /\ \A l \in Places, o \in Places \cup {Nowhere} : [do |-> "move", loc |-> l, old |-> o] \in Steps
    /\ \A h \in {"wipe", "later", "now"} : [do |-> "deliver", how |-> h] \in Steps
  BY DEF Steps

\* And what a step says.
LEMMA StepFields ==
    ASSUME NEW s \in Steps
    PROVE  /\ s.do = "edit" => s.e \in Edits \cup Owners \cup Zones /\ s = Edit(s.e)
           /\ s.do = "write" => s.read \in Sessions /\ s.new \in Sessions /\ s = Write(s.read, s.new)
           /\ s.do \in {"check", "moved", "land", "flip", "flipped", "place", "move"} => s.loc \in Places
           /\ s.do \in {"check", "moved", "land", "flip", "flipped", "place"} => s = To(s.do, s.loc)
           /\ s.do = "move" => s.old \in Places \cup {Nowhere}
           /\ s.do = "deliver" => s.how \in {"wipe", "later", "now"}
           /\ s.do \in {"edit", "write", "bundle", "content", "kick", "hook", "check", "moved", "land", "flip",
                        "flipped", "place", "move", "deliver"}
  BY DEF Steps, Edit, Write, Do, To

\* A record of a session is none of no session.
LEMMA SomeSession ==
    /\ NoSession \notin Sessions
    /\ \A s \in Sessions : s.zone \in Zones /\ s.area \in Names /\ s.zone # None /\ Loc(s) = <<s.zone, s.area>> /\ Loc(s) \in Places
    /\ None \notin Zones
  BY ZonesAssumption DEF Sessions, NoSession, Loc, Places

\* An edit leaves the place, the deferral of a login and a latch alone, and unparks a zone-in if it says so.
LEMMA EditedFacts ==
    ASSUME NEW s \in Sessions, NEW e \in Edits \cup Owners \cup Zones
    PROVE  LET n == Edited(s, e) IN
           /\ n \in Sessions /\ n.zone = s.zone /\ n.area = s.area /\ n.defer = s.defer
           /\ s.reload => n.reload
           /\ e = "latch" => n.reload
           /\ e = "park" => n.parked
           /\ s.parked /\ e # "unpark" => n.parked
<1>1. \A o \in Owners : o \notin Edits /\ o \notin Zones
  BY ZonesAssumption DEF Owners, Edits
<1>2. \A z \in Zones : z \notin Edits /\ z \notin Owners
  BY ZonesAssumption
<1>3. CASE e \in Owners
  <2>1. Edited(s, e) = IF s.reload THEN [s EXCEPT !.contentKick = TRUE] ELSE [s EXCEPT !.kick = e]
    BY <1>1, <1>3 DEF Edited, Owners
  <2>2. e # "latch" /\ e # "park"
    BY <1>3 DEF Owners
  <2>3. CASE s.reload
    BY <2>1, <2>2, <2>3 DEF Sessions
  <2>4. CASE ~s.reload
    BY <1>3, <2>1, <2>2, <2>4 DEF Sessions
  <2> QED BY <2>3, <2>4
<1>4. CASE e \in Zones
  <2>1. Edited(s, e) = [s EXCEPT !.content = e, !.acked = FALSE]
    BY <1>2, <1>4 DEF Edited, Owners, Edits
  <2> QED BY <1>2, <1>4, <2>1 DEF Sessions, Edits
<1>5. CASE e \in Edits
  <2>1. CASE e = "touch"
    <3>1. Edited(s, e) = s
      BY <1>1, <1>2, <2>1 DEF Edited, Owners, Edits
    <3> QED BY <2>1, <3>1 DEF Sessions
  <2>2. CASE e = "latch"
    <3>1. Edited(s, e) = [s EXCEPT !.reload = TRUE]
      BY <1>1, <1>2, <2>2 DEF Edited, Owners, Edits
    <3> QED BY <2>2, <3>1 DEF Sessions
  <2>3. CASE e = "park"
    <3>1. Edited(s, e) = [s EXCEPT !.parked = TRUE]
      BY <1>1, <1>2, <2>3 DEF Edited, Owners, Edits
    <3> QED BY <2>3, <3>1 DEF Sessions
  <2>4. CASE e = "unpark"
    <3>1. Edited(s, e) = [s EXCEPT !.parked = FALSE]
      BY <1>1, <1>2, <2>4 DEF Edited, Owners, Edits
    <3> QED BY <2>4, <3>1 DEF Sessions
  <2>5. CASE e = "kicked"
    <3>1. Edited(s, e) = [s EXCEPT !.kick = None]
      BY <1>1, <1>2, <2>5 DEF Edited, Owners, Edits
    <3> QED BY <2>5, <3>1 DEF Sessions
  <2>6. CASE e = "rekick"
    <3>1. Edited(s, e) = IF s.kick # None THEN [s EXCEPT !.kick = None, !.contentKick = TRUE] ELSE s
      BY <1>1, <1>2, <2>6 DEF Edited, Owners, Edits
    <3>2. CASE s.kick # None
      BY <2>6, <3>1, <3>2 DEF Sessions
    <3>3. CASE s.kick = None
      BY <2>6, <3>1, <3>3
    <3> QED BY <3>2, <3>3
  <2>7. CASE e = "warped"
    <3>1. Edited(s, e) = [s EXCEPT !.acked = TRUE]
      BY <1>1, <1>2, <2>7 DEF Edited, Owners, Edits
    <3> QED BY <2>7, <3>1 DEF Sessions
  <2> QED BY <1>5, <2>1, <2>2, <2>3, <2>4, <2>5, <2>6, <2>7 DEF Edits
<1> QED BY <1>3, <1>4, <1>5

\* An acknowledgement lifts the latches.
LEMMA AckedFacts ==
    ASSUME NEW s \in Sessions
    PROVE  /\ Acked(s) \in Sessions /\ Loc(Acked(s)) = Loc(s) /\ ~Acked(s).reload /\ Acked(s).parked = s.parked
  BY DEF Acked, Sessions, Loc

\* Where a move leads.
LEMMA Arrives ==
    ASSUME NEW l \in Places
    PROVE  Arrived(l) \in Places /\ Arrived(l)[1] = l[1] /\ Arrived(l) = <<Arrived(l)[1], Arrived(l)[2]>>
           /\ (Arrived(l)[2] = Public \/ Arrived(l) \in Installed)
  BY DEF Arrived, Places, Names

\* What a move to a zone that is here changes.
LEMMA ZoneChanged ==
    ASSUME TypeOK, NEW l \in Places, DoZoneChange(l), l[1] \in Loaded
    PROVE  /\ session' \in Sessions /\ Loc(session') = Arrived(l) /\ session'.zone = l[1]
           /\ session'.area = Public \/ Loc(session') \in Installed
           /\ session # NoSession => /\ session'.reload = session.reload /\ session'.parked = session.parked
                                     /\ session'.defer = session.defer
           /\ placed' \subseteq Places /\ Arrived(l) \in placed'
           /\ placed' \subseteq placed \cup {Arrived(l)}
           /\ session # NoSession /\ Loc(session) # l /\ Loc(session) \in placed' => Loc(session) = Arrived(l)
<1>1. Arrived(l) \in Places /\ Arrived(l)[1] = l[1] /\ Arrived(l) = <<Arrived(l)[1], Arrived(l)[2]>>
      /\ (Arrived(l)[2] = Public \/ Arrived(l) \in Installed)
  BY Arrives
<1>2. CASE session = NoSession
  <2>1. session' = [FreshSession EXCEPT !.zone = Arrived(l)[1], !.area = Arrived(l)[2]] /\ placed' \subseteq placed \cup {Arrived(l)}
        /\ Arrived(l) \in placed'
    BY <1>2 DEF DoZoneChange
  <2> QED BY <1>1, <1>2, <2>1 DEF FreshSession, Sessions, Loc, Places, TypeOK
<1>3. CASE session # NoSession
  <2>1. session \in Sessions
    BY <1>3 DEF TypeOK
  <2>2. session' = [session EXCEPT !.zone = Arrived(l)[1], !.area = Arrived(l)[2]]
        /\ placed' = ((IF Loc(session) # l THEN placed \ {Loc(session)} ELSE placed) \cup {Arrived(l)})
    BY <1>3 DEF DoZoneChange
  <2>3. session' \in Sessions /\ session'.zone = Arrived(l)[1] /\ session'.area = Arrived(l)[2]
        /\ session'.reload = session.reload /\ session'.parked = session.parked /\ session'.defer = session.defer
    BY <1>1, <2>1, <2>2 DEF Sessions, Places
  <2> QED BY <1>1, <1>3, <2>2, <2>3 DEF Loc, TypeOK
<1> QED BY <1>2, <1>3

\* And what a move to any zone leaves.
LEMMA ZoneKept ==
    ASSUME TypeOK, NEW l \in Places, DoZoneChange(l)
    PROVE  /\ session' \in Sessions \cup {NoSession} /\ placed' \subseteq Places
           /\ session # NoSession => /\ session' \in Sessions
                                     /\ session'.reload = session.reload /\ session'.parked = session.parked
                                     /\ session'.defer = session.defer
           /\ l[1] \notin Loaded => session' = session /\ placed' = placed
<1>1. CASE l[1] \in Loaded
  BY <1>1, ZoneChanged
<1>2. CASE l[1] \notin Loaded
  <2>1. session' = session /\ placed' = placed
    BY <1>2 DEF DoZoneChange
  <2> QED BY <1>2, <2>1 DEF TypeOK
<1> QED BY <1>1, <1>2

-----------------------------------------------------------------------------
(* Shapes *)

\* Steps that need nothing of those before them.
Tame(t, r) ==
    \A i \in DOMAIN r :
        /\ ~First(r[i]) /\ r[i].do \notin {"deliver", "content", "flipped", "kick"}
        /\ r[i].do = "place" => Placement(r, i)
        /\ r[i].do \in {"hook", "place"} => t = Packet

\* Steps that a handler puts before such.
Opens(t, s) ==
    \A i \in DOMAIN s :
        /\ ShapeAt(t, s, i) /\ s[i].do \notin {"flip", "flipped", "place"} /\ (s[i].do = "kick" => i = 1)
        /\ s[i].do = "write" => Loc(s[i].new) = Loc(s[i].read) /\ s[i].new.defer = s[i].read.defer /\ (s[i].read.reload => s[i].new.reload)

\* Only after an edit or a move can there be others.
LEMMA TameRest ==
    ASSUME NEW t, NEW p \in Seq(Steps), p # <<>>, Shape(t, p),
           p[1].do \notin {"edit", "write", "moved", "land", "flip"}
    PROVE  Tame(t, Tail(p))
<1>1. Tail(p) \in Seq(Steps) /\ Len(Tail(p)) = Len(p) - 1 /\ Len(p) \in Nat /\ Len(p) > 0
      /\ \A i \in 1..Len(p) - 1 : Tail(p)[i] = p[i + 1] /\ i + 1 \in DOMAIN p
  OBVIOUS
<1>2. ASSUME NEW i \in DOMAIN Tail(p)
      PROVE  /\ ~First(Tail(p)[i]) /\ Tail(p)[i].do \notin {"deliver", "content", "flipped", "kick"}
             /\ Tail(p)[i].do = "place" => Placement(Tail(p), i)
             /\ Tail(p)[i].do \in {"hook", "place"} => t = Packet
  <2>1. i \in 1..Len(p) - 1 /\ Tail(p)[i] = p[i + 1] /\ ShapeAt(t, p, i + 1) /\ i + 1 \in Nat /\ i + 1 > 1
    BY <1>1 DEF Shape
  <2>2. ~First(p[i + 1]) /\ p[i + 1].do \notin {"deliver", "content", "flipped", "kick"}
    BY <2>1 DEF ShapeAt
  <2>3. ASSUME p[i + 1].do = "place" PROVE Placement(Tail(p), i)
    <3>1. PICK j \in DOMAIN p : j > i + 1 /\ p[j].do = "bundle"
      BY <2>1, <2>3 DEF ShapeAt, Placement
    <3>2. j - 1 \in DOMAIN Tail(p) /\ j - 1 > i /\ Tail(p)[j - 1] = p[j]
      BY <1>1, <2>1, <3>1
    <3>3. ASSUME NEW k \in DOMAIN Tail(p), k > i PROVE Tail(p)[k].do # "place"
      <4>1. k + 1 \in DOMAIN p /\ k + 1 > i + 1 /\ Tail(p)[k] = p[k + 1]
        BY <1>1, <2>1, <3>3
      <4> QED BY <2>1, <2>3, <4>1 DEF ShapeAt, Placement
    <3> QED BY <3>1, <3>2, <3>3 DEF Placement
  <2> QED BY <2>1, <2>2, <2>3 DEF ShapeAt
<1> QED BY <1>2 DEF Tame

\* A program that starts in a login hook has nothing in it that must come first.
LEMMA TameHook ==
    ASSUME NEW t, NEW p \in Seq(Steps), Shape(t, p), p # <<>> => p[1].do = "hook"
    PROVE  Tame(t, p)
<1>1. CASE p = <<>>
  BY <1>1 DEF Tame
<1>2. CASE p # <<>>
  <2>1. Len(p) \in Nat /\ 1 \in DOMAIN p /\ DOMAIN p = 1..Len(p) /\ p[1].do = "hook" /\ p[1] \in Steps
    BY <1>2
  <2>2. ASSUME NEW i \in DOMAIN p
        PROVE  ~First(p[i]) /\ p[i].do \notin {"deliver", "content", "flipped", "kick"}
    BY <2>1, <2>2 DEF Shape, ShapeAt, First
  <2> QED BY <2>2 DEF Tame, Shape, ShapeAt
<1> QED BY <1>1, <1>2

\* A program that opens with what a handler asks for.
LEMMA ShapeOpened ==
    ASSUME NEW t, NEW s \in Seq(Steps), NEW r \in Seq(Steps), Opens(t, s), Tame(t, r)
    PROVE  Shape(t, s \o r)
<1> DEFINE q == s \o r
<1>1. q \in Seq(Steps) /\ Len(q) = Len(s) + Len(r) /\ Len(s) \in Nat /\ Len(r) \in Nat
      /\ (\A i \in 1..Len(s) : q[i] = s[i]) /\ (\A i \in 1..Len(q) : i > Len(s) => q[i] = r[i - Len(s)])
  BY Prefixed
<1>2. ASSUME NEW i \in DOMAIN s PROVE ShapeAt(t, q, i)
  <2>1. i \in 1..Len(s) /\ i \in 1..Len(q) /\ i \in Nat /\ q[i] = s[i] /\ (i > 1 => q[i - 1] = s[i - 1]) /\ q[1] = s[1] /\ (Len(s) > 1 => q[2] = s[2])
    BY <1>1
  <2>2. ShapeAt(t, s, i) /\ s[i].do \notin {"flip", "flipped", "place"} /\ (s[i].do = "kick" => i = 1)
        /\ (s[i].do = "write" => Loc(s[i].new) = Loc(s[i].read) /\ s[i].new.defer = s[i].read.defer /\ (s[i].read.reload => s[i].new.reload))
    BY DEF Opens
  <2>3. (i >= 2 => q[2] = s[2]) /\ (Len(s) > 2 => Len(q) > 2 /\ q[3] = s[3])
    BY <1>1, <2>1
  <2> HIDE DEF q
  <2>4. q[i].do = "land" => Len(q) > 2 /\ q[3].do = "content"
    BY <2>1, <2>2, <2>3 DEF ShapeAt
  <2>5. Unparks(q[i]) => Len(q) > 1 /\ q[2].do = "bundle"
    BY <1>1, <2>1, <2>2 DEF ShapeAt
  <2>6. q[i].do = "kick" => i = 1
    BY <2>1, <2>2
  <2>7. q[i].do = "write" => Rewrites(t, q[i], Rest2(q))
    BY <2>1, <2>2 DEF Rewrites
  <2>8. q[i].do \in {"deliver", "content"} => \/ i = 1
                                              \/ i = 2 /\ q[1].do \in {"edit", "write"}
                                              \/ i = 3 /\ q[1].do \in {"moved", "land"} /\ q[2].do = "edit"
    BY <2>1, <2>2, <2>3 DEF ShapeAt
  <2>9. Wipes(q[i]) /\ i > 1 => Latches(q[i - 1])
    BY <2>1, <2>2 DEF ShapeAt
  <2>10. (First(q[i]) => i = 1) /\ (q[i].do \in {"hook", "place", "land", "flip", "flipped", "content"} => t = Packet)
    BY <2>1, <2>2 DEF ShapeAt
  <2>11. q[i].do \notin {"flip", "flipped", "place"}
    BY <2>1, <2>2
  <2> QED BY <2>4, <2>5, <2>6, <2>7, <2>8, <2>9, <2>10, <2>11 DEF ShapeAt
<1>3. ASSUME NEW i \in DOMAIN q, i \notin DOMAIN s PROVE ShapeAt(t, q, i)
  <2>1. i - Len(s) \in DOMAIN r /\ q[i] = r[i - Len(s)] /\ q[i] \in Steps
    <3>1. DOMAIN s = 1..Len(s) /\ DOMAIN r = 1..Len(r) /\ DOMAIN q = 1..Len(q)
      BY <1>1
    <3> HIDE DEF q
    <3> QED BY <1>1, <1>3, <3>1
  <2>2. /\ ~First(q[i]) /\ q[i].do \notin {"deliver", "content", "flipped", "kick"}
        /\ q[i].do \in {"hook", "place"} => t = Packet
    BY <2>1 DEF Tame
  <2>3. ASSUME q[i].do = "place" PROVE Placement(q, i)
    <3>0. Placement(r, i - Len(s))
      BY <2>1, <2>3 DEF Tame
    <3>1. PICK j \in DOMAIN r : j > i - Len(s) /\ r[j].do = "bundle"
      BY <3>0 DEF Placement
    <3>2. j + Len(s) \in DOMAIN q /\ j + Len(s) > i /\ q[j + Len(s)] = r[j]
      BY <1>1, <3>1
    <3>3. ASSUME NEW k \in DOMAIN q, k > i PROVE q[k].do # "place"
      <4>1. k - Len(s) \in DOMAIN r /\ k - Len(s) > i - Len(s) /\ q[k] = r[k - Len(s)]
        <5>1. DOMAIN s = 1..Len(s) /\ DOMAIN r = 1..Len(r) /\ DOMAIN q = 1..Len(q)
          BY <1>1
        <5> HIDE DEF q
        <5> QED BY <1>1, <1>3, <3>3, <5>1
      <4> QED BY <3>0, <4>1 DEF Placement
    <3> QED BY <3>1, <3>2, <3>3 DEF Placement
  <2>4. ~Wipes(q[i]) /\ ~Unparks(q[i]) /\ q[i].do \notin {"write", "flip", "land"}
    BY <2>2 DEF Wipes, Unparks, First
  <2> HIDE DEF q
  <2> QED BY <2>2, <2>3, <2>4 DEF ShapeAt
<1>4. Shape(t, q)
  <2> HIDE DEF q
  <2> QED BY <1>2, <1>3 DEF Shape
<1> QED BY <1>4

\* A step is done.
LEMMA ShapePopped ==
    ASSUME NEW t, NEW p \in Seq(Steps), p # <<>>, Shape(t, p)
    PROVE  Shape(t, <<>> \o Tail(p)) /\ <<>> \o Tail(p) = Tail(p)
<1> DEFINE q == Tail(p)
<1>1. q \in Seq(Steps) /\ Len(q) = Len(p) - 1 /\ Len(p) \in Nat /\ Len(p) > 0 /\ <<>> \o Tail(p) = q
      /\ \A i \in 1..Len(q) : q[i] = p[i + 1] /\ i + 1 \in DOMAIN p
  OBVIOUS
<1>2. ASSUME NEW i \in DOMAIN q PROVE ShapeAt(t, q, i)
  <2>1. i \in Nat /\ i >= 1 /\ i + 1 > 1 /\ i + 1 \in DOMAIN p /\ q[i] = p[i + 1] /\ ShapeAt(t, p, i + 1) /\ q[i] \in Steps
    BY <1>1 DEF Shape
  <2>2. ~First(q[i]) /\ ~Unparks(q[i]) /\ q[i].do \notin {"write", "flip", "land"}
    BY <2>1 DEF ShapeAt, First, Unparks
  <2>3. q[i].do \in {"deliver", "content"} => i = 1 \/ (i = 2 /\ q[1].do = "edit")
    <3>1. i = 2 => q[1] = p[2]
      BY <1>1
    <3> HIDE DEF q
    <3> QED BY <1>1, <2>1, <3>1 DEF ShapeAt
  <2>4. Wipes(q[i]) /\ i > 1 => Latches(q[i - 1])
    <3>1. i > 1 => i - 1 \in 1..Len(q) /\ q[i - 1] = p[i] /\ i + 1 - 1 = i
      BY <1>1, <2>1
    <3> HIDE DEF q
    <3> QED BY <2>1, <3>1 DEF ShapeAt
  <2>5. (q[i].do = "flipped" => Len(q) = i /\ i = 1) /\ (q[i].do = "kick" => i = 1)
    <3> HIDE DEF q
    <3>1. q[i].do = "flipped" => Len(p) = i + 1 /\ i + 1 <= 2
      BY <2>1 DEF ShapeAt
    <3>2. q[i].do = "kick" => i + 1 = 2
      BY <2>1 DEF ShapeAt
    <3> QED BY <1>1, <2>1, <3>1, <3>2
  <2>6. ASSUME q[i].do = "place" PROVE Placement(q, i)
    <3>1. PICK j \in DOMAIN p : j > i + 1 /\ p[j].do = "bundle"
      BY <2>1, <2>6 DEF ShapeAt, Placement
    <3>2. j - 1 \in DOMAIN q /\ j - 1 > i /\ q[j - 1] = p[j]
      BY <1>1, <2>1, <3>1
    <3>3. ASSUME NEW k \in DOMAIN q, k > i PROVE q[k].do # "place"
      <4>1. k + 1 \in DOMAIN p /\ k + 1 > i + 1 /\ q[k] = p[k + 1]
        BY <1>1, <2>1, <3>3
      <4> QED BY <2>1, <2>6, <4>1 DEF ShapeAt, Placement
    <3> QED BY <3>1, <3>2, <3>3 DEF Placement
  <2>7. q[i].do \in {"hook", "place", "land", "flip", "flipped", "content"} => t = Packet
    BY <2>1 DEF ShapeAt
  <2> HIDE DEF q
  <2> QED BY <2>2, <2>3, <2>4, <2>5, <2>6, <2>7 DEF ShapeAt
<1>3. Shape(t, q)
  <2> HIDE DEF q
  <2> QED BY <1>2 DEF Shape
<1> QED BY <1>1, <1>3

\* An edit has read the record.
LEMMA ShapeRead ==
    ASSUME NEW t, NEW p \in Seq(Steps), p # <<>>, Shape(t, p), p[1].do = "edit", NEW s \in Sessions
    PROVE  Shape(t, <<Write(s, Edited(s, p[1].e))>> \o Tail(p))
<1> DEFINE w == Write(s, Edited(s, p[1].e))
<1> DEFINE q == <<w>> \o Tail(p)
<1>1. p[1] \in Steps /\ p[1].e \in Edits \cup Owners \cup Zones
  BY StepFields
<1>2. Edited(s, p[1].e) \in Sessions /\ w \in Steps
  BY <1>1, EditedFacts, StepTypes
<1>3. w.do = "write" /\ w.read = s /\ w.new = Edited(s, p[1].e) /\ Rewrites(t, w, Rest2(q))
  BY <1>1, EditedFacts DEF Write, Rewrites, Loc
<1>4. (Latches(p[1]) => Latches(w)) /\ (Unparks(w) => Unparks(p[1])) /\ ~Wipes(w)
  <2>1. /\ p[1].e = "latch" => w.new.reload
        /\ w.read.parked /\ p[1].e # "unpark" => w.new.parked
    BY <1>1, <1>3, EditedFacts
  <2> HIDE DEF w
  <2> QED BY <1>3, <2>1 DEF Latches, Unparks, Wipes
<1>5. q \in Seq(Steps) /\ Len(q) = Len(p) /\ Len(p) \in Nat /\ Len(p) > 0 /\ q[1] = w /\ \A i \in 1..Len(p) : i > 1 => q[i] = p[i]
  BY <1>2
<1> HIDE DEF q, w
<1>6. ASSUME NEW i \in DOMAIN q, i > 1 PROVE ShapeAt(t, q, i)
  <2>1. i \in DOMAIN p /\ i \in Nat /\ q[i] = p[i] /\ ShapeAt(t, p, i) /\ (i > 2 => q[i - 1] = p[i - 1]) /\ (i = 2 => i - 1 = 1)
    BY <1>5, <1>6 DEF Shape
  <2>2. Wipes(q[i]) => Latches(q[i - 1])
    BY <1>4, <1>5, <1>6, <2>1 DEF ShapeAt
  <2>3. q[i].do = "place" => Placement(q, i)
    BY <1>5, <1>6, <2>1 DEF ShapeAt, Placement
  <2>4. q[i].do \notin {"flip", "flipped", "write", "kick", "land"} /\ ~Unparks(q[i]) /\ ~First(q[i])
    BY <1>6, <2>1 DEF ShapeAt, Unparks, First
  <2>5. q[i].do \in {"deliver", "content"} => i = 2
    BY <1>6, <2>1 DEF ShapeAt
  <2>6. q[i].do \in {"hook", "place", "land", "flip", "flipped", "content"} => t = Packet
    BY <2>1 DEF ShapeAt
  <2> QED BY <1>3, <1>5, <1>6, <2>2, <2>3, <2>4, <2>5, <2>6 DEF ShapeAt
<1>7. ShapeAt(t, q, 1)
  <2>1. 1 \in DOMAIN p /\ ShapeAt(t, p, 1)
    BY <1>5 DEF Shape
  <2>2. Unparks(q[1]) => Len(q) > 1 /\ q[2].do = "bundle"
    BY <1>4, <1>5, <2>1 DEF ShapeAt
  <2> QED BY <1>3, <1>4, <1>5, <2>2 DEF ShapeAt
<1>8. Shape(t, q)
  BY <1>5, <1>6, <1>7 DEF Shape
<1> QED BY <1>8 DEF q, w

-----------------------------------------------------------------------------
(* The invariant of all *)

\* The commands a script gives, and what each decides before it is carried out.
Ordered(t, s) ==
    \/ \E e \in {"touch"} \cup Owners \cup Zones : s = <<Edit(e)>> /\ (e # "touch" => t = Packet)
    \/ \E l \in Destinations : s = <<To("check", l)>>
    \/ s = <<Do("kick")>> /\ online /\ (session # NoSession => ~session.reload)
    \/ session # NoSession /\ \E n \in Sessions : /\ s = <<Write(session, n)>> /\ Loc(n) = Loc(session) /\ n.defer = session.defer
                                                 /\ n.reload = session.reload /\ n.parked = session.parked
    \/ t = Packet /\ \E z \in Arenas : s = <<To("land", <<z, Public>>), Edit("latch"), Do("content")>>
Issued(t, s) ==
    /\ MayIssue(t) /\ Issue(t, s) /\ Ordered(t, s)
    /\ UNCHANGED <<server, client, uplink, warps, left, disturbed, broken>>

\* A program of one step.
LEMMA Single == ASSUME NEW x \in Steps PROVE <<x>> \in Seq(Steps)
  OBVIOUS

\* Every command is one of these.
LEMMA CommandIssued ==
    ASSUME TypeOK, NEW t \in Tasks,
           Command(t) \/ (\E z \in Arenas : CreateContentArea(z) \/ ContentWarp(z)) \/ (\E owner \in Owners : LoginKick(owner))
    PROVE  \E u \in Tasks, s \in Seq(Steps) : Issued(u, s)
<1>1. Packet \in Tasks
  BY DEF Tasks
<1>2. ASSUME NEW loc \in Destinations, Warp(t, loc) PROVE Issued(t, <<To("check", loc)>>) /\ <<To("check", loc)>> \in Seq(Steps)
  BY <1>2, Single, StepTypes, ZonesAssumption DEF Warp, Issued, Ordered, Places
<1>3. ASSUME Touch(t) PROVE Issued(t, <<Edit("touch")>>) /\ <<Edit("touch")>> \in Seq(Steps)
  BY <1>3, Single, StepTypes DEF Touch, Issued, Ordered, Edits
<1>4. ASSUME ContentFinished(t)
      PROVE  LET n == [session EXCEPT !.content = None, !.contentKick = FALSE] IN Issued(t, <<Write(session, n)>>) /\ <<Write(session, n)>> \in Seq(Steps)
  <2> DEFINE n == [session EXCEPT !.content = None, !.contentKick = FALSE]
  <2>1. session \in Sessions
    BY <1>4 DEF ContentFinished, TypeOK
  <2>2. n \in Sessions /\ Loc(n) = Loc(session) /\ n.defer = session.defer /\ n.reload = session.reload /\ n.parked = session.parked
    BY <2>1 DEF Sessions, Loc
  <2>3. MayIssue(t) /\ session # NoSession /\ Issue(t, <<Write(session, n)>>)
        /\ UNCHANGED <<server, client, uplink, warps, left, disturbed, broken>>
    BY <1>4 DEF ContentFinished
  <2> HIDE DEF n
  <2>4. Issued(t, <<Write(session, n)>>) /\ <<Write(session, n)>> \in Seq(Steps)
    BY <2>1, <2>2, <2>3, Single, StepTypes DEF Issued, Ordered
  <2> QED BY <2>4 DEF n
<1>5. ASSUME NEW owner \in Owners, KickEvent(t, owner)
      PROVE  \E s \in Seq(Steps) : Issued(t, s)
  <2> DEFINE n == [session EXCEPT !.contentKick = TRUE]
  <2>1. MayIssue(t) /\ online /\ UNCHANGED <<server, client, uplink, warps, left, disturbed, broken>>
    BY <1>5 DEF KickEvent
  <2>2. CASE session # NoSession /\ (session.reload \/ (owner = "director" /\ session.content # None /\ ~session.acked))
    <3>1. session \in Sessions
      BY <2>2 DEF TypeOK
    <3>2. n \in Sessions /\ Loc(n) = Loc(session) /\ n.defer = session.defer /\ n.reload = session.reload /\ n.parked = session.parked
      BY <3>1 DEF Sessions, Loc
    <3>3. Issue(t, <<Write(session, n)>>)
      BY <1>5, <2>2 DEF KickEvent
    <3> HIDE DEF n
    <3>4. Issued(t, <<Write(session, n)>>) /\ <<Write(session, n)>> \in Seq(Steps)
      BY <2>1, <2>2, <3>1, <3>2, <3>3, Single, StepTypes DEF Issued, Ordered
    <3> QED BY <3>4
  <2>3. CASE ~(session # NoSession /\ (session.reload \/ (owner = "director" /\ session.content # None /\ ~session.acked)))
    <3>1. Issue(t, <<Do("kick")>>)
      BY <1>5, <2>3 DEF KickEvent
    <3>2. Issued(t, <<Do("kick")>>) /\ <<Do("kick")>> \in Seq(Steps)
      BY <2>1, <2>3, <3>1, Single, StepTypes DEF Issued, Ordered
    <3> QED BY <3>2
  <2> QED BY <2>2, <2>3
<1>6. ASSUME NEW z \in Arenas, CreateContentArea(z) PROVE Issued(Packet, <<Edit(z)>>) /\ <<Edit(z)>> \in Seq(Steps)
  BY <1>6, Single, StepTypes, ZonesAssumption DEF CreateContentArea, Issued, Ordered
<1>7. ASSUME NEW z \in Arenas, ContentWarp(z)
      PROVE  Issued(Packet, <<To("land", <<z, Public>>), Edit("latch"), Do("content")>>)
             /\ <<To("land", <<z, Public>>), Edit("latch"), Do("content")>> \in Seq(Steps)
  <2>1. <<z, Public>> \in Places
    BY ZonesAssumption DEF Places, Names
  <2>2. To("land", <<z, Public>>) \in Steps /\ Edit("latch") \in Steps /\ Do("content") \in Steps
    BY <2>1, StepTypes DEF Edits
  <2> QED BY <1>7, <2>2 DEF ContentWarp, Issued, Ordered
<1>8. ASSUME NEW owner \in Owners, LoginKick(owner) PROVE Issued(Packet, <<Edit(owner)>>) /\ <<Edit(owner)>> \in Seq(Steps)
  BY <1>8, Single, StepTypes DEF LoginKick, Issued, Ordered
<1>9. CASE Command(t)
  <2>1. (\E loc \in Destinations : Warp(t, loc)) \/ Touch(t) \/ ContentFinished(t) \/ (\E owner \in Owners : KickEvent(t, owner))
    BY <1>9 DEF Command
  <2>2. ASSUME NEW loc \in Destinations, Warp(t, loc) PROVE \E s \in Seq(Steps) : Issued(t, s)
    BY <1>2, <2>2
  <2>3. ASSUME Touch(t) PROVE \E s \in Seq(Steps) : Issued(t, s)
    BY <1>3, <2>3
  <2>4. ASSUME ContentFinished(t) PROVE \E s \in Seq(Steps) : Issued(t, s)
    BY <1>4, <2>4
  <2> QED BY <1>5, <2>1, <2>2, <2>3, <2>4
<1>10. CASE \E z \in Arenas : CreateContentArea(z) \/ ContentWarp(z)
  <2>1. PICK z \in Arenas : CreateContentArea(z) \/ ContentWarp(z)
    BY <1>10
  <2>2. CASE CreateContentArea(z)
    BY <1>1, <1>6, <2>2
  <2>3. CASE ContentWarp(z)
    BY <1>1, <1>7, <2>3
  <2> QED BY <2>1, <2>2, <2>3
<1>11. CASE \E owner \in Owners : LoginKick(owner)
  <2>1. PICK owner \in Owners : LoginKick(owner)
    BY <1>11
  <2> QED BY <1>1, <1>8, <2>1
<1> QED BY <1>9, <1>10, <1>11

\* What a command opens with.
LEMMA OrderedFacts ==
    ASSUME TypeOK, NEW t \in Tasks, NEW s \in Seq(Steps), Ordered(t, s)
    PROVE  /\ Opens(t, s)
           /\ \A i \in DOMAIN s : s[i].do \in {"edit", "check", "kick", "write", "land", "content"} /\ ~Unparks(s[i])
<1>1. ASSUME NEW e \in {"touch"} \cup Owners \cup Zones, s = <<Edit(e)>> PROVE Opens(t, s) /\ s[1].do = "edit" /\ ~Unparks(s[1]) /\ DOMAIN s = {1}
  <2>1. e # "unpark"
    BY ZonesAssumption DEF Owners, Edits
  <2>2. s[1].do = "edit" /\ s[1].e = e /\ DOMAIN s = {1}
    BY <1>1 DEF Edit
  <2> QED BY <2>1, <2>2 DEF Opens, ShapeAt, Unparks, Wipes
<1>2. ASSUME NEW l \in Destinations, s = <<To("check", l)>> PROVE Opens(t, s) /\ s[1].do = "check" /\ ~Unparks(s[1]) /\ DOMAIN s = {1}
  <2>1. s[1].do = "check" /\ DOMAIN s = {1}
    BY <1>2 DEF To
  <2> QED BY <2>1 DEF Opens, ShapeAt, Unparks, Wipes
<1>3. ASSUME s = <<Do("kick")>> PROVE Opens(t, s) /\ s[1].do = "kick" /\ ~Unparks(s[1]) /\ DOMAIN s = {1}
  <2>1. s[1].do = "kick" /\ DOMAIN s = {1}
    BY <1>3 DEF Do
  <2> QED BY <2>1 DEF Opens, ShapeAt, Unparks, Wipes
<1>4. ASSUME NEW n \in Sessions, s = <<Write(session, n)>>, Loc(n) = Loc(session), n.defer = session.defer,
             n.reload = session.reload, n.parked = session.parked
      PROVE  Opens(t, s) /\ s[1].do = "write" /\ ~Unparks(s[1]) /\ DOMAIN s = {1}
  <2>1. s[1].do = "write" /\ s[1].read = session /\ s[1].new = n /\ DOMAIN s = {1}
    BY <1>4 DEF Write
  <2> QED BY <1>4, <2>1 DEF Opens, ShapeAt, Unparks, Wipes, Rewrites
<1>5. ASSUME NEW z \in Arenas, t = Packet, s = <<To("land", <<z, Public>>), Edit("latch"), Do("content")>>
      PROVE  Opens(t, s) /\ DOMAIN s = {1, 2, 3} /\ \A i \in {1, 2, 3} : s[i].do \in {"land", "edit", "content"} /\ ~Unparks(s[i])
  <2>1. s[1].do = "land" /\ s[2].do = "edit" /\ s[2].e = "latch" /\ s[3].do = "content" /\ DOMAIN s = {1, 2, 3}
    BY <1>5 DEF To, Edit, Do
  <2>2. ~Unparks(s[1]) /\ ~Unparks(s[2]) /\ ~Unparks(s[3]) /\ Latches(s[2]) /\ ~Wipes(s[1]) /\ ~Wipes(s[2]) /\ ~First(s[2]) /\ ~First(s[3])
    BY <2>1 DEF Unparks, Latches, Wipes, First
  <2>3. ShapeAt(t, s, 1)
    BY <1>5, <2>1, <2>2 DEF ShapeAt
  <2>4. ShapeAt(t, s, 2)
    BY <1>5, <2>1, <2>2 DEF ShapeAt
  <2>5. ShapeAt(t, s, 3)
    BY <1>5, <2>1, <2>2 DEF ShapeAt
  <2> QED BY <2>1, <2>2, <2>3, <2>4, <2>5 DEF Opens
<1>6. ASSUME Opens(t, s), DOMAIN s = {1}, s[1].do \in {"edit", "check", "kick", "write"}, ~Unparks(s[1])
      PROVE  /\ Opens(t, s)
             /\ \A i \in DOMAIN s : s[i].do \in {"edit", "check", "kick", "write", "land", "content"} /\ ~Unparks(s[i])
  BY <1>6
<1>7. CASE \E e \in {"touch"} \cup Owners \cup Zones : s = <<Edit(e)>>
  BY <1>1, <1>6, <1>7
<1>8. CASE \E l \in Destinations : s = <<To("check", l)>>
  BY <1>2, <1>6, <1>8
<1>9. CASE s = <<Do("kick")>>
  BY <1>3, <1>6, <1>9
<1>10. CASE session # NoSession /\ \E n \in Sessions : /\ s = <<Write(session, n)>> /\ Loc(n) = Loc(session) /\ n.defer = session.defer
                                                       /\ n.reload = session.reload /\ n.parked = session.parked
  BY <1>4, <1>6, <1>10
<1>11. CASE t = Packet /\ \E z \in Arenas : s = <<To("land", <<z, Public>>), Edit("latch"), Do("content")>>
  <2>1. Opens(t, s) /\ DOMAIN s = {1, 2, 3} /\ \A i \in {1, 2, 3} : s[i].do \in {"land", "edit", "content"} /\ ~Unparks(s[i])
    BY <1>5, <1>11
  <2> QED BY <2>1
<1> QED BY <1>7, <1>8, <1>9, <1>10, <1>11 DEF Ordered

\* The program of the task that is given a command.
LEMMA IssuedProgram ==
    ASSUME Inv, NEW t \in Tasks, NEW s \in Seq(Steps), Issued(t, s)
    PROVE  /\ program' \in [Tasks -> Seq(Steps)] /\ program'[t] = s \o program[t] /\ program'[Other(t)] = program[Other(t)]
           /\ Other(t) \in Tasks /\ Tasks = {t, Other(t)} /\ Other(t) # t
           /\ Shape(t, program'[t]) /\ Shape(Other(t), program'[Other(t)])
           /\ online /\ session \in Sessions /\ online' /\ session' = session /\ placed' = placed /\ reg' = reg /\ saved' = saved
           /\ client' = client /\ uplink' = uplink /\ warps' = warps /\ left' = left /\ disturbed' = disturbed /\ broken' = broken
           /\ commands' = commands + 1
           /\ program[t] # <<>> => program[t][1].do = "hook"
<1>1. program[t] \in Seq(Steps) /\ (program[t] # <<>> => program[t][1].do = "hook") /\ reg # None
  BY DEF Inv, TypeOK, Issued, MayIssue, Step
<1>2. s \o program[t] \in Seq(Steps) /\ program' = [program EXCEPT ![t] = s \o program[t]] /\ commands' = commands + 1
  BY <1>1 DEF Issued, Issue
<1>3. Tame(t, program[t])
  BY <1>1, TameHook DEF Inv, ShapeInv
<1>4. Shape(t, s \o program[t])
  BY <1>1, <1>3, OrderedFacts, ShapeOpened DEF Inv, Issued
<1>5. program' \in [Tasks -> Seq(Steps)] /\ program'[t] = s \o program[t] /\ program'[Other(t)] = program[Other(t)]
      /\ Other(t) \in Tasks /\ Other(t) # t /\ Tasks = {t, Other(t)}
  BY <1>2, Replaced DEF Inv
<1>6. online /\ session \in Sessions
  BY <1>1 DEF Inv, OnlineInv, TypeOK
<1> QED BY <1>1, <1>2, <1>4, <1>5, <1>6 DEF Inv, ShapeInv, Issued, server

\* Inv holds after a script command, a content warp or a login's kick.
LEMMA IssuedInv ==
    ASSUME Inv, NEW t \in Tasks, NEW s \in Seq(Steps), Issued(t, s)
    PROVE  Inv'
<1>1. /\ program' \in [Tasks -> Seq(Steps)] /\ Tasks = {t, Other(t)}
      /\ Shape(t, program'[t]) /\ Shape(Other(t), program'[Other(t)])
      /\ online /\ session \in Sessions /\ online' /\ session' = session /\ placed' = placed /\ reg' = reg /\ saved' = saved
      /\ client' = client /\ uplink' = uplink /\ warps' = warps /\ left' = left /\ disturbed' = disturbed /\ broken' = broken
      /\ commands' = commands + 1
  BY IssuedProgram
<1>2. TypeOK'
  BY <1>1 DEF Inv, TypeOK
<1>3. ShapeInv'
  BY <1>1 DEF ShapeInv
<1>4. OnlineInv'
  BY <1>1 DEF Inv, OnlineInv
<1> QED BY <1>2, <1>3, <1>4 DEF Inv

-----------------------------------------------------------------------------
(* The steps of a task *)

Pops(p, q) == Len(q) = Len(p) - 1 /\ Len(p) \in Nat /\ \A i \in DOMAIN q : q[i] = p[i + 1] /\ i + 1 \in DOMAIN p /\ i \in Nat /\ i > 0
Swaps(p, q, x) == Len(q) = Len(p) /\ DOMAIN q = DOMAIN p /\ 1 \in DOMAIN p /\ q[1] = x
                  /\ \A i \in DOMAIN q : i \in Nat /\ i > 0 /\ (i > 1 => q[i] = p[i])

\* A task has gone on with its program, and the other task has not.
Goes(t) ==
    /\ program' \in [Tasks -> Seq(Steps)] /\ program'[Other(t)] = program[Other(t)]
    /\ Other(t) \in Tasks /\ Other(t) # t /\ Tasks = {t, Other(t)}
    /\ Shape(t, program'[t])
    /\ program[t] \in Seq(Steps) /\ program[t] # <<>> /\ 1 \in DOMAIN program[t]
    /\ Step(t) = program[t][1] /\ Step(t) \in Steps

\* The next step of a program, and the shape it stands in.
LEMMA Stepping ==
    ASSUME Inv, NEW t \in Tasks, program[t] # <<>>
    PROVE  /\ program[t] \in Seq(Steps) /\ 1 \in DOMAIN program[t] /\ Step(t) = program[t][1] /\ Step(t) \in Steps
           /\ ShapeAt(t, program[t], 1) /\ Shape(t, program[t])
<1>1. program[t] \in Seq(Steps)
  BY DEF Inv, TypeOK
<1>2. Shape(t, program[t])
  BY DEF Inv, ShapeInv
<1> QED BY <1>1, <1>2, HeadIs DEF Step, Shape

\* A step that is done leaves the rest of the program, in shape.
LEMMA Popping ==
    ASSUME Inv, NEW t \in Tasks, program[t] # <<>>, Done(t)
    PROVE  Goes(t) /\ Pops(program[t], program'[t])
<1> DEFINE q == <<>> \o Tail(program[t])
<1>1. program[t] \in Seq(Steps) /\ Shape(t, program[t]) /\ 1 \in DOMAIN program[t] /\ Step(t) = program[t][1] /\ Step(t) \in Steps
  BY Stepping
<1>2. q \in Seq(Steps) /\ Pops(program[t], q) /\ program' = [program EXCEPT ![t] = q]
  BY <1>1 DEF Done, Instead, Pops
<1>3. Shape(t, q)
  BY <1>1, ShapePopped
<1> HIDE DEF q
<1>4. program' \in [Tasks -> Seq(Steps)] /\ program'[t] = q /\ program'[Other(t)] = program[Other(t)]
      /\ Other(t) \in Tasks /\ Other(t) # t /\ Tasks = {t, Other(t)}
  BY <1>2, Replaced DEF Inv
<1> QED BY <1>1, <1>2, <1>3, <1>4 DEF Goes

\* A step replaced by one other leaves a program in shape where that one may come first.
LEMMA Swapping ==
    ASSUME Inv, NEW t \in Tasks, program[t] # <<>>, NEW x \in Steps, Instead(t, <<x>>),
           Shape(t, <<x>> \o Tail(program[t]))
    PROVE  Goes(t) /\ Swaps(program[t], program'[t], x)
<1> DEFINE q == <<x>> \o Tail(program[t])
<1>1. program[t] \in Seq(Steps) /\ 1 \in DOMAIN program[t] /\ Step(t) = program[t][1] /\ Step(t) \in Steps
  BY Stepping
<1>2. q \in Seq(Steps) /\ Swaps(program[t], q, x) /\ program' = [program EXCEPT ![t] = q]
  BY <1>1 DEF Instead, Swaps
<1> HIDE DEF q
<1>4. program' \in [Tasks -> Seq(Steps)] /\ program'[t] = q /\ program'[Other(t)] = program[Other(t)]
      /\ Other(t) \in Tasks /\ Other(t) # t /\ Tasks = {t, Other(t)}
  BY <1>2, Replaced DEF Inv
<1>5. Shape(t, q)
  BY DEF q
<1> QED BY <1>1, <1>2, <1>4, <1>5 DEF Goes

\* A step that stands for itself, in the place of one that is not waited for.
LEMMA SwappingTame ==
    ASSUME Inv, NEW t \in Tasks, program[t] # <<>>, NEW x \in Steps, Instead(t, <<x>>), Opens(t, <<x>>),
           Step(t).do \notin {"edit", "write", "moved", "land", "flip"}
    PROVE  Goes(t) /\ Swaps(program[t], program'[t], x)
<1>1. program[t] \in Seq(Steps) /\ Shape(t, program[t]) /\ Step(t) = program[t][1]
  BY Stepping
<1>2. Tame(t, Tail(program[t])) /\ Tail(program[t]) \in Seq(Steps) /\ <<x>> \in Seq(Steps)
  BY <1>1, TameRest
<1>3. Shape(t, <<x>> \o Tail(program[t]))
  BY <1>2, ShapeOpened
<1> QED BY <1>3, Swapping

\* Three steps in the place of one.
Splices(p, q, s) ==
    /\ Len(q) = Len(p) + 2 /\ Len(p) \in Nat /\ {1, 2, 3} \subseteq DOMAIN q
    /\ q[1] = s[1] /\ q[2] = s[2] /\ q[3] = s[3]
    /\ \A i \in DOMAIN q : i \in Nat /\ i > 0 /\ (i > 3 => q[i] = p[i - 2] /\ i - 2 \in DOMAIN p)

Three(s) == Len(s) = 3

\* A program that is given three steps to do first.
LEMMA ThreeFirst ==
    ASSUME NEW S, NEW p \in Seq(S), NEW s \in Seq(S), Three(s)
    PROVE  LET q == s \o p IN
           /\ q \in Seq(S) /\ Len(q) = Len(p) + 3 /\ Len(p) \in Nat
           /\ \A i \in 1..3 : q[i] = s[i]
           /\ \A i \in 1..Len(q) : i > 3 => q[i] = p[i - 3]
<1> DEFINE q == s \o p
<1>1. q \in Seq(S) /\ Len(q) = Len(s) + Len(p) /\ Len(p) \in Nat /\ Len(s) \in Nat
  OBVIOUS
<1>2. \A i \in 1..Len(s) : q[i] = s[i]
  OBVIOUS
<1>3. \A i \in 1..Len(q) : i > Len(s) => q[i] = p[i - Len(s)]
  BY Prefixed
<1>4. Len(s) = 3
  BY DEF Three
<1> HIDE DEF q
<1> QED BY <1>1, <1>2, <1>3, <1>4 DEF q

\* A step replaced by three.
LEMMA SplicedThree ==
    ASSUME NEW S, NEW p \in Seq(S), p # <<>>, NEW s \in Seq(S), Three(s)
    PROVE  s \o Tail(p) \in Seq(S) /\ Splices(p, s \o Tail(p), s)
<1>1. Tail(p) \in Seq(S) /\ Len(Tail(p)) = Len(p) - 1 /\ Len(p) \in Nat /\ Len(p) > 0 /\ \A i \in 1..Len(p) - 1 : Tail(p)[i] = p[i + 1]
  OBVIOUS
<1> DEFINE r == Tail(p)
<1> HIDE DEF r
<1>2. r \in Seq(S) /\ Len(r) = Len(p) - 1 /\ \A i \in 1..Len(p) - 1 : r[i] = p[i + 1]
  BY <1>1 DEF r
<1> DEFINE q == s \o r
<1>3. r \in Seq(S)
  BY <1>2
<1>4. q \in Seq(S) /\ Len(q) = Len(r) + 3 /\ (\A i \in 1..3 : q[i] = s[i]) /\ (\A i \in 1..Len(q) : i > 3 => q[i] = r[i - 3])
  BY <1>3, ThreeFirst
<1> HIDE DEF q
<1>5. DOMAIN q = 1..Len(q) /\ DOMAIN p = 1..Len(p) /\ Len(q) = Len(p) + 2
  BY <1>1, <1>2, <1>4
<1>6. ASSUME NEW i \in DOMAIN q, i > 3 PROVE q[i] = p[i - 2] /\ i - 2 \in DOMAIN p
  <2>1. i \in 1..Len(q) /\ i - 3 \in 1..Len(p) - 1 /\ i - 3 + 1 = i - 2 /\ i - 2 \in 1..Len(p)
    BY <1>1, <1>5, <1>6
  <2> QED BY <1>2, <1>4, <1>5, <1>6, <2>1
<1>7. \A i \in DOMAIN q : i \in Nat /\ i > 0
  BY <1>5
<1>8. {1, 2, 3} \subseteq DOMAIN q
  BY <1>1, <1>5
<1>9. q[1] = s[1] /\ q[2] = s[2] /\ q[3] = s[3]
  BY <1>4
<1>10. q \in Seq(S) /\ Splices(p, q, s)
  BY <1>1, <1>4, <1>5, <1>6, <1>7, <1>8, <1>9 DEF Splices
<1> QED BY <1>10 DEF q, r

\* The program of a move is such.
LEMMA Splicing ==
    ASSUME Inv, NEW t \in Tasks, program[t] # <<>>, NEW s \in Seq(Steps), Three(s), Instead(t, s), Opens(t, s),
           Step(t).do \notin {"edit", "write", "moved", "land", "flip"}
    PROVE  Goes(t) /\ Splices(program[t], program'[t], s)
<1>1. program[t] \in Seq(Steps) /\ Shape(t, program[t]) /\ Step(t) = program[t][1] /\ 1 \in DOMAIN program[t] /\ Step(t) \in Steps
  BY Stepping
<1>2. Tame(t, Tail(program[t])) /\ Tail(program[t]) \in Seq(Steps)
  BY <1>1, TameRest
<1>3. Shape(t, s \o Tail(program[t]))
  BY <1>2, ShapeOpened
<1> DEFINE q == s \o Tail(program[t])
<1>4. q \in Seq(Steps) /\ Splices(program[t], q, s)
  BY <1>1, SplicedThree
<1>5. program' = [program EXCEPT ![t] = q]
  BY DEF Instead
<1> HIDE DEF q
<1>6. program' \in [Tasks -> Seq(Steps)] /\ program'[t] = q /\ program'[Other(t)] = program[Other(t)]
      /\ Other(t) \in Tasks /\ Other(t) # t /\ Tasks = {t, Other(t)}
  BY <1>4, <1>5, Replaced DEF Inv
<1>7. Shape(t, q)
  BY <1>3 DEF q
<1> QED BY <1>1, <1>4, <1>6, <1>7 DEF Goes

\* What a task's step must leave for the invariant to go on.
LEMMA GoesInv ==
    ASSUME Inv, NEW t \in Tasks, Goes(t), TypeOK', online' = online, disturbed \subseteq disturbed',
           online => session' # NoSession /\ reg' # None,
           ~online => reg' = None /\ client' = client /\ uplink' = uplink
    PROVE  Inv'
<1>1. ShapeInv'
  BY DEF Goes, ShapeInv, Inv
<1>2. disturbed' = {} => disturbed = {}
  OBVIOUS
<1>3. ~Quiet
  BY DEF Goes, Quiet
<1>4. OnlineInv'
  BY <1>2, <1>3 DEF OnlineInv, Inv
<1> QED BY <1>1, <1>4 DEF Inv

\* The first step of each handler, and what is left to do.
LEMMA ReadFacts ==
    ASSUME Inv, NEW t \in Tasks, ReadSession(t)
    PROVE  /\ Goes(t) /\ Step(t).do = "edit" /\ Step(t).e \in Edits \cup Owners \cup Zones
           /\ session = NoSession => Pops(program[t], program'[t])
           /\ session # NoSession => session \in Sessions /\ Swaps(program[t], program'[t], Write(session, Edited(session, Step(t).e)))
<1>1. program[t] # <<>> /\ Step(t).do = "edit"
  BY DEF ReadSession, At, Step
<1>2. program[t] \in Seq(Steps) /\ Shape(t, program[t]) /\ Step(t) = program[t][1] /\ Step(t) \in Steps
  BY <1>1, Stepping
<1>3. Step(t).e \in Edits \cup Owners \cup Zones
  BY <1>1, <1>2, StepFields
<1>4. CASE session = NoSession
  BY <1>1, <1>3, <1>4, Popping DEF ReadSession
<1>5. CASE session # NoSession
  <2>1. session \in Sessions /\ Instead(t, <<Write(session, Edited(session, Step(t).e))>>)
    BY <1>5 DEF Inv, TypeOK, ReadSession
  <2>2. Write(session, Edited(session, Step(t).e)) \in Steps
    BY <1>3, <2>1, EditedFacts, StepTypes
  <2>3. Shape(t, <<Write(session, Edited(session, Step(t).e))>> \o Tail(program[t]))
    BY <1>1, <1>2, <2>1, ShapeRead
  <2> QED BY <1>1, <1>3, <1>5, <2>1, <2>2, <2>3, Swapping
<1> QED BY <1>4, <1>5

\* upsert_session stores the clone it holds, an edit that Rewrites describes.
LEMMA UpsertFacts ==
    ASSUME Inv, NEW t \in Tasks, UpsertSession(t)
    PROVE  /\ Goes(t) /\ Step(t).do = "write" /\ Pops(program[t], program'[t])
           /\ session' = Step(t).new /\ session' \in Sessions /\ Step(t).read \in Sessions
           /\ Rewrites(t, Step(t), Rest2(program[t]))
<1>1. program[t] # <<>> /\ Step(t).do = "write" /\ Done(t) /\ session' = Step(t).new
  BY DEF UpsertSession, At, Step
<1>2. program[t] \in Seq(Steps) /\ ShapeAt(t, program[t], 1) /\ Step(t) = program[t][1] /\ Step(t) \in Steps
  BY <1>1, Stepping
<1>3. Step(t).new \in Sessions /\ Step(t).read \in Sessions
  BY <1>1, <1>2, StepFields
<1> QED BY <1>1, <1>2, <1>3, Popping DEF ShapeAt

\* A warp is parked in the record during a login, and else goes on to move the player.
LEMMA CheckFacts ==
    ASSUME Inv, NEW t \in Tasks, CheckDeferral(t)
    PROVE  /\ Goes(t) /\ Step(t).do = "check" /\ Step(t).loc \in Places
           /\ \/ /\ session \in Sessions /\ session.defer
                 /\ LET n == [session EXCEPT !.deferred = Step(t).loc] IN
                    /\ n \in Sessions /\ Loc(n) = Loc(session) /\ n.defer = session.defer /\ n.reload = session.reload
                    /\ n.parked = session.parked /\ Swaps(program[t], program'[t], Write(session, n))
              \/ /\ session \in Sessions => ~session.defer
                 /\ \E o \in Places \cup {Nowhere} : Swaps(program[t], program'[t], [do |-> "move", loc |-> Step(t).loc, old |-> o])
<1>1. program[t] # <<>> /\ Step(t).do = "check"
  BY DEF CheckDeferral, At, Step
<1>2. program[t] \in Seq(Steps) /\ Step(t) = program[t][1] /\ Step(t) \in Steps
  BY <1>1, Stepping
<1>3. Step(t).loc \in Places
  BY <1>1, <1>2, StepFields
<1>4. CASE session # NoSession /\ session.defer
  <2> DEFINE n == [session EXCEPT !.deferred = Step(t).loc]
  <2>1. session \in Sessions
    BY <1>4 DEF Inv, TypeOK
  <2>2. n \in Sessions /\ Loc(n) = Loc(session) /\ n.defer = session.defer /\ n.reload = session.reload /\ n.parked = session.parked
    BY <1>3, <2>1 DEF Sessions, Loc
  <2>3. Instead(t, <<Write(session, n)>>)
    BY <1>4 DEF CheckDeferral
  <2> HIDE DEF n
  <2>4. Write(session, n) \in Steps /\ Opens(t, <<Write(session, n)>>)
    <3>1. Write(session, n).do = "write" /\ Write(session, n).read = session /\ Write(session, n).new = n
      BY DEF Write
    <3>2. Write(session, n) \in Steps
      BY <2>1, <2>2, StepTypes
    <3> QED BY <2>2, <3>1, <3>2 DEF Opens, ShapeAt, Unparks, Wipes, Rewrites
  <2>5. Goes(t) /\ Swaps(program[t], program'[t], Write(session, n))
    BY <1>1, <2>3, <2>4, SwappingTame
  <2> QED BY <1>1, <1>3, <1>4, <2>1, <2>2, <2>5 DEF n
<1>5. CASE ~(session # NoSession /\ session.defer)
  <2>1. PICK o \in Places \cup {Nowhere} : Instead(t, <<[do |-> "move", loc |-> Step(t).loc, old |-> o]>>)
    <3>1. (IF session = NoSession THEN Nowhere ELSE Loc(session)) \in Places \cup {Nowhere}
      BY SomeSession DEF Inv, TypeOK
    <3> QED BY <1>5, <3>1 DEF CheckDeferral
  <2> DEFINE m == [do |-> "move", loc |-> Step(t).loc, old |-> o]
  <2>2. m \in Steps /\ m.do = "move"
    BY <1>3, StepTypes
  <2> HIDE DEF m
  <2>3. Opens(t, <<m>>)
    BY <2>2 DEF Opens, ShapeAt, Unparks, Wipes
  <2>4. Goes(t) /\ Swaps(program[t], program'[t], m)
    BY <1>1, <2>1, <2>2, <2>3, SwappingTame DEF m
  <2>5. session \in Sessions => ~session.defer
    BY <1>5, SomeSession
  <2> QED BY <1>1, <1>3, <2>4, <2>5 DEF m
<1> QED BY <1>4, <1>5

\* What the other handlers leave to do.
LEMMA MoveFacts ==
    ASSUME Inv, NEW t \in Tasks, Move(t)
    PROVE  /\ Goes(t) /\ Step(t).do = "move" /\ Step(t).loc \in Places /\ DoZoneChange(Step(t).loc)
           /\ \E e \in {"latch", "touch"}, h \in {"wipe", "later", "now"} :
                 LET s == <<To("moved", Step(t).loc), Edit(e), [do |-> "deliver", how |-> h]>> IN
                 s \in Seq(Steps) /\ (h = "wipe" => e = "latch") /\ Splices(program[t], program'[t], s)
<1>1. program[t] # <<>> /\ Step(t).do = "move" /\ DoZoneChange(Step(t).loc)
  BY DEF Move, At, Step
<1>2. program[t] \in Seq(Steps) /\ Step(t) = program[t][1] /\ Step(t) \in Steps
  BY <1>1, Stepping
<1>3. Step(t).loc \in Places
  BY <1>1, <1>2, StepFields
<1>4. PICK e \in {"latch", "touch"}, h \in {"wipe", "later", "now"} :
         (h = "wipe" => e = "latch") /\ Instead(t, <<To("moved", Step(t).loc), Edit(e), [do |-> "deliver", how |-> h]>>)
  <2> DEFINE wipe == Resident(Step(t).old, Step(t).loc)
             near == SameRegion(Step(t).old[1], Step(t).loc[1])
  <2>1. Instead(t, <<To("moved", Step(t).loc), Edit(IF wipe THEN "latch" ELSE "touch"),
                        [do |-> "deliver", how |-> IF wipe THEN "wipe" ELSE IF near THEN "later" ELSE "now"]>>)
    BY DEF Move
  <2> HIDE DEF wipe, near
  <2>2. CASE wipe
    BY <2>1, <2>2
  <2>3. CASE ~wipe /\ near
    BY <2>1, <2>3
  <2>4. CASE ~wipe /\ ~near
    BY <2>1, <2>4
  <2> QED BY <2>2, <2>3, <2>4
<1> DEFINE a == To("moved", Step(t).loc)
           b == Edit(e)
           c == [do |-> "deliver", how |-> h]
           s == <<a, b, c>>
<1>5. a \in Steps /\ b \in Steps /\ c \in Steps
  BY <1>3, StepTypes DEF Edits
<1>6. a.do = "moved" /\ b.do = "edit" /\ b.e = e /\ c.do = "deliver" /\ c.how = h
  BY DEF To, Edit
<1> HIDE DEF a, b, c
<1>7. s \in Seq(Steps) /\ Three(s) /\ s[1] = a /\ s[2] = b /\ s[3] = c /\ DOMAIN s = {1, 2, 3} /\ Len(s) = 3
  BY <1>5 DEF Three
<1>8. Instead(t, s)
  BY <1>4 DEF a, b, c, s
<1> HIDE DEF s
<1>9. Opens(t, s)
  <2>1. ~First(s[2]) /\ ~First(s[3]) /\ (h = "wipe" => Latches(s[2])) /\ ~Wipes(s[1]) /\ ~Wipes(s[2]) /\ (Wipes(s[3]) => h = "wipe")
        /\ ~Unparks(s[1]) /\ ~Unparks(s[2]) /\ ~Unparks(s[3])
    BY <1>4, <1>6, <1>7 DEF First, Latches, Wipes, Unparks
  <2>2. ShapeAt(t, s, 1)
    BY <1>6, <1>7, <2>1 DEF ShapeAt
  <2>3. ShapeAt(t, s, 2)
    BY <1>6, <1>7, <2>1 DEF ShapeAt
  <2>4. ShapeAt(t, s, 3)
    BY <1>4, <1>6, <1>7, <2>1 DEF ShapeAt
  <2> QED BY <1>6, <1>7, <2>2, <2>3, <2>4 DEF Opens
<1>10. Goes(t) /\ Splices(program[t], program'[t], s)
  BY <1>1, <1>7, <1>8, <1>9, Splicing
<1> QED BY <1>1, <1>3, <1>4, <1>7, <1>10 DEF a, b, c, s

\* Who tells an online client to let go goes on to the zone-in, or to park it.
LEMMA DeliverFacts ==
    ASSUME Inv, NEW t \in Tasks, Deliver(t)
    PROVE  /\ Goes(t) /\ Step(t).do = "deliver"
           /\ ~online => Pops(program[t], program'[t])
           /\ online => \/ Step(t).how = "later" /\ Swaps(program[t], program'[t], Edit("park"))
                        \/ Step(t).how # "later" /\ Swaps(program[t], program'[t], Do("bundle"))
<1>1. program[t] # <<>> /\ Step(t).do = "deliver"
  BY DEF Deliver, At, Step
<1>2. CASE ~online
  BY <1>1, <1>2, Popping DEF Deliver
<1>3. CASE online
  <2> DEFINE x == IF Step(t).how = "later" THEN Edit("park") ELSE Do("bundle")
  <2>1. Instead(t, <<x>>)
    BY <1>3 DEF Deliver
  <2>2. x \in Steps
    BY StepTypes DEF Edits
  <2>3. (x.do = "edit" /\ x.e = "park") \/ x.do = "bundle"
    BY DEF Edit, Do
  <2> HIDE DEF x
  <2>4. Opens(t, <<x>>)
    BY <2>3 DEF Opens, ShapeAt, Unparks, Wipes, First
  <2>5. Goes(t) /\ Swaps(program[t], program'[t], x)
    BY <1>1, <2>1, <2>2, <2>4, SwappingTame
  <2> QED BY <1>1, <1>3, <2>5 DEF x
<1> QED BY <1>2, <1>3

\* After the zone-in bundle at most an event is left that waited for it.
LEMMA BundleFacts ==
    ASSUME Inv, NEW t \in Tasks, SendBundle(t)
    PROVE  /\ Goes(t) /\ Step(t).do = "bundle"
           /\ Pops(program[t], program'[t]) \/ (online /\ Swaps(program[t], program'[t], Edit("kicked")))
<1>1. program[t] # <<>> /\ Step(t).do = "bundle"
  BY DEF SendBundle, At, Step
<1>2. CASE Done(t)
  BY <1>1, <1>2, Popping
<1>3. CASE ~Done(t)
  <2>1. online /\ Instead(t, <<Edit("kicked")>>)
    BY <1>3 DEF SendBundle
  <2> DEFINE x == Edit("kicked")
  <2>2. x \in Steps /\ x.do = "edit" /\ x.e = "kicked"
    BY StepTypes DEF Edits, Edit
  <2>3. Instead(t, <<x>>)
    BY <2>1
  <2> HIDE DEF x
  <2>4. Opens(t, <<x>>)
    BY <2>2 DEF Opens, ShapeAt, Unparks, Wipes, First
  <2>5. Goes(t) /\ Swaps(program[t], program'[t], x)
    BY <1>1, <2>2, <2>3, <2>4, SwappingTame
  <2> QED BY <1>1, <2>1, <2>5 DEF x
<1> QED BY <1>2, <1>3

\* Who sends an online client into content goes on to the event, the zone-in and the record.
LEMMA ContentFacts ==
    ASSUME Inv, NEW t \in Tasks, SendContent(t)
    PROVE  /\ Goes(t) /\ Step(t).do = "content"
           /\ ~online => Pops(program[t], program'[t])
           /\ online => \E e \in {"kicked", "rekick"} :
                 LET s == <<Edit(e), Do("bundle"), Edit("warped")>> IN s \in Seq(Steps) /\ Splices(program[t], program'[t], s)
<1>1. program[t] # <<>> /\ Step(t).do = "content"
  BY DEF SendContent, At, Step
<1>2. CASE ~online
  BY <1>1, <1>2, Popping DEF SendContent
<1>3. CASE online
  <2>1. PICK e \in {"kicked", "rekick"} : Instead(t, <<Edit(e), Do("bundle"), Edit("warped")>>)
    BY <1>3 DEF SendContent
  <2> DEFINE a == Edit(e)
             b == Do("bundle")
             c == Edit("warped")
             s == <<a, b, c>>
  <2>2. a \in Steps /\ b \in Steps /\ c \in Steps
    BY StepTypes DEF Edits
  <2>3. a.do = "edit" /\ a.e = e /\ b.do = "bundle" /\ c.do = "edit" /\ c.e = "warped"
    BY DEF Edit, Do
  <2>4. Instead(t, s)
    BY <2>1
  <2> HIDE DEF a, b, c
  <2>5. s \in Seq(Steps) /\ Three(s) /\ s[1] = a /\ s[2] = b /\ s[3] = c /\ DOMAIN s = {1, 2, 3} /\ Len(s) = 3
    BY <2>2 DEF Three
  <2> HIDE DEF s
  <2>6. Opens(t, s)
    <3>1. ~First(s[2]) /\ ~First(s[3]) /\ ~Wipes(s[1]) /\ ~Wipes(s[2]) /\ ~Wipes(s[3]) /\ ~Unparks(s[1]) /\ ~Unparks(s[2]) /\ ~Unparks(s[3])
      BY <2>1, <2>3, <2>5 DEF First, Wipes, Unparks
    <3>2. ShapeAt(t, s, 1) /\ ShapeAt(t, s, 2) /\ ShapeAt(t, s, 3)
      BY <2>3, <2>5, <3>1 DEF ShapeAt
    <3> QED BY <2>3, <2>5, <3>2 DEF Opens
  <2>7. Goes(t) /\ Splices(program[t], program'[t], s)
    BY <1>1, <2>4, <2>5, <2>6, Splicing
  <2> QED BY <1>1, <1>3, <2>5, <2>7 DEF a, b, c, s
<1> QED BY <1>2, <1>3

\* The steps that are done at once.
LEMMA DoneFacts ==
    ASSUME Inv, NEW t \in Tasks, Moved(t) \/ Land(t) \/ SendKick(t) \/ Flip(t) \/ Flipped(t) \/ Place(t) \/ HookEnds(t)
    PROVE  /\ Goes(t) /\ Pops(program[t], program'[t])
           /\ Step(t).do \in {"moved", "land", "flip", "flipped", "place"} => Step(t).loc \in Places
           /\ Moved(t) => Step(t).do = "moved"
           /\ Land(t) => Step(t).do = "land" /\ t = Packet
           /\ SendKick(t) => Step(t).do = "kick"
           /\ Flip(t) => Step(t).do = "flip" /\ t = Packet
           /\ Flipped(t) => Step(t).do = "flipped" /\ t = Packet
           /\ Place(t) => Step(t).do = "place" /\ t = Packet
           /\ HookEnds(t) => Step(t).do = "hook"
<1>1. program[t] # <<>> /\ Done(t)
  BY DEF Moved, Land, SendKick, Flip, Flipped, Place, HookEnds, At
<1>2. program[t] \in Seq(Steps) /\ Step(t) = program[t][1] /\ Step(t) \in Steps /\ ShapeAt(t, program[t], 1)
  BY <1>1, Stepping
<1>3. Step(t).do \in {"moved", "land", "flip", "flipped", "place"} => Step(t).loc \in Places
  BY <1>2, StepFields
<1>4. Goes(t) /\ Pops(program[t], program'[t])
  BY <1>1, Popping
<1>5. Step(t).do \in {"hook", "place", "land", "flip", "flipped", "content"} => t = Packet
  BY <1>2 DEF ShapeAt
<1> QED BY <1>3, <1>4, <1>5 DEF Moved, Land, SendKick, Flip, Flipped, Place, HookEnds, At, Step

-----------------------------------------------------------------------------
(* The packet task's and the ticker's next work *)

\* A task that was free has been given s to do.
Starts(t, s) ==
    /\ program[t] = <<>> /\ program'[t] = s /\ program'[Other(t)] = program[Other(t)]
    /\ Other(t) \in Tasks /\ Other(t) # t /\ Tasks = {t, Other(t)}
    /\ program' \in [Tasks -> Seq(Steps)] /\ ShapeInv'

\* A free task that is given steps has these, in shape.
LEMMA Starting ==
    ASSUME Inv, NEW t \in Tasks, NEW s \in Seq(Steps), program[t] = <<>>, Queue(t, s), Shape(t, s)
    PROVE  Starts(t, s)
<1>1. s \o program[t] = s
  OBVIOUS
<1>2. program' = [program EXCEPT ![t] = s]
  BY <1>1 DEF Queue
<1>3. program' \in [Tasks -> Seq(Steps)] /\ program'[t] = s /\ program'[Other(t)] = program[Other(t)]
      /\ Other(t) \in Tasks /\ Other(t) # t /\ Tasks = {t, Other(t)}
  BY <1>2, Replaced DEF Inv
<1>4. ShapeInv'
  BY <1>3 DEF Inv, ShapeInv
<1> QED BY <1>3, <1>4 DEF Starts

\* Two steps, one after the other.
LEMMA Pair == ASSUME NEW a \in Steps, NEW b \in Steps PROVE <<a>> \o <<b>> = <<a, b>>
<1> DEFINE p == <<a>> \o <<b>>
           q == <<a, b>>
<1>1. p \in Seq(Steps) /\ Len(p) = 2 /\ p[1] = a /\ p[2] = b
  OBVIOUS
<1>2. q \in Seq(Steps) /\ Len(q) = 2 /\ q[1] = a /\ q[2] = b
  OBVIOUS
<1> HIDE DEF p, q
<1>3. \A i \in 1..Len(p) : p[i] = q[i]
  BY <1>1, <1>2
<1>4. p = q
  BY <1>1, <1>2, <1>3, SeqEqual
<1> QED BY <1>4 DEF p, q

\* The ticker takes up a parked zone-in.
LEMMA DueFacts ==
    ASSUME Inv, ZoneInDue
    PROVE  Starts(Ticker, <<Edit("unpark"), Do("bundle")>>) /\ <<Edit("unpark"), Do("bundle")>> \in Seq(Steps) /\ Ticker \in Tasks
<1> DEFINE a == Edit("unpark")
           b == Do("bundle")
           s == <<a, b>>
<1>1. a \in Steps /\ b \in Steps /\ Ticker \in Tasks
  BY StepTypes DEF Edits, Tasks
<1>2. a.do = "edit" /\ a.e = "unpark" /\ b.do = "bundle"
  BY DEF Edit, Do
<1>3. program[Ticker] = <<>> /\ Queue(Ticker, s)
  BY DEF ZoneInDue
<1> HIDE DEF a, b
<1>4. s \in Seq(Steps) /\ s[1] = a /\ s[2] = b /\ DOMAIN s = {1, 2} /\ Len(s) = 2
  BY <1>1
<1> HIDE DEF s
<1>5. Shape(Ticker, s)
  <2>1. ShapeAt(Ticker, s, 1)
    BY <1>2, <1>4 DEF ShapeAt, First, Wipes
  <2>2. ShapeAt(Ticker, s, 2)
    BY <1>2, <1>4 DEF ShapeAt, First, Wipes, Unparks
  <2> QED BY <1>4, <2>1, <2>2 DEF Shape
<1>6. Starts(Ticker, s)
  BY <1>1, <1>3, <1>4, <1>5, Starting
<1> QED BY <1>1, <1>4, <1>6 DEF a, b, s

\* An acknowledgement lifts the latches, and then lets out what waited for it.
LEMMA AckFacts ==
    ASSUME Inv, ZoneInComplete, session # NoSession
    PROVE  /\ session \in Sessions /\ Packet \in Tasks
           /\ LET w == Write(session, Acked(session)) IN
              \E s \in Seq(Steps) :
                 /\ Starts(Packet, s)
                 /\ \/ s = <<w>>
                    \/ s = <<w, To("check", session.deferred)>> /\ session.deferred \in Places
                    \/ s = <<w, Do("kick")>>
<1> DEFINE w == Write(session, Acked(session))
           x == IF session.deferred # Nowhere THEN To("check", session.deferred) ELSE Do("kick")
<1>1. session \in Sessions /\ Packet \in Tasks /\ session.deferred \in Places \cup {Nowhere}
  BY DEF Inv, TypeOK, Tasks, Sessions
<1>2. w \in Steps /\ w.do = "write" /\ w.read = session /\ w.new = Acked(session) /\ x \in Steps /\ x.do \in {"check", "kick"}
  BY <1>1, AckedFacts, StepTypes DEF Write, To, Do
<1>3. Loc(w.new) = Loc(w.read) /\ ~w.new.reload /\ w.new.parked = w.read.parked
  BY <1>1, <1>2, AckedFacts
<1>4. program[Packet] = <<>> /\ (Queue(Packet, <<w>> \o <<x>>) \/ Queue(Packet, <<w>> \o <<>>))
  BY DEF ZoneInComplete, Receives
<1>5. (x = To("check", session.deferred) /\ session.deferred \in Places) \/ x = Do("kick")
  BY <1>1
<1> HIDE DEF w, x
<1>6. <<w>> \o <<x>> = <<w, x>> /\ <<w>> \o <<>> = <<w>>
  BY <1>2, Pair
<1>7. ~Unparks(w) /\ ~Wipes(w) /\ ~Unparks(x) /\ ~First(x) /\ ~Wipes(x)
  BY <1>2, <1>3 DEF Unparks, Wipes, First
<1>8. <<w>> \in Seq(Steps) /\ Shape(Packet, <<w>>)
  <2> DEFINE s == <<w>>
  <2>1. s \in Seq(Steps) /\ s[1] = w /\ DOMAIN s = {1} /\ Len(s) = 1
    BY <1>2
  <2> HIDE DEF s
  <2>2. ShapeAt(Packet, s, 1)
    BY <1>2, <1>3, <1>7, <2>1 DEF ShapeAt, Rewrites, Rest2
  <2>3. Shape(Packet, s)
    BY <2>1, <2>2 DEF Shape
  <2> QED BY <2>1, <2>3 DEF s
<1>9. <<w, x>> \in Seq(Steps) /\ Shape(Packet, <<w, x>>)
  <2> DEFINE s == <<w, x>>
  <2>1. s \in Seq(Steps) /\ s[1] = w /\ s[2] = x /\ DOMAIN s = {1, 2} /\ Len(s) = 2
    BY <1>2
  <2> HIDE DEF s
  <2>2. ShapeAt(Packet, s, 1)
    BY <1>2, <1>3, <1>7, <2>1 DEF ShapeAt, Rewrites, Rest2
  <2>3. ShapeAt(Packet, s, 2)
    BY <1>2, <1>3, <1>7, <2>1 DEF ShapeAt
  <2>4. Shape(Packet, s)
    BY <2>1, <2>2, <2>3 DEF Shape
  <2> QED BY <2>1, <2>4 DEF s
<1>10. Starts(Packet, <<w>>) \/ Starts(Packet, <<w, x>>)
  BY <1>1, <1>4, <1>6, <1>8, <1>9, Starting
<1>11. PICK s \in Seq(Steps) : Starts(Packet, s) /\ (s = <<w>> \/ s = <<w, x>>)
  BY <1>8, <1>9, <1>10
<1> QED BY <1>1, <1>5, <1>11 DEF w

\* A report over the boundary makes the player cross it.
LEMMA CrossFacts ==
    ASSUME Inv, NEW l \in Places, program[Packet] = <<>>, Queue(Packet, <<To("flip", l), To("flipped", l)>>)
    PROVE  Starts(Packet, <<To("flip", l), To("flipped", l)>>) /\ <<To("flip", l), To("flipped", l)>> \in Seq(Steps)
<1> DEFINE a == To("flip", l)
           b == To("flipped", l)
           s == <<a, b>>
<1>1. a \in Steps /\ b \in Steps /\ Packet \in Tasks
  BY StepTypes DEF Tasks
<1>2. a.do = "flip" /\ a.loc = l /\ b.loc = l /\ b.do = "flipped"
  BY DEF To
<1>3. Queue(Packet, s)
  OBVIOUS
<1> HIDE DEF a, b
<1>4. s \in Seq(Steps) /\ s[1] = a /\ s[2] = b /\ DOMAIN s = {1, 2} /\ Len(s) = 2
  BY <1>1
<1> HIDE DEF s
<1>5. Shape(Packet, s)
  <2>1. ShapeAt(Packet, s, 1)
    BY <1>2, <1>4 DEF ShapeAt, First, Wipes, Unparks
  <2>2. ShapeAt(Packet, s, 2)
    BY <1>2, <1>4 DEF ShapeAt, First, Wipes, Unparks
  <2> QED BY <1>4, <2>1, <2>2 DEF Shape
<1>6. Starts(Packet, s)
  BY <1>1, <1>3, <1>4, <1>5, Starting
<1> QED BY <1>4, <1>6 DEF a, b, s

\* A login's placement comes with its first zone-in.
LEMMA BeginFacts ==
    ASSUME Inv, NEW login \in BOOLEAN, SessionBegin(login)
    PROVE  \E s \in Seq(Steps) :
              /\ Starts(Packet, s) /\ Packet \in Tasks
              /\ \/ s = <<Edit("touch"), Do("hook"), To("place", saved), Do("bundle"), Do("hook")>>
                 \/ s = <<To("place", saved), Do("bundle")>>
<1> DEFINE a == Edit("touch")
           h == Do("hook")
           p == To("place", saved)
           b == Do("bundle")
           s5 == <<a, h, p, b, h>>
           s2 == <<p, b>>
<1>1. a \in Steps /\ h \in Steps /\ p \in Steps /\ b \in Steps /\ Packet \in Tasks
  BY StepTypes DEF Tasks, Edits, Inv, TypeOK
<1>2. a.do = "edit" /\ a.e = "touch" /\ h.do = "hook" /\ p.do = "place" /\ b.do = "bundle"
  BY DEF To, Do, Edit
<1>3. program[Packet] = <<>> /\ (Queue(Packet, s5) \/ Queue(Packet, s2))
  BY DEF SessionBegin
<1> HIDE DEF a, h, p, b
<1>4. s5 \in Seq(Steps) /\ s5[1] = a /\ s5[2] = h /\ s5[3] = p /\ s5[4] = b /\ s5[5] = h /\ DOMAIN s5 = {1, 2, 3, 4, 5} /\ Len(s5) = 5
  BY <1>1
<1>5. s2 \in Seq(Steps) /\ s2[1] = p /\ s2[2] = b /\ DOMAIN s2 = {1, 2} /\ Len(s2) = 2
  BY <1>1
<1>6. \A x \in {a, h, p, b} : ~First(x) /\ ~Wipes(x) /\ ~Unparks(x) /\ x.do \in {"edit", "hook", "place", "bundle"}
  BY <1>2 DEF First, Wipes, Unparks
<1> HIDE DEF s5, s2
<1>7. ASSUME NEW s \in {s5, s2}, NEW i \in DOMAIN s PROVE ShapeAt(Packet, s, i)
  <2>1. s[i] \in {a, h, p, b}
    BY <1>4, <1>5
  <2>2. s[i].do = "place" => Placement(s, i)
    <3>1. CASE s = s5
      BY <1>2, <1>4, <3>1 DEF Placement
    <3>2. CASE s = s2
      BY <1>2, <1>5, <3>2 DEF Placement
    <3> QED BY <3>1, <3>2
  <2> QED BY <1>6, <2>1, <2>2 DEF ShapeAt
<1>8. Shape(Packet, s5) /\ Shape(Packet, s2)
  BY <1>7 DEF Shape
<1>9. Starts(Packet, s5) \/ Starts(Packet, s2)
  BY <1>1, <1>3, <1>4, <1>5, <1>8, Starting
<1>10. PICK s \in Seq(Steps) : Starts(Packet, s) /\ (s = s5 \/ s = s2)
  BY <1>4, <1>5, <1>9
<1> QED BY <1>1, <1>10 DEF a, h, p, b, s5, s2

-----------------------------------------------------------------------------
(* Every step keeps the invariant *)

\* What has been disturbed stays so.
Tags == {"torn", "race", "login", "acks", "seam", "unloaded"}
\* What a step adds to the history takes nothing back.
LEMMA Disturbing ==
    ASSUME TypeOK, NEW t
    PROVE  /\ disturbed \subseteq Tags
           /\ disturbed \subseteq Raced(t) /\ Raced(t) \subseteq Tags
           /\ disturbed \subseteq Wiped(t) /\ Wiped(t) \subseteq Tags
           /\ disturbed \subseteq Overran(t) /\ Overran(t) \subseteq Tags
           /\ \A z : Unloaded(z) \subseteq {"unloaded"} /\ Unloaded(z) \subseteq Tags
  BY DEF TypeOK, Raced, Wiped, Overran, Unloaded, Tags

\* The record of the client after a handler has told it something.
LEMMA Told ==
    ASSUME NEW c \in Clients
    PROVE  /\ \A w \in BOOLEAN : [c EXCEPT !.latched = TRUE, !.wiped = @ \/ w, !.reload = w] \in Clients
           /\ [c EXCEPT !.latched = TRUE, !.wiped = TRUE, !.reload = TRUE] \in Clients
           /\ \A l \in Loads : [c EXCEPT !.latched = FALSE, !.loads = Append(@, l)] \in Clients
<1>1. \A l \in Loads : Append(c.loads, l) \in Seq(Loads)
  BY DEF Clients
<1> QED BY <1>1 DEF Clients

\* session(): a clone of the record is taken, and Inv holds.
LEMMA ReadInv == ASSUME Inv, NEW t \in Tasks, ReadSession(t) PROVE Inv'
<1>1. Goes(t)
  BY ReadFacts
<1>2. UNCHANGED <<session, online, placed, reg, saved, client, uplink, commands, warps, left, disturbed, broken>>
  BY DEF ReadSession, server, history
<1>3. TypeOK'
  BY <1>1, <1>2 DEF Goes, Inv, TypeOK
<1> QED BY <1>1, <1>2, <1>3, GoesInv DEF Inv, OnlineInv

\* upsert_session: the clone is stored, and Inv holds.
LEMMA UpsertInv == ASSUME Inv, NEW t \in Tasks, UpsertSession(t) PROVE Inv'
<1>1. Goes(t) /\ session' \in Sessions
  BY UpsertFacts
<1>2. UNCHANGED <<online, placed, reg, saved, client, uplink, commands, warps, left, broken>>
      /\ disturbed \subseteq disturbed' /\ disturbed' \subseteq disturbed \cup {"torn"}
  BY DEF UpsertSession
<1>3. TypeOK'
  BY <1>1, <1>2 DEF Goes, Inv, TypeOK
<1> QED BY <1>1, <1>2, <1>3, GoesInv, SomeSession DEF Inv, OnlineInv

\* apply_do_zone_change decides between parking and moving, and Inv holds.
LEMMA CheckInv == ASSUME Inv, NEW t \in Tasks, CheckDeferral(t) PROVE Inv'
<1>1. Goes(t)
  BY CheckFacts
<1>2. UNCHANGED <<session, online, placed, reg, saved, client, uplink, commands, warps, left, broken>> /\ disturbed' = Raced(t)
  BY DEF CheckDeferral, server
<1>3. disturbed \subseteq disturbed' /\ disturbed' \subseteq Tags
  BY <1>2, Disturbing DEF Inv
<1>4. TypeOK'
  BY <1>1, <1>2, <1>3 DEF Goes, Inv, TypeOK, Tags
<1> QED BY <1>1, <1>2, <1>3, <1>4, GoesInv DEF Inv, OnlineInv

\* A warp moves the player in the lists, and Inv holds.
LEMMA MoveInv == ASSUME Inv, NEW t \in Tasks, Move(t) PROVE Inv'
<1>1. Goes(t) /\ Step(t).loc \in Places /\ DoZoneChange(Step(t).loc)
  BY MoveFacts
<1>2. UNCHANGED <<online, reg, saved, client, uplink, left, broken, commands>> /\ warps' = warps + 1
      /\ disturbed' = Overran(t) \cup Unloaded(Step(t).loc[1])
  BY DEF Move
<1>3. disturbed \subseteq disturbed' /\ disturbed' \subseteq Tags
  BY <1>2, Disturbing DEF Inv
<1>4. session' \in Sessions \cup {NoSession} /\ (session # NoSession => session' \in Sessions) /\ placed' \subseteq Places
  BY <1>1, ZoneKept DEF Inv
<1>5. TypeOK'
  BY <1>1, <1>2, <1>3, <1>4 DEF Goes, Inv, TypeOK, Tags
<1> QED BY <1>1, <1>2, <1>3, <1>4, <1>5, GoesInv, SomeSession DEF Inv, OnlineInv

\* The registry and the stored position follow a warp, and Inv holds.
LEMMA MovedInv == ASSUME Inv, NEW t \in Tasks, Moved(t) PROVE Inv'
<1>1. Goes(t) /\ Step(t).loc \in Places
  BY DoneFacts
<1>2. UNCHANGED <<session, online, placed, client, uplink, commands, warps, left, disturbed, broken>>
      /\ saved' = Step(t).loc /\ reg' = IF reg = None THEN None ELSE Step(t).loc[1]
  BY DEF Moved, history
<1>3. Step(t).loc[1] \in Zones
  BY <1>1 DEF Places
<1>4. TypeOK'
  BY <1>1, <1>2, <1>3 DEF Goes, Inv, TypeOK
<1> QED BY <1>1, <1>2, <1>3, <1>4, GoesInv, SomeSession DEF Inv, OnlineInv

\* The client is told of a warp, and Inv holds.
LEMMA DeliverInv == ASSUME Inv, NEW t \in Tasks, Deliver(t) PROVE Inv'
<1>1. Goes(t)
  BY DeliverFacts
<1>2. UNCHANGED <<session, online, placed, reg, saved, uplink, commands, warps, left, broken>> /\ disturbed' = Wiped(t)
  BY DEF Deliver, server
<1>3. disturbed \subseteq disturbed' /\ disturbed' \subseteq Tags
  BY <1>2, Disturbing DEF Inv
<1>4. client' \in Clients /\ (~online => client' = client)
  <2>1. PICK w \in BOOLEAN : w = (Step(t).how = "wipe")
    OBVIOUS
  <2>2. CASE ~online
    BY <2>2 DEF Deliver, Inv, TypeOK
  <2>3. CASE online
    <3>1. client' = [client EXCEPT !.latched = TRUE, !.wiped = @ \/ w, !.reload = w]
      BY <2>1, <2>3 DEF Deliver
    <3> QED BY <2>3, <3>1, Told DEF Inv, TypeOK
  <2> QED BY <2>2, <2>3
<1>5. TypeOK'
  BY <1>1, <1>2, <1>3, <1>4 DEF Goes, Inv, TypeOK, Tags
<1> QED BY <1>1, <1>2, <1>3, <1>4, <1>5, GoesInv DEF Inv, OnlineInv

\* The zone-in bundle is sent, and Inv holds.
LEMMA BundleInv == ASSUME Inv, NEW t \in Tasks, SendBundle(t) PROVE Inv'
<1>1. Goes(t)
  BY BundleFacts
<1>2. UNCHANGED <<session, online, placed, reg, saved, uplink, commands, warps, left, disturbed, broken>>
  BY DEF SendBundle, server, history
<1>3. client' \in Clients /\ (~online => client' = client)
  <2>1. CASE session = NoSession \/ ~online \/ reg = None \/ session.zone \notin Loaded
    BY <2>1 DEF SendBundle, Inv, TypeOK
  <2>2. CASE ~(session = NoSession \/ ~online \/ reg = None \/ session.zone \notin Loaded)
    <3>1. [zone |-> session.zone, epoch |-> warps] \in Loads
      BY <2>2, SomeSession DEF Loads, Inv, TypeOK
    <3>2. client' = [client EXCEPT !.latched = FALSE, !.loads = Append(@, [zone |-> session.zone, epoch |-> warps])]
      BY <2>2 DEF SendBundle
    <3> QED BY <2>2, <3>1, <3>2, Told DEF Inv, TypeOK
  <2> QED BY <2>1, <2>2
<1>4. TypeOK'
  BY <1>1, <1>2, <1>3 DEF Goes, Inv, TypeOK
<1> QED BY <1>1, <1>2, <1>3, <1>4, GoesInv DEF Inv, OnlineInv

\* A content warp moves the player, and Inv holds.
LEMMA LandInv == ASSUME Inv, NEW t \in Tasks, Land(t) PROVE Inv'
<1>1. Goes(t) /\ Step(t).loc \in Places /\ DoZoneChange(Step(t).loc)
  BY DoneFacts DEF Land
<1>2. UNCHANGED <<online, saved, client, uplink, left, broken, commands>> /\ warps' = warps + 1
      /\ reg' = (IF reg = None THEN None ELSE Step(t).loc[1])
      /\ Overran(t) \subseteq disturbed' /\ disturbed' \subseteq Overran(t) \cup Unloaded(Step(t).loc[1]) \cup {"login"}
  BY DEF Land
<1>3. disturbed \subseteq disturbed' /\ disturbed' \subseteq Tags
  BY <1>2, Disturbing DEF Inv, Tags
<1>4. session' \in Sessions \cup {NoSession} /\ (session # NoSession => session' \in Sessions)
      /\ placed' \subseteq Places /\ Step(t).loc[1] \in Zones
  BY <1>1, ZoneKept DEF Inv, Places
<1>5. TypeOK'
  BY <1>1, <1>2, <1>3, <1>4 DEF Goes, Inv, TypeOK, Tags
<1> QED BY <1>1, <1>2, <1>3, <1>4, <1>5, GoesInv, SomeSession DEF Inv, OnlineInv

\* The client is sent into a content instance, and Inv holds.
LEMMA ContentInv == ASSUME Inv, NEW t \in Tasks, SendContent(t) PROVE Inv'
<1>1. Goes(t)
  BY ContentFacts
<1>2. UNCHANGED <<session, online, placed, reg, saved, uplink, commands, warps, left, broken>> /\ disturbed' = Wiped(t)
  BY DEF SendContent, server
<1>3. disturbed \subseteq disturbed' /\ disturbed' \subseteq Tags
  BY <1>2, Disturbing DEF Inv
<1>4. client' \in Clients /\ (~online => client' = client)
  BY Told DEF SendContent, Inv, TypeOK
<1>5. TypeOK'
  BY <1>1, <1>2, <1>3, <1>4 DEF Goes, Inv, TypeOK, Tags
<1> QED BY <1>1, <1>2, <1>3, <1>4, <1>5, GoesInv DEF Inv, OnlineInv

\* An event is kicked at the client, and Inv holds.
LEMMA KickInv == ASSUME Inv, NEW t \in Tasks, SendKick(t) PROVE Inv'
<1>1. Goes(t)
  BY DoneFacts
<1>2. UNCHANGED <<session, online, placed, reg, saved, client, uplink, commands, warps, left>> /\ disturbed' = Raced(t)
      /\ broken' \subseteq broken \cup {"kick"}
  BY DEF SendKick, server
<1>3. disturbed \subseteq disturbed' /\ disturbed' \subseteq Tags
  BY <1>2, Disturbing DEF Inv
<1>4. TypeOK'
  BY <1>1, <1>2, <1>3 DEF Goes, Inv, TypeOK, Tags
<1> QED BY <1>1, <1>2, <1>3, <1>4, GoesInv DEF Inv, OnlineInv

\* A crossing of the boundary changes the lists, and Inv holds.
LEMMA FlipInv == ASSUME Inv, NEW t \in Tasks, Flip(t) PROVE Inv'
<1>1. Goes(t) /\ Step(t).loc \in Places
  BY DoneFacts DEF Flip, At, Step
<1>2. UNCHANGED <<session, online, reg, saved, client, uplink, commands, warps, left, broken>>
      /\ placed' \subseteq placed \cup {Step(t).loc} /\ disturbed' = disturbed \cup Unloaded(Step(t).loc[1])
  BY DEF Flip
<1>3. disturbed \subseteq disturbed' /\ disturbed' \subseteq Tags
  BY <1>2, Disturbing DEF Inv
<1>4. TypeOK'
  BY <1>1, <1>2, <1>3 DEF Goes, Inv, TypeOK, Tags
<1> QED BY <1>1, <1>2, <1>3, <1>4, GoesInv DEF Inv, OnlineInv

\* What the end of a crossing changes.
LEMMA FlippedChange ==
    ASSUME TypeOK, NEW t \in Tasks, Step(t).loc \in Places, Flipped(t)
    PROVE  /\ session # NoSession /\ Step(t).loc[1] \in Loaded =>
                  session' = [session EXCEPT !.zone = Step(t).loc[1], !.merged = None] /\ session'.zone = Step(t).loc[1]
           /\ session # NoSession => session' \in Sessions /\ session'.area = session.area
                                     /\ session'.reload = session.reload /\ session'.parked = session.parked /\ session'.defer = session.defer
           /\ session = NoSession \/ Step(t).loc[1] \notin Loaded => session' = session
           /\ saved' \in Places /\ Step(t).loc[1] \in Zones
<1>1. Step(t).loc[1] \in Zones
  BY DEF Places
<1>2. CASE session = NoSession
  BY <1>1, <1>2 DEF Flipped, TypeOK
<1>3. CASE session # NoSession
  <2>1. session \in Sessions
    BY <1>3 DEF TypeOK
  <2>2. saved' = <<Step(t).loc[1], session.area>>
    BY <1>3 DEF Flipped
  <2>3. CASE Step(t).loc[1] \in Loaded
    <3>1. session' = [session EXCEPT !.zone = Step(t).loc[1], !.merged = None]
      BY <1>3, <2>3 DEF Flipped
    <3> QED BY <1>1, <1>3, <2>1, <2>2, <2>3, <3>1 DEF Sessions, Places
  <2>4. CASE Step(t).loc[1] \notin Loaded
    <3>1. session' = session
      BY <2>4 DEF Flipped
    <3> QED BY <1>1, <1>3, <2>1, <2>2, <2>4, <3>1 DEF Sessions, Places
  <2> QED BY <2>3, <2>4
<1> QED BY <1>2, <1>3

\* A crossing of the boundary changes the record and the registry, and Inv holds.
LEMMA FlippedInv == ASSUME Inv, NEW t \in Tasks, Flipped(t) PROVE Inv'
<1>1. Goes(t) /\ Step(t).loc \in Places
  BY DoneFacts DEF Flipped, At, Step
<1>2. UNCHANGED <<online, placed, client, uplink, commands, warps, left, disturbed, broken>>
      /\ reg' = (IF reg = None THEN None ELSE Step(t).loc[1])
  BY DEF Flipped, history
<1>3. session' \in Sessions \cup {NoSession} /\ saved' \in Places /\ Step(t).loc[1] \in Zones /\ (session # NoSession => session' \in Sessions)
  BY <1>1, FlippedChange DEF Inv, TypeOK
<1>4. TypeOK'
  BY <1>1, <1>2, <1>3 DEF Goes, Inv, TypeOK
<1> QED BY <1>1, <1>2, <1>3, <1>4, GoesInv, SomeSession DEF Inv, OnlineInv

\* A login is placed in its zone, and Inv holds.
LEMMA PlaceStepInv == ASSUME Inv, NEW t \in Tasks, Place(t) PROVE Inv'
<1>1. Goes(t) /\ Step(t).loc \in Places
  BY DoneFacts DEF Place, At, Step
<1>2. UNCHANGED <<online, reg, saved, client, uplink, commands, warps, left, broken>>
      /\ disturbed' = disturbed \cup Unloaded(Step(t).loc[1])
  BY DEF Place
<1>3. PICK l \in Places : DoZoneChange(l)
  <2>1. <<Step(t).loc[1], IF session = NoSession THEN Public ELSE session.area>> \in Places
    BY <1>1, SomeSession DEF Places, Names, Inv, TypeOK
  <2> QED BY <2>1 DEF Place
<1>4. session' \in Sessions \cup {NoSession} /\ (session # NoSession => session' \in Sessions) /\ placed' \subseteq Places
  BY <1>3, ZoneKept DEF Inv
<1>5. disturbed \subseteq disturbed' /\ disturbed' \subseteq Tags
  BY <1>2, Disturbing DEF Inv
<1>6. TypeOK'
  BY <1>1, <1>2, <1>4, <1>5 DEF Goes, Inv, TypeOK, Tags
<1> QED BY <1>1, <1>2, <1>4, <1>5, <1>6, GoesInv, SomeSession DEF Inv, OnlineInv

\* A login script ends, and Inv holds.
LEMMA HookInv == ASSUME Inv, NEW t \in Tasks, HookEnds(t) PROVE Inv'
<1>1. Goes(t)
  BY DoneFacts
<1>2. UNCHANGED <<session, online, placed, reg, saved, client, uplink, commands, warps, left, disturbed, broken>>
  BY DEF HookEnds, server, history
<1>3. TypeOK'
  BY <1>1, <1>2 DEF Goes, Inv, TypeOK
<1> QED BY <1>1, <1>2, <1>3, GoesInv DEF Inv, OnlineInv

\* Tasks that are given work, the client, and the sessions' begin and end.
LEMMA DueInv == ASSUME Inv, ZoneInDue PROVE Inv'
<1>1. ShapeInv' /\ program' \in [Tasks -> Seq(Steps)]
  BY DueFacts DEF Starts
<1>2. UNCHANGED <<session, online, placed, reg, saved, client, uplink, commands, warps, left, disturbed, broken>>
  BY DEF ZoneInDue, server, history
<1>3. TypeOK'
  BY <1>1, <1>2 DEF Inv, TypeOK
<1>4. ~online => disturbed # {}
  <2>1. session # NoSession
    BY DEF ZoneInDue
  <2> QED BY <2>1 DEF Inv, OnlineInv
<1>5. OnlineInv'
  BY <1>2, <1>4 DEF Inv, OnlineInv
<1> QED BY <1>1, <1>3, <1>5 DEF Inv

\* The client has loaded the oldest load.
LEMMA LoadsFacts ==
    ASSUME Inv, ClientLoads
    PROVE  /\ client.loads \in Seq(Loads) /\ client.loads # <<>> /\ online /\ Head(client.loads) = client.loads[1]
           /\ client' \in Clients /\ uplink' \in Seq(Messages)
           /\ client'.zone = client.loads[1].zone /\ client'.epoch = client.loads[1].epoch /\ client'.loads = Tail(client.loads)
           /\ client'.latched = client.latched /\ client'.reload = client.reload
           /\ client'.wiped => client.wiped /\ (client.latched \/ Len(client.loads) > 1)
           /\ uplink' = Append(uplink, [m |-> "ack", epoch |-> client.loads[1].epoch])
<1>1. client \in Clients /\ uplink \in Seq(Messages) /\ client.loads \in Seq(Loads) /\ client.loads # <<>>
  BY DEF Inv, TypeOK, Clients, ClientLoads
<1>2. Head(client.loads) = client.loads[1] /\ client.loads[1] \in Loads /\ Tail(client.loads) \in Seq(Loads)
  BY <1>1
<1>3. client' = [client EXCEPT !.zone = Head(client.loads).zone, !.epoch = Head(client.loads).epoch,
                     !.loads = Tail(@), !.wiped = @ /\ (client.latched \/ Len(client.loads) > 1)]
      /\ uplink' = Append(uplink, [m |-> "ack", epoch |-> Head(client.loads).epoch])
  BY DEF ClientLoads
<1> DEFINE w == client.wiped /\ (client.latched \/ Len(client.loads) > 1)
<1>4. w \in BOOLEAN /\ client.loads[1].zone \in Zones /\ client.loads[1].epoch \in Int
  BY <1>1, <1>2 DEF Clients, Loads
<1>5. client' = [client EXCEPT !.zone = client.loads[1].zone, !.epoch = client.loads[1].epoch, !.loads = Tail(@), !.wiped = w]
  BY <1>2, <1>3
<1>6. w => client.wiped /\ (client.latched \/ Len(client.loads) > 1)
  OBVIOUS
<1> HIDE DEF w
<1>7. client' \in Clients /\ client'.wiped = w /\ client'.zone = client.loads[1].zone /\ client'.epoch = client.loads[1].epoch
      /\ client'.loads = Tail(client.loads) /\ client'.latched = client.latched /\ client'.reload = client.reload
  BY <1>1, <1>2, <1>4, <1>5 DEF Clients
<1>8. [m |-> "ack", epoch |-> client.loads[1].epoch] \in Messages
  BY <1>4 DEF Messages
<1>9. uplink' \in Seq(Messages)
  BY <1>1, <1>2, <1>3, <1>8
<1>10. online
  <2>1. client # NoClient
    BY <1>1 DEF NoClient
  <2> QED BY <2>1 DEF Inv, OnlineInv
<1> QED BY <1>1, <1>2, <1>3, <1>6, <1>7, <1>9, <1>10

\* The client finishes a load and acknowledges it, and Inv holds.
LEMMA LoadsInv == ASSUME Inv, ClientLoads PROVE Inv'
<1>1. client' \in Clients /\ uplink' \in Seq(Messages) /\ online
  BY LoadsFacts
<1>2. UNCHANGED <<session, online, placed, reg, saved, program, commands, warps, left, disturbed, broken>>
  BY DEF ClientLoads, server, history
<1>3. TypeOK'
  BY <1>1, <1>2 DEF Inv, TypeOK
<1> QED BY <1>1, <1>2, <1>3 DEF Inv, OnlineInv, ShapeInv, Quiet

\* The client reports a position, and Inv holds.
LEMMA ReportsInv == ASSUME Inv, NEW spot \in {"away", "strip", "box1", "box2"}, ClientReports(spot) PROVE Inv'
<1>1. client \in Clients /\ uplink \in Seq(Messages)
  BY DEF Inv, TypeOK
<1>2. [m |-> "report", epoch |-> client.epoch, spot |-> spot] \in Messages
  BY <1>1 DEF Messages, Clients
<1>3. UNCHANGED <<session, online, placed, reg, saved, client, program, commands, warps, left, disturbed, broken>>
      /\ uplink' = Append(uplink, [m |-> "report", epoch |-> client.epoch, spot |-> spot])
  BY DEF ClientReports, server, history
<1>4. uplink' \in Seq(Messages)
  BY <1>1, <1>2, <1>3
<1>5. online
  <2>1. client # NoClient
    BY DEF ClientReports, NoClient
  <2> QED BY <2>1 DEF Inv, OnlineInv
<1>6. TypeOK'
  BY <1>3, <1>4 DEF Inv, TypeOK
<1> QED BY <1>3, <1>5, <1>6 DEF Inv, OnlineInv, ShapeInv, Quiet

\* A message is taken from an online client by an idle packet task.
LEMMA ReceiveFacts ==
    ASSUME Inv, NEW m, Receives(m)
    PROVE  /\ uplink \in Seq(Messages) /\ uplink' \in Seq(Messages) /\ uplink' = Tail(uplink) /\ uplink # <<>>
           /\ Head(uplink) \in Messages /\ Head(uplink) = uplink[1] /\ uplink[1].m = m /\ online /\ program[Packet] = <<>>
<1>1. uplink \in Seq(Messages) /\ uplink # <<>> /\ uplink' = Tail(uplink) /\ Head(uplink).m = m /\ program[Packet] = <<>>
  BY DEF Inv, TypeOK, Receives
<1>2. uplink' \in Seq(Messages) /\ Head(uplink) \in Messages /\ Head(uplink) = uplink[1]
  BY <1>1
<1>3. online
  BY <1>1 DEF Inv, OnlineInv
<1> QED BY <1>1, <1>2, <1>3

\* handle_zone_in_complete takes an acknowledgement, and Inv holds.
LEMMA AckInv == ASSUME Inv, ZoneInComplete PROVE Inv'
<1>1. uplink' \in Seq(Messages) /\ online
  BY ReceiveFacts DEF ZoneInComplete
<1>2. UNCHANGED <<session, online, placed, reg, saved, client, commands, warps, left, broken>>
      /\ disturbed' \subseteq Raced(Packet) \cup {"acks"}
  BY DEF ZoneInComplete, server
<1>3. disturbed' \subseteq Tags
  BY <1>2, Disturbing DEF Inv, Tags
<1>4. session # NoSession
  BY <1>1 DEF Inv, OnlineInv
<1>5. ShapeInv' /\ program' \in [Tasks -> Seq(Steps)]
  BY <1>4, AckFacts DEF Starts
<1>6. TypeOK'
  BY <1>1, <1>2, <1>3, <1>5 DEF Inv, TypeOK, Tags
<1> QED BY <1>1, <1>2, <1>5, <1>6 DEF Inv, OnlineInv

\* What a report does: nothing, or one of three things.
LEMMA ReportFacts ==
    ASSUME Inv, UpdatePosition
    PROVE  /\ uplink' \in Seq(Messages) /\ uplink' = Tail(uplink) /\ uplink # <<>> /\ uplink \in Seq(Messages) /\ uplink[1].m = "report"
           /\ online /\ session \in Sessions /\ program[Packet] = <<>>
           /\ UNCHANGED <<online, reg, saved, client, commands, warps, left>>
           /\ LET cross == Crossing(session, uplink[1].spot)
                  other == IF session.zone = Boundary[1] THEN Boundary[2] ELSE Boundary[1]
              IN
              \/ UNCHANGED <<session, placed, program, disturbed, broken>>
              \/ /\ ~HoldsReports(session)
                 /\ broken' = IF uplink[1].epoch # warps /\ (client.reload \/ client.latched) THEN broken \cup {"report"} ELSE broken
                 /\ disturbed' = Raced(Packet) \cup (IF Parking(Ticker) THEN {"race"} ELSE {})
                                 \cup (IF cross \in Zones /\ session.area # Public THEN {"seam"} ELSE {})
                 /\ \/ /\ cross = "strip" /\ session' = [session EXCEPT !.merged = other] /\ session' \in Sessions
                       /\ placed \subseteq placed' /\ placed' \subseteq placed \cup {<<other, Public>>} /\ program' = program
                    \/ session' = [session EXCEPT !.merged = None] /\ session' \in Sessions /\ UNCHANGED <<placed, program>>
                    \/ /\ cross \in {Boundary[1], Boundary[2]} /\ <<cross, Public>> \in Places
                       /\ Starts(Packet, <<To("flip", <<cross, Public>>), To("flipped", <<cross, Public>>)>>)
                       /\ <<To("flip", <<cross, Public>>), To("flipped", <<cross, Public>>)>> \in Seq(Steps)
                       /\ UNCHANGED <<session, placed>>
                    \/ UNCHANGED <<session, placed, program>>
<1>1. /\ uplink \in Seq(Messages) /\ uplink' \in Seq(Messages) /\ uplink' = Tail(uplink) /\ uplink # <<>>
      /\ Head(uplink) \in Messages /\ Head(uplink) = uplink[1] /\ uplink[1].m = "report" /\ online /\ program[Packet] = <<>>
  BY ReceiveFacts DEF UpdatePosition
<1>2. session \in Sessions
  BY <1>1 DEF Inv, OnlineInv, TypeOK
<1> DEFINE r == uplink[1]
           cross == Crossing(session, r.spot)
           other == IF session.zone = Boundary[1] THEN Boundary[2] ELSE Boundary[1]
<1>3. CASE session = NoSession \/ reg = None \/ HoldsReports(session)
  <2>1. UNCHANGED <<server, client, program, history>>
    BY <1>3 DEF UpdatePosition
  <2> QED BY <1>1, <1>2, <2>1 DEF server, history
<1>4. CASE ~(session = NoSession \/ reg = None \/ HoldsReports(session))
  <2>1. /\ broken' = IF r.epoch # warps /\ (client.reload \/ client.latched) THEN broken \cup {"report"} ELSE broken
        /\ disturbed' = Raced(Packet) \cup (IF Parking(Ticker) THEN {"race"} ELSE {})
                        \cup (IF cross \in Zones /\ session.area # Public THEN {"seam"} ELSE {})
        /\ UNCHANGED <<online, reg, saved, client, warps, left, commands>>
    BY <1>1, <1>4 DEF UpdatePosition
  <2>9. (CASE cross = "strip" /\ other \in Loaded ->
                /\ placed' = IF session.merged = other THEN placed ELSE placed \cup {<<other, Public>>}
                /\ session' = [session EXCEPT !.merged = other]
                /\ UNCHANGED program
           [] cross = "inside" ->
                /\ session' = [session EXCEPT !.merged = None]
                /\ UNCHANGED <<placed, program>>
           [] cross \in Zones ->
                /\ Queue(Packet, <<To("flip", <<cross, Public>>), To("flipped", <<cross, Public>>)>>)
                /\ UNCHANGED <<session, placed>>
           [] OTHER -> UNCHANGED <<session, placed, program>>)
    BY <1>1, <1>4 DEF UpdatePosition
  <2>2. r.spot \in {"away", "strip", "box1", "box2"}
    BY <1>1 DEF Messages
  <2>3. cross \in {None, "strip", "inside", Boundary[1], Boundary[2]}
    BY <2>2 DEF Crossing
  <2>4. other \in Zones /\ Boundary[1] \in Zones /\ Boundary[2] \in Zones /\ "strip" \notin Zones /\ "inside" \notin Zones /\ None \notin Zones
    BY ZonesAssumption
  <2> HIDE DEF cross, other, r
  <2>5. CASE cross = "strip" /\ other \in Loaded
    <3>1. session' = [session EXCEPT !.merged = other] /\ placed \subseteq placed' /\ placed' \subseteq placed \cup {<<other, Public>>} /\ program' = program
      BY <2>4, <2>5, <2>9
    <3>2. session' \in Sessions
      BY <1>2, <2>4, <3>1 DEF Sessions
    <3> QED BY <1>1, <1>2, <1>4, <2>1, <2>5, <3>1, <3>2 DEF cross, other, r
  <2>6. CASE cross = "inside"
    <3>1. session' = [session EXCEPT !.merged = None] /\ UNCHANGED <<placed, program>>
      BY <2>4, <2>6, <2>9
    <3>2. session' \in Sessions
      BY <1>2, <3>1 DEF Sessions
    <3> QED BY <1>1, <1>2, <1>4, <2>1, <3>1, <3>2 DEF cross, other, r
  <2>7. CASE cross \in {Boundary[1], Boundary[2]}
    <3>1. Queue(Packet, <<To("flip", <<cross, Public>>), To("flipped", <<cross, Public>>)>>) /\ UNCHANGED <<session, placed>>
      BY <2>9, <2>4, <2>7
    <3>2. <<cross, Public>> \in Places
      BY <2>4, <2>7 DEF Places, Names
    <3>3. Starts(Packet, <<To("flip", <<cross, Public>>), To("flipped", <<cross, Public>>)>>)
          /\ <<To("flip", <<cross, Public>>), To("flipped", <<cross, Public>>)>> \in Seq(Steps)
      BY <1>1, <3>1, <3>2, CrossFacts
    <3> QED BY <1>1, <1>2, <1>4, <2>1, <2>7, <3>1, <3>2, <3>3 DEF cross, other, r
  <2>10. CASE cross = "strip" /\ other \notin Loaded
    <3>1. UNCHANGED <<session, placed, program>>
      BY <2>9, <2>4, <2>10
    <3> QED BY <1>1, <1>2, <1>4, <2>1, <3>1 DEF cross, other, r
  <2>8. CASE cross = None
    <3>1. UNCHANGED <<session, placed, program>>
      BY <2>9, <2>4, <2>8 DEF None
    <3> QED BY <1>1, <1>2, <1>4, <2>1, <3>1 DEF cross, other, r
  <2> QED BY <2>3, <2>5, <2>6, <2>7, <2>8, <2>10
<1> QED BY <1>3, <1>4

\* handle_update_position takes a report, and Inv holds.
LEMMA ReportInv == ASSUME Inv, UpdatePosition PROVE Inv'
<1>1. /\ uplink' \in Seq(Messages) /\ online /\ session' \in Sessions
      /\ UNCHANGED <<online, reg, saved, client, commands, warps, left>>
      /\ disturbed' \subseteq Raced(Packet) \cup {"race", "seam"} \cup disturbed
      /\ broken' \subseteq broken \cup {"report"}
  BY ReportFacts
<1>2. placed' \subseteq Places
  <2>1. \A z \in {Boundary[1], Boundary[2]} : <<z, Public>> \in Places
    BY ZonesAssumption DEF Places, Names
  <2>2. placed' \subseteq placed \cup {<<Boundary[1], Public>>, <<Boundary[2], Public>>}
    BY ReportFacts
  <2> QED BY <2>1, <2>2 DEF Inv, TypeOK
<1>3. disturbed' \subseteq Tags
  BY <1>1, Disturbing DEF Inv, Tags
<1>4. ShapeInv' /\ program' \in [Tasks -> Seq(Steps)]
  <2>1. program' = program \/ \E s : Starts(Packet, s)
    BY ReportFacts
  <2> QED BY <2>1 DEF Starts, Inv, ShapeInv, TypeOK
<1>5. TypeOK'
  BY <1>1, <1>2, <1>3, <1>4 DEF Inv, TypeOK, Tags
<1> QED BY <1>1, <1>4, <1>5, SomeSession DEF Inv, OnlineInv

\* handle_session_begin, and Inv holds.
LEMMA BeginInv == ASSUME Inv, NEW login \in BOOLEAN, SessionBegin(login) PROVE Inv'
<1>1. /\ online' = TRUE /\ reg' = saved[1] /\ client' = NoClient
      /\ session' = [FreshSession EXCEPT !.zone = saved[1], !.area = saved[2], !.defer = TRUE]
      /\ disturbed' \subseteq disturbed \cup {"race", "torn"}
      /\ UNCHANGED <<placed, saved, uplink, warps, left, broken, commands>>
  BY DEF SessionBegin
<1>2. ShapeInv' /\ program' \in [Tasks -> Seq(Steps)]
  BY BeginFacts DEF Starts
<1>3. saved[1] \in Zones /\ saved[2] \in Names /\ saved \in Places
  BY DEF Inv, TypeOK, Places
<1>4. session' \in Sessions
  BY <1>1, <1>3 DEF FreshSession, Sessions
<1>5. NoClient \in Clients
  BY DEF NoClient, Clients
<1>6. TypeOK'
  BY <1>1, <1>2, <1>3, <1>4, <1>5 DEF Inv, TypeOK
<1> QED BY <1>1, <1>2, <1>3, <1>4, <1>6, SomeSession DEF Inv, OnlineInv

\* handle_session_end, and Inv holds.
LEMMA EndInv == ASSUME Inv, SessionEnd PROVE Inv'
<1>1. /\ program[Packet] = <<>> /\ online' = FALSE /\ session' = NoSession /\ reg' = None
      /\ client' = NoClient /\ uplink' = <<>> /\ left' = placed /\ commands' = commands + 1
      /\ disturbed' = (IF program[Ticker] # <<>> THEN disturbed \cup {"race", "torn"} ELSE disturbed)
      /\ UNCHANGED <<placed, saved, program, warps, broken>>
  BY DEF SessionEnd
<1>2. NoClient \in Clients /\ <<>> \in Seq(Messages)
  BY DEF NoClient, Clients
<1>3. TypeOK'
  <2>1. disturbed' \subseteq {"torn", "race", "login", "acks", "seam", "unloaded"}
    BY <1>1 DEF Inv, TypeOK
  <2>2. session' \in Sessions \cup {NoSession} /\ online' \in BOOLEAN /\ reg' \in Zones \cup {None} /\ client' \in Clients /\ uplink' \in Seq(Messages)
    BY <1>1, <1>2
  <2>3. commands' \in Nat /\ left' \subseteq Places
    BY <1>1 DEF Inv, TypeOK
  <2> QED BY <1>1, <2>1, <2>2, <2>3 DEF Inv, TypeOK
<1>4. disturbed' = {} => Quiet'
  BY <1>1 DEF Quiet, Tasks
<1> QED BY <1>1, <1>3, <1>4 DEF Inv, OnlineInv, ShapeInv

\* Inv holds when the server starts.
LEMMA InitInv == Init => Inv
<1> SUFFICES ASSUME Init PROVE Inv
  OBVIOUS
<1>1. NoClient \in Clients /\ <<>> \in Seq(Messages) /\ <<>> \in Seq(Steps)
  BY DEF NoClient, Clients
<1>2. TypeOK
  <2>1. Home \in Places
    BY ZonesAssumption DEF Places
  <2>2. program \in [Tasks -> Seq(Steps)]
    BY <1>1 DEF Init
  <2> QED BY <1>1, <2>1, <2>2 DEF Init, TypeOK
<1>3. ShapeInv
  BY DEF Init, ShapeInv, Shape
<1>4. OnlineInv
  BY DEF Init, OnlineInv, Quiet
<1> QED BY <1>2, <1>3, <1>4 DEF Inv

\* The steps of Next, a command's among them.
Doing(t) == Rest(t) \/ (\E s \in Seq(Steps) : Issued(t, s))
Happens ==
    \/ ZoneInDue \/ ClientLoads \/ (\E spot \in {"away", "strip", "box1", "box2"} : ClientReports(spot))
    \/ ZoneInComplete \/ UpdatePosition \/ (\E login \in BOOLEAN : SessionBegin(login)) \/ SessionEnd

\* What can happen, in the terms the step lemmas use.
LEMMA NextSteps ==
    ASSUME Inv, [Next]_vars
    PROVE  (\E t \in Tasks : Doing(t)) \/ Happens \/ UNCHANGED vars
<1>1. CASE \E t \in Tasks : Command(t)
  BY <1>1, CommandIssued DEF Doing, Inv
<1>2. CASE \E t \in Tasks : Rest(t)
  BY <1>2 DEF Doing
<1>3. CASE (\E z \in Arenas : CreateContentArea(z) \/ ContentWarp(z)) \/ (\E owner \in Owners : LoginKick(owner))
  <2>1. Packet \in Tasks
    BY DEF Tasks
  <2> QED BY <1>3, <2>1, CommandIssued DEF Doing, Inv
<1>4. CASE Happens \/ UNCHANGED vars
  BY <1>4
<1> QED BY <1>1, <1>2, <1>3, <1>4 DEF Next, Happens

\* Every step preserves Inv.
LEMMA InvStep == Inv /\ [Next]_vars => Inv'
<1> SUFFICES ASSUME Inv, [Next]_vars PROVE Inv'
  OBVIOUS
<1>1. ASSUME NEW t \in Tasks, Rest(t) PROVE Inv'
  BY <1>1, ReadInv, UpsertInv, CheckInv, MoveInv, MovedInv, DeliverInv, BundleInv, LandInv, ContentInv, KickInv, FlipInv,
     FlippedInv, PlaceStepInv, HookInv DEF Rest
<1>2. ASSUME NEW t \in Tasks, NEW s \in Seq(Steps), Issued(t, s) PROVE Inv'
  BY <1>2, IssuedInv
<1>3. CASE Happens
  BY <1>3, DueInv, LoadsInv, ReportsInv, AckInv, ReportInv, BeginInv, EndInv DEF Happens
<1>4. CASE UNCHANGED vars
  BY <1>4 DEF vars, server, history, Inv, TypeOK, ShapeInv, OnlineInv, Quiet
<1> QED BY <1>1, <1>2, <1>3, <1>4, NextSteps DEF Doing

\* Inv is an invariant.
LEMMA Invariance == Spec => []Inv
BY InitInv, InvStep, PTL DEF Spec

\* The session record, the lists, the registry, the client and the programs of both
\* tasks keep their types, through every clone and store of the record.
THEOREM TypeCorrectness == Spec => []TypeOK
<1>1. Inv => TypeOK
  BY DEF Inv
<1> QED BY <1>1, Invariance, PTL

-----------------------------------------------------------------------------
(* What is pending *)

\* The steps a task has still to do, and those after the next.
Pending(t) == {program[t][i] : i \in DOMAIN program[t]}
Later(t) == {program[t][i] : i \in DOMAIN program[t] \ {1}}
Has(t, k) == \E s \in Pending(t) : s.do = k

\* What can stand after the first step of a program.
LEMMA Laters ==
    ASSUME Inv, NEW t \in Tasks, program[t] # <<>>
    PROVE  /\ Pending(t) = Later(t) \cup {Step(t)}
           /\ Step(t).do = "land" => \E s \in Later(t) : s.do = "content"
           /\ Step(t).do = "flip" => \E s \in Later(t) : s.do = "flipped"
           /\ Step(t).do = "flipped" => Later(t) = {}
           /\ \A s \in Later(t) :
                 /\ s \in Steps /\ ~First(s)
                 /\ s.do = "flipped" => Step(t).do = "flip" /\ Step(t).loc = s.loc
                 /\ s.do = "kick" => Step(t).do = "write" /\ Rest2(program[t]) = "kick"
                 /\ s.do \in {"deliver", "content"} => Step(t).do \in {"edit", "write", "moved", "land"}
                 /\ Step(t).do = "place" => s.do # "place"
                 /\ Step(t).do = "flip" => s.do = "flipped"
                 /\ Step(t).do = "write" /\ Rest2(program[t]) \in {"none", "check", "kick"} => s.do \in {"check", "kick"}
<1>1. program[t] \in Seq(Steps) /\ 1 \in DOMAIN program[t] /\ Step(t) = program[t][1] /\ Shape(t, program[t])
  BY Stepping
<1>2. Pending(t) = Later(t) \cup {Step(t)}
  BY <1>1 DEF Pending, Later
<1> DEFINE p == program[t]
<1>3. p \in Seq(Steps) /\ 1 \in DOMAIN p /\ Step(t) = p[1] /\ Shape(t, p)
  BY <1>1
<1>4. ASSUME NEW s \in Later(t) PROVE \E i \in DOMAIN p : i # 1 /\ s = p[i]
  BY <1>4 DEF Later
<1> HIDE DEF p
<1>5. ASSUME NEW i \in DOMAIN p, i # 1
      PROVE  /\ p[i] \in Steps /\ ~First(p[i])
             /\ p[i].do = "flipped" => p[1].do = "flip" /\ p[1].loc = p[i].loc
             /\ p[i].do = "kick" => p[1].do = "write" /\ Rest2(p) = "kick"
             /\ p[i].do \in {"deliver", "content"} => p[1].do \in {"edit", "write", "moved", "land"}
             /\ p[1].do = "place" => p[i].do # "place"
             /\ p[1].do = "flip" => p[i].do = "flipped"
             /\ p[1].do = "write" /\ Rest2(p) \in {"none", "check", "kick"} => p[i].do \in {"check", "kick"}
  <2>1. i \in Nat /\ i > 1 /\ i <= Len(p) /\ Len(p) \in Nat /\ DOMAIN p = 1..Len(p) /\ p[i] \in Steps
    BY <1>3, <1>5
  <2>2. ShapeAt(t, p, i) /\ ShapeAt(t, p, 1)
    BY <1>3 DEF Shape
  <2>3. ~First(p[i])
    BY <2>1, <2>2 DEF ShapeAt
  <2>4. p[i].do = "flipped" => p[1].do = "flip" /\ p[1].loc = p[i].loc
    <3>1. p[i].do = "flipped" => i <= 2 /\ (i = 2 => p[1].do = "flip" /\ p[1].loc = p[2].loc)
      BY <2>2 DEF ShapeAt
    <3>2. i <= 2 => i = 2
      BY <2>1
    <3> QED BY <3>1, <3>2
  <2>5. p[i].do = "kick" => p[1].do = "write" /\ Rest2(p) = "kick"
    BY <2>1, <2>2 DEF ShapeAt, Rest2
  <2>6. p[i].do \in {"deliver", "content"} => p[1].do \in {"edit", "write", "moved", "land"}
    BY <2>1, <2>2 DEF ShapeAt
  <2>7. p[1].do = "place" => p[i].do # "place"
    BY <2>1, <2>2 DEF ShapeAt, Placement
  <2>8. Len(p) = 2 => i = 2
    BY <2>1
  <2>9. p[1].do = "flip" => p[i].do = "flipped"
    BY <2>2, <2>8 DEF ShapeAt
  <2>10. Rest2(p) \in {"none", "check", "kick"} => p[i].do \in {"check", "kick"}
    <3>1. p[i].do # "none"
      BY <2>1, StepFields
    <3> QED BY <2>1, <2>8, <3>1 DEF Rest2
  <2> QED BY <2>1, <2>3, <2>4, <2>5, <2>6, <2>7, <2>9, <2>10
<1>6. ASSUME NEW s \in Later(t)
      PROVE  /\ s \in Steps /\ ~First(s)
             /\ s.do = "flipped" => p[1].do = "flip" /\ p[1].loc = s.loc
             /\ s.do = "kick" => p[1].do = "write" /\ Rest2(p) = "kick"
             /\ s.do \in {"deliver", "content"} => p[1].do \in {"edit", "write", "moved", "land"}
             /\ p[1].do = "place" => s.do # "place"
             /\ p[1].do = "flip" => s.do = "flipped"
             /\ p[1].do = "write" /\ Rest2(p) \in {"none", "check", "kick"} => s.do \in {"check", "kick"}
  <2>1. PICK i \in DOMAIN p : i # 1 /\ s = p[i]
    BY <1>4
  <2> QED BY <1>5, <2>1
<1>7. Step(t) = p[1] /\ program[t] = p
  BY <1>3 DEF p
<1>8. /\ Step(t).do = "land" => \E s \in Later(t) : s.do = "content"
      /\ Step(t).do = "flip" => \E s \in Later(t) : s.do = "flipped"
      /\ Step(t).do = "flipped" => Later(t) = {}
  <2>1. ShapeAt(t, p, 1) /\ DOMAIN p = 1..Len(p) /\ Len(p) \in Nat
    BY <1>3 DEF Shape
  <2>2. Step(t).do = "land" => 3 \in DOMAIN p /\ p[3].do = "content"
    BY <1>3, <2>1 DEF ShapeAt
  <2>3. Step(t).do = "flip" => 2 \in DOMAIN p /\ p[2].do = "flipped"
    BY <1>3, <2>1 DEF ShapeAt
  <2>4. Step(t).do = "flipped" => DOMAIN p = {1}
    <3>1. Step(t).do = "flipped" => Len(p) = 1
      BY <1>3, <2>1 DEF ShapeAt
    <3> QED BY <2>1, <3>1
  <2> QED BY <1>7, <2>2, <2>3, <2>4 DEF Later
<1> QED BY <1>2, <1>6, <1>7, <1>8

\* What is pending after a step: the later ones, and what came in its place.
LEMMA Pending3 ==
    ASSUME NEW t \in Tasks, Goes(t)
    PROVE  /\ Pops(program[t], program'[t]) => Pending(t)' = Later(t)
           /\ \A x : Swaps(program[t], program'[t], x) => Pending(t)' = Later(t) \cup {x}
           /\ \A s : Splices(program[t], program'[t], s) => Pending(t)' = Later(t) \cup {s[1], s[2], s[3]}
           /\ Pending(Other(t))' = Pending(Other(t)) /\ Later(Other(t))' = Later(Other(t))
           /\ Pending(t) = Later(t) \cup {Step(t)}
<1> DEFINE p == program[t]
           q == program'[t]
<1>1. p \in Seq(Steps) /\ q \in Seq(Steps) /\ 1 \in DOMAIN p /\ Step(t) = p[1]
  BY DEF Goes
<1>2. Pending(t)' = {q[i] : i \in DOMAIN q} /\ Later(t) = {p[i] : i \in DOMAIN p \ {1}}
  BY DEF Pending, Later
<1>3. Pending(t) = Later(t) \cup {Step(t)}
  BY <1>1 DEF Pending, Later
<1>4. Pending(Other(t))' = Pending(Other(t)) /\ Later(Other(t))' = Later(Other(t))
  BY DEF Goes, Pending, Later
<1> HIDE DEF p, q
<1>5. DOMAIN p = 1..Len(p) /\ DOMAIN q = 1..Len(q) /\ Len(p) \in Nat /\ Len(q) \in Nat
  BY <1>1
<1>6. ASSUME Pops(p, q) PROVE {q[i] : i \in DOMAIN q} = {p[i] : i \in DOMAIN p \ {1}}
  <2>1. ASSUME NEW i \in DOMAIN q PROVE \E j \in DOMAIN p \ {1} : q[i] = p[j]
    <3>1. i + 1 \in DOMAIN p \ {1} /\ q[i] = p[i + 1]
      BY <1>5, <1>6 DEF Pops
    <3> QED BY <3>1
  <2>2. ASSUME NEW i \in DOMAIN p \ {1} PROVE \E j \in DOMAIN q : q[j] = p[i]
    <3>1. i - 1 \in DOMAIN q /\ i - 1 + 1 = i
      BY <1>5, <1>6 DEF Pops
    <3> QED BY <1>6, <3>1 DEF Pops
  <2> QED BY <2>1, <2>2
<1>7. ASSUME NEW x, Swaps(p, q, x) PROVE {q[i] : i \in DOMAIN q} = {p[i] : i \in DOMAIN p \ {1}} \cup {x}
  <2>1. ASSUME NEW i \in DOMAIN q PROVE q[i] = x \/ \E j \in DOMAIN p \ {1} : q[i] = p[j]
    BY <1>5, <1>7 DEF Swaps
  <2>2. ASSUME NEW i \in DOMAIN p \ {1} PROVE \E j \in DOMAIN q : q[j] = p[i]
    BY <1>5, <1>7 DEF Swaps
  <2>3. \E j \in DOMAIN q : q[j] = x
    BY <1>7 DEF Swaps
  <2> QED BY <2>1, <2>2, <2>3
<1>8. ASSUME NEW s, Splices(p, q, s) PROVE {q[i] : i \in DOMAIN q} = {p[i] : i \in DOMAIN p \ {1}} \cup {s[1], s[2], s[3]}
  <2>1. ASSUME NEW i \in DOMAIN q PROVE q[i] \in {s[1], s[2], s[3]} \/ \E j \in DOMAIN p \ {1} : q[i] = p[j]
    <3>1. i = 1 \/ i = 2 \/ i = 3 \/ i > 3
      BY <1>5
    <3>2. CASE i > 3
      <4>1. i - 2 \in DOMAIN p \ {1} /\ q[i] = p[i - 2]
        BY <1>5, <1>8, <3>2 DEF Splices
      <4> QED BY <4>1
    <3> QED BY <1>8, <3>1, <3>2 DEF Splices
  <2>2. ASSUME NEW i \in DOMAIN p \ {1} PROVE \E j \in DOMAIN q : q[j] = p[i]
    <3>1. i + 2 \in DOMAIN q /\ i + 2 > 3 /\ i + 2 - 2 = i
      BY <1>5, <1>8 DEF Splices
    <3> QED BY <1>8, <3>1 DEF Splices
  <2>3. \A x \in {s[1], s[2], s[3]} : \E j \in DOMAIN q : q[j] = x
    BY <1>8 DEF Splices
  <2> QED BY <2>1, <2>2, <2>3
<1>9. program[t] = p /\ program'[t] = q
  BY DEF p, q
<1> QED BY <1>2, <1>3, <1>4, <1>6, <1>7, <1>8, <1>9

\* What a program had to do is still in it when other steps come first.
Within(p, q) == \A i \in DOMAIN p : \E j \in DOMAIN q : q[j] = p[i]

\* What a program had to do is in it still when it is given more to do first.
LEMMA Pushed ==
    ASSUME NEW S, NEW p \in Seq(S), NEW s \in Seq(S)
    PROVE  Within(p, s \o p)
<1> SUFFICES ASSUME NEW i \in DOMAIN p PROVE \E j \in DOMAIN (s \o p) : (s \o p)[j] = p[i]
  BY DEF Within
<1>1. i \in 1..Len(p) /\ Len(s) \in Nat /\ Len(p) \in Nat
  OBVIOUS
<1>2. PICK n \in Nat : n = Len(s)
  BY <1>1
<1>3. s \o p \in Seq(S) /\ Len(s \o p) = n + Len(p) /\ (\A k \in 1..Len(s \o p) : k > n => (s \o p)[k] = p[k - n])
  BY <1>2, Prefixed
<1> DEFINE q == s \o p
<1> HIDE DEF q
<1>4. q \in Seq(S) /\ Len(q) = n + Len(p) /\ (\A k \in 1..Len(q) : k > n => q[k] = p[k - n])
  BY <1>3 DEF q
<1>5. i + n \in 1..Len(q) /\ i + n > n /\ i + n - n = i /\ DOMAIN q = 1..Len(q)
  BY <1>1, <1>4
<1>6. q[i + n] = p[i + n - n]
  BY <1>4, <1>5
<1>7. q[i + n] = p[i]
  BY <1>5, <1>6
<1> QED BY <1>5, <1>7 DEF q

\* What is pending after a command, or when a free task is given s.
LEMMA PendingIssued ==
    ASSUME Inv, NEW t \in Tasks, NEW s \in Seq(Steps), Issued(t, s)
    PROVE  /\ Pending(t)' = Pending(t) \cup {s[i] : i \in DOMAIN s}
           /\ Pending(Other(t))' = Pending(Other(t)) /\ Other(t) \in Tasks /\ Tasks = {t, Other(t)} /\ Other(t) # t
<1> DEFINE p == program[t]
           q == program'[t]
<1>1. p \in Seq(Steps) /\ q = s \o p /\ program'[Other(t)] = program[Other(t)] /\ Other(t) \in Tasks /\ Tasks = {t, Other(t)} /\ Other(t) # t
  BY IssuedProgram DEF Inv, TypeOK
<1>2. Pending(t) = {p[i] : i \in DOMAIN p} /\ Pending(t)' = {q[i] : i \in DOMAIN q} /\ Pending(Other(t))' = Pending(Other(t))
  BY <1>1 DEF Pending
<1> HIDE DEF p, q
<1>3. Within(p, q)
  BY <1>1, Pushed
<1>4. q \in Seq(Steps) /\ Len(q) = Len(s) + Len(p) /\ Len(p) \in Nat /\ Len(s) \in Nat
      /\ (\A i \in 1..Len(s) : q[i] = s[i]) /\ (\A i \in 1..Len(q) : i > Len(s) => q[i] = p[i - Len(s)])
  BY <1>1, Prefixed
<1>5. DOMAIN s = 1..Len(s) /\ DOMAIN p = 1..Len(p) /\ DOMAIN q = 1..Len(q)
  BY <1>1, <1>4
<1>6. ASSUME NEW i \in DOMAIN s PROVE \E j \in DOMAIN q : q[j] = s[i]
  <2>1. i \in DOMAIN q /\ q[i] = s[i]
    BY <1>4, <1>5
  <2> QED BY <2>1
<1>7. ASSUME NEW i \in DOMAIN q PROVE (\E j \in DOMAIN s : q[i] = s[j]) \/ (\E j \in DOMAIN p : q[i] = p[j])
  <2>1. CASE i <= Len(s)
    <3>1. i \in DOMAIN s /\ q[i] = s[i]
      BY <1>4, <1>5, <2>1
    <3> QED BY <3>1
  <2>2. CASE i > Len(s)
    <3>1. i - Len(s) \in DOMAIN p /\ q[i] = p[i - Len(s)]
      BY <1>4, <1>5, <2>2
    <3> QED BY <3>1
  <2> QED BY <1>4, <1>5, <2>1, <2>2
<1>8. {q[i] : i \in DOMAIN q} = {p[i] : i \in DOMAIN p} \cup {s[i] : i \in DOMAIN s}
  BY <1>3, <1>6, <1>7 DEF Within
<1> QED BY <1>1, <1>2, <1>8

\* What is pending once a free task has its steps.
LEMMA PendingStarts ==
    ASSUME NEW t \in Tasks, NEW s, Starts(t, s)
    PROVE  /\ Pending(t) = {} /\ Pending(t)' = {s[i] : i \in DOMAIN s}
           /\ Pending(Other(t))' = Pending(Other(t)) /\ Other(t) \in Tasks /\ Tasks = {t, Other(t)} /\ Other(t) # t
  BY DEF Starts, Pending

-----------------------------------------------------------------------------
(* The zone a session names is one of this server's *)

\* The steps after the first are still to be done.
Keeps(t) == \A i \in DOMAIN program[t] : i > 1 => \E j \in DOMAIN program'[t] : program'[t][j] = program[t][i]

\* However a step goes, those after it stay.
LEMMA Keeping ==
    ASSUME NEW t, program[t] \in Seq(Steps), program'[t] \in Seq(Steps),
           Pops(program[t], program'[t]) \/ (\E x : Swaps(program[t], program'[t], x)) \/ (\E s : Splices(program[t], program'[t], s))
    PROVE  Keeps(t)
<1> DEFINE p == program[t]
           q == program'[t]
<1>1. p \in Seq(Steps) /\ q \in Seq(Steps) /\ (Pops(p, q) \/ (\E x : Swaps(p, q, x)) \/ (\E s : Splices(p, q, s)))
  OBVIOUS
<1> HIDE DEF p, q
<1>2. DOMAIN p = 1..Len(p) /\ DOMAIN q = 1..Len(q) /\ Len(p) \in Nat /\ Len(q) \in Nat
  BY <1>1
<1>3. ASSUME NEW i \in DOMAIN p, i > 1 PROVE \E j \in DOMAIN q : q[j] = p[i]
  <2>1. CASE Pops(p, q)
    <3>1. i - 1 \in DOMAIN q /\ i - 1 + 1 = i
      BY <1>2, <1>3, <2>1 DEF Pops
    <3> QED BY <2>1, <3>1 DEF Pops
  <2>2. CASE \E x : Swaps(p, q, x)
    BY <1>3, <2>2 DEF Swaps
  <2>3. CASE \E s : Splices(p, q, s)
    <3>1. i + 2 \in DOMAIN q /\ i + 2 > 3 /\ i + 2 - 2 = i
      BY <1>2, <1>3, <2>3 DEF Splices
    <3> QED BY <2>3, <3>1 DEF Splices
  <2> QED BY <1>1, <2>1, <2>2, <2>3
<1> QED BY <1>3 DEF p, q, Keeps

\* Every step of a program leaves the later ones to be done.
LEMMA RestKeeps ==
    ASSUME Inv, NEW t \in Tasks, Rest(t)
    PROVE  Goes(t) /\ Keeps(t)
<1>1. Goes(t) /\ (Pops(program[t], program'[t]) \/ (\E x : Swaps(program[t], program'[t], x)) \/ (\E s : Splices(program[t], program'[t], s)))
  <2>1. CASE ReadSession(t)
    BY <2>1, ReadFacts
  <2>2. CASE UpsertSession(t)
    BY <2>2, UpsertFacts
  <2>3. CASE CheckDeferral(t)
    BY <2>3, CheckFacts
  <2>4. CASE Move(t)
    BY <2>4, MoveFacts
  <2>5. CASE Deliver(t)
    BY <2>5, DeliverFacts
  <2>6. CASE SendBundle(t)
    BY <2>6, BundleFacts
  <2>7. CASE SendContent(t)
    BY <2>7, ContentFacts
  <2>8. CASE Moved(t) \/ Land(t) \/ SendKick(t) \/ Flip(t) \/ Flipped(t) \/ Place(t) \/ HookEnds(t)
    BY <2>8, DoneFacts
  <2> QED BY <2>1, <2>2, <2>3, <2>4, <2>5, <2>6, <2>7, <2>8 DEF Rest
<1>2. program[t] \in Seq(Steps) /\ program'[t] \in Seq(Steps)
  BY <1>1 DEF Goes
<1> QED BY <1>1, <1>2, Keeping

\* A crossing starts from a zone that is here, and only a login, before its placement, may
\* name another without a step having said so.
HereInv ==
    online /\ "torn" \notin disturbed =>
        /\ Has(Packet, "flipped") => session.zone \in Loaded
        /\ session.zone \in Loaded \/ Has(Packet, "place") \/ "unloaded" \in disturbed

\* A step names no zone that is not here, unless the session named none that is.
LEMMA ZoneStaysHere ==
    ASSUME Inv, NEW t \in Tasks, Rest(t), online, "torn" \notin disturbed', session.zone \in Loaded
    PROVE  session'.zone \in Loaded
<1>0. session \in Sessions /\ session # NoSession
  BY DEF Inv, OnlineInv, TypeOK
<1>1. CASE UpsertSession(t)
  <2>1. session' = Step(t).new /\ session = Step(t).read /\ session' \in Sessions /\ Loc(Step(t).new) = Loc(Step(t).read)
    BY <1>1, UpsertFacts DEF UpsertSession, Rewrites
  <2>2. Loc(session') = Loc(session)
    BY <2>1
  <2>3. session'.zone = session.zone
    BY <2>2 DEF Loc
  <2> QED BY <2>3
<1>2. ASSUME NEW l \in Places, DoZoneChange(l) PROVE session'.zone \in Loaded
  BY <1>2, ZoneChanged, ZoneKept DEF Inv
<1>3. CASE Move(t)
  BY <1>2, <1>3, MoveFacts
<1>4. CASE Land(t)
  BY <1>2, <1>4, DoneFacts DEF Land
<1>5. CASE Place(t)
  <2>1. Step(t).loc \in Places
    BY <1>5, DoneFacts DEF Place, At, Step
  <2>2. <<Step(t).loc[1], session.area>> \in Places
    BY <1>0, <2>1, SomeSession DEF Places
  <2>3. DoZoneChange(<<Step(t).loc[1], session.area>>)
    BY <1>0, <1>5 DEF Place
  <2> QED BY <1>2, <2>2, <2>3
<1>6. CASE Flipped(t)
  <2>1. Step(t).loc \in Places
    BY <1>6, DoneFacts DEF Flipped, At, Step
  <2> QED BY <1>0, <1>6, <2>1, FlippedChange DEF Inv
<1>7. CASE \/ ReadSession(t) \/ CheckDeferral(t) \/ Moved(t) \/ Deliver(t) \/ SendBundle(t) \/ SendContent(t)
           \/ SendKick(t) \/ Flip(t) \/ HookEnds(t)
  <2>1. session' = session
    BY <1>7 DEF ReadSession, CheckDeferral, Moved, Deliver, SendBundle, SendContent, SendKick, Flip, HookEnds, server
  <2> QED BY <2>1
<1> QED BY <1>1, <1>3, <1>4, <1>5, <1>6, <1>7 DEF Rest

\* A step leaves no new crossing or placement to be done, and takes away only its own.
LEMMA RestPending ==
    ASSUME Inv, NEW t \in Tasks, Rest(t)
    PROVE  /\ \A s \in Pending(t)' : s \in Later(t) \/ s.do \notin {"flipped", "place"}
           /\ Later(t) \subseteq Pending(t)'
           /\ Pending(t) = Later(t) \cup {Step(t)} /\ Pending(Other(t))' = Pending(Other(t))
           /\ Other(t) \in Tasks /\ Other(t) # t /\ Tasks = {t, Other(t)}
<1>1. Goes(t)
  BY RestKeeps
<1>2. /\ Pops(program[t], program'[t]) => Pending(t)' = Later(t)
      /\ \A x : Swaps(program[t], program'[t], x) => Pending(t)' = Later(t) \cup {x}
      /\ \A s : Splices(program[t], program'[t], s) => Pending(t)' = Later(t) \cup {s[1], s[2], s[3]}
      /\ Pending(Other(t))' = Pending(Other(t)) /\ Pending(t) = Later(t) \cup {Step(t)}
  BY <1>1, Pending3
<1>3. ASSUME NEW x, Swaps(program[t], program'[t], x), x.do \notin {"flipped", "place"}
      PROVE  (\A s \in Pending(t)' : s \in Later(t) \/ s.do \notin {"flipped", "place"}) /\ Later(t) \subseteq Pending(t)'
  BY <1>2, <1>3
<1>4. ASSUME NEW s, Splices(program[t], program'[t], s), s[1].do \notin {"flipped", "place"}, s[2].do \notin {"flipped", "place"},
             s[3].do \notin {"flipped", "place"}
      PROVE  (\A x \in Pending(t)' : x \in Later(t) \/ x.do \notin {"flipped", "place"}) /\ Later(t) \subseteq Pending(t)'
  BY <1>2, <1>4
<1>5. CASE Pops(program[t], program'[t])
  BY <1>1, <1>2, <1>5 DEF Goes
<1>6. (\A r, n : Write(r, n).do = "write") /\ (\A e : Edit(e).do = "edit") /\ (\A w : Do(w).do = w) /\ (\A w, l : To(w, l).do = w)
  BY DEF Write, Edit, Do, To
<1>7. CASE ReadSession(t)
  <2>1. CASE session = NoSession
    BY <1>5, <1>7, <2>1, ReadFacts
  <2>2. CASE session # NoSession
    <3>1. PICK x : x = Write(session, Edited(session, Step(t).e))
      OBVIOUS
    <3>2. Swaps(program[t], program'[t], x) /\ x.do = "write"
      BY <1>6, <1>7, <2>2, <3>1, ReadFacts
    <3> QED BY <1>1, <1>2, <1>3, <3>2 DEF Goes
  <2> QED BY <1>1, <1>2, <2>1, <2>2 DEF Goes
<1>8. CASE CheckDeferral(t)
  <2>1. \E x : Swaps(program[t], program'[t], x) /\ x.do \in {"write", "move"}
    <3>1. \/ \E n : Swaps(program[t], program'[t], Write(session, n))
          \/ \E o : Swaps(program[t], program'[t], [do |-> "move", loc |-> Step(t).loc, old |-> o])
      BY <1>8, CheckFacts
    <3>2. \A o : [do |-> "move", loc |-> Step(t).loc, old |-> o].do = "move"
      OBVIOUS
    <3>3. CASE \E n : Swaps(program[t], program'[t], Write(session, n))
      BY <1>6, <3>3
    <3>4. CASE \E o : Swaps(program[t], program'[t], [do |-> "move", loc |-> Step(t).loc, old |-> o])
      <4>1. PICK o : Swaps(program[t], program'[t], [do |-> "move", loc |-> Step(t).loc, old |-> o])
        BY <3>4
      <4>2. PICK x : x = [do |-> "move", loc |-> Step(t).loc, old |-> o]
        OBVIOUS
      <4> QED BY <4>1, <4>2
    <3> QED BY <3>1, <3>3, <3>4
  <2> QED BY <1>1, <1>2, <1>3, <2>1 DEF Goes
<1>9. CASE Move(t)
  <2>1. PICK e, h : Splices(program[t], program'[t], <<To("moved", Step(t).loc), Edit(e), [do |-> "deliver", how |-> h]>>)
    BY <1>9, MoveFacts
  <2>2. PICK s : s = <<To("moved", Step(t).loc), Edit(e), [do |-> "deliver", how |-> h]>>
    OBVIOUS
  <2>3. s[1].do = "moved" /\ s[2].do = "edit" /\ s[3].do = "deliver"
    BY <1>6, <2>2
  <2> QED BY <1>1, <1>2, <1>4, <2>1, <2>2, <2>3 DEF Goes
<1>10. CASE Deliver(t)
  <2>1. CASE online
    BY <1>1, <1>2, <1>3, <1>6, <1>10, <2>1, DeliverFacts DEF Goes
  <2> QED BY <1>5, <1>10, <2>1, DeliverFacts
<1>11. CASE SendBundle(t)
  <2>1. CASE Swaps(program[t], program'[t], Edit("kicked"))
    BY <1>1, <1>2, <1>3, <1>6, <2>1 DEF Goes
  <2> QED BY <1>5, <1>11, <2>1, BundleFacts
<1>12. CASE SendContent(t)
  <2>1. CASE online
    <3>1. PICK e : Splices(program[t], program'[t], <<Edit(e), Do("bundle"), Edit("warped")>>)
      BY <1>12, <2>1, ContentFacts
    <3>2. PICK s : s = <<Edit(e), Do("bundle"), Edit("warped")>>
      OBVIOUS
    <3>3. s[1].do = "edit" /\ s[2].do = "bundle" /\ s[3].do = "edit"
      BY <1>6, <3>2
    <3> QED BY <1>1, <1>2, <1>4, <3>1, <3>2, <3>3 DEF Goes
  <2> QED BY <1>5, <1>12, <2>1, ContentFacts
<1>13. CASE UpsertSession(t)
  BY <1>5, <1>13, UpsertFacts
<1>14. CASE Moved(t) \/ Land(t) \/ SendKick(t) \/ Flip(t) \/ Flipped(t) \/ Place(t) \/ HookEnds(t)
  BY <1>5, <1>14, DoneFacts
<1> QED BY <1>7, <1>8, <1>9, <1>10, <1>11, <1>12, <1>13, <1>14 DEF Rest

\* A step of a program preserves HereInv.
LEMMA HereRest == ASSUME Inv, HereInv, NEW t \in Tasks, Rest(t) PROVE HereInv'
<1>1. online' = online /\ disturbed \subseteq disturbed'
  BY Disturbing DEF Rest, ReadSession, UpsertSession, CheckDeferral, Move, Moved, Deliver, SendBundle, Land, SendContent,
                    SendKick, Flip, Flipped, Place, HookEnds, server, history, Inv
<1> SUFFICES ASSUME online, "torn" \notin disturbed'
             PROVE  /\ Has(Packet, "flipped")' => session'.zone \in Loaded
                    /\ session'.zone \in Loaded \/ Has(Packet, "place")' \/ "unloaded" \in disturbed'
  BY <1>1 DEF HereInv
<1>2. /\ Has(Packet, "flipped") => session.zone \in Loaded
      /\ session.zone \in Loaded \/ Has(Packet, "place") \/ "unloaded" \in disturbed
  BY <1>1 DEF HereInv
<1>3. session.zone \in Loaded => session'.zone \in Loaded
  BY ZoneStaysHere
<1>4. Packet \in Tasks
  BY DEF Tasks
<1>5. Has(Packet, "flipped")' => Has(Packet, "flipped")
  <2>1. \A s \in Pending(Packet)' : s.do = "flipped" => s \in Pending(Packet)
    BY <1>4, RestPending
  <2> QED BY <2>1 DEF Has
<1>6. Has(Packet, "place") => Has(Packet, "place")' \/ session'.zone \in Loaded \/ "unloaded" \in disturbed'
  <2>1. CASE t = Packet /\ Step(t).do = "place"
    <3>1. Place(t)
      BY <2>1 DEF Rest, ReadSession, UpsertSession, CheckDeferral, Move, Moved, Deliver, SendBundle, Land, SendContent,
                  SendKick, Flip, Flipped, HookEnds, At, Step
    <3>2. session # NoSession /\ session \in Sessions /\ Step(t).loc \in Places
      BY <3>1, DoneFacts DEF Place, At, Step, Inv, OnlineInv, TypeOK
    <3>3. DoZoneChange(<<Step(t).loc[1], session.area>>) /\ disturbed' = disturbed \cup Unloaded(Step(t).loc[1])
      BY <3>1, <3>2 DEF Place
    <3>7. <<Step(t).loc[1], session.area>> \in Places /\ <<Step(t).loc[1], session.area>>[1] = Step(t).loc[1]
      BY <3>2, SomeSession DEF Places
    <3>4. PICK l \in Places : l = <<Step(t).loc[1], session.area>> /\ l[1] = Step(t).loc[1]
      BY <3>7
    <3>5. CASE Step(t).loc[1] \in Loaded
      BY <3>3, <3>4, <3>5, ZoneChanged DEF Inv
    <3>6. CASE Step(t).loc[1] \notin Loaded
      BY <3>3, <3>6 DEF Unloaded
    <3> QED BY <3>5, <3>6
  <2>2. CASE ~(t = Packet /\ Step(t).do = "place")
    <3>1. \A s \in Pending(Packet) : s.do = "place" => s \in Pending(Packet)'
      BY <1>4, <2>2, RestPending
    <3> QED BY <3>1 DEF Has
  <2> QED BY <2>1, <2>2
<1> QED BY <1>1, <1>2, <1>3, <1>5, <1>6

\* Every step preserves HereInv.
LEMMA HereStep == Inv /\ HereInv /\ [Next]_vars => HereInv'
<1> SUFFICES ASSUME Inv, HereInv, [Next]_vars PROVE HereInv'
  OBVIOUS
<1>0. Packet \in Tasks /\ Ticker \in Tasks /\ Packet # Ticker
  BY OtherIs DEF Tasks
<1>1. ASSUME online' = online, disturbed \subseteq disturbed', online => session'.zone = session.zone,
             Has(Packet, "flipped")' => Has(Packet, "flipped"), Has(Packet, "place") => Has(Packet, "place")'
      PROVE  HereInv'
  BY <1>1 DEF HereInv
<1>2. ASSUME NEW t \in Tasks, NEW s \in Seq(Steps), Issued(t, s) PROVE HereInv'
  <2>1. UNCHANGED <<session, online, disturbed>>
    BY <1>2 DEF Issued, server
  <2>2. Pending(t)' = Pending(t) \cup {s[i] : i \in DOMAIN s} /\ Pending(Other(t))' = Pending(Other(t)) /\ Tasks = {t, Other(t)}
    BY <1>2, PendingIssued
  <2>3. \A i \in DOMAIN s : s[i].do # "flipped"
    BY <1>2, OrderedFacts DEF Issued, Inv
  <2>4. (Has(Packet, "flipped")' => Has(Packet, "flipped")) /\ (Has(Packet, "place") => Has(Packet, "place")')
    BY <1>0, <2>2, <2>3 DEF Has
  <2> QED BY <1>1, <2>1, <2>4
<1>3. ASSUME program'[Packet] = program[Packet], online' = online, session' = session, disturbed \subseteq disturbed' PROVE HereInv'
  <2>1. Pending(Packet)' = Pending(Packet)
    BY <1>3 DEF Pending
  <2> QED BY <1>1, <1>3, <2>1 DEF Has
<1>4. CASE UNCHANGED vars \/ ClientLoads \/ (\E spot \in {"away", "strip", "box1", "box2"} : ClientReports(spot))
  BY <1>3, <1>4 DEF vars, ClientLoads, ClientReports, server, history
<1>5. CASE ZoneInDue
  <2>1. program'[Packet] = program[Packet]
    BY <1>0, <1>5, DueFacts, OtherIs DEF Starts
  <2> QED BY <1>3, <1>5, <2>1 DEF ZoneInDue, server, history
<1>6. CASE ZoneInComplete
  <2>1. UNCHANGED <<session, online>> /\ disturbed \subseteq disturbed' /\ session # NoSession
    BY <1>6, Disturbing, ReceiveFacts DEF ZoneInComplete, server, Inv, OnlineInv
  <2>2. PICK w : w = Write(session, Acked(session))
    OBVIOUS
  <2>3. PICK s : Starts(Packet, s) /\ (s = <<w>> \/ s = <<w, To("check", session.deferred)>> \/ s = <<w, Do("kick")>>)
    BY <1>6, <2>1, <2>2, AckFacts
  <2>4. \A i \in DOMAIN s : s[i].do \in {"write", "check", "kick"}
    BY <2>2, <2>3 DEF Write, To, Do
  <2>5. ~Has(Packet, "flipped")' /\ ~Has(Packet, "place")
    BY <1>0, <2>3, <2>4, PendingStarts DEF Has
  <2> QED BY <1>1, <2>1, <2>5
<1>7. CASE UpdatePosition
  <2>1. /\ session \in Sessions /\ program[Packet] = <<>> /\ online' = online /\ disturbed \subseteq disturbed'
        /\ session' = session \/ \E m : session' = [session EXCEPT !.merged = m]
        /\ program' = program \/ (\E s : Starts(Packet, s) /\ Crossing(session, uplink[1].spot) \in {Boundary[1], Boundary[2]})
    BY <1>7, ReportFacts, Disturbing DEF Inv
  <2>2. session'.zone = session.zone
    BY <2>1 DEF Sessions
  <2>3. ~Has(Packet, "place")
    BY <2>1 DEF Has, Pending
  <2>4. CASE program' = program
    <3>1. Pending(Packet)' = Pending(Packet)
      BY <2>4 DEF Pending
    <3> QED BY <1>1, <2>1, <2>2, <3>1 DEF Has
  <2>5. CASE Crossing(session, uplink[1].spot) \in {Boundary[1], Boundary[2]}
    <3>1. session.zone \in Loaded
      BY <2>5, ZonesAssumption DEF Crossing
    <3> QED BY <2>2, <3>1 DEF HereInv
  <2> QED BY <2>1, <2>4, <2>5
<1>8. CASE \E login \in BOOLEAN : SessionBegin(login)
  <2>1. PICK p, e, h, b : p = To("place", saved) /\ e = Edit("touch") /\ h = Do("hook") /\ b = Do("bundle")
    OBVIOUS
  <2>2. p.do = "place" /\ e.do = "edit" /\ h.do = "hook" /\ b.do = "bundle"
    BY <2>1 DEF To, Edit, Do
  <2>3. PICK s : Starts(Packet, s) /\ (s = <<e, h, p, b, h>> \/ s = <<p, b>>)
    BY <1>8, <2>1, BeginFacts
  <2>4. (\A i \in DOMAIN s : s[i].do # "flipped") /\ (\E i \in DOMAIN s : s[i].do = "place")
    <3>1. CASE s = <<e, h, p, b, h>>
      <4>1. 3 \in DOMAIN s /\ s[3] = p
        BY <3>1
      <4> QED BY <2>2, <3>1, <4>1
    <3>2. CASE s = <<p, b>>
      <4>1. 1 \in DOMAIN s /\ s[1] = p
        BY <3>2
      <4> QED BY <2>2, <3>2, <4>1
    <3> QED BY <2>3, <3>1, <3>2
  <2>5. ~Has(Packet, "flipped")' /\ Has(Packet, "place")'
    BY <1>0, <2>3, <2>4, PendingStarts DEF Has
  <2> QED BY <2>5 DEF HereInv
<1>9. CASE SessionEnd
  BY <1>9 DEF SessionEnd, HereInv
<1> QED BY <1>2, <1>4, <1>5, <1>6, <1>7, <1>8, <1>9, NextSteps, HereRest DEF Doing, Happens

-----------------------------------------------------------------------------
(* A client that was told to let go of its world *)

\* Steps that will send the client a zone-in, or park one.
Promises(s) ==
    \/ s.do \in {"bundle", "content", "deliver"}
    \/ s.do = "edit" /\ s.e = "park"
    \/ s.do = "write" /\ s.new.parked
Promised == \E t \in Tasks : \E i \in DOMAIN program[t] : Promises(program[t][i])
StrandedInv ==
    online /\ client.latched /\ "torn" \notin disturbed => session.parked \/ Promised \/ session.zone \notin Loaded

\* A promise that is not the step just taken still stands.
LEMMA StillPromised ==
    ASSUME Inv, NEW t \in Tasks, Rest(t), Promised, ~Promises(Step(t))
    PROVE  Promised'
<1>1. Goes(t) /\ Keeps(t)
  BY RestKeeps
<1>5. PICK u \in Tasks : \E i \in DOMAIN program[u] : Promises(program[u][i])
  BY DEF Promised
<1>2. PICK i \in DOMAIN program[u] : Promises(program[u][i])
  BY <1>5
<1>3. CASE u = t
  <2>1. i \in Nat /\ i >= 1
    BY <1>1, <1>3 DEF Goes
  <2>2. i # 1
    BY <1>1, <1>2, <1>3 DEF Goes
  <2>3. i > 1
    BY <2>1, <2>2
  <2>4. PICK j \in DOMAIN program'[t] : program'[t][j] = program[t][i]
    BY <1>1, <1>3, <2>3 DEF Keeps
  <2> QED BY <1>2, <1>3, <2>4 DEF Promised
<1>4. CASE u # t
  <2>1. program'[u] = program[u]
    BY <1>1, <1>4 DEF Goes
  <2> QED BY <1>2, <2>1 DEF Promised
<1> QED BY <1>3, <1>4

\* Steps that leave the client and what is parked alone, and promise a zone-in to who comes
\* from a zone that is not here to one that is.
LEMMA StrandedRest ==
    ASSUME Inv, StrandedInv, NEW t \in Tasks, Rest(t), ~Promises(Step(t)),
           online' = online, client'.latched = client.latched, disturbed \subseteq disturbed',
           online /\ "torn" \notin disturbed =>
              session'.parked = session.parked /\ (session.zone \notin Loaded => Promised' \/ session'.zone \notin Loaded)
    PROVE  StrandedInv'
BY StillPromised DEF StrandedInv

\* A step of a program strands no client.
LEMMA StrandedStep ==
    ASSUME Inv, HereInv, StrandedInv, NEW t \in Tasks, Rest(t)
    PROVE  StrandedInv'
<1>0. online => session \in Sessions /\ session # NoSession /\ reg # None
  BY DEF Inv, OnlineInv, TypeOK
<1>1. CASE ReadSession(t)
  <2>1. /\ Goes(t) /\ Step(t).do = "edit" /\ Step(t).e \in Edits \cup Owners \cup Zones
        /\ session # NoSession => session \in Sessions /\ Swaps(program[t], program'[t], Write(session, Edited(session, Step(t).e)))
    BY <1>1, ReadFacts
  <2>2. UNCHANGED <<session, online, client, disturbed>>
    BY <1>1 DEF ReadSession, server, history
  <2>3. CASE Step(t).e # "park"
    <3>1. ~Promises(Step(t))
      BY <2>1, <2>3 DEF Promises
    <3> QED BY <2>2, <3>1, StrandedRest
  <2>4. CASE Step(t).e = "park" /\ session # NoSession
    <3>1. Edited(session, Step(t).e).parked
      BY <2>1, <2>4, EditedFacts
    <3>2. Promises(Write(session, Edited(session, Step(t).e)))
      BY <3>1 DEF Promises, Write
    <3>3. 1 \in DOMAIN program'[t] /\ Promises(program'[t][1])
      BY <2>1, <2>4, <3>2 DEF Swaps
    <3> QED BY <3>3 DEF StrandedInv, Promised
  <2>5. CASE session = NoSession
    BY <1>0, <2>2, <2>5 DEF StrandedInv
  <2> QED BY <2>3, <2>4, <2>5
<1>2. CASE UpsertSession(t)
  <2>1. Goes(t) /\ Step(t).do = "write" /\ session' = Step(t).new /\ Step(t).read \in Sessions /\ Pops(program[t], program'[t])
    BY <1>2, UpsertFacts
  <2>2. /\ UNCHANGED <<online, client>>
        /\ disturbed' = IF session = Step(t).read THEN disturbed ELSE disturbed \cup {"torn"}
    BY <1>2 DEF UpsertSession
  <2>3. SUFFICES ASSUME online, client.latched, "torn" \notin disturbed', ~Step(t).new.parked, session'.zone \in Loaded
                 PROVE  Promised'
    BY <2>1, <2>2 DEF StrandedInv
  <2>4. session = Step(t).read /\ "torn" \notin disturbed
    BY <2>2, <2>3
  <2>5. ~Promises(Step(t))
    BY <2>1, <2>3 DEF Promises
  <2>8. session.zone \in Loaded
    <3>1. Loc(session') = Loc(session)
      BY <1>2, <2>1, <2>4, UpsertFacts DEF Rewrites
    <3> QED BY <2>3, <3>1 DEF Loc
  <2>6. CASE Promised
    BY <2>5, <2>6, StillPromised
  <2>7. CASE session.parked
    <3>1. Unparks(Step(t))
      BY <2>1, <2>3, <2>4, <2>7 DEF Unparks
    <3>2. ShapeAt(t, program[t], 1)
      BY <2>1 DEF Inv, ShapeInv, Shape, Goes
    <3>3. Len(program[t]) > 1 /\ program[t][2].do = "bundle"
      BY <2>1, <3>1, <3>2 DEF ShapeAt, Goes
    <3>4. 2 \in DOMAIN program[t]
      BY <2>1, <3>3 DEF Goes
    <3>5. PICK j \in DOMAIN program'[t] : program'[t][j] = program[t][2]
      BY <3>4, RestKeeps DEF Keeps
    <3> QED BY <3>3, <3>5 DEF Promised, Promises
  <2> QED BY <2>3, <2>4, <2>6, <2>7, <2>8 DEF StrandedInv
<1>3. CASE CheckDeferral(t)
  <2>1. Step(t).do = "check"
    BY <1>3, CheckFacts
  <2>2. UNCHANGED <<session, online, client>> /\ disturbed \subseteq disturbed'
    BY <1>3, Disturbing DEF CheckDeferral, server, Inv
  <2> QED BY <2>1, <2>2, StrandedRest DEF Promises
<1>4. CASE Move(t)
  <2>1. Step(t).do = "move" /\ Step(t).loc \in Places /\ DoZoneChange(Step(t).loc)
    BY <1>4, MoveFacts
  <2>2. UNCHANGED <<online, client>> /\ disturbed \subseteq disturbed'
    BY <1>4, Disturbing DEF Move, Inv
  <2>3. Promised'
    <3>1. PICK e, h : Splices(program[t], program'[t], <<To("moved", Step(t).loc), Edit(e), [do |-> "deliver", how |-> h]>>)
      BY <1>4, MoveFacts
    <3>5. PICK s : s = <<To("moved", Step(t).loc), Edit(e), [do |-> "deliver", how |-> h]>>
      OBVIOUS
    <3>2. s[3].do = "deliver"
      BY <3>5
    <3>3. 3 \in DOMAIN program'[t] /\ program'[t][3] = s[3]
      BY <3>1, <3>5 DEF Splices
    <3> QED BY <3>2, <3>3 DEF Promised, Promises
  <2> QED BY <2>3 DEF StrandedInv
<1>5. CASE Deliver(t)
  <2>1. online => \/ Swaps(program[t], program'[t], Edit("park"))
                  \/ Swaps(program[t], program'[t], Do("bundle"))
    BY <1>5, DeliverFacts
  <2>2. Promises(Edit("park")) /\ Promises(Do("bundle"))
    BY DEF Promises, Edit, Do
  <2>3. online => 1 \in DOMAIN program'[t] /\ Promises(program'[t][1])
    BY <2>1, <2>2 DEF Swaps
  <2>4. online => Promised'
    BY <2>3 DEF Promised
  <2>5. online' = online
    BY <1>5 DEF Deliver, server
  <2> QED BY <2>4, <2>5 DEF StrandedInv
<1>6. CASE SendBundle(t)
  <2>1. online' = online
    BY <1>6 DEF SendBundle, server
  <2>2. CASE session.zone \in Loaded
    <3>1. online => client' = [client EXCEPT !.latched = FALSE, !.loads = Append(@, [zone |-> session.zone, epoch |-> warps])]
      BY <1>0, <1>6, <2>2 DEF SendBundle
    <3>2. online => ~client'.latched
      BY <3>1 DEF Inv, TypeOK, Clients
    <3> QED BY <2>1, <3>2 DEF StrandedInv
  <2>3. CASE session.zone \notin Loaded
    <3>1. session' = session
      BY <1>6 DEF SendBundle, server
    <3> QED BY <2>3, <3>1 DEF StrandedInv
  <2> QED BY <2>2, <2>3
<1>7. CASE Land(t)
  <2>1. Step(t).do = "land" /\ Step(t).loc \in Places /\ DoZoneChange(Step(t).loc)
    BY <1>7, DoneFacts DEF Land
  <2>2. UNCHANGED <<online, client>> /\ disturbed \subseteq disturbed'
    BY <1>7, Disturbing DEF Land, Inv
  <2>3. Promised'
    <3>1. Goes(t) /\ Keeps(t)
      BY RestKeeps
    <3>2. ShapeAt(t, program[t], 1)
      BY <3>1 DEF Inv, ShapeInv, Shape, Goes
    <3>3. 3 \in DOMAIN program[t] /\ program[t][3].do = "content"
      BY <2>1, <3>1, <3>2 DEF ShapeAt, Goes
    <3>4. PICK j \in DOMAIN program'[t] : program'[t][j] = program[t][3]
      BY <3>1, <3>3 DEF Keeps
    <3> QED BY <3>3, <3>4 DEF Promised, Promises
  <2> QED BY <2>3 DEF StrandedInv
<1>8. CASE SendContent(t)
  <2>1. online => \E e \in {"kicked", "rekick"} : Splices(program[t], program'[t], <<Edit(e), Do("bundle"), Edit("warped")>>)
    BY <1>8, ContentFacts
  <2>2. \A e : <<Edit(e), Do("bundle"), Edit("warped")>>[2] = Do("bundle")
    OBVIOUS
  <2>3. online => 2 \in DOMAIN program'[t] /\ program'[t][2] = Do("bundle")
    BY <2>1, <2>2 DEF Splices
  <2>4. online => Promised'
    BY <2>3 DEF Promised, Promises, Do
  <2>5. online' = online
    BY <1>8 DEF SendContent, server
  <2> QED BY <2>4, <2>5 DEF StrandedInv
<1>9. CASE SendKick(t) \/ Moved(t) \/ Flip(t) \/ HookEnds(t)
  <2>1. Step(t).do \in {"kick", "moved", "flip", "hook"}
    BY <1>9, DoneFacts
  <2>2. UNCHANGED <<session, online, client>> /\ disturbed \subseteq disturbed'
    BY <1>9, Disturbing DEF SendKick, Moved, Flip, HookEnds, server, history, Inv
  <2> QED BY <2>1, <2>2, StrandedRest DEF Promises
<1>10. CASE Flipped(t)
  <2>1. Step(t).do = "flipped" /\ Step(t).loc \in Places
    BY <1>10, DoneFacts DEF Flipped, At, Step
  <2>2. UNCHANGED <<online, client, disturbed>>
    BY <1>10 DEF Flipped, history
  <2>3. online => session'.parked = session.parked
    BY <1>0, <1>10, <2>1, FlippedChange DEF Inv
  <2>4. Has(Packet, "flipped")
    BY <1>10, <2>1, DoneFacts, RestPending DEF Has
  <2>5. online /\ "torn" \notin disturbed => session.zone \in Loaded
    BY <2>4 DEF HereInv
  <2> QED BY <2>1, <2>2, <2>3, <2>5, StrandedRest DEF Promises
<1>11. CASE Place(t)
  <2>1. Step(t).do = "place" /\ Step(t).loc \in Places
    BY <1>11, DoneFacts DEF Place, At, Step
  <2>2. Promised'
    <3>1. Goes(t) /\ Keeps(t)
      BY RestKeeps
    <3>2. ShapeAt(t, program[t], 1) /\ DOMAIN program[t] = 1..Len(program[t])
      BY <3>1 DEF Inv, ShapeInv, Shape, Goes
    <3>3. PICK i \in DOMAIN program[t] : i > 1 /\ program[t][i].do = "bundle"
      BY <2>1, <3>1, <3>2 DEF ShapeAt, Placement, Goes
    <3>4. PICK j \in DOMAIN program'[t] : program'[t][j] = program[t][i]
      BY <3>1, <3>3 DEF Keeps
    <3> QED BY <3>3, <3>4 DEF Promised, Promises
  <2> QED BY <2>2 DEF StrandedInv
<1> QED BY <1>1, <1>2, <1>3, <1>4, <1>5, <1>6, <1>7, <1>8, <1>9, <1>10, <1>11 DEF Rest

\* What a free task is given leaves the other's promises.
LEMMA StartsPromised ==
    ASSUME NEW t \in Tasks, NEW s, Starts(t, s), Promised
    PROVE  Promised'
<1>1. PICK u \in Tasks : \E i \in DOMAIN program[u] : Promises(program[u][i])
  BY DEF Promised
<1>2. program[t] = <<>> /\ program'[Other(t)] = program[Other(t)] /\ Other(t) \in Tasks /\ Tasks = {t, Other(t)}
  BY DEF Starts
<1>3. u # t
  BY <1>1, <1>2
<1> QED BY <1>1, <1>2, <1>3 DEF Promised

\* A command issued inside a login hook leaves what was promised.
LEMMA IssuedPromised ==
    ASSUME Inv, NEW t \in Tasks, NEW s \in Seq(Steps), Issued(t, s), Promised
    PROVE  Promised'
<1>1. PICK u \in Tasks : \E i \in DOMAIN program[u] : Promises(program[u][i])
  BY DEF Promised
<1>2. program'[t] = s \o program[t] /\ program'[Other(t)] = program[Other(t)] /\ Other(t) \in Tasks /\ Tasks = {t, Other(t)}
  BY IssuedProgram
<1>3. CASE u # t
  BY <1>1, <1>2, <1>3 DEF Promised
<1>4. CASE u = t
  <2>1. PICK i \in DOMAIN program[t] : Promises(program[t][i])
    BY <1>1, <1>4
  <2>2. program[t] \in Seq(Steps)
    BY DEF Inv, TypeOK
  <2>3. Within(program[t], program'[t])
    BY <1>2, <2>2, Pushed
  <2> QED BY <2>1, <2>3 DEF Promised, Within
<1> QED BY <1>3, <1>4

\* The ticker, the client, its messages and its sessions strand no client.
LEMMA StrandedHappens ==
    ASSUME Inv, StrandedInv, Happens
    PROVE  StrandedInv'
<1>1. CASE ZoneInDue
  <2>1. Starts(Ticker, <<Edit("unpark"), Do("bundle")>>) /\ <<Edit("unpark"), Do("bundle")>> \in Seq(Steps) /\ Ticker \in Tasks
    BY <1>1, DueFacts
  <2>2. <<Edit("unpark"), Do("bundle")>>[2] = Do("bundle") /\ 2 \in DOMAIN <<Edit("unpark"), Do("bundle")>>
    OBVIOUS
  <2>3. 2 \in DOMAIN program'[Ticker] /\ program'[Ticker][2] = Do("bundle")
    BY <2>1, <2>2 DEF Starts
  <2> QED BY <2>1, <2>3 DEF StrandedInv, Promised, Promises, Do
<1>2. CASE ClientLoads \/ (\E spot \in {"away", "strip", "box1", "box2"} : ClientReports(spot))
  <2>1. UNCHANGED <<session, online, program, disturbed>>
    BY <1>2 DEF ClientLoads, ClientReports, server, history
  <2>2. client'.latched = client.latched
    BY <1>2, LoadsFacts DEF ClientReports
  <2> QED BY <2>1, <2>2 DEF StrandedInv, Promised
<1>3. CASE ZoneInComplete
  <2>1. online /\ session # NoSession
    BY <1>3, ReceiveFacts DEF ZoneInComplete, Inv, OnlineInv
  <2>2. Promised => Promised'
    BY <1>3, <2>1, AckFacts, StartsPromised
  <2>3. UNCHANGED <<session, online, client>> /\ disturbed \subseteq disturbed'
    BY <1>3, Disturbing DEF ZoneInComplete, server, Inv
  <2> QED BY <2>2, <2>3 DEF StrandedInv
<1>4. CASE UpdatePosition
  <2>1. session \in Sessions /\ UNCHANGED <<online, client>> /\ disturbed \subseteq disturbed'
    BY <1>4, ReportFacts, Disturbing DEF Inv
  <2>2. session'.parked = session.parked /\ session'.zone = session.zone
    <3>1. session' = session \/ (\E m : session' = [session EXCEPT !.merged = m])
      BY <1>4, ReportFacts
    <3> QED BY <2>1, <3>1 DEF Sessions
  <2>3. program' = program \/ \E s : Starts(Packet, s)
    BY <1>4, ReportFacts
  <2>4. Packet \in Tasks
    BY DEF Tasks
  <2>5. Promised => Promised'
    BY <2>3, <2>4, StartsPromised DEF Promised
  <2> QED BY <2>1, <2>2, <2>5 DEF StrandedInv
<1>5. CASE \E login \in BOOLEAN : SessionBegin(login)
  <2>1. client' = NoClient
    BY <1>5 DEF SessionBegin
  <2> QED BY <2>1 DEF StrandedInv, NoClient
<1>6. CASE SessionEnd
  BY <1>6 DEF SessionEnd, StrandedInv
<1> QED BY <1>1, <1>2, <1>3, <1>4, <1>5, <1>6 DEF Happens

\* Every step preserves StrandedInv.
LEMMA StrandedNext == Inv /\ HereInv /\ StrandedInv /\ [Next]_vars => StrandedInv'
<1> SUFFICES ASSUME Inv, HereInv, StrandedInv, [Next]_vars PROVE StrandedInv'
  OBVIOUS
<1>1. ASSUME NEW t \in Tasks, NEW s \in Seq(Steps), Issued(t, s) PROVE StrandedInv'
  <2>1. UNCHANGED <<session, online, client, disturbed>>
    BY <1>1, IssuedProgram DEF Issued, server
  <2> QED BY <1>1, <2>1, IssuedPromised DEF StrandedInv
<1>2. CASE UNCHANGED vars
  BY <1>2 DEF StrandedInv, Promised, vars, server, history
<1> QED BY <1>1, <1>2, NextSteps, StrandedStep, StrandedHappens DEF Doing

\* A client that was told to let go of its world gets a new one: whoever told it goes on to
\* send the zone-in or to park it for the ticker.  Only a lost update of the session record,
\* between one handler's clone and its store, can lose what is parked, and only a session in a
\* zone that is not on this map server gets no zone-in from send_zone_in_bundle.
THEOREM NeverStrandedHolds == Spec => []NeverStranded
<1>1. Init => HereInv /\ StrandedInv
  BY DEF Init, HereInv, StrandedInv, NoClient
<1>3. Inv /\ StrandedInv => NeverStranded
  <2> SUFFICES ASSUME Inv, StrandedInv PROVE NeverStranded
    OBVIOUS
  <2>1. Quiet => ~Promised
    BY DEF Quiet, Promised
  <2> QED BY <2>1 DEF NeverStranded, StrandedInv, Inv, OnlineInv
<1> QED BY <1>1, <1>3, HereStep, StrandedNext, Invariance, PTL DEF Spec

-----------------------------------------------------------------------------
(* The player is listed in one place *)

Seam == {<<Boundary[1], Public>>, <<Boundary[2], Public>>}
Settled ==
    /\ Loc(session) \in placed /\ placed \subseteq left \cup Seam \cup {Loc(session)}
    /\ session.area = Public \/ Loc(session) \in Installed

\* The player is listed where the session says, unless a login has not been placed yet or a
\* crossing of the boundary is half done, and the placement of a login finds no other listing.
Listed ==
    /\ ~Has(Packet, "place") /\ (Has(Packet, "flipped") => Has(Packet, "flip")) => Settled
    /\ Has(Packet, "place") => placed \subseteq left \cup Seam /\ session.defer
    /\ Has(Packet, "flipped") /\ ~Has(Packet, "flip") => placed \subseteq left \cup Seam
\* A login is placed in its zone, and a crossing ends in a public zone at the boundary.
Named ==
    \A s \in Pending(Packet) :
        /\ s.do = "place" => session.zone = s.loc[1]
        /\ s.do = "flipped" => /\ s.loc \in Seam /\ session.area = Public
                               /\ Has(Packet, "flip") \/ (s.loc \in placed /\ s.loc[1] \in Loaded)
\* The registry names the zone of the session, or a task that has moved the player will say so.
Registered ==
    /\ \A t \in Tasks : \A s \in Pending(t) : s.do = "moved" => s.loc[1] = session.zone
    /\ (\A t \in Tasks : ~Has(t, "moved")) => reg = session.zone
\* Who has moved the player is alone with it, and while a login waits to be placed nobody moves it.
Apart ==
    /\ Has(Ticker, "moved") => \A s \in Pending(Packet) : s.do \notin {"moved", "flip", "flipped", "place"}
    /\ Has(Packet, "place") => \A t \in Tasks : ~Has(t, "move") /\ ~Has(t, "moved")
Positioned == Listed /\ Named /\ Registered /\ Apart
PlaceInv == disturbed = {} /\ online => Positioned

\* Steps that no other is like when it comes to where the player is.
Positions == {"place", "flip", "flipped", "moved"}

\* A step of t that moves nobody: the positional steps that are pending stay the same, and a move
\* is only decided when no login defers it.
Alike(t) ==
    /\ \A s \in Pending(t)' : s \in Pending(t) \/ (s.do \notin Positions /\ (s.do = "move" => ~session.defer))
    /\ \A s \in Pending(t) : s \in Pending(t)' \/ s.do \notin Positions
    /\ Pending(Other(t))' = Pending(Other(t)) /\ Other(t) \in Tasks /\ Tasks = {t, Other(t)} /\ Other(t) # t
StaysPut ==
    /\ session'.zone = session.zone /\ session'.area = session.area
    /\ session'.defer = session.defer \/ ~Has(Packet, "place")
    /\ UNCHANGED <<placed, reg, left>>

\* A step that moves nobody preserves PlaceInv.
LEMMA PlaceFrame ==
    ASSUME PlaceInv, NEW t \in Tasks, Alike(t), online' = online, disturbed \subseteq disturbed',
           disturbed' = {} /\ online => StaysPut
    PROVE  PlaceInv'
<1> SUFFICES ASSUME disturbed = {}, online, Positioned, StaysPut PROVE Positioned'
  BY DEF PlaceInv
<1>1. Packet \in Tasks /\ Ticker \in Tasks
  BY DEF Tasks
<1>2. \A u \in Tasks : u = t \/ Pending(u)' = Pending(u)
  BY DEF Alike
<1>3. \A u \in Tasks : \A s \in Pending(u)' : s.do \in Positions => s \in Pending(u)
  BY <1>2 DEF Alike
<1>4. \A u \in Tasks : \A s \in Pending(u) : s.do \in Positions => s \in Pending(u)'
  BY <1>2 DEF Alike
<1>5. \A u \in Tasks, k \in Positions : Has(u, k)' <=> Has(u, k)
  BY <1>3, <1>4 DEF Has
<1>6. \A u \in Tasks : Has(u, "move")' => Has(u, "move") \/ ~session.defer
  BY <1>2 DEF Alike, Has
<1>7. \A k \in {"place", "flip", "flipped", "moved"} : k \in Positions
  BY DEF Positions
<1>8. Loc(session)' = Loc(session)
  BY DEF StaysPut, Loc
<1>9. Listed'
  <2>1. Settled' <=> Settled
    BY <1>8 DEF Settled, StaysPut
  <2>2. Listed
    BY DEF Positioned
  <2>3. (Has(Packet, "place")' <=> Has(Packet, "place")) /\ (Has(Packet, "flip")' <=> Has(Packet, "flip"))
        /\ (Has(Packet, "flipped")' <=> Has(Packet, "flipped"))
    BY <1>1, <1>5, <1>7
  <2> QED BY <2>1, <2>2, <2>3 DEF Listed, StaysPut
<1>10. Named'
  <2>1. ASSUME NEW s \in Pending(Packet)'
        PROVE  /\ s.do = "place" => session'.zone = s.loc[1]
               /\ s.do = "flipped" => /\ s.loc \in Seam /\ session'.area = Public
                                      /\ Has(Packet, "flip")' \/ (s.loc \in placed' /\ s.loc[1] \in Loaded)
    <3>1. s.do \in {"place", "flipped"} => s \in Pending(Packet)
      BY <1>1, <1>3, <1>7
    <3>2. Has(Packet, "flip") => Has(Packet, "flip")'
      BY <1>1, <1>5, <1>7
    <3> QED BY <3>1, <3>2 DEF Positioned, Named, StaysPut
  <2>2. Seam' = Seam
    BY DEF Seam
  <2> QED BY <2>1, <2>2 DEF Named
<1>11. Registered'
  <2>1. \A u \in Tasks : \A s \in Pending(u)' : s.do = "moved" => s \in Pending(u)
    BY <1>3, <1>7
  <2>2. \A u \in Tasks : Has(u, "moved")' <=> Has(u, "moved")
    BY <1>5, <1>7
  <2> QED BY <2>1, <2>2 DEF Positioned, Registered, StaysPut
<1>12. Apart'
  <2>1. \A u \in Tasks : Has(u, "moved")' <=> Has(u, "moved")
    BY <1>5, <1>7
  <2>2. Has(Packet, "place")' <=> Has(Packet, "place")
    BY <1>1, <1>5, <1>7
  <2>3. \A s \in Pending(Packet)' : s.do \in {"moved", "flip", "flipped", "place"} => s \in Pending(Packet)
    BY <1>1, <1>3, <1>7
  <2>4. Has(Packet, "place") => session.defer
    BY DEF Positioned, Listed
  <2>5. Apart
    BY DEF Positioned
  <2>6. Has(Ticker, "moved")' => \A s \in Pending(Packet)' : s.do \notin {"moved", "flip", "flipped", "place"}
    BY <1>1, <2>1, <2>3, <2>5 DEF Apart
  <2>7. Has(Packet, "place")' => \A u \in Tasks : ~Has(u, "move")' /\ ~Has(u, "moved")'
    BY <1>6, <2>1, <2>2, <2>4, <2>5 DEF Apart
  <2> QED BY <2>6, <2>7 DEF Apart
<1> QED BY <1>9, <1>10, <1>11, <1>12 DEF Positioned

\* The steps a task has left after one of its own.
LEMMA AlikeStep ==
    ASSUME Inv, NEW t \in Tasks, Goes(t), NEW N, Pending(t)' = Later(t) \cup N, Step(t).do \notin Positions,
           \A s \in N : s.do \notin Positions /\ (s.do = "move" => ~session.defer)
    PROVE  Alike(t)
<1>1. Pending(t) = Later(t) \cup {Step(t)} /\ Pending(Other(t))' = Pending(Other(t))
  BY Pending3
<1> QED BY <1>1 DEF Alike, Goes


\* A task takes a step that moves nobody.
LEMMA PlaceStays ==
    ASSUME Inv, PlaceInv, NEW t \in Tasks, Goes(t), NEW N, Pending(t)' = Later(t) \cup N, Step(t).do \notin Positions,
           \A s \in N : s.do \notin Positions /\ (s.do = "move" => ~session.defer),
           online' = online, disturbed \subseteq disturbed', disturbed' = {} /\ online => StaysPut
    PROVE  PlaceInv'
<1>1. Alike(t)
  BY AlikeStep
<1> QED BY <1>1, PlaceFrame

\* A clone of the record, and a park or an unpark in it, move nobody.
LEMMA PlaceRead == ASSUME Inv, PlaceInv, NEW t \in Tasks, ReadSession(t) PROVE PlaceInv'
<1>1. UNCHANGED <<session, online, placed, reg, left, disturbed>>
  BY DEF ReadSession, server, history
<1>2. Goes(t) /\ Step(t).do \notin Positions
  BY ReadFacts DEF Positions
<1>3. \E N : Pending(t)' = Later(t) \cup N /\ \A s \in N : s.do = "write"
  <2>1. CASE session = NoSession
    <3>1. PICK N : N = {}
      OBVIOUS
    <3>2. Pending(t)' = Later(t) \cup N /\ \A s \in N : s.do = "write"
      BY <1>2, <2>1, <3>1, ReadFacts, Pending3
    <3> QED BY <3>2
  <2>2. CASE session # NoSession
    <3>1. PICK w : w = Write(session, Edited(session, Step(t).e))
      OBVIOUS
    <3>2. PICK N : N = {w}
      OBVIOUS
    <3>3. Pending(t)' = Later(t) \cup N /\ w.do = "write"
      BY <1>2, <2>2, <3>1, <3>2, ReadFacts, Pending3 DEF Write
    <3> QED BY <3>2, <3>3
  <2> QED BY <2>1, <2>2
<1>4. StaysPut
  BY <1>1 DEF StaysPut
<1>5. PICK N : Pending(t)' = Later(t) \cup N /\ \A s \in N : s.do = "write"
  BY <1>3
<1>6. \A s \in N : s.do \notin Positions /\ s.do # "move"
  BY <1>5 DEF Positions
<1> QED BY <1>1, <1>2, <1>4, <1>5, <1>6, PlaceStays

\* A stored record names the place of the record it replaces.
LEMMA PlaceUpsert == ASSUME Inv, PlaceInv, NEW t \in Tasks, UpsertSession(t) PROVE PlaceInv'
<1>1. UNCHANGED <<online, placed, reg, left>> /\ disturbed \subseteq disturbed'
      /\ (disturbed' = {} => session = Step(t).read) /\ session' = Step(t).new
  BY DEF UpsertSession
<1>2. /\ Goes(t) /\ Step(t).do = "write" /\ Pending(t)' = Later(t) \cup {}
      /\ Step(t).new \in Sessions /\ Step(t).read \in Sessions /\ Rewrites(t, Step(t), Rest2(program[t]))
  BY UpsertFacts, Pending3
<1>3. ASSUME disturbed' = {} PROVE StaysPut
  <2>1. Step(t).new.zone = session.zone /\ Step(t).new.area = session.area
    BY <1>1, <1>2, <1>3 DEF Rewrites, Loc
  <2>2. CASE Step(t).new.defer = Step(t).read.defer
    BY <1>1, <1>3, <2>1, <2>2 DEF StaysPut
  <2>3. CASE t = Packet /\ Rest2(program[t]) \in {"none", "check", "kick"}
    <3>1. program[t] # <<>>
      BY <1>2 DEF Goes
    <3>2. \A s \in Later(t) : s.do \in {"check", "kick"}
      BY <1>2, <2>3, <3>1, Laters
    <3>3. Pending(t) = Later(t) \cup {Step(t)}
      BY <3>1, Laters
    <3>4. ~Has(Packet, "place")
      BY <1>2, <2>3, <3>2, <3>3 DEF Has
    <3> QED BY <1>1, <2>1, <3>4 DEF StaysPut
  <2> QED BY <1>2, <2>2, <2>3 DEF Rewrites
<1>4. Step(t).do \notin Positions
  BY <1>2 DEF Positions
<1>5. PICK N : N = {}
  OBVIOUS
<1>6. Pending(t)' = Later(t) \cup N /\ \A s \in N : s.do \notin Positions /\ s.do # "move"
  BY <1>2, <1>5
<1> QED BY <1>1, <1>2, <1>3, <1>4, <1>6, PlaceStays

\* A move is only decided when no login waits to be placed.
LEMMA PlaceCheck == ASSUME Inv, PlaceInv, NEW t \in Tasks, CheckDeferral(t) PROVE PlaceInv'
<1>1. UNCHANGED <<session, online, placed, reg, left>> /\ disturbed \subseteq disturbed'
  BY Disturbing DEF CheckDeferral, server, Inv
<1>2. Goes(t) /\ Step(t).do \notin Positions
  BY CheckFacts DEF Positions
<1>3. PICK x : Pending(t)' = Later(t) \cup {x} /\ (x.do = "write" \/ (x.do = "move" /\ (session \in Sessions => ~session.defer)))
  <2>1. CASE session \in Sessions /\ session.defer
    <3>1. PICK w : w = Write(session, [session EXCEPT !.deferred = Step(t).loc])
      OBVIOUS
    <3>2. Swaps(program[t], program'[t], w)
      BY <2>1, <3>1, CheckFacts
    <3>3. Pending(t)' = Later(t) \cup {w} /\ w.do = "write"
      BY <1>2, <3>1, <3>2, Pending3 DEF Write
    <3> QED BY <3>3
  <2>2. CASE ~(session \in Sessions /\ session.defer)
    <3>1. PICK o : Swaps(program[t], program'[t], [do |-> "move", loc |-> Step(t).loc, old |-> o])
      BY <2>2, CheckFacts
    <3>2. PICK w : w = [do |-> "move", loc |-> Step(t).loc, old |-> o]
      OBVIOUS
    <3>3. Pending(t)' = Later(t) \cup {w} /\ w.do = "move"
      BY <1>2, <3>1, <3>2, Pending3
    <3> QED BY <2>2, <3>3
  <2> QED BY <2>1, <2>2
<1>4. CASE ~online
  BY <1>1, <1>4 DEF PlaceInv
<1>5. CASE online
  <2>1. session \in Sessions
    BY <1>5 DEF Inv, OnlineInv, TypeOK
  <2>2. \A s \in {x} : s.do \notin Positions /\ (s.do = "move" => ~session.defer)
    BY <1>3, <2>1 DEF Positions
  <2>3. StaysPut
    BY <1>1 DEF StaysPut
  <2> QED BY <1>1, <1>2, <1>3, <2>2, <2>3, PlaceStays
<1> QED BY <1>4, <1>5

\* What is told to the client moves nobody.
LEMMA PlaceTold ==
    ASSUME Inv, PlaceInv, NEW t \in Tasks, Deliver(t) \/ SendBundle(t) \/ SendContent(t) \/ SendKick(t) \/ HookEnds(t)
    PROVE  PlaceInv'
<1>1. UNCHANGED <<session, online, placed, reg, left>> /\ disturbed \subseteq disturbed'
  BY Disturbing DEF Deliver, SendBundle, SendContent, SendKick, HookEnds, server, history, Inv
<1>2. Goes(t) /\ Step(t).do \notin Positions
  BY DeliverFacts, BundleFacts, ContentFacts, DoneFacts DEF Positions
<1>3. \E N : Pending(t)' = Later(t) \cup N /\ \A s \in N : s.do \in {"edit", "bundle"}
  <2>1. CASE Pops(program[t], program'[t])
    <3>1. PICK N : N = {}
      OBVIOUS
    <3>2. Pending(t)' = Later(t) \cup N
      BY <1>2, <2>1, <3>1, Pending3
    <3> QED BY <3>1, <3>2
  <2>2. CASE \E x : Swaps(program[t], program'[t], x) /\ x.do \in {"edit", "bundle"}
    <3>1. PICK x : Swaps(program[t], program'[t], x) /\ x.do \in {"edit", "bundle"}
      BY <2>2
    <3>2. PICK N : N = {x}
      OBVIOUS
    <3>3. Pending(t)' = Later(t) \cup N
      BY <1>2, <3>1, <3>2, Pending3
    <3> QED BY <3>1, <3>2, <3>3
  <2>3. CASE \E s : Splices(program[t], program'[t], s) /\ \A i \in {1, 2, 3} : s[i].do \in {"edit", "bundle"}
    <3>1. PICK s : Splices(program[t], program'[t], s) /\ \A i \in {1, 2, 3} : s[i].do \in {"edit", "bundle"}
      BY <2>3
    <3>2. PICK N : N = {s[1], s[2], s[3]}
      OBVIOUS
    <3>3. Pending(t)' = Later(t) \cup N
      BY <1>2, <3>1, <3>2, Pending3
    <3> QED BY <3>1, <3>2, <3>3
  <2>4. \A e : Edit(e).do \in {"edit", "bundle"}
    BY DEF Edit
  <2>5. Do("bundle").do \in {"edit", "bundle"}
    BY DEF Do
  <2>6. CASE Deliver(t)
    BY <2>1, <2>2, <2>4, <2>5, <2>6, DeliverFacts
  <2>7. CASE SendBundle(t)
    BY <2>1, <2>2, <2>4, <2>5, <2>7, BundleFacts
  <2>8. CASE SendContent(t)
    <3>1. CASE ~online
      BY <2>1, <2>8, <3>1, ContentFacts
    <3>2. CASE online
      <4>1. PICK e : Splices(program[t], program'[t], <<Edit(e), Do("bundle"), Edit("warped")>>)
        BY <2>8, <3>2, ContentFacts
      <4>2. PICK s : s = <<Edit(e), Do("bundle"), Edit("warped")>>
        OBVIOUS
      <4>3. s[1] = Edit(e) /\ s[2] = Do("bundle") /\ s[3] = Edit("warped")
        BY <4>2
      <4> QED BY <2>3, <2>4, <2>5, <4>1, <4>2, <4>3
    <3> QED BY <3>1, <3>2
  <2>9. CASE SendKick(t) \/ HookEnds(t)
    BY <2>1, <2>9, DoneFacts
  <2> QED BY <2>6, <2>7, <2>8, <2>9
<1>4. PICK N : Pending(t)' = Later(t) \cup N /\ \A s \in N : s.do \in {"edit", "bundle"}
  BY <1>3
<1>5. \A s \in N : s.do \notin Positions /\ s.do # "move"
  BY <1>4 DEF Positions
<1>6. StaysPut
  BY <1>1 DEF StaysPut
<1> QED BY <1>1, <1>2, <1>4, <1>5, <1>6, PlaceStays

\* Who moves the player undisturbed does so while the other task does not.
LEMMA Undisturbed ==
    ASSUME NEW t \in Tasks
    PROVE  /\ Overran(t) = {} => Raced(t) = {} /\ ~At(Other(t), "write")
           /\ Raced(t) = {} => disturbed = {} /\ \A s \in Pending(Other(t)) :
                 s.do \notin {"check", "move", "moved", "deliver", "bundle", "flip", "flipped", "land", "kick"}
<1>1. Overran(t) = {} => Raced(t) = {} /\ ~At(Other(t), "write")
  BY DEF Overran
<1>2. Raced(t) = {} => disturbed = {} /\ ~Moving(Other(t))
  BY DEF Raced
<1>3. ~Moving(Other(t)) => \A s \in Pending(Other(t)) :
         s.do \notin {"check", "move", "moved", "deliver", "bundle", "flip", "flipped", "land", "kick"}
  BY DEF Moving, Pending
<1> QED BY <1>1, <1>2, <1>3

\* A move from where the player is listed leads to where the player is listed.
LEMMA SettledChange ==
    ASSUME Inv, online, Settled, NEW l \in Places, DoZoneChange(l), l[1] \in Loaded, left' = left
    PROVE  Settled' /\ session'.zone = l[1]
<1>1. session \in Sessions
  BY DEF Inv, OnlineInv, TypeOK
<1>2. /\ session' \in Sessions /\ Loc(session') = Arrived(l) /\ session'.zone = l[1]
      /\ session'.area = Public \/ Loc(session') \in Installed
      /\ Arrived(l) \in placed' /\ placed' \subseteq placed \cup {Arrived(l)}
      /\ Loc(session) # l /\ Loc(session) \in placed' => Loc(session) = Arrived(l)
  BY <1>1, SomeSession, ZoneChanged DEF Inv
<1>3. Loc(session) = l => Arrived(l) = l
  BY <1>1 DEF Settled, Arrived, Loc
<1> QED BY <1>2, <1>3 DEF Settled, Seam

\* Nobody is about to place the player.
Nobody == \A t \in Tasks : \A s \in Pending(t) : s.do \notin Positions

\* With no positional step pending, PlaceInv is that the player is settled.
LEMMA AllPlaced == ASSUME Nobody, Settled, reg = session.zone PROVE Positioned
<1>1. \A t \in Tasks, k \in Positions : ~Has(t, k)
  BY DEF Nobody, Has
<1>2. Packet \in Tasks /\ Ticker \in Tasks /\ \A k \in {"place", "flip", "flipped", "moved"} : k \in Positions
  BY DEF Tasks, Positions
<1>3. ~Has(Packet, "place") /\ ~Has(Packet, "flipped") /\ \A t \in Tasks : ~Has(t, "moved")
  BY <1>1, <1>2
<1>4. Listed
  BY <1>3 DEF Listed
<1>5. Named
  BY <1>2 DEF Named, Nobody
<1>6. Registered
  BY <1>2 DEF Registered, Nobody
<1>7. Apart
  BY <1>2, <1>3 DEF Apart
<1> QED BY <1>4, <1>5, <1>6, <1>7 DEF Positioned

\* The rest of a program whose first step moves the player.
LEMMA AfterMove ==
    ASSUME Inv, NEW t \in Tasks, program[t] # <<>>, Step(t).do \in {"move", "moved", "land", "place"},
           ~(\E s \in Later(t) : s.do = "place")
    PROVE  \A s \in Later(t) : s.do \notin Positions
<1>1. \A s \in Later(t) : ~First(s) /\ s.do # "flipped" /\ s.do # "place"
  BY Laters
<1> QED BY <1>1 DEF Positions, First

\* Logins, crossings and content instances are the packet task's.
LEMMA PacketOnly ==
    ASSUME Inv, NEW t \in Tasks, NEW s \in Pending(t), s.do \in {"place", "flip", "flipped", "land", "content"}
    PROVE  t = Packet
<1>1. PICK i \in DOMAIN program[t] : s = program[t][i]
  BY DEF Pending
<1>2. ShapeAt(t, program[t], i)
  BY DEF Inv, ShapeInv, Shape
<1> QED BY <1>1, <1>2 DEF ShapeAt

\* A warp lists the player in one place, and will tell the registry.
LEMMA PlaceMove == ASSUME Inv, PlaceInv, NEW t \in Tasks, Move(t) PROVE PlaceInv'
<1> SUFFICES ASSUME disturbed' = {}, online' PROVE Positioned'
  BY DEF PlaceInv
<1>1. UNCHANGED <<online, reg, left>> /\ Overran(t) = {} /\ Step(t).loc[1] \in Loaded
  BY DEF Move, Unloaded
<1>2. disturbed = {} /\ \A s \in Pending(Other(t)) : s.do \notin {"moved", "flip", "flipped"}
  BY <1>1, Undisturbed
<1>3. Positioned /\ online
  BY <1>1, <1>2 DEF PlaceInv
<1>4. Goes(t) /\ program[t] # <<>> /\ Step(t).do = "move" /\ Step(t).loc \in Places /\ DoZoneChange(Step(t).loc)
  BY MoveFacts DEF Goes
<1>5. PICK m, N : /\ Pending(t)' = Later(t) \cup N /\ m = To("moved", Step(t).loc) /\ m \in N
                  /\ \A s \in N : s = m \/ s.do \notin Positions
  <2>1. PICK e, h : Splices(program[t], program'[t], <<To("moved", Step(t).loc), Edit(e), [do |-> "deliver", how |-> h]>>)
    BY MoveFacts
  <2>2. PICK s : s = <<To("moved", Step(t).loc), Edit(e), [do |-> "deliver", how |-> h]>>
    OBVIOUS
  <2>3. s[1] = To("moved", Step(t).loc) /\ s[2].do = "edit" /\ s[3].do = "deliver"
    BY <2>2 DEF Edit
  <2>4. Pending(t)' = Later(t) \cup {s[1], s[2], s[3]}
    BY <1>4, <2>1, <2>2, Pending3
  <2>5. PICK N : N = {s[1], s[2], s[3]}
    OBVIOUS
  <2>6. \A x \in N : x = s[1] \/ x.do \notin Positions
    BY <2>3, <2>5 DEF Positions
  <2> QED BY <2>3, <2>4, <2>5, <2>6
<1>6. Tasks = {t, Other(t)} /\ Other(t) \in Tasks /\ Pending(Other(t))' = Pending(Other(t)) /\ Pending(t) = Later(t) \cup {Step(t)}
      /\ Packet \in Tasks /\ Ticker \in Tasks
  BY <1>4, Pending3 DEF Goes, Tasks
<1>7. ~Has(Packet, "place")
  <2>1. Has(t, "move")
    BY <1>4, <1>6 DEF Has
  <2> QED BY <1>3, <2>1 DEF Positioned, Apart
<1>8. \A u \in Tasks : \A s \in Pending(u) : s.do # "place"
  BY <1>7, PacketOnly DEF Has
<1>9. (\A s \in Later(t) : s.do \notin Positions) /\ (\A s \in Pending(Other(t)) : s.do \notin Positions)
  <2>1. \A s \in Later(t) : s.do # "place"
    BY <1>6, <1>8
  <2>2. \A s \in Pending(Other(t)) : s.do # "place"
    BY <1>6, <1>8
  <2> QED BY <1>2, <1>4, <2>1, <2>2, AfterMove DEF Positions
<1>10. Settled
  <2>1. ~Has(Packet, "flipped")
    <3>1. Packet = t \/ Packet = Other(t)
      BY <1>6
    <3> QED BY <1>4, <1>6, <1>9, <3>1 DEF Has, Positions
  <2> QED BY <1>3, <1>7, <2>1 DEF Positioned, Listed
<1>11. Settled' /\ session'.zone = Step(t).loc[1]
  BY <1>1, <1>3, <1>4, <1>10, SettledChange
<1>12. \A u \in Tasks : \A s \in Pending(u)' : s.do \in Positions => u = t /\ s = m
  BY <1>5, <1>6, <1>9
<1>13. m.do = "moved" /\ m.loc = Step(t).loc /\ m \in Pending(t)'
  BY <1>5 DEF To
<1>14. \A u \in Tasks : ~Has(u, "place")' /\ ~Has(u, "flip")' /\ ~Has(u, "flipped")' /\ (Has(u, "moved")' => u = t)
  BY <1>12, <1>13 DEF Has, Positions
<1>15. Listed' /\ Named'
  BY <1>6, <1>11, <1>14 DEF Listed, Named, Has
<1>16. Registered'
  BY <1>11, <1>12, <1>13 DEF Registered, Has, Positions
<1>17. Apart'
  BY <1>6, <1>12, <1>13, <1>14, OtherIs DEF Apart, Has, Positions
<1> QED BY <1>15, <1>16, <1>17 DEF Positioned

\* And so in the next state.
LEMMA AllPlacedNext == Nobody' /\ Settled' /\ (reg = session.zone)' => Positioned'
BY AllPlaced, PTL

\* A content warp lists the player in one place.
LEMMA PlaceLand == ASSUME Inv, PlaceInv, NEW t \in Tasks, Land(t) PROVE PlaceInv'
<1> SUFFICES ASSUME disturbed' = {}, online' PROVE Positioned'
  BY DEF PlaceInv
<1>1. /\ UNCHANGED <<online, left>> /\ Overran(t) = {} /\ reg' = (IF reg = None THEN None ELSE Step(t).loc[1])
      /\ ~(\E i \in DOMAIN program[t] : program[t][i].do = "place") /\ Step(t).loc[1] \in Loaded
  BY DEF Land, Unloaded
<1>2. disturbed = {} /\ \A s \in Pending(Other(t)) : s.do \notin {"moved", "flip", "flipped"}
  BY <1>1, Undisturbed
<1>3. Positioned /\ online /\ reg # None
  BY <1>1, <1>2 DEF PlaceInv, Inv, OnlineInv
<1>4. /\ Goes(t) /\ program[t] # <<>> /\ Step(t).do = "land" /\ t = Packet /\ Step(t).loc \in Places /\ DoZoneChange(Step(t).loc)
      /\ Pending(t)' = Later(t)
  BY DoneFacts, Pending3 DEF Goes, Land
<1>5. Tasks = {t, Other(t)} /\ Other(t) \in Tasks /\ Pending(Other(t))' = Pending(Other(t)) /\ Pending(t) = Later(t) \cup {Step(t)} /\ Other(t) # t
  BY <1>4, Pending3 DEF Goes
<1>6. ~Has(Packet, "place")
  BY <1>1, <1>4 DEF Has, Pending
<1>7. \A u \in Tasks : \A s \in Pending(u) : s.do # "place"
  BY <1>6, PacketOnly DEF Has
<1>8. (\A s \in Later(t) : s.do \notin Positions) /\ (\A s \in Pending(Other(t)) : s.do \notin Positions)
  <2>1. \A s \in Later(t) : s.do # "place"
    BY <1>5, <1>7
  <2>2. \A s \in Pending(Other(t)) : s.do # "place"
    BY <1>5, <1>7
  <2> QED BY <1>2, <1>4, <2>1, <2>2, AfterMove DEF Positions
<1>9. Settled
  <2>1. ~Has(Packet, "flipped")
    BY <1>4, <1>5, <1>8 DEF Has, Positions
  <2> QED BY <1>3, <1>6, <2>1 DEF Positioned, Listed
<1>10. Settled' /\ reg' = session'.zone
  BY <1>1, <1>3, <1>4, <1>9, SettledChange
<1>11. Nobody'
  BY <1>4, <1>5, <1>8 DEF Nobody
<1> QED BY <1>10, <1>11, AllPlacedNext

\* The registry follows the warp that the same task has made.
LEMMA PlaceMoved == ASSUME Inv, PlaceInv, NEW t \in Tasks, Moved(t) PROVE PlaceInv'
<1> SUFFICES ASSUME disturbed' = {}, online' PROVE Positioned'
  BY DEF PlaceInv
<1>1. UNCHANGED <<session, online, placed, left, disturbed>> /\ reg' = (IF reg = None THEN None ELSE Step(t).loc[1])
  BY DEF Moved, history
<1>2. Positioned /\ online /\ reg # None
  BY <1>1 DEF PlaceInv, Inv, OnlineInv
<1>3. Goes(t) /\ program[t] # <<>> /\ Step(t).do = "moved" /\ Pending(t)' = Later(t)
  BY DoneFacts, Pending3 DEF Goes, Moved
<1>4. Tasks = {t, Other(t)} /\ Other(t) \in Tasks /\ Pending(Other(t))' = Pending(Other(t)) /\ Pending(t) = Later(t) \cup {Step(t)} /\ Other(t) # t
      /\ Packet \in Tasks /\ Ticker \in Tasks
  BY <1>3, Pending3 DEF Goes, Tasks
<1>5. Step(t).loc[1] = session.zone /\ Has(t, "moved")
  BY <1>2, <1>3, <1>4 DEF Positioned, Registered, Has
<1>6. ~Has(Packet, "place")
  BY <1>2, <1>5 DEF Positioned, Apart
<1>7. \A u \in Tasks : \A s \in Pending(u) : s.do # "place"
  BY <1>6, PacketOnly DEF Has
<1>8. \A s \in Later(t) : s.do \notin Positions
  BY <1>3, <1>4, <1>7, AfterMove
<1>9. \A s \in Pending(Other(t)) : s.do \notin Positions
  <2>1. CASE t = Ticker
    BY <1>2, <1>4, <1>5, <2>1, OtherIs DEF Positioned, Apart, Positions
  <2>2. CASE t = Packet
    <3>1. ~Has(Ticker, "moved")
      BY <1>2, <1>3, <1>4, <2>2 DEF Positioned, Apart
    <3>2. \A s \in Pending(Ticker) : s.do \notin Positions
      BY <1>4, <3>1, PacketOnly, OtherIs DEF Has, Positions
    <3> QED BY <2>2, <3>2, OtherIs
  <2> QED BY <2>1, <2>2 DEF Tasks
<1>10. Settled
  <2>1. ~Has(Packet, "flipped")
    BY <1>3, <1>4, <1>8, <1>9 DEF Has, Positions
  <2> QED BY <1>2, <1>6, <2>1 DEF Positioned, Listed
<1>11. Settled' /\ reg' = session'.zone
  BY <1>1, <1>2, <1>5, <1>10 DEF Settled, Loc, Seam
<1>12. Nobody'
  BY <1>3, <1>4, <1>8, <1>9 DEF Nobody
<1> QED BY <1>11, <1>12, AllPlacedNext

\* A crossing leaves the list of one side for that of the other.
LEMMA PlaceFlip == ASSUME Inv, PlaceInv, NEW t \in Tasks, Flip(t) PROVE PlaceInv'
<1> SUFFICES ASSUME disturbed' = {}, online' PROVE Positioned'
  BY DEF PlaceInv
<1>1. UNCHANGED <<session, online, reg, left>> /\ disturbed = {} /\ Step(t).loc[1] \in Loaded
      /\ placed' = ((IF session = NoSession THEN placed ELSE placed \ {<<session.zone, Public>>}) \cup {Step(t).loc})
  BY DEF Flip, Unloaded
<1>2. Positioned /\ online /\ session # NoSession
  BY <1>1 DEF PlaceInv, Inv, OnlineInv
<1>3. Goes(t) /\ program[t] # <<>> /\ Step(t).do = "flip" /\ t = Packet /\ Pending(t)' = Later(t)
  BY DoneFacts, Pending3 DEF Goes, Flip
<1>4. Tasks = {t, Other(t)} /\ Other(t) \in Tasks /\ Pending(Other(t))' = Pending(Other(t)) /\ Pending(t) = Later(t) \cup {Step(t)} /\ Other(t) = Ticker
      /\ Packet \in Tasks /\ Ticker \in Tasks
  BY <1>3, Pending3, OtherIs DEF Goes, Tasks
<1>5. PICK f \in Later(t) : f.do = "flipped"
  BY <1>3, Laters
<1>6. \A s \in Later(t) : s.do = "flipped" /\ s.loc = Step(t).loc
  BY <1>3, Laters
<1>7. f.loc \in Seam /\ session.area = Public /\ f.loc = Step(t).loc
  BY <1>2, <1>3, <1>4, <1>5, <1>6 DEF Positioned, Named
<1>8. Has(Packet, "flip") /\ ~Has(Packet, "place") /\ ~Has(Ticker, "moved") /\ ~Has(Packet, "moved")
  <2>1. Has(Packet, "flip") /\ ~Has(Packet, "place") /\ ~Has(Packet, "moved")
    BY <1>3, <1>4, <1>6 DEF Has
  <2> QED BY <1>2, <2>1 DEF Positioned, Apart, Has
<1>9. Settled
  BY <1>2, <1>8 DEF Positioned, Listed
<1>10. placed' \subseteq left' \cup Seam' /\ Step(t).loc \in placed'
  <2>1. Loc(session) = <<session.zone, Public>>
    BY <1>7 DEF Loc
  <2> QED BY <1>1, <1>2, <1>7, <1>9, <2>1 DEF Settled, Seam
<1>11. Has(Packet, "flipped")' /\ ~Has(Packet, "flip")' /\ ~Has(Packet, "place")' /\ ~Has(Packet, "moved")' /\ ~Has(Ticker, "moved")'
  BY <1>3, <1>4, <1>5, <1>6, <1>8 DEF Has
<1>12. Listed'
  BY <1>10, <1>11 DEF Listed
<1>13. Named'
  BY <1>1, <1>3, <1>6, <1>7, <1>10 DEF Named, Seam
<1>14. Registered'
  <2>1. \A u \in Tasks : ~Has(u, "moved") /\ ~Has(u, "moved")'
    BY <1>3, <1>4, <1>8, <1>11
  <2> QED BY <1>1, <1>2, <2>1 DEF Positioned, Registered, Has
<1>15. Apart'
  BY <1>11 DEF Apart
<1> QED BY <1>12, <1>13, <1>14, <1>15 DEF Positioned

\* The record follows the crossing that the same task has made.
LEMMA PlaceFlipped == ASSUME Inv, PlaceInv, NEW t \in Tasks, Flipped(t) PROVE PlaceInv'
<1> SUFFICES ASSUME disturbed' = {}, online' PROVE Positioned'
  BY DEF PlaceInv
<1>1. UNCHANGED <<online, placed, left, disturbed>> /\ reg' = (IF reg = None THEN None ELSE Step(t).loc[1])
  BY DEF Flipped, history
<1>2. Positioned /\ online /\ session # NoSession /\ reg # None /\ TypeOK
  BY <1>1 DEF PlaceInv, Inv, OnlineInv
<1>3. Goes(t) /\ program[t] # <<>> /\ Step(t).do = "flipped" /\ t = Packet /\ Pending(t)' = Later(t) /\ Later(t) = {} /\ Step(t).loc \in Places
  BY DoneFacts, Pending3, Laters DEF Goes, Flipped
<1>4. Tasks = {t, Other(t)} /\ Other(t) \in Tasks /\ Pending(Other(t))' = Pending(Other(t)) /\ Pending(t) = {Step(t)} /\ Other(t) = Ticker
      /\ Packet \in Tasks /\ Ticker \in Tasks
  BY <1>3, Pending3, OtherIs DEF Goes, Tasks
<1>5. Has(Packet, "flipped") /\ ~Has(Packet, "flip") /\ ~Has(Packet, "place")
  BY <1>3, <1>4 DEF Has
<1>6. placed \subseteq left \cup Seam /\ Step(t).loc \in Seam /\ session.area = Public /\ Step(t).loc \in placed /\ Step(t).loc[1] \in Loaded
  BY <1>2, <1>3, <1>4, <1>5 DEF Positioned, Listed, Named
<1>7. session'.zone = Step(t).loc[1] /\ session'.area = session.area
  BY <1>2, <1>3, <1>6, FlippedChange
<1>8. Loc(session') = Step(t).loc
  BY <1>6, <1>7 DEF Loc, Seam
<1>9. Settled' /\ reg' = session'.zone
  BY <1>1, <1>2, <1>6, <1>7, <1>8 DEF Settled, Seam
<1>10. ~Has(Ticker, "moved")
  BY <1>2, <1>3, <1>4 DEF Positioned, Apart
<1>11. Nobody'
  <2>1. ASSUME NEW s \in Pending(Ticker) PROVE s.do \notin Positions
    <3>1. Ticker \in Tasks /\ Ticker # Packet
      BY <1>4, OtherIs
    <3>2. s.do # "moved"
      BY <1>10 DEF Has
    <3>3. s.do # "place" /\ s.do # "flip" /\ s.do # "flipped"
      BY <3>1, PacketOnly
    <3> QED BY <3>2, <3>3 DEF Positions
  <2> QED BY <1>3, <1>4, <2>1 DEF Nobody
<1> QED BY <1>9, <1>11, AllPlacedNext

\* A login is listed in the place its session names.
LEMMA PlacePlace == ASSUME Inv, PlaceInv, NEW t \in Tasks, Place(t) PROVE PlaceInv'
<1> SUFFICES ASSUME disturbed' = {}, online' PROVE Positioned'
  BY DEF PlaceInv
<1>1. UNCHANGED <<online, reg, left>> /\ disturbed = {} /\ Step(t).loc[1] \in Loaded
      /\ DoZoneChange(<<Step(t).loc[1], IF session = NoSession THEN Public ELSE session.area>>)
  BY DEF Place, Unloaded
<1>2. Positioned /\ online /\ session \in Sessions /\ session # NoSession /\ reg # None
  BY <1>1 DEF PlaceInv, Inv, OnlineInv, TypeOK
<1>3. Goes(t) /\ program[t] # <<>> /\ Step(t).do = "place" /\ t = Packet /\ Pending(t)' = Later(t)
  BY DoneFacts, Pending3 DEF Goes, Place
<1>4. Tasks = {t, Other(t)} /\ Other(t) \in Tasks /\ Pending(Other(t))' = Pending(Other(t)) /\ Pending(t) = Later(t) \cup {Step(t)} /\ Other(t) = Ticker
      /\ Packet \in Tasks /\ Ticker \in Tasks
  BY <1>3, Pending3, OtherIs DEF Goes, Tasks
<1>5. Has(Packet, "place")
  BY <1>3, <1>4 DEF Has
<1>6. placed \subseteq left \cup Seam /\ session.zone = Step(t).loc[1] /\ \A u \in Tasks : ~Has(u, "moved")
  BY <1>2, <1>3, <1>4, <1>5 DEF Positioned, Listed, Named, Apart
<1>7. reg = session.zone
  BY <1>2, <1>6 DEF Positioned, Registered
<1>8. DoZoneChange(Loc(session)) /\ Loc(session) \in Places /\ Loc(session)[1] = session.zone
  BY <1>1, <1>2, <1>6, SomeSession DEF Loc
<1>9. PICK l \in Places : l = Loc(session)
  BY <1>8
<1>10. /\ Loc(session') = Arrived(l) /\ session'.zone = l[1] /\ Arrived(l) \in placed' /\ placed' \subseteq placed \cup {Arrived(l)}
       /\ session'.area = Public \/ Loc(session') \in Installed
  BY <1>1, <1>6, <1>8, <1>9, ZoneChanged DEF Inv
<1>11. Settled' /\ reg' = session'.zone
  BY <1>1, <1>6, <1>7, <1>8, <1>9, <1>10 DEF Settled, Seam
<1>12. Nobody'
  <2>1. \A s \in Later(t) : s.do # "place"
    BY <1>3, Laters
  <2>2. \A s \in Later(t) : s.do \notin Positions
    BY <1>3, <2>1, AfterMove
  <2>3. ASSUME NEW s \in Pending(Ticker) PROVE s.do \notin Positions
    <3>1. Ticker \in Tasks /\ Ticker # Packet
      BY <1>4, OtherIs
    <3>2. s.do # "moved"
      BY <1>6, <3>1 DEF Has
    <3>3. s.do # "place" /\ s.do # "flip" /\ s.do # "flipped"
      BY <3>1, PacketOnly
    <3> QED BY <3>2, <3>3 DEF Positions
  <2> QED BY <1>3, <1>4, <2>2, <2>3 DEF Nobody
<1> QED BY <1>11, <1>12, AllPlacedNext

\* A command moves nobody yet.
LEMMA PlaceIssued == ASSUME Inv, PlaceInv, NEW t \in Tasks, NEW s \in Seq(Steps), Issued(t, s) PROVE PlaceInv'
<1>1. UNCHANGED <<session, online, placed, reg, left, disturbed>>
  BY DEF Issued, server
<1>2. Pending(t)' = Pending(t) \cup {s[i] : i \in DOMAIN s}
      /\ Pending(Other(t))' = Pending(Other(t)) /\ Other(t) \in Tasks /\ Tasks = {t, Other(t)} /\ Other(t) # t
  BY PendingIssued
<1>3. \A i \in DOMAIN s : s[i].do \notin Positions /\ s[i].do # "move"
  BY OrderedFacts DEF Issued, Inv, Positions
<1>4. Alike(t)
  BY <1>2, <1>3 DEF Alike
<1>5. StaysPut
  BY <1>1 DEF StaysPut
<1> QED BY <1>1, <1>4, <1>5, PlaceFrame

\* A free task is given steps that move nobody.
LEMMA PlaceStarts ==
    ASSUME Inv, PlaceInv, NEW t \in Tasks, NEW s, Starts(t, s), \A i \in DOMAIN s : s[i].do \in {"edit", "write", "bundle", "check", "kick"},
           UNCHANGED <<session, online, placed, reg, left>>, disturbed \subseteq disturbed'
    PROVE  PlaceInv'
<1>1. Pending(t) = {} /\ Pending(t)' = {s[i] : i \in DOMAIN s}
      /\ Pending(Other(t))' = Pending(Other(t)) /\ Other(t) \in Tasks /\ Tasks = {t, Other(t)} /\ Other(t) # t
  BY PendingStarts
<1>2. Alike(t)
  BY <1>1 DEF Alike, Positions
<1>3. StaysPut
  BY DEF StaysPut
<1> QED BY <1>2, <1>3, PlaceFrame

\* A zone-in that is due moves nobody.
LEMMA PlaceDue == ASSUME Inv, PlaceInv, ZoneInDue PROVE PlaceInv'
<1>1. PICK s : Starts(Ticker, s) /\ s = <<Edit("unpark"), Do("bundle")>> /\ Ticker \in Tasks
  BY DueFacts
<1>2. \A i \in DOMAIN s : s[i].do \in {"edit", "bundle"}
  BY <1>1 DEF Edit, Do
<1>3. UNCHANGED <<session, online, placed, reg, left, disturbed>>
  BY DEF ZoneInDue, server, history
<1> QED BY <1>1, <1>2, <1>3, PlaceStarts

\* An acknowledgement may start the warp that was parked.
LEMMA PlaceAck == ASSUME Inv, PlaceInv, ZoneInComplete PROVE PlaceInv'
<1>1. UNCHANGED <<session, online, placed, reg, left>> /\ disturbed \subseteq disturbed'
  BY Disturbing DEF ZoneInComplete, server, Inv
<1>2. session # NoSession
  BY ReceiveFacts DEF ZoneInComplete, Inv, OnlineInv
<1>3. PICK w : w = Write(session, Acked(session))
  OBVIOUS
<1>4. PICK s : /\ Starts(Packet, s) /\ Packet \in Tasks
               /\ \/ s = <<w>> \/ s = <<w, To("check", session.deferred)>> \/ s = <<w, Do("kick")>>
  BY <1>2, <1>3, AckFacts
<1>5. w.do = "write" /\ Do("kick").do = "kick" /\ To("check", session.deferred).do = "check"
  BY <1>3 DEF Write, Do, To
<1>6. \A i \in DOMAIN s : s[i].do \in {"write", "check", "kick"}
  BY <1>4, <1>5
<1> QED BY <1>1, <1>4, <1>6, PlaceStarts

\* A task's program and the position stay the same.
LEMMA PlaceKept ==
    ASSUME Inv, PlaceInv, program' = program, online' = online, disturbed \subseteq disturbed', StaysPut
    PROVE  PlaceInv'
<1>1. Packet \in Tasks /\ \A t \in Tasks : Pending(t)' = Pending(t)
  BY DEF Pending, Tasks
<1>2. Other(Packet) \in Tasks /\ Other(Packet) # Packet /\ Tasks = {Packet, Other(Packet)}
  BY OtherIs DEF Tasks
<1>3. Alike(Packet)
  BY <1>1, <1>2 DEF Alike
<1> QED BY <1>1, <1>3, PlaceFrame

\* A report projects the player over the boundary, or starts a crossing.
LEMMA PlaceReport == ASSUME Inv, PlaceInv, UpdatePosition PROVE PlaceInv'
<1> SUFFICES ASSUME disturbed' = {}, online' PROVE Positioned'
  BY DEF PlaceInv
<1>1. session \in Sessions /\ UNCHANGED <<online, reg, left>> /\ disturbed \subseteq disturbed' /\ program[Packet] = <<>>
  BY ReportFacts, Disturbing DEF Inv
<1>2. Positioned /\ online
  BY <1>1 DEF PlaceInv
<1>3. Packet \in Tasks /\ Ticker \in Tasks /\ Tasks = {Packet, Ticker} /\ Other(Packet) = Ticker
  BY OtherIs DEF Tasks
<1>4. CASE UNCHANGED <<session, placed, program>>
  <2>1. StaysPut
    BY <1>1, <1>4 DEF StaysPut
  <2> QED BY <1>1, <1>4, <2>1, PlaceKept DEF PlaceInv
<1>5. ASSUME NEW other \in {Boundary[1], Boundary[2]}, session' = [session EXCEPT !.merged = other], placed \subseteq placed',
             placed' \subseteq placed \cup {<<other, Public>>}, program' = program
      PROVE  Positioned'
  <2>1. session'.zone = session.zone /\ session'.area = session.area /\ session'.defer = session.defer
    BY <1>1, <1>5 DEF Sessions
  <2>2. \A t \in Tasks : Pending(t)' = Pending(t)
    BY <1>5 DEF Pending
  <2>3. \A k : Has(Packet, k)' <=> Has(Packet, k)
    BY <1>3, <2>2 DEF Has
  <2>4. placed' \subseteq placed \cup Seam /\ Seam' = Seam /\ Loc(session') = Loc(session)
    BY <1>5, <2>1 DEF Seam, Loc
  <2>5. Listed'
    BY <1>1, <1>2, <1>5, <2>1, <2>3, <2>4 DEF Positioned, Listed, Settled
  <2>6. Named'
    BY <1>2, <1>3, <1>5, <2>1, <2>2, <2>3, <2>4 DEF Positioned, Named
  <2>7. Registered'
    BY <1>1, <1>2, <2>1, <2>2 DEF Positioned, Registered, Has
  <2>8. Apart'
    BY <1>2, <1>3, <2>2 DEF Positioned, Apart, Has
  <2> QED BY <2>5, <2>6, <2>7, <2>8 DEF Positioned
<1>6. CASE session' = [session EXCEPT !.merged = None] /\ UNCHANGED <<placed, program>>
  <2>1. session'.zone = session.zone /\ session'.area = session.area /\ session'.defer = session.defer
    BY <1>1, <1>6 DEF Sessions
  <2>2. StaysPut
    BY <1>1, <1>6, <2>1 DEF StaysPut
  <2> QED BY <1>1, <1>6, <2>2, PlaceKept DEF PlaceInv
<1>7. ASSUME NEW cross \in {Boundary[1], Boundary[2]}, UNCHANGED <<session, placed>>,
             Starts(Packet, <<To("flip", <<cross, Public>>), To("flipped", <<cross, Public>>)>>),
             disturbed' = Raced(Packet) \cup (IF Parking(Ticker) THEN {"race"} ELSE {})
                                         \cup (IF cross \in Zones /\ session.area # Public THEN {"seam"} ELSE {})
      PROVE  Positioned'
  <2>1. cross \in Zones /\ session.area = Public /\ Raced(Packet) = {}
    BY <1>7, ZonesAssumption
  <2>2. \A s \in Pending(Ticker) : s.do # "moved"
    BY <1>3, <2>1, Undisturbed
  <2>3. PICK l : l = <<cross, Public>> /\ l \in Seam
    BY DEF Seam
  <2>4. PICK f, g : f = To("flip", l) /\ g = To("flipped", l)
    OBVIOUS
  <2>5. PICK s : s = <<f, g>> /\ Starts(Packet, s)
    BY <1>7, <2>3, <2>4
  <2>6. {s[i] : i \in DOMAIN s} = {f, g}
    BY <2>5
  <2>7. Pending(Packet) = {} /\ Pending(Packet)' = {f, g} /\ Pending(Ticker)' = Pending(Ticker)
    BY <1>3, <2>5, <2>6, PendingStarts
  <2>8. f.do = "flip" /\ g.do = "flipped" /\ g.loc = l
    BY <2>4 DEF To
  <2>9. Settled
    BY <1>2, <2>7 DEF Positioned, Listed, Has
  <2>10. Settled'
    BY <1>1, <1>7, <2>9 DEF Settled, Seam
  <2>11. Has(Packet, "flip")' /\ ~Has(Packet, "place")' /\ \A u \in Tasks : ~Has(u, "moved") /\ ~Has(u, "moved")'
    BY <1>3, <2>2, <2>7, <2>8 DEF Has
  <2>12. Listed'
    BY <2>10, <2>11 DEF Listed
  <2>13. Named'
    BY <1>7, <2>1, <2>3, <2>7, <2>8, <2>11 DEF Named, Seam
  <2>14. Registered'
    BY <1>1, <1>2, <1>7, <2>11 DEF Positioned, Registered, Has
  <2>15. Apart'
    BY <1>3, <2>11 DEF Apart
  <2> QED BY <2>12, <2>13, <2>14, <2>15 DEF Positioned
<1> QED BY <1>4, <1>5, <1>6, <1>7, ReportFacts

\* A session begins with its placement to come.
LEMMA PlaceBegin == ASSUME Inv, NEW login \in BOOLEAN, SessionBegin(login) PROVE PlaceInv'
<1> SUFFICES ASSUME disturbed' = {}, online' PROVE Positioned'
  BY DEF PlaceInv
<1>1. /\ ~online /\ reg' = saved[1] /\ session' = [FreshSession EXCEPT !.zone = saved[1], !.area = saved[2], !.defer = TRUE]
      /\ UNCHANGED <<placed, left>> /\ program[Ticker] = <<>> /\ disturbed = {}
  BY DEF SessionBegin
<1>2. session'.zone = saved[1] /\ session'.area = saved[2] /\ session'.defer
  BY <1>1 DEF FreshSession
<1>3. placed \subseteq left
  BY <1>1 DEF Inv, OnlineInv
<1>4. Packet \in Tasks /\ Ticker \in Tasks /\ Tasks = {Packet, Ticker} /\ Other(Packet) = Ticker
  BY OtherIs DEF Tasks
<1>5. PICK p : p = To("place", saved)
  OBVIOUS
<1>6. p.do = "place" /\ p.loc = saved
  BY <1>5 DEF To
<1>7. Edit("touch").do = "edit" /\ Do("hook").do = "hook" /\ Do("bundle").do = "bundle"
  BY DEF Edit, Do
<1>8. PICK s : Starts(Packet, s) /\ (s = <<Edit("touch"), Do("hook"), p, Do("bundle"), Do("hook")>> \/ s = <<p, Do("bundle")>>)
  BY <1>5, BeginFacts
<1>9. (\A i \in DOMAIN s : s[i] = p \/ s[i].do \in {"edit", "hook", "bundle"}) /\ (\E i \in DOMAIN s : s[i] = p)
  <2>1. CASE s = <<Edit("touch"), Do("hook"), p, Do("bundle"), Do("hook")>>
    <3>1. 3 \in DOMAIN s /\ s[3] = p
      BY <2>1
    <3> QED BY <1>7, <2>1, <3>1
  <2>2. CASE s = <<p, Do("bundle")>>
    <3>1. 1 \in DOMAIN s /\ s[1] = p
      BY <2>2
    <3> QED BY <1>7, <2>2, <3>1
  <2> QED BY <1>8, <2>1, <2>2
<1>10. Pending(Packet)' = {s[i] : i \in DOMAIN s} /\ Pending(Ticker)' = {}
  <2>1. Pending(Packet)' = {s[i] : i \in DOMAIN s} /\ Pending(Ticker)' = Pending(Ticker)
    BY <1>4, <1>8, PendingStarts
  <2>2. Pending(Ticker) = {}
    BY <1>1 DEF Pending
  <2> QED BY <2>1, <2>2
<1>11. \A u \in Tasks : \A x \in Pending(u)' : x = p \/ x.do \in {"edit", "hook", "bundle"}
  BY <1>4, <1>9, <1>10
<1>12. Has(Packet, "place")' /\ \A u \in Tasks : ~Has(u, "move")' /\ ~Has(u, "moved")' /\ ~Has(u, "flipped")'
  BY <1>4, <1>6, <1>9, <1>10, <1>11 DEF Has
<1>13. Listed'
  BY <1>1, <1>2, <1>3, <1>4, <1>12 DEF Listed
<1>14. Named'
  BY <1>2, <1>4, <1>6, <1>11 DEF Named
<1>15. Registered'
  BY <1>1, <1>2, <1>12 DEF Registered, Has
<1>16. Apart'
  BY <1>4, <1>12 DEF Apart
<1> QED BY <1>13, <1>14, <1>15, <1>16 DEF Positioned

\* Every step preserves PlaceInv.
LEMMA PlaceStep == Inv /\ PlaceInv /\ [Next]_vars => PlaceInv'
<1> SUFFICES ASSUME Inv, PlaceInv, [Next]_vars PROVE PlaceInv'
  OBVIOUS
<1>1. ASSUME NEW t \in Tasks, Rest(t) PROVE PlaceInv'
  BY <1>1, PlaceRead, PlaceUpsert, PlaceCheck, PlaceTold, PlaceMove, PlaceLand, PlaceMoved, PlaceFlip, PlaceFlipped, PlacePlace
     DEF Rest
<1>2. ASSUME NEW t \in Tasks, NEW s \in Seq(Steps), Issued(t, s) PROVE PlaceInv'
  BY <1>2, PlaceIssued
<1>3. CASE ClientLoads \/ (\E spot \in {"away", "strip", "box1", "box2"} : ClientReports(spot)) \/ UNCHANGED vars
  <2>1. UNCHANGED <<session, online, placed, reg, left, program, disturbed>>
    BY <1>3 DEF ClientLoads, ClientReports, vars, server, history
  <2> QED BY <2>1, PlaceKept DEF StaysPut
<1>4. CASE SessionEnd
  BY <1>4 DEF SessionEnd, PlaceInv
<1>5. CASE Happens
  BY <1>3, <1>4, <1>5, PlaceDue, PlaceAck, PlaceReport, PlaceBegin DEF Happens
<1> QED BY <1>1, <1>2, <1>3, <1>5, NextSteps DEF Doing

\* The player is listed where the session says, by the same zone in the registry, and nowhere
\* else but over the boundary, however the script warps, content instances, boundary crossings
\* and logins of do_zone_change_with_private_area, do_seamless_zone_change and
\* handle_session_begin follow each other - as long as the player is not sent to a zone that is
\* not on this map server, and the packet task and the ticker do not move the player at once,
\* neither of which anything in the code prevents.
THEOREM InOnePlaceHolds == Spec => []InOnePlace
<1>1. Init => PlaceInv
  BY DEF Init, PlaceInv
<1>2. Inv /\ PlaceInv => InOnePlace
  <2> SUFFICES ASSUME Inv, PlaceInv, Quiet, online, disturbed = {}
               PROVE  /\ Loc(session) \in placed /\ reg = session.zone
                      /\ \A loc \in placed \ (left \cup {Loc(session)}) : loc[2] = Public /\ loc[1] \in {Boundary[1], Boundary[2]}
    BY DEF InOnePlace
  <2>1. \A t \in Tasks : Pending(t) = {}
    BY DEF Quiet, Pending
  <2>2. \A t \in Tasks : \A k : ~Has(t, k)
    BY <2>1 DEF Has
  <2>3. Packet \in Tasks
    BY DEF Tasks
  <2>4. Settled /\ reg = session.zone
    BY <2>2, <2>3 DEF PlaceInv, Positioned, Listed, Registered
  <2> QED BY <2>4 DEF Settled, Seam
<1> QED BY <1>1, <1>2, PlaceStep, Invariance, PTL DEF Spec

-----------------------------------------------------------------------------
(* Loads and messages come in the order they were sent *)

\* Of sequences with epochs.
Sorted(q) == \A i, j \in DOMAIN q : i < j => q[i].epoch <= q[j].epoch
AtMost(q, n) == \A i \in DOMAIN q : q[i].epoch <= n
AtLeast(q, n) == \A i \in DOMAIN q : n <= q[i].epoch
All(q, n) == \A i \in DOMAIN q : q[i].epoch = n

\* The client's messages are of loads up to the one it shows, those under way to it of later ones,
\* and a client whose actors were wiped waits for a bundle or has one to load.
OrderInv ==
    /\ Sorted(uplink) /\ AtMost(uplink, client.epoch)
    /\ Sorted(client.loads) /\ AtLeast(client.loads, client.epoch) /\ AtMost(client.loads, warps)
    /\ client.epoch <= warps
    /\ client.wiped => client.latched \/ client.loads # <<>>

Epochs(S) == \A s \in S : s.epoch \in Int

\* Loads and messages carry the number of a move.
LEMMA HaveEpochs == Epochs(Loads) /\ Epochs(Messages)
  BY DEF Epochs, Loads, Messages

\* A sequence without its first, and with another last.
LEMMA SortedTail ==
    ASSUME NEW S, Epochs(S), NEW q \in Seq(S), q # <<>>, Sorted(q)
    PROVE  /\ Sorted(Tail(q)) /\ AtLeast(Tail(q), q[1].epoch) /\ AtLeast(q, q[1].epoch) /\ q[1].epoch \in Int
           /\ \A n \in Int : /\ AtMost(q, n) => AtMost(Tail(q), n) /\ q[1].epoch <= n
                             /\ AtLeast(q, n) => n <= q[1].epoch
                             /\ All(q, n) => All(Tail(q), n) /\ q[1].epoch = n
<1>1. \A i \in DOMAIN q : q[i].epoch \in Int
  BY DEF Epochs
<1>2. /\ DOMAIN q = 1..Len(q) /\ Len(q) \in Nat /\ Len(q) > 0 /\ 1 \in DOMAIN q
      /\ DOMAIN Tail(q) = 1..Len(q) - 1 /\ \A i \in DOMAIN Tail(q) : Tail(q)[i] = q[i + 1] /\ i + 1 \in DOMAIN q /\ i \in Nat /\ i > 0
  OBVIOUS
<1> DEFINE r == Tail(q)
<1>3. DOMAIN r = 1..Len(q) - 1 /\ \A i \in DOMAIN r : r[i] = q[i + 1] /\ i + 1 \in DOMAIN q /\ i \in Nat /\ i > 0
  BY <1>2
<1> HIDE DEF r
<1>4. Sorted(r)
  BY <1>3 DEF Sorted
<1>5. AtLeast(r, q[1].epoch)
  BY <1>2, <1>3 DEF Sorted, AtLeast
<1>6. AtLeast(q, q[1].epoch)
  <2> SUFFICES ASSUME NEW i \in DOMAIN q PROVE q[1].epoch <= q[i].epoch
    BY DEF AtLeast
  <2>1. CASE i = 1
    BY <1>1, <2>1
  <2>2. CASE i # 1
    BY <1>2, <2>2 DEF Sorted
  <2> QED BY <2>1, <2>2
<1>7. ASSUME NEW n \in Int
      PROVE  /\ AtMost(q, n) => AtMost(r, n) /\ q[1].epoch <= n
             /\ AtLeast(q, n) => n <= q[1].epoch
             /\ All(q, n) => All(r, n) /\ q[1].epoch = n
  BY <1>2, <1>3 DEF AtMost, AtLeast, All
<1> QED BY <1>1, <1>2, <1>4, <1>5, <1>6, <1>7 DEF r

\* A sequence with another last.
LEMMA SortedAppend ==
    ASSUME NEW S, Epochs(S), NEW q \in Seq(S), NEW x \in S
    PROVE  /\ Append(q, x) \in Seq(S) /\ Append(q, x) # <<>>
           /\ Sorted(q) /\ AtMost(q, x.epoch) => Sorted(Append(q, x))
           /\ \A n \in Int : /\ AtMost(q, n) /\ x.epoch <= n => AtMost(Append(q, x), n)
                             /\ AtLeast(q, n) /\ n <= x.epoch => AtLeast(Append(q, x), n)
                             /\ All(q, n) /\ n = x.epoch => All(Append(q, x), n)
<1>1. /\ Append(q, x) \in Seq(S) /\ Append(q, x) # <<>> /\ DOMAIN q = 1..Len(q) /\ Len(q) \in Nat
      /\ DOMAIN Append(q, x) = 1..Len(q) + 1 /\ Append(q, x)[Len(q) + 1] = x /\ \A i \in 1..Len(q) : Append(q, x)[i] = q[i]
  OBVIOUS
<1>2. x.epoch \in Int /\ \A i \in DOMAIN q : q[i].epoch \in Int
  BY DEF Epochs
<1>3. PICK n \in Nat : n = Len(q)
  BY <1>1
<1> DEFINE r == Append(q, x)
<1>4. DOMAIN q = 1..n /\ DOMAIN r = 1..n + 1 /\ r[n + 1] = x /\ \A i \in 1..n : r[i] = q[i]
  BY <1>1, <1>3
<1> HIDE DEF r
<1>5. ASSUME Sorted(q), AtMost(q, x.epoch) PROVE Sorted(r)
  <2> SUFFICES ASSUME NEW i \in DOMAIN r, NEW j \in DOMAIN r, i < j PROVE r[i].epoch <= r[j].epoch
    BY DEF Sorted
  <2>1. i \in 1..n /\ r[i] = q[i]
    BY <1>4
  <2>2. CASE j = n + 1
    BY <1>4, <1>5, <2>1, <2>2 DEF AtMost
  <2>3. CASE j # n + 1
    <3>1. j \in 1..n /\ r[j] = q[j]
      BY <1>4, <2>3
    <3> QED BY <1>4, <1>5, <2>1, <3>1 DEF Sorted
  <2> QED BY <2>2, <2>3
<1>6. \A i \in DOMAIN r : i = n + 1 \/ (i \in DOMAIN q /\ r[i] = q[i])
  BY <1>4
<1>7. ASSUME NEW m \in Int
      PROVE  /\ AtMost(q, m) /\ x.epoch <= m => AtMost(r, m)
             /\ AtLeast(q, m) /\ m <= x.epoch => AtLeast(r, m)
             /\ All(q, m) /\ m = x.epoch => All(r, m)
  BY <1>4, <1>6 DEF AtMost, AtLeast, All
<1> QED BY <1>1, <1>5, <1>7 DEF r

\* A later bound.
LEMMA Wider ==
    ASSUME NEW S, Epochs(S), NEW q \in Seq(S), NEW m \in Int, NEW n \in Int
    PROVE  /\ m <= n /\ AtMost(q, m) => AtMost(q, n)
           /\ AtLeast(q, n) /\ AtMost(q, n) => All(q, n)
<1>1. \A i \in DOMAIN q : q[i].epoch \in Int
  BY DEF Epochs
<1> QED BY <1>1 DEF AtMost, AtLeast, All

\* A step that leaves loads and messages alone keeps their order.
LEMMA OrderKept ==
    ASSUME Inv, OrderInv, uplink' = uplink, client'.epoch = client.epoch, client'.loads = client.loads,
           client'.wiped => client'.latched \/ client'.loads # <<>>, warps' \in {warps, warps + 1}
    PROVE  OrderInv'
<1>1. client \in Clients /\ client.loads \in Seq(Loads) /\ client.epoch \in Int /\ warps \in Int
  BY DEF Inv, TypeOK, Clients
<1>2. PICK n \in Int : n = warps' /\ warps <= n
  BY <1>1
<1>3. AtMost(client.loads, n)
  BY <1>1, <1>2, HaveEpochs, Wider DEF OrderInv
<1>4. client.epoch <= n
  BY <1>1, <1>2 DEF OrderInv
<1> QED BY <1>2, <1>3, <1>4 DEF OrderInv

\* A client told to let go is latched: it waits for a bundle.
LEMMA OrderTold ==
    ASSUME Inv, OrderInv, NEW t \in Tasks, Deliver(t) \/ SendContent(t)
    PROVE  OrderInv'
<1>1. uplink' = uplink /\ warps' = warps
  BY DEF Deliver, SendContent
<1>2. client \in Clients
  BY DEF Inv, TypeOK
<1>3. client' = client \/ \E w, r : client' = [client EXCEPT !.latched = TRUE, !.wiped = w, !.reload = r]
  BY DEF Deliver, SendContent
<1>4. client'.epoch = client.epoch /\ client'.loads = client.loads /\ (client'.wiped => client'.latched \/ client'.loads # <<>>)
  BY <1>2, <1>3 DEF Clients, OrderInv
<1> QED BY <1>1, <1>4, OrderKept

\* What a bundle adds to the client's record.
LEMMA Bundled ==
    ASSUME Inv, NEW t \in Tasks, SendBundle(t)
    PROVE  client' = client \/ \E l \in Loads : /\ l.epoch = warps /\ client'.loads = Append(client.loads, l) /\ client'.epoch = client.epoch
                                               /\ client'.wiped = client.wiped /\ client'.reload = client.reload
<1>1. CASE session = NoSession \/ ~online \/ reg = None \/ session.zone \notin Loaded
  BY <1>1 DEF SendBundle
<1>2. CASE ~(session = NoSession \/ ~online \/ reg = None \/ session.zone \notin Loaded)
  <2>1. PICK l : l = [zone |-> session.zone, epoch |-> warps]
    OBVIOUS
  <2>2. l \in Loads /\ l.epoch = warps
    BY <1>2, <2>1, SomeSession DEF Loads, Inv, TypeOK
  <2>3. client' = [client EXCEPT !.latched = FALSE, !.loads = Append(@, l)]
    BY <1>2, <2>1 DEF SendBundle
  <2>4. client \in Clients
    BY DEF Inv, TypeOK
  <2> QED BY <2>2, <2>3, <2>4 DEF Clients
<1> QED BY <1>1, <1>2

\* A bundle is of the last move, so it comes last.
LEMMA OrderBundle == ASSUME Inv, OrderInv, NEW t \in Tasks, SendBundle(t) PROVE OrderInv'
<1>1. uplink' = uplink /\ warps' = warps /\ client.loads \in Seq(Loads) /\ client.epoch \in Int /\ warps \in Int
  BY DEF SendBundle, history, Inv, TypeOK, Clients
<1>2. CASE client' = client
  BY <1>1, <1>2, OrderKept DEF OrderInv
<1>3. ASSUME NEW l \in Loads, l.epoch = warps, client'.loads = Append(client.loads, l), client'.epoch = client.epoch
      PROVE  OrderInv'
  <2>1. /\ Append(client.loads, l) # <<>>
        /\ Sorted(client.loads) /\ AtMost(client.loads, l.epoch) => Sorted(Append(client.loads, l))
        /\ AtMost(client.loads, warps) /\ l.epoch <= warps => AtMost(Append(client.loads, l), warps)
        /\ AtLeast(client.loads, client.epoch) /\ client.epoch <= l.epoch => AtLeast(Append(client.loads, l), client.epoch)
    BY <1>1, HaveEpochs, SortedAppend
  <2>2. l.epoch <= warps
    BY <1>1, <1>3
  <2> QED BY <1>1, <1>3, <2>1, <2>2 DEF OrderInv
<1> QED BY <1>2, <1>3, Bundled

\* The client acknowledges the oldest load, none of whose messages came before.
LEMMA OrderLoads == ASSUME Inv, OrderInv, ClientLoads PROVE OrderInv'
<1>1. /\ client.loads \in Seq(Loads) /\ client.loads # <<>> /\ client \in Clients /\ client.epoch \in Int /\ warps \in Int /\ uplink \in Seq(Messages)
      /\ client'.epoch = client.loads[1].epoch /\ client'.loads = Tail(client.loads) /\ client'.latched = client.latched
      /\ client'.wiped => client.wiped /\ (client.latched \/ Len(client.loads) > 1)
      /\ uplink' = Append(uplink, [m |-> "ack", epoch |-> client.loads[1].epoch]) /\ warps' = warps
  BY LoadsFacts DEF ClientLoads, history, Inv, TypeOK, Clients
<1>2. PICK n \in Int : n = client.loads[1].epoch /\ Sorted(Tail(client.loads)) /\ AtLeast(Tail(client.loads), n)
                       /\ AtMost(Tail(client.loads), warps) /\ n <= warps /\ client.epoch <= n
  BY <1>1, HaveEpochs, SortedTail DEF OrderInv
<1>3. PICK x \in Messages : x = [m |-> "ack", epoch |-> n] /\ x.epoch = n
  <2>1. [m |-> "ack", epoch |-> n] \in Messages
    BY <1>2 DEF Messages
  <2> QED BY <2>1
<1>4. AtMost(uplink, n)
  BY <1>1, <1>2, HaveEpochs, Wider DEF OrderInv
<1>5. n <= n
  OBVIOUS
<1>6. Sorted(Append(uplink, x)) /\ AtMost(Append(uplink, x), n)
  BY <1>1, <1>3, <1>4, <1>5, HaveEpochs, SortedAppend DEF OrderInv
<1>7. Len(client.loads) > 1 => Tail(client.loads) # <<>>
  <2>1. \A q \in Seq(Loads) : q # <<>> /\ Len(q) > 1 => Tail(q) # <<>>
    OBVIOUS
  <2> QED BY <1>1, <2>1
<1> QED BY <1>1, <1>2, <1>3, <1>6, <1>7 DEF OrderInv

\* The client reports from the load it shows.
LEMMA OrderReports == ASSUME Inv, OrderInv, NEW spot \in {"away", "strip", "box1", "box2"}, ClientReports(spot) PROVE OrderInv'
<1>1. client' = client /\ warps' = warps /\ client.epoch \in Int /\ uplink \in Seq(Messages)
      /\ uplink' = Append(uplink, [m |-> "report", epoch |-> client.epoch, spot |-> spot])
  BY DEF ClientReports, history, Inv, TypeOK, Clients
<1>2. PICK x \in Messages : x = [m |-> "report", epoch |-> client.epoch, spot |-> spot] /\ x.epoch = client.epoch
  BY <1>1 DEF Messages
<1>3. client.epoch <= client.epoch
  BY <1>1
<1>4. Sorted(Append(uplink, x)) /\ AtMost(Append(uplink, x), client.epoch)
  BY <1>1, <1>2, <1>3, HaveEpochs, SortedAppend DEF OrderInv
<1> QED BY <1>1, <1>2, <1>4 DEF OrderInv

\* One message fewer, and the order is kept.
LEMMA OrderReceives ==
    ASSUME Inv, OrderInv, NEW m, Receives(m), client' = client, warps' = warps
    PROVE  OrderInv'
<1>1. uplink \in Seq(Messages) /\ uplink' = Tail(uplink) /\ uplink # <<>> /\ client.epoch \in Int
  BY ReceiveFacts DEF Inv, TypeOK, Clients
<1>2. Sorted(Tail(uplink)) /\ AtMost(Tail(uplink), client.epoch)
  BY <1>1, HaveEpochs, SortedTail DEF OrderInv
<1> QED BY <1>1, <1>2 DEF OrderInv

\* A client that is new has no loads and no messages.
LEMMA OrderFresh ==
    ASSUME Inv, client' = NoClient, uplink' = <<>>, warps' = warps
    PROVE  OrderInv'
<1>1. Sorted(<<>>) /\ \A n : AtMost(<<>>, n) /\ AtLeast(<<>>, n)
  BY DEF Sorted, AtMost, AtLeast
<1>2. NoClient.epoch = -1 /\ NoClient.loads = <<>> /\ ~NoClient.wiped
  BY DEF NoClient
<1>3. warps \in Nat
  BY DEF Inv, TypeOK
<1>4. -1 <= warps
  BY <1>3
<1> QED BY <1>1, <1>2, <1>4 DEF OrderInv

\* Every step keeps the order of loads and messages.
LEMMA OrderStep == Inv /\ OrderInv /\ [Next]_vars => OrderInv'
<1> SUFFICES ASSUME Inv, OrderInv, [Next]_vars PROVE OrderInv'
  OBVIOUS
<1>1. ASSUME uplink' = uplink, client' = client, warps' \in {warps, warps + 1} PROVE OrderInv'
  BY <1>1, OrderKept DEF OrderInv
<1>2. ASSUME NEW t \in Tasks, Rest(t) PROVE OrderInv'
  <2>1. CASE Deliver(t) \/ SendContent(t)
    BY <2>1, OrderTold
  <2>2. CASE SendBundle(t)
    BY <2>2, OrderBundle
  <2>3. CASE Move(t) \/ Land(t)
    BY <1>1, <2>3 DEF Move, Land
  <2>4. CASE \/ ReadSession(t) \/ UpsertSession(t) \/ CheckDeferral(t) \/ Moved(t)
             \/ SendKick(t) \/ Flip(t) \/ Flipped(t) \/ Place(t) \/ HookEnds(t)
    BY <1>1, <2>4 DEF ReadSession, UpsertSession, CheckDeferral, Moved, SendKick, Flip, Flipped, Place, HookEnds, history
  <2> QED BY <1>2, <2>1, <2>2, <2>3, <2>4 DEF Rest
<1>3. ASSUME NEW t \in Tasks, NEW s \in Seq(Steps), Issued(t, s) PROVE OrderInv'
  BY <1>1, <1>3 DEF Issued
<1>4. CASE Happens
  <2>1. CASE ZoneInDue
    BY <1>1, <2>1 DEF ZoneInDue, history
  <2>2. CASE ZoneInComplete
    BY <2>2, OrderReceives DEF ZoneInComplete
  <2>3. CASE UpdatePosition
    BY <2>3, ReportFacts, OrderReceives DEF UpdatePosition
  <2>4. CASE \E login \in BOOLEAN : SessionBegin(login)
    <3>1. ~online /\ client' = NoClient /\ uplink' = uplink /\ warps' = warps
      BY <2>4 DEF SessionBegin
    <3>2. uplink = <<>>
      BY <3>1 DEF Inv, OnlineInv
    <3> QED BY <3>1, <3>2, OrderFresh
  <2>5. CASE SessionEnd
    BY <2>5, OrderFresh DEF SessionEnd
  <2> QED BY <1>4, <2>1, <2>2, <2>3, <2>4, <2>5, OrderLoads, OrderReports DEF Happens
<1>5. CASE UNCHANGED vars
  BY <1>1, <1>5 DEF vars, history
<1> QED BY <1>2, <1>3, <1>4, <1>5, NextSteps DEF Doing

-----------------------------------------------------------------------------
(* While the client reloads, reports and events are held off *)

\* A stored record that lifts the latch, which only an acknowledgement does.
Clears(s) == s.do = "write" /\ s.read.reload /\ ~s.new.reload
\* Somebody is about to tell the client to let go of its world.
Wiping == \E t \in Tasks : Has(t, "deliver") \/ Has(t, "content")
\* What the client shows, loads and says is of the last move.
Fresh == client.epoch = warps /\ All(uplink, warps) /\ All(client.loads, warps)
\* The next step of t does not wipe the client's actors.
NoWipe(t) == program[t] # <<>> => ~Wipes(Step(t))

\* Whose actors were wiped has its session latched, and nobody is about to kick an event; the
\* latch is lifted for a client that has loaded the last place, with no move or wipe under
\* way; and a client that was told to reload and whose session is not latched has done so.
Held ==
    /\ client.wiped => session.reload
    /\ \A t \in Tasks : NoWipe(t) \/ session.reload
    /\ \A t \in Tasks : Has(t, "kick") => ~client.wiped
    /\ \A s \in Pending(Packet) : Clears(s) => ~client.wiped /\ Fresh /\ ~Wiping /\ \A t \in Tasks : ~Has(t, "moved")
    /\ client.reload /\ ~session.reload /\ ~Wiping => Fresh
HeldInv == disturbed = {} => broken = {} /\ (online => Held)

\* Steps that concern the client's world, and steps of t that do not.
Worldly == {"kick", "moved", "deliver", "content"}
Tells(s) == s.do \in Worldly \/ Clears(s)
Minds(t) ==
    /\ \A s \in Pending(t)' : s \in Pending(t) \/ ~Tells(s)
    /\ \A s \in Pending(t) : s \in Pending(t)' \/ s.do \notin {"deliver", "content"}
    /\ NoWipe(t)' \/ program'[t] = program[t]
    /\ program'[Other(t)] = program[Other(t)] /\ Other(t) \in Tasks /\ Tasks = {t, Other(t)} /\ Other(t) # t
SameWorld ==
    /\ session'.reload = session.reload /\ client'.reload = client.reload
    /\ client'.wiped => client.wiped
    /\ Fresh => Fresh'

\* A step that tells the client nothing preserves HeldInv.
LEMMA HeldFrame ==
    ASSUME HeldInv, NEW t \in Tasks, Minds(t), online' = online, disturbed \subseteq disturbed',
           disturbed' = {} => broken' = broken, disturbed' = {} /\ online => SameWorld
    PROVE  HeldInv'
<1> SUFFICES ASSUME disturbed' = {}, online PROVE Held'
  BY DEF HeldInv
<1>1. disturbed = {} /\ Held /\ SameWorld
  BY DEF HeldInv
<1>2. Packet \in Tasks /\ Ticker \in Tasks
  BY DEF Tasks
<1>3. Pending(Other(t))' = Pending(Other(t))
  BY DEF Minds, Pending
<1>4. \A u \in Tasks : u = t \/ u = Other(t)
  BY DEF Minds
<1>5. \A u \in Tasks : \A s \in Pending(u)' : Tells(s) => s \in Pending(u)
  BY <1>3, <1>4 DEF Minds
<1>6. \A u \in Tasks : \A s \in Pending(u) : s.do \in {"deliver", "content"} => s \in Pending(u)'
  BY <1>3, <1>4 DEF Minds
<1>7. \A u \in Tasks, k \in Worldly : Has(u, k)' => Has(u, k)
  BY <1>5 DEF Has, Tells
<1>8. \A k \in {"kick", "moved", "deliver", "content"} : k \in Worldly
  BY DEF Worldly
<1>9. Wiping' <=> Wiping
  <2>1. Wiping' => Wiping
    BY <1>7, <1>8 DEF Wiping
  <2>2. Wiping => Wiping'
    BY <1>6 DEF Wiping, Has
  <2> QED BY <2>1, <2>2
<1>10. \A u \in Tasks : NoWipe(u)' \/ session'.reload
  <2>1. NoWipe(Other(t))' <=> NoWipe(Other(t))
    BY DEF Minds, NoWipe, Step
  <2>2. NoWipe(t)' \/ (NoWipe(t)' <=> NoWipe(t))
    BY DEF Minds, NoWipe, Step
  <2>3. (NoWipe(t) \/ session.reload) /\ (NoWipe(Other(t)) \/ session.reload) /\ session'.reload = session.reload
    BY <1>1 DEF Held, SameWorld, Minds
  <2> QED BY <1>4, <2>1, <2>2, <2>3
<1>11. \A s \in Pending(Packet)' : Clears(s) => ~client'.wiped /\ Fresh' /\ ~Wiping' /\ \A u \in Tasks : ~Has(u, "moved")'
  <2> SUFFICES ASSUME NEW s \in Pending(Packet)', Clears(s)
               PROVE  ~client'.wiped /\ Fresh' /\ ~Wiping' /\ \A u \in Tasks : ~Has(u, "moved")'
    OBVIOUS
  <2>1. s \in Pending(Packet)
    BY <1>2, <1>5 DEF Tells
  <2>2. ~client.wiped /\ Fresh /\ ~Wiping /\ \A u \in Tasks : ~Has(u, "moved")
    BY <1>1, <2>1 DEF Held
  <2> QED BY <1>1, <1>7, <1>8, <1>9, <2>2 DEF SameWorld
<1>12. (client'.wiped => session'.reload) /\ (client'.reload /\ ~session'.reload /\ ~Wiping' => Fresh')
  BY <1>1, <1>9 DEF Held, SameWorld
<1>13. \A u \in Tasks : Has(u, "kick")' => ~client'.wiped
  BY <1>1, <1>7, <1>8 DEF Held, SameWorld
<1>14. \A s : Clears(s)' <=> Clears(s)
  BY DEF Clears
<1> QED BY <1>10, <1>11, <1>12, <1>13, <1>14 DEF Held

\* What comes first when a step is done.
LEMMA HeadsAfter ==
    ASSUME Inv, NEW t \in Tasks, Goes(t)
    PROVE  /\ Pops(program[t], program'[t]) => NoWipe(t)' \/ Latches(Step(t))
           /\ \A x : Swaps(program[t], program'[t], x) /\ ~Wipes(x) => NoWipe(t)'
           /\ \A s : Splices(program[t], program'[t], s) /\ ~Wipes(s[1]) => NoWipe(t)'
<1> DEFINE p == program[t]
           q == program'[t]
<1>1. p \in Seq(Steps) /\ q \in Seq(Steps) /\ Step(t) = p[1] /\ Shape(t, p)
  BY DEF Goes, Inv, ShapeInv
<1>2. q # <<>> => Step(t)' = q[1]
  BY <1>1 DEF Step
<1>3. NoWipe(t)' <=> (q # <<>> => ~Wipes(Step(t)'))
  BY DEF NoWipe, Wipes
<1> HIDE DEF p, q
<1>4. q # <<>> => 1 \in DOMAIN q
  BY <1>1
<1>5. ASSUME Pops(p, q), q # <<>>, Wipes(q[1]) PROVE Latches(p[1])
  <2>1. q[1] = p[2] /\ 2 \in DOMAIN p
    BY <1>4, <1>5 DEF Pops
  <2>2. ShapeAt(t, p, 2)
    BY <1>1, <2>1 DEF Shape
  <2> QED BY <1>5, <2>1, <2>2 DEF ShapeAt
<1>6. \A x : Swaps(p, q, x) => q[1] = x
  BY DEF Swaps
<1>7. \A s : Splices(p, q, s) => q[1] = s[1]
  BY DEF Splices
<1>8. program[t] = p /\ program'[t] = q
  BY DEF p, q
<1> QED BY <1>1, <1>2, <1>3, <1>5, <1>6, <1>7, <1>8

\* Who has steps to do in an undisturbed run is online.
LEMMA Online == ASSUME Inv, NEW t \in Tasks, program[t] # <<>>, disturbed = {} PROVE online /\ session \in Sessions
  BY DEF Inv, OnlineInv, TypeOK, Quiet

\* A task takes a step that tells the client nothing.
LEMMA HeldStays ==
    ASSUME Inv, HeldInv, NEW t \in Tasks, Goes(t), NEW N, Pending(t)' = Later(t) \cup N, Step(t).do \notin {"deliver", "content"},
           \A s \in N : ~Tells(s), NoWipe(t)',
           online' = online, disturbed \subseteq disturbed', disturbed' = {} => broken' = broken, disturbed' = {} /\ online => SameWorld
    PROVE  HeldInv'
<1>1. Pending(t) = Later(t) \cup {Step(t)}
  BY Pending3
<1>2. Minds(t)
  BY <1>1 DEF Minds, Goes
<1> QED BY <1>2, HeldFrame

\* A clone of the record is taken: the wipe that may follow waits for its store.
LEMMA HeldRead == ASSUME Inv, HeldInv, NEW t \in Tasks, ReadSession(t) PROVE HeldInv'
<1>1. UNCHANGED <<session, online, client, uplink, warps, disturbed, broken>>
  BY DEF ReadSession, server, history
<1>2. Goes(t) /\ program[t] # <<>> /\ Step(t).do = "edit" /\ Step(t).e \in Edits \cup Owners \cup Zones
  BY ReadFacts DEF Goes
<1>3. CASE disturbed # {}
  BY <1>1, <1>3 DEF HeldInv
<1>4. CASE disturbed = {}
  <2>1. session \in Sessions /\ session # NoSession
    BY <1>2, <1>4, Online, SomeSession
  <2>2. PICK w : w = Write(session, Edited(session, Step(t).e))
    OBVIOUS
  <2>3. Swaps(program[t], program'[t], w)
    BY <2>1, <2>2, ReadFacts
  <2>4. w.do = "write" /\ w.read = session /\ w.new = Edited(session, Step(t).e)
    BY <2>2 DEF Write
  <2>5. ~Tells(w) /\ ~Wipes(w)
    BY <1>2, <2>1, <2>4, EditedFacts DEF Tells, Clears, Wipes, Worldly
  <2>6. NoWipe(t)'
    BY <1>2, <2>3, <2>5, HeadsAfter
  <2>7. PICK N : N = {w}
    OBVIOUS
  <2>8. Pending(t)' = Later(t) \cup N
    BY <1>2, <2>3, <2>7, Pending3
  <2>9. SameWorld
    BY <1>1 DEF SameWorld, Fresh
  <2> QED BY <1>1, <1>2, <2>5, <2>6, <2>7, <2>8, <2>9, HeldStays
<1> QED BY <1>3, <1>4

\* A step is done, and the client told nothing.
LEMMA HeldDone ==
    ASSUME Inv, HeldInv, NEW t \in Tasks, Goes(t), Pops(program[t], program'[t]), Step(t).do \notin {"edit", "write", "deliver", "content"},
           online' = online, disturbed \subseteq disturbed', disturbed' = {} => broken' = broken, disturbed' = {} /\ online => SameWorld
    PROVE  HeldInv'
<1>1. NoWipe(t)'
  BY HeadsAfter DEF Latches
<1>2. PICK N : N = {}
  OBVIOUS
<1>3. Pending(t)' = Later(t) \cup N /\ \A s \in N : ~Tells(s)
  BY <1>2, Pending3
<1> QED BY <1>1, <1>3, HeldStays

\* The registry, a crossing's lists and a login hook tell the client nothing.
LEMMA HeldMoved == ASSUME Inv, HeldInv, NEW t \in Tasks, Moved(t) \/ Flip(t) \/ HookEnds(t) PROVE HeldInv'
<1>1. UNCHANGED <<session, online, client, uplink, warps, broken>> /\ disturbed \subseteq disturbed'
  BY DEF Moved, Flip, HookEnds, server, history
<1>2. Goes(t) /\ Pops(program[t], program'[t]) /\ Step(t).do \in {"moved", "flip", "hook"}
  BY DoneFacts
<1>3. SameWorld
  BY <1>1 DEF SameWorld, Fresh
<1> QED BY <1>1, <1>2, <1>3, HeldDone

\* A crossing leaves the latch of the record alone.
LEMMA HeldFlipped == ASSUME Inv, HeldInv, NEW t \in Tasks, Flipped(t) PROVE HeldInv'
<1>1. UNCHANGED <<online, client, uplink, warps, disturbed, broken>>
  BY DEF Flipped, history
<1>2. Goes(t) /\ Pops(program[t], program'[t]) /\ Step(t).do = "flipped" /\ Step(t).loc \in Places
  BY DoneFacts DEF Flipped
<1>3. ASSUME online PROVE SameWorld
  <2>1. session # NoSession
    BY <1>3 DEF Inv, OnlineInv
  <2>2. session'.reload = session.reload
    BY <1>2, <2>1, FlippedChange DEF Inv
  <2> QED BY <1>1, <2>2 DEF SameWorld, Fresh
<1> QED BY <1>1, <1>2, <1>3, HeldDone

\* A placement leaves the latch of the record alone.
LEMMA HeldPlace == ASSUME Inv, HeldInv, NEW t \in Tasks, Place(t) PROVE HeldInv'
<1>1. UNCHANGED <<online, client, uplink, warps, broken>> /\ disturbed \subseteq disturbed'
  BY DEF Place
<1>2. Goes(t) /\ Pops(program[t], program'[t]) /\ Step(t).do = "place" /\ Step(t).loc \in Places
  BY DoneFacts DEF Place
<1>3. ASSUME online PROVE SameWorld
  <2>1. session # NoSession
    BY <1>3 DEF Inv, OnlineInv
  <2>2. PICK l \in Places : DoZoneChange(l)
    <3>1. <<Step(t).loc[1], session.area>> \in Places
      BY <1>2, <2>1, SomeSession DEF Places, Inv, TypeOK
    <3> QED BY <2>1, <3>1 DEF Place
  <2>3. session'.reload = session.reload
    BY <2>1, <2>2, ZoneKept DEF Inv
  <2> QED BY <1>1, <2>3 DEF SameWorld, Fresh
<1> QED BY <1>1, <1>2, <1>3, HeldDone

\* An event that is kicked finds the client with its actors.
LEMMA HeldKick == ASSUME Inv, HeldInv, NEW t \in Tasks, SendKick(t) PROVE HeldInv'
<1>1. UNCHANGED <<session, online, client, uplink, warps>> /\ disturbed \subseteq disturbed'
      /\ broken' = IF client.wiped THEN broken \cup {"kick"} ELSE broken
  BY Disturbing DEF SendKick, server, Inv
<1>2. Goes(t) /\ Pops(program[t], program'[t]) /\ Step(t).do = "kick" /\ program[t] # <<>>
  BY DoneFacts DEF SendKick, Goes
<1>3. ASSUME disturbed' = {} PROVE broken' = broken
  <2>1. disturbed = {} /\ online
    BY <1>1, <1>2, <1>3, Online
  <2>2. Has(t, "kick")
    <3>1. Pending(t) = Later(t) \cup {Step(t)}
      BY <1>2, Pending3
    <3> QED BY <1>2, <3>1 DEF Has
  <2> QED BY <1>1, <2>1, <2>2 DEF HeldInv, Held
<1>4. SameWorld
  BY <1>1 DEF SameWorld, Fresh
<1> QED BY <1>1, <1>2, <1>3, <1>4, HeldDone

\* A bundle is of the last move.
LEMMA HeldBundle == ASSUME Inv, HeldInv, NEW t \in Tasks, SendBundle(t) PROVE HeldInv'
<1>1. UNCHANGED <<session, online, uplink, warps, disturbed, broken>>
  BY DEF SendBundle, server, history
<1>2. Goes(t) /\ Step(t).do = "bundle"
  BY BundleFacts
<1>3. SameWorld
  <2>1. client.loads \in Seq(Loads) /\ warps \in Int
    BY DEF Inv, TypeOK, Clients
  <2>2. CASE client' = client
    BY <1>1, <2>2 DEF SameWorld, Fresh
  <2>3. ASSUME NEW l \in Loads, l.epoch = warps, client'.loads = Append(client.loads, l), client'.epoch = client.epoch,
               client'.wiped = client.wiped, client'.reload = client.reload
        PROVE  SameWorld
    <3>1. All(client.loads, warps) => All(Append(client.loads, l), warps)
      BY <2>1, <2>3, HaveEpochs, SortedAppend
    <3> QED BY <1>1, <2>3, <3>1 DEF SameWorld, Fresh
  <2> QED BY <2>2, <2>3, Bundled
<1>4. CASE Pops(program[t], program'[t])
  BY <1>1, <1>2, <1>3, <1>4, HeldDone
<1>5. CASE Swaps(program[t], program'[t], Edit("kicked"))
  <2>1. PICK w : w = Edit("kicked")
    OBVIOUS
  <2>2. ~Tells(w) /\ ~Wipes(w)
    BY <2>1 DEF Tells, Clears, Wipes, Worldly, Edit
  <2>3. PICK N : N = {w}
    OBVIOUS
  <2>4. NoWipe(t)' /\ Pending(t)' = Later(t) \cup N
    BY <1>2, <1>5, <2>1, <2>2, <2>3, HeadsAfter, Pending3
  <2> QED BY <1>1, <1>2, <1>3, <2>2, <2>3, <2>4, HeldStays
<1> QED BY <1>4, <1>5, BundleFacts

\* A warp that is parked or goes on to the move tells the client nothing.
LEMMA HeldCheck == ASSUME Inv, HeldInv, NEW t \in Tasks, CheckDeferral(t) PROVE HeldInv'
<1>1. UNCHANGED <<session, online, client, uplink, warps, broken>> /\ disturbed \subseteq disturbed'
  BY Disturbing DEF CheckDeferral, server, Inv
<1>2. Goes(t) /\ Step(t).do = "check"
  BY CheckFacts
<1>3. PICK w : Swaps(program[t], program'[t], w) /\ ~Tells(w) /\ ~Wipes(w)
  <2>1. CASE session \in Sessions /\ session.defer
    <3>1. PICK n : n = [session EXCEPT !.deferred = Step(t).loc]
      OBVIOUS
    <3>2. PICK w : w = Write(session, n)
      OBVIOUS
    <3>3. Swaps(program[t], program'[t], w) /\ n.reload = session.reload
      BY <2>1, <3>1, <3>2, CheckFacts
    <3>4. ~Tells(w) /\ ~Wipes(w)
      BY <3>2, <3>3 DEF Tells, Clears, Wipes, Worldly, Write
    <3> QED BY <3>3, <3>4
  <2>2. CASE ~(session \in Sessions /\ session.defer)
    <3>1. PICK o : Swaps(program[t], program'[t], [do |-> "move", loc |-> Step(t).loc, old |-> o])
      BY <2>2, CheckFacts
    <3>2. PICK w : w = [do |-> "move", loc |-> Step(t).loc, old |-> o]
      OBVIOUS
    <3>3. ~Tells(w) /\ ~Wipes(w)
      BY <3>2 DEF Tells, Clears, Wipes, Worldly
    <3> QED BY <3>1, <3>2, <3>3
  <2> QED BY <2>1, <2>2
<1>4. PICK N : N = {w}
  OBVIOUS
<1>5. NoWipe(t)' /\ Pending(t)' = Later(t) \cup N
  BY <1>2, <1>3, <1>4, HeadsAfter, Pending3
<1>6. SameWorld
  BY <1>1 DEF SameWorld, Fresh
<1> QED BY <1>1, <1>2, <1>3, <1>4, <1>5, <1>6, HeldStays

\* A stored record comes first in its program.
LEMMA WritesFirst ==
    ASSUME Inv, NEW t \in Tasks, NEW s \in Pending(t), s.do = "write"
    PROVE  program[t] # <<>> /\ Step(t) = s /\ At(t, "write")
<1>1. program[t] # <<>>
  BY DEF Pending
<1>2. \A x \in Later(t) : x.do # "write"
  BY <1>1, Laters DEF First
<1>3. Step(t) = s
  BY <1>1, <1>2, Laters
<1> QED BY <1>1, <1>3 DEF At, Step

\* A stored record latches before the wipe behind it, or lifts a latch for a client that has loaded.
LEMMA HeldUpsert == ASSUME Inv, HeldInv, NEW t \in Tasks, UpsertSession(t) PROVE HeldInv'
<1> SUFFICES ASSUME disturbed' = {} PROVE broken' = {} /\ (online' => Held')
  BY DEF HeldInv
<1>1. UNCHANGED <<online, client, uplink, warps, broken>> /\ session' = Step(t).new /\ session = Step(t).read /\ disturbed = {}
  BY DEF UpsertSession
<1>2. /\ Goes(t) /\ Step(t).do = "write" /\ Pops(program[t], program'[t]) /\ Rewrites(t, Step(t), Rest2(program[t])) /\ program[t] # <<>>
  BY UpsertFacts DEF Goes
<1>3. broken = {} /\ Held /\ online
  BY <1>1, <1>2, Online DEF HeldInv
<1>4. /\ Pending(t)' = Later(t) /\ Pending(t) = Later(t) \cup {Step(t)} /\ Pending(Other(t))' = Pending(Other(t))
      /\ Tasks = {t, Other(t)} /\ Other(t) \in Tasks
  BY <1>2, Pending3 DEF Goes
<1>5. Fresh' <=> Fresh
  BY <1>1 DEF Fresh
<1>6. \A u \in Tasks : \A s \in Pending(u)' : s \in Pending(u)
  BY <1>4
<1>7. \A u \in Tasks : \A s \in Pending(u) : s.do # "write" => s \in Pending(u)'
  BY <1>2, <1>4
<1>8. \A u \in Tasks : \A k \in {"kick", "moved", "deliver", "content"} : Has(u, k)' <=> Has(u, k)
  BY <1>6, <1>7 DEF Has
<1>9. Wiping' <=> Wiping
  BY <1>8 DEF Wiping
<1>10. \A s \in Later(t) : ~Clears(s)
  <2>1. \A s \in Later(t) : s.do # "write"
    BY <1>2, Laters DEF First
  <2> QED BY <2>1 DEF Clears
<1>11. Packet \in Tasks
  BY DEF Tasks
<1>12. \A s : Clears(s)' <=> Clears(s)
  BY DEF Clears
<1>13. \A s \in Pending(Packet)' : Clears(s) => ~client'.wiped /\ Fresh' /\ ~Wiping' /\ \A u \in Tasks : ~Has(u, "moved")'
  BY <1>1, <1>3, <1>5, <1>6, <1>8, <1>9, <1>11 DEF Held
<1>14. \A u \in Tasks : Has(u, "kick")' => ~client'.wiped
  BY <1>1, <1>3, <1>8 DEF Held
<1>15. NoWipe(t)' \/ session'.reload
  BY <1>1, <1>2, HeadsAfter DEF Latches
<1>16. NoWipe(Other(t))' <=> NoWipe(Other(t))
  BY <1>2 DEF Goes, NoWipe, Step
<1>17. CASE Clears(Step(t))
  <2>1. t = Packet
    BY <1>2, <1>17 DEF Clears, Rewrites
  <2>2. ~client.wiped /\ Fresh /\ ~Wiping
    BY <1>3, <1>4, <1>17, <2>1 DEF Held
  <2>3. NoWipe(Other(t))
    <3>1. program[Other(t)] # <<>> => Step(Other(t)) \in Pending(Other(t))
      BY <1>4, Laters
    <3>2. program[Other(t)] # <<>> => Step(Other(t)).do \notin {"deliver", "content"}
      BY <1>4, <2>2, <3>1 DEF Wiping, Has
    <3> QED BY <3>2 DEF NoWipe, Wipes
  <2>4. \A u \in Tasks : NoWipe(u)' \/ session'.reload
    BY <1>4, <1>15, <1>16, <2>3
  <2> QED BY <1>1, <1>3, <1>5, <1>12, <1>13, <1>14, <2>2, <2>4 DEF Held
<1>18. CASE ~Clears(Step(t))
  <2>1. session.reload => session'.reload
    BY <1>1, <1>2, <1>18 DEF Clears
  <2>2. \A u \in Tasks : NoWipe(u)' \/ session'.reload
    BY <1>3, <1>4, <1>15, <1>16, <2>1 DEF Held
  <2>3. (client'.wiped => session'.reload) /\ (client'.reload /\ ~session'.reload /\ ~Wiping' => Fresh')
    BY <1>1, <1>3, <1>5, <1>9, <2>1 DEF Held
  <2> QED BY <1>1, <1>3, <1>12, <1>13, <1>14, <2>2, <2>3 DEF Held
<1> QED BY <1>17, <1>18

\* A move: who is about to tell the client so is still there, and nobody else is about to store a record.
LEMMA HeldGoes ==
    ASSUME Inv, HeldInv, NEW t \in Tasks, Move(t) \/ Land(t)
    PROVE  HeldInv'
<1> SUFFICES ASSUME disturbed' = {} PROVE broken' = {} /\ (online' => Held')
  BY DEF HeldInv
<1>1. UNCHANGED <<online, client, uplink, broken>> /\ Overran(t) = {}
  BY DEF Move, Land
<1>2. disturbed = {} /\ ~At(Other(t), "write")
  BY <1>1, Undisturbed
<1>3. Goes(t) /\ Step(t).do \in {"move", "land"} /\ Step(t).loc \in Places /\ DoZoneChange(Step(t).loc) /\ program[t] # <<>>
  BY MoveFacts, DoneFacts DEF Goes, Land
<1>4. broken = {} /\ Held /\ online /\ session # NoSession
  BY <1>2, <1>3, Online, SomeSession DEF HeldInv
<1>5. session'.reload = session.reload
  BY <1>3, <1>4, ZoneKept DEF Inv
<1>6. /\ Pending(t) = Later(t) \cup {Step(t)} /\ Pending(Other(t))' = Pending(Other(t))
      /\ Tasks = {t, Other(t)} /\ Other(t) \in Tasks /\ program'[Other(t)] = program[Other(t)]
  BY <1>3, Pending3 DEF Goes
<1>7. /\ NoWipe(t)' /\ \E s \in Pending(t)' : s.do \in {"deliver", "content"}
      /\ \A s \in Pending(t)' : s \in Later(t) \/ s.do \in {"moved", "edit", "deliver"}
  <2>1. CASE Move(t)
    <3>1. PICK e, h : Splices(program[t], program'[t], <<To("moved", Step(t).loc), Edit(e), [do |-> "deliver", how |-> h]>>)
      BY <2>1, MoveFacts
    <3>2. PICK s : s = <<To("moved", Step(t).loc), Edit(e), [do |-> "deliver", how |-> h]>>
      OBVIOUS
    <3>3. s[1].do = "moved" /\ s[2].do = "edit" /\ s[3].do = "deliver"
      BY <3>2 DEF To, Edit
    <3>4. Pending(t)' = Later(t) \cup {s[1], s[2], s[3]}
      BY <1>3, <3>1, <3>2, Pending3
    <3>5. ~Wipes(s[1])
      BY <3>3 DEF Wipes
    <3>6. NoWipe(t)'
      BY <1>3, <3>1, <3>2, <3>5, HeadsAfter
    <3> QED BY <3>3, <3>4, <3>6
  <2>2. CASE Land(t)
    <3>1. Pops(program[t], program'[t]) /\ Step(t).do = "land"
      BY <2>2, DoneFacts
    <3>2. Pending(t)' = Later(t)
      BY <1>3, <3>1, Pending3
    <3>3. NoWipe(t)'
      BY <1>3, <3>1, HeadsAfter DEF Latches
    <3>4. \E s \in Later(t) : s.do = "content"
      BY <1>3, <3>1, Laters
    <3> QED BY <3>2, <3>3, <3>4
  <2> QED BY <2>1, <2>2
<1>8. Wiping'
  BY <1>7 DEF Wiping, Has
<1>9. \A u \in Tasks : \A s \in Pending(u)' : s.do # "write" /\ (s.do = "kick" => s \in Pending(u))
  <2>1. \A s \in Later(t) : s.do # "write"
    BY <1>3, Laters DEF First
  <2>2. \A s \in Pending(Other(t)) : s.do # "write"
    BY <1>2, <1>6, WritesFirst
  <2> QED BY <1>6, <1>7, <2>1, <2>2
<1>10. \A u \in Tasks : Has(u, "kick")' => ~client'.wiped
  BY <1>1, <1>4, <1>9 DEF Held, Has
<1>11. \A u \in Tasks : NoWipe(u)' \/ session'.reload
  <2>1. NoWipe(Other(t))' <=> NoWipe(Other(t))
    BY <1>6 DEF NoWipe, Step
  <2> QED BY <1>4, <1>5, <1>6, <1>7, <2>1 DEF Held
<1>12. Packet \in Tasks
  BY DEF Tasks
<1>13. \A s \in Pending(Packet)' : ~Clears(s)'
  BY <1>9, <1>12 DEF Clears
<1> QED BY <1>1, <1>4, <1>5, <1>8, <1>10, <1>11, <1>13 DEF Held

\* The client is told to let go of its world, and nobody is about to kick an event.
LEMMA HeldTold == ASSUME Inv, HeldInv, NEW t \in Tasks, Deliver(t) \/ SendContent(t) PROVE HeldInv'
<1> SUFFICES ASSUME disturbed' = {} PROVE broken' = {} /\ (online' => Held')
  BY DEF HeldInv
<1>1. UNCHANGED <<session, online, uplink, warps, broken>> /\ Wiped(t) = {}
  BY DEF Deliver, SendContent, server
<1>2. disturbed = {} /\ \A s \in Pending(Other(t)) : s.do # "kick"
  BY <1>1 DEF Wiped, Pending
<1>3. Goes(t) /\ Step(t).do \in {"deliver", "content"} /\ program[t] # <<>>
  BY DeliverFacts, ContentFacts DEF Goes
<1>4. broken = {} /\ Held /\ online
  BY <1>2, <1>3, Online DEF HeldInv
<1>5. /\ Pending(t) = Later(t) \cup {Step(t)} /\ Pending(Other(t))' = Pending(Other(t))
      /\ Tasks = {t, Other(t)} /\ Other(t) \in Tasks /\ program'[Other(t)] = program[Other(t)]
  BY <1>3, Pending3 DEF Goes
<1>6. NoWipe(t)' /\ \A s \in Pending(t)' : s \in Later(t) \/ s.do \in {"edit", "bundle"}
  <2>1. ASSUME NEW x, Swaps(program[t], program'[t], x), x.do \in {"edit", "bundle"}
        PROVE  NoWipe(t)' /\ \A s \in Pending(t)' : s \in Later(t) \/ s.do \in {"edit", "bundle"}
    <3>1. NoWipe(t)' /\ Pending(t)' = Later(t) \cup {x}
      BY <1>3, <2>1, HeadsAfter, Pending3 DEF Wipes
    <3> QED BY <2>1, <3>1
  <2>2. Edit("park").do = "edit" /\ Do("bundle").do = "bundle"
    BY DEF Edit, Do
  <2>3. CASE Deliver(t)
    BY <1>4, <2>1, <2>2, <2>3, DeliverFacts
  <2>4. CASE SendContent(t)
    <3>1. PICK e : Splices(program[t], program'[t], <<Edit(e), Do("bundle"), Edit("warped")>>)
      BY <1>4, <2>4, ContentFacts
    <3>2. PICK s : s = <<Edit(e), Do("bundle"), Edit("warped")>>
      OBVIOUS
    <3>3. s[1].do = "edit" /\ s[2].do = "bundle" /\ s[3].do = "edit"
      BY <3>2 DEF Do, Edit
    <3>4. Pending(t)' = Later(t) \cup {s[1], s[2], s[3]}
      BY <1>3, <3>1, <3>2, Pending3
    <3>5. ~Wipes(s[1])
      BY <3>3 DEF Wipes
    <3>6. NoWipe(t)'
      BY <1>3, <3>1, <3>2, <3>5, HeadsAfter
    <3> QED BY <3>3, <3>4, <3>6
  <2> QED BY <2>3, <2>4
<1>7. \A s \in Later(t) : s.do # "kick"
  BY <1>3, Laters
<1>8. \A u \in Tasks : ~Has(u, "kick")'
  BY <1>2, <1>5, <1>6, <1>7 DEF Has
<1>9. Wiping
  BY <1>3, <1>5 DEF Wiping, Has
<1>10. \A s \in Pending(Packet)' : ~Clears(s)'
  <2>1. \A s \in Pending(Packet) : ~Clears(s)
    BY <1>4, <1>9 DEF Held
  <2>2. Packet \in Tasks
    BY DEF Tasks
  <2>3. \A s \in Pending(Packet)' : s \in Pending(Packet) \/ s.do # "write"
    BY <1>5, <1>6, <2>2
  <2> QED BY <2>1, <2>3 DEF Clears
<1>11. \A u \in Tasks : NoWipe(u)' \/ session'.reload
  <2>1. NoWipe(Other(t))' <=> NoWipe(Other(t))
    BY <1>5 DEF NoWipe, Step
  <2> QED BY <1>1, <1>4, <1>5, <1>6, <2>1 DEF Held
<1>12. client \in Clients
  BY DEF Inv, TypeOK
<1>13. (client'.wiped => session.reload) /\ (client'.reload => session.reload)
  <2>1. NoWipe(t) \/ session.reload
    BY <1>4 DEF Held
  <2>2. CASE Deliver(t)
    <3>1. client' = [client EXCEPT !.latched = TRUE, !.wiped = @ \/ (Step(t).how = "wipe"), !.reload = (Step(t).how = "wipe")]
      BY <1>4, <2>2 DEF Deliver
    <3>2. client'.wiped = (client.wiped \/ (Step(t).how = "wipe")) /\ client'.reload = (Step(t).how = "wipe")
      BY <1>12, <3>1 DEF Clients
    <3>3. Step(t).how = "wipe" => session.reload
      BY <1>3, <2>1, <2>2, DeliverFacts DEF NoWipe, Wipes
    <3> QED BY <1>4, <3>2, <3>3 DEF Held
  <2>3. CASE SendContent(t)
    BY <1>3, <2>1, <2>3, ContentFacts DEF NoWipe, Wipes
  <2> QED BY <2>2, <2>3
<1> QED BY <1>1, <1>4, <1>8, <1>10, <1>11, <1>13 DEF Held

\* What a command opens with and does not.
LEMMA OrderedHeld ==
    ASSUME NEW t, NEW s \in Seq(Steps), Ordered(t, s)
    PROVE  /\ s # <<>> /\ 1 \in DOMAIN s /\ ~Wipes(s[1])
           /\ \A i \in DOMAIN s : ~Clears(s[i]) /\ s[i].do \notin {"moved", "deliver"}
           /\ (\E i \in DOMAIN s : s[i].do = "kick") /\ session # NoSession => ~session.reload
           /\ (\E i \in DOMAIN s : s[i].do = "content") => t = Packet
<1>1. ASSUME NEW x, s = <<x>>, x.do \notin {"moved", "deliver", "content"}, ~Clears(x),
             x.do = "kick" /\ session # NoSession => ~session.reload
      PROVE  /\ s # <<>> /\ 1 \in DOMAIN s /\ ~Wipes(s[1])
             /\ \A i \in DOMAIN s : ~Clears(s[i]) /\ s[i].do \notin {"moved", "deliver", "content"}
             /\ (\E i \in DOMAIN s : s[i].do = "kick") /\ session # NoSession => ~session.reload
  <2>1. DOMAIN s = {1} /\ s[1] = x /\ s # <<>>
    BY <1>1
  <2> QED BY <1>1, <2>1 DEF Wipes
<1>2. ASSUME NEW e, s = <<Edit(e)>> PROVE \E x : s = <<x>> /\ x.do = "edit"
  BY <1>2 DEF Edit
<1>3. ASSUME NEW l, s = <<To("check", l)>> PROVE \E x : s = <<x>> /\ x.do = "check"
  BY <1>3 DEF To
<1>4. ASSUME s = <<Do("kick")>> PROVE \E x : s = <<x>> /\ x.do = "kick"
  BY <1>4 DEF Do
<1>5. ASSUME NEW n, s = <<Write(session, n)>>, n.reload = session.reload PROVE \E x : s = <<x>> /\ x.do = "write" /\ ~Clears(x)
  BY <1>5 DEF Write, Clears
<1>6. ASSUME NEW z, s = <<To("land", <<z, Public>>), Edit("latch"), Do("content")>>
      PROVE  s # <<>> /\ DOMAIN s = {1, 2, 3} /\ s[1].do = "land" /\ s[2].do = "edit" /\ s[3].do = "content"
  BY <1>6 DEF To, Edit, Do
<1>7. CASE t = Packet /\ \E z \in Arenas : s = <<To("land", <<z, Public>>), Edit("latch"), Do("content")>>
  BY <1>6, <1>7 DEF Wipes, Clears
<1>8. CASE ~(t = Packet /\ \E z \in Arenas : s = <<To("land", <<z, Public>>), Edit("latch"), Do("content")>>)
  <2>1. \E x : s = <<x>> /\ x.do \in {"edit", "check", "kick", "write"} /\ ~Clears(x) /\ (x.do = "kick" /\ session # NoSession => ~session.reload)
    BY <1>2, <1>3, <1>4, <1>5, <1>8 DEF Ordered, Clears
  <2> QED BY <1>1, <2>1
<1> QED BY <1>7, <1>8

\* A command kicks an event only while the session is not latched.
LEMMA HeldIssued == ASSUME Inv, HeldInv, NEW t \in Tasks, NEW s \in Seq(Steps), Issued(t, s) PROVE HeldInv'
<1> SUFFICES ASSUME disturbed' = {}, online' PROVE broken' = {} /\ Held'
  BY DEF HeldInv, Issued, server
<1>1. UNCHANGED <<session, online, client, uplink, warps, disturbed, broken>>
  BY DEF Issued, server
<1>2. broken = {} /\ Held /\ session # NoSession
  BY <1>1 DEF HeldInv, Inv, OnlineInv
<1>3. /\ Pending(t)' = Pending(t) \cup {s[i] : i \in DOMAIN s} /\ Pending(Other(t))' = Pending(Other(t))
      /\ Other(t) \in Tasks /\ Tasks = {t, Other(t)} /\ Other(t) # t
  BY PendingIssued
<1>4. /\ program'[t] = s \o program[t] /\ program'[Other(t)] = program[Other(t)] /\ program[t] \in Seq(Steps)
      /\ program[t] # <<>> => program[t][1].do = "hook"
  BY IssuedProgram DEF Inv, TypeOK
<1>5. /\ s # <<>> /\ 1 \in DOMAIN s /\ ~Wipes(s[1])
      /\ \A i \in DOMAIN s : ~Clears(s[i]) /\ s[i].do \notin {"moved", "deliver"}
      /\ (\E i \in DOMAIN s : s[i].do = "kick") => ~session.reload
      /\ (\E i \in DOMAIN s : s[i].do = "content") => t = Packet
  BY <1>2, OrderedHeld DEF Issued
<1>6. NoWipe(t)' /\ NoWipe(Other(t))' = NoWipe(Other(t))
  <2>1. Head(program'[t]) = s[1]
    BY <1>4, <1>5
  <2> QED BY <1>4, <1>5, <2>1 DEF NoWipe, Step, Wipes
<1>7. \A u \in Tasks : NoWipe(u)' \/ session'.reload
  BY <1>1, <1>2, <1>3, <1>6 DEF Held
<1>8. \A u \in Tasks : Has(u, "kick")' => ~client'.wiped
  <2>1. Has(t, "kick")' => Has(t, "kick") \/ (\E i \in DOMAIN s : s[i].do = "kick")
    BY <1>3 DEF Has
  <2>2. Has(Other(t), "kick")' => Has(Other(t), "kick")
    BY <1>3 DEF Has
  <2> QED BY <1>1, <1>2, <1>3, <1>5, <2>1, <2>2 DEF Held
<1>9. \A u \in Tasks : /\ Has(u, "moved")' => Has(u, "moved")
                       /\ Has(u, "deliver")' <=> Has(u, "deliver")
                       /\ Has(u, "content") => Has(u, "content")'
                       /\ Has(u, "content")' => Has(u, "content") \/ t = Packet
  <2>1. ASSUME NEW u \in Tasks
        PROVE  /\ Has(u, "moved")' => Has(u, "moved")
               /\ Has(u, "deliver")' <=> Has(u, "deliver")
               /\ Has(u, "content") => Has(u, "content")'
               /\ Has(u, "content")' => Has(u, "content") \/ t = Packet
    <3>1. CASE u = t
      BY <1>3, <1>5, <3>1 DEF Has
    <3>2. CASE u = Other(t)
      BY <1>3, <3>2 DEF Has
    <3> QED BY <1>3, <3>1, <3>2
  <2> QED BY <2>1
<1>10. (Wiping => Wiping') /\ (Wiping' => Wiping \/ t = Packet)
  BY <1>9 DEF Wiping
<1>11. ASSUME NEW c \in Pending(Packet)', Clears(c)
       PROVE  ~client'.wiped /\ Fresh' /\ ~Wiping' /\ \A u \in Tasks : ~Has(u, "moved")'
  <2>1. Packet \in Tasks
    BY DEF Tasks
  <2>2. c \in Pending(Packet) /\ c.do = "write"
    BY <1>3, <1>5, <1>11, <2>1 DEF Clears
  <2>3. t # Packet
    <3>1. program[Packet] # <<>> /\ Step(Packet) = c
      BY <2>1, <2>2, WritesFirst
    <3>2. ASSUME t = Packet PROVE Step(Packet) = program[Packet][1]
      BY <1>4, <3>1, <3>2 DEF Step
    <3> QED BY <1>4, <2>2, <3>1, <3>2
  <2>4. ~client.wiped /\ Fresh /\ ~Wiping /\ \A u \in Tasks : ~Has(u, "moved")
    BY <1>2, <1>11, <2>2 DEF Held
  <2> QED BY <1>1, <1>9, <1>10, <2>3, <2>4 DEF Fresh
<1>12. (client'.wiped => session'.reload) /\ (client'.reload /\ ~session'.reload /\ ~Wiping' => Fresh')
  BY <1>1, <1>2, <1>10 DEF Held, Fresh
<1>13. \A c : Clears(c)' <=> Clears(c)
  BY DEF Clears
<1> QED BY <1>1, <1>2, <1>7, <1>8, <1>11, <1>12, <1>13 DEF Held

\* A free task is given steps that tell the client nothing.
LEMMA HeldStarts ==
    ASSUME Inv, HeldInv, NEW t \in Tasks, NEW s, Starts(t, s), s # <<>> => ~Wipes(Head(s)),
           \A i \in DOMAIN s : ~Tells(s[i]),
           online' = online, disturbed \subseteq disturbed', disturbed' = {} => broken' = broken, disturbed' = {} /\ online => SameWorld
    PROVE  HeldInv'
<1>1. Pending(t) = {} /\ Pending(t)' = {s[i] : i \in DOMAIN s}
  BY PendingStarts
<1>2. NoWipe(t)'
  BY DEF Starts, NoWipe, Step, Wipes
<1>3. Minds(t)
  BY <1>1, <1>2 DEF Minds, Starts
<1> QED BY <1>3, HeldFrame

\* A zone-in that is due wipes nothing.
LEMMA HeldDue == ASSUME Inv, HeldInv, ZoneInDue PROVE HeldInv'
<1>1. PICK s : Starts(Ticker, s) /\ s = <<Edit("unpark"), Do("bundle")>> /\ Ticker \in Tasks
  BY DueFacts
<1>2. (\A i \in DOMAIN s : s[i].do \in {"edit", "bundle"}) /\ Head(s) = s[1] /\ 1 \in DOMAIN s
  BY <1>1 DEF Edit, Do
<1>3. (\A i \in DOMAIN s : ~Tells(s[i])) /\ ~Wipes(Head(s))
  BY <1>2 DEF Tells, Clears, Worldly, Wipes
<1>4. UNCHANGED <<session, online, client, uplink, warps, disturbed, broken>>
  BY DEF ZoneInDue, server, history
<1>5. SameWorld
  BY <1>4 DEF SameWorld, Fresh
<1> QED BY <1>1, <1>3, <1>4, <1>5, HeldStarts

\* The programs stay the same.
LEMMA HeldKept ==
    ASSUME HeldInv, program' = program, online' = online, disturbed \subseteq disturbed',
           disturbed' = {} => broken' = broken, disturbed' = {} /\ online => SameWorld
    PROVE  HeldInv'
<1>1. Packet \in Tasks /\ Other(Packet) \in Tasks /\ Tasks = {Packet, Other(Packet)} /\ Other(Packet) # Packet
  BY OtherIs DEF Tasks
<1>2. Minds(Packet)
  BY <1>1 DEF Minds, Pending
<1> QED BY <1>1, <1>2, HeldFrame

\* The client acknowledges the load it now shows.
LEMMA HeldLoads == ASSUME Inv, HeldInv, ClientLoads PROVE HeldInv'
<1>1. UNCHANGED <<session, online, program, warps, disturbed, broken>>
  BY DEF ClientLoads, server, history
<1>2. /\ client.loads \in Seq(Loads) /\ client.loads # <<>> /\ uplink \in Seq(Messages) /\ warps \in Int
      /\ client'.epoch = client.loads[1].epoch /\ client'.loads = Tail(client.loads) /\ client'.reload = client.reload
      /\ client'.wiped => client.wiped
      /\ uplink' = Append(uplink, [m |-> "ack", epoch |-> client.loads[1].epoch])
  BY LoadsFacts DEF Inv, TypeOK
<1>3. ASSUME Fresh PROVE Fresh'
  <2>1. client.loads[1].epoch = warps /\ All(Tail(client.loads), warps)
    <3>1. SUFFICES Sorted(client.loads) /\ All(client.loads, warps)
      BY <1>2, HaveEpochs, SortedTail
    <3>2. All(client.loads, warps)
      BY <1>3 DEF Fresh
    <3> QED BY <1>2, <3>2 DEF All, Sorted
  <2>2. PICK x : x = [m |-> "ack", epoch |-> warps]
    OBVIOUS
  <2>3. x \in Messages /\ x.epoch = warps
    BY <1>2, <2>2 DEF Messages
  <2>4. All(Append(uplink, x), warps)
    BY <1>2, <1>3, <2>3, HaveEpochs, SortedAppend DEF Fresh
  <2> QED BY <1>1, <1>2, <2>1, <2>2, <2>4 DEF Fresh
<1>4. SameWorld
  BY <1>1, <1>2, <1>3 DEF SameWorld
<1> QED BY <1>1, <1>4, HeldKept

\* The client reports from the load it shows.
LEMMA HeldReports == ASSUME Inv, HeldInv, NEW spot \in {"away", "strip", "box1", "box2"}, ClientReports(spot) PROVE HeldInv'
<1>1. UNCHANGED <<session, online, client, program, warps, disturbed, broken>>
      /\ uplink' = Append(uplink, [m |-> "report", epoch |-> client.epoch, spot |-> spot])
  BY DEF ClientReports, server, history
<1>2. client.epoch \in Int /\ uplink \in Seq(Messages) /\ warps \in Int
  BY DEF Inv, TypeOK, Clients
<1>3. ASSUME Fresh PROVE Fresh'
  <2>1. PICK x : x = [m |-> "report", epoch |-> client.epoch, spot |-> spot]
    OBVIOUS
  <2>2. x \in Messages /\ x.epoch = warps
    BY <1>2, <1>3, <2>1 DEF Messages, Fresh
  <2>3. All(Append(uplink, x), warps)
    BY <1>2, <1>3, <2>2, HaveEpochs, SortedAppend DEF Fresh
  <2> QED BY <1>1, <1>3, <2>1, <2>3 DEF Fresh
<1>4. SameWorld
  BY <1>1, <1>3 DEF SameWorld
<1> QED BY <1>1, <1>4, HeldKept

\* One message fewer.
LEMMA FreshTail ==
    ASSUME Inv, NEW q \in Seq(Messages), q = uplink, q # <<>>, uplink' = Tail(q), client' = client, warps' = warps, Fresh
    PROVE  Fresh'
<1>1. warps \in Int /\ All(q, warps)
  BY DEF Inv, TypeOK, Fresh
<1>2. Sorted(q)
  BY <1>1 DEF All, Sorted
<1>3. All(Tail(q), warps)
  BY <1>1, <1>2, HaveEpochs, SortedTail
<1> QED BY <1>3 DEF Fresh

\* Nobody will tell the client more, and nothing is parked: it has not been told to let go.
LEMMA NotLatched ==
    ASSUME Inv, HereInv, StrandedInv, online, disturbed = {}, program[Packet] = <<>>, Raced(Packet) = {}, ~Parking(Ticker),
           ~session.parked
    PROVE  ~client.latched
<1>1. Packet \in Tasks /\ Ticker \in Tasks /\ Tasks = {Packet, Ticker} /\ Other(Packet) = Ticker /\ Packet # Ticker
  BY OtherIs DEF Tasks
<1>2. \A s \in Pending(Ticker) : s.do \notin {"deliver", "bundle", "content"}
  BY <1>1, Undisturbed, PacketOnly
<1>3. \A i \in DOMAIN program[Ticker] : ~Promises(program[Ticker][i])
  <2>1. SUFFICES ASSUME NEW i \in DOMAIN program[Ticker], Promises(program[Ticker][i]) PROVE FALSE
    OBVIOUS
  <2>2. program[Ticker] \in Seq(Steps)
    BY <1>1 DEF Inv, TypeOK
  <2>3. program[Ticker][i] \in Steps /\ program[Ticker][i] \in Pending(Ticker)
    BY <2>1, <2>2 DEF Pending
  <2>4. program[Ticker][i].do \notin {"deliver", "bundle", "content"}
    BY <1>2, <2>3
  <2>5. CASE program[Ticker][i].do = "edit" /\ program[Ticker][i].e = "park"
    <3>1. program[Ticker][i] = Edit("park")
      BY <2>3, <2>5, StepFields
    <3> QED BY <3>1 DEF Parking
  <2>6. CASE program[Ticker][i].do = "write" /\ program[Ticker][i].new.parked
    BY <2>6 DEF Parking
  <2> QED BY <2>1, <2>4, <2>5, <2>6 DEF Promises
<1>4. ~Promised
  BY <1>1, <1>3 DEF Promised
<1>5. session.zone \in Loaded
  <2>1. ~Has(Packet, "place")
    BY DEF Has, Pending
  <2> QED BY <2>1 DEF HereInv
<1> QED BY <1>4, <1>5 DEF StrandedInv

\* A report that is taken up is of the place the client was last sent to.
LEMMA HeldReport == ASSUME Inv, HeldInv, HereInv, StrandedInv, UpdatePosition PROVE HeldInv'
<1>1. /\ uplink' = Tail(uplink) /\ uplink # <<>> /\ uplink \in Seq(Messages) /\ session \in Sessions /\ program[Packet] = <<>>
      /\ UNCHANGED <<online, client, warps>> /\ disturbed \subseteq disturbed' /\ online
  BY ReportFacts, Disturbing DEF Inv
<1>2. Fresh => Fresh'
  BY <1>1, FreshTail
<1>3. session'.reload = session.reload
  <2>1. session' = session \/ (\E m : session' = [session EXCEPT !.merged = m])
    BY ReportFacts
  <2> QED BY <1>1, <2>1 DEF Sessions
<1>4. SameWorld
  BY <1>1, <1>2, <1>3 DEF SameWorld
<1>5. ASSUME disturbed' = {} PROVE broken' = broken
  <2>1. disturbed = {} /\ Held
    BY <1>1, <1>5 DEF HeldInv
  <2>2. CASE broken' # broken
    <3>9. /\ ~session.reload /\ ~session.parked /\ uplink[1].epoch # warps /\ (client.reload \/ client.latched)
          /\ Raced(Packet) = {} /\ ~Parking(Ticker)
      BY <1>5, <2>2, ReportFacts DEF HoldsReports
    <3>1. ~session.reload /\ uplink[1].epoch # warps /\ client.reload /\ Raced(Packet) = {}
      BY <1>1, <2>1, <3>9, NotLatched
    <3>2. Packet \in Tasks /\ Ticker \in Tasks /\ Tasks = {Packet, Ticker} /\ Other(Packet) = Ticker
      BY OtherIs DEF Tasks
    <3>3. \A s \in Pending(Ticker) : s.do # "deliver"
      BY <3>1, <3>2, Undisturbed
    <3>4. \A s \in Pending(Ticker) : s.do # "content"
      BY <3>2, PacketOnly, OtherIs
    <3>5. Pending(Packet) = {}
      BY <1>1 DEF Pending
    <3>6. ~Wiping
      BY <3>2, <3>3, <3>4, <3>5 DEF Wiping, Has
    <3>7. All(uplink, warps)
      BY <2>1, <3>1, <3>6 DEF Held, Fresh
    <3>8. 1 \in DOMAIN uplink
      BY <1>1
    <3> QED BY <3>1, <3>7, <3>8 DEF All
  <2> QED BY <2>2
<1>6. CASE program' = program
  BY <1>1, <1>4, <1>5, <1>6, HeldKept
<1>7. CASE \E l : Starts(Packet, <<To("flip", l), To("flipped", l)>>)
  <2>1. PICK l : Starts(Packet, <<To("flip", l), To("flipped", l)>>)
    BY <1>7
  <2>2. PICK s : s = <<To("flip", l), To("flipped", l)>>
    OBVIOUS
  <2>3. (\A i \in DOMAIN s : s[i].do \in {"flip", "flipped"}) /\ Head(s) = s[1] /\ 1 \in DOMAIN s
    BY <2>2 DEF To
  <2>4. (\A i \in DOMAIN s : ~Tells(s[i])) /\ ~Wipes(Head(s))
    BY <2>3 DEF Tells, Clears, Worldly, Wipes
  <2>5. Packet \in Tasks
    BY DEF Tasks
  <2> QED BY <1>1, <1>4, <1>5, <2>1, <2>2, <2>4, <2>5, HeldStarts
<1> QED BY <1>6, <1>7, ReportFacts

\* A session begins with a new client.
LEMMA HeldBegin == ASSUME Inv, HeldInv, NEW login \in BOOLEAN, SessionBegin(login) PROVE HeldInv'
<1> SUFFICES ASSUME disturbed' = {} PROVE broken' = {} /\ Held'
  BY DEF HeldInv
<1>1. client' = NoClient /\ broken' = broken /\ program[Ticker] = <<>> /\ disturbed = {}
  BY DEF SessionBegin
<1>2. ~client'.wiped /\ ~client'.reload /\ broken' = {}
  BY <1>1 DEF NoClient, HeldInv
<1>3. Packet \in Tasks /\ Ticker \in Tasks /\ Tasks = {Packet, Ticker} /\ Other(Packet) = Ticker
  BY OtherIs DEF Tasks
<1>4. PICK p, e, h, b : p = To("place", saved) /\ e = Edit("touch") /\ h = Do("hook") /\ b = Do("bundle")
  OBVIOUS
<1>5. p.do = "place" /\ e.do = "edit" /\ h.do = "hook" /\ b.do = "bundle"
  BY <1>4 DEF To, Edit, Do
<1>6. PICK s : Starts(Packet, s) /\ (s = <<e, h, p, b, h>> \/ s = <<p, b>>)
  BY <1>4, BeginFacts
<1>7. (\A i \in DOMAIN s : s[i].do \in {"place", "edit", "hook", "bundle"}) /\ Head(s).do \in {"place", "edit"}
  BY <1>5, <1>6
<1>8. Pending(Packet)' = {s[i] : i \in DOMAIN s} /\ Pending(Ticker)' = {}
  <2>1. Pending(Packet)' = {s[i] : i \in DOMAIN s} /\ Pending(Ticker)' = Pending(Ticker)
    BY <1>3, <1>6, PendingStarts
  <2>2. Pending(Ticker) = {}
    BY <1>1 DEF Pending
  <2> QED BY <2>1, <2>2
<1>9. \A u \in Tasks : \A x \in Pending(u)' : x.do \in {"place", "edit", "hook", "bundle"}
  BY <1>3, <1>7, <1>8
<1>10. \A u \in Tasks : NoWipe(u)'
  <2>1. program'[Ticker] = <<>> /\ program'[Packet] = s
    BY <1>1, <1>3, <1>6 DEF Starts
  <2> QED BY <1>3, <1>7, <2>1 DEF NoWipe, Step, Wipes
<1>11. \A u \in Tasks : ~Has(u, "kick")'
  BY <1>9 DEF Has
<1>12. \A x \in Pending(Packet)' : ~Clears(x)'
  BY <1>3, <1>9 DEF Clears
<1> QED BY <1>2, <1>10, <1>11, <1>12 DEF Held

\* An acknowledgement of the only load that is under way, after the last move.
LEMMA AckIsFresh ==
    ASSUME Inv, OrderInv, NEW q \in Seq(Messages), q = uplink, q # <<>>, uplink' = Tail(q), client' = client, warps' = warps,
           q[1].epoch = warps, client.loads = <<>>
    PROVE  Fresh'
<1>1. client.epoch \in Int /\ warps \in Int /\ q[1].epoch <= client.epoch /\ client.epoch <= warps
  BY HaveEpochs, SortedTail DEF Inv, TypeOK, Clients, OrderInv
<1>2. client.epoch = warps
  BY <1>1
<1>3. AtLeast(q, warps) /\ AtMost(q, warps)
  BY <1>2, HaveEpochs, SortedTail DEF OrderInv
<1>4. All(q, warps)
  BY <1>1, <1>3, HaveEpochs, Wider
<1>5. All(client.loads, warps)
  BY DEF All
<1> QED BY <1>2, <1>4, <1>5, FreshTail DEF Fresh

\* An acknowledgement of the last load: the client has its actors, so the latch may go.
LEMMA HeldAck == ASSUME Inv, OrderInv, HeldInv, ZoneInComplete PROVE HeldInv'
<1> SUFFICES ASSUME disturbed' = {} PROVE broken' = {} /\ Held'
  BY DEF HeldInv
<1>1. /\ uplink \in Seq(Messages) /\ uplink # <<>> /\ uplink' = Tail(uplink) /\ session # NoSession /\ online
      /\ UNCHANGED <<session, online, client, warps, broken>>
  BY ReceiveFacts DEF ZoneInComplete, server, Inv, OnlineInv, TypeOK
<1>2. Raced(Packet) = {} /\ ~client.latched /\ client.loads = <<>> /\ Head(uplink).epoch = warps
  BY DEF ZoneInComplete
<1>3. Packet \in Tasks /\ Ticker \in Tasks /\ Tasks = {Packet, Ticker} /\ Other(Packet) = Ticker
  BY OtherIs DEF Tasks
<1>4. disturbed = {} /\ \A x \in Pending(Ticker) : x.do \notin {"deliver", "moved", "kick"}
  BY <1>2, <1>3, Undisturbed
<1>5. broken = {} /\ Held /\ ~client.wiped
  BY <1>1, <1>2, <1>4 DEF HeldInv, OrderInv
<1>6. Fresh'
  <2>1. uplink[1].epoch = warps
    BY <1>1, <1>2
  <2> QED BY <1>1, <1>2, <2>1, AckIsFresh
<1>7. PICK w : w = Write(session, Acked(session))
  OBVIOUS
<1>8. PICK s : /\ Starts(Packet, s)
               /\ \/ s = <<w>> \/ s = <<w, To("check", session.deferred)>> \/ s = <<w, Do("kick")>>
  BY <1>1, <1>7, AckFacts
<1>9. w.do = "write" /\ Do("kick").do = "kick" /\ To("check", session.deferred).do = "check"
  BY <1>7 DEF Write, Do, To
<1>10. (\A i \in DOMAIN s : s[i].do \in {"write", "check", "kick"}) /\ Head(s).do = "write"
  BY <1>8, <1>9
<1>11. Pending(Packet)' = {s[i] : i \in DOMAIN s} /\ Pending(Ticker)' = Pending(Ticker)
  BY <1>3, <1>8, PendingStarts
<1>12. \A x \in Pending(Ticker) : x.do # "content"
  BY PacketOnly, OtherIs, <1>3
<1>13. \A u \in Tasks : ~Has(u, "moved")' /\ ~Has(u, "deliver")' /\ ~Has(u, "content")'
  BY <1>3, <1>4, <1>10, <1>11, <1>12 DEF Has
<1>14. ~Wiping'
  BY <1>13 DEF Wiping
<1>15. \A u \in Tasks : NoWipe(u)' \/ session'.reload
  <2>1. program'[Packet] = s /\ program'[Ticker] = program[Ticker]
    BY <1>3, <1>8 DEF Starts
  <2>2. NoWipe(Packet)'
    BY <1>10, <2>1 DEF NoWipe, Step, Wipes
  <2>3. NoWipe(Ticker)' <=> NoWipe(Ticker)
    BY <2>1 DEF NoWipe, Step
  <2> QED BY <1>1, <1>3, <1>5, <2>2, <2>3 DEF Held
<1> QED BY <1>1, <1>5, <1>6, <1>13, <1>14, <1>15 DEF Held

\* Every step preserves HeldInv.
LEMMA HeldStep == Inv /\ HereInv /\ StrandedInv /\ OrderInv /\ HeldInv /\ [Next]_vars => HeldInv'
<1> SUFFICES ASSUME Inv, HereInv, StrandedInv, OrderInv, HeldInv, [Next]_vars PROVE HeldInv'
  OBVIOUS
<1>1. ASSUME NEW t \in Tasks, Rest(t) PROVE HeldInv'
  BY <1>1, HeldRead, HeldUpsert, HeldCheck, HeldGoes, HeldMoved, HeldTold, HeldBundle, HeldKick, HeldFlipped, HeldPlace DEF Rest
<1>2. ASSUME NEW t \in Tasks, NEW s \in Seq(Steps), Issued(t, s) PROVE HeldInv'
  BY <1>2, HeldIssued
<1>3. CASE UNCHANGED vars
  <2>1. UNCHANGED <<session, online, client, uplink, warps, program, disturbed, broken>>
    BY <1>3 DEF vars, server, history
  <2>2. SameWorld
    BY <2>1 DEF SameWorld, Fresh
  <2> QED BY <2>1, <2>2, HeldKept
<1>4. CASE SessionEnd
  BY <1>4 DEF SessionEnd, HeldInv
<1>5. CASE Happens
  BY <1>4, <1>5, HeldDue, HeldLoads, HeldReports, HeldAck, HeldReport, HeldBegin DEF Happens
<1> QED BY <1>1, <1>2, <1>3, <1>5, NextSteps DEF Doing

\* While a client reloads its world in place, or a zone-in is parked for it, a position from
\* before the last move is not taken up by handle_update_position, and apply_kick_event and
\* handle_zone_in_complete send no event to actors the client has just wiped: the latch
\* reload_in_flight (session.reload) is set before the client is told and lifted only for a
\* client that has loaded the last place, and pending_zone_in (session.parked) lasts until the
\* zone-in goes out.  Not so when the tasks run into each other, an acknowledgement comes while
\* a later load is under way, or the player was sent to a zone that is not on this server; and
\* a client that loads without either latch, as after every warp to another region, is outside
\* the statement: nothing holds its reports off.
THEOREM HeldOffWhileReloadingHolds == Spec => []HeldOffWhileReloading
<1>1. Init => OrderInv /\ HeldInv /\ HereInv /\ StrandedInv
  <2> SUFFICES ASSUME Init PROVE OrderInv /\ HeldInv /\ HereInv /\ StrandedInv
    OBVIOUS
  <2>1. client = NoClient /\ uplink = <<>> /\ warps = 0 /\ ~online /\ broken = {}
    BY DEF Init
  <2>2. NoClient.epoch = -1 /\ NoClient.loads = <<>> /\ ~NoClient.wiped
    BY DEF NoClient
  <2>3. Sorted(<<>>) /\ \A n : AtMost(<<>>, n) /\ AtLeast(<<>>, n)
    BY DEF Sorted, AtMost, AtLeast
  <2>4. -1 <= 0
    OBVIOUS
  <2>5. OrderInv
    BY <2>1, <2>2, <2>3, <2>4 DEF OrderInv
  <2>6. HeldInv
    BY <2>1 DEF HeldInv
  <2>7. HereInv /\ StrandedInv
    BY <2>1 DEF HereInv, StrandedInv
  <2> QED BY <2>5, <2>6, <2>7
<1>2. HeldInv => HeldOffWhileReloading
  BY DEF HeldInv, HeldOffWhileReloading
<1> QED BY <1>1, <1>2, HereStep, StrandedNext, OrderStep, HeldStep, Invariance, PTL DEF Spec
=============================================================================
