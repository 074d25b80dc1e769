------------------------ MODULE EventScriptsProofs ------------------------
(***************************************************************************)
(* Proofs about EventScripts for any players, owners, signals and any      *)
(* number of coroutines.                                                   *)
(***************************************************************************)
EXTENDS EventScripts, FiniteSetTheorems, TLAPS

(***************************************************************************)
(* Type correctness.                                                       *)
(***************************************************************************)
CoType == [player : Players, home : Owners \cup {None}]

(* A coroutine that is made is the next one; the others stay as they are. *)
LEMMA AppendFacts ==
  ASSUME co \in Seq(CoType), NEW e \in CoType, co' = Append(co, e)
  PROVE  /\ co' \in Seq(CoType) /\ Len(co') = Len(co) + 1
         /\ DOMAIN co' = DOMAIN co \cup {Len(co) + 1}
         /\ Len(co) + 1 \notin DOMAIN co
         /\ \A c \in DOMAIN co : co'[c] = co[c]
         /\ co'[Len(co) + 1] = e
<1>1. Len(co) \in Nat /\ DOMAIN co = 1..Len(co)
  OBVIOUS
<1>2. co' \in Seq(CoType) /\ Len(co') = Len(co) + 1 /\ DOMAIN co' = 1..(Len(co) + 1)
  OBVIOUS
<1>3. \A c \in 1..Len(co) : co'[c] = co[c]
  OBVIOUS
<1>4. co'[Len(co) + 1] = e
  OBVIOUS
<1> QED
  BY <1>1, <1>2, <1>3, <1>4

(* What a slice can end in. *)
LEMMA OutcomeTypes ==
  ASSUME NEW o \in Outcomes
  PROVE  /\ o.wait \in Signals \cup {"time", "event", "done"}
         /\ o.out \ {"rpc"} \subseteq ScriptCommands
  BY WaitsAssumption DEF Outcomes, Commands

TableTypes(d) ==
  /\ onTime \subseteq d /\ due \subseteq onTime
  /\ onSignal \in [Signals -> SUBSET d]
  /\ onEvent \in [Players -> [co : d \cup {None}, owner : Owners \cup {None}]]

(* Parking a coroutine keeps the tables well typed. *)
LEMMA ParkTypes ==
  ASSUME NEW d, NEW e, d \subseteq e, TableTypes(d),
         ownerCtx \in [Players -> Owners \cup {None}],
         NEW c \in e, NEW p \in Players, NEW wait, Park(c, p, wait)
  PROVE  TableTypes(e)'
<1>1. onTime' \subseteq e /\ due' \subseteq onTime'
  BY DEF Park, TableTypes
<1>2. onSignal' \in [Signals -> SUBSET e]
  BY DEF Park, TableTypes
<1>3. onEvent' \in [Players -> [co : e \cup {None}, owner : Owners \cup {None}]]
  <2>1. Stamp(p) \in Owners \cup {None}
    BY DEF Stamp
  <2>2. onEvent \in [Players -> [co : e \cup {None}, owner : Owners \cup {None}]]
    BY DEF TableTypes
  <2> QED
    BY <2>1, <2>2 DEF Park
<1> QED
  BY <1>1, <1>2, <1>3 DEF TableTypes

(* The parts of the type invariant. *)
WorldTypes ==
  /\ ownerCtx \in [Players -> Owners \cup {None}]
  /\ online \subseteq Players
  /\ currentOwner \in [Players -> Owners \cup {None}]
  /\ content \in [Players -> Directors \cup {None}]

ControlTypes ==
  /\ pc \in [Actors -> PacketLabels \cup TickerLabels]
  /\ pc["ticker"] \in TickerLabels /\ pc["packet"] \in PacketLabels
  /\ actingFor \in Players \cup {None} /\ (pc["packet"] # "idle" => actingFor # None)
  /\ cmds \in [Actors -> SUBSET (ScriptCommands \cup Signals)]
  /\ evOwner \in Owners \cup {None}
  /\ arm \in {"start", "update", "echo", "director", "fresh", "outside", None}

HeldTypes(d) ==
  /\ hand \in [Actors -> SUBSET d]
  /\ batches \subseteq [co : d, cmds : SUBSET ScriptCommands]

\* TypeOK by groups of variables.
LEMMA TypeParts ==
  TypeOK <=> /\ co \in Seq(CoType) /\ Len(co) <= MaxCoroutines
             /\ TableTypes(DOMAIN co) /\ WorldTypes /\ ControlTypes
             /\ HeldTypes(DOMAIN co)
  BY DEF TypeOK, CoType, TableTypes, WorldTypes, ControlTypes, HeldTypes

\* The types after a step, by groups of variables.
LEMMA TypePartsNext ==
  ASSUME co' \in Seq(CoType), Len(co') <= MaxCoroutines,
         TableTypes(DOMAIN co)', WorldTypes', ControlTypes', HeldTypes(DOMAIN co)'
  PROVE  TypeOK'
  BY DEF TypeOK, CoType, TableTypes, WorldTypes, ControlTypes, HeldTypes

(* A coroutine has a player. *)
LEMMA CoPlayer ==
  ASSUME co \in Seq(CoType), NEW c \in DOMAIN co
  PROVE  co[c].player \in Players
<1>1. co[c] \in CoType
  OBVIOUS
<1> QED
  BY <1>1 DEF CoType

(* A purge keeps the tables well typed. *)
LEMMA PurgeTypes ==
  ASSUME NEW d, TableTypes(d), ownerCtx \in [Players -> Owners \cup {None}],
         NEW p \in Players, Purge(p)
  PROVE  TableTypes(d)' /\ ownerCtx' \in [Players -> Owners \cup {None}]
  BY DEF Purge, StillDue, PurgedSignals, NotParked, TableTypes

(* The steps of either task that apply a batch. *)
LEMMA ApplyTypes ==
  ASSUME TypeOK, NEW a \in Actors, Apply(a)
  PROVE  TypeOK'
<1>0. /\ co \in Seq(CoType) /\ Len(co) <= MaxCoroutines
      /\ TableTypes(DOMAIN co) /\ WorldTypes /\ ControlTypes /\ HeldTypes(DOMAIN co)
  BY TypeParts
<1> SUFFICES /\ UNCHANGED co /\ TableTypes(DOMAIN co)' /\ WorldTypes'
             /\ ControlTypes' /\ HeldTypes(DOMAIN co)'
  BY <1>0, TypePartsNext
<1>1. CASE ApplyFinish(a)
  <2>1. UNCHANGED co /\ ControlTypes' /\ HeldTypes(DOMAIN co)'
    BY <1>0, <1>1 DEF ApplyFinish, packetVars, ControlTypes, HeldTypes
  <2>2. content' \in [Players -> Directors \cup {None}]
    BY <1>0, <1>1 DEF ApplyFinish, WorldTypes
  <2>3. CASE UNCHANGED <<schedVars, ownerCtx>>
    BY <1>0, <1>1, <2>1, <2>2, <2>3 DEF ApplyFinish, WorldTypes, TableTypes, schedVars
  <2>4. ASSUME NEW q \in Players, Purge(q)
        PROVE  TableTypes(DOMAIN co)' /\ WorldTypes'
    <3>1. TableTypes(DOMAIN co)' /\ ownerCtx' \in [Players -> Owners \cup {None}]
      BY <1>0, <2>1, <2>4, PurgeTypes DEF WorldTypes, TableTypes
    <3> QED
      BY <1>0, <1>1, <2>2, <3>1 DEF ApplyFinish, WorldTypes
  <2> QED
    BY <1>1, <2>1, <2>3, <2>4 DEF ApplyFinish
<1>2. ASSUME NEW s \in Signals, ApplySignal(a, s)
      PROVE  /\ UNCHANGED co /\ TableTypes(DOMAIN co)' /\ WorldTypes'
             /\ ControlTypes' /\ HeldTypes(DOMAIN co)'
  BY <1>0, <1>2 DEF ApplySignal, packetVars, worldVars, ControlTypes, HeldTypes, TableTypes,
     WorldTypes
<1>3. ASSUME NEW c \in hand[a], ApplyResume(a, c)
      PROVE  /\ UNCHANGED co /\ TableTypes(DOMAIN co)' /\ WorldTypes'
             /\ ControlTypes' /\ HeldTypes(DOMAIN co)'
  <2>1. PICK o \in Outcomes :
          /\ Park(c, co[c].player, o.wait)
          /\ cmds' = [cmds EXCEPT ![a] = @ \cup (o.out \ {"rpc"})]
    BY <1>3 DEF ApplyResume
  <2>2. c \in DOMAIN co /\ co[c].player \in Players
    BY <1>0, CoPlayer DEF HeldTypes
  <2>3. TableTypes(DOMAIN co)'
    BY <1>0, <1>3, <2>1, <2>2, ParkTypes DEF ApplyResume, WorldTypes, TableTypes
  <2>4. cmds' \in [Actors -> SUBSET (ScriptCommands \cup Signals)]
    BY <1>0, <2>1, OutcomeTypes DEF ControlTypes
  <2> QED
    BY <1>0, <1>3, <2>3, <2>4 DEF ApplyResume, packetVars, worldVars, ControlTypes,
       HeldTypes, WorldTypes
<1>4. CASE ApplyEnd(a)
  <2>1. PICK l \in {"resume", "fresh", "close"} :
          /\ pc' = [pc EXCEPT ![a] = l]
          /\ l = "resume" <=> a = "ticker"
    BY <1>4 DEF ApplyEnd, Goto
  <2>2. ControlTypes'
    BY <1>0, <1>4, <2>1 DEF ApplyEnd, packetVars, ControlTypes, Actors, PacketLabels,
       TickerLabels
  <2> QED
    BY <1>0, <1>4, <2>2 DEF ApplyEnd, schedVars, worldVars, packetVars, HeldTypes,
       TableTypes, WorldTypes
<1> QED
  BY <1>1, <1>2, <1>3, <1>4 DEF Apply

(* A hook that is run: a new coroutine, and what it parks on and queues. *)
LEMMA HookTypes ==
  ASSUME TypeOK, NEW p \in Players, NEW home \in Owners \cup {None}, NEW drops,
         RunHook(p, home, drops), UNCHANGED <<hand, batches>>
  PROVE  /\ co' \in Seq(CoType) /\ Len(co') <= MaxCoroutines
         /\ TableTypes(DOMAIN co)' /\ HeldTypes(DOMAIN co)'
         /\ cmds' \in [Actors -> SUBSET (ScriptCommands \cup Signals)]
<1>0. /\ co \in Seq(CoType) /\ Len(co) <= MaxCoroutines
      /\ TableTypes(DOMAIN co) /\ WorldTypes /\ ControlTypes /\ HeldTypes(DOMAIN co)
  BY TypeParts
<1> DEFINE c == Len(co) + 1
           e == [player |-> p, home |-> home]
<1>1. c \in 1..MaxCoroutines /\ co' = Append(co, e) /\ e \in CoType
  BY DEF RunHook, Coroutines, CoType
<1> HIDE DEF e
<1>2. co' \in Seq(CoType) /\ Len(co') = c /\ DOMAIN co' = DOMAIN co \cup {c}
  BY <1>0, <1>1, AppendFacts
<1>3. PICK o \in Outcomes :
        /\ Park(c, p, o.wait)
        /\ cmds' = [cmds EXCEPT !["packet"] = (o.out \ {"rpc"}) \ drops]
  BY DEF RunHook
<1>4. cmds' \in [Actors -> SUBSET (ScriptCommands \cup Signals)]
  BY <1>0, <1>3, OutcomeTypes DEF ControlTypes
<1>5. TableTypes(DOMAIN co)'
  <2>1. PICK d : d = DOMAIN co'
    OBVIOUS
  <2>2. TableTypes(d)'
    BY <1>0, <1>2, <1>3, <2>1, ParkTypes DEF WorldTypes
  <2> QED
    BY <2>1, <2>2 DEF TableTypes
<1>6. HeldTypes(DOMAIN co)'
  BY <1>0, <1>2 DEF HeldTypes
<1> QED
  BY <1>1, <1>2, <1>4, <1>5, <1>6, BoundAssumption

(* The packet task. *)
LEMMA PacketTypes ==
  ASSUME TypeOK, Packet
  PROVE  TypeOK'
<1>0. /\ co \in Seq(CoType) /\ Len(co) <= MaxCoroutines
      /\ TableTypes(DOMAIN co) /\ WorldTypes /\ ControlTypes /\ HeldTypes(DOMAIN co)
  BY TypeParts
<1> DEFINE Kept == /\ UNCHANGED co /\ TableTypes(DOMAIN co)' /\ WorldTypes'
                   /\ ControlTypes' /\ HeldTypes(DOMAIN co)'
<1>0a. Kept => TypeOK'
  BY <1>0, TypePartsNext
<1>0b. "packet" \in Actors /\ "ticker" \in Actors
  BY DEF Actors
<1> USE DEF Goto, PacketLabels, TickerLabels, schedVars, worldVars, packetVars, taskVars,
            WorldTypes, ControlTypes
<1> HIDE DEF Kept
<1>1. ASSUME NEW p \in Players, NEW o \in Owners, EventStart(p, o) PROVE Kept
  BY <1>0, <1>0b, <1>1, NoneAssumption DEF EventStart, FirstStep, Kept, TableTypes, HeldTypes
<1>2. ASSUME NEW p \in Players, EventUpdate(p) PROVE Kept
  BY <1>0, <1>0b, <1>2, NoneAssumption DEF EventUpdate, UpdateScope, Kept, TableTypes, HeldTypes
<1>3. ASSUME NEW p \in Players, OutsideHook(p) PROVE TypeOK'
  <2>1. /\ co' \in Seq(CoType) /\ Len(co') <= MaxCoroutines
        /\ TableTypes(DOMAIN co)' /\ HeldTypes(DOMAIN co)'
        /\ cmds' \in [Actors -> SUBSET (ScriptCommands \cup Signals)]
    BY <1>3, HookTypes DEF OutsideHook
  <2>2. content' \in [Players -> Directors \cup {None}]
    BY <1>0, <1>3 DEF OutsideHook, EnterContent
  <2>3. WorldTypes' /\ ControlTypes'
    BY <1>0, <1>0b, <1>3, <2>1, <2>2, NoneAssumption DEF OutsideHook
  <2> QED
    BY <2>1, <2>3, TypePartsNext
<1>4. ASSUME NEW p \in Players, SessionEnd(p) PROVE Kept
  <2>1. TableTypes(DOMAIN co)' /\ ownerCtx' \in [Players -> Owners \cup {None}]
    BY <1>0, <1>4, PurgeTypes DEF SessionEnd, TableTypes
  <2> QED
    BY <1>0, <1>0b, <1>4, <2>1, NoneAssumption DEF SessionEnd, Kept, HeldTypes
<1>5. ASSUME NEW p \in Players, SessionBegin(p) PROVE Kept
  BY <1>0, <1>0b, <1>5 DEF SessionBegin, Kept, TableTypes, HeldTypes
<1>6. CASE GateRead
  <2>1. GateVerdict(onEvent[actingFor]) \in {"claim", "discard", "scope"}
    BY DEF GateVerdict
  <2> QED
    BY <1>0, <1>0a, <1>0b, <1>6, <2>1 DEF GateRead, Kept, TableTypes, HeldTypes
<1>7. CASE Claim
  BY <1>0, <1>0a, <1>0b, <1>7 DEF Claim, Kept, TableTypes, HeldTypes
<1>8. CASE Discard
  BY <1>0, <1>0a, <1>0b, <1>8 DEF Discard, NotParked, Kept, TableTypes, HeldTypes
<1>9. CASE Scope
  <2>1. PICK l \in {"take", "fresh", "close"}, x \in {"director", "fresh"},
             z \in Owners \cup {None} :
          /\ pc' = [pc EXCEPT !["packet"] = l] /\ arm' = x
          /\ currentOwner' = [currentOwner EXCEPT ![actingFor] = z]
    BY <1>0, <1>9 DEF Scope
  <2> QED
    BY <1>0, <1>0a, <1>0b, <1>9, <2>1 DEF Scope, OpenScope, Kept, TableTypes, HeldTypes
<1>10. WhenEmpty \in {"echo", "director", "close"}
  BY DEF WhenEmpty
<1>11. CASE Take
  <2>1. actingFor \in Players
    BY <1>0, <1>11 DEF Take
  <2>2. onEvent[actingFor].co \in DOMAIN co \cup {None}
    BY <1>0, <2>1 DEF TableTypes
  <2>3. HeldTypes(DOMAIN co)' /\ UNCHANGED co
    BY <1>0, <1>11, <2>2 DEF Take, HeldTypes
  <2>4. TableTypes(DOMAIN co)'
    BY <1>0, <1>11, <2>1 DEF Take, Taken, NotParked, TableTypes
  <2>5. WorldTypes' /\ ControlTypes'
    BY <1>0, <1>0b, <1>10, <1>11 DEF Take
  <2> QED
    BY <1>0a, <2>3, <2>4, <2>5 DEF Kept
<1>12. CASE Slice
  <2>1. PICK c \in hand["packet"], o \in Outcomes :
         /\ Park(c, co[c].player, o.wait)
         /\ hand' = [hand EXCEPT !["packet"] = @ \ {c}]
         /\ cmds' = [cmds EXCEPT !["packet"] =
                       (o.out \ {"rpc"}) \ (IF arm = "echo" THEN Signals ELSE {})]
         /\ Goto("packet", IF o.out = {} THEN WhenEmpty ELSE "apply")
    BY <1>12 DEF Slice
  <2>2. c \in DOMAIN co /\ co[c].player \in Players
    BY <1>0, <1>0b, CoPlayer DEF HeldTypes
  <2>3. TableTypes(DOMAIN co)'
    BY <1>0, <1>12, <2>1, <2>2, ParkTypes DEF Slice, TableTypes
  <2>4. cmds' \in [Actors -> SUBSET (ScriptCommands \cup Signals)]
    BY <1>0, <2>1, OutcomeTypes
  <2>5. HeldTypes(DOMAIN co)' /\ UNCHANGED co
    BY <1>0, <1>12, <2>1 DEF Slice, HeldTypes
  <2>6. WorldTypes' /\ ControlTypes'
    BY <1>0, <1>0b, <1>10, <1>12, <2>1, <2>4 DEF Slice
  <2> QED
    BY <1>0a, <2>3, <2>5, <2>6 DEF Kept
<1>13. CASE FreshHook \/ DirectorHook
  <2>1. actingFor \in Players
    BY <1>0, <1>13 DEF FreshHook, DirectorHook
  <2>2. /\ co' \in Seq(CoType) /\ Len(co') <= MaxCoroutines
        /\ TableTypes(DOMAIN co)' /\ HeldTypes(DOMAIN co)'
        /\ cmds' \in [Actors -> SUBSET (ScriptCommands \cup Signals)]
    BY <1>0, <1>13, <2>1, HookTypes DEF FreshHook, DirectorHook
  <2>3. WorldTypes' /\ ControlTypes'
    BY <1>0, <1>0b, <1>13, <2>2 DEF FreshHook, DirectorHook
  <2> QED
    BY <2>2, <2>3, TypePartsNext
<1>14. CASE FreshEnd \/ Echo
  BY <1>0, <1>0a, <1>0b, <1>14 DEF FreshEnd, Echo, UpdateScope, Kept, TableTypes, HeldTypes
<1>15. CASE Close \/ Forget
  BY <1>0, <1>0a, <1>0b, <1>15 DEF Close, CloseScope, Forget, Kept, TableTypes, HeldTypes
<1>16. CASE Apply("packet")
  BY <1>0b, <1>16, ApplyTypes
<1> QED
  BY <1>0a, <1>1, <1>2, <1>3, <1>4, <1>5, <1>6, <1>7, <1>8, <1>9, <1>11, <1>12, <1>13,
     <1>14, <1>15, <1>16 DEF Packet

(* The ticker, and time. *)
LEMMA TickerTypes ==
  ASSUME TypeOK,
         \/ Ticker
         \/ \E p \in Players, s \in Signals : TickSignal(p, s)
         \/ \E c \in onTime : Expire(c)
  PROVE  TypeOK'
<1>0. /\ co \in Seq(CoType) /\ Len(co) <= MaxCoroutines
      /\ TableTypes(DOMAIN co) /\ WorldTypes /\ ControlTypes /\ HeldTypes(DOMAIN co)
  BY TypeParts
<1> SUFFICES ASSUME ~Apply("ticker")
             PROVE  /\ UNCHANGED co /\ TableTypes(DOMAIN co)' /\ WorldTypes'
                    /\ ControlTypes' /\ HeldTypes(DOMAIN co)'
  BY <1>0, TypePartsNext, ApplyTypes DEF Actors
<1>0b. "packet" \in Actors /\ "ticker" \in Actors
  BY DEF Actors
<1> USE DEF Goto, PacketLabels, TickerLabels, schedVars, worldVars, packetVars, taskVars,
            WorldTypes, ControlTypes
<1>1. CASE TickDrain
  BY <1>0, <1>0b, <1>1 DEF TickDrain, DueNow, TableTypes, HeldTypes
<1>2. CASE TickEnd
  BY <1>0, <1>0b, <1>2 DEF TickEnd, TableTypes, HeldTypes
<1>3. ASSUME NEW c \in hand["ticker"], TickResume(c)
      PROVE  /\ UNCHANGED co /\ TableTypes(DOMAIN co)' /\ WorldTypes'
             /\ ControlTypes' /\ HeldTypes(DOMAIN co)'
  <2>1. PICK o \in Outcomes :
         /\ Park(c, co[c].player, o.wait)
         /\ batches' = IF o.out = {} THEN batches
                       ELSE batches \cup {[co |-> c, cmds |-> o.out \ {"rpc"}]}
    BY <1>3 DEF TickResume
  <2>2. c \in DOMAIN co /\ co[c].player \in Players
    BY <1>0, <1>0b, CoPlayer DEF HeldTypes
  <2>3. TableTypes(DOMAIN co)'
    BY <1>0, <1>3, <2>1, <2>2, ParkTypes DEF TickResume, TableTypes
  <2>4. [co |-> c, cmds |-> o.out \ {"rpc"}] \in [co : DOMAIN co, cmds : SUBSET ScriptCommands]
    BY <2>2, OutcomeTypes
  <2>5. HeldTypes(DOMAIN co)' /\ UNCHANGED co
    BY <1>0, <1>3, <2>1, <2>4 DEF TickResume, HeldTypes
  <2> QED
    BY <1>0, <1>3, <2>3, <2>5 DEF TickResume
<1>4. ASSUME NEW b \in batches, TickApply(b)
      PROVE  /\ UNCHANGED co /\ TableTypes(DOMAIN co)' /\ WorldTypes'
             /\ ControlTypes' /\ HeldTypes(DOMAIN co)'
  <2>1. b.cmds \subseteq ScriptCommands
    BY <1>0 DEF HeldTypes
  <2> QED
    BY <1>0, <1>0b, <1>4, <2>1 DEF TickApply, TableTypes, HeldTypes
<1>5. ASSUME NEW p \in Players, NEW s \in Signals, TickSignal(p, s)
      PROVE  /\ UNCHANGED co /\ TableTypes(DOMAIN co)' /\ WorldTypes'
             /\ ControlTypes' /\ HeldTypes(DOMAIN co)'
  BY <1>0, <1>0b, <1>5 DEF TickSignal, TableTypes, HeldTypes
<1>6. ASSUME NEW c \in onTime, Expire(c)
      PROVE  /\ UNCHANGED co /\ TableTypes(DOMAIN co)' /\ WorldTypes'
             /\ ControlTypes' /\ HeldTypes(DOMAIN co)'
  BY <1>0, <1>6 DEF Expire, TableTypes, HeldTypes
<1> QED
  BY <1>1, <1>2, <1>3, <1>4, <1>5, <1>6 DEF Ticker

\* Types at the start.
LEMMA InitTypes == Init => TypeOK
  BY BoundAssumption DEF Init, TypeOK, Actors, NotParked, PacketLabels, TickerLabels

\* Every step keeps the types.
LEMMA NextTypes == TypeOK /\ [Next]_vars => TypeOK'
<1>1. CASE UNCHANGED vars
  BY <1>1 DEF vars, schedVars, worldVars, taskVars, packetVars, TypeOK
<1> QED
  BY <1>1, PacketTypes, TickerTypes DEF Next

(* Every reachable state is well typed: the scheduler's tables hold only    *)
(* coroutines that exist, and a handler that acts for a player (the packet  *)
(* task between two packets aside) has one.                                 *)
THEOREM TypeCorrectness == Spec => []TypeOK
  BY InitTypes, NextTypes, PTL DEF Spec

(***************************************************************************)
(* The owner scope.                                                        *)
(***************************************************************************)

(* A session end has closed every scope before it forgets the player. *)
ScopeInv ==
  /\ ScopeEndsWithDispatch
  /\ pc["packet"] = "forget" => \A p \in Players : ownerCtx[p] = None

\* The script commands applied keep the scopes.
LEMMA ScopeByApply ==
  ASSUME TypeOK, ScopeInv, NEW a \in Actors, Apply(a)
  PROVE  ScopeInv'
<1> USE DEF TypeOK, ScopeInv, ScopeEndsWithDispatch
<1>1. UNCHANGED actingFor /\ \A p \in Players : ownerCtx'[p] \in {ownerCtx[p], None}
  BY DEF Apply, ApplyFinish, ApplyEnd, ApplySignal, ApplyResume, Purge, packetVars
<1>2. UNCHANGED pc \/ ApplyEnd(a)
  BY DEF Apply, ApplyFinish, ApplySignal, ApplyResume
<1>3. CASE UNCHANGED pc
  BY <1>1, <1>3
<1>4. CASE ApplyEnd(a)
  <2>1. a = "packet" => pc["packet"] = "apply" /\ pc'["packet"] \in {"fresh", "close"}
    BY <1>4 DEF ApplyEnd, Goto
  <2>2. a = "ticker" => pc'["packet"] = pc["packet"]
    BY <1>4 DEF ApplyEnd, Goto
  <2> QED
    BY <1>1, <2>1, <2>2 DEF Actors
<1> QED
  BY <1>2, <1>3, <1>4

\* Every step keeps the scopes.
LEMMA ScopeStep ==
  ASSUME TypeOK, ScopeInv, [Next]_vars
  PROVE  ScopeInv'
<1>0. CASE Apply("packet") \/ Apply("ticker")
  BY <1>0, ScopeByApply DEF Actors
<1> USE DEF TypeOK, ScopeInv, ScopeEndsWithDispatch, Goto, packetVars, Actors
<1>1. ASSUME NEW p \in Players,
             \/ \E o \in Owners : EventStart(p, o)
             \/ EventUpdate(p) \/ OutsideHook(p) \/ SessionBegin(p)
      PROVE  ScopeInv'
  BY <1>1 DEF EventStart, FirstStep, EventUpdate, UpdateScope, OutsideHook, SessionBegin,
     taskVars
<1>2. ASSUME NEW p \in Players, SessionEnd(p) PROVE ScopeInv'
  BY <1>2 DEF SessionEnd, Purge
<1>3. CASE GateRead
  BY <1>3 DEF GateRead, GateVerdict
<1>4. CASE Claim \/ Discard
  BY <1>4 DEF Claim, Discard
<1>5. CASE Scope
  BY <1>5 DEF Scope, OpenScope
<1>6. CASE Take
  BY <1>6 DEF Take, WhenEmpty
<1>7. CASE Slice
  BY <1>7 DEF Slice, WhenEmpty
<1>8. CASE FreshHook \/ DirectorHook \/ FreshEnd
  BY <1>8 DEF FreshHook, DirectorHook, FreshEnd
<1>9. CASE Close
  BY <1>9 DEF Close, CloseScope
<1>10. CASE Echo
  BY <1>10 DEF Echo, UpdateScope
<1>11. CASE Forget
  BY <1>11 DEF Forget
<1>12. CASE TickDrain \/ TickEnd
  BY <1>12 DEF TickDrain, TickEnd
<1>13. ASSUME NEW c, TickResume(c) PROVE ScopeInv'
  BY <1>13 DEF TickResume
<1>14. ASSUME NEW b, TickApply(b) PROVE ScopeInv'
  BY <1>14 DEF TickApply
<1>15. ASSUME NEW p, NEW s, TickSignal(p, s) PROVE ScopeInv'
  BY <1>15 DEF TickSignal
<1>16. ASSUME NEW c, Expire(c) PROVE ScopeInv'
  BY <1>16 DEF Expire, taskVars
<1>17. CASE UNCHANGED vars
  BY <1>17 DEF vars, taskVars
<1> QED
  BY <1>0, <1>1, <1>2, <1>3, <1>4, <1>5, <1>6, <1>7, <1>8, <1>9, <1>10, <1>11, <1>12,
     <1>13, <1>14, <1>15, <1>16, <1>17 DEF Next, Packet, Ticker

(* The event owner context that a dispatch sets ends with it, on every path *)
(* out of the packet handlers, while the ticker resumes and parks beside    *)
(* them: no park made between two packets carries the stamp of an event.    *)
THEOREM ScopeEndsWithDispatchHolds == Spec => []ScopeEndsWithDispatch
<1>1. Init => TypeOK /\ ScopeInv
  <2>1. Init => ScopeInv
    BY DEF Init, ScopeInv, ScopeEndsWithDispatch, Actors
  <2> QED
    BY <2>1, InitTypes
<1>2. TypeOK /\ ScopeInv /\ [Next]_vars => TypeOK' /\ ScopeInv'
  BY NextTypes, ScopeStep
<1>3. ScopeInv => ScopeEndsWithDispatch
  BY DEF ScopeInv
<1> QED
  BY <1>1, <1>2, <1>3, PTL DEF Spec

(***************************************************************************)
(* Custody of a coroutine.                                                 *)
(***************************************************************************)
InSignal(c) == \E s \in Signals : c \in onSignal[s]
InEvent(c)  == \E p \in Players : onEvent[p].co = c
InHand(c)   == \E a \in Actors : c \in hand[a]

(* One place at most, place by place. *)
OnePlace(c) ==
  /\ c \in onTime => ~InSignal(c) /\ ~InEvent(c) /\ ~InHand(c)
  /\ InSignal(c) => ~InEvent(c) /\ ~InHand(c)
  /\ InEvent(c) => ~InHand(c)
  /\ \A s, t \in Signals : c \in onSignal[s] /\ c \in onSignal[t] => s = t
  /\ \A a, b \in Actors : c \in hand[a] /\ c \in hand[b] => a = b

Nowhere(c) == c \notin onTime /\ ~InSignal(c) /\ ~InEvent(c) /\ ~InHand(c)

OwnPark == \A p \in Players : onEvent[p].co # None => co[onEvent[p].co].player = p

CustodyInv ==
  /\ \A c \in DOMAIN co : OnePlace(c)
  /\ OwnPark
  /\ gone \subseteq DOMAIN co /\ \A c \in gone : Nowhere(c)

\* No coroutine is None.
LEMMA NoneIsNoCoroutine ==
  ASSUME TypeOK
  PROVE  None \notin DOMAIN co
<1>1. Len(co) \in Nat /\ DOMAIN co = 1..Len(co) /\ Len(co) <= MaxCoroutines
  BY DEF TypeOK
<1>2. DOMAIN co \subseteq 1..MaxCoroutines
  BY <1>1, BoundAssumption
<1> QED
  BY <1>2, NoneAssumption

(* Dropping a coroutine from a table or from a hand. *)
LEMMA FewerHeld ==
  ASSUME TypeOK, CustodyInv, UNCHANGED <<co, gone>>,
         onTime' \subseteq onTime,
         \A s \in Signals : onSignal'[s] \subseteq onSignal[s],
         \A p \in Players : onEvent'[p].co \in {onEvent[p].co, None},
         \A a \in Actors : hand'[a] \subseteq hand[a]
  PROVE  CustodyInv'
<1>1. \A c \in DOMAIN co : /\ InSignal(c)' => InSignal(c)
                           /\ InEvent(c)' => InEvent(c)
                           /\ InHand(c)' => InHand(c)
  BY NoneIsNoCoroutine DEF InSignal, InEvent, InHand
<1>2. \A c \in DOMAIN co : OnePlace(c)'
  BY <1>1 DEF CustodyInv, OnePlace
<1>3. OwnPark'
  BY DEF CustodyInv, OwnPark
<1>4. \A c \in gone : Nowhere(c)'
  BY <1>1 DEF CustodyInv, Nowhere
<1> QED
  BY <1>2, <1>3, <1>4 DEF CustodyInv

(* purge_owner: what it drops is in no task's hands either. *)
LEMMA PurgeCustody ==
  ASSUME TypeOK, CustodyInv, NEW q \in Players, Purge(q), UNCHANGED <<co, hand>>
  PROVE  CustodyInv'
<1> DEFINE new == {c \in Owned(q) : Parked(c)}
<1>1. /\ onTime' = onTime \ Owned(q)
      /\ \A s \in Signals : onSignal'[s] = onSignal[s] \ Owned(q)
      /\ \A p \in Players : onEvent'[p] = IF p = q THEN NotParked ELSE onEvent[p]
      /\ gone' = gone \cup new
  BY DEF Purge, PurgedSignals, TypeOK
<1>2. \A c \in DOMAIN co : /\ InSignal(c)' => InSignal(c)
                           /\ InEvent(c)' => InEvent(c)
                           /\ InHand(c)' => InHand(c)
  BY <1>1, NoneIsNoCoroutine DEF InSignal, InEvent, InHand, NotParked
<1>3. \A c \in DOMAIN co : OnePlace(c)'
  BY <1>1, <1>2 DEF CustodyInv, OnePlace
<1>4. OwnPark'
  BY <1>1 DEF CustodyInv, OwnPark, NotParked
<1>5. ASSUME NEW c \in new PROVE c \in DOMAIN co /\ Nowhere(c)'
  <2>1. c \in DOMAIN co /\ co[c].player = q
    BY DEF Owned
  <2>2. ~InEvent(c)'
    BY <1>1, <2>1, NoneIsNoCoroutine DEF InEvent, NotParked, CustodyInv, OwnPark
  <2>3. c \notin onTime' /\ ~InSignal(c)'
    BY <1>1 DEF InSignal
  <2>4. ~InHand(c)'
    BY <1>2, <2>1 DEF Parked, CustodyInv, OnePlace, InSignal, InEvent
  <2> QED
    BY <2>1, <2>2, <2>3, <2>4 DEF Nowhere
<1>6. \A c \in gone : Nowhere(c)'
  BY <1>1, <1>2 DEF CustodyInv, Nowhere
<1> QED
  BY <1>1, <1>3, <1>4, <1>5, <1>6 DEF CustodyInv

(* Parking a coroutine that no table holds, out of the hand of its task. *)
LEMMA ParkCustody ==
  ASSUME TypeOK, TypeOK', CustodyInv,
         NEW c \in DOMAIN co', NEW p \in Players, co'[c].player = p,
         NEW w \in Signals \cup {"time", "event", "done"}, Park(c, p, w),
         \A d \in DOMAIN co' : d # c => d \in DOMAIN co,
         DOMAIN co \subseteq DOMAIN co',
         \A d \in DOMAIN co : co'[d] = co[d],
         \A a \in Actors : hand'[a] = hand[a] \ {c},
         c \notin onTime, ~InSignal(c), ~InEvent(c),
         c \notin gone, UNCHANGED gone
  PROVE  CustodyInv'
<1>1. /\ onTime' = IF w = "time" THEN onTime \cup {c} ELSE onTime
      /\ \A s \in Signals : onSignal'[s] = IF w = s THEN onSignal[s] \cup {c} ELSE onSignal[s]
      /\ \A q \in Players : onEvent'[q].co = IF w = "event" /\ q = p THEN c ELSE onEvent[q].co
  BY DEF Park, TypeOK
<1>2. ASSUME NEW d \in DOMAIN co', d # c
      PROVE  /\ d \in onTime' <=> d \in onTime
             /\ \A s \in Signals : d \in onSignal'[s] <=> d \in onSignal[s]
             /\ InSignal(d)' <=> InSignal(d)
             /\ InEvent(d)' => InEvent(d)
             /\ \A a \in Actors : d \in hand'[a] <=> d \in hand[a]
             /\ InHand(d)' <=> InHand(d)
  <2>1. d \in onTime' <=> d \in onTime
    BY <1>1, <1>2
  <2>2. ASSUME NEW s \in Signals PROVE d \in onSignal'[s] <=> d \in onSignal[s]
    <3>1. onSignal'[s] = onSignal[s] \/ onSignal'[s] = onSignal[s] \cup {c}
      BY <1>1
    <3> QED
      BY <1>2, <3>1
  <2>3. InEvent(d)' => InEvent(d)
    BY <1>1, <1>2 DEF InEvent
  <2>4. \A a \in Actors : d \in hand'[a] <=> d \in hand[a]
    BY <1>2
  <2> QED
    BY <2>1, <2>2, <2>3, <2>4 DEF InSignal, InHand
<1>3. ASSUME NEW d \in DOMAIN co', d # c PROVE OnePlace(d)'
  <2>1. OnePlace(d)
    BY <1>3 DEF CustodyInv
  <2> QED
    BY <1>2, <1>3, <2>1 DEF OnePlace
<1>4. OnePlace(c)'
  <2>1. /\ c \in onTime' <=> w = "time"
        /\ InSignal(c)' <=> w \in Signals
        /\ InEvent(c)' <=> w = "event"
        /\ ~InHand(c)'
        /\ \A s \in Signals : c \in onSignal'[s] <=> w = s
    BY <1>1 DEF InSignal, InEvent, InHand
  <2>2. "time" \notin Signals /\ "event" \notin Signals
    BY SignalsAssumption
  <2> QED
    BY <2>1, <2>2 DEF OnePlace, InHand
<1>5. OwnPark'
  BY <1>1 DEF CustodyInv, OwnPark, TypeOK
<1>6. ASSUME NEW d \in gone PROVE d \in DOMAIN co' /\ Nowhere(d)'
  <2>1. d \in DOMAIN co /\ d # c /\ Nowhere(d)
    BY DEF CustodyInv
  <2> QED
    BY <1>2, <2>1 DEF Nowhere
<1> QED
  BY <1>3, <1>4, <1>5, <1>6 DEF CustodyInv

(* A task resumes a coroutine it holds. *)
LEMMA ResumeCustody ==
  ASSUME TypeOK, TypeOK', CustodyInv, NEW a \in Actors, NEW c \in hand[a],
         NEW o \in Outcomes, Park(c, co[c].player, o.wait),
         hand' = [hand EXCEPT ![a] = @ \ {c}], UNCHANGED <<co, gone>>
  PROVE  CustodyInv'
<1>1. c \in DOMAIN co /\ hand \in [Actors -> SUBSET DOMAIN co] /\ co \in Seq(CoType)
  BY DEF TypeOK, CoType
<1>2. PICK p \in Players : co[c].player = p
  BY <1>1, CoPlayer
<1>3. /\ OnePlace(c) /\ InHand(c)
      /\ \A b \in Actors : c \in hand[b] => b = a
  BY <1>1 DEF CustodyInv, OnePlace, InHand
<1>4. \A b \in Actors : hand'[b] = hand[b] \ {c}
  BY <1>1, <1>3
<1>5. c \notin gone /\ c \notin onTime /\ ~InSignal(c) /\ ~InEvent(c)
  BY <1>3 DEF CustodyInv, Nowhere, OnePlace
<1>6. PICK w \in Signals \cup {"time", "event", "done"} : o.wait = w
  BY OutcomeTypes
<1> QED
  BY <1>1, <1>2, <1>4, <1>5, <1>6, ParkCustody

(* A hook's new coroutine. *)
LEMMA HookCustody ==
  ASSUME TypeOK, TypeOK', CustodyInv, NEW p \in Players, NEW home \in Owners \cup {None},
         NEW drops, RunHook(p, home, drops), UNCHANGED <<hand, gone>>
  PROVE  CustodyInv'
<1> DEFINE e == [player |-> p, home |-> home]
<1>1. co \in Seq(CoType) /\ co' = Append(co, e) /\ e \in CoType /\ e.player = p
  BY DEF RunHook, CoType, TypeOK
<1> HIDE DEF e
<1>2. PICK c : c = Len(co) + 1
  OBVIOUS
<1>3. /\ DOMAIN co' = DOMAIN co \cup {c} /\ c \notin DOMAIN co
      /\ \A d \in DOMAIN co : co'[d] = co[d]
      /\ co'[c].player = p
  BY <1>1, <1>2, AppendFacts
<1>4. PICK o \in Outcomes : Park(c, p, o.wait)
  BY <1>2 DEF RunHook
<1>5. PICK w \in Signals \cup {"time", "event", "done"} : o.wait = w
  BY OutcomeTypes
<1>6. c # None
  BY <1>3, <1>1, <1>2, NoneAssumption DEF RunHook, Coroutines
<1>7. /\ c \notin onTime /\ ~InSignal(c) /\ ~InEvent(c) /\ c \notin gone
      /\ \A a \in Actors : hand'[a] = hand[a] \ {c}
  BY <1>3, <1>6 DEF TypeOK, InSignal, InEvent, CustodyInv
<1> QED
  BY <1>3, <1>4, <1>5, <1>7, ParkCustody

(* The steps that apply a batch. *)
LEMMA ApplyCustody ==
  ASSUME TypeOK, TypeOK', CustodyInv, NEW a \in Actors, Apply(a)
  PROVE  CustodyInv'
<1>1. CASE ApplyFinish(a)
  <2>1. CASE UNCHANGED <<schedVars, gone>>
    BY <1>1, <2>1, FewerHeld DEF ApplyFinish, schedVars
  <2>2. ASSUME NEW q \in Players, Purge(q) PROVE CustodyInv'
    BY <1>1, <2>2, PurgeCustody DEF ApplyFinish
  <2> QED
    BY <1>1, <2>1, <2>2 DEF ApplyFinish
<1>2. ASSUME NEW s \in Signals, ApplySignal(a, s) PROVE CustodyInv'
  <2>1. /\ UNCHANGED <<co, gone, onTime, onEvent>>
        /\ \A t \in Signals : onSignal'[t] = IF t = s THEN {} ELSE onSignal[t]
        /\ \A b \in Actors : hand'[b] = IF b = a THEN onSignal[s] ELSE hand[b]
        /\ hand[a] = {}
    BY <1>2 DEF ApplySignal, TypeOK
  <2>2. ASSUME NEW c \in DOMAIN co
        PROVE  /\ InEvent(c)' <=> InEvent(c)
               /\ InSignal(c)' => InSignal(c) /\ c \notin onSignal[s]
               /\ InHand(c)' => InHand(c) \/ c \in onSignal[s]
    BY <2>1 DEF InEvent, InSignal, InHand, CustodyInv, OnePlace
  <2>3. ASSUME NEW c \in DOMAIN co PROVE OnePlace(c)'
    <3>1. OnePlace(c) /\ (c \in onSignal[s] => InSignal(c))
      BY DEF CustodyInv, InSignal
    <3>2. \A b, d \in Actors : c \in hand'[b] /\ c \in hand'[d] => b = d
      BY <2>1, <3>1 DEF OnePlace, InHand
    <3> QED
      BY <2>1, <2>2, <3>1, <3>2 DEF OnePlace
  <2>4. \A c \in gone : Nowhere(c)'
    <3>1. \A c \in gone : c \notin onSignal[s]
      BY DEF CustodyInv, Nowhere, InSignal
    <3> QED
      BY <2>1, <2>2, <3>1 DEF CustodyInv, Nowhere
  <2> QED
    BY <2>1, <2>3, <2>4 DEF CustodyInv, OwnPark
<1>3. ASSUME NEW c \in hand[a], ApplyResume(a, c) PROVE CustodyInv'
  <2>1. PICK o \in Outcomes : Park(c, co[c].player, o.wait)
    BY <1>3 DEF ApplyResume
  <2> QED
    BY <1>3, <2>1, ResumeCustody DEF ApplyResume
<1>4. CASE ApplyEnd(a)
  BY <1>4, FewerHeld DEF ApplyEnd, schedVars
<1> QED
  BY <1>1, <1>2, <1>3, <1>4 DEF Apply

\* Custody after a step of the packet task.
LEMMA PacketCustody ==
  ASSUME TypeOK, TypeOK', CustodyInv, Packet
  PROVE  CustodyInv'
<1>0. "packet" \in Actors
  BY DEF Actors
<1>1. CASE UNCHANGED <<co, gone, hand>> /\ UNCHANGED schedVars
  BY <1>1, FewerHeld DEF schedVars
<1>2. CASE Discard
  BY <1>2, FewerHeld DEF Discard, NotParked, TypeOK
<1>3. CASE Take
  <2>1. actingFor \in Players
    BY <1>3 DEF Take, TypeOK
  <2>2. PICK p \in Players : p = actingFor
    BY <2>1
  <2>3. PICK x : x = onEvent[p].co
    OBVIOUS
  <2>4. /\ UNCHANGED <<co, gone, onTime, onSignal>>
        /\ \A q \in Players : onEvent'[q].co = IF q = p THEN None ELSE onEvent[q].co
        /\ \A b \in Actors : hand'[b] = IF b = "packet" THEN {x} \ {None} ELSE hand[b]
    BY <1>3, <2>2, <2>3 DEF Take, Taken, NotParked, TypeOK
  <2>5. \A c \in DOMAIN co : InEvent(c)' => InEvent(c) /\ c # x
    BY <2>2, <2>3, <2>4, NoneIsNoCoroutine DEF InEvent, CustodyInv, OwnPark
  <2>6. \A c \in DOMAIN co : /\ InSignal(c)' <=> InSignal(c)
                             /\ c = x => InEvent(c)
                             /\ InHand(c)' => InHand(c) \/ c = x
    BY <2>3, <2>4 DEF InSignal, InHand, InEvent
  <2>7. ASSUME NEW c \in DOMAIN co PROVE OnePlace(c)'
    <3>1. OnePlace(c)
      BY DEF CustodyInv
    <3>2. \A b, d \in Actors : c \in hand'[b] /\ c \in hand'[d] => b = d
      BY <2>4, <2>6, <3>1 DEF OnePlace, InHand
    <3> QED
      BY <2>4, <2>5, <2>6, <3>1, <3>2 DEF OnePlace
  <2>8. \A c \in gone : Nowhere(c)'
    BY <2>4, <2>5, <2>6 DEF CustodyInv, Nowhere
  <2> QED
    BY <2>4, <2>7, <2>8 DEF CustodyInv, OwnPark
<1>4. CASE Slice
  <2>1. PICK c \in hand["packet"], o \in Outcomes :
          /\ Park(c, co[c].player, o.wait)
          /\ hand' = [hand EXCEPT !["packet"] = @ \ {c}]
    BY <1>4 DEF Slice
  <2> QED
    BY <1>0, <1>4, <2>1, ResumeCustody DEF Slice
<1>5. CASE FreshHook \/ DirectorHook
  <2>1. PICK p \in Players : p = actingFor
    BY <1>5 DEF FreshHook, DirectorHook, TypeOK
  <2>2. PICK h \in Owners \cup {None} : h = evOwner
    BY DEF TypeOK
  <2>3. PICK drops : RunHook(p, h, drops)
    BY <1>5, <2>1, <2>2 DEF FreshHook, DirectorHook, RunHook
  <2> QED
    BY <1>5, <2>3, HookCustody DEF FreshHook, DirectorHook
<1>6. ASSUME NEW p \in Players, OutsideHook(p) PROVE CustodyInv'
  BY <1>6, HookCustody DEF OutsideHook
<1>7. ASSUME NEW p \in Players, SessionEnd(p) PROVE CustodyInv'
  BY <1>7, PurgeCustody DEF SessionEnd
<1>8. CASE Apply("packet")
  BY <1>0, <1>8, ApplyCustody
<1>9. ASSUME NEW p \in Players,
             (\E o \in Owners : EventStart(p, o)) \/ EventUpdate(p) \/ SessionBegin(p)
      PROVE  CustodyInv'
  BY <1>1, <1>9 DEF EventStart, EventUpdate, SessionBegin, taskVars
<1>10. CASE GateRead \/ Claim \/ Scope \/ FreshEnd \/ Close \/ Echo \/ Forget
  BY <1>1, <1>10 DEF GateRead, Claim, Scope, FreshEnd, Close, Echo, Forget
<1> QED
  BY <1>2, <1>3, <1>4, <1>5, <1>6, <1>7, <1>8, <1>9, <1>10 DEF Packet

\* Custody after a step of the ticker, or when it takes a signal or a time-out.
LEMMA TickerCustody ==
  ASSUME TypeOK, TypeOK', CustodyInv,
         \/ Ticker
         \/ \E p \in Players, s \in Signals : TickSignal(p, s)
         \/ \E c \in onTime : Expire(c)
  PROVE  CustodyInv'
<1>0. "ticker" \in Actors
  BY DEF Actors
<1>1. CASE UNCHANGED <<co, gone, hand, onTime, onSignal, onEvent>>
  BY <1>1, FewerHeld
<1>2. CASE TickDrain
  <2>1. /\ UNCHANGED <<co, gone, onSignal, onEvent>>
        /\ onTime' = onTime \ due /\ due \subseteq onTime
        /\ \A b \in Actors : hand'[b] = IF b = "ticker" THEN due ELSE hand[b]
    BY <1>2 DEF TickDrain, DueNow, TypeOK
  <2>2. \A c \in DOMAIN co : /\ InSignal(c)' <=> InSignal(c)
                             /\ InEvent(c)' <=> InEvent(c)
                             /\ InHand(c)' => InHand(c) \/ c \in due
    BY <2>1 DEF InSignal, InEvent, InHand
  <2>3. ASSUME NEW c \in DOMAIN co PROVE OnePlace(c)'
    <3>1. OnePlace(c)
      BY DEF CustodyInv
    <3>2. \A b, d \in Actors : c \in hand'[b] /\ c \in hand'[d] => b = d
      BY <2>1, <3>1 DEF OnePlace, InHand
    <3>3. c \in onTime' => ~InHand(c)'
      BY <2>1, <2>2, <3>1 DEF OnePlace
    <3> QED
      BY <2>1, <2>2, <3>1, <3>2, <3>3 DEF OnePlace
  <2>4. \A c \in gone : Nowhere(c)'
    BY <2>1, <2>2 DEF CustodyInv, Nowhere
  <2> QED
    BY <2>1, <2>3, <2>4 DEF CustodyInv, OwnPark
<1>3. ASSUME NEW c \in hand["ticker"], TickResume(c) PROVE CustodyInv'
  <2>1. PICK o \in Outcomes : Park(c, co[c].player, o.wait)
    BY <1>3 DEF TickResume
  <2> QED
    BY <1>0, <1>3, <2>1, ResumeCustody DEF TickResume
<1>4. ASSUME NEW b, TickEnd \/ TickApply(b) PROVE CustodyInv'
  BY <1>1, <1>4 DEF TickEnd, TickApply, schedVars
<1>5. ASSUME NEW p, NEW s, TickSignal(p, s) PROVE CustodyInv'
  BY <1>1, <1>5 DEF TickSignal, schedVars
<1>6. ASSUME NEW c, Expire(c) PROVE CustodyInv'
  BY <1>1, <1>6 DEF Expire, taskVars
<1>7. CASE Apply("ticker")
  BY <1>0, <1>7, ApplyCustody
<1> QED
  BY <1>2, <1>3, <1>4, <1>5, <1>6, <1>7 DEF Ticker

\* Every step keeps custody.
LEMMA CustodyStep == TypeOK /\ TypeOK' /\ CustodyInv /\ [Next]_vars => CustodyInv'
<1>1. ASSUME TypeOK, CustodyInv, UNCHANGED vars PROVE CustodyInv'
  BY <1>1, FewerHeld DEF vars, schedVars, taskVars
<1> QED
  BY <1>1, PacketCustody, TickerCustody DEF Next

\* Custody at the start.
LEMMA CustodyInit == Init => CustodyInv
  BY DEF Init, CustodyInv, OwnPark, NotParked

(* Holds, place by place. *)
LEMMA HoldsWhere ==
  ASSUME NEW c
  PROVE  /\ Holds("time", c) <=> c \in onTime
         /\ Holds("event", c) <=> InEvent(c)
         /\ \A s \in Signals : Holds(s, c) <=> c \in onSignal[s]
         /\ \A a \in Actors : Holds(a, c) <=> c \in hand[a]
  BY SignalsAssumption DEF Holds, InEvent, Actors

\* Pairwise custody is custody by number.
LEMMA CustodyIsSingle == TypeOK /\ CustodyInv => SingleCustody
<1> SUFFICES ASSUME TypeOK, CustodyInv, NEW c \in DOMAIN co
             PROVE  Cardinality({place \in Places : Holds(place, c)}) <= 1
  BY DEF SingleCustody, CustodyInv, OwnPark
<1> DEFINE S == {place \in Places : Holds(place, c)}
<1>1. ASSUME NEW x \in S, NEW y \in S PROVE x = y
  <2>1. OnePlace(c)
    BY DEF CustodyInv
  <2> QED
    BY <2>1, HoldsWhere DEF Places, OnePlace, InSignal, InHand
<1>2. S = {} \/ \E x : S = {x}
  BY <1>1
<1> HIDE DEF S
<1>3. Cardinality(S) <= 1
  <2>1. CASE S = {}
    BY <2>1, FS_EmptySet
  <2>2. ASSUME NEW x, S = {x} PROVE Cardinality(S) <= 1
    <3>1. Cardinality({x}) = 1
      BY FS_Singleton
    <3> QED
      BY <2>2, <3>1
  <2> QED
    BY <1>2, <2>1, <2>2
<1> QED
  BY <1>3 DEF S

\* What was purged is nowhere.
LEMMA CustodyIsFinal == CustodyInv => PurgedNeverResumes
  BY HoldsWhere DEF CustodyInv, Nowhere, PurgedNeverResumes, Places, InSignal, InHand

(* A coroutine is in one table of the scheduler or in one task's hands,     *)
(* never in two, however the packet task and the ticker interleave: nothing *)
(* is resumed twice from one wait.  And a park under a player's key is a    *)
(* coroutine of that player.                                                *)
THEOREM SingleCustodyHolds == Spec => []SingleCustody
<1>1. Init => TypeOK /\ CustodyInv
  BY InitTypes, CustodyInit
<1>2. TypeOK /\ CustodyInv /\ [Next]_vars => TypeOK' /\ CustodyInv'
  BY NextTypes, CustodyStep
<1>3. TypeOK /\ CustodyInv => SingleCustody
  BY CustodyIsSingle
<1> QED
  BY <1>1, <1>2, <1>3, PTL DEF Spec

(* What purge_owner dropped at a session end or a content teardown is never *)
(* run again: it was in a table and so, by its single custody, in no task's *)
(* hands, and nothing can park it a second time.                            *)
THEOREM PurgedNeverResumesHolds == Spec => []PurgedNeverResumes
<1>1. Init => TypeOK /\ CustodyInv
  BY InitTypes, CustodyInit
<1>2. TypeOK /\ CustodyInv /\ [Next]_vars => TypeOK' /\ CustodyInv'
  BY NextTypes, CustodyStep
<1>3. CustodyInv => PurgedNeverResumes
  BY CustodyIsFinal
<1> QED
  BY <1>1, <1>2, <1>3, PTL DEF Spec
=============================================================================
