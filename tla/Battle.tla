------------------------------- MODULE Battle -------------------------------
(***************************************************************************)
(* A fight in one zone of the map server: who is engaged with whom, who    *)
(* hates whom, who dies, who is paid for it and when the scripted battle   *)
(* is over (battle/*.rs, runtime/dispatcher.rs, runtime/ticker.rs,         *)
(* processor.rs, command_processor.rs).                                    *)
(*                                                                         *)
(* The ticker gives every actor its turn: it looks at the actor, lets its  *)
(* controller and its states decide, and then carries out what they asked  *)
(* for.  The packet task carries out the orders of the player and of       *)
(* scripts.  Each step of a turn or an order takes the lock of one actor,  *)
(* and the steps of the two tasks interleave, so a turn or an order is a   *)
(* program of steps here.                                                  *)
(*                                                                         *)
(* Hit points are "up" or not, enmity is who is hated and not how much,    *)
(* and time and distance are choices: a cast is finished, a swing is due,  *)
(* a target is in range, or not yet.                                       *)
(***************************************************************************)
EXTENDS Integers, Sequences, FiniteSets

CONSTANTS
    Players, Allies, Mobs,
    Aggressive, \* mobs that attack who they detect
    Casters,    \* actors with a controller and a spell
    Renters,    \* players who may ride a rented mount at first
    Ailing,     \* actors that status effects may drain
    Mending,    \* actors that effects or rest may heal
    Respawns,   \* allies and mobs whose respawn is not disabled
    Raise,      \* an actor may carry the Raise modifier
    Ticker, Packet,
    MaxOrders   \* bound: orders to the packet task

Npcs == Allies \cup Mobs \* the actors with a controller that decides
Actors == Players \cup Npcs
Tasks == {Ticker, Packet}
None == "none"

ASSUME BattleAssumption ==
    /\ Players \cap Npcs = {} /\ Allies \cap Mobs = {} /\ Ticker # Packet /\ None \notin Actors
    /\ Aggressive \subseteq Mobs /\ Casters \cup Respawns \subseteq Npcs /\ Renters \subseteq Players
    /\ Ailing \cup Mending \subseteq Actors /\ Raise \in BOOLEAN

ASSUME MobsAssumption == Mobs # {} \* there is no battle without one

VARIABLES
    here,       \* the actors in the registry
    up,         \* hit points above zero
    main,       \* current_main_state
    stack,      \* AIContainer.states, the current one last
    hate,       \* HateContainer of those with a controller: the actors hated
    rented,     \* rental_expire_time is set
    stamped,    \* time_of_death_utc is set
    program,    \* what each task has still to do
    orders,     \* history: orders so far
    paid,       \* history: rewards for the last death of a mob
    fired,      \* history: battleComplete signals since a mob of the battle last lived
    slipped,    \* history: actors whose hit points or state changed behind the back of death and revival
    crossed,    \* history: actors that turned to someone else in the middle of a cast
    unflushed,  \* history: players a script sheathed in the middle of a fight
    raced       \* history: a death or a revival cut into the other task's program

chara == <<up, main, stack, hate, rented, stamped>>
history == <<orders, paid, fired, slipped, crossed, unflushed, raced>>
vars == <<here, chara, program, history>>

-----------------------------------------------------------------------------
(* Programs *)

Step(t) == Head(program[t])
At(t, what) == program[t] # <<>> /\ Head(program[t]).do = what
Then(t, steps) == program' = [program EXCEPT ![t] = steps \o Tail(@)]
Done(t) == Then(t, <<>>)
Later(t, steps) == program' = [program EXCEPT ![t] = Tail(@) \o steps]
Other(t) == CHOOSE u \in Tasks : u # t
Found(t, what) == At(t, what) /\ Step(t).who \in here \* registry.get
Quiet == \A t \in Tasks : program[t] = <<>>

Do(what, a) == [do |-> what, who |-> a]
With(what, a, x) == [do |-> what, who |-> a, arg |-> x]

\* Mutant: the battle is judged before the death is marked.
DyingUncounted(a) == <<Do("complete", a), Do("mark", a), Do("clear", a), With("trio", a, "dead")>>

\* The steps of apply_die, in the order of the code.
Dying(a) == <<Do("mark", a), Do("clear", a), With("trio", a, "dead"), Do("complete", a)>>

\* A death or a revival while the other task is in the middle of something.
Cut(t) == raced \/ program[Other(t)] # <<>>

-----------------------------------------------------------------------------
(* The states of an actor *)

Attack(x) == [kind |-> "attack", target |-> x, heal |-> FALSE]
Cast(x, heal) == [kind |-> "cast", target |-> x, heal |-> heal]

Top(s) == s[Len(s)]
Pop(s) == SubSeq(s, 1, Len(s) - 1)
CurrentTarget(s) == IF s = <<>> THEN None ELSE Top(s).target
IsEngaged(s) == \E i \in DOMAIN s : s[i].kind = "attack"

\* An attack may be covered by a cast; a cast covers everything else.
CanChangeState(s) == s # <<>> => Top(s).kind = "attack"

InternalEngage(s, x) == IF IsEngaged(s) THEN s ELSE Append(s, Attack(x))
InternalCast(s, x, heal) == IF CanChangeState(s) THEN Append(s, Cast(x, heal)) ELSE s

\* Only the attack states get the new target.
ChangeTarget(s, x) == [i \in DOMAIN s |-> IF s[i].kind = "attack" THEN [s[i] EXCEPT !.target = x] ELSE s[i]]

Act(a, c) == [do |-> "act", who |-> a, arg |-> c.target, heal |-> c.heal]

\* AIContainer::update after the decision: a finished cast is resolved and
\* uncovers the attack below it, which may swing in the same turn.
Swing(a, s) ==
    IF s # <<>> /\ Top(s).kind = "attack"
    THEN {<<>>, <<With("auto", a, Top(s).target)>>}
    ELSE {<<>>}
Ticked(a, s) ==
    {[stack |-> s, asks |-> e] : e \in Swing(a, s)}
    \cup (IF s # <<>> /\ Top(s).kind = "cast"
          THEN {[stack |-> Pop(s), asks |-> <<Act(a, Top(s))>> \o e] : e \in Swing(a, Pop(s))}
          ELSE {})

-----------------------------------------------------------------------------
(* What the controller of an actor decides on the view taken of it *)

View(a, hated) == [up |-> up[a], engaged |-> IsEngaged(stack[a]), target |-> CurrentTarget(stack[a]), hated |-> hated]

\* Any actor hated may be the one hated most.
MostHated(a) == IF a \in Players \/ hate[a] = {} THEN {None} ELSE hate[a]

\* StoredActor.is_alive, set when an actor is put on the zone's list and never after.
SeenAlive(x) == x \in here

Aggroed(a) == IF a \in Aggressive THEN {x \in Players : SeenAlive(x)} ELSE {}

\* Asking for the other state is two locks: the hate, then the main state.
EngageAsks(a, x) == <<With("hate", a, x), With("trio", a, "active")>>
DisengageAsks(a) == <<With("trio", a, "passive"), Do("forget", a)>>

Engage(a, x, s) == [stack |-> InternalEngage(s, x), asks |-> EngageAsks(a, x)]

\* A controller that gives up asks to be disengaged and leaves its states alone.
Disengage(a, s) == [stack |-> s, asks |-> DisengageAsks(a)]

DoCombatTick(a, v, s) ==
    IF v.hated = None THEN {Disengage(a, s)}
    ELSE IF v.hated # v.target THEN {[stack |-> ChangeTarget(s, v.hated), asks |-> <<>>]}
    ELSE {[stack |-> s, asks |-> <<>>]}
         \cup (IF a \in Casters THEN {[stack |-> InternalCast(s, v.target, FALSE), asks |-> <<>>]} ELSE {})

Decisions(a, v, s) ==
    IF a \in Players \/ ~v.up THEN {[stack |-> s, asks |-> <<>>]}
    ELSE IF v.engaged THEN DoCombatTick(a, v, s)
    ELSE IF v.hated # None THEN {Engage(a, v.hated, s)}
    ELSE {Engage(a, x, s) : x \in Aggroed(a)} \cup {[stack |-> s, asks |-> <<>>]}

-----------------------------------------------------------------------------
(* The turn of an actor *)

Init ==
    /\ here = Actors
    /\ up = [a \in Actors |-> TRUE]
    /\ rented \in SUBSET Renters
    /\ main \in {f \in [Actors -> {"passive", "active", "mounted"}] :
                    \A a \in Actors : /\ a \in rented <=> f[a] = "mounted"
                                      /\ a \in Npcs => f[a] = "passive"}
    /\ stack = [a \in Actors |-> <<>>]
    /\ hate = [a \in Npcs |-> {}]
    /\ stamped = {}
    /\ program = [t \in Tasks |-> <<>>]
    /\ orders = 0
    /\ paid = [a \in Mobs |-> 0]
    /\ fired = 0
    /\ slipped = {}
    /\ crossed = {}
    /\ unflushed = {}
    /\ raced = FALSE

\* tick_zone: the actor's own view, with what its status effects do to its hit points.
TakeTurn(a) ==
    /\ program[Ticker] = <<>> /\ a \in here
    /\ \E hated \in MostHated(a), drains, heals \in BOOLEAN :
           /\ (drains => a \in Ailing) /\ (heals => a \in Mending)
           /\ program' = [program EXCEPT ![Ticker] =
                  <<Do("look", a), With("update", a, View(a, hated)), Do("rental", a), Do("corpse", a)>>
                  \o (IF drains THEN <<With("hp", a, "drain")>> ELSE <<>>)
                  \o (IF heals THEN <<With("hp", a, "regen")>> ELSE <<>>)]
    /\ UNCHANGED <<here, chara, history>>

\* Corpses do not think: the update is skipped.
Look ==
    /\ At(Ticker, "look")
    /\ IF main[Step(Ticker).who] = "dead"
       THEN program' = [program EXCEPT ![Ticker] = SubSeq(@, 3, Len(@))]
       ELSE Done(Ticker)
    /\ UNCHANGED <<here, chara, history>>

Update ==
    /\ At(Ticker, "update")
    /\ LET a == Step(Ticker).who
       IN \E d \in Decisions(a, Step(Ticker).arg, stack[a]) : \E r \in Ticked(a, d.stack) :
              /\ stack' = [stack EXCEPT ![a] = r.stack]
              /\ crossed' = IF \E i, j \in DOMAIN d.stack : d.stack[i].target # d.stack[j].target THEN crossed \cup {a} ELSE crossed
              /\ Later(Ticker, d.asks \o r.asks)
    /\ UNCHANGED <<here, up, main, hate, rented, stamped, orders, paid, fired, slipped, unflushed, raced>>

\* An expired rental stands the rider on its feet, whatever it was doing.
Rental ==
    /\ At(Ticker, "rental")
    /\ LET a == Step(Ticker).who
       IN \/ /\ a \in rented
             /\ rented' = rented \ {a}
             /\ main' = [main EXCEPT ![a] = "passive"]
             /\ slipped' = IF main[a] = "dead" \/ stack[a] # <<>> \/ program[Packet] # <<>> THEN slipped \cup {a} ELSE slipped
          \/ UNCHANGED <<rented, main, slipped>>
    /\ Done(Ticker)
    /\ UNCHANGED <<here, up, stack, hate, stamped, orders, paid, fired, crossed, unflushed, raced>>

\* What becomes of a corpse: raised, respawned, removed, or left for now.
CorpseActions(a) ==
    {None}
    \cup (IF main[a] = "dead" /\ Raise THEN {"revive"} ELSE {})
    \cup (IF main[a] = "dead" /\ a \in Respawns /\ a \in stamped THEN {"revive"} ELSE {})
    \cup (IF main[a] = "dead" /\ a \in Npcs \ Respawns /\ a \in stamped THEN {"despawn"} ELSE {})

Corpse ==
    /\ At(Ticker, "corpse")
    /\ LET a == Step(Ticker).who
       IN \E c \in CorpseActions(a) : Then(Ticker, IF c = None THEN <<>> ELSE <<Do(c, a)>>)
    /\ UNCHANGED <<here, chara, history>>

Despawn ==
    /\ At(Ticker, "despawn")
    /\ here' = here \ {Step(Ticker).who}
    /\ Done(Ticker)
    /\ UNCHANGED <<chara, history>>

\* apply_hp_delta: nobody dies of it, and nobody is revived by it.
HpTick ==
    /\ Found(Ticker, "hp")
    /\ LET a == Step(Ticker).who
       IN \E u \in IF Step(Ticker).arg = "regen" THEN {TRUE} ELSE {up[a], FALSE} :
              /\ up' = [up EXCEPT ![a] = u]
              /\ slipped' = IF u # up[a] THEN slipped \cup {a} ELSE slipped
    /\ Done(Ticker)
    /\ UNCHANGED <<here, main, stack, hate, rented, stamped, orders, paid, fired, crossed, unflushed, raced>>

-----------------------------------------------------------------------------
(* What turns and orders ask for, a lock at a time *)

\* An actor that has left the registry is not found.
NotFound(t) ==
    /\ program[t] # <<>> /\ Step(t).who \notin here /\ Step(t).do \notin {"clear", "complete", "award"}
    /\ program' = [program EXCEPT ![t] = IF Step(t).do = "mark" THEN SubSeq(@, 5, Len(@)) ELSE Tail(@)]
    /\ UNCHANGED <<here, chara, history>>

UpdateHate(t) ==
    /\ Found(t, "hate")
    /\ hate' = [hate EXCEPT ![Step(t).who] = @ \cup {Step(t).arg}]
    /\ Done(t)
    /\ UNCHANGED <<here, up, main, stack, rented, stamped, history>>

ClearHate(t) ==
    /\ Found(t, "forget")
    /\ hate' = [a \in Npcs |-> IF a = Step(t).who THEN {} ELSE hate[a]]
    /\ Done(t)
    /\ UNCHANGED <<here, up, main, stack, rented, stamped, history>>

\* emit_change_state_trio: a corpse stays a corpse.
Trio(t) ==
    /\ Found(t, "trio")
    /\ LET a == Step(t).who
       IN main' = IF main[a] = "dead" THEN main ELSE [main EXCEPT ![a] = Step(t).arg]
    /\ Done(t)
    /\ UNCHANGED <<here, up, stack, hate, rented, stamped, history>>

\* apply_change_state, for a script that sheathes: the stance alone.
ChangeState(t) ==
    /\ Found(t, "stance")
    /\ LET a == Step(t).who
           fighting == stack[a] # <<>> \/ (At(Packet, "push") /\ Step(Packet).who = a)
       IN /\ main' = IF main[a] = "dead" THEN main ELSE [main EXCEPT ![a] = "passive"]
          /\ unflushed' = IF fighting THEN unflushed \cup {a} ELSE unflushed
    /\ Done(t)
    /\ UNCHANGED <<here, up, stack, hate, rented, stamped, orders, paid, fired, slipped, crossed, raced>>

\* A miss, a wound or a fatal blow; a blow that lands is resented.
Struck(x, a) ==
    \/ UNCHANGED <<up, hate>>
    \/ /\ \E u \in BOOLEAN : up' = [up EXCEPT ![x] = u]
       /\ hate' = IF x \in Npcs THEN [hate EXCEPT ![x] = @ \cup {a}] ELSE hate

ResolveAutoAttack ==
    /\ Found(Ticker, "auto")
    /\ LET a == Step(Ticker).who  x == Step(Ticker).arg
       IN IF a # x /\ x \in here /\ up[a] /\ up[x]
          THEN Struck(x, a) /\ Then(Ticker, <<With("fell", x, a)>>)
          ELSE UNCHANGED <<up, hate>> /\ Done(Ticker)
    /\ UNCHANGED <<here, main, stack, rented, stamped, history>>

\* A heal does not ask whether its target still lives.
Healed(x) ==
    /\ \E u \in {up[x], TRUE} : up' = [up EXCEPT ![x] = u]
    /\ slipped' = IF main[x] = "dead" THEN slipped \cup {x} ELSE slipped
    /\ UNCHANGED hate

ResolveAction ==
    /\ Found(Ticker, "act")
    /\ LET a == Step(Ticker).who  x == Step(Ticker).arg  heal == Step(Ticker).heal
       IN IF x \in here /\ up[a] /\ (up[x] \/ heal)
          THEN /\ IF heal THEN Healed(x) ELSE Struck(x, a) /\ UNCHANGED slipped
               /\ Then(Ticker, <<With("fell", x, a)>>)
          ELSE UNCHANGED <<up, hate, slipped>> /\ Done(Ticker)
    /\ UNCHANGED <<here, main, stack, rented, stamped, orders, paid, fired, crossed, unflushed, raced>>

\* Mutants: a corpse that was healed dies again; whoever has no weapon drawn survives.
FellAgain(x) == ~up[x]
FellDrawn(x) == ~up[x] /\ main[x] = "active"

\* die_if_defender_fell: down, and not marked yet.
Fell(x) == ~up[x] /\ main[x] # "dead"

DieIfDefenderFell ==
    /\ Found(Ticker, "fell")
    /\ LET x == Step(Ticker).who
       IN Then(Ticker, IF Fell(x) THEN Dying(x) \o <<With("award", x, Step(Ticker).arg)>> ELSE <<>>)
    /\ UNCHANGED <<here, chara, history>>

\* apply_die, under the lock of the dying: a corpse cannot die again.
Mark(t) ==
    /\ Found(t, "mark")
    /\ LET a == Step(t).who
       IN IF main[a] = "dead"
          THEN /\ program' = [program EXCEPT ![t] = SubSeq(@, 5, Len(@))]
               /\ UNCHANGED <<chara, paid, slipped, crossed, unflushed, raced>>
          ELSE /\ up' = [up EXCEPT ![a] = FALSE]
               /\ main' = [main EXCEPT ![a] = "dead"]
               /\ stamped' = stamped \cup {a}
               /\ stack' = [stack EXCEPT ![a] = <<>>]
               /\ hate' = [b \in Npcs |-> IF b = a THEN {} ELSE hate[b]]
               /\ paid' = [m \in Mobs |-> IF m = a THEN 0 ELSE paid[m]]
               /\ slipped' = slipped \ {a}
               /\ crossed' = crossed \ {a}
               /\ unflushed' = unflushed \ {a}
               /\ raced' = Cut(t)
               /\ Done(t)
               /\ UNCHANGED rented
    /\ UNCHANGED <<here, orders, fired>>

\* Mutant: only those aimed at the dead forget it.
ForgottenByTheAimed(a) == [b \in Npcs |-> IF CurrentTarget(stack[b]) = a THEN hate[b] \ {a} ELSE hate[b]]

\* The others forget the dead; those whose current state is aimed at it drop all their states.
Forgotten(a) == [b \in Npcs |-> hate[b] \ {a}]
Released(a) == [b \in Actors |-> IF b # a /\ CurrentTarget(stack[b]) = a THEN <<>> ELSE stack[b]]

Clear(t) ==
    /\ At(t, "clear")
    /\ hate' = Forgotten(Step(t).who)
    /\ stack' = Released(Step(t).who)
    /\ raced' = Cut(t)
    /\ Done(t)
    /\ UNCHANGED <<here, up, main, rented, stamped, orders, paid, fired, slipped, crossed, unflushed>>

AllDead == \A m \in Mobs \cap here : main[m] = "dead"

\* check_content_battle_complete: the last mob of the battle has died.
Complete(t) ==
    /\ At(t, "complete")
    /\ fired' = IF Step(t).who \in Mobs /\ AllDead THEN fired + 1 ELSE fired
    /\ Done(t)
    /\ UNCHANGED <<here, chara, orders, paid, slipped, crossed, unflushed, raced>>

\* Seals, experience and the quest hook, for a player who felled a mob.
Award ==
    /\ At(Ticker, "award")
    /\ LET x == Step(Ticker).who
       IN paid' = IF x \in Mobs /\ Step(Ticker).arg \in Players THEN [paid EXCEPT ![x] = @ + 1] ELSE paid
    /\ Done(Ticker)
    /\ UNCHANGED <<here, chara, orders, fired, slipped, crossed, unflushed, raced>>

\* apply_revive
Revive(t) ==
    /\ Found(t, "revive")
    /\ LET a == Step(t).who
       IN IF main[a] # "dead"
          THEN UNCHANGED <<chara, paid, fired, slipped, raced>>
          ELSE /\ up' = [up EXCEPT ![a] = TRUE]
               /\ main' = [main EXCEPT ![a] = "passive"]
               /\ stamped' = stamped \ {a}
               /\ paid' = [m \in Mobs |-> IF m = a THEN 0 ELSE paid[m]]
               /\ fired' = IF a \in Mobs THEN 0 ELSE fired
               /\ slipped' = slipped \ {a}
               /\ raced' = Cut(t)
               /\ UNCHANGED <<stack, hate, rented>>
    /\ Done(t)
    /\ UNCHANGED <<here, orders, crossed, unflushed>>

-----------------------------------------------------------------------------
(* Orders *)

MayOrder(t) == program[t] = <<>> /\ orders < MaxOrders
Order(t, steps) == program' = [program EXCEPT ![t] = steps] /\ orders' = orders + 1

\* apply_player_set_target: a new enemy replaces everything, no enemy ends it.
SetTarget(p, x, auto) ==
    /\ MayOrder(Packet) /\ p \in here
    /\ stack' = [stack EXCEPT ![p] =
           CASE auto /\ x \in Mobs /\ main[p] = "active" -> IF CurrentTarget(@) = x THEN @ ELSE InternalEngage(<<>>, x)
             [] ~auto -> <<>>
             [] OTHER -> @]
    /\ Order(Packet, <<>>)
    /\ UNCHANGED <<here, up, main, hate, rented, stamped, paid, fired, slipped, crossed, unflushed, raced>>

\* dispatch_hotbar_command: the checks, and then the states.
Hotbar(p, x, heal) ==
    /\ MayOrder(Packet) /\ p \in here
    /\ main[p] = "active" /\ x \in here /\ up[x] /\ CanChangeState(stack[p])
    /\ Order(Packet, <<[do |-> "push", who |-> p, arg |-> x, heal |-> heal]>>)
    /\ UNCHANGED <<here, chara, paid, fired, slipped, crossed, unflushed, raced>>

Push ==
    /\ Found(Packet, "push")
    /\ LET e == Step(Packet)
       IN stack' = [stack EXCEPT ![e.who] = InternalCast(InternalEngage(@, e.arg), e.arg, e.heal)]
    /\ Done(Packet)
    /\ UNCHANGED <<here, up, main, hate, rented, stamped, history>>

\* ActivateCommand draws the weapon or sheathes it.
Draw(p) ==
    /\ MayOrder(Packet) /\ p \in here
    /\ Order(Packet, <<With("trio", p, "active")>>)
    /\ UNCHANGED <<here, chara, paid, fired, slipped, crossed, unflushed, raced>>

\* Mutant: sheathing stops at the stance.
SheatheOnly(p) ==
    /\ MayOrder(Packet) /\ p \in here
    /\ Order(Packet, <<With("trio", p, "passive")>>)
    /\ UNCHANGED <<here, chara, paid, fired, slipped, crossed, unflushed, raced>>

\* flush_battle_states_on_sheathe
Sheathe(p) ==
    /\ MayOrder(Packet) /\ p \in here
    /\ stack' = [stack EXCEPT ![p] = <<>>]
    /\ Order(Packet, IF stack[p] # <<>> THEN DisengageAsks(p) ELSE <<With("trio", p, "passive")>>)
    /\ unflushed' = unflushed \ {p}
    /\ UNCHANGED <<here, up, main, hate, rented, stamped, paid, fired, slipped, crossed, raced>>

\* ChangeState(0) of a script, from an event the client answered or from a wait that is
\* over: without the flush, which only a command's first slice gets.  Scripts also change
\* the stance of npcs, which nothing here reads.
ScriptSheathe(t, p) ==
    /\ MayOrder(t) /\ p \in here
    /\ Order(t, <<Do("stance", p)>>)
    /\ UNCHANGED <<here, chara, paid, fired, slipped, crossed, unflushed, raced>>

\* The content script's update, on the ticker: an idle ally joins in against a living mob.
ScriptEngage(a, x) ==
    /\ MayOrder(Ticker) /\ {a, x} \subseteq here
    /\ ~IsEngaged(stack[a]) /\ main[a] # "dead" /\ main[x] # "dead"
    /\ Order(Ticker, <<With("engage", a, x)>>)
    /\ UNCHANGED <<here, chara, paid, fired, slipped, crossed, unflushed, raced>>

\* apply_actor_engage
ActorEngage ==
    /\ Found(Ticker, "engage")
    /\ LET a == Step(Ticker).who  x == Step(Ticker).arg
       IN /\ stack' = [stack EXCEPT ![a] = InternalEngage(@, x)]
          /\ hate' = [hate EXCEPT ![a] = @ \cup {x}]
          /\ Then(Ticker, IF IsEngaged(stack[a]) THEN <<>> ELSE <<With("trio", a, "active")>>)
    /\ UNCHANGED <<here, up, main, rented, stamped, history>>

\* Scripts and the console kill and revive.
ScriptDie(a) ==
    /\ MayOrder(Packet) /\ a \in here
    /\ Order(Packet, Dying(a))
    /\ UNCHANGED <<here, chara, paid, fired, slipped, crossed, unflushed, raced>>

ScriptRevive(a) ==
    /\ MayOrder(Packet) /\ a \in here
    /\ Order(Packet, <<Do("revive", a)>>)
    /\ UNCHANGED <<here, chara, paid, fired, slipped, crossed, unflushed, raced>>

Next ==
    \/ \E a \in Actors : TakeTurn(a)
    \/ Look \/ Update \/ Rental \/ Corpse \/ Despawn \/ HpTick
    \/ ResolveAutoAttack \/ ResolveAction \/ DieIfDefenderFell \/ Award \/ ActorEngage \/ Push
    \/ \E t \in Tasks : NotFound(t) \/ UpdateHate(t) \/ ClearHate(t) \/ Trio(t) \/ ChangeState(t) \/ Mark(t) \/ Clear(t) \/ Complete(t) \/ Revive(t)
    \/ \E p \in Players : \/ \E x \in Mobs \cup {None}, auto \in BOOLEAN : SetTarget(p, x, auto)
                          \/ \E x \in Actors, heal \in BOOLEAN : Hotbar(p, x, heal)
                          \/ Draw(p) \/ Sheathe(p) \/ (\E t \in Tasks : ScriptSheathe(t, p))
    \/ \E a \in Allies, x \in Mobs : ScriptEngage(a, x)
    \/ \E a \in Actors : ScriptDie(a) \/ ScriptRevive(a)

Spec == Init /\ [][Next]_vars

-----------------------------------------------------------------------------
(* Properties *)

\* A mob's death is rewarded at most once (die_if_defender_fell), even when the
\* corpse is healed by a cast that was under way and struck again.
KillPaidOnce == \A m \in Mobs : paid[m] <= 1

\* When the last mob of the battle is dead its content script has been told, and it
\* is told once (check_content_battle_complete), unless two tasks buried mobs at once.
BattleCompletesOnce == Quiet /\ (\A m \in Mobs : main[m] = "dead") => fired >= 1 /\ (fired = 1 \/ raced)

\* Whoever is engaged and decides for itself hates someone: with nobody left to hate it
\* would ask to be disengaged at every turn and keep its states.
Locked(a) == IsEngaged(stack[a]) /\ hate[a] = {}

\* Nobody stays at war with the dead (apply_die): the dead are not hated, and nobody is
\* locked onto one, unless it had turned to someone else in the middle of a cast.
DeadAreForgotten ==
    Quiet /\ ~raced => \A a \in Npcs \cap here : /\ Locked(a) => a \in crossed
                                                 /\ \A x \in hate[a] : main[x] # "dead"

\* Who is out of hit points is dead, and the dead have none: no blow leaves an actor in between.
DeathsAreMarked == Quiet /\ ~raced => \A a \in here \ slipped : up[a] <=> main[a] # "dead"

\* A player in passive mode has no attack and no command under way
\* (flush_battle_states_on_sheathe), whatever was pressed or called off meanwhile.  Exempt: a
\* death or revival that cut into the other task, a rental that ran out in a fight, and a
\* script's ChangeState(0), which skips the flush: a player it finds in a fight "keeps resolving
\* swings forever" (processor.rs:8524), until the next flush.
SheathedIsIdle ==
    Quiet /\ ~raced => \A p \in Players \ (slipped \cup unflushed) : main[p] = "passive" => stack[p] = <<>>
=============================================================================
