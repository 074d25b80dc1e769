--------------------------- MODULE BattleProofs ---------------------------
(***************************************************************************)
(* Proofs about Battle for any players, allies and mobs and any number of  *)
(* orders from packets and scripts.                                        *)
(***************************************************************************)
EXTENDS Battle, TLAPS

-----------------------------------------------------------------------------
(* Types *)

\* The values the model ranges over: the states of an actor, the views the ticker takes of it,
\* and the steps a task has left, by what each kind carries.
States == [kind : {"attack", "cast"}, target : Actors, heal : BOOLEAN]
MainStates == {"passive", "active", "mounted", "dead"}
Views == [up : BOOLEAN, engaged : BOOLEAN, target : Actors \cup {None}, hated : Actors \cup {None}]

BareSteps == [do : {"look", "rental", "corpse", "revive", "despawn", "forget", "stance", "mark", "clear", "complete"}, who : Actors]
UpdateSteps == [do : {"update"}, who : Actors, arg : Views]
HpSteps == [do : {"hp"}, who : Actors, arg : {"drain", "regen"}]
TrioSteps == [do : {"trio"}, who : Actors, arg : MainStates]
AimedSteps == [do : {"auto", "fell", "award"}, who : Actors, arg : Actors]
EngageSteps == [do : {"hate", "engage"}, who : Npcs, arg : Actors]
CastSteps == [do : {"act", "push"}, who : Actors, arg : Actors, heal : BOOLEAN]
Steps == BareSteps \cup UpdateSteps \cup HpSteps \cup TrioSteps \cup AimedSteps \cup EngageSteps \cup CastSteps

\* Every variable has its type: each task works off a sequence of the steps apply_* makes, and
\* rewards and completions are counted by natural numbers.
TypeOK ==
    /\ here \subseteq Actors
    /\ up \in [Actors -> BOOLEAN]
    /\ main \in [Actors -> MainStates]
    /\ stack \in [Actors -> Seq(States)]
    /\ hate \in [Npcs -> SUBSET Actors]
    /\ rented \subseteq Players
    /\ stamped \subseteq Actors
    /\ program \in [Tasks -> Seq(Steps)]
    /\ orders \in Nat
    /\ paid \in [Mobs -> Nat]
    /\ fired \in Nat
    /\ slipped \subseteq Actors
    /\ crossed \subseteq Actors
    /\ unflushed \subseteq Actors
    /\ raced \in BOOLEAN

\* There are two tasks, and each has the other.
LEMMA OtherTask == Other(Ticker) = Packet /\ Other(Packet) = Ticker /\ Tasks = {Ticker, Packet} /\ Ticker # Packet
BY BattleAssumption DEF Other, Tasks

\* The constants' part of the types.
LEMMA Sorts == Npcs \subseteq Actors /\ Players \subseteq Actors /\ Mobs \subseteq Npcs /\ Allies \subseteq Npcs /\ Renters \subseteq Players
BY BattleAssumption DEF Npcs, Actors

\* Every step the handlers build is a step.
LEMMA StepTypes ==
    ASSUME NEW a \in Actors
    PROVE  /\ \A w \in {"look", "rental", "corpse", "revive", "despawn", "forget", "stance", "mark", "clear", "complete"} : Do(w, a) \in Steps
           /\ \A v \in Views : With("update", a, v) \in Steps
           /\ With("hp", a, "drain") \in Steps /\ With("hp", a, "regen") \in Steps
           /\ \A m \in MainStates : With("trio", a, m) \in Steps
           /\ \A x \in Actors : With("auto", a, x) \in Steps /\ With("fell", a, x) \in Steps /\ With("award", a, x) \in Steps
           /\ a \in Npcs => \A x \in Actors : With("hate", a, x) \in Steps /\ With("engage", a, x) \in Steps
           /\ \A x \in Actors, h \in BOOLEAN : /\ [do |-> "act", who |-> a, arg |-> x, heal |-> h] \in Steps
                                               /\ [do |-> "push", who |-> a, arg |-> x, heal |-> h] \in Steps
<1>1. \A w \in {"look", "rental", "corpse", "revive", "despawn", "forget", "stance", "mark", "clear", "complete"} : Do(w, a) \in BareSteps
  BY DEF Do, BareSteps
<1>2. \A v \in Views : With("update", a, v) \in UpdateSteps
  BY DEF With, UpdateSteps
<1>3. With("hp", a, "drain") \in HpSteps /\ With("hp", a, "regen") \in HpSteps
  BY DEF With, HpSteps
<1>4. \A m \in MainStates : With("trio", a, m) \in TrioSteps
  BY DEF With, TrioSteps
<1>5. \A x \in Actors : With("auto", a, x) \in AimedSteps /\ With("fell", a, x) \in AimedSteps /\ With("award", a, x) \in AimedSteps
  BY DEF With, AimedSteps
<1>6. a \in Npcs => \A x \in Actors : With("hate", a, x) \in EngageSteps /\ With("engage", a, x) \in EngageSteps
  BY DEF With, EngageSteps
<1>7. \A x \in Actors, h \in BOOLEAN : /\ [do |-> "act", who |-> a, arg |-> x, heal |-> h] \in CastSteps
                                       /\ [do |-> "push", who |-> a, arg |-> x, heal |-> h] \in CastSteps
  BY DEF CastSteps
<1> QED BY <1>1, <1>2, <1>3, <1>4, <1>5, <1>6, <1>7 DEF Steps

\* What a step of each kind carries.
LEMMA StepShapes ==
    ASSUME NEW s \in Steps
    PROVE  /\ s.who \in Actors
           /\ s.do = "update" => s.arg \in Views
           /\ s.do = "hp" => s.arg \in {"drain", "regen"}
           /\ s.do = "trio" => s.arg \in MainStates
           /\ s.do \in {"auto", "fell", "award"} => s.arg \in Actors
           /\ s.do \in {"hate", "engage"} => s.who \in Npcs /\ s.arg \in Actors
           /\ s.do \in {"act", "push"} => s.arg \in Actors /\ s.heal \in BOOLEAN
BY Sorts DEF Steps, BareSteps, UpdateSteps, HpSteps, TrioSteps, AimedSteps, EngageSteps, CastSteps

\* What is left of a program after its first step, and what a splice before or behind it gives.
LEMMA Splice ==
    ASSUME NEW S, NEW p \in Seq(S), p # <<>>, NEW s \in Seq(S)
    PROVE  /\ Tail(p) \in Seq(S) /\ Head(p) \in S /\ Head(p) = p[1]
           /\ Len(Tail(p)) = Len(p) - 1
           /\ \A i \in DOMAIN Tail(p) : i + 1 \in DOMAIN p /\ Tail(p)[i] = p[i + 1]
           /\ s \o Tail(p) \in Seq(S) /\ Tail(p) \o s \in Seq(S)
<1>1. Tail(p) \in Seq(S) /\ Head(p) \in S /\ Head(p) = p[1] /\ Len(Tail(p)) = Len(p) - 1
  OBVIOUS
<1>2. \A i \in DOMAIN Tail(p) : i + 1 \in DOMAIN p /\ Tail(p)[i] = p[i + 1]
  OBVIOUS
<1> QED BY <1>1, <1>2

\* What is left of a program after its first k - 1 steps.
LEMMA Suffix ==
    ASSUME NEW S, NEW p \in Seq(S), NEW k \in 1..5
    PROVE  /\ SubSeq(p, k, Len(p)) \in Seq(S)
           /\ \A i \in DOMAIN SubSeq(p, k, Len(p)) : i + k - 1 \in DOMAIN p /\ SubSeq(p, k, Len(p))[i] = p[i + k - 1]
           /\ k <= Len(p) + 1 => Len(SubSeq(p, k, Len(p))) = Len(p) + 1 - k
           /\ k > Len(p) => SubSeq(p, k, Len(p)) = <<>>
<1>1. Len(p) \in Nat
  OBVIOUS
<1>2. CASE k <= Len(p)
  BY <1>1, <1>2
<1>3. CASE k > Len(p)
  <2>1. SubSeq(p, k, Len(p)) = <<>>
    BY <1>1, <1>3
  <2> QED BY <1>1, <1>3, <2>1
<1> QED BY <1>1, <1>2, <1>3

\* The steps that bury an actor (apply_die) and the reward that may follow them; a program
\* without any of them is calm.
Grave(s) == s.do \in {"mark", "clear", "complete", "award"} \/ (s.do = "trio" /\ s.arg = "dead")
Calm(p) == \A i \in DOMAIN p : ~Grave(p[i])

CalmSteps == {s \in Steps : ~Grave(s)}

\* All the other steps the handlers build are calm.
LEMMA CalmTypes ==
    ASSUME NEW a \in Actors
    PROVE  /\ \A w \in {"look", "rental", "corpse", "revive", "despawn", "forget", "stance"} : Do(w, a) \in CalmSteps
           /\ \A v \in Views : With("update", a, v) \in CalmSteps
           /\ With("hp", a, "drain") \in CalmSteps /\ With("hp", a, "regen") \in CalmSteps
           /\ \A m \in {"active", "passive"} : With("trio", a, m) \in CalmSteps
           /\ \A x \in Actors : With("auto", a, x) \in CalmSteps /\ With("fell", a, x) \in CalmSteps
           /\ a \in Npcs => \A x \in Actors : With("hate", a, x) \in CalmSteps /\ With("engage", a, x) \in CalmSteps
           /\ \A x \in Actors, h \in BOOLEAN : /\ [do |-> "act", who |-> a, arg |-> x, heal |-> h] \in CalmSteps
                                               /\ [do |-> "push", who |-> a, arg |-> x, heal |-> h] \in CalmSteps
<1>1. /\ \A w \in {"look", "rental", "corpse", "revive", "despawn", "forget", "stance"} : ~Grave(Do(w, a))
      /\ \A v : ~Grave(With("update", a, v)) /\ ~Grave(With("hp", a, v)) /\ ~Grave(With("auto", a, v)) /\ ~Grave(With("fell", a, v))
      /\ \A v : ~Grave(With("hate", a, v)) /\ ~Grave(With("engage", a, v))
      /\ \A m \in {"active", "passive"} : ~Grave(With("trio", a, m))
      /\ \A x, h : ~Grave([do |-> "act", who |-> a, arg |-> x, heal |-> h]) /\ ~Grave([do |-> "push", who |-> a, arg |-> x, heal |-> h])
  BY DEF Grave, Do, With
<1> QED BY <1>1, StepTypes DEF CalmSteps, MainStates

\* A sequence of calm steps is a calm sequence of steps.
LEMMA CalmSeq ==
    ASSUME NEW s
    PROVE  s \in Seq(CalmSteps) <=> s \in Seq(Steps) /\ Calm(s)
<1>1. ASSUME s \in Seq(CalmSteps) PROVE s \in Seq(Steps) /\ Calm(s)
  <2>1. Len(s) \in Nat /\ s \in [1..Len(s) -> CalmSteps]
    BY <1>1
  <2>2. s \in [1..Len(s) -> Steps]
    BY <2>1 DEF CalmSteps
  <2>3. s \in Seq(Steps)
    BY <2>1, <2>2
  <2> QED BY <2>1, <2>3 DEF Calm, CalmSteps
<1>2. ASSUME s \in Seq(Steps), Calm(s) PROVE s \in Seq(CalmSteps)
  <2>1. Len(s) \in Nat /\ s \in [1..Len(s) -> Steps]
    BY <1>2
  <2>2. s \in [1..Len(s) -> CalmSteps]
    BY <1>2, <2>1 DEF CalmSteps, Calm
  <2> QED BY <2>1, <2>2
<1> QED BY <1>1, <1>2

\* The operations of the state stack keep its type.
LEMMA StackTypes ==
    ASSUME NEW s \in Seq(States), NEW x \in Actors, NEW h \in BOOLEAN
    PROVE  /\ Attack(x) \in States /\ Cast(x, h) \in States
           /\ InternalEngage(s, x) \in Seq(States)
           /\ InternalCast(s, x, h) \in Seq(States)
           /\ ChangeTarget(s, x) \in Seq(States)
           /\ s # <<>> => Pop(s) \in Seq(States) /\ Top(s) \in States
           /\ CurrentTarget(s) \in Actors \cup {None}
<1>1. Attack(x) \in States /\ Cast(x, h) \in States
  BY DEF Attack, Cast, States
<1>2. InternalEngage(s, x) \in Seq(States) /\ InternalCast(s, x, h) \in Seq(States)
  BY <1>1 DEF InternalEngage, InternalCast
<1>3. ChangeTarget(s, x) \in Seq(States)
  <2>1. ASSUME NEW i \in DOMAIN s PROVE s[i] \in States /\ [s[i] EXCEPT !.target = x] \in States
    <3>1. s[i] \in States
      OBVIOUS
    <3> QED BY <3>1 DEF States
  <2>2. DOMAIN s = 1..Len(s) /\ Len(s) \in Nat
    OBVIOUS
  <2>3. ChangeTarget(s, x) \in [1..Len(s) -> States]
    BY <2>1, <2>2 DEF ChangeTarget
  <2> QED BY <2>2, <2>3
<1>4. ASSUME s # <<>> PROVE Pop(s) \in Seq(States) /\ Top(s) \in States
  <2>1. Len(s) \in Nat /\ Len(s) >= 1
    BY <1>4
  <2> QED BY <2>1 DEF Pop, Top
<1>5. CurrentTarget(s) \in Actors \cup {None}
  BY <1>4 DEF CurrentTarget, States
<1> QED BY <1>1, <1>2, <1>3, <1>4, <1>5

\* The empty program and the empty stack.
LEMMA NoSteps == <<>> \in Seq(Steps) /\ <<>> \in Seq(CalmSteps) /\ <<>> \in Seq(States)
OBVIOUS

\* What a swing asks for buries nobody.
LEMMA SwingTypes ==
    ASSUME NEW a \in Actors, NEW s \in Seq(States), NEW e \in Swing(a, s)
    PROVE  e \in Seq(CalmSteps)
<1>1. CASE s # <<>> /\ Top(s).kind = "attack"
  <2>1. Top(s).target \in Actors
    <3>1. Top(s) \in States
      BY <1>1 DEF Top
    <3> QED BY <3>1 DEF States
  <2>2. With("auto", a, Top(s).target) \in CalmSteps
    BY <2>1, CalmTypes
  <2>3. <<With("auto", a, Top(s).target)>> \in Seq(CalmSteps)
    BY <2>2
  <2>4. e \in {<<>>, <<With("auto", a, Top(s).target)>>}
    BY <1>1, Zenon DEF Swing
  <2> QED BY <2>3, <2>4, NoSteps
<1>2. CASE ~(s # <<>> /\ Top(s).kind = "attack")
  <2>1. e \in {<<>>}
    BY <1>2, Zenon DEF Swing
  <2> QED BY <2>1, NoSteps
<1> QED BY <1>1, <1>2

\* AIContainer::update keeps the stack's type and asks for calm steps only.
LEMMA TickedTypes ==
    ASSUME NEW a \in Actors, NEW s \in Seq(States), NEW r \in Ticked(a, s)
    PROVE  r.stack \in Seq(States) /\ r.asks \in Seq(CalmSteps)
<1>1. CASE \E e \in Swing(a, s) : r = [stack |-> s, asks |-> e]
  BY <1>1, SwingTypes
<1>2. CASE s # <<>> /\ \E e \in Swing(a, Pop(s)) : r = [stack |-> Pop(s), asks |-> <<Act(a, Top(s))>> \o e]
  <2>1. PICK e \in Swing(a, Pop(s)) : r = [stack |-> Pop(s), asks |-> <<Act(a, Top(s))>> \o e]
    BY <1>2
  <2>2. Len(s) \in Nat /\ Len(s) >= 1
    BY <1>2
  <2>3. Pop(s) \in Seq(States) /\ Top(s) \in States
    BY <2>2 DEF Pop, Top
  <2>4. e \in Seq(CalmSteps)
    BY <2>1, <2>3, SwingTypes
  <2>5. Top(s).target \in Actors /\ Top(s).heal \in BOOLEAN
    BY <2>3 DEF States
  <2>6. Act(a, Top(s)) \in CalmSteps
    BY <2>5, CalmTypes DEF Act
  <2>7. <<Act(a, Top(s))>> \o e \in Seq(CalmSteps)
    BY <2>4, <2>6
  <2> QED BY <2>1, <2>3, <2>7
<1> QED BY <1>1, <1>2 DEF Ticked

\* So does every decision of a controller: no controller orders a death.
LEMMA DecisionTypes ==
    ASSUME NEW a \in Actors, NEW s \in Seq(States), NEW v \in Views, NEW d \in Decisions(a, v, s)
    PROVE  d.stack \in Seq(States) /\ d.asks \in Seq(CalmSteps)
<1>1. ASSUME NEW x \in Actors, a \in Npcs PROVE Engage(a, x, s).stack \in Seq(States) /\ Engage(a, x, s).asks \in Seq(CalmSteps)
  <2>1. InternalEngage(s, x) \in Seq(States)
    BY StackTypes
  <2>2. With("hate", a, x) \in CalmSteps /\ With("trio", a, "active") \in CalmSteps
    BY <1>1, CalmTypes
  <2> QED BY <2>1, <2>2 DEF Engage, EngageAsks
<1>2. Disengage(a, s).stack \in Seq(States) /\ Disengage(a, s).asks \in Seq(CalmSteps)
  <2>1. Do("forget", a) \in CalmSteps /\ With("trio", a, "passive") \in CalmSteps
    BY CalmTypes
  <2> QED BY <2>1 DEF Disengage, DisengageAsks
<1>3. v.hated \in Actors \cup {None} /\ v.target \in Actors \cup {None} /\ None \notin Actors
  BY BattleAssumption DEF Views
<1> DEFINE Idle == [stack |-> s, asks |-> <<>>]
<1>0. Idle.stack \in Seq(States) /\ Idle.asks \in Seq(CalmSteps)
  BY NoSteps
<1>4. CASE a \in Players \/ ~v.up
  <2>1. Decisions(a, v, s) = {Idle}
    BY <1>4 DEF Decisions
  <2> HIDE DEF Idle
  <2> QED BY <1>0, <2>1
<1>5. CASE ~(a \in Players \/ ~v.up) /\ v.engaged
  <2>1. d \in DoCombatTick(a, v, s)
    <3>1. Decisions(a, v, s) = DoCombatTick(a, v, s)
      BY <1>5 DEF Decisions
    <3> QED BY <3>1
  <2>2. CASE v.hated = None
    <3>1. DoCombatTick(a, v, s) = {Disengage(a, s)}
      BY <2>2 DEF DoCombatTick
    <3> QED BY <1>2, <2>1, <3>1
  <2>3. CASE v.hated # None /\ v.hated # v.target
    <3>1. d.stack = ChangeTarget(s, v.hated) /\ d.asks = <<>>
      BY <2>1, <2>3 DEF DoCombatTick
    <3>2. ChangeTarget(s, v.hated) \in Seq(States)
      BY <1>3, <2>3, StackTypes
    <3> QED BY <3>1, <3>2
  <2>4. CASE v.hated # None /\ v.hated = v.target
    <3> DEFINE Casting == [stack |-> InternalCast(s, v.target, FALSE), asks |-> <<>>]
    <3>0. DoCombatTick(a, v, s) = {Idle} \cup (IF a \in Casters THEN {Casting} ELSE {})
      BY <2>4 DEF DoCombatTick
    <3>1. d = Idle \/ d = Casting
      <4> HIDE DEF Idle, Casting
      <4> QED BY <2>1, <3>0
    <3>2. InternalCast(s, v.target, FALSE) \in Seq(States)
      BY <1>3, <2>4, StackTypes
    <3>3. Casting.stack \in Seq(States) /\ Casting.asks \in Seq(CalmSteps)
      BY <3>2, NoSteps
    <3> HIDE DEF Idle, Casting
    <3> QED BY <1>0, <3>1, <3>3
  <2> QED BY <2>2, <2>3, <2>4
<1>6. CASE ~(a \in Players \/ ~v.up) /\ ~v.engaged /\ v.hated # None
  <2>1. d = Engage(a, v.hated, s) /\ a \in Npcs
    BY <1>6 DEF Decisions, Actors
  <2> QED BY <1>1, <1>3, <1>6, <2>1
<1>7. CASE ~(a \in Players \/ ~v.up) /\ ~v.engaged /\ v.hated = None
  <2>1. a \in Npcs /\ (d = Idle \/ \E x \in Aggroed(a) : d = Engage(a, x, s))
    <3>1. Decisions(a, v, s) = {Engage(a, x, s) : x \in Aggroed(a)} \cup {Idle}
      BY <1>7 DEF Decisions
    <3> QED BY <1>7, <3>1 DEF Actors
  <2>2. Aggroed(a) \subseteq Actors
    BY Sorts DEF Aggroed
  <2> HIDE DEF Idle
  <2> QED BY <1>0, <1>1, <2>1, <2>2
<1> QED BY <1>4, <1>5, <1>6, <1>7

\* One task's new program keeps the programs typed.
LEMMA OneProgram ==
    ASSUME TypeOK, NEW t \in Tasks, NEW s, program' = [program EXCEPT ![t] = s], s \in Seq(Steps)
    PROVE  program' \in [Tasks -> Seq(Steps)]
BY DEF TypeOK

\* Every way a step leaves its program keeps the programs typed.
LEMMA PopTypes ==
    ASSUME TypeOK, NEW t \in Tasks, program[t] # <<>>
    PROVE  /\ Step(t) \in Steps /\ Step(t).who \in Actors
           /\ Done(t) => program' \in [Tasks -> Seq(Steps)]
           /\ \A s \in Seq(Steps) : Then(t, s) => program' \in [Tasks -> Seq(Steps)]
           /\ \A s \in Seq(Steps) : Later(t, s) => program' \in [Tasks -> Seq(Steps)]
           /\ \A k \in 1..5 : program' = [program EXCEPT ![t] = SubSeq(@, k, Len(@))] => program' \in [Tasks -> Seq(Steps)]
           /\ program' = [program EXCEPT ![t] = Tail(@)] => program' \in [Tasks -> Seq(Steps)]
<1>1. program \in [Tasks -> Seq(Steps)] /\ program[t] \in Seq(Steps)
  BY DEF TypeOK
<1>2. Step(t) \in Steps /\ Step(t).who \in Actors
  BY <1>1, StepShapes DEF Step
<1>3. \A s \in Seq(Steps) : s \o Tail(program[t]) \in Seq(Steps) /\ Tail(program[t]) \o s \in Seq(Steps)
  BY <1>1, Splice
<1>4. \A k \in 1..5 : SubSeq(program[t], k, Len(program[t])) \in Seq(Steps)
  BY <1>1, Suffix
<1>5. Tail(program[t]) \in Seq(Steps)
  BY <1>1
<1>6. \A s \in Seq(Steps) : Then(t, s) => program' \in [Tasks -> Seq(Steps)]
  BY <1>1, <1>3 DEF Then
<1>7. \A s \in Seq(Steps) : Later(t, s) => program' \in [Tasks -> Seq(Steps)]
  BY <1>1, <1>3 DEF Later
<1>8. Done(t) => program' \in [Tasks -> Seq(Steps)]
  BY <1>6, NoSteps DEF Done
<1> QED BY <1>1, <1>2, <1>4, <1>5, <1>6, <1>7, <1>8

\* apply_die takes four steps.
LEMMA DyingTypes ==
    ASSUME NEW a \in Actors
    PROVE  Dying(a) \in Seq(Steps) /\ Len(Dying(a)) = 4
<1>1. Do("mark", a) \in Steps /\ Do("clear", a) \in Steps /\ With("trio", a, "dead") \in Steps /\ Do("complete", a) \in Steps
  BY StepTypes DEF MainStates
<1> QED BY <1>1 DEF Dying

\* The types hold at first, and every action keeps them.
LEMMA TypeInit == Init => TypeOK
<1> SUFFICES ASSUME Init PROVE TypeOK
  OBVIOUS
<1>1. here \subseteq Actors /\ rented \subseteq Players /\ stamped \subseteq Actors /\ slipped \subseteq Actors /\ crossed \subseteq Actors /\ unflushed \subseteq Actors /\ raced \in BOOLEAN
  BY Sorts DEF Init
<1>2. up \in [Actors -> BOOLEAN] /\ main \in [Actors -> MainStates] /\ hate \in [Npcs -> SUBSET Actors]
  BY DEF Init, MainStates
<1>3. stack \in [Actors -> Seq(States)] /\ program \in [Tasks -> Seq(Steps)]
  BY NoSteps DEF Init
<1>4. orders \in Nat /\ fired \in Nat /\ paid \in [Mobs -> Nat]
  BY DEF Init
<1> QED BY <1>1, <1>2, <1>3, <1>4 DEF TypeOK

\* Types when the ticker takes an actor's turn or one of its scheduled checks.
LEMMA TypeTurn ==
    ASSUME TypeOK, \/ \E a \in Actors : TakeTurn(a)
                   \/ Look \/ Update \/ Rental \/ Corpse \/ Despawn \/ HpTick
    PROVE  TypeOK'
<1>0. Ticker \in Tasks
  BY OtherTask
<1>1. ASSUME NEW a \in Actors, TakeTurn(a) PROVE TypeOK'
  <2>1. PICK hated \in MostHated(a), drains \in BOOLEAN, heals \in BOOLEAN :
           program' = [program EXCEPT ![Ticker] =
                  <<Do("look", a), With("update", a, View(a, hated)), Do("rental", a), Do("corpse", a)>>
                  \o (IF drains THEN <<With("hp", a, "drain")>> ELSE <<>>)
                  \o (IF heals THEN <<With("hp", a, "regen")>> ELSE <<>>)]
    BY <1>1 DEF TakeTurn
  <2>2. hated \in Actors \cup {None}
    BY Sorts DEF MostHated, TypeOK, Actors
  <2>3. CurrentTarget(stack[a]) \in Actors \cup {None} /\ up[a] \in BOOLEAN /\ IsEngaged(stack[a]) \in BOOLEAN
    <3>1. stack[a] \in Seq(States)
      BY DEF TypeOK
    <3>2. CurrentTarget(stack[a]) \in Actors \cup {None}
      BY <3>1, StackTypes
    <3> QED BY <3>2 DEF TypeOK, IsEngaged
  <2>4. View(a, hated) \in Views
    BY <2>2, <2>3 DEF View, Views
  <2>5. Do("look", a) \in Steps /\ With("update", a, View(a, hated)) \in Steps /\ Do("rental", a) \in Steps /\ Do("corpse", a) \in Steps
    BY <2>4, StepTypes
  <2>6. <<Do("look", a), With("update", a, View(a, hated)), Do("rental", a), Do("corpse", a)>> \in Seq(Steps)
    BY <2>5
  <2>7. (IF drains THEN <<With("hp", a, "drain")>> ELSE <<>>) \in Seq(Steps) /\ (IF heals THEN <<With("hp", a, "regen")>> ELSE <<>>) \in Seq(Steps)
    BY StepTypes, NoSteps
  <2>8. program' \in [Tasks -> Seq(Steps)]
    <3> DEFINE A == <<Do("look", a), With("update", a, View(a, hated)), Do("rental", a), Do("corpse", a)>>
               B == IF drains THEN <<With("hp", a, "drain")>> ELSE <<>>
               C == IF heals THEN <<With("hp", a, "regen")>> ELSE <<>>
    <3>1. program' = [program EXCEPT ![Ticker] = A \o B \o C]
      BY <2>1
    <3>2. A \in Seq(Steps) /\ B \in Seq(Steps) /\ C \in Seq(Steps)
      BY <2>6, <2>7
    <3> HIDE DEF A, B, C
    <3>3. A \o B \o C \in Seq(Steps)
      BY <3>2
    <3> QED BY <1>0, <3>1, <3>3 DEF TypeOK
  <2> QED BY <1>1, <2>8 DEF TypeOK, TakeTurn, chara, history
<1>2. ASSUME Look PROVE TypeOK'
  <2>1. program' \in [Tasks -> Seq(Steps)]
    BY <1>0, <1>2, PopTypes DEF Look, At
  <2> QED BY <1>2, <2>1 DEF TypeOK, Look, chara, history
<1>3. ASSUME Update PROVE TypeOK'
  <2>1. program[Ticker] # <<>> /\ Step(Ticker) \in Steps /\ Step(Ticker).who \in Actors /\ Step(Ticker).arg \in Views
    BY <1>0, <1>3, PopTypes, StepShapes DEF Update, At, Step
  <2> DEFINE a == Step(Ticker).who
  <2>2. PICK d \in Decisions(a, Step(Ticker).arg, stack[a]) : \E r \in Ticked(a, d.stack) :
              /\ stack' = [stack EXCEPT ![a] = r.stack]
              /\ crossed' = IF \E i, j \in DOMAIN d.stack : d.stack[i].target # d.stack[j].target THEN crossed \cup {a} ELSE crossed
              /\ Later(Ticker, d.asks \o r.asks)
    BY <1>3 DEF Update
  <2>3. PICK r \in Ticked(a, d.stack) :
              /\ stack' = [stack EXCEPT ![a] = r.stack]
              /\ crossed' = IF \E i, j \in DOMAIN d.stack : d.stack[i].target # d.stack[j].target THEN crossed \cup {a} ELSE crossed
              /\ Later(Ticker, d.asks \o r.asks)
    BY <2>2
  <2>4. stack[a] \in Seq(States)
    BY <2>1 DEF TypeOK
  <2>5. d.stack \in Seq(States) /\ d.asks \in Seq(Steps)
    BY <2>1, <2>4, DecisionTypes, CalmSeq
  <2>6. r.stack \in Seq(States) /\ r.asks \in Seq(Steps)
    BY <2>1, <2>5, TickedTypes, CalmSeq
  <2>7. d.asks \o r.asks \in Seq(Steps)
    BY <2>5, <2>6
  <2>8. Tail(program[Ticker]) \o (d.asks \o r.asks) \in Seq(Steps)
    BY <1>0, <2>1, <2>7, Splice DEF TypeOK
  <2>9. program' \in [Tasks -> Seq(Steps)]
    BY <1>0, <2>3, <2>8 DEF Later, TypeOK
  <2>10. stack' \in [Actors -> Seq(States)] /\ crossed' \subseteq Actors
    BY <2>1, <2>3, <2>6 DEF TypeOK
  <2> QED BY <1>3, <2>9, <2>10 DEF TypeOK, Update
<1>4. ASSUME Rental PROVE TypeOK'
  <2>1. program[Ticker] # <<>> /\ Step(Ticker).who \in Actors /\ program' \in [Tasks -> Seq(Steps)]
    BY <1>0, <1>4, PopTypes DEF Rental, At
  <2>2. main' \in [Actors -> MainStates] /\ rented' \subseteq Players /\ slipped' \subseteq Actors
    <3>1. PICK a \in Actors : a = Step(Ticker).who
      BY <2>1
    <3>2. /\ main' = main \/ main' = [main EXCEPT ![a] = "passive"]
          /\ rented' \subseteq rented
          /\ slipped' = slipped \/ slipped' = slipped \cup {a}
      BY <1>4, <3>1 DEF Rental
    <3> QED BY <3>2 DEF TypeOK, MainStates
  <2> QED BY <1>4, <2>1, <2>2 DEF TypeOK, Rental
<1>5. ASSUME Corpse PROVE TypeOK'
  <2>1. program[Ticker] # <<>> /\ Step(Ticker) \in Steps /\ Step(Ticker).who \in Actors
    BY <1>0, <1>5, PopTypes DEF Corpse, At
  <2>2. PICK c \in CorpseActions(Step(Ticker).who) : Then(Ticker, IF c = None THEN <<>> ELSE <<Do(c, Step(Ticker).who)>>)
    BY <1>5 DEF Corpse
  <2>3. c \in {None, "revive", "despawn"}
    BY DEF CorpseActions
  <2>4. (IF c = None THEN <<>> ELSE <<Do(c, Step(Ticker).who)>>) \in Seq(Steps)
    BY <2>1, <2>3, StepTypes, NoSteps
  <2>5. (IF c = None THEN <<>> ELSE <<Do(c, Step(Ticker).who)>>) \o Tail(program[Ticker]) \in Seq(Steps)
    BY <1>0, <2>1, <2>4, Splice DEF TypeOK
  <2>6. program' \in [Tasks -> Seq(Steps)]
    BY <1>0, <2>2, <2>5 DEF Then, TypeOK
  <2> QED BY <1>5, <2>6 DEF TypeOK, Corpse, chara, history
<1>6. ASSUME Despawn PROVE TypeOK'
  <2>1. program' \in [Tasks -> Seq(Steps)]
    BY <1>0, <1>6, PopTypes DEF Despawn, At
  <2> QED BY <1>6, <2>1 DEF TypeOK, Despawn, chara, history
<1>7. ASSUME HpTick PROVE TypeOK'
  <2>1. program[Ticker] # <<>> /\ Step(Ticker).who \in Actors /\ program' \in [Tasks -> Seq(Steps)]
    BY <1>0, <1>7, PopTypes DEF HpTick, Found, At
  <2>2. up' \in [Actors -> BOOLEAN] /\ slipped' \subseteq Actors
    <3>1. PICK u \in IF Step(Ticker).arg = "regen" THEN {TRUE} ELSE {up[Step(Ticker).who], FALSE} :
              /\ up' = [up EXCEPT ![Step(Ticker).who] = u]
              /\ slipped' = IF u # up[Step(Ticker).who] THEN slipped \cup {Step(Ticker).who} ELSE slipped
      BY <1>7 DEF HpTick
    <3>2. u \in BOOLEAN
      BY <2>1 DEF TypeOK
    <3> QED BY <2>1, <3>1, <3>2 DEF TypeOK
  <2> QED BY <1>7, <2>1, <2>2 DEF TypeOK, HpTick
<1> QED BY <1>1, <1>2, <1>3, <1>4, <1>5, <1>6, <1>7

\* Types when a blow lands, is settled and paid, and when an actor engages.
LEMMA TypeFight ==
    ASSUME TypeOK, ResolveAutoAttack \/ ResolveAction \/ DieIfDefenderFell \/ Award \/ ActorEngage \/ Push
    PROVE  TypeOK'
<1>0. Ticker \in Tasks /\ Packet \in Tasks
  BY OtherTask
<1>1. ASSUME NEW x \in Actors, NEW a \in Actors, Struck(x, a) PROVE up' \in [Actors -> BOOLEAN] /\ hate' \in [Npcs -> SUBSET Actors]
  <2>1. up' \in [Actors -> BOOLEAN]
    BY <1>1 DEF Struck, TypeOK
  <2>2. CASE hate' = hate
    BY <2>1, <2>2 DEF TypeOK
  <2>3. CASE x \in Npcs /\ hate' = [hate EXCEPT ![x] = @ \cup {a}]
    <3>1. hate \in [Npcs -> SUBSET Actors]
      BY DEF TypeOK
    <3> QED BY <2>1, <2>3, <3>1
  <2> QED BY <1>1, <2>2, <2>3 DEF Struck
<1>2. ASSUME NEW s \in Steps, program[Ticker] # <<>>, Then(Ticker, <<s>>) PROVE program' \in [Tasks -> Seq(Steps)]
  <2>1. <<s>> \in Seq(Steps)
    OBVIOUS
  <2>2. <<s>> \o Tail(program[Ticker]) \in Seq(Steps)
    BY <1>0, <1>2, <2>1, Splice DEF TypeOK
  <2> QED BY <1>0, <1>2, <2>2 DEF Then, TypeOK
<1>3. ASSUME ResolveAutoAttack PROVE TypeOK'
  <2>1. program[Ticker] # <<>> /\ Step(Ticker) \in Steps /\ Step(Ticker).who \in Actors /\ Step(Ticker).arg \in Actors
    BY <1>0, <1>3, PopTypes, StepShapes DEF ResolveAutoAttack, Found, At, Step
  <2>2. With("fell", Step(Ticker).arg, Step(Ticker).who) \in Steps
    BY <2>1, StepTypes
  <2>3. CASE Struck(Step(Ticker).arg, Step(Ticker).who) /\ Then(Ticker, <<With("fell", Step(Ticker).arg, Step(Ticker).who)>>)
    <3>1. program' \in [Tasks -> Seq(Steps)]
      BY <1>2, <2>1, <2>2, <2>3
    <3>2. up' \in [Actors -> BOOLEAN] /\ hate' \in [Npcs -> SUBSET Actors]
      BY <1>1, <2>1, <2>3
    <3> QED BY <1>3, <3>1, <3>2 DEF ResolveAutoAttack, TypeOK, history
  <2>4. CASE UNCHANGED <<up, hate>> /\ Done(Ticker)
    <3>1. program' \in [Tasks -> Seq(Steps)]
      BY <1>0, <2>1, <2>4, PopTypes
    <3> QED BY <1>3, <2>4, <3>1 DEF ResolveAutoAttack, TypeOK, history
  <2> QED BY <1>3, <2>3, <2>4 DEF ResolveAutoAttack
<1>4. ASSUME ResolveAction PROVE TypeOK'
  <2>1. program[Ticker] # <<>> /\ Step(Ticker) \in Steps /\ Step(Ticker).who \in Actors /\ Step(Ticker).arg \in Actors /\ Step(Ticker).heal \in BOOLEAN
    BY <1>0, <1>4, PopTypes, StepShapes DEF ResolveAction, Found, At, Step
  <2>2. With("fell", Step(Ticker).arg, Step(Ticker).who) \in Steps
    BY <2>1, StepTypes
  <2>3. CASE /\ IF Step(Ticker).heal THEN Healed(Step(Ticker).arg) ELSE Struck(Step(Ticker).arg, Step(Ticker).who) /\ UNCHANGED slipped
             /\ Then(Ticker, <<With("fell", Step(Ticker).arg, Step(Ticker).who)>>)
    <3>1. program' \in [Tasks -> Seq(Steps)]
      BY <1>2, <2>1, <2>2, <2>3
    <3>2. up' \in [Actors -> BOOLEAN] /\ hate' \in [Npcs -> SUBSET Actors] /\ slipped' \subseteq Actors
      <4>1. CASE Healed(Step(Ticker).arg)
        BY <2>1, <4>1 DEF Healed, TypeOK
      <4>2. CASE Struck(Step(Ticker).arg, Step(Ticker).who) /\ UNCHANGED slipped
        BY <1>1, <2>1, <4>2 DEF TypeOK
      <4> QED BY <2>3, <4>1, <4>2
    <3> QED BY <1>4, <3>1, <3>2 DEF ResolveAction, TypeOK
  <2>4. CASE UNCHANGED <<up, hate, slipped>> /\ Done(Ticker)
    <3>1. program' \in [Tasks -> Seq(Steps)]
      BY <1>0, <2>1, <2>4, PopTypes
    <3> QED BY <1>4, <2>4, <3>1 DEF ResolveAction, TypeOK
  <2> QED BY <1>4, <2>3, <2>4 DEF ResolveAction
<1>5. ASSUME DieIfDefenderFell PROVE TypeOK'
  <2>1. program[Ticker] # <<>> /\ Step(Ticker) \in Steps /\ Step(Ticker).who \in Actors /\ Step(Ticker).arg \in Actors
    BY <1>0, <1>5, PopTypes, StepShapes DEF DieIfDefenderFell, Found, At, Step
  <2> DEFINE D == Dying(Step(Ticker).who)  W == With("award", Step(Ticker).who, Step(Ticker).arg)
             S == IF Fell(Step(Ticker).who) THEN D \o <<W>> ELSE <<>>
  <2>2. D \in Seq(Steps) /\ W \in Steps
    BY <2>1, DyingTypes, StepTypes
  <2>3. S \in Seq(Steps)
    <3> HIDE DEF D, W
    <3>1. D \o <<W>> \in Seq(Steps)
      BY <2>2
    <3> QED BY <3>1, NoSteps
  <2>4. Then(Ticker, S)
    BY <1>5 DEF DieIfDefenderFell
  <2> HIDE DEF S
  <2>5. S \o Tail(program[Ticker]) \in Seq(Steps)
    BY <1>0, <2>1, <2>3, Splice DEF TypeOK
  <2>6. program' \in [Tasks -> Seq(Steps)]
    BY <1>0, <2>4, <2>5 DEF Then, TypeOK
  <2> QED BY <1>5, <2>6 DEF DieIfDefenderFell, TypeOK, chara, history
<1>6. ASSUME Award PROVE TypeOK'
  <2>1. program' \in [Tasks -> Seq(Steps)]
    BY <1>0, <1>6, PopTypes DEF Award, At
  <2>2. paid' \in [Mobs -> Nat]
    BY <1>6 DEF Award, TypeOK
  <2> QED BY <1>6, <2>1, <2>2 DEF Award, TypeOK, chara
<1>7. ASSUME ActorEngage PROVE TypeOK'
  <2>1. program[Ticker] # <<>> /\ Step(Ticker) \in Steps /\ Step(Ticker).who \in Npcs /\ Step(Ticker).who \in Actors /\ Step(Ticker).arg \in Actors
    BY <1>0, <1>7, PopTypes, StepShapes DEF ActorEngage, Found, At, Step
  <2>2. With("trio", Step(Ticker).who, "active") \in Steps
    BY <2>1, StepTypes DEF MainStates
  <2>3. program' \in [Tasks -> Seq(Steps)]
    <3>1. Then(Ticker, IF IsEngaged(stack[Step(Ticker).who]) THEN <<>> ELSE <<With("trio", Step(Ticker).who, "active")>>)
      BY <1>7 DEF ActorEngage
    <3>2. CASE IsEngaged(stack[Step(Ticker).who])
      BY <1>0, <2>1, <3>1, <3>2, PopTypes DEF Then, Done
    <3>3. CASE ~IsEngaged(stack[Step(Ticker).who])
      <4>1. Then(Ticker, <<With("trio", Step(Ticker).who, "active")>>)
        BY <3>1, <3>3 DEF Then
      <4> QED BY <1>2, <2>1, <2>2, <4>1
    <3> QED BY <3>2, <3>3
  <2>4. stack' \in [Actors -> Seq(States)] /\ hate' \in [Npcs -> SUBSET Actors]
    <3>1. InternalEngage(stack[Step(Ticker).who], Step(Ticker).arg) \in Seq(States)
      BY <2>1, StackTypes DEF TypeOK
    <3> QED BY <1>7, <2>1, <3>1 DEF ActorEngage, TypeOK
  <2> QED BY <1>7, <2>3, <2>4 DEF ActorEngage, TypeOK, history
<1>8. ASSUME Push PROVE TypeOK'
  <2>1. program[Packet] # <<>> /\ Step(Packet).who \in Actors /\ Step(Packet).arg \in Actors /\ Step(Packet).heal \in BOOLEAN
    BY <1>0, <1>8, PopTypes, StepShapes DEF Push, Found, At, Step
  <2>2. program' \in [Tasks -> Seq(Steps)]
    BY <1>0, <1>8, <2>1, PopTypes DEF Push
  <2>3. stack' \in [Actors -> Seq(States)]
    <3>1. InternalEngage(stack[Step(Packet).who], Step(Packet).arg) \in Seq(States)
      BY <2>1, StackTypes DEF TypeOK
    <3>2. InternalCast(InternalEngage(stack[Step(Packet).who], Step(Packet).arg), Step(Packet).arg, Step(Packet).heal) \in Seq(States)
      BY <2>1, <3>1, StackTypes
    <3> QED BY <1>8, <2>1, <3>2 DEF Push, TypeOK
  <2> QED BY <1>8, <2>2, <2>3 DEF Push, TypeOK, history
<1> QED BY <1>3, <1>4, <1>5, <1>6, <1>7, <1>8

\* Types when either task does a step of a handler it has begun.
LEMMA TypeAsked ==
    ASSUME TypeOK, NEW t \in Tasks,
           NotFound(t) \/ UpdateHate(t) \/ ClearHate(t) \/ Trio(t) \/ ChangeState(t) \/ Mark(t) \/ Clear(t) \/ Complete(t) \/ Revive(t)
    PROVE  TypeOK'
<1>1. program[t] # <<>> /\ Step(t) \in Steps /\ Step(t).who \in Actors
  BY PopTypes DEF NotFound, UpdateHate, ClearHate, Trio, ChangeState, Mark, Clear, Complete, Revive, Found, At
<1>2. Done(t) => program' \in [Tasks -> Seq(Steps)]
  BY <1>1, PopTypes
<1>3. ASSUME NotFound(t) PROVE TypeOK'
  <2>1. program' \in [Tasks -> Seq(Steps)]
    <3>1. CASE Step(t).do = "mark"
      <4>1. program' = [program EXCEPT ![t] = SubSeq(@, 5, Len(@))]
        BY <1>3, <3>1 DEF NotFound
      <4>2. SubSeq(program[t], 5, Len(program[t])) \in Seq(Steps)
        BY Suffix DEF TypeOK
      <4> QED BY <4>1, <4>2 DEF TypeOK
    <3>2. CASE Step(t).do # "mark"
      BY <1>1, <1>3, <3>2, PopTypes DEF NotFound
    <3> QED BY <3>1, <3>2
  <2> QED BY <1>3, <2>1 DEF NotFound, TypeOK, chara, history
<1>4. ASSUME UpdateHate(t) PROVE TypeOK'
  <2>1. Step(t).who \in Npcs /\ Step(t).arg \in Actors
    BY <1>1, <1>4, StepShapes DEF UpdateHate, Found, At, Step
  <2>2. hate' \in [Npcs -> SUBSET Actors]
    BY <1>4, <2>1 DEF UpdateHate, TypeOK
  <2> QED BY <1>2, <1>4, <2>2 DEF UpdateHate, TypeOK, history
<1>5. ASSUME ClearHate(t) PROVE TypeOK'
  BY <1>2, <1>5 DEF ClearHate, TypeOK, history
<1>6. ASSUME Trio(t) PROVE TypeOK'
  <2>1. Step(t).arg \in MainStates
    BY <1>1, <1>6, StepShapes DEF Trio, Found, At, Step
  <2>2. main' \in [Actors -> MainStates]
    BY <1>1, <1>6, <2>1 DEF Trio, TypeOK
  <2> QED BY <1>2, <1>6, <2>2 DEF Trio, TypeOK, history
<1>11. ASSUME ChangeState(t) PROVE TypeOK'
  <2>1. main' \in [Actors -> MainStates] /\ unflushed' \subseteq Actors
    BY <1>1, <1>11 DEF ChangeState, TypeOK, MainStates
  <2> QED BY <1>2, <1>11, <2>1 DEF ChangeState, TypeOK
<1>7. ASSUME Mark(t) PROVE TypeOK'
  <2>1. CASE main[Step(t).who] = "dead"
    <3>1. program' \in [Tasks -> Seq(Steps)]
      BY <1>1, <1>7, <2>1, PopTypes DEF Mark
    <3> QED BY <1>7, <2>1, <3>1 DEF Mark, TypeOK, chara
  <2>2. CASE main[Step(t).who] # "dead"
    <3>1. up' \in [Actors -> BOOLEAN] /\ main' \in [Actors -> MainStates] /\ stamped' \subseteq Actors /\ hate' \in [Npcs -> SUBSET Actors]
      <4>1. main' = [main EXCEPT ![Step(t).who] = "dead"] /\ up' = [up EXCEPT ![Step(t).who] = FALSE] /\ stamped' = stamped \cup {Step(t).who}
        BY <1>7, <2>2 DEF Mark
      <4>2. hate' = [b \in Npcs |-> IF b = Step(t).who THEN {} ELSE hate[b]]
        BY <1>7, <2>2 DEF Mark
      <4>3. main' \in [Actors -> MainStates] /\ up' \in [Actors -> BOOLEAN] /\ stamped' \subseteq Actors
        BY <1>1, <4>1 DEF TypeOK, MainStates
      <4>4. hate' \in [Npcs -> SUBSET Actors]
        BY <4>2 DEF TypeOK
      <4> QED BY <4>3, <4>4
    <3>2. paid' \in [Mobs -> Nat] /\ slipped' \subseteq Actors /\ crossed' \subseteq Actors /\ unflushed' \subseteq Actors /\ raced' \in BOOLEAN
      <4>1. paid' = [m \in Mobs |-> IF m = Step(t).who THEN 0 ELSE paid[m]] /\ slipped' = slipped \ {Step(t).who} /\ crossed' = crossed \ {Step(t).who}
             /\ unflushed' = unflushed \ {Step(t).who}
        BY <1>7, <2>2 DEF Mark
      <4>2. raced' = (raced \/ program[Other(t)] # <<>>)
        BY <1>7, <2>2 DEF Mark, Cut
      <4>3. paid' \in [Mobs -> Nat]
        BY <4>1 DEF TypeOK
      <4>4. slipped' \subseteq Actors /\ crossed' \subseteq Actors /\ unflushed' \subseteq Actors
        BY <4>1 DEF TypeOK
      <4> QED BY <4>2, <4>3, <4>4 DEF TypeOK
    <3>3. stack' \in [Actors -> Seq(States)]
      BY <1>1, <1>7, <2>2, NoSteps DEF Mark, TypeOK
    <3>4. program' \in [Tasks -> Seq(Steps)] /\ UNCHANGED <<here, orders, fired, rented>>
      BY <1>2, <1>7, <2>2 DEF Mark
    <3> QED BY <3>1, <3>2, <3>3, <3>4 DEF TypeOK
  <2> QED BY <2>1, <2>2
<1>8. ASSUME Clear(t) PROVE TypeOK'
  <2>1. hate' \in [Npcs -> SUBSET Actors]
    BY <1>8 DEF Clear, Forgotten, TypeOK
  <2>2. stack' \in [Actors -> Seq(States)]
    BY <1>8, NoSteps DEF Clear, Released, TypeOK
  <2>3. raced' \in BOOLEAN
    BY <1>8 DEF Clear, Cut, TypeOK
  <2> QED BY <1>2, <1>8, <2>1, <2>2, <2>3 DEF Clear, TypeOK
<1>9. ASSUME Complete(t) PROVE TypeOK'
  BY <1>2, <1>9 DEF Complete, TypeOK, chara
<1>10. ASSUME Revive(t) PROVE TypeOK'
  <2>1. CASE main[Step(t).who] # "dead"
    BY <1>2, <1>10, <2>1 DEF Revive, TypeOK, chara
  <2>2. CASE main[Step(t).who] = "dead"
    <3>1. up' \in [Actors -> BOOLEAN] /\ main' \in [Actors -> MainStates] /\ stamped' \subseteq Actors /\ fired' \in Nat
      <4>1. main' = [main EXCEPT ![Step(t).who] = "passive"] /\ up' = [up EXCEPT ![Step(t).who] = TRUE] /\ stamped' = stamped \ {Step(t).who}
        BY <1>10, <2>2 DEF Revive
      <4>2. fired' = IF Step(t).who \in Mobs THEN 0 ELSE fired
        BY <1>10, <2>2 DEF Revive
      <4> QED BY <1>1, <4>1, <4>2 DEF TypeOK, MainStates
    <3>2. paid' \in [Mobs -> Nat] /\ slipped' \subseteq Actors /\ raced' \in BOOLEAN
      BY <1>1, <1>10, <2>2 DEF Revive, TypeOK, Cut
    <3>3. program' \in [Tasks -> Seq(Steps)] /\ UNCHANGED <<here, orders, crossed, unflushed, stack, hate, rented>>
      BY <1>2, <1>10, <2>2 DEF Revive
    <3> QED BY <3>1, <3>2, <3>3 DEF TypeOK
  <2> QED BY <2>1, <2>2
<1> QED BY <1>3, <1>4, <1>5, <1>6, <1>7, <1>8, <1>9, <1>10, <1>11

\* The orders of packets and scripts.
Ordered ==
    \/ \E p \in Players : \/ \E x \in Mobs \cup {None}, auto \in BOOLEAN : SetTarget(p, x, auto)
                          \/ \E x \in Actors, heal \in BOOLEAN : Hotbar(p, x, heal)
                          \/ Draw(p) \/ Sheathe(p)
    \/ \E p \in Players, t \in Tasks : ScriptSheathe(t, p)
    \/ \E a \in Allies, x \in Mobs : ScriptEngage(a, x)
    \/ \E a \in Actors : ScriptDie(a) \/ ScriptRevive(a)

\* Types when a packet or a script starts a handler.
LEMMA TypeOrdered ==
    ASSUME TypeOK, Ordered
    PROVE  TypeOK'
<1>0. Ticker \in Tasks /\ Packet \in Tasks /\ Players \subseteq Actors /\ Mobs \subseteq Actors /\ Allies \subseteq Npcs /\ Npcs \subseteq Actors
  BY OtherTask, Sorts
<1>1. ASSUME NEW t \in Tasks, NEW s, s \in Seq(Steps), Order(t, s) PROVE program' \in [Tasks -> Seq(Steps)] /\ orders' \in Nat
  BY <1>1 DEF Order, TypeOK
<1>2. ASSUME NEW p \in Players, NEW x \in Mobs \cup {None}, NEW auto \in BOOLEAN, SetTarget(p, x, auto) PROVE TypeOK'
  <2>1. program' \in [Tasks -> Seq(Steps)] /\ orders' \in Nat
    BY <1>0, <1>1, <1>2, NoSteps DEF SetTarget
  <2>2. stack[p] \in Seq(States) /\ (x \in Mobs => InternalEngage(<<>>, x) \in Seq(States))
    BY <1>0, StackTypes, NoSteps DEF TypeOK
  <2>3. stack' \in [Actors -> Seq(States)]
    <3> DEFINE new == CASE auto /\ x \in Mobs /\ main[p] = "active" -> IF CurrentTarget(stack[p]) = x THEN stack[p] ELSE InternalEngage(<<>>, x)
                        [] ~auto -> <<>>
                        [] OTHER -> stack[p]
    <3>1. stack' = [stack EXCEPT ![p] = new]
      BY <1>2 DEF SetTarget
    <3>2. new \in Seq(States)
      <4>1. CASE auto /\ x \in Mobs /\ main[p] = "active"
        <5>1. new = IF CurrentTarget(stack[p]) = x THEN stack[p] ELSE InternalEngage(<<>>, x)
          BY <4>1
        <5> HIDE DEF new
        <5> QED BY <2>2, <4>1, <5>1
      <4>2. CASE ~auto
        <5>1. new = <<>>
          BY <4>2
        <5> QED BY <5>1, NoSteps
      <4>3. CASE auto /\ ~(x \in Mobs /\ main[p] = "active")
        <5>1. new = stack[p]
          BY <4>3
        <5> QED BY <2>2, <5>1
      <4> QED BY <4>1, <4>2, <4>3
    <3> HIDE DEF new
    <3> QED BY <3>1, <3>2 DEF TypeOK
  <2> QED BY <1>2, <2>1, <2>3 DEF SetTarget, TypeOK
<1>3. ASSUME NEW p \in Players, NEW x \in Actors, NEW heal \in BOOLEAN, Hotbar(p, x, heal) PROVE TypeOK'
  <2>1. <<[do |-> "push", who |-> p, arg |-> x, heal |-> heal]>> \in Seq(Steps)
    <3>1. p \in Actors
      BY <1>0
    <3>2. [do |-> "push", who |-> p, arg |-> x, heal |-> heal] \in Steps
      BY <3>1, StepTypes
    <3> QED BY <3>2
  <2>2. program' \in [Tasks -> Seq(Steps)] /\ orders' \in Nat
    BY <1>0, <1>1, <1>3, <2>1 DEF Hotbar
  <2> QED BY <1>3, <2>2 DEF Hotbar, TypeOK, chara
<1>4. ASSUME NEW p \in Players, Draw(p) PROVE TypeOK'
  <2>1. <<With("trio", p, "active")>> \in Seq(Steps)
    BY <1>0, StepTypes DEF MainStates
  <2>2. program' \in [Tasks -> Seq(Steps)] /\ orders' \in Nat
    BY <1>0, <1>1, <1>4, <2>1 DEF Draw
  <2> QED BY <1>4, <2>2 DEF Draw, TypeOK, chara
<1>5. ASSUME NEW p \in Players, Sheathe(p) PROVE TypeOK'
  <2> DEFINE S == IF stack[p] # <<>> THEN DisengageAsks(p) ELSE <<With("trio", p, "passive")>>
  <2>1. With("trio", p, "passive") \in Steps /\ Do("forget", p) \in Steps
    BY <1>0, StepTypes DEF MainStates
  <2>2. S \in Seq(Steps)
    BY <2>1 DEF DisengageAsks
  <2>3. program' = [program EXCEPT ![Packet] = S] /\ orders' = orders + 1
    BY <1>5 DEF Sheathe, Order
  <2>4. program' \in [Tasks -> Seq(Steps)] /\ orders' \in Nat
    <3> HIDE DEF S
    <3> QED BY <1>0, <2>2, <2>3 DEF TypeOK
  <2>5. stack' \in [Actors -> Seq(States)]
    BY <1>5, NoSteps DEF Sheathe, TypeOK
  <2>6. unflushed' \subseteq Actors
    BY <1>5 DEF Sheathe, TypeOK
  <2> QED BY <1>5, <2>4, <2>5, <2>6 DEF Sheathe, TypeOK
<1>6. ASSUME NEW a \in Allies, NEW x \in Mobs, ScriptEngage(a, x) PROVE TypeOK'
  <2>1. <<With("engage", a, x)>> \in Seq(Steps)
    <3>1. a \in Actors /\ a \in Npcs /\ x \in Actors
      BY <1>0
    <3>2. With("engage", a, x) \in Steps
      BY <3>1, StepTypes
    <3> QED BY <3>2
  <2>2. program' \in [Tasks -> Seq(Steps)] /\ orders' \in Nat
    BY <1>0, <1>1, <1>6, <2>1 DEF ScriptEngage
  <2> QED BY <1>6, <2>2 DEF ScriptEngage, TypeOK, chara
<1>7. ASSUME NEW a \in Actors, ScriptDie(a) PROVE TypeOK'
  <2>1. program' \in [Tasks -> Seq(Steps)] /\ orders' \in Nat
    BY <1>0, <1>1, <1>7, DyingTypes DEF ScriptDie
  <2> QED BY <1>7, <2>1 DEF ScriptDie, TypeOK, chara
<1>8. ASSUME NEW a \in Actors, ScriptRevive(a) PROVE TypeOK'
  <2>1. <<Do("revive", a)>> \in Seq(Steps)
    BY StepTypes
  <2>2. program' \in [Tasks -> Seq(Steps)] /\ orders' \in Nat
    BY <1>0, <1>1, <1>8, <2>1 DEF ScriptRevive
  <2> QED BY <1>8, <2>2 DEF ScriptRevive, TypeOK, chara
<1>9. ASSUME NEW p \in Players, NEW t \in Tasks, ScriptSheathe(t, p) PROVE TypeOK'
  <2>1. <<Do("stance", p)>> \in Seq(Steps)
    BY <1>0, StepTypes
  <2>2. program' \in [Tasks -> Seq(Steps)] /\ orders' \in Nat
    BY <1>1, <1>9, <2>1 DEF ScriptSheathe
  <2> QED BY <1>9, <2>2 DEF ScriptSheathe, TypeOK, chara
<1> QED BY <1>2, <1>3, <1>4, <1>5, <1>6, <1>7, <1>8, <1>9 DEF Ordered

\* Every step keeps the types.
LEMMA TypeStep == TypeOK /\ [Next]_vars => TypeOK'
<1> SUFFICES ASSUME TypeOK, [Next]_vars PROVE TypeOK'
  OBVIOUS
<1>1. CASE UNCHANGED vars
  BY <1>1 DEF TypeOK, vars, chara, history
<1>2. CASE Next
  BY <1>2, TypeTurn, TypeFight, TypeAsked, TypeOrdered DEF Next, Ordered
<1> QED BY <1>1, <1>2

\* The variables keep their types: the actions of Battle never build a step, a state or a view
\* that the handlers of map-server/src/runtime/dispatcher.rs could not take.
THEOREM TypeCorrectness == Spec => []TypeOK
BY TypeInit, TypeStep, PTL DEF Spec

-----------------------------------------------------------------------------
(* The rites of a death *)

\* The last 5 - k steps of x's rites stand at the head of program p, and nothing grave comes
\* behind them but the reward for x.
Burying(p, x, k) ==
    /\ Len(p) >= 5 - k
    /\ \A j \in k..4 : p[j - k + 1] = Dying(x)[j]
    /\ \A i \in DOMAIN p : i > 5 - k /\ Grave(p[i]) => i = 6 - k /\ p[i].do = "award" /\ p[i].who = x

\* Deaths are not nested: a task is at most in the middle of one burial, whose steps come first
\* in the order of apply_die, and only the ticker rewards a kill (die_if_defender_fell).
RitesInv ==
    /\ \A t \in Tasks : \E x \in Actors, k \in 1..5 : Burying(program[t], x, k)
    /\ \A i \in DOMAIN program[Packet] : program[Packet][i].do # "award"

\* Step i of a task's program is what to do to x; Laid is the dead stance of x.
Pending(t, i, what, x) == i \in DOMAIN program[t] /\ program[t][i].do = what /\ program[t][i].who = x
Laid(t, i, x) == Pending(t, i, "trio", x) /\ program[t][i].arg = "dead"

\* Burying, spelled out for each k.
Rites(p, x, k) ==
    /\ k = 1 => Len(p) >= 4 /\ p[1] = Do("mark", x) /\ p[2] = Do("clear", x) /\ p[3] = With("trio", x, "dead") /\ p[4] = Do("complete", x)
    /\ k = 2 => Len(p) >= 3 /\ p[1] = Do("clear", x) /\ p[2] = With("trio", x, "dead") /\ p[3] = Do("complete", x)
    /\ k = 3 => Len(p) >= 2 /\ p[1] = With("trio", x, "dead") /\ p[2] = Do("complete", x)
    /\ k = 4 => Len(p) >= 1 /\ p[1] = Do("complete", x)

\* The two spellings agree.
LEMMA RitesSpelled ==
    ASSUME NEW p \in Seq(Steps), NEW x, NEW k \in 1..5
    PROVE  Burying(p, x, k) <=> /\ Rites(p, x, k)
                                /\ \A i \in DOMAIN p : i > 5 - k /\ Grave(p[i]) => i = 6 - k /\ p[i].do = "award" /\ p[i].who = x
<1>1. Dying(x)[1] = Do("mark", x) /\ Dying(x)[2] = Do("clear", x) /\ Dying(x)[3] = With("trio", x, "dead") /\ Dying(x)[4] = Do("complete", x)
  BY DEF Dying
<1>2. CASE k = 1
  <2>1. (\A j \in k..4 : p[j - k + 1] = Dying(x)[j]) <=> p[1] = Dying(x)[1] /\ p[2] = Dying(x)[2] /\ p[3] = Dying(x)[3] /\ p[4] = Dying(x)[4]
    <3>1. k..4 = {1, 2, 3, 4}
      BY <1>2
    <3> QED BY <1>2, <3>1
  <2> QED BY <1>1, <1>2, <2>1 DEF Burying, Rites
<1>3. CASE k = 2
  <2>1. (\A j \in k..4 : p[j - k + 1] = Dying(x)[j]) <=> p[1] = Dying(x)[2] /\ p[2] = Dying(x)[3] /\ p[3] = Dying(x)[4]
    <3>1. k..4 = {2, 3, 4}
      BY <1>3
    <3> QED BY <1>3, <3>1
  <2> QED BY <1>1, <1>3, <2>1 DEF Burying, Rites
<1>4. CASE k = 3
  <2>1. (\A j \in k..4 : p[j - k + 1] = Dying(x)[j]) <=> p[1] = Dying(x)[3] /\ p[2] = Dying(x)[4]
    <3>1. k..4 = {3, 4}
      BY <1>4
    <3> QED BY <1>4, <3>1
  <2> QED BY <1>1, <1>4, <2>1 DEF Burying, Rites
<1>5. CASE k = 4
  <2>1. (\A j \in k..4 : p[j - k + 1] = Dying(x)[j]) <=> p[1] = Dying(x)[4]
    <3>1. k..4 = {4}
      BY <1>5
    <3> QED BY <1>5, <3>1
  <2> QED BY <1>1, <1>5, <2>1 DEF Burying, Rites
<1>6. CASE k = 5
  BY <1>6 DEF Burying, Rites
<1> QED BY <1>2, <1>3, <1>4, <1>5, <1>6

\* The fields of a step.
LEMMA DoFields ==
    ASSUME NEW w, NEW a, NEW v
    PROVE  Do(w, a).do = w /\ Do(w, a).who = a /\ With(w, a, v).do = w /\ With(w, a, v).who = a /\ With(w, a, v).arg = v
BY DEF Do, With

\* Where the rites of a death stand in a program that begins with one of them.
LEMMA RiteFacts ==
    ASSUME TypeOK, RitesInv, NEW t \in Tasks, program[t] # <<>>
    PROVE  LET w == Step(t).who IN
           /\ Step(t) = program[t][1] /\ 1 \in DOMAIN program[t]
           /\ ~Grave(Step(t)) => Calm(program[t])
           /\ Step(t).do = "mark" =>
                /\ Pending(t, 2, "clear", w) /\ Laid(t, 3, w) /\ Pending(t, 4, "complete", w)
                /\ \A i \in DOMAIN program[t] : i >= 5 /\ Grave(program[t][i]) => Pending(t, 5, "award", w) /\ i = 5
           /\ Step(t).do = "clear" =>
                /\ Laid(t, 2, w) /\ Pending(t, 3, "complete", w)
                /\ \A i \in DOMAIN program[t] : i >= 4 /\ Grave(program[t][i]) => Pending(t, 4, "award", w) /\ i = 4
           /\ Laid(t, 1, w) =>
                /\ Pending(t, 2, "complete", w)
                /\ \A i \in DOMAIN program[t] : i >= 3 /\ Grave(program[t][i]) => Pending(t, 3, "award", w) /\ i = 3
           /\ Step(t).do = "complete" =>
                \A i \in DOMAIN program[t] : i >= 2 /\ Grave(program[t][i]) => Pending(t, 2, "award", w) /\ i = 2
           /\ Step(t).do = "award" =>
                \A i \in DOMAIN program[t] : i >= 2 => ~Grave(program[t][i])
<1> DEFINE p == program[t]
<1>1. p \in Seq(Steps) /\ p # <<>> /\ DOMAIN p = 1..Len(p) /\ Len(p) \in Nat /\ Len(p) >= 1 /\ Step(t) = p[1]
  BY DEF TypeOK, Step
<1>2. PICK x \in Actors, k \in 1..5 : Burying(p, x, k)
  BY DEF RitesInv
<1>3. /\ Rites(p, x, k)
      /\ \A i \in DOMAIN p : i > 5 - k /\ Grave(p[i]) => i = 6 - k /\ p[i].do = "award" /\ p[i].who = x
  BY <1>1, <1>2, RitesSpelled
<1> HIDE DEF p
<1>4. CASE k = 1
  <2>1. Rites(p, x, 1) /\ \A i \in DOMAIN p : i >= 5 /\ Grave(p[i]) => i = 5 /\ p[i].do = "award" /\ p[i].who = x
    BY <1>1, <1>3, <1>4
  <2>2. /\ p[1].do = "mark" /\ p[1].who = x /\ Grave(p[1]) /\ ~(p[1].do = "trio")
        /\ p[2].do = "clear" /\ p[2].who = x /\ p[3].do = "trio" /\ p[3].who = x /\ p[3].arg = "dead" /\ p[4].do = "complete" /\ p[4].who = x
        /\ Len(p) >= 4
    <3>1. Len(p) >= 4 /\ p[1] = Do("mark", x) /\ p[2] = Do("clear", x) /\ p[3] = With("trio", x, "dead") /\ p[4] = Do("complete", x)
      BY <2>1 DEF Rites
    <3> QED BY <3>1 DEF Do, With, Grave
  <2> QED BY <1>1, <2>1, <2>2 DEF Pending, Laid, p
<1>5. CASE k = 2
  <2>1. Rites(p, x, 2) /\ \A i \in DOMAIN p : i >= 4 /\ Grave(p[i]) => i = 4 /\ p[i].do = "award" /\ p[i].who = x
    BY <1>1, <1>3, <1>5
  <2>2. /\ p[1].do = "clear" /\ p[1].who = x /\ Grave(p[1]) /\ ~(p[1].do = "trio")
        /\ p[2].do = "trio" /\ p[2].who = x /\ p[2].arg = "dead" /\ p[3].do = "complete" /\ p[3].who = x
        /\ Len(p) >= 3
    BY <2>1, DoFields DEF Rites, Grave
  <2> QED BY <1>1, <2>1, <2>2 DEF Pending, Laid, p
<1>6. CASE k = 3
  BY <1>1, <1>3, <1>6, DoFields DEF Rites, Grave, Pending, Laid, p
<1>7. CASE k = 4
  BY <1>1, <1>3, <1>7, DoFields DEF Rites, Grave, Pending, Laid, p
<1>8. CASE k = 5
  BY <1>1, <1>3, <1>8, DoFields DEF Rites, Grave, Pending, Laid, Calm, p
<1> QED BY <1>4, <1>5, <1>6, <1>7, <1>8

\* A calm program has no rites left; a program in the middle of rites stays so as it goes on.
LEMMA CalmBuried ==
    ASSUME NEW p \in Seq(Steps), NEW x, Calm(p)
    PROVE  Burying(p, x, 5)
<1>1. Rites(p, x, 5)
  BY DEF Rites
<1> QED BY <1>1, RitesSpelled DEF Calm

\* The rest of a burial, without its first step, is the rest of a burial.
LEMMA TailBuried ==
    ASSUME NEW p \in Seq(Steps), p # <<>>, NEW x, NEW k \in 1..5, Burying(p, x, k)
    PROVE  \E j \in 1..5 : Burying(Tail(p), x, j)
<1>1. /\ Rites(p, x, k)
      /\ \A i \in DOMAIN p : i > 5 - k /\ Grave(p[i]) => i = 6 - k /\ p[i].do = "award" /\ p[i].who = x
  BY RitesSpelled
<1>2. /\ Tail(p) \in Seq(Steps) /\ Len(p) \in Nat /\ Len(Tail(p)) = Len(p) - 1 /\ DOMAIN Tail(p) = 1..(Len(p) - 1) /\ DOMAIN p = 1..Len(p)
      /\ \A i \in DOMAIN Tail(p) : i + 1 \in DOMAIN p /\ Tail(p)[i] = p[i + 1]
  BY NoSteps, Splice
<1> DEFINE q == Tail(p)
<1> HIDE DEF q
<1>3. CASE k < 5
  <2>1. k + 1 \in 1..5
    BY <1>3
  <2>2. \A i \in DOMAIN q : i > 5 - (k + 1) /\ Grave(q[i]) => i = 6 - (k + 1) /\ q[i].do = "award" /\ q[i].who = x
    <3> SUFFICES ASSUME NEW i \in DOMAIN q, i > 5 - (k + 1), Grave(q[i]) PROVE i = 6 - (k + 1) /\ q[i].do = "award" /\ q[i].who = x
      OBVIOUS
    <3>1. i + 1 \in DOMAIN p /\ q[i] = p[i + 1] /\ i + 1 > 5 - k
      BY <1>2 DEF q
    <3> QED BY <1>1, <1>2, <3>1 DEF q
  <2>3. Rites(q, x, k + 1)
    BY <1>1, <1>2, <1>3 DEF Rites, q
  <2>4. Burying(q, x, k + 1)
    BY <1>2, <2>1, <2>2, <2>3, RitesSpelled DEF q
  <2>5. \E j \in 1..5 : Burying(q, x, j)
    <3> DEFINE m == k + 1
    <3> HIDE DEF m
    <3>1. m \in 1..5 /\ Burying(q, x, m)
      BY <2>1, <2>4 DEF m
    <3> QED BY <3>1
  <2> QED BY <2>5 DEF q
<1>4. CASE k = 5
  <2>1. Calm(q)
    <3> SUFFICES ASSUME NEW i \in DOMAIN q PROVE ~Grave(q[i])
      BY DEF Calm
    <3>1. i + 1 \in DOMAIN p /\ q[i] = p[i + 1] /\ i >= 1 /\ i \in Nat
      BY <1>2 DEF q
    <3> QED BY <1>1, <1>4, <3>1
  <2>2. Burying(q, x, 5)
    BY <1>2, <2>1, CalmBuried DEF q
  <2> QED BY <2>2 DEF q
<1> QED BY <1>3, <1>4

-----------------------------------------------------------------------------
(* How an action changes the programs *)

\* The ways a step of one task may change its program: a calm program becomes another calm one,
\* the first step is done, or the rites of an actor that is dead already are skipped.
Elsewhere(t) == \A u \in Tasks \ {t} : program'[u] = program[u]
Rewritten(t) == program[t] \in Seq(CalmSteps) /\ program'[t] \in Seq(CalmSteps) /\ Elsewhere(t)
Popped(t) == program[t] # <<>> /\ program'[t] = Tail(program[t]) /\ Elsewhere(t)
Skipped(t) == At(t, "mark") /\ program'[t] = SubSeq(program[t], 5, Len(program[t])) /\ Elsewhere(t)

\* Each action changes its program in one of these ways.
LEMMA ProgramSet ==
    ASSUME TypeOK, NEW t \in Tasks, NEW s, program' = [program EXCEPT ![t] = s]
    PROVE  program'[t] = s /\ Elsewhere(t)
BY DEF TypeOK, Elsewhere

\* Before a step that is not part of a burial, no burial is pending.
LEMMA CalmBefore ==
    ASSUME TypeOK, RitesInv, NEW t \in Tasks, program[t] # <<>>, ~Grave(Step(t))
    PROVE  program[t] \in Seq(CalmSteps)
<1>1. Calm(program[t])
  BY RiteFacts
<1> QED BY <1>1, CalmSeq DEF TypeOK

\* A step that is done is taken off the program.
LEMMA DoneIsTail ==
    ASSUME TypeOK, NEW t \in Tasks, program[t] # <<>>, Done(t)
    PROVE  Popped(t)
<1>1. program[t] \in Seq(Steps)
  BY DEF TypeOK
<1>2. <<>> \o Tail(program[t]) = Tail(program[t])
  BY <1>1
<1>3. program' = [program EXCEPT ![t] = <<>> \o Tail(program[t])]
  BY DEF Done, Then
<1>4. program'[t] = <<>> \o Tail(program[t]) /\ Elsewhere(t)
  BY <1>3, ProgramSet
<1> QED BY <1>2, <1>4 DEF Popped

\* To take off a step that is not part of a burial leaves no burial.
LEMMA CalmPop ==
    ASSUME TypeOK, RitesInv, NEW t \in Tasks, ~Grave(Step(t)), Popped(t)
    PROVE  Rewritten(t)
<1>1. program[t] \in Seq(CalmSteps) /\ program[t] # <<>>
  BY CalmBefore DEF Popped
<1>2. Tail(program[t]) \in Seq(CalmSteps)
  BY <1>1
<1> QED BY <1>1, <1>2 DEF Popped, Rewritten

\* To put steps that are not part of a burial in its place leaves no burial.
LEMMA CalmThen ==
    ASSUME TypeOK, RitesInv, NEW t \in Tasks, program[t] # <<>>, ~Grave(Step(t)), NEW s \in Seq(CalmSteps),
           \/ program' = [program EXCEPT ![t] = s \o Tail(@)]
           \/ program' = [program EXCEPT ![t] = Tail(@) \o s]
    PROVE  Rewritten(t)
<1>1. program[t] \in Seq(CalmSteps)
  BY CalmBefore
<1>2. s \o Tail(program[t]) \in Seq(CalmSteps) /\ Tail(program[t]) \o s \in Seq(CalmSteps)
  BY <1>1, Splice
<1>3. program'[t] \in {s \o Tail(program[t]), Tail(program[t]) \o s} /\ Elsewhere(t)
  BY DEF TypeOK, Elsewhere
<1> QED BY <1>1, <1>2, <1>3 DEF Rewritten

\* What the ticker does on its own neither begins a burial nor is in one.
LEMMA TurnKinds ==
    ASSUME TypeOK, RitesInv,
           \/ \E a \in Actors : TakeTurn(a)
           \/ Look \/ Update \/ Rental \/ Corpse \/ Despawn \/ HpTick
           \/ ResolveAutoAttack \/ ResolveAction \/ ActorEngage \/ (DieIfDefenderFell /\ ~Fell(Step(Ticker).who))
    PROVE  Rewritten(Ticker)
<1>0. Ticker \in Tasks /\ program[Ticker] \in Seq(Steps)
  BY OtherTask DEF TypeOK
<1>1. ASSUME NEW a \in Actors, TakeTurn(a) PROVE Rewritten(Ticker)
  <2>1. PICK hated \in MostHated(a), drains \in BOOLEAN, heals \in BOOLEAN :
           program' = [program EXCEPT ![Ticker] =
                  <<Do("look", a), With("update", a, View(a, hated)), Do("rental", a), Do("corpse", a)>>
                  \o (IF drains THEN <<With("hp", a, "drain")>> ELSE <<>>)
                  \o (IF heals THEN <<With("hp", a, "regen")>> ELSE <<>>)]
    BY <1>1 DEF TakeTurn
  <2>2. View(a, hated) \in Views
    <3>1. hated \in Actors \cup {None}
      BY Sorts DEF MostHated, TypeOK, Actors
    <3>2. stack[a] \in Seq(States) /\ up[a] \in BOOLEAN
      BY DEF TypeOK
    <3>3. CurrentTarget(stack[a]) \in Actors \cup {None} /\ IsEngaged(stack[a]) \in BOOLEAN
      BY <3>2, StackTypes DEF IsEngaged
    <3> QED BY <3>1, <3>2, <3>3 DEF View, Views
  <2> DEFINE A == <<Do("look", a), With("update", a, View(a, hated)), Do("rental", a), Do("corpse", a)>>
             B == IF drains THEN <<With("hp", a, "drain")>> ELSE <<>>
             C == IF heals THEN <<With("hp", a, "regen")>> ELSE <<>>
  <2>3. A \in Seq(CalmSteps)
    <3>1. Do("look", a) \in CalmSteps /\ With("update", a, View(a, hated)) \in CalmSteps /\ Do("rental", a) \in CalmSteps /\ Do("corpse", a) \in CalmSteps
      BY <2>2, CalmTypes
    <3> QED BY <3>1
  <2>4. B \in Seq(CalmSteps) /\ C \in Seq(CalmSteps)
    BY CalmTypes, NoSteps
  <2>5. program' = [program EXCEPT ![Ticker] = A \o B \o C]
    BY <2>1
  <2> HIDE DEF A, B, C
  <2>6. A \o B \o C \in Seq(CalmSteps)
    BY <2>3, <2>4
  <2>7. program'[Ticker] = A \o B \o C /\ Elsewhere(Ticker)
    BY <1>0, <2>5, ProgramSet
  <2> QED BY <1>1, <2>6, <2>7, NoSteps DEF Rewritten, TakeTurn
<1>2. ASSUME Look PROVE Rewritten(Ticker)
  <2>1. program[Ticker] # <<>> /\ ~Grave(Step(Ticker))
    BY <1>2 DEF Look, At, Grave, Step
  <2>2. CASE Done(Ticker)
    BY <1>0, <2>1, <2>2, DoneIsTail, CalmPop
  <2>3. CASE program' = [program EXCEPT ![Ticker] = SubSeq(@, 3, Len(@))]
    <3>1. program[Ticker] \in Seq(CalmSteps)
      BY <1>0, <2>1, CalmBefore
    <3>2. SubSeq(program[Ticker], 3, Len(program[Ticker])) \in Seq(CalmSteps)
      BY <3>1, Suffix
    <3>3. program'[Ticker] = SubSeq(program[Ticker], 3, Len(program[Ticker])) /\ Elsewhere(Ticker)
      BY <1>0, <2>3, ProgramSet
    <3> QED BY <3>1, <3>2, <3>3 DEF Rewritten
  <2> QED BY <1>2, <2>2, <2>3 DEF Look
<1>3. ASSUME Update PROVE Rewritten(Ticker)
  <2>1. program[Ticker] # <<>> /\ ~Grave(Step(Ticker))
    BY <1>3 DEF Update, At, Grave, Step
  <2> DEFINE a == Step(Ticker).who
  <2>2. a \in Actors /\ Step(Ticker).arg \in Views /\ stack[a] \in Seq(States)
    BY <1>0, <1>3, <2>1, PopTypes, StepShapes DEF Update, At, Step, TypeOK
  <2>3. PICK d \in Decisions(a, Step(Ticker).arg, stack[a]) : \E r \in Ticked(a, d.stack) : Later(Ticker, d.asks \o r.asks)
    BY <1>3 DEF Update
  <2>4. PICK r \in Ticked(a, d.stack) : Later(Ticker, d.asks \o r.asks)
    BY <2>3
  <2>5. d.stack \in Seq(States) /\ d.asks \in Seq(CalmSteps)
    BY <2>2, DecisionTypes
  <2>6. r.asks \in Seq(CalmSteps)
    BY <2>2, <2>5, TickedTypes
  <2>7. d.asks \o r.asks \in Seq(CalmSteps)
    BY <2>5, <2>6
  <2>8. program' = [program EXCEPT ![Ticker] = Tail(@) \o (d.asks \o r.asks)]
    BY <2>4 DEF Later
  <2> QED BY <1>0, <2>1, <2>7, <2>8, CalmThen
<1>4. ASSUME Rental \/ Despawn \/ HpTick PROVE Rewritten(Ticker)
  <2>1. program[Ticker] # <<>> /\ ~Grave(Step(Ticker)) /\ Done(Ticker)
    BY <1>4 DEF Rental, Despawn, HpTick, Found, At, Grave, Step
  <2> QED BY <1>0, <2>1, DoneIsTail, CalmPop
<1>5. ASSUME Corpse PROVE Rewritten(Ticker)
  <2>1. program[Ticker] # <<>> /\ ~Grave(Step(Ticker)) /\ Step(Ticker).who \in Actors
    BY <1>0, <1>5, PopTypes DEF Corpse, At, Grave, Step
  <2>2. PICK c \in CorpseActions(Step(Ticker).who) : Then(Ticker, IF c = None THEN <<>> ELSE <<Do(c, Step(Ticker).who)>>)
    BY <1>5 DEF Corpse
  <2>3. c \in {None, "revive", "despawn"}
    BY DEF CorpseActions
  <2> DEFINE S == IF c = None THEN <<>> ELSE <<Do(c, Step(Ticker).who)>>
  <2>4. S \in Seq(CalmSteps)
    BY <2>1, <2>3, CalmTypes, NoSteps
  <2>5. program' = [program EXCEPT ![Ticker] = S \o Tail(@)]
    BY <2>2 DEF Then
  <2> HIDE DEF S
  <2> QED BY <1>0, <2>1, <2>4, <2>5, CalmThen
<1>6. ASSUME ResolveAutoAttack \/ ResolveAction PROVE Rewritten(Ticker)
  <2>1. program[Ticker] # <<>> /\ ~Grave(Step(Ticker)) /\ Step(Ticker) \in Steps /\ Step(Ticker).who \in Actors /\ Step(Ticker).do \in {"auto", "act"}
    BY <1>0, <1>6, PopTypes DEF ResolveAutoAttack, ResolveAction, Found, At, Grave, Step
  <2>2. Step(Ticker).arg \in Actors
    BY <2>1, StepShapes
  <2> DEFINE S == <<With("fell", Step(Ticker).arg, Step(Ticker).who)>>
  <2>3. S \in Seq(CalmSteps)
    BY <2>1, <2>2, CalmTypes
  <2>4. CASE Done(Ticker)
    BY <1>0, <2>1, <2>4, DoneIsTail, CalmPop
  <2>5. CASE program' = [program EXCEPT ![Ticker] = S \o Tail(@)]
    <3> HIDE DEF S
    <3> QED BY <1>0, <2>1, <2>3, <2>5, CalmThen
  <2> QED BY <1>6, <2>4, <2>5 DEF ResolveAutoAttack, ResolveAction, Then
<1>7. ASSUME ActorEngage PROVE Rewritten(Ticker)
  <2>1. program[Ticker] # <<>> /\ ~Grave(Step(Ticker)) /\ Step(Ticker).who \in Actors
    BY <1>0, <1>7, PopTypes DEF ActorEngage, Found, At, Grave, Step
  <2> DEFINE S == IF IsEngaged(stack[Step(Ticker).who]) THEN <<>> ELSE <<With("trio", Step(Ticker).who, "active")>>
  <2>2. S \in Seq(CalmSteps)
    BY <2>1, CalmTypes, NoSteps
  <2>3. program' = [program EXCEPT ![Ticker] = S \o Tail(@)]
    BY <1>7 DEF Then, ActorEngage
  <2> HIDE DEF S
  <2> QED BY <1>0, <2>1, <2>2, <2>3, CalmThen
<1>8. ASSUME DieIfDefenderFell, ~Fell(Step(Ticker).who) PROVE Rewritten(Ticker)
  <2>1. program[Ticker] # <<>> /\ ~Grave(Step(Ticker)) /\ Done(Ticker)
    BY <1>8 DEF DieIfDefenderFell, Found, At, Grave, Step, Done, Then
  <2> QED BY <1>0, <2>1, DoneIsTail, CalmPop
<1> QED BY <1>1, <1>2, <1>3, <1>4, <1>5, <1>6, <1>7, <1>8

\* How each step of a handler changes the program of its task.
LEMMA AskedKinds ==
    ASSUME TypeOK, RitesInv, NEW t \in Tasks
    PROVE  /\ UpdateHate(t) \/ ClearHate(t) \/ ChangeState(t) \/ Revive(t) => Rewritten(t)
           /\ NotFound(t) => \/ Rewritten(t)
                             \/ Step(t).do = "trio" /\ Step(t).arg = "dead" /\ Popped(t)
                             \/ Skipped(t)
           /\ Trio(t) => IF Step(t).arg = "dead" THEN Popped(t) ELSE Rewritten(t)
           /\ Clear(t) \/ Complete(t) => Popped(t)
           /\ Mark(t) => IF main[Step(t).who] = "dead" THEN Skipped(t) ELSE Popped(t)
<1>1. ASSUME UpdateHate(t) \/ ClearHate(t) \/ ChangeState(t) \/ Revive(t) PROVE Rewritten(t)
  <2>1. program[t] # <<>> /\ ~Grave(Step(t)) /\ Done(t)
    BY <1>1 DEF UpdateHate, ClearHate, ChangeState, Revive, Found, At, Grave, Step
  <2> QED BY <2>1, DoneIsTail, CalmPop
<1>2. ASSUME NotFound(t) PROVE Rewritten(t) \/ (Step(t).do = "trio" /\ Step(t).arg = "dead" /\ Popped(t)) \/ Skipped(t)
  <2>1. CASE Step(t).do = "mark"
    <3>1. program' = [program EXCEPT ![t] = SubSeq(@, 5, Len(@))] /\ program[t] # <<>>
      BY <1>2, <2>1 DEF NotFound
    <3>2. program'[t] = SubSeq(program[t], 5, Len(program[t])) /\ Elsewhere(t)
      BY <3>1, ProgramSet
    <3> QED BY <2>1, <3>1, <3>2 DEF Skipped, At, Step
  <2>2. CASE Step(t).do # "mark"
    <3>1. program' = [program EXCEPT ![t] = Tail(@)] /\ program[t] # <<>>
      BY <1>2, <2>2 DEF NotFound
    <3>2. Popped(t)
      BY <3>1, ProgramSet DEF Popped
    <3>3. CASE Grave(Step(t))
      BY <1>2, <2>2, <3>2, <3>3 DEF Grave, NotFound
    <3>4. CASE ~Grave(Step(t))
      BY <3>2, <3>4, CalmPop
    <3> QED BY <3>3, <3>4
  <2> QED BY <2>1, <2>2
<1>3. ASSUME Trio(t) PROVE IF Step(t).arg = "dead" THEN Popped(t) ELSE Rewritten(t)
  <2>1. program[t] # <<>> /\ Step(t).do = "trio" /\ Done(t)
    BY <1>3 DEF Trio, Found, At, Step
  <2>2. Popped(t)
    BY <2>1, DoneIsTail
  <2>3. CASE Step(t).arg # "dead"
    <3>1. ~Grave(Step(t))
      BY <2>1, <2>3 DEF Grave
    <3> QED BY <2>2, <2>3, <3>1, CalmPop
  <2> QED BY <2>2, <2>3
<1>4. ASSUME Clear(t) \/ Complete(t) PROVE Popped(t)
  BY <1>4, DoneIsTail DEF Clear, Complete, At
<1>5. ASSUME Mark(t) PROVE IF main[Step(t).who] = "dead" THEN Skipped(t) ELSE Popped(t)
  <2>0. At(t, "mark") /\ program[t] # <<>>
    BY <1>5 DEF Mark, Found, At
  <2>1. CASE main[Step(t).who] = "dead"
    <3>1. program' = [program EXCEPT ![t] = SubSeq(@, 5, Len(@))]
      BY <1>5, <2>1 DEF Mark
    <3>2. program'[t] = SubSeq(program[t], 5, Len(program[t])) /\ Elsewhere(t)
      BY <3>1, ProgramSet
    <3> QED BY <2>0, <2>1, <3>2 DEF Skipped
  <2>2. CASE main[Step(t).who] # "dead"
    <3>1. Done(t)
      BY <1>5, <2>2 DEF Mark
    <3> QED BY <2>0, <2>2, <3>1, DoneIsTail
  <2> QED BY <2>1, <2>2
<1> QED BY <1>1, <1>2, <1>3, <1>4, <1>5

\* What packets and scripts ask for, but deaths, begins no burial.
LEMMA PacketKinds ==
    ASSUME TypeOK, RitesInv,
           \/ Push
           \/ \E p \in Players : \/ \E x \in Mobs \cup {None}, auto \in BOOLEAN : SetTarget(p, x, auto)
                                 \/ \E x \in Actors, heal \in BOOLEAN : Hotbar(p, x, heal)
                                 \/ Draw(p) \/ Sheathe(p)
           \/ \E a \in Actors : ScriptRevive(a)
    PROVE  Rewritten(Packet)
<1>0. Packet \in Tasks /\ Players \subseteq Actors
  BY OtherTask, Sorts
<1>1. ASSUME NEW s, s \in Seq(CalmSteps), program[Packet] = <<>>, program' = [program EXCEPT ![Packet] = s] PROVE Rewritten(Packet)
  BY <1>0, <1>1, ProgramSet, NoSteps DEF Rewritten
<1>2. CASE Push
  <2>1. program[Packet] # <<>> /\ ~Grave(Step(Packet)) /\ Done(Packet)
    BY <1>2 DEF Push, Found, At, Grave, Step
  <2> QED BY <1>0, <2>1, DoneIsTail, CalmPop
<1>3. ASSUME NEW p \in Players, NEW x \in Mobs \cup {None}, NEW auto \in BOOLEAN, SetTarget(p, x, auto) PROVE Rewritten(Packet)
  BY <1>1, <1>3, NoSteps DEF SetTarget, MayOrder, Order
<1>4. ASSUME NEW p \in Players, NEW x \in Actors, NEW heal \in BOOLEAN, Hotbar(p, x, heal) PROVE Rewritten(Packet)
  <2>1. [do |-> "push", who |-> p, arg |-> x, heal |-> heal] \in CalmSteps
    BY <1>0, CalmTypes
  <2>2. <<[do |-> "push", who |-> p, arg |-> x, heal |-> heal]>> \in Seq(CalmSteps)
    BY <2>1
  <2> QED BY <1>1, <1>4, <2>2 DEF Hotbar, MayOrder, Order
<1>5. ASSUME NEW p \in Players, Draw(p) PROVE Rewritten(Packet)
  <2>1. <<With("trio", p, "active")>> \in Seq(CalmSteps)
    BY <1>0, CalmTypes
  <2> QED BY <1>1, <1>5, <2>1 DEF Draw, MayOrder, Order
<1>6. ASSUME NEW p \in Players, Sheathe(p) PROVE Rewritten(Packet)
  <2> DEFINE S == IF stack[p] # <<>> THEN DisengageAsks(p) ELSE <<With("trio", p, "passive")>>
  <2>1. With("trio", p, "passive") \in CalmSteps /\ Do("forget", p) \in CalmSteps
    BY <1>0, CalmTypes
  <2>2. S \in Seq(CalmSteps)
    BY <2>1 DEF DisengageAsks
  <2>3. program' = [program EXCEPT ![Packet] = S] /\ program[Packet] = <<>>
    BY <1>6 DEF Sheathe, Order, MayOrder
  <2> HIDE DEF S
  <2>4. program'[Packet] = S /\ Elsewhere(Packet)
    BY <1>0, <2>3, ProgramSet
  <2> QED BY <2>2, <2>3, <2>4, NoSteps DEF Rewritten
<1>7. ASSUME NEW a \in Actors, ScriptRevive(a) PROVE Rewritten(Packet)
  <2>1. <<Do("revive", a)>> \in Seq(CalmSteps)
    BY CalmTypes
  <2> QED BY <1>1, <1>7, <2>1 DEF ScriptRevive, MayOrder, Order
<1> QED BY <1>2, <1>3, <1>4, <1>5, <1>6, <1>7

\* An ally that engages by script begins no burial.
LEMMA EngageKind ==
    ASSUME TypeOK, RitesInv, NEW a \in Allies, NEW x \in Mobs, ScriptEngage(a, x)
    PROVE  Rewritten(Ticker)
<1>1. a \in Npcs /\ a \in Actors /\ x \in Actors /\ Ticker \in Tasks
  BY Sorts, OtherTask
<1>2. With("engage", a, x) \in CalmSteps
  BY <1>1, CalmTypes
<1>3. <<With("engage", a, x)>> \in Seq(CalmSteps)
  BY <1>2
<1>4. program' = [program EXCEPT ![Ticker] = <<With("engage", a, x)>>] /\ program[Ticker] = <<>>
  BY DEF ScriptEngage, MayOrder, Order
<1>5. program'[Ticker] = <<With("engage", a, x)>> /\ Elsewhere(Ticker)
  BY <1>1, <1>4, ProgramSet
<1> QED BY <1>3, <1>4, <1>5, NoSteps DEF Rewritten

\* A script that sheathes a player begins no burial.
LEMMA StanceKind ==
    ASSUME TypeOK, RitesInv, NEW t \in Tasks, NEW p \in Players, ScriptSheathe(t, p)
    PROVE  /\ Rewritten(t)
           /\ program[t] = <<>> /\ program'[t] = <<Do("stance", p)>> /\ Elsewhere(t)
           /\ UNCHANGED <<here, up, main, stack, hate, rented, stamped, paid, fired, slipped, crossed, unflushed, raced>>
<1>1. Do("stance", p) \in CalmSteps
  BY Sorts, CalmTypes
<1>2. <<Do("stance", p)>> \in Seq(CalmSteps)
  BY <1>1
<1>3. program' = [program EXCEPT ![t] = <<Do("stance", p)>>] /\ program[t] = <<>>
  BY DEF ScriptSheathe, MayOrder, Order
<1>4. program'[t] = <<Do("stance", p)>> /\ Elsewhere(t)
  BY <1>3, ProgramSet
<1>5. Rewritten(t)
  BY <1>2, <1>3, <1>4, NoSteps DEF Rewritten
<1> QED BY <1>3, <1>4, <1>5 DEF ScriptSheathe, chara

\* The reward is the last step of a burial.
LEMMA AwardKind ==
    ASSUME TypeOK, Award
    PROVE  Popped(Ticker)
BY OtherTask, DoneIsTail DEF Award, At

\* Only a script and the blow that fells its target begin a burial.
LEMMA DieKind ==
    ASSUME TypeOK, RitesInv, NEW a \in Actors, ScriptDie(a)
    PROVE  program[Packet] = <<>> /\ program'[Packet] = Dying(a) /\ Elsewhere(Packet)
<1>1. Packet \in Tasks /\ program' = [program EXCEPT ![Packet] = Dying(a)] /\ program[Packet] = <<>>
  BY OtherTask DEF ScriptDie, MayOrder, Order
<1> QED BY <1>1, ProgramSet

\* The elements of a concatenation.
LEMMA Concat ==
    ASSUME NEW S, NEW p \in Seq(S), NEW q \in Seq(S)
    PROVE  /\ p \o q \in Seq(S) /\ Len(p \o q) = Len(p) + Len(q) /\ Len(p) \in Nat /\ Len(q) \in Nat
           /\ \A i \in 1..Len(p) : (p \o q)[i] = p[i]
           /\ \A i \in 1..Len(q) : (p \o q)[Len(p) + i] = q[i]
OBVIOUS

\* A fallen defender: the program becomes the burial in the order of apply_die, then the reward.
LEMMA FellKind ==
    ASSUME TypeOK, RitesInv, DieIfDefenderFell, Fell(Step(Ticker).who)
    PROVE  LET x == Step(Ticker).who  q == program'[Ticker] IN
           /\ program[Ticker] \in Seq(CalmSteps) /\ program[Ticker] # <<>>
           /\ x \in Actors /\ x \in here /\ Step(Ticker).arg \in Actors
           /\ Elsewhere(Ticker)
           /\ q \in Seq(Steps) /\ Len(q) >= 5
           /\ q[1] = Do("mark", x) /\ q[2] = Do("clear", x) /\ q[3] = With("trio", x, "dead") /\ q[4] = Do("complete", x)
           /\ q[5] = With("award", x, Step(Ticker).arg)
           /\ \A i \in DOMAIN q : i > 5 => ~Grave(q[i])
<1> DEFINE x == Step(Ticker).who  y == Step(Ticker).arg  q == program'[Ticker]
<1>1. Ticker \in Tasks /\ program[Ticker] # <<>> /\ Step(Ticker) \in Steps /\ x \in Actors /\ Step(Ticker).do = "fell" /\ x \in here
  BY OtherTask, PopTypes DEF DieIfDefenderFell, Found, At, Step
<1>2. y \in Actors /\ program[Ticker] \in Seq(CalmSteps)
  BY <1>1, StepShapes, CalmBefore DEF Grave
<1>3. program' = [program EXCEPT ![Ticker] = (Dying(x) \o <<With("award", x, y)>>) \o Tail(@)]
  BY DEF DieIfDefenderFell, Then
<1>4. q = (Dying(x) \o <<With("award", x, y)>>) \o Tail(program[Ticker]) /\ Elsewhere(Ticker)
  BY <1>1, <1>3, ProgramSet
<1>5. Dying(x) \in Seq(Steps) /\ Len(Dying(x)) = 4 /\ With("award", x, y) \in Steps
  BY <1>1, <1>2, DyingTypes, StepTypes
<1>6. Dying(x)[1] = Do("mark", x) /\ Dying(x)[2] = Do("clear", x) /\ Dying(x)[3] = With("trio", x, "dead") /\ Dying(x)[4] = Do("complete", x)
  BY DEF Dying
<1> DEFINE D == Dying(x)  W == With("award", x, y)  r == Tail(program[Ticker])  E == D \o <<W>>
<1>7. r \in Seq(CalmSteps) /\ r \in Seq(Steps) /\ Calm(r)
  <2>1. r \in Seq(CalmSteps)
    BY <1>1, <1>2
  <2> HIDE DEF r
  <2> QED BY <2>1, CalmSeq
<1>8. E \in Seq(Steps) /\ Len(E) = 5 /\ E[1] = D[1] /\ E[2] = D[2] /\ E[3] = D[3] /\ E[4] = D[4] /\ E[5] = W
  <2>1. D \in Seq(Steps) /\ Len(D) = 4 /\ W \in Steps
    BY <1>5
  <2> HIDE DEF D, W
  <2>2. <<W>> \in Seq(Steps) /\ Len(<<W>>) = 1 /\ <<W>>[1] = W
    BY <2>1
  <2>3. E \in Seq(Steps) /\ Len(E) = 5 /\ (\A i \in 1..4 : E[i] = D[i]) /\ E[5] = W
    <3>1. /\ D \o <<W>> \in Seq(Steps) /\ Len(D \o <<W>>) = Len(D) + Len(<<W>>)
          /\ \A i \in 1..Len(D) : (D \o <<W>>)[i] = D[i]
          /\ \A i \in 1..Len(<<W>>) : (D \o <<W>>)[Len(D) + i] = <<W>>[i]
      BY <2>1, <2>2, Concat
    <3> QED BY <2>1, <2>2, <3>1
  <2> QED BY <2>3
<1>9. q = E \o r
  BY <1>4
<1> HIDE DEF E, r, q
<1>10. /\ q \in Seq(Steps) /\ Len(q) = 5 + Len(r) /\ Len(r) \in Nat
       /\ q[1] = E[1] /\ q[2] = E[2] /\ q[3] = E[3] /\ q[4] = E[4] /\ q[5] = E[5]
       /\ \A i \in DOMAIN q : i > 5 => i - 5 \in DOMAIN r /\ q[i] = r[i - 5]
  <2>1. Len(r) \in Nat /\ q \in Seq(Steps) /\ Len(q) = 5 + Len(r)
    <3>1. E \o r \in Seq(Steps) /\ Len(E \o r) = Len(E) + Len(r) /\ Len(r) \in Nat
      BY <1>7, <1>8, Concat
    <3> QED BY <1>8, <1>9, <3>1
  <2>2. q[1] = E[1] /\ q[2] = E[2] /\ q[3] = E[3] /\ q[4] = E[4] /\ q[5] = E[5]
    <3>1. \A i \in 1..Len(E) : (E \o r)[i] = E[i]
      BY <1>7, <1>8, Concat
    <3>2. 1 \in 1..Len(E) /\ 2 \in 1..Len(E) /\ 3 \in 1..Len(E) /\ 4 \in 1..Len(E) /\ 5 \in 1..Len(E)
      BY <1>8
    <3> QED BY <1>9, <3>1, <3>2
  <2>3. \A i \in DOMAIN q : i > 5 => i - 5 \in DOMAIN r /\ q[i] = r[i - 5]
    BY <1>7, <1>8, <1>9, <2>1
  <2> QED BY <2>1, <2>2, <2>3
<1>11. \A i \in DOMAIN q : i > 5 => ~Grave(q[i])
  BY <1>7, <1>10 DEF Calm
<1>12. /\ q[1] = Do("mark", x) /\ q[2] = Do("clear", x) /\ q[3] = With("trio", x, "dead") /\ q[4] = Do("complete", x)
       /\ q[5] = With("award", x, y) /\ Len(q) >= 5
  BY <1>6, <1>8, <1>10
<1> QED BY <1>1, <1>2, <1>4, <1>10, <1>11, <1>12 DEF q

\* What each way of changing a program does to the steps that are pending in it.
RiteKinds == {"mark", "clear", "complete", "award"}

\* A step of one task leaves what the others have pending.
LEMMA ElsewherePending ==
    ASSUME NEW t \in Tasks, Elsewhere(t), NEW u \in Tasks, u # t
    PROVE  /\ program'[u] = program[u]
           /\ \A i, w, x : Pending(u, i, w, x)' <=> Pending(u, i, w, x)
           /\ \A i, x : Laid(u, i, x)' <=> Laid(u, i, x)
BY DEF Elsewhere, Pending, Laid

\* A program without burial has no step of one pending, before or after.
LEMMA RewrittenPending ==
    ASSUME NEW t \in Tasks, Rewritten(t)
    PROVE  /\ \A i, x : ~Laid(t, i, x) /\ ~Laid(t, i, x)'
           /\ \A i, x : \A w \in RiteKinds : ~Pending(t, i, w, x) /\ ~Pending(t, i, w, x)'
<1>1. Calm(program[t]) /\ Calm(program'[t])
  BY CalmSeq DEF Rewritten
<1> QED BY <1>1 DEF Calm, Grave, Pending, Laid, RiteKinds

\* When a step is taken off, what is pending moves up by one.
LEMMA PoppedPending ==
    ASSUME TypeOK, NEW t \in Tasks, Popped(t)
    PROVE  /\ \A i \in Nat \ {0} : \A w, x : Pending(t, i, w, x)' <=> Pending(t, i + 1, w, x)
           /\ \A i \in Nat \ {0} : \A x : Laid(t, i, x)' <=> Laid(t, i + 1, x)
<1>1. program[t] \in Seq(Steps) /\ program[t] # <<>> /\ program'[t] = Tail(program[t])
  BY DEF TypeOK, Popped
<1>2. /\ DOMAIN Tail(program[t]) = 1..(Len(program[t]) - 1) /\ DOMAIN program[t] = 1..Len(program[t]) /\ Len(program[t]) \in Nat
      /\ \A i \in DOMAIN Tail(program[t]) : i + 1 \in DOMAIN program[t] /\ Tail(program[t])[i] = program[t][i + 1]
  BY <1>1
<1>3. \A i \in Nat \ {0} : i \in DOMAIN program'[t] <=> i + 1 \in DOMAIN program[t]
  BY <1>1, <1>2
<1>4. \A i \in DOMAIN program'[t] : program'[t][i] = program[t][i + 1]
  BY <1>1, <1>2
<1> QED BY <1>3, <1>4 DEF Pending, Laid

\* When an actor is dead already, of its burial only the reward is left.
LEMMA SkippedPending ==
    ASSUME TypeOK, RitesInv, NEW t \in Tasks, Skipped(t)
    PROVE  /\ \A i, x : ~Laid(t, i, x)'
           /\ \A i, x : \A w \in {"mark", "clear", "complete"} : ~Pending(t, i, w, x)'
           /\ \A i, x : Pending(t, i, "award", x)' => i = 1 /\ x = Step(t).who /\ Pending(t, 5, "award", x)
           /\ \A i \in DOMAIN program'[t] : Grave(program'[t][i]) => i = 1 /\ program'[t][i].do = "award" /\ program'[t][i].who = Step(t).who
<1>1. program[t] \in Seq(Steps) /\ program[t] # <<>> /\ program'[t] = SubSeq(program[t], 5, Len(program[t])) /\ Step(t).do = "mark"
  BY DEF TypeOK, Skipped, At, Step
<1>2. \A i \in DOMAIN program'[t] : i + 4 \in DOMAIN program[t] /\ program'[t][i] = program[t][i + 4] /\ i \in Nat /\ i >= 1
  <2>1. \A i \in DOMAIN SubSeq(program[t], 5, Len(program[t])) : i + 5 - 1 \in DOMAIN program[t] /\ SubSeq(program[t], 5, Len(program[t]))[i] = program[t][i + 5 - 1]
    BY <1>1, Suffix
  <2>2. SubSeq(program[t], 5, Len(program[t])) \in Seq(Steps)
    BY <1>1, Suffix
  <2>3. \A i \in DOMAIN program'[t] : i \in Nat /\ i >= 1 /\ i + 5 - 1 = i + 4
    BY <1>1, <2>2
  <2> QED BY <1>1, <2>1, <2>3
<1>3. \A i \in DOMAIN program[t] : i >= 5 /\ Grave(program[t][i]) => Pending(t, 5, "award", Step(t).who) /\ i = 5
  BY <1>1, RiteFacts
<1>4. \A i \in DOMAIN program'[t] : Grave(program'[t][i]) => Pending(t, 5, "award", Step(t).who) /\ i = 1 /\ program'[t][i] = program[t][5]
  BY <1>2, <1>3
<1> QED BY <1>4 DEF Pending, Laid, Grave

\* The rites are in order at first, and every action keeps them in order.
LEMMA RitesInit == Init => RitesInv
<1> SUFFICES ASSUME Init PROVE RitesInv
  OBVIOUS
<1>1. Ticker \in Tasks /\ Packet \in Tasks
  BY OtherTask
<1>2. ASSUME NEW t \in Tasks PROVE \E x \in Actors, k \in 1..5 : Burying(program[t], x, k)
  <2>1. program[t] = <<>>
    BY DEF Init
  <2>2. Calm(<<>>) /\ <<>> \in Seq(Steps)
    BY NoSteps DEF Calm
  <2>3. PICK x \in Actors : TRUE
    BY MobsAssumption, Sorts
  <2>4. Burying(program[t], x, 5)
    BY <2>1, <2>2, CalmBuried
  <2> QED BY <2>4
<1>3. \A i \in DOMAIN program[Packet] : program[Packet][i].do # "award"
  BY <1>1 DEF Init
<1> QED BY <1>2, <1>3 DEF RitesInv

\* Burials stay in order by a step of each kind.
LEMMA RitesStep ==
    ASSUME TypeOK, RitesInv, TypeOK', NEW t \in Tasks, Rewritten(t) \/ Popped(t) \/ Skipped(t)
    PROVE  RitesInv'
<1>1. Packet \in Tasks /\ \A u \in Tasks : program[u] \in Seq(Steps) /\ program'[u] \in Seq(Steps)
  BY OtherTask DEF TypeOK
<1>2. Elsewhere(t)
  BY DEF Rewritten, Popped, Skipped
<1>3. PICK x0 \in Actors, k0 \in 1..5 : Burying(program[t], x0, k0)
  BY DEF RitesInv
<1>4. \E x \in Actors, k \in 1..5 : Burying(program'[t], x, k)
  <2>1. CASE Rewritten(t)
    <3>1. Calm(program'[t])
      BY <2>1, CalmSeq DEF Rewritten
    <3>2. Burying(program'[t], x0, 5)
      BY <1>1, <3>1, CalmBuried
    <3> QED BY <3>2
  <2>2. CASE Popped(t)
    <3>1. \E j \in 1..5 : Burying(Tail(program[t]), x0, j)
      BY <1>1, <1>3, <2>2, TailBuried DEF Popped
    <3> QED BY <2>2, <3>1 DEF Popped
  <2>3. CASE Skipped(t)
    <3> DEFINE w == Step(t).who
    <3>1. \A i \in DOMAIN program'[t] : Grave(program'[t][i]) => i = 1 /\ program'[t][i].do = "award" /\ program'[t][i].who = w
      BY <2>3, SkippedPending
    <3>2. Rites(program'[t], w, 5) /\ w \in Actors
      BY <2>3, PopTypes DEF Rites, Skipped, At
    <3>3. Burying(program'[t], w, 5)
      BY <1>1, <3>1, <3>2, RitesSpelled
    <3> QED BY <3>2, <3>3
  <2> QED BY <2>1, <2>2, <2>3
<1>5. \A u \in Tasks : \E x \in Actors, k \in 1..5 : Burying(program'[u], x, k)
  BY <1>2, <1>4 DEF RitesInv, Elsewhere
<1>6. \A i \in DOMAIN program'[Packet] : program'[Packet][i].do # "award"
  <2>1. CASE t # Packet
    BY <1>1, <1>2, <2>1 DEF RitesInv, Elsewhere
  <2>2. CASE t = Packet
    <3> SUFFICES ASSUME NEW i \in DOMAIN program'[t] PROVE program'[t][i].do # "award"
      BY <2>2
    <3>0. i \in Nat \ {0}
      BY <1>1
    <3>1. \A j, x : ~Pending(t, j, "award", x)
      BY <2>2 DEF RitesInv, Pending
    <3> DEFINE y == program'[t][i].who
    <3>a. PICK x : x = y
      OBVIOUS
    <3>2. ~Pending(t, i, "award", x)'
      <4>1. CASE Rewritten(t)
        BY <4>1, RewrittenPending DEF RiteKinds
      <4>2. CASE Popped(t)
        BY <3>0, <3>1, <4>2, PoppedPending
      <4>3. CASE Skipped(t)
        BY <3>1, <4>3, SkippedPending
      <4> QED BY <4>1, <4>2, <4>3
    <3> QED BY <3>a, <3>2 DEF Pending
  <2> QED BY <2>1, <2>2
<1> QED BY <1>5, <1>6 DEF RitesInv

\* Burials stay in order when one begins.
LEMMA RitesBegun ==
    ASSUME TypeOK, RitesInv, TypeOK',
           (\E a \in Actors : ScriptDie(a)) \/ (DieIfDefenderFell /\ Fell(Step(Ticker).who))
    PROVE  RitesInv'
<1>0. Packet \in Tasks /\ Ticker \in Tasks /\ Packet # Ticker /\ Tasks = {Ticker, Packet}
  BY OtherTask
<1>1. ASSUME NEW a \in Actors, ScriptDie(a) PROVE RitesInv'
  <2>1. program'[Packet] = Dying(a) /\ Elsewhere(Packet)
    BY <1>1, DieKind
  <2>2. /\ Dying(a) \in Seq(Steps) /\ Len(Dying(a)) = 4
        /\ Dying(a)[1] = Do("mark", a) /\ Dying(a)[2] = Do("clear", a) /\ Dying(a)[3] = With("trio", a, "dead") /\ Dying(a)[4] = Do("complete", a)
    BY DyingTypes DEF Dying
  <2>3. Burying(Dying(a), a, 1)
    <3>1. Rites(Dying(a), a, 1)
      BY <2>2 DEF Rites
    <3>2. \A i \in DOMAIN Dying(a) : ~(i > 4)
      BY <2>2
    <3> QED BY <2>2, <3>1, <3>2, RitesSpelled
  <2>4. \A i \in DOMAIN Dying(a) : Dying(a)[i].do # "award"
    <3>1. DOMAIN Dying(a) = {1, 2, 3, 4}
      BY <2>2
    <3>2. Do("mark", a).do = "mark" /\ Do("clear", a).do = "clear" /\ With("trio", a, "dead").do = "trio" /\ Do("complete", a).do = "complete"
      BY DoFields
    <3>3. Dying(a)[1].do # "award" /\ Dying(a)[2].do # "award" /\ Dying(a)[3].do # "award" /\ Dying(a)[4].do # "award"
      BY <2>2, <3>2
    <3> QED BY <3>1, <3>3
  <2>5. \A u \in Tasks : \E x \in Actors, k \in 1..5 : Burying(program'[u], x, k)
    <3>1. \E x \in Actors, k \in 1..5 : Burying(program'[Packet], x, k)
      BY <2>1, <2>3
    <3>2. \E x \in Actors, k \in 1..5 : Burying(program'[Ticker], x, k)
      BY <1>0, <2>1 DEF Elsewhere, RitesInv
    <3> QED BY <1>0, <3>1, <3>2
  <2> QED BY <2>1, <2>4, <2>5 DEF RitesInv
<1>2. ASSUME DieIfDefenderFell, Fell(Step(Ticker).who) PROVE RitesInv'
  <2> DEFINE x == Step(Ticker).who  q == program'[Ticker]
  <2>1. /\ x \in Actors /\ Elsewhere(Ticker) /\ q \in Seq(Steps) /\ Len(q) >= 5
        /\ q[1] = Do("mark", x) /\ q[2] = Do("clear", x) /\ q[3] = With("trio", x, "dead") /\ q[4] = Do("complete", x)
        /\ q[5] = With("award", x, Step(Ticker).arg)
        /\ \A i \in DOMAIN q : i > 5 => ~Grave(q[i])
    BY <1>2, FellKind
  <2>2. Burying(q, x, 1)
    <3>1. Rites(q, x, 1)
      BY <2>1 DEF Rites
    <3>2. q[5].do = "award" /\ q[5].who = x
      BY <2>1, DoFields
    <3> HIDE DEF q, x
    <3>3. \A i \in DOMAIN q : i > 4 /\ Grave(q[i]) => i = 5 /\ q[i].do = "award" /\ q[i].who = x
      BY <2>1, <3>2
    <3> QED BY <2>1, <3>1, <3>3, RitesSpelled
  <2>3. program'[Packet] = program[Packet]
    BY <1>0, <2>1 DEF Elsewhere
  <2>4. \A u \in Tasks : \E y \in Actors, k \in 1..5 : Burying(program'[u], y, k)
    <3>1. \E y \in Actors, k \in 1..5 : Burying(program'[Ticker], y, k)
      BY <2>1, <2>2
    <3>2. \E y \in Actors, k \in 1..5 : Burying(program'[Packet], y, k)
      BY <1>0, <2>3 DEF RitesInv
    <3> QED BY <1>0, <3>1, <3>2
  <2> QED BY <2>3, <2>4 DEF RitesInv
<1> QED BY <1>1, <1>2

\* Burials stay in order by every step.
LEMMA RitesNext ==
    ASSUME TypeOK, TypeOK', RitesInv, [Next]_vars
    PROVE  RitesInv'
<1>0. Ticker \in Tasks /\ Packet \in Tasks
  BY OtherTask
<1>1. CASE UNCHANGED vars
  BY <1>1 DEF vars, RitesInv
<1>2. CASE Next
  <2>1. CASE \/ \E a \in Actors : TakeTurn(a)
             \/ Look \/ Update \/ Rental \/ Corpse \/ Despawn \/ HpTick
             \/ ResolveAutoAttack \/ ResolveAction \/ ActorEngage \/ (DieIfDefenderFell /\ ~Fell(Step(Ticker).who))
    BY <1>0, <2>1, TurnKinds, RitesStep
  <2>2. CASE (\E a \in Actors : ScriptDie(a)) \/ (DieIfDefenderFell /\ Fell(Step(Ticker).who))
    BY <2>2, RitesBegun
  <2>3. CASE Award
    BY <1>0, <2>3, AwardKind, RitesStep
  <2>4. ASSUME NEW t \in Tasks, NotFound(t) \/ UpdateHate(t) \/ ClearHate(t) \/ Trio(t) \/ ChangeState(t) \/ Mark(t) \/ Clear(t) \/ Complete(t) \/ Revive(t)
        PROVE  RitesInv'
    <3>1. Rewritten(t) \/ Popped(t) \/ Skipped(t)
      BY <2>4, AskedKinds
    <3> QED BY <3>1, RitesStep
  <2>5. CASE \/ Push
             \/ \E p \in Players : \/ \E x \in Mobs \cup {None}, auto \in BOOLEAN : SetTarget(p, x, auto)
                                   \/ \E x \in Actors, heal \in BOOLEAN : Hotbar(p, x, heal)
                                   \/ Draw(p) \/ Sheathe(p)
             \/ \E a \in Actors : ScriptRevive(a)
    <3>1. Rewritten(Packet)
      BY <2>5, PacketKinds
    <3> QED BY <1>0, <3>1, RitesStep
  <2>6. ASSUME NEW a \in Allies, NEW x \in Mobs, ScriptEngage(a, x) PROVE RitesInv'
    BY <1>0, <2>6, EngageKind, RitesStep
  <2>7. ASSUME NEW t \in Tasks, NEW p \in Players, ScriptSheathe(t, p) PROVE RitesInv'
    BY <2>7, StanceKind, RitesStep
  <2> QED BY <1>2, <2>1, <2>2, <2>3, <2>4, <2>5, <2>6, <2>7 DEF Next
<1> QED BY <1>1, <1>2

-----------------------------------------------------------------------------
(* A kill is paid once *)

\* A kill is paid at most once: the reward is pending only while it is unpaid; while the burial
\* it belongs to has not begun the mob may be dead already, but then unpaid; and while the packet
\* task is laying the mob out no reward for it is pending or paid.
KillInv ==
    \A x \in Mobs :
        /\ paid[x] <= 1
        /\ \A i \in 1..4 : Pending(Ticker, i, "award", x) => paid[x] = 0
        /\ Pending(Ticker, 5, "award", x) => x \in here /\ (main[x] = "dead" => paid[x] = 0)
        /\ (\E i \in {1, 2} : Laid(Packet, i, x)) /\ main[x] # "dead" =>
               paid[x] = 0 /\ \A i \in 1..4 : ~Pending(Ticker, i, "award", x)

\* A step that rewrites a program without rites and leaves rewards and deaths alone.
LEMMA KillCalm ==
    ASSUME KillInv, NEW t \in Tasks, Rewritten(t), paid' = paid, t = Ticker \/ here' = here,
           \A x \in Mobs : main'[x] = "dead" <=> main[x] = "dead"
    PROVE  KillInv'
<1>0. Ticker \in Tasks /\ Packet \in Tasks /\ Ticker # Packet /\ Tasks = {Ticker, Packet} /\ Elsewhere(t)
  BY OtherTask DEF Rewritten
<1>1. CASE t = Ticker
  <2>1. \A i, x : ~Pending(Ticker, i, "award", x)'
    BY <1>0, <1>1, RewrittenPending DEF RiteKinds
  <2>2. \A i, x : Laid(Packet, i, x)' <=> Laid(Packet, i, x)
    BY <1>0, <1>1, ElsewherePending
  <2> QED BY <2>1, <2>2 DEF KillInv
<1>2. CASE t = Packet
  <2>1. \A i, x : Pending(Ticker, i, "award", x)' <=> Pending(Ticker, i, "award", x)
    BY <1>0, <1>2, ElsewherePending
  <2>2. \A i, x : ~Laid(Packet, i, x)'
    BY <1>0, <1>2, RewrittenPending
  <2> QED BY <1>0, <1>2, <2>1, <2>2 DEF KillInv
<1> QED BY <1>0, <1>1, <1>2

\* Past the mark, no reward is further than four steps away and no stance further than two.
LEMMA PastMark ==
    ASSUME TypeOK, RitesInv, NEW t \in Tasks, program[t] # <<>>, Step(t).do # "mark", NEW x, NEW i \in Nat
    PROVE  /\ i >= 5 => ~Pending(t, i, "award", x)
           /\ i >= 3 => ~Laid(t, i, x)
           /\ i >= 4 => ~Pending(t, i, "complete", x)
           /\ i >= 2 => ~Pending(t, i, "mark", x)
<1>1. CASE ~Grave(Step(t))
  <2>1. Calm(program[t])
    BY <1>1, RiteFacts
  <2> QED BY <2>1 DEF Calm, Grave, Pending, Laid
<1>2. CASE Step(t).do = "clear"
  <2>1. /\ program[t][2].do = "trio" /\ program[t][3].do = "complete"
        /\ i \in DOMAIN program[t] /\ i >= 4 /\ Grave(program[t][i]) => program[t][4].do = "award" /\ i = 4
    BY <1>2, RiteFacts DEF Pending, Laid
  <2> QED BY <2>1 DEF Grave, Pending, Laid
<1>3. CASE Step(t).do = "trio" /\ Step(t).arg = "dead"
  <2>1. Laid(t, 1, Step(t).who)
    BY <1>3, RiteFacts DEF Laid, Pending
  <2>2. /\ program[t][2].do = "complete"
        /\ i \in DOMAIN program[t] /\ i >= 3 /\ Grave(program[t][i]) => program[t][3].do = "award" /\ i = 3
    BY <2>1, RiteFacts DEF Pending
  <2> QED BY <2>2 DEF Grave, Pending, Laid
<1>4. CASE Step(t).do = "complete"
  <2>1. i \in DOMAIN program[t] /\ i >= 2 /\ Grave(program[t][i]) => program[t][2].do = "award" /\ i = 2
    BY <1>4, RiteFacts DEF Pending
  <2> QED BY <2>1 DEF Grave, Pending, Laid
<1>5. CASE Step(t).do = "award"
  <2>1. i \in DOMAIN program[t] /\ i >= 2 => ~Grave(program[t][i])
    BY <1>5, RiteFacts DEF Pending
  <2> QED BY <2>1 DEF Grave, Pending, Laid
<1> QED BY <1>1, <1>2, <1>3, <1>4, <1>5 DEF Grave

\* A step of the rites behind the mark that pays nothing.
LEMMA KillPopped ==
    ASSUME TypeOK, RitesInv, KillInv, NEW t \in Tasks, Popped(t), Step(t).do # "mark", here' = here, paid' = paid,
           \A x \in Mobs : (main[x] = "dead" => main'[x] = "dead") /\ (main'[x] = "dead" => main[x] = "dead" \/ Laid(t, 1, x))
    PROVE  KillInv'
<1>0. Ticker \in Tasks /\ Packet \in Tasks /\ Ticker # Packet /\ Tasks = {Ticker, Packet} /\ Elsewhere(t) /\ program[t] # <<>>
  BY OtherTask DEF Popped
<1> SUFFICES ASSUME NEW x \in Mobs
             PROVE  /\ paid'[x] <= 1
                    /\ \A i \in 1..4 : Pending(Ticker, i, "award", x)' => paid'[x] = 0
                    /\ Pending(Ticker, 5, "award", x)' => x \in here' /\ (main'[x] = "dead" => paid'[x] = 0)
                    /\ (\E i \in {1, 2} : Laid(Packet, i, x)') /\ main'[x] # "dead" =>
                           paid'[x] = 0 /\ \A i \in 1..4 : ~Pending(Ticker, i, "award", x)'
  BY DEF KillInv
<1>k. /\ paid[x] <= 1
      /\ \A i \in 1..4 : Pending(Ticker, i, "award", x) => paid[x] = 0
      /\ Pending(Ticker, 5, "award", x) => x \in here /\ (main[x] = "dead" => paid[x] = 0)
      /\ (\E i \in {1, 2} : Laid(Packet, i, x)) /\ main[x] # "dead" =>
             paid[x] = 0 /\ \A i \in 1..4 : ~Pending(Ticker, i, "award", x)
  BY DEF KillInv
<1>1. CASE t = Ticker
  <2>1. \A i : Laid(Packet, i, x)' <=> Laid(Packet, i, x)
    BY <1>0, <1>1, ElsewherePending
  <2>2. \A i \in 1..5 : Pending(Ticker, i, "award", x)' <=> Pending(Ticker, i + 1, "award", x)
    BY <1>1, PoppedPending
  <2>3. ~Pending(Ticker, 5, "award", x) /\ ~Pending(Ticker, 6, "award", x)
    BY <1>0, <1>1, PastMark
  <2>4. ~Pending(Ticker, 5, "award", x)' /\ ~Pending(Ticker, 4, "award", x)' /\ \A i \in 1..3 : Pending(Ticker, i, "award", x)' => i + 1 \in 1..4 /\ Pending(Ticker, i + 1, "award", x)
    BY <2>2, <2>3
  <2>5. \A i \in 1..4 : Pending(Ticker, i, "award", x)' => \E j \in 1..4 : Pending(Ticker, j, "award", x)
    BY <2>4
  <2> QED BY <1>k, <2>1, <2>4, <2>5
<1>2. CASE t = Packet
  <2>1. \A i : Pending(Ticker, i, "award", x)' <=> Pending(Ticker, i, "award", x)
    BY <1>0, <1>2, ElsewherePending
  <2>2. \A i \in 1..2 : Laid(Packet, i, x)' <=> Laid(Packet, i + 1, x)
    BY <1>2, PoppedPending
  <2>3. ~Laid(Packet, 3, x)
    BY <1>0, <1>2, PastMark
  <2>4. (\E i \in {1, 2} : Laid(Packet, i, x)') => Laid(Packet, 2, x)
    BY <2>2, <2>3
  <2> QED BY <1>2, <1>k, <2>1, <2>4
<1> QED BY <1>0, <1>1, <1>2

\* KillInv holds at first, and every action keeps it.
LEMMA KillInit == Init => KillInv
<1> SUFFICES ASSUME Init PROVE KillInv
  OBVIOUS
<1>1. \A t \in Tasks : program[t] = <<>>
  BY DEF Init
<1>2. Ticker \in Tasks /\ Packet \in Tasks
  BY OtherTask
<1>3. \A i, x : ~Pending(Ticker, i, "award", x) /\ ~Laid(Packet, i, x)
  BY <1>1, <1>2 DEF Pending, Laid
<1>4. \A x \in Mobs : paid[x] = 0
  BY DEF Init
<1> QED BY <1>3, <1>4 DEF KillInv

\* No second reward by a step of a handler.
LEMMA KillAsked ==
    ASSUME TypeOK, TypeOK', RitesInv, KillInv, NEW t \in Tasks,
           NotFound(t) \/ UpdateHate(t) \/ ClearHate(t) \/ Trio(t) \/ ChangeState(t) \/ Mark(t) \/ Clear(t) \/ Complete(t) \/ Revive(t)
    PROVE  KillInv'
<1>0. Ticker \in Tasks /\ Packet \in Tasks /\ Ticker # Packet /\ Tasks = {Ticker, Packet} /\ Mobs \subseteq Actors
  BY OtherTask, Sorts
<1>1. program[t] # <<>> /\ Step(t) = program[t][1] /\ 1 \in DOMAIN program[t] /\ Step(t).who \in Actors
  <2>1. program[t] # <<>>
    BY DEF NotFound, UpdateHate, ClearHate, Trio, ChangeState, Mark, Clear, Complete, Revive, Found, At
  <2> QED BY <2>1, RiteFacts, PopTypes
<1> DEFINE a == Step(t).who
<1>2. ASSUME UpdateHate(t) \/ ClearHate(t) PROVE KillInv'
  BY <1>2, AskedKinds, KillCalm DEF UpdateHate, ClearHate, history
<1>14. ASSUME ChangeState(t) PROVE KillInv'
  <2>1. UNCHANGED <<here, paid>> /\ main' = (IF main[a] = "dead" THEN main ELSE [main EXCEPT ![a] = "passive"]) /\ Rewritten(t)
    BY <1>14, AskedKinds DEF ChangeState
  <2>2. \A x \in Mobs : main'[x] = "dead" <=> main[x] = "dead"
    BY <1>0, <1>1, <2>1 DEF TypeOK
  <2> QED BY <2>1, <2>2, KillCalm
<1>3. ASSUME Clear(t) \/ Complete(t) PROVE KillInv'
  <2>1. UNCHANGED <<here, main, paid>> /\ Popped(t) /\ Step(t).do # "mark"
    BY <1>3, AskedKinds DEF Clear, Complete, chara, At, Step
  <2> QED BY <2>1, KillPopped
<1>4. ASSUME Skipped(t), UNCHANGED <<here, main, paid>>, main[a] = "dead" \/ a \notin here PROVE KillInv'
  <2>0. Elsewhere(t)
    BY <1>4 DEF Skipped
  <2>1. CASE t = Ticker
    <3>1. \A i, x : Laid(Packet, i, x)' <=> Laid(Packet, i, x)
      BY <1>0, <2>0, <2>1, ElsewherePending
    <3>2. \A i, x : Pending(Ticker, i, "award", x)' => i = 1 /\ x = a /\ Pending(Ticker, 5, "award", x)
      BY <1>4, <2>1, SkippedPending
    <3>3. ASSUME NEW x \in Mobs PROVE \A i : Pending(Ticker, i, "award", x)' => i = 1 /\ paid[x] = 0 /\ main[x] = "dead"
      BY <1>4, <3>2 DEF KillInv
    <3> QED BY <1>4, <3>1, <3>3 DEF KillInv
  <2>2. CASE t = Packet
    <3>1. \A i, x : Pending(Ticker, i, "award", x)' <=> Pending(Ticker, i, "award", x)
      BY <1>0, <2>0, <2>2, ElsewherePending
    <3>2. \A i, x : ~Laid(Packet, i, x)'
      BY <1>4, <2>2, SkippedPending
    <3> QED BY <1>4, <3>1, <3>2 DEF KillInv
  <2> QED BY <1>0, <2>1, <2>2
<1>5. ASSUME NotFound(t) PROVE KillInv'
  <2>1. UNCHANGED <<here, main, paid>> /\ a \notin here
    BY <1>5 DEF NotFound, chara, history
  <2>2. CASE Rewritten(t)
    BY <2>1, <2>2, KillCalm
  <2>3. CASE Step(t).do = "trio" /\ Popped(t)
    BY <2>1, <2>3, KillPopped
  <2>4. CASE Skipped(t)
    BY <1>4, <2>1, <2>4
  <2> QED BY <1>5, <2>2, <2>3, <2>4, AskedKinds
<1>6. ASSUME Trio(t) PROVE KillInv'
  <2>1. Step(t).do = "trio" /\ UNCHANGED <<here, paid>> /\ main' = IF main[a] = "dead" THEN main ELSE [main EXCEPT ![a] = Step(t).arg]
    BY <1>6 DEF Trio, Found, At, Step, history
  <2>2. CASE Step(t).arg = "dead"
    <3>1. Popped(t) /\ Laid(t, 1, a)
      BY <1>1, <1>6, <2>1, <2>2, AskedKinds DEF Laid, Pending
    <3>2. \A x \in Mobs : (main[x] = "dead" => main'[x] = "dead") /\ (main'[x] = "dead" => main[x] = "dead" \/ Laid(t, 1, x))
      BY <1>0, <1>1, <2>1, <2>2, <3>1 DEF TypeOK
    <3> QED BY <2>1, <3>1, <3>2, KillPopped
  <2>3. CASE Step(t).arg # "dead"
    <3>1. Rewritten(t)
      BY <1>6, <2>3, AskedKinds
    <3>2. \A x \in Mobs : main'[x] = "dead" <=> main[x] = "dead"
      BY <1>0, <1>1, <2>1, <2>3 DEF TypeOK
    <3> QED BY <2>1, <3>1, <3>2, KillCalm
  <2> QED BY <2>2, <2>3
<1>7. ASSUME Mark(t), main[a] # "dead" PROVE KillInv'
  <2>1. /\ Popped(t) /\ Elsewhere(t) /\ Step(t).do = "mark" /\ a \in here /\ here' = here
        /\ main' = [main EXCEPT ![a] = "dead"]
        /\ paid' = [m \in Mobs |-> IF m = a THEN 0 ELSE paid[m]]
    BY <1>7, AskedKinds DEF Mark, Found, At, Step, Popped
  <2>2. \A x \in Mobs \ {a} : main'[x] = main[x] /\ paid'[x] = paid[x]
    BY <1>0, <1>1, <2>1 DEF TypeOK
  <2>3. main'[a] = "dead" /\ (a \in Mobs => paid'[a] = 0)
    BY <1>1, <2>1 DEF TypeOK
  <2>4. CASE t = Ticker
    <3>1. \A i, x : Laid(Packet, i, x)' <=> Laid(Packet, i, x)
      BY <1>0, <2>1, <2>4, ElsewherePending
    <3>2. \A i \in 1..5, x \in Mobs : Pending(Ticker, i, "award", x)' => i = 4 /\ x = a
      <4> SUFFICES ASSUME NEW i \in 1..5, NEW x \in Mobs, Pending(Ticker, i, "award", x)' PROVE i = 4 /\ x = a
        OBVIOUS
      <4>1. Pending(Ticker, i + 1, "award", x)
        BY <2>1, <2>4, PoppedPending
      <4>2. /\ Pending(Ticker, 2, "clear", a) /\ Laid(Ticker, 3, a) /\ Pending(Ticker, 4, "complete", a)
            /\ \A j \in DOMAIN program[Ticker] : j >= 5 /\ Grave(program[Ticker][j]) => Pending(Ticker, 5, "award", a) /\ j = 5
        BY <1>1, <2>1, <2>4, RiteFacts
      <4>3. i + 1 \in DOMAIN program[Ticker] /\ program[Ticker][i + 1].do = "award" /\ program[Ticker][i + 1].who = x /\ Grave(program[Ticker][i + 1])
        BY <4>1 DEF Pending, Grave
      <4>4. i + 1 # 2 /\ i + 1 # 3 /\ i + 1 # 4
        BY <4>2, <4>3 DEF Pending, Laid
      <4>5. i + 1 = 5 /\ x = a
        BY <4>2, <4>3, <4>4 DEF Pending
      <4> QED BY <4>5
    <3> QED BY <2>1, <2>2, <2>3, <3>1, <3>2 DEF KillInv
  <2>5. CASE t = Packet
    <3>1. \A i, x : Pending(Ticker, i, "award", x)' <=> Pending(Ticker, i, "award", x)
      BY <1>0, <2>1, <2>5, ElsewherePending
    <3>2. \A i \in {1, 2}, x \in Mobs : Laid(Packet, i, x)' => x = a
      <4> SUFFICES ASSUME NEW i \in {1, 2}, NEW x \in Mobs, Laid(Packet, i, x)' PROVE x = a
        OBVIOUS
      <4>1. Laid(Packet, i + 1, x)
        BY <2>1, <2>5, PoppedPending
      <4>2. Pending(Packet, 2, "clear", a) /\ Laid(Packet, 3, a)
        BY <1>1, <2>1, <2>5, RiteFacts
      <4> QED BY <4>1, <4>2 DEF Pending, Laid
    <3> QED BY <2>1, <2>2, <2>3, <3>1, <3>2 DEF KillInv
  <2> QED BY <1>0, <2>4, <2>5
<1>8. ASSUME Mark(t), main[a] = "dead" PROVE KillInv'
  <2>1. Skipped(t) /\ UNCHANGED <<here, main, paid>>
    BY <1>8, AskedKinds DEF Mark, chara
  <2> QED BY <1>4, <1>8, <2>1
<1>9. ASSUME Revive(t) PROVE KillInv'
  <2>1. Rewritten(t) /\ here' = here
    BY <1>9, AskedKinds DEF Revive
  <2>2. CASE main[a] # "dead"
    BY <1>9, <2>1, <2>2, KillCalm DEF Revive, chara
  <2>3. CASE main[a] = "dead"
    <3>1. main' = [main EXCEPT ![a] = "passive"] /\ paid' = [m \in Mobs |-> IF m = a THEN 0 ELSE paid[m]]
      BY <1>9, <2>3 DEF Revive
    <3>2. \A x \in Mobs \ {a} : main'[x] = main[x] /\ paid'[x] = paid[x]
      BY <1>0, <3>1 DEF TypeOK
    <3>3. main'[a] = "passive" /\ (a \in Mobs => paid'[a] = 0)
      BY <1>1, <3>1 DEF TypeOK
    <3>4. CASE t = Ticker
      <4>1. \A i, x : ~Pending(Ticker, i, "award", x)'
        BY <2>1, <3>4, RewrittenPending DEF RiteKinds
      <4>2. \A i, x : Laid(Packet, i, x)' <=> Laid(Packet, i, x)
        BY <1>0, <2>1, <3>4, ElsewherePending DEF Rewritten
      <4> QED BY <3>2, <3>3, <4>1, <4>2 DEF KillInv
    <3>5. CASE t = Packet
      <4>1. \A i, x : Pending(Ticker, i, "award", x)' <=> Pending(Ticker, i, "award", x)
        BY <1>0, <2>1, <3>5, ElsewherePending DEF Rewritten
      <4>2. \A i, x : ~Laid(Packet, i, x)'
        BY <2>1, <3>5, RewrittenPending
      <4> QED BY <2>1, <3>2, <3>3, <4>1, <4>2 DEF KillInv
    <3> QED BY <1>0, <3>4, <3>5
  <2> QED BY <2>2, <2>3
<1> QED BY <1>2, <1>3, <1>5, <1>6, <1>7, <1>8, <1>9, <1>14

\* No second reward by the beginning of a burial.
LEMMA KillBegun ==
    ASSUME TypeOK, TypeOK', RitesInv, KillInv,
           (\E a \in Actors : ScriptDie(a)) \/ (DieIfDefenderFell /\ Fell(Step(Ticker).who))
    PROVE  KillInv'
<1>0. Ticker \in Tasks /\ Packet \in Tasks /\ Ticker # Packet /\ Tasks = {Ticker, Packet}
  BY OtherTask
<1>0a. UNCHANGED <<here, main, paid>>
  BY DEF ScriptDie, DieIfDefenderFell, chara, history
<1>1. ASSUME NEW a \in Actors, ScriptDie(a) PROVE KillInv'
  <2>1. program'[Packet] = Dying(a) /\ Elsewhere(Packet)
    BY <1>1, DieKind
  <2>2. Dying(a)[1].do = "mark" /\ Dying(a)[2].do = "clear"
    BY DEF Dying, Do
  <2>3. \A i \in {1, 2}, x \in Mobs : ~Laid(Packet, i, x)'
    BY <2>1, <2>2 DEF Laid, Pending
  <2>4. \A i, x : Pending(Ticker, i, "award", x)' <=> Pending(Ticker, i, "award", x)
    BY <1>0, <2>1, ElsewherePending
  <2> QED BY <1>0a, <2>3, <2>4 DEF KillInv
<1>2. ASSUME DieIfDefenderFell, Fell(Step(Ticker).who) PROVE KillInv'
  <2> DEFINE x == Step(Ticker).who  q == program'[Ticker]
  <2>1. /\ x \in Actors /\ x \in here /\ main[x] # "dead" /\ Elsewhere(Ticker)
        /\ q[1] = Do("mark", x) /\ q[2] = Do("clear", x) /\ q[3] = With("trio", x, "dead") /\ q[4] = Do("complete", x)
        /\ q[5] = With("award", x, Step(Ticker).arg)
    BY <1>2, FellKind DEF Fell
  <2>2. q[1].do = "mark" /\ q[2].do = "clear" /\ q[3].do = "trio" /\ q[4].do = "complete" /\ q[5].who = x
    BY <2>1, DoFields
  <2>3. \A i \in 1..4, y \in Mobs : ~Pending(Ticker, i, "award", y)'
    <3>1. 1..4 = {1, 2, 3, 4}
      OBVIOUS
    <3> QED BY <2>2, <3>1 DEF Pending
  <2>4. \A y \in Mobs : Pending(Ticker, 5, "award", y)' => y \in here /\ main[y] # "dead"
    BY <2>1, <2>2 DEF Pending
  <2>5. \A i, y : Laid(Packet, i, y)' <=> Laid(Packet, i, y)
    BY <1>0, <2>1, ElsewherePending
  <2> HIDE DEF x, q
  <2> QED BY <1>0a, <2>3, <2>4, <2>5 DEF KillInv
<1> QED BY <1>1, <1>2

\* No second reward when one is paid.
LEMMA KillAward ==
    ASSUME TypeOK, TypeOK', RitesInv, KillInv, Award
    PROVE  KillInv'
<1>0. Ticker \in Tasks /\ Packet \in Tasks /\ Ticker # Packet /\ Tasks = {Ticker, Packet}
  BY OtherTask
<1> DEFINE a == Step(Ticker).who
<1>1. /\ Popped(Ticker) /\ Elsewhere(Ticker) /\ program[Ticker] # <<>> /\ Step(Ticker).do = "award" /\ UNCHANGED <<here, main>>
      /\ paid' = IF a \in Mobs /\ Step(Ticker).arg \in Players THEN [paid EXCEPT ![a] = @ + 1] ELSE paid
  BY AwardKind DEF Award, At, Step, chara, Popped
<1>2. \A i, x : Laid(Packet, i, x)' <=> Laid(Packet, i, x)
  BY <1>0, <1>1, ElsewherePending
<1>3. \A i \in 1..5, x \in Mobs : ~Pending(Ticker, i, "award", x)'
  <2> SUFFICES ASSUME NEW i \in 1..5, NEW x \in Mobs, Pending(Ticker, i, "award", x)' PROVE FALSE
    OBVIOUS
  <2>1. Pending(Ticker, i + 1, "award", x)
    BY <1>0, <1>1, PoppedPending
  <2>2. \A j \in DOMAIN program[Ticker] : j >= 2 => ~Grave(program[Ticker][j])
    BY <1>0, <1>1, RiteFacts
  <2> QED BY <2>1, <2>2 DEF Pending, Grave
<1>4. Pending(Ticker, 1, "award", a)
  BY <1>0, <1>1, RiteFacts DEF Pending
<1>5. a \in Mobs => paid[a] = 0 /\ ((\E i \in {1, 2} : Laid(Packet, i, a)) => main[a] = "dead")
  BY <1>4 DEF KillInv
<1>6. \A x \in Mobs : paid'[x] = paid[x] \/ (x = a /\ paid'[x] = 1)
  BY <1>1, <1>5 DEF TypeOK
<1> HIDE DEF a
<1> QED BY <1>1, <1>2, <1>3, <1>5, <1>6 DEF KillInv

\* No second reward by any step.
LEMMA KillNext ==
    ASSUME TypeOK, TypeOK', RitesInv, KillInv, [Next]_vars
    PROVE  KillInv'
<1>0. Ticker \in Tasks /\ Packet \in Tasks /\ Mobs \subseteq Actors /\ Mobs \cap Players = {}
  BY OtherTask, Sorts, BattleAssumption
<1>1. CASE UNCHANGED vars
  BY <1>1 DEF vars, chara, history, KillInv, Pending, Laid
<1>2. CASE Next
  <2>1. CASE \/ \E a \in Actors : TakeTurn(a)
             \/ Look \/ Update \/ Corpse \/ Despawn \/ HpTick
             \/ ResolveAutoAttack \/ ResolveAction \/ ActorEngage \/ (DieIfDefenderFell /\ ~Fell(Step(Ticker).who))
    <3>1. Rewritten(Ticker)
      BY <2>1, TurnKinds
    <3>2. paid' = paid /\ main' = main
      BY <2>1 DEF TakeTurn, Look, Update, Corpse, Despawn, HpTick, ResolveAutoAttack, ResolveAction, ActorEngage, DieIfDefenderFell, chara, history
    <3> QED BY <1>0, <3>1, <3>2, KillCalm
  <2>2. CASE Rental
    <3>1. Rewritten(Ticker) /\ paid' = paid
      BY <2>2, TurnKinds DEF Rental
    <3>2. \A x \in Mobs : main'[x] = main[x]
      <4>1. main' = main \/ (Step(Ticker).who \in Players /\ main' = [main EXCEPT ![Step(Ticker).who] = "passive"])
        BY <2>2 DEF Rental, TypeOK
      <4> QED BY <1>0, <4>1 DEF TypeOK
    <3> QED BY <1>0, <3>1, <3>2, KillCalm
  <2>3. CASE (\E a \in Actors : ScriptDie(a)) \/ (DieIfDefenderFell /\ Fell(Step(Ticker).who))
    BY <2>3, KillBegun
  <2>4. CASE Award
    BY <2>4, KillAward
  <2>5. CASE \E t \in Tasks : NotFound(t) \/ UpdateHate(t) \/ ClearHate(t) \/ Trio(t) \/ ChangeState(t) \/ Mark(t) \/ Clear(t) \/ Complete(t) \/ Revive(t)
    BY <2>5, KillAsked
  <2>6. CASE \/ Push
             \/ \E p \in Players : \/ \E x \in Mobs \cup {None}, auto \in BOOLEAN : SetTarget(p, x, auto)
                                   \/ \E x \in Actors, heal \in BOOLEAN : Hotbar(p, x, heal)
                                   \/ Draw(p) \/ Sheathe(p)
             \/ \E a \in Actors : ScriptRevive(a)
    <3>1. Rewritten(Packet)
      BY <2>6, PacketKinds
    <3>2. paid' = paid /\ main' = main /\ here' = here
      BY <2>6 DEF Push, SetTarget, Hotbar, Draw, Sheathe, ScriptRevive, chara, history
    <3> QED BY <1>0, <3>1, <3>2, KillCalm
  <2>7. ASSUME NEW a \in Allies, NEW x \in Mobs, ScriptEngage(a, x) PROVE KillInv'
    <3>1. Rewritten(Ticker) /\ paid' = paid /\ main' = main
      BY <2>7, EngageKind DEF ScriptEngage, chara
    <3> QED BY <1>0, <3>1, KillCalm
  <2>8. ASSUME NEW t \in Tasks, NEW p \in Players, ScriptSheathe(t, p) PROVE KillInv'
    BY <2>8, StanceKind, KillCalm
  <2> QED BY <1>2, <2>1, <2>2, <2>3, <2>4, <2>5, <2>6, <2>7, <2>8 DEF Next
<1> QED BY <1>1, <1>2

\* The invariant of the proof holds of every behaviour.
LEMMA KillInductive == Spec => [](TypeOK /\ RitesInv /\ KillInv)
<1>1. Init => TypeOK /\ RitesInv /\ KillInv
  BY TypeInit, RitesInit, KillInit
<1>2. (TypeOK /\ RitesInv /\ KillInv) /\ [Next]_vars => (TypeOK /\ RitesInv /\ KillInv)'
  BY TypeStep, RitesNext, KillNext
<1> QED BY <1>1, <1>2, PTL DEF Spec

\* For any actors and any number of orders: the experience for a mob is paid at most once
\* (die_if_defender_fell), whatever the packet task does to the mob between the ticker's blow,
\* its burial and the reward.
THEOREM KillPaidOnceHolds == Spec => []KillPaidOnce
<1>1. KillInv => KillPaidOnce
  BY DEF KillInv, KillPaidOnce
<1> QED BY <1>1, KillInductive, PTL

-----------------------------------------------------------------------------
(* Deaths are marked *)

\* The blow that took the last hit point of a is being settled (die_if_defender_fell), or its
\* death is about to be marked.
Falling(a) == Pending(Ticker, 1, "fell", a) \/ Pending(Ticker, 1, "mark", a)

\* While no death or revival was cut: hit points and the dead stance agree, but for the actor
\* whose fall the ticker is settling, and who is being laid out is dead or was revived since.
DeathInv == ~raced =>
    /\ \A a \in here \ slipped : (up[a] <=> main[a] # "dead") \/ (~up[a] /\ Falling(a))
    /\ \A t \in Tasks, i \in {1, 2}, a \in Actors : Laid(t, i, a) => main[a] = "dead" \/ a \in slipped

\* DeathInv holds at first.
LEMMA DeathInit == Init => DeathInv
<1> SUFFICES ASSUME Init PROVE DeathInv
  OBVIOUS
<1>1. \A t \in Tasks : program[t] = <<>>
  BY DEF Init
<1>2. \A t \in Tasks : \A i, x : ~Laid(t, i, x)
  BY <1>1 DEF Pending, Laid
<1>3. here = Actors /\ \A a \in Actors : up[a] /\ main[a] # "dead"
  BY DEF Init
<1>4. /\ \A a \in here \ slipped : (up[a] <=> main[a] # "dead") \/ (~up[a] /\ Falling(a))
      /\ \A t \in Tasks, i \in {1, 2}, a \in Actors : Laid(t, i, a) => main[a] = "dead" \/ a \in slipped
  BY <1>2, <1>3
<1> QED BY <1>4 DEF DeathInv

\* No action but a mark makes a new stance due.
LEMMA LaidKept ==
    ASSUME TypeOK, RitesInv, NEW t \in Tasks, Rewritten(t) \/ (Popped(t) /\ Step(t).do # "mark") \/ Skipped(t),
           NEW u \in Tasks, NEW i \in {1, 2}, NEW a, Laid(u, i, a)'
    PROVE  \E j \in {1, 2} : Laid(u, j, a)
<1>1. CASE u # t
  BY <1>1, ElsewherePending DEF Rewritten, Popped, Skipped
<1>2. CASE u = t /\ Rewritten(t)
  BY <1>2, RewrittenPending
<1>3. CASE u = t /\ Skipped(t)
  BY <1>3, SkippedPending
<1>4. CASE u = t /\ Popped(t) /\ Step(t).do # "mark"
  <2>1. i \in Nat \ {0} /\ Laid(t, i + 1, a)
    BY <1>4, PoppedPending
  <2>2. ~Laid(t, 3, a)
    BY <1>4, PastMark DEF Popped
  <2> QED BY <1>4, <2>1, <2>2
<1> QED BY <1>1, <1>2, <1>3, <1>4

\* Whoever is falling keeps falling until its own steps are done.
LEMMA FallingKept ==
    ASSUME TypeOK, RitesInv, NEW t \in Tasks, Elsewhere(t), t = Ticker => program[t] = <<>> \/ Step(t).do \notin {"fell", "mark"}, NEW a
    PROVE  Falling(a) => Falling(a)'
<1>1. CASE t = Ticker
  <2>1. ~Falling(a)
    BY <1>1, RiteFacts DEF Falling, Pending
  <2> QED BY <2>1
<1>2. CASE t # Ticker
  BY <1>2, OtherTask, ElsewherePending DEF Falling
<1> QED BY <1>1, <1>2

\* A step that changes neither hit points nor main states.
LEMMA DeathStill ==
    ASSUME TypeOK, RitesInv, DeathInv, NEW t \in Tasks, Rewritten(t) \/ (Popped(t) /\ Step(t).do # "mark") \/ Skipped(t),
           t = Ticker => program[t] = <<>> \/ Step(t).do \notin {"fell", "mark"},
           up' = up, main' = main, slipped' = slipped, here' \subseteq here, raced => raced'
    PROVE  DeathInv'
<1>1. Elsewhere(t)
  BY DEF Rewritten, Popped, Skipped
<1>2. \A a : Falling(a) => Falling(a)'
  BY <1>1, FallingKept
<1>3. \A u \in Tasks, i \in {1, 2}, a \in Actors : Laid(u, i, a)' => \E j \in {1, 2} : Laid(u, j, a)
  BY LaidKept
<1> SUFFICES ASSUME ~raced' PROVE (/\ \A a \in here \ slipped : (up[a] <=> main[a] # "dead") \/ (~up[a] /\ Falling(a))
                                   /\ \A u \in Tasks, i \in {1, 2}, a \in Actors : Laid(u, i, a) => main[a] = "dead" \/ a \in slipped)'
  BY DEF DeathInv
<1>4. /\ \A a \in here \ slipped : (up[a] <=> main[a] # "dead") \/ (~up[a] /\ Falling(a))
      /\ \A u \in Tasks, i \in {1, 2}, a \in Actors : Laid(u, i, a) => main[a] = "dead" \/ a \in slipped
  BY DEF DeathInv
<1> QED BY <1>2, <1>3, <1>4

\* The actions keep DeathInv.
LEMMA DeathTurn ==
    ASSUME TypeOK, TypeOK', RitesInv, DeathInv,
           \/ \E a \in Actors : TakeTurn(a)
           \/ Look \/ Update \/ Rental \/ Corpse \/ Despawn \/ HpTick
           \/ ResolveAutoAttack \/ ResolveAction \/ ActorEngage \/ DieIfDefenderFell
    PROVE  DeathInv'
<1>0. Ticker \in Tasks /\ Packet \in Tasks /\ Ticker # Packet /\ Tasks = {Ticker, Packet}
  BY OtherTask
<1>1. ASSUME (\E a \in Actors : TakeTurn(a)) \/ Look \/ Update \/ Corpse \/ Despawn \/ ActorEngage PROVE DeathInv'
  <2>1. Rewritten(Ticker)
    BY <1>1, TurnKinds
  <2>2. program[Ticker] = <<>> \/ Step(Ticker).do \notin {"fell", "mark"}
    BY <1>1 DEF TakeTurn, Look, Update, Corpse, Despawn, ActorEngage, Found, At, Step
  <2>3. up' = up /\ main' = main /\ slipped' = slipped /\ here' \subseteq here /\ raced' = raced
    BY <1>1 DEF TakeTurn, Look, Update, Corpse, Despawn, ActorEngage, chara, history
  <2> QED BY <1>0, <2>1, <2>2, <2>3, DeathStill
<1> SUFFICES ASSUME Rental \/ HpTick \/ ResolveAutoAttack \/ ResolveAction \/ DieIfDefenderFell, ~raced'
             PROVE (/\ \A a \in here \ slipped : (up[a] <=> main[a] # "dead") \/ (~up[a] /\ Falling(a))
                    /\ \A u \in Tasks, i \in {1, 2}, a \in Actors : Laid(u, i, a) => main[a] = "dead" \/ a \in slipped)'
  BY <1>1 DEF DeathInv
<1>2. ~raced /\ program[Ticker] # <<>> /\ here' = here
  <2>1. raced' = raced /\ here' = here
    BY DEF Rental, HpTick, ResolveAutoAttack, ResolveAction, DieIfDefenderFell, history
  <2>2. program[Ticker] # <<>>
    BY DEF Rental, HpTick, ResolveAutoAttack, ResolveAction, DieIfDefenderFell, Found, At
  <2> QED BY <2>1, <2>2
<1>3. /\ \A a \in here \ slipped : (up[a] <=> main[a] # "dead") \/ (~up[a] /\ Falling(a))
      /\ \A u \in Tasks, i \in {1, 2}, a \in Actors : Laid(u, i, a) => main[a] = "dead" \/ a \in slipped
  BY <1>2 DEF DeathInv
<1> DEFINE b == Step(Ticker).who
<1>4. b \in Actors /\ Step(Ticker) \in Steps /\ Step(Ticker) = program[Ticker][1] /\ 1 \in DOMAIN program[Ticker]
  BY <1>0, <1>2, PopTypes, RiteFacts
<1>5. Step(Ticker).do # "mark" /\ (Step(Ticker).do # "fell" => \A a : ~Falling(a))
  BY <1>0, <1>4 DEF Rental, HpTick, ResolveAutoAttack, ResolveAction, DieIfDefenderFell, Found, At, Step, Falling, Pending
<1>6. ASSUME Rewritten(Ticker) PROVE \A u \in Tasks, i \in {1, 2}, a \in Actors : Laid(u, i, a)' => main[a] = "dead" \/ a \in slipped
  BY <1>0, <1>3, <1>6, LaidKept
<1>7. CASE Rental
  <2>1. Rewritten(Ticker) /\ Step(Ticker).do # "fell" /\ up' = up
    BY <1>7, TurnKinds DEF Rental, At, Step
  <2>2. \A a \in Actors : main'[a] = main[a] \/ (a = b /\ main'[a] = "passive" /\ (main[a] = "dead" => a \in slipped'))
    BY <1>4, <1>7 DEF Rental, TypeOK
  <2>3. slipped \subseteq slipped' /\ here \subseteq Actors
    BY <1>7 DEF Rental, TypeOK
  <2> QED BY <1>2, <1>3, <1>5, <1>6, <2>1, <2>2, <2>3
<1>8. CASE HpTick
  <2>1. Rewritten(Ticker) /\ Step(Ticker).do # "fell" /\ main' = main
    BY <1>8, TurnKinds DEF HpTick, Found, At, Step
  <2>2. PICK v : up' = [up EXCEPT ![b] = v] /\ slipped' = IF v # up[b] THEN slipped \cup {b} ELSE slipped
    BY <1>8 DEF HpTick
  <2>3. \A a \in Actors \ slipped' : up'[a] = up[a]
    BY <1>4, <2>2 DEF TypeOK
  <2>4. slipped \subseteq slipped' /\ here \subseteq Actors
    BY <2>2 DEF TypeOK
  <2> QED BY <1>2, <1>3, <1>5, <1>6, <2>1, <2>3, <2>4
<1>9. ASSUME NEW x \in Actors, Pending(Ticker, 1, "fell", x)', up[x], Struck(x, b), main' = main, slipped' = slipped, Rewritten(Ticker), Step(Ticker).do # "fell"
      PROVE  (/\ \A a \in here \ slipped : (up[a] <=> main[a] # "dead") \/ (~up[a] /\ Falling(a))
              /\ \A u \in Tasks, i \in {1, 2}, a \in Actors : Laid(u, i, a) => main[a] = "dead" \/ a \in slipped)'
  <2>1. \A a \in Actors \ {x} : up'[a] = up[a]
    BY <1>9 DEF Struck, TypeOK
  <2>2. Falling(x)' /\ here \subseteq Actors /\ up' \in [Actors -> BOOLEAN]
    BY <1>9 DEF Falling, TypeOK
  <2> QED BY <1>2, <1>3, <1>5, <1>6, <1>9, <2>1, <2>2
<1>10. ASSUME up' = up, main' = main, slipped' = slipped, Rewritten(Ticker), Step(Ticker).do # "fell"
       PROVE  (/\ \A a \in here \ slipped : (up[a] <=> main[a] # "dead") \/ (~up[a] /\ Falling(a))
               /\ \A u \in Tasks, i \in {1, 2}, a \in Actors : Laid(u, i, a) => main[a] = "dead" \/ a \in slipped)'
  BY <1>2, <1>3, <1>5, <1>6, <1>10
<1>11. ASSUME NEW x, x = Step(Ticker).arg, Then(Ticker, <<With("fell", x, b)>>) PROVE Pending(Ticker, 1, "fell", x)'
  <2>1. program'[Ticker] = <<With("fell", x, b)>> \o Tail(program[Ticker])
    BY <1>0, <1>11 DEF Then, TypeOK
  <2>2. Tail(program[Ticker]) \in Seq(Steps) /\ program'[Ticker] \in Seq(Steps)
    BY <1>0, <1>2 DEF TypeOK
  <2> DEFINE r == Tail(program[Ticker])  e == With("fell", x, b)
  <2>3. e.do = "fell" /\ e.who = x
    BY DoFields
  <2> HIDE DEF r, e
  <2>4. (<<e>> \o r)[1] = e /\ 1 \in DOMAIN (<<e>> \o r)
    BY <2>2 DEF r
  <2> QED BY <2>1, <2>3, <2>4 DEF Pending, r, e
<1>12. CASE ResolveAutoAttack
  <2>0. PICK x : x = Step(Ticker).arg
    OBVIOUS
  <2>1. Rewritten(Ticker) /\ Step(Ticker).do = "auto" /\ main' = main /\ slipped' = slipped /\ x \in Actors
    BY <1>4, <1>12, <2>0, TurnKinds, StepShapes DEF ResolveAutoAttack, Found, At, Step, history
  <2>2. CASE up[x] /\ Struck(x, b) /\ Then(Ticker, <<With("fell", x, b)>>)
    <3>1. Pending(Ticker, 1, "fell", x)'
      BY <1>11, <2>0, <2>2
    <3> QED BY <1>9, <2>1, <2>2, <3>1
  <2>3. CASE up' = up
    BY <1>10, <2>1, <2>3
  <2> QED BY <1>12, <2>0, <2>2, <2>3 DEF ResolveAutoAttack
<1>13. CASE ResolveAction
  <2>0. PICK x : x = Step(Ticker).arg
    OBVIOUS
  <2>1. Rewritten(Ticker) /\ Step(Ticker).do = "act" /\ main' = main /\ x \in Actors
    BY <1>4, <1>13, <2>0, TurnKinds, StepShapes DEF ResolveAction, Found, At, Step
  <2>2. CASE up[x] /\ Struck(x, b) /\ slipped' = slipped /\ Then(Ticker, <<With("fell", x, b)>>)
    <3>1. Pending(Ticker, 1, "fell", x)'
      BY <1>11, <2>0, <2>2
    <3> QED BY <1>9, <2>1, <2>2, <3>1
  <2>3. CASE up' = up /\ slipped' = slipped
    BY <1>10, <2>1, <2>3
  <2>4. CASE Healed(x)
    <3>1. \A a \in Actors : up'[a] = up[a] \/ (a = x /\ up'[a] = TRUE /\ (main[a] = "dead" => a \in slipped'))
      BY <2>1, <2>4 DEF Healed, TypeOK
    <3>2. slipped \subseteq slipped' /\ here \subseteq Actors
      BY <2>4 DEF Healed, TypeOK
    <3> QED BY <1>2, <1>3, <1>5, <1>6, <2>1, <3>1, <3>2
  <2> QED BY <1>13, <2>0, <2>2, <2>3, <2>4 DEF ResolveAction
<1>14. CASE DieIfDefenderFell
  <2>1. UNCHANGED <<up, main, slipped>> /\ Step(Ticker).do = "fell"
    BY <1>14 DEF DieIfDefenderFell, Found, At, Step, chara, history
  <2>2. CASE ~Fell(b)
    <3>1. Rewritten(Ticker)
      BY <1>14, <2>2, TurnKinds
    <3>2. \A a \in here \ slipped : up[a] <=> main[a] # "dead"
      BY <1>3, <1>4, <2>1, <2>2 DEF Falling, Pending, Fell
    <3> QED BY <1>2, <1>6, <2>1, <3>1, <3>2
  <2>3. CASE Fell(b)
    <3> DEFINE q == program'[Ticker]
    <3>1. /\ Elsewhere(Ticker) /\ Len(q) >= 5 /\ q \in Seq(Steps)
          /\ q[1] = Do("mark", b) /\ q[2] = Do("clear", b)
      BY <1>14, <2>3, FellKind
    <3>2. q[1].do = "mark" /\ q[1].who = b /\ q[2].do = "clear" /\ 1 \in DOMAIN q
      BY <3>1, DoFields
    <3>0. PICK c : c = b
      OBVIOUS
    <3>3. Falling(c)' /\ \A i \in {1, 2} : \A a : ~Laid(Ticker, i, a)'
      BY <3>0, <3>2 DEF Falling, Pending, Laid
    <3>4. \A i, a : Laid(Packet, i, a)' <=> Laid(Packet, i, a)
      BY <1>0, <3>1, ElsewherePending
    <3>5. \A a : Falling(a) => a = c
      BY <1>4, <2>1, <3>0 DEF Falling, Pending
    <3>6. ASSUME NEW a \in here' \ slipped' PROVE ((up[a] <=> main[a] # "dead") \/ (~up[a] /\ Falling(a)))'
      BY <1>2, <1>3, <2>1, <3>3, <3>5
    <3>7. ASSUME NEW u \in Tasks, NEW i \in {1, 2}, NEW a \in Actors, Laid(u, i, a)' PROVE main'[a] = "dead" \/ a \in slipped'
      BY <1>0, <1>3, <2>1, <3>3, <3>4, <3>7
    <3> QED BY <3>6, <3>7
  <2> QED BY <2>2, <2>3
<1> QED BY <1>7, <1>8, <1>12, <1>13, <1>14

\* A death or a revival that is not cut finds the other task with nothing to do.
LEMMA UncutAlone ==
    ASSUME TypeOK, NEW t \in Tasks, NEW u \in Tasks, u # t, raced' = Cut(t), ~raced'
    PROVE  ~raced /\ program[u] = <<>>
<1>1. Other(t) = u
  BY OtherTask
<1> QED BY <1>1 DEF Cut

\* Hit points and stance agree after a step of a handler.
LEMMA DeathAsked ==
    ASSUME TypeOK, TypeOK', RitesInv, DeathInv, NEW t \in Tasks,
           NotFound(t) \/ UpdateHate(t) \/ ClearHate(t) \/ Trio(t) \/ ChangeState(t) \/ Mark(t) \/ Clear(t) \/ Complete(t) \/ Revive(t)
    PROVE  DeathInv'
<1>0. Ticker \in Tasks /\ Packet \in Tasks /\ Ticker # Packet /\ Tasks = {Ticker, Packet}
  BY OtherTask
<1>1. program[t] # <<>> /\ Step(t) = program[t][1] /\ 1 \in DOMAIN program[t] /\ Step(t).who \in Actors /\ here' = here
  <2>1. program[t] # <<>> /\ here' = here
    BY DEF NotFound, UpdateHate, ClearHate, Trio, ChangeState, Mark, Clear, Complete, Revive, Found, At
  <2> QED BY <2>1, RiteFacts, PopTypes
<1>2. PICK b \in Actors : b = Step(t).who
  BY <1>1
<1>3. ASSUME UpdateHate(t) \/ ClearHate(t) \/ Clear(t) \/ Complete(t) PROVE DeathInv'
  <2>1. up' = up /\ main' = main /\ slipped' = slipped /\ (raced => raced')
    <3>1. CASE Clear(t)
      BY <3>1 DEF Clear, Cut
    <3>2. CASE UpdateHate(t) \/ ClearHate(t) \/ Complete(t)
      BY <3>2 DEF UpdateHate, ClearHate, Complete, chara, history
    <3> QED BY <1>3, <3>1, <3>2
  <2>2. Step(t).do \notin {"fell", "mark"} /\ (Rewritten(t) \/ Popped(t))
    BY <1>3, AskedKinds DEF UpdateHate, ClearHate, Clear, Complete, Found, At, Step
  <2> QED BY <1>1, <2>1, <2>2, DeathStill
<1> SUFFICES ASSUME ~raced', NotFound(t) \/ Trio(t) \/ ChangeState(t) \/ Mark(t) \/ Revive(t)
             PROVE (/\ \A a \in here \ slipped : (up[a] <=> main[a] # "dead") \/ (~up[a] /\ Falling(a))
                    /\ \A u \in Tasks, i \in {1, 2}, a \in Actors : Laid(u, i, a) => main[a] = "dead" \/ a \in slipped)'
  BY <1>3 DEF DeathInv
<1>4. ~raced
  BY UncutAlone DEF NotFound, Trio, ChangeState, Mark, Revive, Cut, history
<1>5. /\ \A a \in here \ slipped : (up[a] <=> main[a] # "dead") \/ (~up[a] /\ Falling(a))
      /\ \A u \in Tasks, i \in {1, 2}, a \in Actors : Laid(u, i, a) => main[a] = "dead" \/ a \in slipped
  BY <1>4 DEF DeathInv
<1>6. \A a : t = Ticker /\ Falling(a) => a = b /\ Step(t).do \in {"fell", "mark"}
  BY <1>1, <1>2 DEF Falling, Pending
<1>7. \A a : t = Packet /\ Elsewhere(t) => (Falling(a) <=> Falling(a)')
  BY <1>0, ElsewherePending DEF Falling
<1>8. CASE NotFound(t)
  <2>1. UNCHANGED <<up, main, slipped>> /\ b \notin here
    BY <1>2, <1>8 DEF NotFound, chara, history
  <2>2. (Rewritten(t) \/ (Popped(t) /\ Step(t).do # "mark") \/ Skipped(t)) /\ Elsewhere(t)
    BY <1>8, AskedKinds DEF Rewritten, Popped, Skipped
  <2>3. \A a \in here : Falling(a) => Falling(a)'
    BY <1>0, <1>6, <1>7, <2>1, <2>2
  <2>4. \A u \in Tasks, i \in {1, 2}, a \in Actors : Laid(u, i, a)' => main[a] = "dead" \/ a \in slipped
    BY <1>5, <2>2, LaidKept
  <2> QED BY <1>1, <1>5, <2>1, <2>3, <2>4
<1>9. CASE Trio(t)
  <2>1. Step(t).do = "trio" /\ UNCHANGED <<up, slipped>> /\ main' = IF main[b] = "dead" THEN main ELSE [main EXCEPT ![b] = Step(t).arg]
    BY <1>2, <1>9 DEF Trio, Found, At, Step, history
  <2>2. (Rewritten(t) \/ Popped(t)) /\ Elsewhere(t)
    BY <1>9, AskedKinds DEF Rewritten, Popped
  <2>3. \A a : Falling(a) => Falling(a)'
    BY <1>0, <1>6, <1>7, <2>1, <2>2
  <2>4. \A u \in Tasks, i \in {1, 2}, a \in Actors : Laid(u, i, a)' => main[a] = "dead" \/ a \in slipped
    BY <1>5, <2>1, <2>2, LaidKept
  <2>5. \A a \in Actors \ slipped : main'[a] = "dead" <=> main[a] = "dead"
    <3>1. Step(t).arg = "dead" => Laid(t, 1, b)
      BY <1>1, <1>2, <2>1 DEF Laid, Pending
    <3> QED BY <1>5, <2>1, <3>1 DEF TypeOK
  <2>6. here \subseteq Actors
    BY DEF TypeOK
  <2> QED BY <1>1, <1>5, <2>1, <2>3, <2>4, <2>5, <2>6
<1>14. CASE ChangeState(t)
  <2>1. Step(t).do = "stance" /\ UNCHANGED <<up, slipped>> /\ main' = IF main[b] = "dead" THEN main ELSE [main EXCEPT ![b] = "passive"]
    BY <1>2, <1>14 DEF ChangeState, Found, At, Step
  <2>2. Rewritten(t) /\ Elsewhere(t)
    BY <1>14, AskedKinds DEF Rewritten
  <2>3. \A a : Falling(a) => Falling(a)'
    BY <1>0, <1>6, <1>7, <2>1, <2>2
  <2>4. \A u \in Tasks, i \in {1, 2}, a \in Actors : Laid(u, i, a)' => main[a] = "dead" \/ a \in slipped
    BY <1>5, <2>2, LaidKept
  <2>5. \A a \in Actors : main'[a] = "dead" <=> main[a] = "dead"
    BY <2>1 DEF TypeOK
  <2>6. here \subseteq Actors
    BY DEF TypeOK
  <2> QED BY <1>1, <1>5, <2>1, <2>3, <2>4, <2>5, <2>6
<1>10. CASE Mark(t) /\ main[b] = "dead"
  <2>1. Skipped(t) /\ Elsewhere(t) /\ UNCHANGED <<up, main, slipped>>
    BY <1>2, <1>10, AskedKinds DEF Mark, chara, Skipped
  <2>2. \A a : Falling(a) => Falling(a)' \/ a = b
    BY <1>0, <1>6, <1>7, <2>1
  <2>3. \A u \in Tasks, i \in {1, 2}, a \in Actors : Laid(u, i, a)' => main[a] = "dead" \/ a \in slipped
    BY <1>5, <2>1, LaidKept
  <2> QED BY <1>1, <1>5, <1>10, <2>1, <2>2, <2>3
<1>11. CASE Mark(t) /\ main[b] # "dead"
  <2>1. /\ Popped(t) /\ Elsewhere(t) /\ Step(t).do = "mark"
        /\ up' = [up EXCEPT ![b] = FALSE] /\ main' = [main EXCEPT ![b] = "dead"] /\ slipped' = slipped \ {b} /\ raced' = Cut(t)
    BY <1>2, <1>11, AskedKinds DEF Mark, Popped, Found, At, Step
  <2>2. \A u \in Tasks : u # t => program[u] = <<>> /\ program'[u] = <<>>
    BY <2>1, UncutAlone DEF Elsewhere
  <2>3. \A a : Falling(a) => a = b
    <3>1. CASE t = Ticker
      BY <1>6, <3>1
    <3>2. CASE t = Packet
      <4>1. program[Ticker] = <<>>
        BY <1>0, <2>2, <3>2
      <4> QED BY <4>1 DEF Falling, Pending
    <3> QED BY <1>0, <3>1, <3>2
  <2>4. \A u \in Tasks, i \in {1, 2}, a \in Actors : Laid(u, i, a)' => a = b
    <3> SUFFICES ASSUME NEW u \in Tasks, NEW i \in {1, 2}, NEW a \in Actors, Laid(u, i, a)' PROVE a = b
      OBVIOUS
    <3>1. u = t
      BY <2>2 DEF Laid, Pending
    <3>2. Laid(t, i + 1, a)
      BY <2>1, <3>1, PoppedPending
    <3>3. Pending(t, 2, "clear", b) /\ Laid(t, 3, b)
      BY <1>1, <1>2, <2>1, RiteFacts
    <3> QED BY <3>2, <3>3 DEF Laid, Pending
  <2>5. /\ \A a \in Actors \ {b} : up'[a] = up[a] /\ main'[a] = main[a] /\ (a \in slipped' <=> a \in slipped)
        /\ up'[b] = FALSE /\ main'[b] = "dead" /\ here \subseteq Actors
    BY <2>1 DEF TypeOK
  <2> QED BY <1>1, <1>5, <2>3, <2>4, <2>5
<1>12. CASE Revive(t) /\ main[b] # "dead"
  <2>1. Rewritten(t) /\ Elsewhere(t) /\ UNCHANGED <<up, main, slipped>> /\ Step(t).do = "revive"
    BY <1>2, <1>12, AskedKinds DEF Revive, chara, Rewritten, Found, At, Step
  <2>2. \A a : Falling(a) => Falling(a)'
    BY <1>0, <1>6, <1>7, <2>1
  <2>3. \A u \in Tasks, i \in {1, 2}, a \in Actors : Laid(u, i, a)' => main[a] = "dead" \/ a \in slipped
    BY <1>5, <2>1, LaidKept
  <2> QED BY <1>1, <1>5, <2>1, <2>2, <2>3
<1>13. CASE Revive(t) /\ main[b] = "dead"
  <2>1. /\ Rewritten(t) /\ Elsewhere(t) /\ Step(t).do = "revive"
        /\ up' = [up EXCEPT ![b] = TRUE] /\ main' = [main EXCEPT ![b] = "passive"] /\ slipped' = slipped \ {b} /\ raced' = Cut(t)
    BY <1>2, <1>13, AskedKinds DEF Revive, Rewritten, Found, At, Step
  <2>2. \A u \in Tasks : u # t => program[u] = <<>> /\ program'[u] = <<>>
    BY <2>1, UncutAlone DEF Elsewhere
  <2>3. \A a : ~Falling(a)
    <3>1. CASE t = Ticker
      BY <1>6, <2>1, <3>1
    <3>2. CASE t = Packet
      <4>1. program[Ticker] = <<>>
        BY <1>0, <2>2, <3>2
      <4> QED BY <4>1 DEF Falling, Pending
    <3> QED BY <1>0, <3>1, <3>2
  <2>4. \A u \in Tasks : \A i, a : ~Laid(u, i, a)'
    BY <2>1, <2>2, RewrittenPending DEF Laid, Pending
  <2>5. /\ \A a \in Actors \ {b} : up'[a] = up[a] /\ main'[a] = main[a] /\ (a \in slipped' <=> a \in slipped)
        /\ up'[b] = TRUE /\ main'[b] = "passive" /\ here \subseteq Actors
    BY <2>1 DEF TypeOK
  <2> QED BY <1>1, <1>5, <2>3, <2>4, <2>5
<1> QED BY <1>8, <1>9, <1>10, <1>11, <1>12, <1>13, <1>14

\* Hit points and stance agree after every step.
LEMMA DeathNext ==
    ASSUME TypeOK, TypeOK', RitesInv, DeathInv, [Next]_vars
    PROVE  DeathInv'
<1>0. Ticker \in Tasks /\ Packet \in Tasks /\ Ticker # Packet /\ Tasks = {Ticker, Packet}
  BY OtherTask
<1>1. CASE UNCHANGED vars
  BY <1>1 DEF vars, chara, history, DeathInv, Falling, Pending, Laid
<1>2. CASE Next
  <2>1. CASE \/ \E a \in Actors : TakeTurn(a)
             \/ Look \/ Update \/ Rental \/ Corpse \/ Despawn \/ HpTick
             \/ ResolveAutoAttack \/ ResolveAction \/ ActorEngage \/ DieIfDefenderFell
    BY <2>1, DeathTurn
  <2>2. CASE Award
    <3>1. Popped(Ticker) /\ Step(Ticker).do = "award"
      BY <2>2, AwardKind DEF Award, At, Step
    <3>2. up' = up /\ main' = main /\ slipped' = slipped /\ here' = here /\ raced' = raced
      BY <2>2 DEF Award, chara
    <3> QED BY <1>0, <3>1, <3>2, DeathStill
  <2>3. CASE \E t \in Tasks : NotFound(t) \/ UpdateHate(t) \/ ClearHate(t) \/ Trio(t) \/ ChangeState(t) \/ Mark(t) \/ Clear(t) \/ Complete(t) \/ Revive(t)
    BY <2>3, DeathAsked
  <2>4. CASE \/ Push
             \/ \E p \in Players : \/ \E x \in Mobs \cup {None}, auto \in BOOLEAN : SetTarget(p, x, auto)
                                   \/ \E x \in Actors, heal \in BOOLEAN : Hotbar(p, x, heal)
                                   \/ Draw(p) \/ Sheathe(p)
             \/ \E a \in Actors : ScriptRevive(a)
    <3>1. Rewritten(Packet)
      BY <2>4, PacketKinds
    <3>2. up' = up /\ main' = main /\ slipped' = slipped /\ here' = here /\ raced' = raced
      BY <2>4 DEF Push, SetTarget, Hotbar, Draw, Sheathe, ScriptRevive, chara, history
    <3> QED BY <1>0, <3>1, <3>2, DeathStill
  <2>5. ASSUME NEW a \in Allies, NEW x \in Mobs, ScriptEngage(a, x) PROVE DeathInv'
    <3>1. Rewritten(Ticker) /\ program[Ticker] = <<>>
      BY <2>5, EngageKind DEF ScriptEngage, MayOrder
    <3>2. up' = up /\ main' = main /\ slipped' = slipped /\ here' = here /\ raced' = raced
      BY <2>5 DEF ScriptEngage, chara
    <3> QED BY <1>0, <3>1, <3>2, DeathStill
  <2>6. ASSUME NEW a \in Actors, ScriptDie(a) PROVE DeathInv'
    <3>1. program'[Packet] = Dying(a) /\ Elsewhere(Packet)
      BY <2>6, DieKind
    <3>2. UNCHANGED <<here, up, main, slipped, raced>>
      BY <2>6 DEF ScriptDie, chara
    <3>3. Dying(a)[1].do = "mark" /\ Dying(a)[2].do = "clear"
      BY DEF Dying, Do
    <3>4. \A i \in {1, 2} : \A x : ~Laid(Packet, i, x)'
      BY <3>1, <3>3 DEF Laid, Pending
    <3>5. \A i, x : Laid(Ticker, i, x)' <=> Laid(Ticker, i, x)
      BY <1>0, <3>1, ElsewherePending
    <3>6. \A x : Falling(x)' <=> Falling(x)
      BY <1>0, <3>1, ElsewherePending DEF Falling
    <3>7. CASE raced
      BY <3>2, <3>7 DEF DeathInv
    <3>8. CASE ~raced
      <4>1. /\ \A b \in here \ slipped : (up[b] <=> main[b] # "dead") \/ (~up[b] /\ Falling(b))
            /\ \A u \in Tasks, i \in {1, 2}, b \in Actors : Laid(u, i, b) => main[b] = "dead" \/ b \in slipped
        BY <3>8 DEF DeathInv
      <4>2. ASSUME NEW b \in here' \ slipped' PROVE ((up[b] <=> main[b] # "dead") \/ (~up[b] /\ Falling(b)))'
        BY <3>2, <3>6, <4>1
      <4>3. ASSUME NEW u \in Tasks, NEW i \in {1, 2}, NEW b \in Actors, Laid(u, i, b)' PROVE main'[b] = "dead" \/ b \in slipped'
        BY <1>0, <3>2, <3>4, <3>5, <4>1, <4>3
      <4> QED BY <4>2, <4>3 DEF DeathInv
    <3> QED BY <3>7, <3>8
  <2>7. ASSUME NEW t \in Tasks, NEW p \in Players, ScriptSheathe(t, p) PROVE DeathInv'
    BY <2>7, StanceKind, DeathStill
  <2> QED BY <1>2, <2>1, <2>2, <2>3, <2>4, <2>5, <2>6, <2>7 DEF Next
<1> QED BY <1>1, <1>2

\* The invariant of the proof holds of every behaviour.
LEMMA DeathInductive == Spec => [](TypeOK /\ RitesInv /\ DeathInv)
<1>1. Init => TypeOK /\ RitesInv /\ DeathInv
  BY TypeInit, RitesInit, DeathInit
<1>2. (TypeOK /\ RitesInv /\ DeathInv) /\ [Next]_vars => (TypeOK /\ RitesInv /\ DeathInv)'
  BY TypeStep, RitesNext, DeathNext
<1> QED BY <1>1, <1>2, PTL DEF Spec

\* For any actors: when both tasks are idle and no death or revival was cut by the other task,
\* an actor on the map has hit points exactly when it is not in the dead state (apply_die,
\* apply_revive), so no blow, drain or heal leaves one in between.
THEOREM DeathsAreMarkedHolds == Spec => []DeathsAreMarked
<1>1. TypeOK /\ DeathInv => DeathsAreMarked
  <2> SUFFICES ASSUME TypeOK, DeathInv, Quiet, ~raced, NEW a \in here \ slipped PROVE up[a] <=> main[a] # "dead"
    BY DEF DeathsAreMarked
  <2>1. program[Ticker] = <<>>
    BY OtherTask DEF Quiet
  <2>2. ~Falling(a)
    BY <2>1 DEF Falling, Pending
  <2> QED BY <2>2 DEF DeathInv
<1> QED BY <1>1, DeathInductive, PTL

-----------------------------------------------------------------------------
(* The battle completes once *)

\* All mobs of the battle are dead; the news of the death of m is on its way (apply_die has
\* marked it and has check_content_battle_complete still to call).
AllGone == \A m \in Mobs : main[m] = "dead"
Told(t, m) == \E i \in 1..3 : Pending(t, i, "complete", m)

\* When all mobs are dead the script was told or will be; and while no death was cut, one task at
\* most carries the news of a death, and the script that was told saw all mobs dead.
CompleteInv ==
    /\ AllGone => fired >= 1 \/ \E t \in Tasks, m \in Mobs : Told(t, m)
    /\ ~raced => /\ \A m, n \in Mobs : ~(Told(Ticker, m) /\ Told(Packet, n))
                 /\ fired = 0 \/ (fired = 1 /\ AllDead /\ \A t \in Tasks, m \in Mobs : ~Told(t, m))

\* CompleteInv holds at first.
LEMMA CompleteInit == Init => CompleteInv
<1> SUFFICES ASSUME Init PROVE CompleteInv
  OBVIOUS
<1>1. \A t \in Tasks : program[t] = <<>>
  BY DEF Init
<1>2. Ticker \in Tasks /\ Packet \in Tasks /\ Mobs \subseteq Actors
  BY OtherTask, Sorts
<1>3. \A t \in Tasks : \A m : ~Told(t, m)
  BY <1>1 DEF Pending, Told
<1>4. ~AllGone /\ fired = 0
  BY <1>2, MobsAssumption DEF Init, AllGone
<1> QED BY <1>2, <1>3, <1>4 DEF CompleteInv

\* A step of one task leaves the other's news alone.
LEMMA ToldElsewhere ==
    ASSUME NEW t \in Tasks, Elsewhere(t), NEW u \in Tasks, u # t, NEW m
    PROVE  Told(u, m)' <=> Told(u, m)
BY ElsewherePending DEF Told

\* What becomes of the news of a death.
LEMMA ToldHere ==
    ASSUME TypeOK, RitesInv, NEW t \in Tasks, NEW m
    PROVE  /\ Rewritten(t) => ~Told(t, m) /\ ~Told(t, m)'
           /\ Skipped(t) => ~Told(t, m) /\ ~Told(t, m)'
           /\ Popped(t) /\ Step(t).do \notin {"mark", "complete"} => (Told(t, m)' <=> Told(t, m))
           /\ Popped(t) /\ Step(t).do = "complete" => ~Told(t, m)' /\ (Told(t, m) <=> m = Step(t).who)
           /\ Popped(t) /\ Step(t).do = "mark" => ~Told(t, m) /\ (Told(t, m)' <=> m = Step(t).who)
<1>0. 1..3 = {1, 2, 3}
  OBVIOUS
<1>1. ASSUME Rewritten(t) PROVE ~Told(t, m) /\ ~Told(t, m)'
  BY <1>1, RewrittenPending DEF Told, RiteKinds
<1>2. ASSUME program[t] # <<>>, Step(t).do = "mark" PROVE ~Told(t, m) /\ (Pending(t, 4, "complete", m) <=> m = Step(t).who)
  <2>1. Step(t) = program[t][1] /\ Pending(t, 2, "clear", Step(t).who) /\ Laid(t, 3, Step(t).who) /\ Pending(t, 4, "complete", Step(t).who)
    BY <1>2, RiteFacts
  <2>2. ~Pending(t, 1, "complete", m) /\ ~Pending(t, 2, "complete", m) /\ ~Pending(t, 3, "complete", m)
    BY <1>2, <2>1 DEF Pending, Laid
  <2> QED BY <1>0, <2>1, <2>2 DEF Told, Pending
<1>3. ASSUME Skipped(t) PROVE ~Told(t, m) /\ ~Told(t, m)'
  <2>1. ~Told(t, m)
    BY <1>2, <1>3 DEF Skipped, At, Step
  <2>2. ~Told(t, m)'
    BY <1>3, SkippedPending DEF Told
  <2> QED BY <2>1, <2>2
<1>4. ASSUME Popped(t) PROVE Told(t, m)' <=> Pending(t, 2, "complete", m) \/ Pending(t, 3, "complete", m) \/ Pending(t, 4, "complete", m)
  <2>1. \A i \in {1, 2, 3} : Pending(t, i, "complete", m)' <=> Pending(t, i + 1, "complete", m)
    BY <1>4, PoppedPending
  <2> QED BY <1>0, <2>1 DEF Told
<1>5. ASSUME Popped(t), Step(t).do \notin {"mark", "complete"} PROVE Told(t, m)' <=> Told(t, m)
  <2>1. program[t] # <<>>
    BY <1>5 DEF Popped
  <2>2. ~Pending(t, 4, "complete", m)
    BY <1>5, <2>1, PastMark
  <2>3. ~Pending(t, 1, "complete", m)
    BY <1>5, <2>1, RiteFacts DEF Pending
  <2> QED BY <1>0, <1>4, <1>5, <2>2, <2>3 DEF Told
<1>6. ASSUME Popped(t), Step(t).do = "complete" PROVE ~Told(t, m)' /\ (Told(t, m) <=> m = Step(t).who)
  <2>1. program[t] # <<>>
    BY <1>6 DEF Popped
  <2>2. Step(t) = program[t][1] /\ 1 \in DOMAIN program[t] /\ \A i \in DOMAIN program[t] : i >= 2 /\ Grave(program[t][i]) => program[t][i].do = "award"
    BY <1>6, <2>1, RiteFacts DEF Pending
  <2>3. ~Pending(t, 2, "complete", m) /\ ~Pending(t, 3, "complete", m) /\ ~Pending(t, 4, "complete", m)
    BY <2>2 DEF Pending, Grave
  <2>4. Pending(t, 1, "complete", m) <=> m = Step(t).who
    BY <1>6, <2>2 DEF Pending
  <2> QED BY <1>0, <1>4, <1>6, <2>3, <2>4 DEF Told
<1>7. ASSUME Popped(t), Step(t).do = "mark" PROVE ~Told(t, m) /\ (Told(t, m)' <=> m = Step(t).who)
  <2>1. program[t] # <<>>
    BY <1>7 DEF Popped
  <2>2. ~Told(t, m) /\ (Pending(t, 4, "complete", m) <=> m = Step(t).who)
    BY <1>2, <1>7, <2>1
  <2>3. ~Pending(t, 2, "complete", m) /\ ~Pending(t, 3, "complete", m)
    BY <1>0, <2>2 DEF Told
  <2> QED BY <1>4, <1>7, <2>2, <2>3
<1> QED BY <1>1, <1>3, <1>5, <1>6, <1>7

\* A step that tells nobody, kills no mob and revives none.
LEMMA CompleteStill ==
    ASSUME TypeOK, RitesInv, CompleteInv,
           \A u \in Tasks, m \in Mobs : Told(u, m)' <=> Told(u, m),
           \A m \in Mobs : main'[m] = "dead" <=> main[m] = "dead",
           fired' = fired, here' \subseteq here, raced => raced'
    PROVE  CompleteInv'
<1>0. Ticker \in Tasks /\ Packet \in Tasks
  BY OtherTask
<1>1. AllGone' <=> AllGone
  BY DEF AllGone
<1>2. AllDead => AllDead'
  BY DEF AllDead
<1>3. (AllGone => fired >= 1 \/ \E t \in Tasks, m \in Mobs : Told(t, m))'
  BY <1>1 DEF CompleteInv
<1>4. ASSUME ~raced' PROVE (/\ \A m, n \in Mobs : ~(Told(Ticker, m) /\ Told(Packet, n))
                            /\ fired = 0 \/ (fired = 1 /\ AllDead /\ \A t \in Tasks, m \in Mobs : ~Told(t, m)))'
  BY <1>0, <1>2, <1>4 DEF CompleteInv
<1> QED BY <1>3, <1>4 DEF CompleteInv

\* Only a mark makes news, and only check_content_battle_complete delivers it.
LEMMA ToldKept ==
    ASSUME TypeOK, RitesInv, NEW t \in Tasks,
           Rewritten(t) \/ Skipped(t) \/ (Popped(t) /\ Step(t).do \notin {"mark", "complete"})
    PROVE  \A u \in Tasks, m \in Mobs : Told(u, m)' <=> Told(u, m)
<1> SUFFICES ASSUME NEW u \in Tasks, NEW m \in Mobs PROVE Told(u, m)' <=> Told(u, m)
  OBVIOUS
<1>1. CASE u # t
  BY <1>1, ToldElsewhere DEF Rewritten, Skipped, Popped
<1>2. CASE u = t
  BY <1>2, ToldHere
<1> QED BY <1>1, <1>2

\* The actions keep CompleteInv.
LEMMA CompleteAsked ==
    ASSUME TypeOK, TypeOK', RitesInv, CompleteInv, NEW t \in Tasks,
           NotFound(t) \/ UpdateHate(t) \/ ClearHate(t) \/ Trio(t) \/ ChangeState(t) \/ Mark(t) \/ Clear(t) \/ Complete(t) \/ Revive(t)
    PROVE  CompleteInv'
<1>0. Ticker \in Tasks /\ Packet \in Tasks /\ Ticker # Packet /\ Tasks = {Ticker, Packet} /\ Mobs \subseteq Actors
  BY OtherTask, Sorts
<1>1. program[t] # <<>> /\ Step(t) = program[t][1] /\ 1 \in DOMAIN program[t] /\ Step(t).who \in Actors /\ here' = here
  <2>1. program[t] # <<>> /\ here' = here
    BY DEF NotFound, UpdateHate, ClearHate, Trio, ChangeState, Mark, Clear, Complete, Revive, Found, At
  <2> QED BY <2>1, RiteFacts, PopTypes
<1>2. PICK b \in Actors : b = Step(t).who
  BY <1>1
<1>3. CASE UpdateHate(t) \/ ClearHate(t) \/ Clear(t) \/ NotFound(t)
  <2>1. Rewritten(t) \/ Skipped(t) \/ (Popped(t) /\ Step(t).do \notin {"mark", "complete"})
    BY <1>3, AskedKinds DEF Clear, At, Step
  <2>2. main' = main /\ fired' = fired /\ (raced => raced')
    <3>1. CASE Clear(t)
      BY <3>1 DEF Clear, Cut
    <3>2. CASE UpdateHate(t) \/ ClearHate(t) \/ NotFound(t)
      BY <3>2 DEF UpdateHate, ClearHate, NotFound, chara, history
    <3> QED BY <1>3, <3>1, <3>2
  <2> QED BY <1>1, <2>1, <2>2, ToldKept, CompleteStill
<1>14. CASE ChangeState(t)
  <2>1. Rewritten(t) /\ UNCHANGED <<fired, raced>> /\ main' = IF main[b] = "dead" THEN main ELSE [main EXCEPT ![b] = "passive"]
    BY <1>2, <1>14, AskedKinds DEF ChangeState
  <2>2. \A m \in Mobs : main'[m] = "dead" <=> main[m] = "dead"
    BY <1>0, <2>1 DEF TypeOK
  <2> QED BY <1>1, <2>1, <2>2, ToldKept, CompleteStill
<1>4. CASE Trio(t)
  <2>1. Step(t).do = "trio" /\ UNCHANGED <<fired, raced>> /\ main' = IF main[b] = "dead" THEN main ELSE [main EXCEPT ![b] = Step(t).arg]
    BY <1>2, <1>4 DEF Trio, Found, At, Step, history
  <2>2. \A u \in Tasks, m \in Mobs : Told(u, m)' <=> Told(u, m)
    BY <1>4, <2>1, AskedKinds, ToldKept
  <2>3. CASE Step(t).arg # "dead" \/ main[b] = "dead" \/ b \notin Mobs
    <3>1. \A m \in Mobs : main'[m] = "dead" <=> main[m] = "dead"
      BY <1>0, <2>1, <2>3 DEF TypeOK
    <3> QED BY <1>1, <2>1, <2>2, <3>1, CompleteStill
  <2>4. CASE Step(t).arg = "dead" /\ b \in Mobs
    <3>1. Laid(t, 1, b)
      BY <1>1, <1>2, <2>1, <2>4 DEF Laid, Pending
    <3>2. Pending(t, 2, "complete", b)
      BY <1>1, <1>2, <3>1, RiteFacts
    <3>3. Told(t, b)'
      BY <2>2, <2>4, <3>2 DEF Told
    <3>4. \A m \in Mobs : main[m] = "dead" => main'[m] = "dead"
      BY <1>0, <2>1, <2>4 DEF TypeOK
    <3>5. AllDead => AllDead'
      BY <1>1, <3>4 DEF AllDead
    <3>6. (AllGone => fired >= 1 \/ \E u \in Tasks, m \in Mobs : Told(u, m))'
      BY <2>4, <3>3
    <3>7. (~raced => /\ \A m, n \in Mobs : ~(Told(Ticker, m) /\ Told(Packet, n))
                     /\ fired = 0 \/ (fired = 1 /\ AllDead /\ \A u \in Tasks, m \in Mobs : ~Told(u, m)))'
      BY <1>0, <2>1, <2>2, <3>5 DEF CompleteInv
    <3> QED BY <3>6, <3>7 DEF CompleteInv
  <2> QED BY <2>3, <2>4
<1>5. CASE Mark(t) /\ main[b] = "dead"
  <2>1. Skipped(t) /\ UNCHANGED <<main, fired, raced>>
    BY <1>2, <1>5, AskedKinds DEF Mark, chara
  <2> QED BY <1>1, <2>1, ToldKept, CompleteStill
<1>6. CASE Mark(t) /\ main[b] # "dead"
  <2>1. Popped(t) /\ Elsewhere(t) /\ Step(t).do = "mark" /\ b \in here /\ main' = [main EXCEPT ![b] = "dead"] /\ raced' = Cut(t) /\ fired' = fired
    BY <1>2, <1>6, AskedKinds DEF Mark, Popped, Found, At, Step
  <2>2. \A m \in Mobs : ~Told(t, m) /\ (Told(t, m)' <=> m = b)
    BY <1>2, <2>1, ToldHere
  <2>3. \A u \in Tasks : u # t => \A m \in Mobs : Told(u, m)' <=> Told(u, m)
    BY <2>1, ToldElsewhere
  <2>4. CASE b \notin Mobs
    <3>1. \A u \in Tasks, m \in Mobs : Told(u, m)' <=> Told(u, m)
      BY <2>2, <2>3, <2>4
    <3>2. \A m \in Mobs : main'[m] = main[m]
      BY <1>0, <2>1, <2>4 DEF TypeOK
    <3>3. raced => raced'
      BY <2>1 DEF Cut
    <3> QED BY <1>1, <2>1, <3>1, <3>2, <3>3, CompleteStill
  <2>5. CASE b \in Mobs
    <3>1. (AllGone => fired >= 1 \/ \E u \in Tasks, m \in Mobs : Told(u, m))'
      BY <2>2, <2>5
    <3>2. ASSUME ~raced' PROVE fired' = 0 /\ \A m, n \in Mobs : ~(Told(Ticker, m)' /\ Told(Packet, n)')
      <4>1. ~raced /\ \A u \in Tasks : u # t => program[u] = <<>>
        BY <1>0, <2>1, <3>2, UncutAlone
      <4>2. \A u \in Tasks : u # t => \A m \in Mobs : ~Told(u, m)'
        BY <2>3, <4>1 DEF Told, Pending
      <4>3. ~AllDead
        BY <1>6, <2>1, <2>5 DEF AllDead
      <4>4. fired = 0
        BY <4>1, <4>3 DEF CompleteInv
      <4> QED BY <1>0, <2>1, <4>2, <4>4
    <3> QED BY <3>1, <3>2 DEF CompleteInv
  <2> QED BY <2>4, <2>5
<1>7. CASE Complete(t)
  <2>1. Popped(t) /\ Elsewhere(t) /\ Step(t).do = "complete" /\ UNCHANGED <<main, raced>> /\ fired' = IF b \in Mobs /\ AllDead THEN fired + 1 ELSE fired
    BY <1>2, <1>7, AskedKinds DEF Complete, Popped, At, Step, chara
  <2>2. \A m \in Mobs : ~Told(t, m)' /\ (Told(t, m) <=> m = b)
    BY <1>2, <2>1, ToldHere
  <2>3. \A u \in Tasks : u # t => \A m \in Mobs : Told(u, m)' <=> Told(u, m)
    BY <2>1, ToldElsewhere
  <2>4. (AllGone' <=> AllGone) /\ (AllDead' <=> AllDead) /\ (AllGone => AllDead) /\ fired \in Nat
    BY <1>1, <2>1 DEF AllGone, AllDead, TypeOK
  <2>5. CASE b \notin Mobs
    <3>1. \A u \in Tasks, m \in Mobs : Told(u, m)' <=> Told(u, m)
      BY <2>2, <2>3, <2>5
    <3> QED BY <1>1, <2>1, <2>5, <3>1, CompleteStill
  <2>6. CASE b \in Mobs
    <3>1. (AllGone => fired >= 1 \/ \E u \in Tasks, m \in Mobs : Told(u, m))'
      BY <2>1, <2>4, <2>6
    <3>2. ASSUME ~raced' PROVE (/\ \A m, n \in Mobs : ~(Told(Ticker, m) /\ Told(Packet, n))
                                /\ fired = 0 \/ (fired = 1 /\ AllDead /\ \A u \in Tasks, m \in Mobs : ~Told(u, m)))'
      <4>1. ~raced /\ Told(t, b)
        BY <2>1, <2>2, <2>6, <3>2
      <4>2. fired = 0 /\ \A u \in Tasks : u # t => \A m \in Mobs : ~Told(u, m)
        BY <1>0, <2>6, <4>1 DEF CompleteInv
      <4>3. \A u \in Tasks, m \in Mobs : ~Told(u, m)'
        BY <2>2, <2>3, <4>2
      <4> QED BY <1>0, <2>1, <2>4, <2>6, <4>2, <4>3
    <3> QED BY <3>1, <3>2 DEF CompleteInv
  <2> QED BY <2>5, <2>6
<1>8. CASE Revive(t)
  <2>1. Rewritten(t)
    BY <1>8, AskedKinds
  <2>2. \A u \in Tasks, m \in Mobs : Told(u, m)' <=> Told(u, m)
    BY <2>1, ToldKept
  <2>3. CASE main[b] # "dead"
    <3>1. UNCHANGED <<main, fired, raced>>
      BY <1>2, <1>8, <2>3 DEF Revive, chara
    <3> QED BY <1>1, <2>2, <3>1, CompleteStill
  <2>4. CASE main[b] = "dead"
    <3>1. main' = [main EXCEPT ![b] = "passive"] /\ fired' = (IF b \in Mobs THEN 0 ELSE fired) /\ raced' = Cut(t)
      BY <1>2, <1>8, <2>4 DEF Revive
    <3>2. CASE b \notin Mobs
      <4>1. \A m \in Mobs : main'[m] = main[m]
        BY <1>0, <3>1, <3>2 DEF TypeOK
      <4>2. raced => raced'
        BY <3>1 DEF Cut
      <4> QED BY <1>1, <2>2, <3>1, <3>2, <4>1, <4>2, CompleteStill
    <3>3. CASE b \in Mobs
      <4>1. ~AllGone' /\ fired' = 0
        BY <3>1, <3>3 DEF AllGone, TypeOK
      <4>2. \A m, n \in Mobs : ~(Told(Ticker, m)' /\ Told(Packet, n)')
        BY <1>0, <2>1, ToldHere
      <4> QED BY <4>1, <4>2 DEF CompleteInv
    <3> QED BY <3>2, <3>3
  <2> QED BY <2>3, <2>4
<1> QED BY <1>3, <1>4, <1>5, <1>6, <1>7, <1>8, <1>14

\* The beginning of a burial tells the content script nothing new.
LEMMA ToldBegun ==
    ASSUME TypeOK, RitesInv, (\E a \in Actors : ScriptDie(a)) \/ (DieIfDefenderFell /\ Fell(Step(Ticker).who))
    PROVE  \A u \in Tasks, m \in Mobs : Told(u, m)' <=> Told(u, m)
<1>0. Ticker \in Tasks /\ Packet \in Tasks /\ Tasks = {Ticker, Packet} /\ 1..3 = {1, 2, 3}
  BY OtherTask
<1>1. PICK t \in Tasks : /\ Elsewhere(t) /\ program[t] \in Seq(CalmSteps)
                         /\ program'[t][1].do = "mark" /\ program'[t][2].do = "clear" /\ program'[t][3].do = "trio"
  <2>1. ASSUME NEW a \in Actors, ScriptDie(a) PROVE /\ Elsewhere(Packet) /\ program[Packet] \in Seq(CalmSteps)
                                                     /\ program'[Packet][1].do = "mark" /\ program'[Packet][2].do = "clear" /\ program'[Packet][3].do = "trio"
    <3>1. Dying(a)[1].do = "mark" /\ Dying(a)[2].do = "clear" /\ Dying(a)[3].do = "trio"
      BY DEF Dying, Do, With
    <3> QED BY <2>1, <3>1, DieKind, NoSteps
  <2>2. ASSUME DieIfDefenderFell, Fell(Step(Ticker).who)
        PROVE /\ Elsewhere(Ticker) /\ program[Ticker] \in Seq(CalmSteps)
              /\ program'[Ticker][1].do = "mark" /\ program'[Ticker][2].do = "clear" /\ program'[Ticker][3].do = "trio"
    <3> DEFINE q == program'[Ticker]  x == Step(Ticker).who
    <3>1. q[1] = Do("mark", x) /\ q[2] = Do("clear", x) /\ q[3] = With("trio", x, "dead") /\ Elsewhere(Ticker) /\ program[Ticker] \in Seq(CalmSteps)
      BY <2>2, FellKind
    <3>2. q[1].do = "mark" /\ q[2].do = "clear" /\ q[3].do = "trio"
      BY <3>1 DEF Do, With
    <3> QED BY <3>1, <3>2
  <2> QED BY <1>0, <2>1, <2>2
<1> SUFFICES ASSUME NEW u \in Tasks, NEW m \in Mobs PROVE Told(u, m)' <=> Told(u, m)
  OBVIOUS
<1>2. CASE u # t
  BY <1>1, <1>2, ToldElsewhere
<1>3. CASE u = t
  <2>1. Calm(program[t])
    BY <1>1, CalmSeq
  <2>2. ~Told(t, m)
    BY <2>1 DEF Told, Pending, Calm, Grave
  <2>3. ~Told(t, m)'
    BY <1>0, <1>1 DEF Told, Pending
  <2> QED BY <1>3, <2>2, <2>3
<1> QED BY <1>2, <1>3

\* Every step keeps the news of the battle's end under way, or told.
LEMMA CompleteNext ==
    ASSUME TypeOK, TypeOK', RitesInv, CompleteInv, [Next]_vars
    PROVE  CompleteInv'
<1>0. Ticker \in Tasks /\ Packet \in Tasks /\ Mobs \subseteq Actors /\ Mobs \cap Players = {}
  BY OtherTask, Sorts, BattleAssumption
<1>1. CASE UNCHANGED vars
  BY <1>1, CompleteStill DEF vars, chara, history, Told, Pending
<1>2. CASE Next
  <2>1. CASE \/ \E a \in Actors : TakeTurn(a)
             \/ Look \/ Update \/ Corpse \/ Despawn \/ HpTick
             \/ ResolveAutoAttack \/ ResolveAction \/ ActorEngage \/ (DieIfDefenderFell /\ ~Fell(Step(Ticker).who))
    <3>1. Rewritten(Ticker)
      BY <2>1, TurnKinds
    <3>2. fired' = fired /\ main' = main /\ raced' = raced /\ here' \subseteq here
      BY <2>1 DEF TakeTurn, Look, Update, Corpse, Despawn, HpTick, ResolveAutoAttack, ResolveAction, ActorEngage, DieIfDefenderFell, chara, history
    <3> QED BY <1>0, <3>1, <3>2, ToldKept, CompleteStill
  <2>2. CASE Rental
    <3>1. Rewritten(Ticker) /\ UNCHANGED <<fired, raced, here>>
      BY <2>2, TurnKinds DEF Rental
    <3>2. \A x \in Mobs : main'[x] = main[x]
      <4>1. main' = main \/ (Step(Ticker).who \in Players /\ main' = [main EXCEPT ![Step(Ticker).who] = "passive"])
        BY <2>2 DEF Rental, TypeOK
      <4> QED BY <1>0, <4>1 DEF TypeOK
    <3> QED BY <1>0, <3>1, <3>2, ToldKept, CompleteStill
  <2>3. CASE (\E a \in Actors : ScriptDie(a)) \/ (DieIfDefenderFell /\ Fell(Step(Ticker).who))
    <3>1. UNCHANGED <<fired, raced, here, main>>
      BY <2>3 DEF ScriptDie, DieIfDefenderFell, chara, history
    <3> QED BY <2>3, <3>1, ToldBegun, CompleteStill
  <2>4. CASE Award
    <3>1. Popped(Ticker) /\ Step(Ticker).do = "award" /\ UNCHANGED <<fired, raced, here, main>>
      BY <2>4, AwardKind DEF Award, At, Step, chara
    <3> QED BY <1>0, <3>1, ToldKept, CompleteStill
  <2>5. CASE \E t \in Tasks : NotFound(t) \/ UpdateHate(t) \/ ClearHate(t) \/ Trio(t) \/ ChangeState(t) \/ Mark(t) \/ Clear(t) \/ Complete(t) \/ Revive(t)
    BY <2>5, CompleteAsked
  <2>6. CASE \/ Push
             \/ \E p \in Players : \/ \E x \in Mobs \cup {None}, auto \in BOOLEAN : SetTarget(p, x, auto)
                                   \/ \E x \in Actors, heal \in BOOLEAN : Hotbar(p, x, heal)
                                   \/ Draw(p) \/ Sheathe(p)
             \/ \E a \in Actors : ScriptRevive(a)
    <3>1. Rewritten(Packet)
      BY <2>6, PacketKinds
    <3>2. fired' = fired /\ main' = main /\ raced' = raced /\ here' = here
      BY <2>6 DEF Push, SetTarget, Hotbar, Draw, Sheathe, ScriptRevive, chara, history
    <3> QED BY <1>0, <3>1, <3>2, ToldKept, CompleteStill
  <2>7. ASSUME NEW a \in Allies, NEW x \in Mobs, ScriptEngage(a, x) PROVE CompleteInv'
    <3>1. Rewritten(Ticker) /\ UNCHANGED <<fired, raced, here, main>>
      BY <2>7, EngageKind DEF ScriptEngage, chara
    <3> QED BY <1>0, <3>1, ToldKept, CompleteStill
  <2>8. ASSUME NEW t \in Tasks, NEW p \in Players, ScriptSheathe(t, p) PROVE CompleteInv'
    BY <2>8, StanceKind, ToldKept, CompleteStill
  <2> QED BY <1>2, <2>1, <2>2, <2>3, <2>4, <2>5, <2>6, <2>7, <2>8 DEF Next
<1> QED BY <1>1, <1>2

\* The invariant of the proof holds of every behaviour.
LEMMA CompleteInductive == Spec => [](TypeOK /\ RitesInv /\ CompleteInv)
<1>1. Init => TypeOK /\ RitesInv /\ CompleteInv
  BY TypeInit, RitesInit, CompleteInit
<1>2. (TypeOK /\ RitesInv /\ CompleteInv) /\ [Next]_vars => (TypeOK /\ RitesInv /\ CompleteInv)'
  BY TypeStep, RitesNext, CompleteNext
<1> QED BY <1>1, <1>2, PTL DEF Spec

\* For any mobs: when both tasks are idle and all mobs are dead, the content script has been told
\* (check_content_battle_complete), and it was told once unless two tasks buried mobs at once.
THEOREM BattleCompletesOnceHolds == Spec => []BattleCompletesOnce
<1>1. TypeOK /\ CompleteInv => BattleCompletesOnce
  <2> SUFFICES ASSUME TypeOK, CompleteInv, Quiet, AllGone PROVE fired >= 1 /\ (fired = 1 \/ raced)
    BY DEF BattleCompletesOnce, AllGone
  <2>1. \A t \in Tasks : \A m : ~Told(t, m)
    BY DEF Quiet, Told, Pending
  <2> QED BY <2>1 DEF CompleteInv, TypeOK
<1> QED BY <1>1, CompleteInductive, PTL

-----------------------------------------------------------------------------
(* The sheathed are idle *)

\* The ticker lays players out, but asks no other stance of one: controllers are those of npcs.
Stern(s) == s.do = "trio" => s.who \notin Players \/ s.arg = "dead"
SternSteps == {s \in Steps : Stern(s)}
TickerInv == program[Ticker] \in Seq(SternSteps)

\* A command about to be pushed is all the packet task has to do, and whoever it is about to
\* make passive has dropped its states already (flush_battle_states_on_sheathe).
PacketInv ==
    /\ \A i \in DOMAIN program[Packet] : program[Packet][i].do = "push" => Len(program[Packet]) = 1
    /\ \A i \in DOMAIN program[Packet] : LET s == program[Packet][i] IN
         s.do = "trio" /\ s.who \in Players => s.arg \in {"active", "dead"} \/ stack[s.who] = <<>>

\* The players a rental or a script has put on their feet in the middle of a fight.
Excused == slipped \cup unflushed

\* While no death or revival was cut: no dead player and none without a drawn weapon has a state,
\* nor one that is being laid out, whom the ticker lays out dead; and a command is pushed to the
\* living with a drawn weapon.
Resting ==
    /\ \A p \in Players : main[p] = "dead" => stack[p] = <<>>
    /\ \A p \in Players \ Excused : main[p] \in {"passive", "mounted"} => stack[p] = <<>>
    /\ \A t \in Tasks, i \in {1, 2}, p \in Players : Laid(t, i, p) => stack[p] = <<>> /\ (t = Ticker => main[p] = "dead")
    /\ \A p \in Players : Pending(Packet, 1, "push", p) => main[p] # "dead" /\ (p \in Excused \/ main[p] = "active")
RestInv == ~raced => Resting

\* The steps the ticker's handlers build.
LEMMA SternTypes ==
    ASSUME NEW a \in Actors
    PROVE  /\ \A w \in {"look", "rental", "corpse", "revive", "despawn", "forget", "stance", "mark", "clear", "complete"} : Do(w, a) \in SternSteps
           /\ \A v \in Views : With("update", a, v) \in SternSteps
           /\ With("hp", a, "drain") \in SternSteps /\ With("hp", a, "regen") \in SternSteps
           /\ With("trio", a, "dead") \in SternSteps
           /\ \A x \in Actors : With("auto", a, x) \in SternSteps /\ With("fell", a, x) \in SternSteps /\ With("award", a, x) \in SternSteps
           /\ a \in Npcs => /\ \A m \in {"active", "passive"} : With("trio", a, m) \in SternSteps
                            /\ \A x \in Actors : With("hate", a, x) \in SternSteps /\ With("engage", a, x) \in SternSteps
           /\ \A x \in Actors, h \in BOOLEAN : [do |-> "act", who |-> a, arg |-> x, heal |-> h] \in SternSteps
<1>1. /\ \A w \in {"look", "rental", "corpse", "revive", "despawn", "forget", "stance", "mark", "clear", "complete"} : Stern(Do(w, a))
      /\ \A v : Stern(With("update", a, v)) /\ Stern(With("hp", a, v)) /\ Stern(With("auto", a, v)) /\ Stern(With("fell", a, v))
      /\ \A v : Stern(With("award", a, v)) /\ Stern(With("hate", a, v)) /\ Stern(With("engage", a, v))
      /\ Stern(With("trio", a, "dead"))
      /\ \A x, h : Stern([do |-> "act", who |-> a, arg |-> x, heal |-> h])
  BY DEF Stern, Do, With
<1>2. a \in Npcs => \A m : Stern(With("trio", a, m))
  BY BattleAssumption DEF Stern, With
<1> QED BY <1>1, <1>2, StepTypes DEF SternSteps, MainStates

\* A sequence of such steps is a sequence of steps, each of them such.
LEMMA SternSeq ==
    ASSUME NEW s
    PROVE  s \in Seq(SternSteps) <=> s \in Seq(Steps) /\ \A i \in DOMAIN s : Stern(s[i])
<1>1. ASSUME s \in Seq(SternSteps) PROVE s \in Seq(Steps) /\ \A i \in DOMAIN s : Stern(s[i])
  <2>1. Len(s) \in Nat /\ s \in [1..Len(s) -> SternSteps]
    BY <1>1
  <2>2. s \in [1..Len(s) -> Steps]
    BY <2>1 DEF SternSteps
  <2>3. s \in Seq(Steps)
    BY <2>1, <2>2
  <2> QED BY <2>1, <2>3 DEF SternSteps
<1>2. ASSUME s \in Seq(Steps), \A i \in DOMAIN s : Stern(s[i]) PROVE s \in Seq(SternSteps)
  <2>1. Len(s) \in Nat /\ s \in [1..Len(s) -> Steps]
    BY <1>2
  <2>2. s \in [1..Len(s) -> SternSteps]
    BY <1>2, <2>1 DEF SternSteps
  <2> QED BY <2>1, <2>2
<1> QED BY <1>1, <1>2

\* The empty program.
LEMMA NoStern == <<>> \in Seq(SternSteps)
OBVIOUS

\* What a swing asks for changes no stance.
LEMMA SwingStern ==
    ASSUME NEW a \in Actors, NEW s \in Seq(States), NEW e \in Swing(a, s)
    PROVE  e \in Seq(SternSteps)
<1>1. CASE s # <<>> /\ Top(s).kind = "attack"
  <2>1. Top(s).target \in Actors
    <3>1. Top(s) \in States
      BY <1>1 DEF Top
    <3> QED BY <3>1 DEF States
  <2>2. With("auto", a, Top(s).target) \in SternSteps
    BY <2>1, SternTypes
  <2>3. <<With("auto", a, Top(s).target)>> \in Seq(SternSteps)
    BY <2>2
  <2>4. e \in {<<>>, <<With("auto", a, Top(s).target)>>}
    BY <1>1, Zenon DEF Swing
  <2> QED BY <2>3, <2>4, NoStern
<1>2. CASE ~(s # <<>> /\ Top(s).kind = "attack")
  <2>1. e \in {<<>>}
    BY <1>2, Zenon DEF Swing
  <2> QED BY <2>1, NoStern
<1> QED BY <1>1, <1>2

\* Nor does what AIContainer::update asks for.
LEMMA TickedStern ==
    ASSUME NEW a \in Actors, NEW s \in Seq(States), NEW r \in Ticked(a, s)
    PROVE  r.asks \in Seq(SternSteps)
<1>1. CASE \E e \in Swing(a, s) : r = [stack |-> s, asks |-> e]
  BY <1>1, SwingStern
<1>2. CASE s # <<>> /\ \E e \in Swing(a, Pop(s)) : r = [stack |-> Pop(s), asks |-> <<Act(a, Top(s))>> \o e]
  <2>1. PICK e \in Swing(a, Pop(s)) : r = [stack |-> Pop(s), asks |-> <<Act(a, Top(s))>> \o e]
    BY <1>2
  <2>2. Len(s) \in Nat /\ Len(s) >= 1
    BY <1>2
  <2>3. Pop(s) \in Seq(States) /\ Top(s) \in States
    BY <2>2 DEF Pop, Top
  <2>4. e \in Seq(SternSteps)
    BY <2>1, <2>3, SwingStern
  <2>5. Top(s).target \in Actors /\ Top(s).heal \in BOOLEAN
    BY <2>3 DEF States
  <2>6. Act(a, Top(s)) \in SternSteps
    BY <2>5, SternTypes DEF Act
  <2>7. <<Act(a, Top(s))>> \o e \in Seq(SternSteps)
    BY <2>4, <2>6
  <2> QED BY <2>1, <2>7
<1> QED BY <1>1, <1>2 DEF Ticked

\* A controller asks a stance of its own actor only, and players have none.
LEMMA DecisionStern ==
    ASSUME NEW a \in Actors, NEW s \in Seq(States), NEW v \in Views, NEW d \in Decisions(a, v, s)
    PROVE  d.asks \in Seq(SternSteps)
<1> DEFINE Idle == [stack |-> s, asks |-> <<>>]
<1>0. Idle.asks \in Seq(SternSteps)
  OBVIOUS
<1>1. CASE a \in Players \/ ~v.up
  <2>1. Decisions(a, v, s) = {Idle}
    BY <1>1 DEF Decisions
  <2> HIDE DEF Idle
  <2> QED BY <1>0, <2>1
<1>2. CASE ~(a \in Players \/ ~v.up)
  <2>0. a \in Npcs /\ v.hated \in Actors \cup {None} /\ v.target \in Actors \cup {None} /\ None \notin Actors
    BY <1>2, BattleAssumption DEF Views, Actors
  <2>1. ASSUME NEW x \in Actors PROVE Engage(a, x, s).asks \in Seq(SternSteps)
    <3>1. With("hate", a, x) \in SternSteps /\ With("trio", a, "active") \in SternSteps
      BY <2>0, SternTypes
    <3> QED BY <3>1 DEF Engage, EngageAsks
  <2>2. Disengage(a, s).asks \in Seq(SternSteps)
    <3>1. Do("forget", a) \in SternSteps /\ With("trio", a, "passive") \in SternSteps
      BY <2>0, SternTypes
    <3> QED BY <3>1 DEF Disengage, DisengageAsks
  <2>3. CASE v.engaged
    <3>1. Decisions(a, v, s) = DoCombatTick(a, v, s)
      BY <1>2, <2>3 DEF Decisions
    <3>2. CASE v.hated = None
      <4>1. DoCombatTick(a, v, s) = {Disengage(a, s)}
        BY <3>2 DEF DoCombatTick
      <4> QED BY <2>2, <3>1, <4>1
    <3>3. CASE v.hated # None /\ v.hated # v.target
      <4>1. d.asks = <<>>
        BY <3>1, <3>3 DEF DoCombatTick
      <4> QED BY <4>1
    <3>4. CASE v.hated # None /\ v.hated = v.target
      <4> DEFINE Casting == [stack |-> InternalCast(s, v.target, FALSE), asks |-> <<>>]
      <4>1. DoCombatTick(a, v, s) = {Idle} \cup (IF a \in Casters THEN {Casting} ELSE {})
        BY <3>4 DEF DoCombatTick
      <4>2. Casting.asks = <<>>
        OBVIOUS
      <4> HIDE DEF Idle, Casting
      <4> QED BY <1>0, <3>1, <4>1, <4>2, NoStern
    <3> QED BY <3>2, <3>3, <3>4
  <2>4. CASE ~v.engaged /\ v.hated # None
    <3>1. d = Engage(a, v.hated, s)
      BY <1>2, <2>4 DEF Decisions
    <3> QED BY <2>0, <2>1, <2>4, <3>1
  <2>5. CASE ~v.engaged /\ v.hated = None
    <3>1. d = Idle \/ \E x \in Aggroed(a) : d = Engage(a, x, s)
      <4>1. Decisions(a, v, s) = {Engage(a, x, s) : x \in Aggroed(a)} \cup {Idle}
        BY <1>2, <2>5 DEF Decisions
      <4> QED BY <4>1
    <3>2. Aggroed(a) \subseteq Actors
      BY Sorts DEF Aggroed
    <3> HIDE DEF Idle
    <3> QED BY <1>0, <2>1, <3>1, <3>2
  <2> QED BY <2>3, <2>4, <2>5
<1> QED BY <1>1, <1>2

\* A handler's step leaves the tail of its task's program.
Ahead(t) == \E k \in {1, 4} : \A i \in DOMAIN program'[t] :
                i \in Nat /\ i >= 1 /\ i + k \in DOMAIN program[t] /\ program'[t][i] = program[t][i + k]

\* How a step of a handler changes the programs.
LEMMA AskedAhead ==
    ASSUME TypeOK, NEW t \in Tasks,
           NotFound(t) \/ UpdateHate(t) \/ ClearHate(t) \/ Trio(t) \/ ChangeState(t) \/ Mark(t) \/ Clear(t) \/ Complete(t) \/ Revive(t)
    PROVE  Ahead(t) /\ Elsewhere(t) /\ program[t] # <<>>
<1>1. program[t] \in Seq(Steps) /\ program[t] # <<>>
  BY DEF NotFound, UpdateHate, ClearHate, Trio, ChangeState, Mark, Clear, Complete, Revive, Found, At, TypeOK
<1>2. ASSUME program'[t] = Tail(program[t]) PROVE Ahead(t)
  <2>1. \A i \in DOMAIN Tail(program[t]) : i \in Nat /\ i >= 1 /\ i + 1 \in DOMAIN program[t] /\ Tail(program[t])[i] = program[t][i + 1]
    BY <1>1
  <2> QED BY <1>2, <2>1 DEF Ahead
<1>3. ASSUME program'[t] = SubSeq(program[t], 5, Len(program[t])) PROVE Ahead(t)
  <2>1. SubSeq(program[t], 5, Len(program[t])) \in Seq(Steps)
    BY <1>1, Suffix
  <2>2. \A i \in DOMAIN SubSeq(program[t], 5, Len(program[t])) :
           i + 5 - 1 \in DOMAIN program[t] /\ SubSeq(program[t], 5, Len(program[t]))[i] = program[t][i + 5 - 1]
    BY <1>1, Suffix
  <2>3. \A i \in DOMAIN SubSeq(program[t], 5, Len(program[t])) : i \in Nat /\ i >= 1 /\ i + 5 - 1 = i + 4
    BY <2>1
  <2> QED BY <1>3, <2>2, <2>3 DEF Ahead
<1>4. CASE Done(t)
  <2>1. Popped(t)
    BY <1>1, <1>4, DoneIsTail
  <2> QED BY <1>1, <1>2, <2>1 DEF Popped
<1>5. CASE program' = [program EXCEPT ![t] = Tail(@)]
  BY <1>1, <1>2, <1>5, ProgramSet
<1>6. CASE program' = [program EXCEPT ![t] = SubSeq(@, 5, Len(@))]
  BY <1>1, <1>3, <1>6, ProgramSet
<1>7. \/ Done(t) \/ program' = [program EXCEPT ![t] = Tail(@)] \/ program' = [program EXCEPT ![t] = SubSeq(@, 5, Len(@))]
  BY DEF NotFound, UpdateHate, ClearHate, Trio, ChangeState, Mark, Clear, Complete, Revive
<1> QED BY <1>4, <1>5, <1>6, <1>7

\* The packet task does not touch the ticker's program.
LEMMA PacketElsewhere ==
    ASSUME TypeOK,
           \/ Push
           \/ \E p \in Players : \/ \E x \in Mobs \cup {None}, auto \in BOOLEAN : SetTarget(p, x, auto)
                                 \/ \E x \in Actors, heal \in BOOLEAN : Hotbar(p, x, heal)
                                 \/ Draw(p) \/ Sheathe(p)
           \/ \E a \in Actors : ScriptDie(a) \/ ScriptRevive(a)
    PROVE  Elsewhere(Packet)
<1>1. ASSUME NEW s, program' = [program EXCEPT ![Packet] = s] PROVE Elsewhere(Packet)
  BY <1>1, OtherTask, ProgramSet
<1> QED BY <1>1 DEF Push, SetTarget, Hotbar, Draw, Sheathe, ScriptDie, ScriptRevive, Done, Then, Order

\* The ticker does not touch the packet task's.
LEMMA TickerElsewhere ==
    ASSUME TypeOK,
           \/ \E a \in Actors : TakeTurn(a)
           \/ Look \/ Update \/ Rental \/ Corpse \/ Despawn \/ HpTick
           \/ ResolveAutoAttack \/ ResolveAction \/ DieIfDefenderFell \/ Award \/ ActorEngage
           \/ \E a \in Allies, x \in Mobs : ScriptEngage(a, x)
    PROVE  Elsewhere(Ticker)
<1>1. ASSUME NEW s, program' = [program EXCEPT ![Ticker] = s] PROVE Elsewhere(Ticker)
  BY <1>1, OtherTask, ProgramSet
<1>2. CASE \/ \E a \in Actors : TakeTurn(a)
           \/ Look \/ Rental \/ Corpse \/ Despawn \/ HpTick
           \/ DieIfDefenderFell \/ Award \/ ActorEngage
           \/ \E a \in Allies, x \in Mobs : ScriptEngage(a, x)
  BY <1>1, <1>2 DEF TakeTurn, Look, Rental, Corpse, Despawn, HpTick, DieIfDefenderFell, Award, ActorEngage, ScriptEngage, Done, Then, Order
<1>3. CASE Update
  BY <1>1, <1>3 DEF Update, Later
<1>4. CASE ResolveAutoAttack \/ ResolveAction
  BY <1>1, <1>4 DEF ResolveAutoAttack, ResolveAction, Done, Then
<1> QED BY <1>2, <1>3, <1>4

\* The ticker's program keeps its stances.
LEMMA TickerTurn ==
    ASSUME TypeOK, TickerInv,
           \/ \E a \in Actors : TakeTurn(a)
           \/ Look \/ Update \/ Rental \/ Corpse \/ Despawn \/ HpTick
           \/ ResolveAutoAttack \/ ResolveAction \/ DieIfDefenderFell \/ Award \/ ActorEngage
           \/ \E a \in Allies, x \in Mobs : ScriptEngage(a, x)
    PROVE  TickerInv'
<1>0. Ticker \in Tasks /\ program[Ticker] \in Seq(SternSteps) /\ program[Ticker] \in Seq(Steps)
  BY OtherTask DEF TypeOK, TickerInv
<1>1. ASSUME NEW s, s \in Seq(SternSteps), program' = [program EXCEPT ![Ticker] = s] PROVE TickerInv'
  BY <1>0, <1>1, ProgramSet DEF TickerInv
<1>2. ASSUME program[Ticker] # <<>>, NEW s \in Seq(SternSteps), Then(Ticker, s) \/ Later(Ticker, s) PROVE TickerInv'
  <2>1. s \o Tail(program[Ticker]) \in Seq(SternSteps) /\ Tail(program[Ticker]) \o s \in Seq(SternSteps)
    BY <1>0, <1>2, Splice
  <2> QED BY <1>1, <1>2, <2>1 DEF Then, Later
<1>3. ASSUME program[Ticker] # <<>>, Done(Ticker) PROVE TickerInv'
  BY <1>2, <1>3, NoStern DEF Done
<1>4. ASSUME NEW a \in Actors, TakeTurn(a) PROVE TickerInv'
  <2>1. PICK hated \in MostHated(a), drains \in BOOLEAN, heals \in BOOLEAN :
           program' = [program EXCEPT ![Ticker] =
                  <<Do("look", a), With("update", a, View(a, hated)), Do("rental", a), Do("corpse", a)>>
                  \o (IF drains THEN <<With("hp", a, "drain")>> ELSE <<>>)
                  \o (IF heals THEN <<With("hp", a, "regen")>> ELSE <<>>)]
    BY <1>4 DEF TakeTurn
  <2>2. View(a, hated) \in Views
    <3>1. hated \in Actors \cup {None}
      BY Sorts DEF MostHated, TypeOK, Actors
    <3>2. stack[a] \in Seq(States) /\ up[a] \in BOOLEAN
      BY DEF TypeOK
    <3>3. CurrentTarget(stack[a]) \in Actors \cup {None} /\ IsEngaged(stack[a]) \in BOOLEAN
      BY <3>2, StackTypes DEF IsEngaged
    <3> QED BY <3>1, <3>2, <3>3 DEF View, Views
  <2> DEFINE A == <<Do("look", a), With("update", a, View(a, hated)), Do("rental", a), Do("corpse", a)>>
             B == IF drains THEN <<With("hp", a, "drain")>> ELSE <<>>
             C == IF heals THEN <<With("hp", a, "regen")>> ELSE <<>>
  <2>3. A \in Seq(SternSteps)
    <3>1. Do("look", a) \in SternSteps /\ With("update", a, View(a, hated)) \in SternSteps /\ Do("rental", a) \in SternSteps /\ Do("corpse", a) \in SternSteps
      BY <2>2, SternTypes
    <3> QED BY <3>1
  <2>4. B \in Seq(SternSteps) /\ C \in Seq(SternSteps)
    BY SternTypes, NoStern
  <2>5. program' = [program EXCEPT ![Ticker] = A \o B \o C]
    BY <2>1
  <2> HIDE DEF A, B, C
  <2>6. A \o B \o C \in Seq(SternSteps)
    BY <2>3, <2>4
  <2> QED BY <1>1, <2>5, <2>6
<1>5. ASSUME Look PROVE TickerInv'
  <2>1. program[Ticker] # <<>> /\ SubSeq(program[Ticker], 3, Len(program[Ticker])) \in Seq(SternSteps)
    BY <1>0, <1>5, Suffix DEF Look, At
  <2>2. CASE program' = [program EXCEPT ![Ticker] = SubSeq(@, 3, Len(@))]
    BY <1>1, <2>1, <2>2
  <2> QED BY <1>3, <1>5, <2>1, <2>2 DEF Look
<1>6. ASSUME Update PROVE TickerInv'
  <2>1. program[Ticker] # <<>>
    BY <1>6 DEF Update, At
  <2> DEFINE a == Step(Ticker).who
  <2>2. a \in Actors /\ Step(Ticker).arg \in Views /\ stack[a] \in Seq(States)
    BY <1>0, <1>6, <2>1, PopTypes, StepShapes DEF Update, At, Step, TypeOK
  <2>3. PICK d \in Decisions(a, Step(Ticker).arg, stack[a]) : \E r \in Ticked(a, d.stack) : Later(Ticker, d.asks \o r.asks)
    BY <1>6 DEF Update
  <2>4. PICK r \in Ticked(a, d.stack) : Later(Ticker, d.asks \o r.asks)
    BY <2>3
  <2>5. d.stack \in Seq(States) /\ d.asks \in Seq(SternSteps)
    BY <2>2, DecisionTypes, DecisionStern
  <2>6. r.asks \in Seq(SternSteps)
    BY <2>2, <2>5, TickedStern
  <2>7. d.asks \o r.asks \in Seq(SternSteps)
    BY <2>5, <2>6
  <2> QED BY <1>2, <2>1, <2>4, <2>7
<1>7. ASSUME Rental \/ Despawn \/ HpTick \/ Award PROVE TickerInv'
  BY <1>3, <1>7 DEF Rental, Despawn, HpTick, Award, Found, At
<1>8. ASSUME Corpse PROVE TickerInv'
  <2>1. program[Ticker] # <<>> /\ Step(Ticker).who \in Actors
    BY <1>0, <1>8, PopTypes DEF Corpse, At
  <2>2. PICK c \in CorpseActions(Step(Ticker).who) : Then(Ticker, IF c = None THEN <<>> ELSE <<Do(c, Step(Ticker).who)>>)
    BY <1>8 DEF Corpse
  <2>3. c \in {None, "revive", "despawn"}
    BY DEF CorpseActions
  <2>4. (IF c = None THEN <<>> ELSE <<Do(c, Step(Ticker).who)>>) \in Seq(SternSteps)
    BY <2>1, <2>3, SternTypes, NoStern
  <2> QED BY <1>2, <2>1, <2>2, <2>4
<1>9. ASSUME ResolveAutoAttack \/ ResolveAction PROVE TickerInv'
  <2>1. program[Ticker] # <<>> /\ Step(Ticker) \in Steps /\ Step(Ticker).who \in Actors /\ Step(Ticker).do \in {"auto", "act"}
    BY <1>0, <1>9, PopTypes DEF ResolveAutoAttack, ResolveAction, Found, At, Step
  <2>2. Step(Ticker).arg \in Actors
    BY <2>1, StepShapes
  <2> DEFINE S == <<With("fell", Step(Ticker).arg, Step(Ticker).who)>>
  <2>3. S \in Seq(SternSteps)
    BY <2>1, <2>2, SternTypes
  <2>4. Done(Ticker) \/ Then(Ticker, S)
    BY <1>9 DEF ResolveAutoAttack, ResolveAction
  <2> HIDE DEF S
  <2> QED BY <1>2, <1>3, <2>1, <2>3, <2>4
<1>10. ASSUME DieIfDefenderFell PROVE TickerInv'
  <2>1. program[Ticker] # <<>> /\ Step(Ticker).who \in Actors /\ Step(Ticker).arg \in Actors
    BY <1>0, <1>10, PopTypes, StepShapes DEF DieIfDefenderFell, Found, At, Step
  <2> DEFINE D == Dying(Step(Ticker).who)  W == With("award", Step(Ticker).who, Step(Ticker).arg)
             S == IF Fell(Step(Ticker).who) THEN D \o <<W>> ELSE <<>>
  <2>2. D \in Seq(SternSteps) /\ W \in SternSteps
    <3>1. /\ Do("mark", Step(Ticker).who) \in SternSteps /\ Do("clear", Step(Ticker).who) \in SternSteps
          /\ With("trio", Step(Ticker).who, "dead") \in SternSteps /\ Do("complete", Step(Ticker).who) \in SternSteps /\ W \in SternSteps
      BY <2>1, SternTypes
    <3> QED BY <3>1 DEF Dying
  <2>3. S \in Seq(SternSteps)
    <3> HIDE DEF D, W
    <3>1. D \o <<W>> \in Seq(SternSteps)
      BY <2>2
    <3> QED BY <3>1, NoStern
  <2>4. Then(Ticker, S)
    BY <1>10 DEF DieIfDefenderFell
  <2> HIDE DEF S
  <2> QED BY <1>2, <2>1, <2>3, <2>4
<1>11. ASSUME ActorEngage PROVE TickerInv'
  <2>1. program[Ticker] # <<>> /\ Step(Ticker).who \in Npcs /\ Step(Ticker).who \in Actors
    BY <1>0, <1>11, PopTypes, StepShapes DEF ActorEngage, Found, At, Step
  <2> DEFINE S == IF IsEngaged(stack[Step(Ticker).who]) THEN <<>> ELSE <<With("trio", Step(Ticker).who, "active")>>
  <2>2. S \in Seq(SternSteps)
    BY <2>1, SternTypes, NoStern
  <2>3. Then(Ticker, S)
    BY <1>11 DEF ActorEngage
  <2> HIDE DEF S
  <2> QED BY <1>2, <2>1, <2>2, <2>3
<1>12. ASSUME NEW a \in Allies, NEW x \in Mobs, ScriptEngage(a, x) PROVE TickerInv'
  <2>1. a \in Npcs /\ a \in Actors /\ x \in Actors
    BY Sorts
  <2>2. With("engage", a, x) \in SternSteps
    BY <2>1, SternTypes
  <2>3. <<With("engage", a, x)>> \in Seq(SternSteps)
    BY <2>2
  <2> QED BY <1>1, <1>12, <2>3 DEF ScriptEngage, Order
<1> QED BY <1>4, <1>5, <1>6, <1>7, <1>8, <1>9, <1>10, <1>11, <1>12

\* So it does whatever happens.
LEMMA TickerNext ==
    ASSUME TypeOK, TypeOK', TickerInv, [Next]_vars
    PROVE  TickerInv'
<1>0. Ticker \in Tasks /\ Packet \in Tasks /\ Ticker # Packet /\ Tasks = {Ticker, Packet}
  BY OtherTask
<1>1. CASE UNCHANGED vars
  BY <1>1 DEF vars, TickerInv
<1>2. ASSUME Elsewhere(Packet) PROVE TickerInv'
  BY <1>0, <1>2 DEF Elsewhere, TickerInv
<1>3. ASSUME NEW t \in Tasks, NotFound(t) \/ UpdateHate(t) \/ ClearHate(t) \/ Trio(t) \/ ChangeState(t) \/ Mark(t) \/ Clear(t) \/ Complete(t) \/ Revive(t)
      PROVE  TickerInv'
  <2>1. Ahead(t) /\ Elsewhere(t)
    BY <1>3, AskedAhead
  <2>2. CASE t = Ticker
    <3>1. \A i \in DOMAIN program[Ticker] : Stern(program[Ticker][i])
      BY SternSeq DEF TickerInv
    <3>2. \A i \in DOMAIN program'[Ticker] : Stern(program'[Ticker][i])
      BY <2>1, <2>2, <3>1 DEF Ahead
    <3>3. program'[Ticker] \in Seq(Steps)
      BY <1>0 DEF TypeOK
    <3> QED BY <3>2, <3>3, SternSeq DEF TickerInv
  <2> QED BY <1>0, <1>2, <2>1, <2>2
<1>4. ASSUME NEW t \in Tasks, NEW p \in Players, ScriptSheathe(t, p) PROVE TickerInv'
  <2>1. program'[t] = <<Do("stance", p)>> /\ Elsewhere(t)
    <3>1. program' = [program EXCEPT ![t] = <<Do("stance", p)>>]
      BY <1>4 DEF ScriptSheathe, Order
    <3> QED BY <3>1, ProgramSet
  <2>2. Do("stance", p) \in SternSteps
    BY Sorts, SternTypes
  <2>3. <<Do("stance", p)>> \in Seq(SternSteps)
    BY <2>2
  <2> QED BY <1>0, <1>2, <2>1, <2>3 DEF TickerInv
<1> QED BY <1>1, <1>2, <1>3, <1>4, TickerTurn, PacketElsewhere DEF Next

\* Only a new target or a command gives an actor without one a state.
LEMMA UpdateEmpty ==
    ASSUME TypeOK, Update, NEW p \in Players, stack[p] = <<>>
    PROVE  stack'[p] = <<>>
<1>1. PICK a : a = Step(Ticker).who
  OBVIOUS
<1>2. PICK d \in Decisions(a, Step(Ticker).arg, stack[a]) : \E r \in Ticked(a, d.stack) : stack' = [stack EXCEPT ![a] = r.stack]
  BY <1>1 DEF Update
<1>3. PICK r \in Ticked(a, d.stack) : stack' = [stack EXCEPT ![a] = r.stack]
  BY <1>2
<1>4. p \in Actors
  BY Sorts
<1>5. CASE a # p
  BY <1>3, <1>4, <1>5 DEF TypeOK
<1>6. CASE a = p
  <2>1. d.stack = <<>>
    <3>1. Decisions(a, Step(Ticker).arg, stack[a]) = {[stack |-> stack[a], asks |-> <<>>]}
      BY <1>6 DEF Decisions
    <3> QED BY <1>2, <1>6, <3>1
  <2>2. r.stack = <<>>
    <3>1. r \in Ticked(a, <<>>)
      BY <2>1
    <3> QED BY <3>1 DEF Ticked
  <2> QED BY <1>3, <1>4, <1>6, <2>2 DEF TypeOK
<1> QED BY <1>5, <1>6

\* Every other action leaves it idle.
LEMMA EmptyStays ==
    ASSUME TypeOK, NEW p \in Players, stack[p] = <<>>,
           \/ UNCHANGED stack
           \/ \E a \in Actors : TakeTurn(a)
           \/ Look \/ Update \/ Rental \/ Corpse \/ Despawn \/ HpTick
           \/ ResolveAutoAttack \/ ResolveAction \/ DieIfDefenderFell \/ Award \/ ActorEngage
           \/ \E t \in Tasks : NotFound(t) \/ UpdateHate(t) \/ ClearHate(t) \/ Trio(t) \/ ChangeState(t) \/ Mark(t) \/ Clear(t) \/ Complete(t) \/ Revive(t)
           \/ \E q \in Players : \/ \E x \in Actors, heal \in BOOLEAN : Hotbar(q, x, heal)
                                 \/ Draw(q) \/ Sheathe(q)
           \/ \E a \in Allies, x \in Mobs : ScriptEngage(a, x)
           \/ \E a \in Actors : ScriptDie(a) \/ ScriptRevive(a)
    PROVE  stack'[p] = <<>>
<1>0. p \in Actors /\ p \notin Npcs
  BY Sorts, BattleAssumption
<1>1. CASE \/ UNCHANGED stack
           \/ \E a \in Actors : TakeTurn(a)
           \/ Look \/ Rental \/ Corpse \/ Despawn \/ HpTick
           \/ ResolveAutoAttack \/ ResolveAction \/ DieIfDefenderFell \/ Award
           \/ \E t \in Tasks : NotFound(t) \/ UpdateHate(t) \/ ClearHate(t) \/ Trio(t) \/ ChangeState(t) \/ Complete(t) \/ Revive(t)
           \/ \E q \in Players : \/ \E x \in Actors, heal \in BOOLEAN : Hotbar(q, x, heal)
                                 \/ Draw(q)
           \/ \E a \in Allies, x \in Mobs : ScriptEngage(a, x)
           \/ \E a \in Actors : ScriptDie(a) \/ ScriptRevive(a)
  <2>1. stack' = stack
    BY <1>1 DEF TakeTurn, Look, Rental, Corpse, Despawn, HpTick, ResolveAutoAttack, ResolveAction, DieIfDefenderFell, Award,
                NotFound, UpdateHate, ClearHate, Trio, ChangeState, Complete, Revive, Hotbar, Draw, ScriptEngage, ScriptDie, ScriptRevive, chara
  <2> QED BY <2>1
<1>2. CASE Update
  BY <1>2, UpdateEmpty
<1>3. CASE ActorEngage
  <2>1. Step(Ticker).who \in Npcs /\ \E s : stack' = [stack EXCEPT ![Step(Ticker).who] = s]
    BY <1>3, OtherTask, PopTypes, StepShapes DEF ActorEngage, Found, At, Step
  <2> QED BY <1>0, <2>1 DEF TypeOK
<1>4. ASSUME NEW t \in Tasks, Mark(t) \/ Clear(t) PROVE stack'[p] = <<>>
  <2>1. CASE Mark(t)
    <3>1. stack' = stack \/ stack' = [stack EXCEPT ![Step(t).who] = <<>>]
      BY <2>1 DEF Mark, chara
    <3> QED BY <1>0, <3>1 DEF TypeOK
  <2>2. CASE Clear(t)
    BY <1>0, <2>2 DEF Clear, Released
  <2> QED BY <1>4, <2>1, <2>2
<1>5. ASSUME NEW q \in Players, Sheathe(q) PROVE stack'[p] = <<>>
  BY <1>0, <1>5 DEF Sheathe, TypeOK
<1> QED BY <1>1, <1>2, <1>3, <1>4, <1>5

\* The packet task's program keeps its shape.
LEMMA PacketNext ==
    ASSUME TypeOK, TypeOK', PacketInv, [Next]_vars
    PROVE  PacketInv'
<1>0. Ticker \in Tasks /\ Packet \in Tasks /\ Ticker # Packet /\ Tasks = {Ticker, Packet} /\ Players \subseteq Actors
  BY OtherTask, Sorts
<1>1. ASSUME program'[Packet] = program[Packet], \A p \in Players : stack[p] = <<>> => stack'[p] = <<>> PROVE PacketInv'
  BY <1>1 DEF PacketInv
<1>2. CASE UNCHANGED vars
  BY <1>1, <1>2 DEF vars, chara
<1>3. CASE \/ \E a \in Actors : TakeTurn(a)
           \/ Look \/ Update \/ Rental \/ Corpse \/ Despawn \/ HpTick
           \/ ResolveAutoAttack \/ ResolveAction \/ DieIfDefenderFell \/ Award \/ ActorEngage
           \/ \E a \in Allies, x \in Mobs : ScriptEngage(a, x)
  <2>1. program'[Packet] = program[Packet]
    BY <1>0, <1>3, TickerElsewhere DEF Elsewhere
  <2>2. \A p \in Players : stack[p] = <<>> => stack'[p] = <<>>
    BY <1>3, EmptyStays
  <2> QED BY <1>1, <2>1, <2>2
<1>4. ASSUME NEW t \in Tasks, NotFound(t) \/ UpdateHate(t) \/ ClearHate(t) \/ Trio(t) \/ ChangeState(t) \/ Mark(t) \/ Clear(t) \/ Complete(t) \/ Revive(t)
      PROVE  PacketInv'
  <2>1. Ahead(t) /\ Elsewhere(t)
    BY <1>4, AskedAhead
  <2>2. \A p \in Players : stack[p] = <<>> => stack'[p] = <<>>
    BY <1>4, EmptyStays
  <2>3. CASE t = Ticker
    BY <1>0, <1>1, <2>1, <2>2, <2>3 DEF Elsewhere
  <2>4. CASE t = Packet
    <3>1. program[Packet] \in Seq(Steps) /\ DOMAIN program[Packet] = 1..Len(program[Packet]) /\ Len(program[Packet]) \in Nat
      BY <1>0 DEF TypeOK
    <3>2. PICK k \in {1, 4} : \A i \in DOMAIN program'[Packet] :
              i \in Nat /\ i >= 1 /\ i + k \in DOMAIN program[Packet] /\ program'[Packet][i] = program[Packet][i + k]
      BY <2>1, <2>4 DEF Ahead
    <3>3. ASSUME NEW i \in DOMAIN program'[Packet] PROVE program'[Packet][i].do # "push"
      <4>1. i \in Nat /\ i >= 1 /\ i + k \in DOMAIN program[Packet] /\ program'[Packet][i] = program[Packet][i + k]
        BY <3>2
      <4>2. Len(program[Packet]) # 1
        BY <3>1, <4>1
      <4>3. program[Packet][i + k].do # "push"
        BY <4>1, <4>2 DEF PacketInv
      <4> QED BY <4>1, <4>3
    <3>4. ASSUME NEW i \in DOMAIN program'[Packet], program'[Packet][i].do = "trio", program'[Packet][i].who \in Players
          PROVE  program'[Packet][i].arg \in {"active", "dead"} \/ stack'[program'[Packet][i].who] = <<>>
      <4>1. i + k \in DOMAIN program[Packet] /\ program'[Packet][i] = program[Packet][i + k]
        BY <3>2
      <4>2. program[Packet][i + k].arg \in {"active", "dead"} \/ stack[program[Packet][i + k].who] = <<>>
        BY <3>4, <4>1 DEF PacketInv
      <4> QED BY <2>2, <3>4, <4>1, <4>2
    <3> QED BY <3>3, <3>4 DEF PacketInv
  <2> QED BY <1>0, <2>3, <2>4
<1>5. ASSUME program'[Packet] = <<>> PROVE PacketInv'
  BY <1>5 DEF PacketInv
<1>6. CASE Push
  <2>1. program[Packet] # <<>> /\ program[Packet][1].do = "push" /\ program[Packet] \in Seq(Steps) /\ Done(Packet)
    BY <1>0, <1>6 DEF Push, Found, At, TypeOK
  <2>2. Len(program[Packet]) = 1
    BY <2>1 DEF PacketInv
  <2>3. program'[Packet] = Tail(program[Packet])
    BY <1>0, <2>1, DoneIsTail DEF Popped
  <2>4. program'[Packet] = <<>>
    <3>1. Tail(program[Packet]) \in Seq(Steps) /\ Len(Tail(program[Packet])) = 0
      BY <2>1, <2>2, NoSteps, Splice
    <3>2. \A q \in Seq(Steps) : Len(q) = 0 => q = <<>>
      OBVIOUS
    <3> QED BY <2>3, <3>1, <3>2
  <2> QED BY <1>5, <2>4
<1>7. ASSUME NEW p \in Players, NEW x \in Mobs \cup {None}, NEW auto \in BOOLEAN, SetTarget(p, x, auto) PROVE PacketInv'
  BY <1>0, <1>5, <1>7, ProgramSet DEF SetTarget, Order
<1>8. ASSUME NEW s, program'[Packet] = <<s>>, s.do # "trio" \/ s.arg \in {"active", "dead"} \/ stack'[s.who] = <<>> PROVE PacketInv'
  BY <1>8 DEF PacketInv
<1>9. ASSUME NEW p \in Players, Draw(p) PROVE PacketInv'
  <2>1. program'[Packet] = <<With("trio", p, "active")>>
    BY <1>0, <1>9, ProgramSet DEF Draw, Order
  <2>2. With("trio", p, "active").arg = "active"
    BY DoFields
  <2> QED BY <1>8, <2>1, <2>2
<1>10. ASSUME NEW p \in Players, NEW x \in Actors, NEW heal \in BOOLEAN, Hotbar(p, x, heal) PROVE PacketInv'
  <2> DEFINE s == [do |-> "push", who |-> p, arg |-> x, heal |-> heal]
  <2>1. program'[Packet] = <<s>>
    BY <1>0, <1>10, ProgramSet DEF Hotbar, Order
  <2>2. s.do # "trio"
    OBVIOUS
  <2> HIDE DEF s
  <2> QED BY <1>8, <2>1, <2>2
<1>11. ASSUME NEW p \in Players, Sheathe(p) PROVE PacketInv'
  <2> DEFINE s == With("trio", p, "passive")  f == Do("forget", p)
  <2>1. program'[Packet] = (IF stack[p] # <<>> THEN <<s, f>> ELSE <<s>>) /\ stack'[p] = <<>>
    BY <1>0, <1>11, ProgramSet DEF Sheathe, Order, DisengageAsks, TypeOK
  <2>2. s.do = "trio" /\ s.who = p /\ f.do = "forget"
    BY DoFields
  <2> HIDE DEF s, f
  <2>3. CASE program'[Packet] = <<s>>
    BY <1>8, <2>1, <2>2, <2>3
  <2>4. CASE program'[Packet] = <<s, f>>
    BY <2>1, <2>2, <2>4 DEF PacketInv
  <2> QED BY <2>1, <2>3, <2>4
<1>12. ASSUME NEW a \in Actors, ScriptDie(a) PROVE PacketInv'
  <2> DEFINE m == Do("mark", a)  c == Do("clear", a)  s == With("trio", a, "dead")  f == Do("complete", a)
  <2>1. program'[Packet] = <<m, c, s, f>>
    BY <1>0, <1>12, ProgramSet DEF ScriptDie, Order, Dying
  <2>2. m.do = "mark" /\ c.do = "clear" /\ s.do = "trio" /\ s.arg = "dead" /\ f.do = "complete"
    BY DoFields
  <2> HIDE DEF m, c, s, f
  <2>3. \A i \in DOMAIN program'[Packet] : program'[Packet][i].do # "push" /\ (program'[Packet][i].do = "trio" => program'[Packet][i].arg = "dead")
    BY <2>1, <2>2
  <2> QED BY <2>3 DEF PacketInv
<1>13. ASSUME NEW a \in Actors, ScriptRevive(a) PROVE PacketInv'
  <2>1. program'[Packet] = <<Do("revive", a)>>
    BY <1>0, <1>13, ProgramSet DEF ScriptRevive, Order
  <2>2. Do("revive", a).do # "trio"
    BY DoFields
  <2> QED BY <1>8, <2>1, <2>2
<1>14. ASSUME NEW t \in Tasks, NEW p \in Players, ScriptSheathe(t, p) PROVE PacketInv'
  <2>1. program'[t] = <<Do("stance", p)>> /\ Elsewhere(t) /\ stack' = stack
    <3>1. program' = [program EXCEPT ![t] = <<Do("stance", p)>>] /\ stack' = stack
      BY <1>14 DEF ScriptSheathe, Order, chara
    <3> QED BY <3>1, ProgramSet
  <2>2. CASE t = Ticker
    BY <1>0, <1>1, <2>1, <2>2 DEF Elsewhere
  <2>3. CASE t = Packet
    <3>1. Do("stance", p).do # "trio"
      BY DoFields
    <3> QED BY <1>8, <2>1, <2>3, <3>1
  <2> QED BY <1>0, <2>2, <2>3
<1> QED BY <1>2, <1>3, <1>4, <1>6, <1>7, <1>9, <1>10, <1>11, <1>12, <1>13, <1>14 DEF Next

\* A step that changes no player's stance, gives no player a state, lays out nobody new and
\* announces commands to those with a drawn weapon only.
LEMMA RestFrame ==
    ASSUME RestInv,
           \A p \in Players : main'[p] = main[p] /\ (stack[p] = <<>> => stack'[p] = <<>>),
           \A p \in Players : p \in Excused => p \in Excused' \/ (stack'[p] = <<>> /\ (Pending(Packet, 1, "push", p)' => main[p] = "active")),
           raced => raced',
           \A t \in Tasks, i \in {1, 2}, p \in Players : Laid(t, i, p)' => \E j \in {1, 2} : Laid(t, j, p),
           \A p \in Players : Pending(Packet, 1, "push", p)' => Pending(Packet, 1, "push", p) \/ main[p] = "active"
    PROVE  RestInv'
<1> SUFFICES ASSUME ~raced' PROVE Resting'
  BY DEF RestInv
<1>1. Resting
  BY DEF RestInv
<1>2. (\A p \in Players : main[p] = "dead" => stack[p] = <<>>)'
  BY <1>1 DEF Resting
<1>3. (\A p \in Players \ Excused : main[p] \in {"passive", "mounted"} => stack[p] = <<>>)'
  BY <1>1 DEF Resting
<1>4. (\A t \in Tasks, i \in {1, 2}, p \in Players : Laid(t, i, p) => stack[p] = <<>> /\ (t = Ticker => main[p] = "dead"))'
  <2> SUFFICES ASSUME NEW t \in Tasks, NEW i \in {1, 2}, NEW p \in Players, Laid(t, i, p)' PROVE stack'[p] = <<>> /\ (t = Ticker => main'[p] = "dead")
    OBVIOUS
  <2>1. PICK j \in {1, 2} : Laid(t, j, p)
    OBVIOUS
  <2> QED BY <1>1, <2>1 DEF Resting
<1>5. (\A p \in Players : Pending(Packet, 1, "push", p) => main[p] # "dead" /\ (p \in Excused \/ main[p] = "active"))'
  BY <1>1 DEF Resting
<1> QED BY <1>2, <1>3, <1>4, <1>5 DEF Resting

\* A handler's step announces no command.
LEMMA PushGone ==
    ASSUME TypeOK, PacketInv, Ahead(Packet), NEW p
    PROVE  ~Pending(Packet, 1, "push", p)'
<1>1. program[Packet] \in Seq(Steps) /\ DOMAIN program[Packet] = 1..Len(program[Packet]) /\ Len(program[Packet]) \in Nat
  BY OtherTask DEF TypeOK
<1>2. PICK k \in {1, 4} : \A i \in DOMAIN program'[Packet] :
          i \in Nat /\ i >= 1 /\ i + k \in DOMAIN program[Packet] /\ program'[Packet][i] = program[Packet][i + k]
  BY DEF Ahead
<1> SUFFICES ASSUME Pending(Packet, 1, "push", p)' PROVE FALSE
  OBVIOUS
<1>3. 1 + k \in DOMAIN program[Packet] /\ program[Packet][1 + k].do = "push"
  BY <1>2 DEF Pending
<1>4. Len(program[Packet]) = 1
  BY <1>3 DEF PacketInv
<1> QED BY <1>1, <1>3, <1>4

\* The ticker's steps that change no stance.
LEMMA RestTurn ==
    ASSUME TypeOK, TypeOK', RitesInv, RestInv,
           \/ \E a \in Actors : TakeTurn(a)
           \/ Look \/ Update \/ Rental \/ Corpse \/ Despawn \/ HpTick
           \/ ResolveAutoAttack \/ ResolveAction \/ DieIfDefenderFell \/ Award \/ ActorEngage
           \/ \E a \in Allies, x \in Mobs : ScriptEngage(a, x)
    PROVE  RestInv'
<1>0. Ticker \in Tasks /\ Packet \in Tasks /\ Ticker # Packet /\ Tasks = {Ticker, Packet} /\ Players \subseteq Actors
  BY OtherTask, Sorts
<1>1. Elsewhere(Ticker) /\ \A p : Pending(Packet, 1, "push", p)' <=> Pending(Packet, 1, "push", p)
  <2>1. Elsewhere(Ticker)
    BY TickerElsewhere
  <2> QED BY <1>0, <2>1, ElsewherePending
<1>2. \A p \in Players : stack[p] = <<>> => stack'[p] = <<>>
  BY EmptyStays
<1>3. ASSUME NEW t \in Tasks, NEW i \in {1, 2}, NEW p \in Players, Laid(t, i, p)' PROVE \E j \in {1, 2} : Laid(t, j, p)
  <2>1. CASE \/ \E a \in Actors : TakeTurn(a)
             \/ Look \/ Update \/ Rental \/ Corpse \/ Despawn \/ HpTick
             \/ ResolveAutoAttack \/ ResolveAction \/ ActorEngage \/ (DieIfDefenderFell /\ ~Fell(Step(Ticker).who))
    <3>1. Rewritten(Ticker)
      BY <2>1, TurnKinds
    <3> QED BY <1>0, <1>3, <3>1, LaidKept
  <2>2. CASE Award
    <3>1. Popped(Ticker) /\ Step(Ticker).do # "mark"
      BY <2>2, AwardKind DEF Award, At, Step
    <3> QED BY <1>0, <1>3, <3>1, LaidKept
  <2>3. CASE \E a \in Allies, x \in Mobs : ScriptEngage(a, x)
    <3>1. Rewritten(Ticker)
      BY <2>3, EngageKind
    <3> QED BY <1>0, <1>3, <3>1, LaidKept
  <2>4. CASE DieIfDefenderFell /\ Fell(Step(Ticker).who)
    <3>1. program'[Ticker][1] = Do("mark", Step(Ticker).who) /\ program'[Ticker][2] = Do("clear", Step(Ticker).who)
      BY <2>4, FellKind
    <3>2. program'[Ticker][1].do = "mark" /\ program'[Ticker][2].do = "clear"
      BY <3>1, DoFields
    <3>3. t # Ticker
      BY <1>3, <3>2 DEF Laid, Pending
    <3> QED BY <1>0, <1>1, <1>3, <3>3, ElsewherePending
  <2> QED BY <2>1, <2>2, <2>3, <2>4
<1>4. CASE \/ \E a \in Actors : TakeTurn(a)
           \/ Look \/ Update \/ Corpse \/ Despawn \/ HpTick
           \/ ResolveAutoAttack \/ ResolveAction \/ DieIfDefenderFell \/ Award \/ ActorEngage
           \/ \E a \in Allies, x \in Mobs : ScriptEngage(a, x)
           \/ (Rental /\ UNCHANGED main)
  <2>1. main' = main /\ raced' = raced
    BY <1>4 DEF TakeTurn, Look, Update, Corpse, Despawn, HpTick, ResolveAutoAttack, ResolveAction, DieIfDefenderFell, Award, ActorEngage, ScriptEngage, Rental, chara, history
  <2>3. unflushed' = unflushed
    BY <1>4 DEF TakeTurn, Look, Update, Corpse, Despawn, HpTick, ResolveAutoAttack, ResolveAction, DieIfDefenderFell, Award, ActorEngage, ScriptEngage, Rental, chara, history
  <2>2. slipped \subseteq slipped'
    <3>1. CASE HpTick \/ Rental
      BY <3>1 DEF HpTick, Rental
    <3>2. CASE ResolveAction
      BY <3>2 DEF ResolveAction, Healed
    <3>3. CASE \/ \E a \in Actors : TakeTurn(a)
               \/ Look \/ Update \/ Corpse \/ Despawn
               \/ ResolveAutoAttack \/ DieIfDefenderFell \/ Award \/ ActorEngage
               \/ \E a \in Allies, x \in Mobs : ScriptEngage(a, x)
      <4>1. slipped' = slipped
        BY <3>3 DEF TakeTurn, Look, Update, Corpse, Despawn, ResolveAutoAttack, DieIfDefenderFell, Award, ActorEngage, ScriptEngage, chara, history
      <4> QED BY <4>1
    <3> QED BY <1>4, <3>1, <3>2, <3>3
  <2>4. Excused \subseteq Excused'
    BY <2>2, <2>3 DEF Excused
  <2> QED BY <1>1, <1>2, <1>3, <2>1, <2>4, RestFrame
<1>5. CASE Rental /\ main' # main
  <2>1. PICK a : a = Step(Ticker).who
    OBVIOUS
  <2>2. /\ main' = [main EXCEPT ![a] = "passive"] /\ raced' = raced /\ stack' = stack /\ unflushed' = unflushed
        /\ slipped' = IF main[a] = "dead" \/ stack[a] # <<>> \/ program[Packet] # <<>> THEN slipped \cup {a} ELSE slipped
    BY <1>5, <2>1 DEF Rental
  <2> SUFFICES ASSUME ~raced' PROVE Resting'
    BY DEF RestInv
  <2>3. Resting
    BY <2>2 DEF RestInv
  <2>4. \A p \in Players : main'[p] = IF p = a THEN "passive" ELSE main[p]
    BY <1>0, <2>2 DEF TypeOK
  <2>5. \A p \in Players : p \notin Excused' => p \notin Excused /\ (p = a => stack[a] = <<>> /\ program[Packet] = <<>>)
    BY <2>2 DEF Excused
  <2>6. (\A p \in Players : main[p] = "dead" => stack[p] = <<>>)'
    BY <2>2, <2>3, <2>4 DEF Resting
  <2>7. (\A p \in Players \ Excused : main[p] \in {"passive", "mounted"} => stack[p] = <<>>)'
    BY <2>2, <2>3, <2>4, <2>5 DEF Resting
  <2>8. (\A t \in Tasks, i \in {1, 2}, p \in Players : Laid(t, i, p) => stack[p] = <<>> /\ (t = Ticker => main[p] = "dead"))'
    <3> SUFFICES ASSUME NEW t \in Tasks, NEW i \in {1, 2}, NEW p \in Players, Laid(t, i, p)' PROVE stack'[p] = <<>> /\ (t = Ticker => main'[p] = "dead")
      OBVIOUS
    <3>1. PICK j \in {1, 2} : Laid(t, j, p)
      BY <1>3
    <3>2. t # Ticker
      BY <1>0, <1>5, TurnKinds, RewrittenPending
    <3> QED BY <2>2, <2>3, <3>1, <3>2 DEF Resting
  <2>9. (\A p \in Players : Pending(Packet, 1, "push", p) => main[p] # "dead" /\ (p \in Excused \/ main[p] = "active"))'
    <3> SUFFICES ASSUME NEW p \in Players, Pending(Packet, 1, "push", p)' PROVE main'[p] # "dead" /\ (p \in Excused' \/ main'[p] = "active")
      OBVIOUS
    <3>1. Pending(Packet, 1, "push", p) /\ program[Packet] # <<>>
      BY <1>1 DEF Pending
    <3> QED BY <2>3, <2>4, <2>5, <3>1 DEF Resting
  <2> QED BY <2>6, <2>7, <2>8, <2>9 DEF Resting
<1> QED BY <1>4, <1>5

\* The steps of handlers keep RestInv.
LEMMA RestAsked ==
    ASSUME TypeOK, TypeOK', RitesInv, TickerInv, PacketInv, RestInv, NEW t \in Tasks,
           NotFound(t) \/ UpdateHate(t) \/ ClearHate(t) \/ Trio(t) \/ ChangeState(t) \/ Mark(t) \/ Clear(t) \/ Complete(t) \/ Revive(t)
    PROVE  RestInv'
<1>0. Ticker \in Tasks /\ Packet \in Tasks /\ Ticker # Packet /\ Tasks = {Ticker, Packet} /\ Players \subseteq Actors
  BY OtherTask, Sorts
<1>1. program[t] # <<>> /\ Step(t) = program[t][1] /\ 1 \in DOMAIN program[t] /\ Step(t).who \in Actors /\ Ahead(t) /\ Elsewhere(t)
  BY AskedAhead, RiteFacts, PopTypes
<1>2. PICK b \in Actors : b = Step(t).who
  BY <1>1
<1>3. \A p \in Players : stack[p] = <<>> => stack'[p] = <<>>
  BY EmptyStays
<1>4. \A p : Pending(Packet, 1, "push", p)' => t = Ticker /\ Pending(Packet, 1, "push", p)
  <2>1. CASE t = Packet
    BY <1>1, <2>1, PushGone
  <2>2. CASE t = Ticker
    BY <1>0, <1>1, <2>2, ElsewherePending
  <2> QED BY <1>0, <2>1, <2>2
<1>5. ASSUME Step(t).do # "mark" \/ Skipped(t) PROVE \A u \in Tasks, i \in {1, 2}, p \in Players : Laid(u, i, p)' => \E j \in {1, 2} : Laid(u, j, p)
  <2>1. Rewritten(t) \/ (Popped(t) /\ Step(t).do # "mark") \/ Skipped(t)
    <3>1. CASE Mark(t)
      BY <1>5, <3>1 DEF Mark, Found, At, Step
    <3>2. CASE NotFound(t)
      BY <3>2, AskedKinds
    <3>3. CASE UpdateHate(t) \/ ClearHate(t) \/ Trio(t) \/ ChangeState(t) \/ Clear(t) \/ Complete(t) \/ Revive(t)
      <4>1. Step(t).do # "mark"
        BY <3>3 DEF UpdateHate, ClearHate, Trio, ChangeState, Clear, Complete, Revive, Found, At, Step
      <4> QED BY <3>3, <4>1, AskedKinds
    <3> QED BY <3>1, <3>2, <3>3
  <2> QED BY <2>1, LaidKept
<1>6. ASSUME \A p \in Players : main'[p] = main[p], Excused' = Excused, raced => raced', Step(t).do # "mark" \/ Skipped(t) PROVE RestInv'
  BY <1>3, <1>4, <1>5, <1>6, RestFrame
<1>7. CASE UpdateHate(t) \/ ClearHate(t) \/ Clear(t) \/ Complete(t)
  <2>1. main' = main /\ Excused' = Excused /\ (raced => raced')
    <3>1. CASE Clear(t)
      BY <3>1 DEF Clear, Cut, Excused
    <3>2. CASE UpdateHate(t) \/ ClearHate(t) \/ Complete(t)
      BY <3>2 DEF UpdateHate, ClearHate, Complete, chara, history, Excused
    <3> QED BY <1>7, <3>1, <3>2
  <2>2. Step(t).do # "mark"
    BY <1>7 DEF UpdateHate, ClearHate, Clear, Complete, Found, At, Step
  <2> QED BY <1>6, <2>1, <2>2
<1>8. CASE NotFound(t)
  <2>1. UNCHANGED <<main, slipped, raced>> /\ Excused' = Excused
    BY <1>8 DEF NotFound, chara, history, Excused
  <2>2. Step(t).do # "mark" \/ Skipped(t)
    <3>1. CASE Step(t).do = "mark"
      <4>1. program' = [program EXCEPT ![t] = SubSeq(@, 5, Len(@))]
        BY <1>8, <3>1 DEF NotFound
      <4>2. program'[t] = SubSeq(program[t], 5, Len(program[t])) /\ Elsewhere(t)
        BY <4>1, ProgramSet
      <4> QED BY <1>1, <3>1, <4>2 DEF Skipped, At, Step
    <3> QED BY <3>1
  <2> QED BY <1>6, <2>1, <2>2
<1>9. CASE Mark(t) /\ main[b] = "dead"
  <2>1. main' = main /\ Excused' = Excused /\ raced' = raced /\ Skipped(t)
    BY <1>2, <1>9, AskedKinds DEF Mark, chara, Excused
  <2> QED BY <1>6, <2>1
<1>10. CASE Revive(t) /\ main[b] # "dead"
  <2>1. main' = main /\ Excused' = Excused /\ raced' = raced /\ Step(t).do # "mark"
    BY <1>2, <1>10 DEF Revive, Found, At, Step, chara, Excused
  <2> QED BY <1>6, <2>1
<1>11. CASE Trio(t)
  <2>1. Step(t).do = "trio" /\ UNCHANGED <<raced, stack>> /\ Excused' = Excused
        /\ main' = IF main[b] = "dead" THEN main ELSE [main EXCEPT ![b] = Step(t).arg]
    BY <1>2, <1>11 DEF Trio, Found, At, Step, history, Excused
  <2>2. CASE main[b] = "dead" \/ b \notin Players \/ raced
    <3>1. CASE main[b] = "dead" \/ b \notin Players
      <4>1. \A p \in Players : main'[p] = main[p]
        BY <1>0, <2>1, <3>1 DEF TypeOK
      <4> QED BY <1>6, <2>1, <4>1
    <3>2. CASE raced
      BY <2>1, <3>2 DEF RestInv
    <3> QED BY <2>2, <3>1, <3>2
  <2>3. CASE main[b] # "dead" /\ b \in Players /\ ~raced
    <3>1. Resting
      BY <2>3 DEF RestInv
    <3>2. Step(t).arg = "dead" => Laid(t, 1, b)
      BY <1>1, <1>2, <2>1 DEF Laid, Pending
    <3>3. t # Ticker
      <4> SUFFICES ASSUME t = Ticker PROVE FALSE
        OBVIOUS
      <4>1. Stern(program[Ticker][1])
        BY <1>1, SternSeq DEF TickerInv
      <4>2. Step(t).arg = "dead"
        BY <1>1, <1>2, <2>1, <2>3, <4>1 DEF Stern
      <4> QED BY <1>0, <2>3, <3>1, <3>2, <4>2 DEF Resting
    <3>4. Step(t).arg = "active" \/ stack[b] = <<>>
      <4>1. Step(t).arg \in {"active", "dead"} \/ stack[b] = <<>>
        BY <1>0, <1>1, <1>2, <2>1, <2>3, <3>3 DEF PacketInv
      <4>2. Step(t).arg = "dead" => stack[b] = <<>>
        BY <2>3, <3>1, <3>2 DEF Resting
      <4> QED BY <4>1, <4>2
    <3>5. \A p \in Players : main'[p] = IF p = b THEN Step(t).arg ELSE main[p]
      BY <1>0, <2>1, <2>3 DEF TypeOK
    <3>6. (\A p \in Players : main[p] = "dead" => stack[p] = <<>>)'
      BY <2>1, <3>1, <3>4, <3>5 DEF Resting
    <3>7. (\A p \in Players \ Excused : main[p] \in {"passive", "mounted"} => stack[p] = <<>>)'
      BY <2>1, <3>1, <3>4, <3>5 DEF Resting
    <3>8. (\A u \in Tasks, i \in {1, 2}, p \in Players : Laid(u, i, p) => stack[p] = <<>> /\ (u = Ticker => main[p] = "dead"))'
      <4> SUFFICES ASSUME NEW u \in Tasks, NEW i \in {1, 2}, NEW p \in Players, Laid(u, i, p)' PROVE stack'[p] = <<>> /\ (u = Ticker => main'[p] = "dead")
        OBVIOUS
      <4>1. PICK j \in {1, 2} : Laid(u, j, p)
        BY <1>5, <2>1
      <4>2. stack[p] = <<>> /\ (u = Ticker => main[p] = "dead")
        BY <3>1, <4>1 DEF Resting
      <4> QED BY <2>1, <2>3, <3>5, <4>2
    <3>9. \A p : ~Pending(Packet, 1, "push", p)'
      BY <1>4, <3>3
    <3> QED BY <3>6, <3>7, <3>8, <3>9 DEF Resting, RestInv
  <2> QED BY <2>2, <2>3
<1>12. CASE Mark(t) /\ main[b] # "dead"
  <2>1. /\ Popped(t) /\ Step(t).do = "mark" /\ raced' = Cut(t)
        /\ main' = [main EXCEPT ![b] = "dead"] /\ stack' = [stack EXCEPT ![b] = <<>>]
        /\ slipped' = slipped \ {b} /\ unflushed' = unflushed \ {b}
    BY <1>2, <1>12, AskedKinds DEF Mark, Found, At, Step
  <2> SUFFICES ASSUME ~raced' PROVE Resting'
    BY DEF RestInv
  <2>2. \A u \in Tasks : u # t => program[u] = <<>> /\ program'[u] = <<>> /\ ~raced
    BY <1>1, <2>1, UncutAlone DEF Elsewhere
  <2>3. Resting
    BY <1>0, <2>2 DEF RestInv
  <2>4. \A u \in Tasks, i \in {1, 2}, p \in Players : Laid(u, i, p)' => p = b
    <3> SUFFICES ASSUME NEW u \in Tasks, NEW i \in {1, 2}, NEW p \in Players, Laid(u, i, p)' PROVE p = b
      OBVIOUS
    <3>1. u = t
      BY <2>2 DEF Laid, Pending
    <3>2. Laid(t, i + 1, p)
      BY <2>1, <3>1, PoppedPending
    <3>3. Pending(t, 2, "clear", b) /\ Laid(t, 3, b)
      BY <1>1, <1>2, <2>1, RiteFacts
    <3> QED BY <3>2, <3>3 DEF Laid, Pending
  <2>5. \A p : ~Pending(Packet, 1, "push", p)'
    <3>1. t = Packet \/ program'[Packet] = <<>>
      BY <1>0, <2>2
    <3> QED BY <1>0, <1>4, <3>1 DEF Pending
  <2>6. \A p \in Players : IF p = b THEN main'[p] = "dead" /\ stack'[p] = <<>> ELSE main'[p] = main[p] /\ stack'[p] = stack[p] /\ (p \in Excused' <=> p \in Excused)
    BY <1>0, <2>1 DEF TypeOK, Excused
  <2>7. (\A p \in Players : main[p] = "dead" => stack[p] = <<>>)'
    BY <2>3, <2>6 DEF Resting
  <2>8. (\A p \in Players \ Excused : main[p] \in {"passive", "mounted"} => stack[p] = <<>>)'
    BY <2>3, <2>6 DEF Resting
  <2>9. (\A u \in Tasks, i \in {1, 2}, p \in Players : Laid(u, i, p) => stack[p] = <<>> /\ (u = Ticker => main[p] = "dead"))'
    BY <2>4, <2>6
  <2> QED BY <2>5, <2>7, <2>8, <2>9 DEF Resting
<1>13. CASE Revive(t) /\ main[b] = "dead"
  <2>1. /\ Rewritten(t) /\ Step(t).do = "revive" /\ raced' = Cut(t) /\ stack' = stack
        /\ main' = [main EXCEPT ![b] = "passive"] /\ slipped' = slipped \ {b} /\ unflushed' = unflushed
    BY <1>2, <1>13, AskedKinds DEF Revive, Found, At, Step
  <2> SUFFICES ASSUME ~raced' PROVE Resting'
    BY DEF RestInv
  <2>2. \A u \in Tasks : u # t => program[u] = <<>> /\ program'[u] = <<>> /\ ~raced
    BY <1>1, <2>1, UncutAlone DEF Elsewhere
  <2>3. Resting
    BY <1>0, <2>2 DEF RestInv
  <2>4. \A u \in Tasks : \A i, p : ~Laid(u, i, p)'
    BY <2>1, <2>2, RewrittenPending DEF Laid, Pending
  <2>5. \A p : ~Pending(Packet, 1, "push", p)'
    <3>1. t = Packet \/ program'[Packet] = <<>>
      BY <1>0, <2>2
    <3> QED BY <1>0, <1>4, <3>1 DEF Pending
  <2>6. \A p \in Players : IF p = b THEN main'[p] = "passive" /\ stack[p] = <<>> ELSE main'[p] = main[p] /\ (p \in Excused' <=> p \in Excused)
    BY <1>0, <1>13, <2>1, <2>3 DEF TypeOK, Resting, Excused
  <2>7. (\A p \in Players : main[p] = "dead" => stack[p] = <<>>)'
    BY <2>1, <2>3, <2>6 DEF Resting
  <2>8. (\A p \in Players \ Excused : main[p] \in {"passive", "mounted"} => stack[p] = <<>>)'
    BY <2>1, <2>3, <2>6 DEF Resting
  <2> QED BY <2>4, <2>5, <2>7, <2>8 DEF Resting
<1>14. CASE ChangeState(t)
  <2>1. /\ Step(t).do = "stance" /\ UNCHANGED <<slipped, raced, stack>>
        /\ main' = IF main[b] = "dead" THEN main ELSE [main EXCEPT ![b] = "passive"]
        /\ unflushed' = IF stack[b] # <<>> \/ (At(Packet, "push") /\ Step(Packet).who = b) THEN unflushed \cup {b} ELSE unflushed
    BY <1>2, <1>14 DEF ChangeState, Found, At, Step
  <2>2. /\ Excused \subseteq Excused'
        /\ stack[b] # <<>> => b \in Excused'
        /\ Pending(Packet, 1, "push", b) => b \in Excused'
    <3>1. Pending(Packet, 1, "push", b) => At(Packet, "push") /\ Step(Packet).who = b
      BY <1>0 DEF Pending, At, Step, TypeOK
    <3> QED BY <2>1, <3>1 DEF Excused
  <2> SUFFICES ASSUME ~raced' PROVE Resting'
    BY DEF RestInv
  <2>3. Resting
    BY <2>1 DEF RestInv
  <2>4. \A p \in Players : main'[p] = IF p = b /\ main[b] # "dead" THEN "passive" ELSE main[p]
    BY <1>0, <2>1 DEF TypeOK
  <2>5. (\A p \in Players : main[p] = "dead" => stack[p] = <<>>)'
    BY <2>1, <2>3, <2>4 DEF Resting
  <2>6. (\A p \in Players \ Excused : main[p] \in {"passive", "mounted"} => stack[p] = <<>>)'
    BY <2>1, <2>2, <2>3, <2>4 DEF Resting
  <2>7. (\A u \in Tasks, i \in {1, 2}, p \in Players : Laid(u, i, p) => stack[p] = <<>> /\ (u = Ticker => main[p] = "dead"))'
    <3> SUFFICES ASSUME NEW u \in Tasks, NEW i \in {1, 2}, NEW p \in Players, Laid(u, i, p)' PROVE stack'[p] = <<>> /\ (u = Ticker => main'[p] = "dead")
      OBVIOUS
    <3>1. PICK j \in {1, 2} : Laid(u, j, p)
      BY <1>5, <2>1
    <3>2. stack[p] = <<>> /\ (u = Ticker => main[p] = "dead")
      BY <2>3, <3>1 DEF Resting
    <3> QED BY <2>1, <2>4, <3>2
  <2>8. (\A p \in Players : Pending(Packet, 1, "push", p) => main[p] # "dead" /\ (p \in Excused \/ main[p] = "active"))'
    <3> SUFFICES ASSUME NEW p \in Players, Pending(Packet, 1, "push", p)' PROVE main'[p] # "dead" /\ (p \in Excused' \/ main'[p] = "active")
      OBVIOUS
    <3>1. Pending(Packet, 1, "push", p)
      BY <1>4
    <3> QED BY <2>2, <2>3, <2>4, <3>1 DEF Resting
  <2> QED BY <2>5, <2>6, <2>7, <2>8 DEF Resting
<1> QED BY <1>7, <1>8, <1>9, <1>10, <1>11, <1>12, <1>13, <1>14

\* A script's order to sheathe changes nothing yet.
LEMMA RestStance ==
    ASSUME TypeOK, RitesInv, RestInv, NEW t \in Tasks, NEW p \in Players, ScriptSheathe(t, p)
    PROVE  RestInv'
<1>1. /\ Rewritten(t) /\ Elsewhere(t) /\ program'[t] = <<Do("stance", p)>>
      /\ UNCHANGED <<main, stack, slipped, unflushed, raced>>
  BY StanceKind
<1>2. Excused' = Excused
  BY <1>1 DEF Excused
<1>3. \A u \in Tasks, i \in {1, 2}, q \in Players : Laid(u, i, q)' => \E j \in {1, 2} : Laid(u, j, q)
  BY <1>1, LaidKept
<1>4. \A q : Pending(Packet, 1, "push", q)' => Pending(Packet, 1, "push", q)
  <2>1. CASE t = Packet
    BY <1>1, <2>1, DoFields DEF Pending
  <2>2. CASE t # Packet
    BY <1>1, <2>2, OtherTask, ElsewherePending
  <2> QED BY <2>1, <2>2
<1> QED BY <1>1, <1>2, <1>3, <1>4, RestFrame

\* The orders of packets and scripts keep it.
LEMMA RestOrdered ==
    ASSUME TypeOK, TypeOK', RitesInv, PacketInv, RestInv,
           \/ Push
           \/ \E p \in Players : \/ \E x \in Mobs \cup {None}, auto \in BOOLEAN : SetTarget(p, x, auto)
                                 \/ \E x \in Actors, heal \in BOOLEAN : Hotbar(p, x, heal)
                                 \/ Draw(p) \/ Sheathe(p)
           \/ \E a \in Actors : ScriptDie(a) \/ ScriptRevive(a)
    PROVE  RestInv'
<1>0. Ticker \in Tasks /\ Packet \in Tasks /\ Ticker # Packet /\ Tasks = {Ticker, Packet} /\ Players \subseteq Actors
  BY OtherTask, Sorts
<1>1. Elsewhere(Packet) /\ UNCHANGED <<main, slipped, raced>>
  <2>1. UNCHANGED <<main, slipped, raced>>
    BY DEF Push, SetTarget, Hotbar, Draw, Sheathe, ScriptDie, ScriptRevive, chara, history
  <2> QED BY <2>1, PacketElsewhere
<1>2. \A i \in {1, 2} : \A p : ~Laid(Packet, i, p)'
  <2>1. CASE \E a \in Actors : ScriptDie(a)
    <3>1. PICK a \in Actors : ScriptDie(a)
      BY <2>1
    <3>2. program'[Packet][1] = Do("mark", a) /\ program'[Packet][2] = Do("clear", a)
      BY <3>1, DieKind DEF Dying
    <3> QED BY <3>2, DoFields DEF Laid, Pending
  <2>2. CASE \/ Push
             \/ \E p \in Players : \/ \E x \in Mobs \cup {None}, auto \in BOOLEAN : SetTarget(p, x, auto)
                                   \/ \E x \in Actors, heal \in BOOLEAN : Hotbar(p, x, heal)
                                   \/ Draw(p) \/ Sheathe(p)
             \/ \E a \in Actors : ScriptRevive(a)
    BY <1>0, <2>2, PacketKinds, RewrittenPending
  <2> QED BY <2>1, <2>2
<1>3. \A t \in Tasks, i \in {1, 2}, p \in Players : Laid(t, i, p)' => t = Ticker /\ Laid(t, i, p)
  BY <1>0, <1>1, <1>2, ElsewherePending
<1>4. ASSUME NEW p \in Players, Pending(Packet, 1, "push", p)' PROVE main[p] = "active"
  <2>1. CASE Push
    <3>1. program[Packet] # <<>> /\ program[Packet][1].do = "push" /\ program[Packet] \in Seq(Steps)
      BY <1>0, <2>1 DEF Push, Found, At, TypeOK
    <3>2. Len(program[Packet]) = 1
      BY <3>1 DEF PacketInv
    <3>3. Popped(Packet)
      BY <1>0, <2>1, <3>1, DoneIsTail DEF Push
    <3>4. Pending(Packet, 2, "push", p)
      BY <1>0, <1>4, <3>3, PoppedPending
    <3> QED BY <3>1, <3>2, <3>4 DEF Pending
  <2>2. CASE \E q \in Players, x \in Mobs \cup {None}, auto \in BOOLEAN : SetTarget(q, x, auto)
    <3>1. program'[Packet] = <<>>
      BY <1>0, <2>2, ProgramSet DEF SetTarget, Order
    <3> QED BY <1>4, <3>1 DEF Pending
  <2>3. ASSUME NEW q \in Players, NEW x \in Actors, NEW heal \in BOOLEAN, Hotbar(q, x, heal) PROVE main[p] = "active"
    <3>1. program'[Packet] = <<[do |-> "push", who |-> q, arg |-> x, heal |-> heal]>> /\ main[q] = "active"
      BY <1>0, <2>3, ProgramSet DEF Hotbar, Order
    <3>2. p = q
      BY <1>4, <3>1 DEF Pending
    <3> QED BY <3>1, <3>2
  <2>4. CASE (\E q \in Players : Draw(q) \/ Sheathe(q)) \/ (\E a \in Actors : ScriptDie(a) \/ ScriptRevive(a))
    <3>1. PICK w, a, s : program'[Packet][1] = s /\ (s = Do(w, a) \/ \E v : s = With(w, a, v)) /\ w \in {"trio", "mark", "revive"}
      <4>0. ASSUME NEW q, program' = [program EXCEPT ![Packet] = q] PROVE program'[Packet] = q
        BY <1>0, <4>0, ProgramSet
      <4>1. ASSUME NEW q \in Players, Draw(q) PROVE program'[Packet] = <<With("trio", q, "active")>>
        BY <4>0, <4>1 DEF Draw, Order
      <4>2. ASSUME NEW q \in Players, Sheathe(q) PROVE program'[Packet][1] = With("trio", q, "passive")
        <5>1. program'[Packet] = IF stack[q] # <<>> THEN DisengageAsks(q) ELSE <<With("trio", q, "passive")>>
          BY <4>0, <4>2 DEF Sheathe, Order
        <5> QED BY <5>1 DEF DisengageAsks
      <4>3. ASSUME NEW a \in Actors, ScriptDie(a) PROVE program'[Packet][1] = Do("mark", a)
        <5>1. program'[Packet] = Dying(a)
          BY <4>3, DieKind
        <5> QED BY <5>1 DEF Dying
      <4>4. ASSUME NEW a \in Actors, ScriptRevive(a) PROVE program'[Packet] = <<Do("revive", a)>>
        BY <4>0, <4>4 DEF ScriptRevive, Order
      <4> QED BY <2>4, <4>1, <4>2, <4>3, <4>4
    <3>2. s.do = w
      BY <3>1, DoFields
    <3> QED BY <1>4, <3>1, <3>2 DEF Pending
  <2> QED BY <2>1, <2>2, <2>3, <2>4
<1>10. ASSUME NEW p \in Players, p \in Excused PROVE p \in Excused' \/ stack'[p] = <<>>
  <2>1. CASE unflushed' = unflushed
    BY <1>1, <1>10, <2>1 DEF Excused
  <2>2. ASSUME NEW q \in Players, Sheathe(q) PROVE p \in Excused' \/ stack'[p] = <<>>
    <3>1. unflushed' = unflushed \ {q} /\ stack'[q] = <<>>
      BY <1>0, <2>2 DEF Sheathe, TypeOK
    <3> QED BY <1>1, <1>10, <3>1 DEF Excused
  <2>3. unflushed' = unflushed \/ \E q \in Players : Sheathe(q)
    BY DEF Push, SetTarget, Hotbar, Draw, ScriptDie, ScriptRevive, history
  <2> QED BY <2>1, <2>2, <2>3
<1>5. ASSUME \A p \in Players : stack[p] = <<>> => stack'[p] = <<>> PROVE RestInv'
  BY <1>1, <1>3, <1>4, <1>5, <1>10, RestFrame
<1>6. ASSUME NEW b \in Players, NEW s, stack' = [stack EXCEPT ![b] = s],
             ~raced => main[b] # "dead" /\ (b \in Excused \/ main[b] = "active"), Excused' = Excused
      PROVE  RestInv'
  <2> SUFFICES ASSUME ~raced' PROVE Resting'
    BY DEF RestInv
  <2>1. Resting
    BY <1>1 DEF RestInv
  <2>2. \A p \in Players : p # b => stack'[p] = stack[p]
    BY <1>0, <1>6 DEF TypeOK
  <2>3. ~raced
    BY <1>1
  <2>4. (\A p \in Players : main[p] = "dead" => stack[p] = <<>>)'
    BY <1>1, <1>6, <2>1, <2>2, <2>3 DEF Resting
  <2>5. (\A p \in Players \ Excused : main[p] \in {"passive", "mounted"} => stack[p] = <<>>)'
    BY <1>1, <1>6, <2>1, <2>2, <2>3 DEF Resting
  <2>6. (\A t \in Tasks, i \in {1, 2}, p \in Players : Laid(t, i, p) => stack[p] = <<>> /\ (t = Ticker => main[p] = "dead"))'
    BY <1>1, <1>3, <1>6, <2>1, <2>2, <2>3 DEF Resting
  <2>7. (\A p \in Players : Pending(Packet, 1, "push", p) => main[p] # "dead" /\ (p \in Excused \/ main[p] = "active"))'
    BY <1>1, <1>4
  <2> QED BY <2>4, <2>5, <2>6, <2>7 DEF Resting
<1>7. CASE Push
  <2>1. PICK b, s : Pending(Packet, 1, "push", b) /\ b \in Actors /\ stack' = [stack EXCEPT ![b] = s]
    <3>1. program[Packet] # <<>> /\ Step(Packet).do = "push"
      BY <1>7 DEF Push, Found, At, Step
    <3>2. Pending(Packet, 1, "push", Step(Packet).who) /\ Step(Packet).who \in Actors
      BY <1>0, <3>1, RiteFacts, PopTypes DEF Pending
    <3> QED BY <1>7, <3>2 DEF Push
  <2>4. Excused' = Excused
    BY <1>7 DEF Push, history, Excused
  <2>2. CASE b \in Players
    BY <1>6, <2>1, <2>2, <2>4 DEF RestInv, Resting
  <2>3. CASE b \notin Players
    BY <1>0, <1>5, <2>1, <2>3 DEF TypeOK
  <2> QED BY <2>2, <2>3
<1>8. ASSUME NEW p \in Players, NEW x \in Mobs \cup {None}, NEW auto \in BOOLEAN, SetTarget(p, x, auto) PROVE RestInv'
  <2>1. CASE auto /\ x \in Mobs /\ main[p] = "active"
    <3>1. \E s : stack' = [stack EXCEPT ![p] = s]
      BY <1>8 DEF SetTarget
    <3>2. Excused' = Excused
      BY <1>8 DEF SetTarget, Excused
    <3> QED BY <1>6, <2>1, <3>1, <3>2
  <2>2. CASE ~(auto /\ x \in Mobs /\ main[p] = "active")
    <3>1. stack' = [stack EXCEPT ![p] = <<>>] \/ stack' = [stack EXCEPT ![p] = stack[p]]
      <4>1. CASE ~auto
        BY <1>8, <4>1 DEF SetTarget
      <4>2. CASE auto
        BY <1>8, <2>2, <4>2 DEF SetTarget
      <4> QED BY <4>1, <4>2
    <3>2. \A q \in Players : stack[q] = <<>> => stack'[q] = <<>>
      BY <1>0, <3>1 DEF TypeOK
    <3> QED BY <1>5, <3>2
  <2> QED BY <2>1, <2>2
<1>9. CASE \/ \E p \in Players : \/ \E x \in Actors, heal \in BOOLEAN : Hotbar(p, x, heal)
                                 \/ Draw(p) \/ Sheathe(p)
           \/ \E a \in Actors : ScriptDie(a) \/ ScriptRevive(a)
  BY <1>5, <1>9, EmptyStays
<1> QED BY <1>7, <1>8, <1>9

\* The invariant of the proof.
IdleInv == TickerInv /\ PacketInv /\ RestInv

\* It holds at first.
LEMMA IdleInit == Init => IdleInv
<1> SUFFICES ASSUME Init PROVE IdleInv
  OBVIOUS
<1>1. \A t \in Tasks : program[t] = <<>>
  BY DEF Init
<1>2. TickerInv /\ PacketInv
  <2>1. program[Ticker] = <<>> /\ program[Packet] = <<>>
    BY <1>1, OtherTask
  <2>2. TickerInv
    BY <2>1, NoStern DEF TickerInv
  <2>3. PacketInv
    BY <2>1 DEF PacketInv
  <2> QED BY <2>2, <2>3
<1>3. \A p \in Players : stack[p] = <<>>
  BY Sorts DEF Init
<1>4. \A t \in Tasks : \A i, w, p : ~Pending(t, i, w, p) /\ ~Laid(t, i, p)
  BY <1>1 DEF Pending, Laid
<1> QED BY <1>2, <1>3, <1>4, OtherTask DEF IdleInv, RestInv, Resting

\* Every step keeps it.
LEMMA IdleNext ==
    ASSUME TypeOK, TypeOK', RitesInv, IdleInv, [Next]_vars
    PROVE  IdleInv'
<1>1. TickerInv' /\ PacketInv'
  BY TickerNext, PacketNext DEF IdleInv
<1>2. RestInv'
  <2>1. CASE UNCHANGED vars
    BY <2>1 DEF vars, chara, history, IdleInv, RestInv, Resting, Excused, Pending, Laid
  <2>2. CASE Next
    BY <2>2, RestTurn, RestAsked, RestStance, RestOrdered DEF Next, IdleInv
  <2> QED BY <2>1, <2>2
<1> QED BY <1>1, <1>2 DEF IdleInv

\* So it holds of every behaviour.
LEMMA IdleInductive == Spec => [](TypeOK /\ RitesInv /\ IdleInv)
<1>1. Init => TypeOK /\ RitesInv /\ IdleInv
  BY TypeInit, RitesInit, IdleInit
<1>2. (TypeOK /\ RitesInv /\ IdleInv) /\ [Next]_vars => (TypeOK /\ RitesInv /\ IdleInv)'
  BY TypeStep, RitesNext, IdleNext
<1> QED BY <1>1, <1>2, PTL DEF Spec

\* For any players: when both tasks are idle and no death or revival was cut by the other task, a
\* player in passive mode has neither an attack nor a command under way (ActivateCommand,
\* flush_battle_states_on_sheathe, apply_die, apply_revive), but for riders whose rental expired
\* and for those a script's ChangeState(0) found in a fight (apply_change_state skips the flush).
THEOREM SheathedIsIdleHolds == Spec => []SheathedIsIdle
<1>1. IdleInv => SheathedIsIdle
  BY DEF IdleInv, RestInv, Resting, Excused, SheathedIsIdle
<1> QED BY <1>1, IdleInductive, PTL

=============================================================================
