---------------------------- MODULE Advancement ----------------------------
(***************************************************************************)
(* How one character advances: experience and levels of its classes, the   *)
(* rested bonus, Grand Company rank and seals (runtime/quest_apply.rs,     *)
(* runtime/dispatcher.rs, processor.rs, database.rs, battle/save.rs).      *)
(*                                                                         *)
(* A handler changes the character under its lock and writes the tables    *)
(* after it, one call for each column; seals live in the tables only, and  *)
(* are read in one call and changed in another.  So a handler is an action *)
(* for its locked part and then a program, the calls it has still to make, *)
(* which the packet task and the ticker interleave.                        *)
(***************************************************************************)
EXTENDS Integers, Sequences, FiniteSetsExt

CONSTANTS
    Classes,    \* the character's classes
    First,      \* the class it is created with
    GCs,        \* Grand Companies
    None,       \* no Grand Company
    Threshold,  \* LEVEL_THRESHOLDS: points from a level to the next
    Gains,      \* experience a script or a kill may grant
    Cost,       \* gc_promotion_cost, by rank; 1 is Recruit
    Cap,        \* rank_seal_cap, by rank
    Reward,     \* seals of one kill or grant
    RestCap,    \* INN_REST_BONUS_CAP
    MaxRequests,  \* bound: gains, grants, class changes, enlistments and promotions
    MaxFaults     \* bound: failed calls and process ends

\* Every packet of the player is handled by one task; the game ticker is another.
Tasks == {"packet", "ticker"}
MaxLevel == Len(Threshold) + 1
TopRank == Len(Cost) + 1

ASSUME AdvancementAssumption ==
    /\ First \in Classes /\ None \notin GCs
    /\ Threshold \in Seq(Nat \ {0}) /\ Cost \in Seq(Nat \ {0}) /\ Cap \in Seq(Nat \ {0})
    /\ Len(Cap) = TopRank
    /\ Gains \subseteq Nat \ {0} /\ {Reward, RestCap} \subseteq Nat \ {0}
    /\ {MaxRequests, MaxFaults} \subseteq Nat

VARIABLES
    mem,      \* the live character: CharaState and battle_save
    row,      \* its columns in the tables
    seals,    \* the seal stacks of characters_inventory
    program,  \* what each task has still to do, the next call first
    earned,   \* history: points each class was granted, rested bonus included
    spent,    \* history: seals promotions have taken, by company
    owed,     \* history: cost of the promotions made, by company
    spoiled,  \* history: cells that two overlapping handlers, or a failed call, disturbed
    cut,      \* history: the process ended between a promotion's payment and its rank
    requests, \* bounded by MaxRequests
    faults    \* bounded by MaxFaults

history == <<earned, spent, owed, spoiled, cut>>
counters == <<requests, faults>>
vars == <<mem, row, seals, program, history, counters>>

Init ==
    /\ mem = [class |-> First, rest |-> 0, gc |-> None,
              lv |-> [c \in Classes |-> IF c = First THEN 1 ELSE 0],
              sp |-> [c \in Classes |-> 0], rank |-> [g \in GCs |-> 0]]
    /\ row = mem
    /\ seals = [g \in GCs |-> 0]
    /\ program = [t \in Tasks |-> <<>>]
    /\ earned = [c \in Classes |-> 0]
    /\ spent = [g \in GCs |-> 0] /\ owed = spent
    /\ spoiled = {} /\ cut = FALSE
    /\ requests = 0 /\ faults = 0
-----------------------------------------------------------------------------
(* Programs *)

Request == requests < MaxRequests /\ requests' = requests + 1
Fault == faults < MaxFaults /\ faults' = faults + 1 /\ UNCHANGED requests
Idle(t) == program[t] = <<>>
At(t, what) == ~Idle(t) /\ Head(program[t]).do = what
Step(t) == Head(program[t])
Done(t) == program' = [program EXCEPT ![t] = Tail(@)]
Then(t, steps) == program' = [program EXCEPT ![t] = steps \o IF @ = <<>> THEN @ ELSE Tail(@)]

\* A call that writes one column: for a class, for a company, or for the character.
SaveCol(col, key, val) == [do |-> "save", col |-> col, key |-> key, val |-> val]
Mirrored == {"sp", "lv", "gc", "rank"}
Cells(steps) ==
    {<<s.col, s.key>> : s \in {x \in {steps[i] : i \in DOMAIN steps} :
                                  x.do = "save" /\ x.col \in Mirrored}}
Do(what, key, n) == [do |-> what, key |-> key, n |-> n]

\* The other task has a write of these cells still to make: the tables may end
\* up with the older of the two values (history only).
Crossed(t, steps) == Cells(steps) \cap UNION {Cells(program[u]) : u \in Tasks \ {t}}
-----------------------------------------------------------------------------
(* Experience *)

\* Points from level 1 to level m, from level l to level m, and all the points a
\* level and its remainder stand for.
Total[m \in 1 .. MaxLevel] == IF m = 1 THEN 0 ELSE Total[m - 1] + Threshold[m - 1]
Points(l, m) == Total[m] - Total[l]
AtLeast1(l) == IF l < 1 THEN 1 ELSE l
Progress(l, s) == Total[AtLeast1(l)] + s

\* level_up_if_threshold_crossed
RollOver(l, s) ==
    LET m == Max({k \in l .. MaxLevel : Points(l, k) <= s})
    IN [lv |-> m, sp |-> IF m = MaxLevel THEN 0 ELSE s - Points(l, m)]

\* consume_rested_xp: RestCap is 100 percent; a gain this small costs one point.
Rested(exp) == exp + (exp * mem.rest) \div RestCap
RestAfter == IF mem.rest = 0 THEN 0 ELSE mem.rest - 1

\* Mutant: the level is written before the points it was paid with.
SavesLevelFirst(c, r, gained, active) ==
    (IF gained THEN <<SaveCol("lv", c, r.lv)>> ELSE <<>>)
    \o <<SaveCol("sp", c, r.sp)>>
    \o (IF gained /\ active THEN <<SaveCol("main", None, c)>> ELSE <<>>)
    \o (IF mem.rest # RestAfter THEN <<SaveCol("rest", None, RestAfter)>> ELSE <<>>)

\* Mutant: a level gained is not saved.
SavesNoLevel(c, r, gained, active) == <<SaveCol("sp", c, r.sp)>>
    \o (IF mem.rest # RestAfter THEN <<SaveCol("rest", None, RestAfter)>> ELSE <<>>)

\* set_exp, set_level, save_player_current_class, set_rest_bonus_exp_rate.
Saves(c, r, gained, active) ==
    <<SaveCol("sp", c, r.sp)>>
    \o (IF gained THEN <<SaveCol("lv", c, r.lv)>> ELSE <<>>)
    \o (IF gained /\ active THEN <<SaveCol("main", None, c)>> ELSE <<>>)
    \o (IF mem.rest # RestAfter THEN <<SaveCol("rest", None, RestAfter)>> ELSE <<>>)

\* apply_add_exp, its locked part and the calls after it.
Gain(t, c, exp) ==
    LET from == AtLeast1(mem.lv[c])
        r == RollOver(from, mem.sp[c] + Rested(exp))
        gained == r.lv > from
        steps == Saves(c, r, gained, mem.class = c)
    IN /\ mem' = [mem EXCEPT !.sp[c] = r.sp, !.rest = RestAfter,
                             !.lv[c] = IF gained THEN r.lv ELSE @]
       /\ Then(t, steps)
       /\ earned' = [earned EXCEPT ![c] = @ + Rested(exp)]
       /\ spoiled' = spoiled \cup Crossed(t, steps)
       /\ UNCHANGED <<row, seals, spent, owed, cut>>

AddExp(t, c, exp) ==
    /\ Idle(t) /\ Request
    /\ Gain(t, c, exp)
    /\ UNCHANGED faults

\* A kill pays seals to the enlisted, by the company and rank read first, and
\* then experience to the class the killer has by then.  A mob far below the
\* killer's level, and a content script that pays by itself, earn nothing.
Kill(t, exp) ==
    /\ Idle(t) /\ Request
    /\ Then(t, (IF mem.gc \in GCs THEN <<Do("award", mem.gc, mem.rank[mem.gc])>> ELSE <<>>)
               \o <<Do("pick", None, exp)>>)
    /\ UNCHANGED <<mem, row, seals, history, faults>>

PickClass(t) ==
    /\ At(t, "pick")
    /\ Then(t, <<Do("gain", mem.class, Step(t).n)>>) \/ Done(t)
    /\ UNCHANGED <<mem, row, seals, history, counters>>

KillExp(t) ==
    /\ At(t, "gain")
    /\ Gain(t, Step(t).key, Step(t).n)
    /\ UNCHANGED counters

\* The ticker's inn accrual, in memory alone.
RestAtInn ==
    /\ mem.rest < RestCap
    /\ mem' = [mem EXCEPT !.rest = @ + 1]
    /\ UNCHANGED <<row, seals, program, history, counters>>
-----------------------------------------------------------------------------
(* apply_do_class_change *)

ClassChange(c) ==
    /\ Idle("packet") /\ mem.class # c /\ Request
    /\ Then("packet", <<Do("class", c, 0)>>)
    /\ UNCHANGED <<mem, row, seals, history, faults>>

\* The class has a hotbar, or a level: only the live class changes, not the
\* class of the next login.
SetClass(t) ==
    /\ At(t, "class") \/ At(t, "setClass")
    /\ mem' = [mem EXCEPT !.class = Step(t).key]
    /\ Done(t)
    /\ UNCHANGED <<row, seals, history, counters>>

\* It was never played, or its level cannot be read: level 1, in the table and
\* then in memory.
InitClass(t) ==
    /\ At(t, "class")
    /\ \/ row.lv[Step(t).key] = 0 /\ UNCHANGED counters
       \/ Fault
    /\ LET c == Step(t).key
           steps == <<SaveCol("lv", c, 1), Do("memLevel", c, 1), Do("setClass", c, 0)>>
       IN /\ Then(t, steps)
          /\ spoiled' = spoiled \cup Crossed(t, steps)
    /\ UNCHANGED <<mem, row, seals, earned, spent, owed, cut>>

\* A level the ticker gave the class meanwhile is lost.
MemLevel(t) ==
    /\ At(t, "memLevel")
    /\ LET c == Step(t).key
       IN /\ mem' = [mem EXCEPT !.lv[c] = 1]
          /\ spoiled' = spoiled \cup IF mem.lv[c] > 0 THEN {<<"lv", c>>} ELSE {}
    /\ Done(t)
    /\ UNCHANGED <<row, seals, earned, spent, owed, cut, counters>>
-----------------------------------------------------------------------------
(* Grand Company *)

\* apply_join_gc: a company never joined makes a Recruit; the rank is read
\* again before it is saved.
JoinGC(g) ==
    /\ Idle("packet") /\ Request
    /\ mem' = [mem EXCEPT !.gc = g, !.rank[g] = IF @ = 0 THEN 1 ELSE @]
    /\ Then("packet", <<SaveCol("gc", None, g), Do("readRank", g, 0)>>)
    /\ UNCHANGED <<row, seals, history, faults>>

ReadRank(t) ==
    /\ At(t, "readRank")
    /\ Then(t, <<SaveCol("rank", Step(t).key, mem.rank[Step(t).key])>>)
    /\ UNCHANGED <<mem, row, seals, history, counters>>

SetGCRank(g, r) ==
    /\ Idle("packet") /\ Request
    /\ mem' = [mem EXCEPT !.rank[g] = r]
    /\ Then("packet", <<SaveCol("rank", g, r)>>)
    /\ UNCHANGED <<row, seals, history, faults>>

\* apply_add_seals and the seals of a leve hand-in: no cap.
AddSeals(t, g) ==
    /\ Idle(t) /\ Request
    /\ Then(t, <<Do("deposit", g, Reward)>>)
    /\ UNCHANGED <<mem, row, seals, history, faults>>

\* award_grand_company_seals: up to the cap of the rank, by the balance read;
\* a read that fails counts as an empty purse.
Award(t) ==
    /\ At(t, "award")
    /\ \E balance \in {seals[Step(t).key], 0} :
          LET cap == IF Step(t).n \in 1 .. TopRank THEN Cap[Step(t).n] ELSE 0
          IN IF balance >= cap THEN Done(t)
             ELSE Then(t, <<Do("deposit", Step(t).key, Min({Reward, cap - balance}))>>)
    /\ UNCHANGED <<mem, row, seals, history, counters>>

\* Db.add_seals: one transaction.
Deposit(t) ==
    /\ At(t, "deposit")
    /\ seals' = [seals EXCEPT ![Step(t).key] = @ + Step(t).n]
    /\ Done(t)
    /\ UNCHANGED <<mem, row, history, counters>>

\* apply_promote_gc: company and rank are read, then the balance, then the
\* seals are taken, then the rank is set and saved.  The story gate of two
\* ranks, and a balance that cannot be read, only refuse.
PromoteGC(g) ==
    /\ Idle("packet") /\ Request
    /\ mem.gc = g /\ mem.rank[g] \in DOMAIN Cost
    /\ Then("packet", <<Do("balance", g, mem.rank[g])>>)
    /\ UNCHANGED <<mem, row, seals, history, faults>>

\* Mutant: the balance is not looked at.
AffordsAll(g, r) == TRUE
Affords(g, r) == seals[g] >= Cost[r]

Balance(t) ==
    /\ At(t, "balance")
    /\ IF Affords(Step(t).key, Step(t).n)
       THEN Then(t, <<Do("spend", Step(t).key, Step(t).n)>>)
       ELSE Done(t)
    /\ UNCHANGED <<mem, row, seals, history, counters>>

\* Db.add_seals again: never below zero.
Spend(t) ==
    /\ At(t, "spend")
    /\ LET g == Step(t).key
           taken == Min({seals[g], Cost[Step(t).n]})
       IN /\ seals' = [seals EXCEPT ![g] = @ - taken]
          /\ spent' = [spent EXCEPT ![g] = @ + taken]
          /\ Then(t, <<Do("bump", g, Step(t).n)>>)
    /\ UNCHANGED <<mem, row, earned, owed, spoiled, cut, counters>>

Bump(t) ==
    /\ At(t, "bump")
    /\ LET g == Step(t).key
           r == Step(t).n
       IN /\ mem' = [mem EXCEPT !.rank[g] = r + 1]
          /\ owed' = [owed EXCEPT ![g] = @ + Cost[r]]
          /\ Then(t, <<SaveCol("rank", g, r + 1)>>)
    /\ UNCHANGED <<row, seals, earned, spent, spoiled, cut, counters>>
-----------------------------------------------------------------------------
(* The tables, the session and the process *)

\* One UPDATE of one column.
Written(s) ==
    CASE s.col = "sp"   -> [row EXCEPT !.sp[s.key] = s.val]
      [] s.col = "lv"   -> [row EXCEPT !.lv[s.key] = s.val]
      [] s.col = "main" -> [row EXCEPT !.class = s.val]
      [] s.col = "rest" -> [row EXCEPT !.rest = s.val]
      [] s.col = "gc"   -> [row EXCEPT !.gc = s.val]
      [] s.col = "rank" -> [row EXCEPT !.rank[s.key] = s.val]

Save(t) ==
    /\ At(t, "save")
    /\ row' = Written(Step(t))
    /\ Done(t)
    /\ UNCHANGED <<mem, seals, history, counters>>

\* A failed call is logged; only a promotion that cannot be paid, and a class
\* change without a hotbar, stop there.
DbFails(t) ==
    /\ \E what \in {"save", "deposit", "spend", "class"} : At(t, what)
    /\ Fault
    /\ Done(t)
    /\ spoiled' = spoiled \cup Cells(<<Step(t)>>)
    /\ UNCHANGED <<mem, row, seals, earned, spent, owed, cut>>

\* A login's character: all of it from the tables, the class the one saved last.
Loaded == mem' = row

\* The player logs out and in again.  The ticker's calls still to come were
\* computed on the old character, and so is the class of a kill it is paying.
Relogin ==
    /\ Idle("packet")
    /\ Loaded
    /\ program' = [program EXCEPT !["ticker"] =
          [i \in DOMAIN @ |-> IF @[i].do = "pick" THEN Do("gain", mem.class, @[i].n) ELSE @[i]]]
    /\ spoiled' = spoiled \cup Cells(program["ticker"])
    /\ UNCHANGED <<row, seals, earned, spent, owed, cut, counters>>

\* The process ends at any point and the player logs in to the next one.
Crash ==
    /\ Fault
    /\ Loaded
    /\ program' = [t \in Tasks |-> <<>>]
    /\ cut' = (cut \/ \E t \in Tasks : At(t, "bump"))
    /\ UNCHANGED <<row, seals, earned, spent, owed, spoiled>>
-----------------------------------------------------------------------------
Next ==
    \/ \E t \in Tasks, c \in Classes, exp \in Gains : AddExp(t, c, exp)
    \/ \E t \in Tasks, exp \in Gains : Kill(t, exp)
    \/ \E c \in Classes : ClassChange(c)
    \/ \E g \in GCs : JoinGC(g) \/ PromoteGC(g)
    \/ \E g \in GCs, r \in 1 .. TopRank : SetGCRank(g, r)
    \/ \E t \in Tasks, g \in GCs : AddSeals(t, g)
    \/ \E t \in Tasks :
          \/ PickClass(t) \/ KillExp(t) \/ SetClass(t) \/ InitClass(t) \/ MemLevel(t)
          \/ ReadRank(t) \/ Award(t) \/ Deposit(t) \/ Balance(t) \/ Spend(t) \/ Bump(t)
          \/ Save(t) \/ DbFails(t)
    \/ RestAtInn \/ Relogin \/ Crash

Spec == Init /\ [][Next]_vars
-----------------------------------------------------------------------------
Quiet == \A t \in Tasks : Idle(t)
Unspoiled(col, key) == <<col, key>> \notin spoiled

\* Once every handler has finished, what the tables hold of the character's
\* experience, levels, company and ranks is what the live character has, across
\* relogins and process ends; only handlers whose writes overlapped, and failed
\* calls, part the two.  (The class changed to and the rested bonus earned at an
\* inn are not saved until experience is next gained.)
ProgressMirrored ==
    Quiet =>
        /\ \A c \in Classes : /\ Unspoiled("sp", c) => row.sp[c] = mem.sp[c]
                              /\ Unspoiled("lv", c) => row.lv[c] = mem.lv[c]
        /\ Unspoiled("gc", None) => row.gc = mem.gc
        /\ \A g \in GCs : Unspoiled("rank", g) => row.rank[g] = mem.rank[g]

\* apply_add_exp saves the points left before the level they paid for: at every
\* step, so whenever the process ends, a class's saved level and points stand for
\* no more experience than the class was granted, unless the writes of two gains
\* crossed or one failed.
NoFreeProgress ==
    \A c \in Classes :
        Unspoiled("sp", c) /\ Unspoiled("lv", c)
            => Progress(row.lv[c], row.sp[c]) <= earned[c]

\* apply_promote_gc reads the balance in one call, takes the seals in another and
\* raises the rank in a third, with deposits and process ends in between: no rank
\* is had for fewer seals than it costs, and none are taken for nothing unless the
\* process ended between the payment and the rank.
PromotionIsPaid ==
    \A g \in GCs :
        /\ owed[g] <= spent[g]
        /\ Quiet /\ ~cut => owed[g] = spent[g]
=============================================================================
