------------------------- MODULE AdvancementProofs -------------------------
(***************************************************************************)
(* Proofs about Advancement for any classes, companies, level thresholds,  *)
(* costs and gains, and any number of requests and faults.                 *)
(***************************************************************************)
EXTENDS Advancement, Integers, FiniteSets, FiniteSetsExt, FiniteSetTheorems, WellFoundedInduction, TLAPS

-----------------------------------------------------------------------------
(* Natural numbers *)

\* Induction over the natural numbers, from the well-foundedness of <: every set of them that is
\* not empty has a least element.
LEMMA LessWellFounded == \E R : IsWellFoundedOn(R, Nat) /\ \A x, y \in Nat : <<x, y>> \in R <=> x < y
<1>1. IsWellFoundedOn(OpToRel(<, Nat), Nat)
  BY NatLessThanWellFounded
<1>2. \A x, y \in Nat : <<x, y>> \in OpToRel(<, Nat) <=> x < y
  BY DEF OpToRel
<1> QED BY <1>1, <1>2, Zenon

\* A nonempty set of natural numbers has a least element.
LEMMA LeastNat ==
  ASSUME NEW T, T \subseteq Nat, T # {}
  PROVE  \E n \in T : \A m \in T : n <= m
<1>1. PICK R : IsWellFoundedOn(R, Nat) /\ (\A x, y \in Nat : <<x, y>> \in R <=> x < y)
  BY LessWellFounded
<1>2. IsWellFoundedOn(R, Nat)
  BY <1>1
<1>3. PICK x \in T : \A y \in T : ~ (<<y, x>> \in R)
  BY <1>2, WFMin, Zenon
<1>4. \A y \in T : ~ (y < x)
  BY <1>1, <1>3
<1>5. \A y \in T : y \in Nat /\ x \in Nat
  BY <1>3
<1> QED BY <1>4, <1>5

\* A set that holds 0, and n + 1 with n, holds every natural number.
LEMMA Induct ==
  ASSUME NEW T, 0 \in T, \A n \in Nat : n \in T => n + 1 \in T
  PROVE  Nat \subseteq T
<1> SUFFICES ASSUME Nat \ T # {} PROVE FALSE
  OBVIOUS
<1>1. PICK n \in Nat \ T : \A m \in Nat \ T : n <= m
  BY LeastNat
<1>2. n # 0 /\ n - 1 \in Nat /\ n - 1 \in T
  BY <1>1
<1> QED BY <1>1, <1>2

\* FiniteSetsExt!Max and Min, of a set with an upper bound and of two numbers.
LEMMA MaxIn ==
  ASSUME NEW n \in Int, NEW S, S \subseteq Int, \A x \in S : x <= n, S # {}
  PROVE  Max(S) \in S /\ \A x \in S : x <= Max(S)
<1> DEFINE T == {k \in Nat : n - k \in S}
<1>1. PICK s \in S : s \in Int /\ s <= n
  OBVIOUS
<1>2. n - s \in T
  <2>1. n - s \in Nat /\ n - (n - s) = s
    BY <1>1
  <2> QED BY <1>1, <2>1
<1> HIDE DEF T
<1>3. PICK t \in T : \A u \in T : t <= u
  <2>1. T \subseteq Nat /\ T # {}
    BY <1>2 DEF T
  <2> QED BY <2>1, LeastNat
<1>4. n - t \in S /\ t \in Nat
  BY DEF T
<1>5. ASSUME NEW x \in S PROVE n - t >= x
  <2>1. x \in Int /\ n - x \in Nat /\ n - (n - x) = x
    OBVIOUS
  <2>2. n - x \in T
    BY <2>1 DEF T
  <2>3. t <= n - x
    BY <1>3, <2>2
  <2> QED BY <1>4, <2>1, <2>3
<1>6. \E z \in S : \A x \in S : z >= x
  BY <1>4, <1>5
<1>7. Max(S) \in S /\ \A x \in S : Max(S) >= x
  BY <1>6 DEF Max
<1>8. \A x \in S : x \in Int
  OBVIOUS
<1> QED BY <1>7, <1>8

\* The lesser of two numbers, for the Min of FiniteSetsExt.
LEMMA MinOfTwo ==
  ASSUME NEW a \in Int, NEW b \in Int
  PROVE  Min({a, b}) = IF a <= b THEN a ELSE b
<1>1. \E x \in {a, b} : \A y \in {a, b} : x <= y
  <2>1. CASE a <= b
    BY <2>1
  <2>2. CASE b <= a
    BY <2>2
  <2> QED BY <2>1, <2>2
<1>2. Min({a, b}) \in {a, b} /\ \A y \in {a, b} : Min({a, b}) <= y
  BY <1>1 DEF Min
<1> QED BY <1>2

-----------------------------------------------------------------------------
(* Levels and points *)

\* The levels a class can have once it is played.
Levels == 1..MaxLevel

\* Below the cap every level has a threshold and a next level.
LEMMA LevelFacts == MaxLevel \in Nat \ {0} /\ \A l \in Levels \ {MaxLevel} : l \in DOMAIN Threshold /\ Threshold[l] \in Nat \ {0} /\ l + 1 \in Levels
BY AdvancementAssumption, SMTT(30) DEF MaxLevel, Levels

\* The recursive equation of Total has a solution.
LEMMA TotalExists == \E f \in [Levels -> Nat] : f = [m \in Levels |-> IF m = 1 THEN 0 ELSE f[m - 1] + Threshold[m - 1]]
<1> DEFINE Sums(n) == \E f \in [1..n -> Nat] : \A m \in 1..n : f[m] = IF m = 1 THEN 0 ELSE f[m - 1] + Threshold[m - 1]
<1> DEFINE T == {n \in Nat : n <= MaxLevel => Sums(n)}
<1>0. MaxLevel \in Nat \ {0}
  BY LevelFacts
<1>1. 0 \in T
  <2>1. 1..0 = {}
    OBVIOUS
  <2>2. [x \in {} |-> 0] \in [1..0 -> Nat]
    BY <2>1
  <2> QED BY <2>1, <2>2
<1>2. ASSUME NEW n \in Nat, n \in T PROVE n + 1 \in T
  <2> SUFFICES ASSUME n + 1 <= MaxLevel PROVE Sums(n + 1)
    OBVIOUS
  <2>1. PICK f \in [1..n -> Nat] : \A m \in 1..n : f[m] = IF m = 1 THEN 0 ELSE f[m - 1] + Threshold[m - 1]
    BY <1>0, <1>2
  <2> DEFINE g == [m \in 1..(n + 1) |-> IF m <= n THEN f[m] ELSE IF m = 1 THEN 0 ELSE f[m - 1] + Threshold[m - 1]]
  <2>2. n # 0 => Threshold[n] \in Nat
    BY <1>0, LevelFacts DEF Levels
  <2>3. g \in [1..(n + 1) -> Nat]
    <3> SUFFICES ASSUME NEW m \in 1..(n + 1) PROVE g[m] \in Nat
      OBVIOUS
    <3>1. CASE m <= n
      BY <3>1
    <3>2. CASE m = n + 1
      <4>1. m - 1 = n /\ (n # 0 => n \in 1..n)
        BY <3>2
      <4> QED BY <2>2, <3>2, <4>1
    <3> QED BY <3>1, <3>2
  <2>4. ASSUME NEW m \in 1..(n + 1) PROVE g[m] = IF m = 1 THEN 0 ELSE g[m - 1] + Threshold[m - 1]
    <3>1. CASE m <= n
      <4>1. m \in 1..n /\ (m # 1 => m - 1 \in 1..n)
        BY <3>1
      <4> QED BY <2>1, <4>1
    <3>2. CASE m = n + 1
      <4>1. m # 1 => m - 1 \in 1..n
        BY <3>2
      <4> QED BY <3>2, <4>1
    <3> QED BY <3>1, <3>2
  <2> HIDE DEF g
  <2> QED BY <2>3, <2>4
<1>3. MaxLevel \in T
  <2> HIDE DEF T
  <2> QED BY <1>0, <1>1, <1>2, Induct
<1>4. PICK f \in [Levels -> Nat] : \A m \in Levels : f[m] = IF m = 1 THEN 0 ELSE f[m - 1] + Threshold[m - 1]
  BY <1>0, <1>3 DEF Levels
<1>5. f = [m \in Levels |-> IF m = 1 THEN 0 ELSE f[m - 1] + Threshold[m - 1]]
  BY <1>4
<1> QED BY <1>5

\* Total is what its definition says: the sum of the thresholds below a level.
LEMMA TotalIs ==
  /\ Total[1] = 0
  /\ \A m \in Levels \ {MaxLevel} : Total[m + 1] = Total[m] + Threshold[m]
  /\ \A m \in Levels : Total[m] \in Nat
<1>1. Total = [m \in Levels |-> IF m = 1 THEN 0 ELSE Total[m - 1] + Threshold[m - 1]]
  BY TotalExists DEF Total, Levels
<1>2. PICK f : f = Total
  OBVIOUS
<1> HIDE DEF Total
<1>3. f = [m \in Levels |-> IF m = 1 THEN 0 ELSE f[m - 1] + Threshold[m - 1]]
  BY <1>1, <1>2, Zenon
<1>4. \A m \in Levels : f[m] = IF m = 1 THEN 0 ELSE f[m - 1] + Threshold[m - 1]
  BY <1>3
<1>5. 1 \in Levels /\ Levels \subseteq Nat /\ MaxLevel \in Nat
  BY LevelFacts DEF Levels
<1>6. ASSUME NEW m \in Levels \ {MaxLevel} PROVE f[m + 1] = f[m] + Threshold[m]
  <2>1. m \in Nat /\ m + 1 \in Levels /\ m + 1 # 1 /\ (m + 1) - 1 = m
    BY <1>5, LevelFacts DEF Levels
  <2>2. PICK k \in Levels : k = m + 1
    BY <2>1
  <2>3. f[k] = f[k - 1] + Threshold[k - 1]
    BY <1>4, <2>1, <2>2
  <2> QED BY <2>1, <2>2, <2>3
<1>7. f[1] = 0
  BY <1>4, <1>5
<1> DEFINE T == {n \in Nat : n + 1 \in Levels => f[n + 1] \in Nat}
<1>8. 0 \in T
  BY <1>7
<1>9. ASSUME NEW n \in Nat, n \in T PROVE n + 1 \in T
  <2> SUFFICES ASSUME (n + 1) + 1 \in Levels PROVE f[(n + 1) + 1] \in Nat
    OBVIOUS
  <2>1. n + 1 \in Levels \ {MaxLevel}
    BY LevelFacts DEF Levels
  <2> QED BY <1>6, <1>9, <2>1, LevelFacts
<1>10. Nat \subseteq T
  <2> HIDE DEF T
  <2> QED BY <1>8, <1>9, Induct
<1>11. ASSUME NEW m \in Levels PROVE f[m] \in Nat
  <2>1. m - 1 \in Nat /\ (m - 1) + 1 = m
    BY <1>5 DEF Levels
  <2> QED BY <1>10, <2>1
<1> QED BY <1>2, <1>6, <1>7, <1>11

\* More levels stand for more points.
LEMMA TotalRises == \A m \in Levels : \A l \in Levels : l <= m => Total[l] <= Total[m]
<1> DEFINE T == {n \in Nat : \A l, m \in Levels : m = l + n => Total[l] <= Total[m]}
<1>1. 0 \in T
  <2>1. \A l \in Levels : l = l + 0 /\ l \in Nat /\ Total[l] \in Nat
    BY LevelFacts, TotalIs DEF Levels
  <2> QED BY <2>1
<1>2. ASSUME NEW n \in Nat, n \in T PROVE n + 1 \in T
  <2> SUFFICES ASSUME NEW l \in Levels, NEW m \in Levels, m = l + (n + 1) PROVE Total[l] <= Total[m]
    OBVIOUS
  <2>1. l + n \in Levels \ {MaxLevel} /\ m = (l + n) + 1
    BY LevelFacts DEF Levels
  <2>2. Total[m] = Total[l + n] + Threshold[l + n] /\ Threshold[l + n] \in Nat
    BY <2>1, TotalIs, LevelFacts
  <2>3. Total[l] <= Total[l + n]
    BY <1>2, <2>1
  <2>4. Total[l] \in Nat /\ Total[l + n] \in Nat
    BY <2>1, TotalIs
  <2> QED BY <2>2, <2>3, <2>4
<1>3. Nat \subseteq T
  <2> HIDE DEF T
  <2> QED BY <1>1, <1>2, Induct
<1> SUFFICES ASSUME NEW m \in Levels, NEW l \in Levels, l <= m PROVE Total[l] <= Total[m]
  OBVIOUS
<1>4. m - l \in Nat /\ m = l + (m - l)
  BY LevelFacts DEF Levels
<1> QED BY <1>3, <1>4

\* level_up_if_threshold_crossed makes no points: level and remainder together stand for at most
\* what they were before.
LEMMA RollOverFacts ==
  ASSUME NEW l \in Levels, NEW s \in Nat
  PROVE  /\ RollOver(l, s).lv \in Levels /\ RollOver(l, s).lv >= l
         /\ RollOver(l, s).sp \in Nat
         /\ Progress(RollOver(l, s).lv, RollOver(l, s).sp) <= Progress(l, s)
<1> DEFINE S == {k \in l .. MaxLevel : Points(l, k) <= s}
           m == Max(S)
<1>0. MaxLevel \in Nat \ {0} /\ l \in Nat \ {0} /\ l <= MaxLevel
  BY LevelFacts DEF Levels
<1>1. S \subseteq 0..MaxLevel
  BY <1>0
<1>2. l \in S
  <2>1. Points(l, l) = 0
    BY TotalIs DEF Points
  <2> QED BY <1>0, <2>1
<1>3. m \in S
  <2>1. S \subseteq Int /\ (\A x \in S : x <= MaxLevel) /\ S # {}
    BY <1>0, <1>1, <1>2
  <2>2. MaxLevel \in Int
    BY <1>0
  <2> HIDE DEF S
  <2> QED BY <2>1, <2>2, MaxIn
<1>4. m \in Levels /\ m >= l /\ Points(l, m) <= s
  BY <1>0, <1>3 DEF Levels
<1>5. RollOver(l, s).lv = m /\ RollOver(l, s).sp = IF m = MaxLevel THEN 0 ELSE s - Points(l, m)
  BY DEF RollOver
<1> HIDE DEF m
<1>6. Total[l] \in Nat /\ Total[m] \in Nat
  BY <1>4, TotalIs
<1>7. AtLeast1(m) = m /\ AtLeast1(l) = l
  BY <1>0, <1>4 DEF AtLeast1, Levels
<1> QED BY <1>4, <1>5, <1>6, <1>7 DEF Progress, Points

-----------------------------------------------------------------------------
(* Types *)

\* The values the model ranges over: a character, and the steps a program has left, by what each
\* kind carries.
Characters == [class : Classes, rest : Nat, gc : GCs \cup {None}, lv : [Classes -> 0..MaxLevel],
               sp : [Classes -> Nat], rank : [GCs -> 0..TopRank]]

SaveSteps == [do : {"save"}, col : {"sp"}, key : Classes, val : Nat]
             \cup [do : {"save"}, col : {"lv"}, key : Classes, val : Levels]
             \cup [do : {"save"}, col : {"main"}, key : {None}, val : Classes]
             \cup [do : {"save"}, col : {"rest"}, key : {None}, val : Nat]
             \cup [do : {"save"}, col : {"gc"}, key : {None}, val : GCs]
             \cup [do : {"save"}, col : {"rank"}, key : GCs, val : 0..TopRank]
GainSteps == [do : {"pick"}, key : {None}, n : Gains] \cup [do : {"gain"}, key : Classes, n : Gains]
ClassSteps == [do : {"class", "setClass", "memLevel"}, key : Classes, n : {0, 1}]
SealSteps == [do : {"award"}, key : GCs, n : 0..TopRank] \cup [do : {"deposit"}, key : GCs, n : Nat]
RankSteps == [do : {"readRank"}, key : GCs, n : {0}] \cup [do : {"balance", "spend", "bump"}, key : GCs, n : DOMAIN Cost]
Steps == SaveSteps \cup GainSteps \cup ClassSteps \cup SealSteps \cup RankSteps

\* A step writes a cell.
Saving(s, col, key) == s.do = "save" /\ s.col = col /\ s.key = key

\* What a program looks like: which steps come first, which come last, which only the packet task
\* has; points are written before the level they paid for, and the live level is reset right behind
\* the level a class change saves.
Shape(t, p) ==
  \A i \in DOMAIN p :
    /\ p[i].do \in {"award", "deposit", "class", "balance", "spend", "bump"} => i = 1
    /\ p[i].do \in {"gain", "class", "balance", "spend", "bump", "pick", "readRank", "setClass"} => i = Len(p)
    /\ p[i].do \in {"class", "balance", "spend", "bump", "readRank", "memLevel", "setClass"} => t = "packet"
    /\ p[i].do = "memLevel" /\ i > 1 => i = 2 /\ p[1] = SaveCol("lv", p[2].key, 1)
    /\ p[i].do = "save" /\ p[i].col = "sp" => i = 1
    /\ p[i].do = "save" /\ p[i].col \in {"gc", "rank"} => i = 1 /\ t = "packet"
    /\ p[i].do = "save" /\ p[i].col = "lv" /\ i > 1 => i = 2 /\ Saving(p[1], "sp", p[2].key)

\* Every variable has its type, and every program its shape.
TypeOK ==
  /\ mem \in Characters
  /\ row \in Characters
  /\ seals \in [GCs -> Nat]
  /\ program \in [Tasks -> Seq(Steps)]
  /\ \A t \in Tasks : Shape(t, program[t])
  /\ earned \in [Classes -> Nat]
  /\ spent \in [GCs -> Nat]
  /\ owed \in [GCs -> Nat]
  /\ cut \in BOOLEAN
  /\ requests \in Nat
  /\ faults \in Nat

\* Costs and caps by rank.
LEMMA CostFacts ==
  /\ DOMAIN Cost \subseteq Nat \ {0} /\ TopRank \in Nat \ {0}
  /\ \A r \in DOMAIN Cost : Cost[r] \in Nat \ {0} /\ r \in 0..TopRank /\ r + 1 \in 0..TopRank
  /\ 1 \in 0..TopRank /\ 1..TopRank \subseteq 0..TopRank
  /\ \A r \in 1..TopRank : Cap[r] \in Nat \ {0}
<1>1. Cost \in Seq(Nat \ {0}) /\ Cap \in Seq(Nat \ {0}) /\ Len(Cap) = TopRank
  BY AdvancementAssumption
<1>2. TopRank \in Nat \ {0} /\ DOMAIN Cost = 1..(TopRank - 1) /\ DOMAIN Cap = 1..TopRank
  BY <1>1 DEF TopRank
<1>3. \A r \in DOMAIN Cost : Cost[r] \in Nat \ {0}
  BY <1>1
<1>4. \A r \in DOMAIN Cap : Cap[r] \in Nat \ {0}
  BY <1>1
<1> QED BY <1>2, <1>3, <1>4

\* Every step the handlers build is a step.
LEMMA StepTypes ==
  /\ \A c \in Classes, n \in Nat : SaveCol("sp", c, n) \in Steps
  /\ \A c \in Classes, l \in Levels : SaveCol("lv", c, l) \in Steps
  /\ \A c \in Classes : SaveCol("main", None, c) \in Steps
  /\ \A n \in Nat : SaveCol("rest", None, n) \in Steps
  /\ \A g \in GCs : SaveCol("gc", None, g) \in Steps
  /\ \A g \in GCs, r \in 0..TopRank : SaveCol("rank", g, r) \in Steps
  /\ \A n \in Gains : Do("pick", None, n) \in Steps
  /\ \A c \in Classes, n \in Gains : Do("gain", c, n) \in Steps
  /\ \A c \in Classes, n \in {0, 1} : Do("class", c, n) \in Steps /\ Do("setClass", c, n) \in Steps /\ Do("memLevel", c, n) \in Steps
  /\ \A g \in GCs, n \in 0..TopRank : Do("award", g, n) \in Steps
  /\ \A g \in GCs, n \in Nat : Do("deposit", g, n) \in Steps
  /\ \A g \in GCs : Do("readRank", g, 0) \in Steps
  /\ \A g \in GCs, r \in DOMAIN Cost : Do("balance", g, r) \in Steps /\ Do("spend", g, r) \in Steps /\ Do("bump", g, r) \in Steps
<1>1. \A w \in {"class", "setClass", "memLevel", "pick", "gain", "award", "deposit", "readRank", "balance", "spend", "bump"} : \A k, n :
        Do(w, k, n) = [do |-> w, key |-> k, n |-> n]
  BY DEF Do
<1>2. \A w \in {"sp", "lv", "main", "rest", "gc", "rank"} : \A k, v : SaveCol(w, k, v) = [do |-> "save", col |-> w, key |-> k, val |-> v]
  BY DEF SaveCol
<1>3. /\ \A c \in Classes, n \in Nat : SaveCol("sp", c, n) \in SaveSteps
      /\ \A c \in Classes, l \in Levels : SaveCol("lv", c, l) \in SaveSteps
      /\ \A c \in Classes : SaveCol("main", None, c) \in SaveSteps
      /\ \A n \in Nat : SaveCol("rest", None, n) \in SaveSteps
      /\ \A g \in GCs : SaveCol("gc", None, g) \in SaveSteps
      /\ \A g \in GCs, r \in 0..TopRank : SaveCol("rank", g, r) \in SaveSteps
  BY <1>2 DEF SaveSteps
<1>4. \A n \in Gains : Do("pick", None, n) \in GainSteps
  BY <1>1 DEF GainSteps
<1>5. \A c \in Classes, n \in Gains : Do("gain", c, n) \in GainSteps
  BY <1>1 DEF GainSteps
<1>6. \A c \in Classes, n \in {0, 1} : Do("class", c, n) \in ClassSteps /\ Do("setClass", c, n) \in ClassSteps /\ Do("memLevel", c, n) \in ClassSteps
  BY <1>1 DEF ClassSteps
<1>7. \A g \in GCs, n \in 0..TopRank : Do("award", g, n) \in SealSteps
  BY <1>1 DEF SealSteps
<1>8. \A g \in GCs, n \in Nat : Do("deposit", g, n) \in SealSteps
  BY <1>1 DEF SealSteps
<1>9. \A g \in GCs : Do("readRank", g, 0) \in RankSteps
  BY <1>1 DEF RankSteps
<1>10. \A g \in GCs, r \in DOMAIN Cost : Do("balance", g, r) \in RankSteps /\ Do("spend", g, r) \in RankSteps /\ Do("bump", g, r) \in RankSteps
  BY <1>1 DEF RankSteps
<1> QED BY <1>3, <1>4, <1>5, <1>6, <1>7, <1>8, <1>9, <1>10 DEF Steps

\* What a step of each kind carries.
LEMMA StepShapes ==
  ASSUME NEW s \in Steps
  PROVE  /\ s.do = "save" => /\ s.col \in {"sp", "lv", "main", "rest", "gc", "rank"}
                             /\ s.col = "sp" => s.key \in Classes /\ s.val \in Nat
                             /\ s.col = "lv" => s.key \in Classes /\ s.val \in Levels
                             /\ s.col = "main" => s.key = None /\ s.val \in Classes
                             /\ s.col = "rest" => s.key = None /\ s.val \in Nat
                             /\ s.col = "gc" => s.key = None /\ s.val \in GCs
                             /\ s.col = "rank" => s.key \in GCs /\ s.val \in 0..TopRank
                             /\ s = SaveCol(s.col, s.key, s.val)
         /\ s.do = "pick" => s.n \in Gains
         /\ s.do = "gain" => s.key \in Classes /\ s.n \in Gains
         /\ s.do \in {"class", "setClass", "memLevel"} => s.key \in Classes
         /\ s.do = "award" => s.key \in GCs /\ s.n \in 0..TopRank
         /\ s.do = "deposit" => s.key \in GCs /\ s.n \in Nat
         /\ s.do = "readRank" => s.key \in GCs
         /\ s.do \in {"balance", "spend", "bump"} => s.key \in GCs /\ s.n \in DOMAIN Cost
<1>1. CASE s \in SaveSteps
  BY <1>1 DEF SaveSteps, SaveCol
<1>2. CASE s \in GainSteps
  BY <1>2 DEF GainSteps
<1>3. CASE s \in ClassSteps
  BY <1>3 DEF ClassSteps
<1>4. CASE s \in SealSteps
  BY <1>4 DEF SealSteps
<1>5. CASE s \in RankSteps
  BY <1>5 DEF RankSteps
<1> QED BY <1>1, <1>2, <1>3, <1>4, <1>5 DEF Steps

\* Sequences: concatenation, tail, and the empty, one-step and two-step programs.
LEMMA Concat ==
  ASSUME NEW S, NEW p \in Seq(S), NEW q \in Seq(S)
  PROVE  /\ p \o q \in Seq(S) /\ Len(p \o q) = Len(p) + Len(q) /\ Len(p) \in Nat /\ Len(q) \in Nat
         /\ DOMAIN (p \o q) = 1..(Len(p) + Len(q)) /\ DOMAIN p = 1..Len(p) /\ DOMAIN q = 1..Len(q)
         /\ \A i \in 1..Len(p) : (p \o q)[i] = p[i]
         /\ \A i \in DOMAIN (p \o q) : i > Len(p) => i - Len(p) \in DOMAIN q /\ (p \o q)[i] = q[i - Len(p)]
OBVIOUS

\* What is left of a sequence of steps when its first is taken.
LEMMA TailFacts ==
  ASSUME NEW S, NEW p \in Seq(S), p # <<>>
  PROVE  /\ Tail(p) \in Seq(S) /\ Head(p) = p[1] /\ p[1] \in S /\ Len(Tail(p)) = Len(p) - 1 /\ Len(p) \in Nat \ {0}
         /\ 1 \in DOMAIN p /\ DOMAIN p = 1..Len(p)
         /\ \A i \in DOMAIN Tail(p) : i \in Nat \ {0} /\ i + 1 \in DOMAIN p /\ Tail(p)[i] = p[i + 1]
         /\ \A i \in DOMAIN p : i # 1 => i - 1 \in DOMAIN Tail(p) /\ Tail(p)[i - 1] = p[i]
OBVIOUS

\* The program of an idle task is a sequence of any steps.
LEMMA EmptySeq == \A S : <<>> \in Seq(S)
OBVIOUS

\* Nothing appended changes nothing, and a sequence without length is empty.
LEMMA EmptyFacts ==
  ASSUME NEW S, NEW p \in Seq(S)
  PROVE  p \o <<>> = p /\ (Len(p) = 0 => p = <<>>)
OBVIOUS

\* Two steps, one after the other.
LEMMA PairSeq ==
  ASSUME NEW S, NEW a \in S, NEW b \in S
  PROVE  <<a>> \o <<b>> = <<a, b>> /\ <<>> \o <<b>> = <<b>> /\ <<a, b>> \in Seq(S)
<1>1. <<a, b>> \in Seq(S) /\ <<a>> \in Seq(S) /\ <<b>> \in Seq(S) /\ <<>> \in Seq(S)
  OBVIOUS
<1>2. <<>> \o <<b>> = <<b>>
  OBVIOUS
<1>3. <<a>> \o <<b>> = <<a, b>>
  <2> DEFINE p == <<a>> \o <<b>>
  <2>1. p \in Seq(S) /\ Len(p) = 2 /\ p[1] = a /\ p[2] = b
    OBVIOUS
  <2> HIDE DEF p
  <2>2. p = <<a, b>>
    BY <1>1, <2>1
  <2> QED BY <2>2 DEF p
<1> QED BY <1>1, <1>2, <1>3

\* A step put before a sequence moves the others back by one.
LEMMA ConsFacts ==
  ASSUME NEW S, NEW x \in S, NEW s \in Seq(S)
  PROVE  /\ <<x>> \o s \in Seq(S) /\ Len(<<x>> \o s) = 1 + Len(s) /\ Len(s) \in Nat /\ DOMAIN (<<x>> \o s) = 1..(1 + Len(s)) /\ (<<x>> \o s)[1] = x
         /\ \A i \in DOMAIN (<<x>> \o s) : i > 1 => i - 1 \in DOMAIN s /\ (<<x>> \o s)[i] = s[i - 1]
OBVIOUS

\* Concatenation is associative.
LEMMA Associative ==
  ASSUME NEW S, NEW p \in Seq(S), NEW q \in Seq(S), NEW r \in Seq(S)
  PROVE  (p \o q) \o r = p \o (q \o r)
OBVIOUS

\* The types hold at first.
LEMMA TypeInit == Init => TypeOK
<1> SUFFICES ASSUME Init PROVE TypeOK
  OBVIOUS
<1>1. First \in Classes /\ {0, 1} \subseteq 0..MaxLevel /\ 0 \in 0..TopRank
  BY AdvancementAssumption, LevelFacts, CostFacts
<1>2. mem \in Characters
  BY <1>1 DEF Init, Characters
<1>3. row \in Characters
  BY <1>2 DEF Init
<1>4. program = [t \in Tasks |-> <<>>]
  BY DEF Init
<1>5. program \in [Tasks -> Seq(Steps)]
  BY <1>4, EmptySeq
<1>6. \A t \in Tasks : Shape(t, program[t])
  BY <1>4 DEF Shape
<1> QED BY <1>2, <1>3, <1>5, <1>6 DEF Init, TypeOK

\* A handler that has nothing to do, or one step, goes on with the steps it is given.
LEMMA NewProgram ==
  ASSUME TypeOK, NEW t \in Tasks, program[t] = <<>> \/ Len(program[t]) = 1, NEW q \in Seq(Steps), Then(t, q)
  PROVE  program'[t] = q /\ \A u \in Tasks \ {t} : program'[u] = program[u]
<1>1. program[t] \in Seq(Steps)
  BY DEF TypeOK
<1> DEFINE r == IF program[t] = <<>> THEN program[t] ELSE Tail(program[t])
<1>2. r = <<>>
  <2>1. CASE program[t] = <<>>
    BY <2>1
  <2>2. CASE program[t] # <<>>
    <3>1. Len(Tail(program[t])) = 0 /\ Tail(program[t]) \in Seq(Steps)
      BY <1>1, <2>2, TailFacts
    <3>2. Tail(program[t]) = <<>>
      BY <3>1, EmptyFacts
    <3> QED BY <2>2, <3>2
  <2> QED BY <2>1, <2>2
<1>3. program' = [program EXCEPT ![t] = q \o r]
  BY DEF Then
<1>4. q \o r = q
  BY <1>2, EmptyFacts
<1> HIDE DEF r
<1> QED BY <1>3, <1>4 DEF TypeOK

\* The shape of a program is kept as its steps are done.
LEMMA TailShape ==
  ASSUME NEW t, NEW p \in Seq(Steps), p # <<>>, Shape(t, p)
  PROVE  Shape(t, Tail(p))
<1> DEFINE q == Tail(p)
<1>1. /\ q \in Seq(Steps) /\ Len(q) = Len(p) - 1 /\ Len(p) \in Nat \ {0}
      /\ \A i \in DOMAIN q : i \in Nat \ {0} /\ i + 1 \in DOMAIN p /\ q[i] = p[i + 1]
  BY TailFacts
<1> HIDE DEF q
<1>2. ASSUME NEW i \in DOMAIN q
      PROVE  /\ q[i].do \notin {"award", "deposit", "class", "balance", "spend", "bump"}
             /\ q[i].do \in {"gain", "class", "balance", "spend", "bump", "pick", "readRank", "setClass"} => i = Len(q)
             /\ q[i].do \in {"class", "balance", "spend", "bump", "readRank", "memLevel", "setClass"} => t = "packet"
             /\ q[i].do = "memLevel" => i = 1
             /\ q[i].do = "save" => q[i].col \notin {"sp", "gc", "rank"}
             /\ q[i].do = "save" /\ q[i].col = "lv" => i = 1
  <2>1. i \in Nat \ {0} /\ i + 1 \in DOMAIN p /\ q[i] = p[i + 1] /\ i + 1 # 1 /\ i + 1 > 1
    BY <1>1
  <2>2. PICK k \in DOMAIN p : k = i + 1 /\ k > 1 /\ q[i] = p[k]
    BY <2>1
  <2>3. /\ p[k].do \notin {"award", "deposit", "class", "balance", "spend", "bump"}
        /\ p[k].do \in {"gain", "class", "balance", "spend", "bump", "pick", "readRank", "setClass"} => k = Len(p)
        /\ p[k].do \in {"class", "balance", "spend", "bump", "readRank", "memLevel", "setClass"} => t = "packet"
        /\ p[k].do = "memLevel" => k = 2
        /\ p[k].do = "save" => p[k].col \notin {"sp", "gc", "rank"}
        /\ p[k].do = "save" /\ p[k].col = "lv" => k = 2
    BY <2>2 DEF Shape
  <2>4. (k = Len(p) => i = Len(q)) /\ (k = 2 => i = 1)
    BY <1>1, <2>1, <2>2
  <2> QED BY <2>2, <2>3, <2>4
<1>3. Shape(t, q)
  BY <1>1, <1>2 DEF Shape
<1> QED BY <1>3 DEF q

\* The two ways a program changes keep it typed.
LEMMA DoneTypes ==
  ASSUME TypeOK, NEW t \in Tasks, program[t] # <<>>, Done(t)
  PROVE  /\ program'[t] = Tail(program[t]) /\ (\A u \in Tasks \ {t} : program'[u] = program[u])
         /\ program' \in [Tasks -> Seq(Steps)] /\ \A u \in Tasks : Shape(u, program'[u])
<1>1. program[t] \in Seq(Steps) /\ Shape(t, program[t])
  BY DEF TypeOK
<1> DEFINE q == Tail(program[t])
<1>2. q \in Seq(Steps) /\ Shape(t, q)
  BY <1>1, TailFacts, TailShape
<1>3. program' = [program EXCEPT ![t] = q]
  BY DEF Done
<1> HIDE DEF q
<1>4. program'[t] = q /\ \A u \in Tasks \ {t} : program'[u] = program[u]
  BY <1>3 DEF TypeOK
<1>5. program' \in [Tasks -> Seq(Steps)]
  BY <1>2, <1>3 DEF TypeOK
<1>6. \A u \in Tasks : Shape(u, program'[u])
  BY <1>2, <1>4 DEF TypeOK
<1> QED BY <1>4, <1>5, <1>6 DEF q

\* A handler that replaces its step by well-formed ones keeps the programs well formed.
LEMMA ThenTypes ==
  ASSUME TypeOK, NEW t \in Tasks, program[t] = <<>> \/ Len(program[t]) = 1, NEW q \in Seq(Steps), Shape(t, q), Then(t, q)
  PROVE  /\ program'[t] = q /\ (\A u \in Tasks \ {t} : program'[u] = program[u])
         /\ program' \in [Tasks -> Seq(Steps)] /\ \A u \in Tasks : Shape(u, program'[u])
<1>1. program'[t] = q /\ \A u \in Tasks \ {t} : program'[u] = program[u]
  BY NewProgram
<1>2. PICK s : program' = [program EXCEPT ![t] = s]
  BY DEF Then
<1>3. program' \in [Tasks -> Seq(Steps)]
  BY <1>1, <1>2 DEF TypeOK
<1>4. \A u \in Tasks : Shape(u, program'[u])
  BY <1>1 DEF TypeOK
<1> QED BY <1>1, <1>3, <1>4

\* The step at the head of a program.
LEMMA HeadFacts ==
  ASSUME TypeOK, NEW t \in Tasks, program[t] # <<>>
  PROVE  /\ Step(t) = program[t][1] /\ Step(t) \in Steps /\ 1 \in DOMAIN program[t]
         /\ Step(t).do \in {"gain", "class", "balance", "spend", "bump", "pick", "readRank", "setClass"} => Len(program[t]) = 1
         /\ Step(t).do \in {"class", "balance", "spend", "bump", "readRank", "memLevel", "setClass"} => t = "packet"
<1>1. program[t] \in Seq(Steps) /\ Shape(t, program[t])
  BY DEF TypeOK
<1>2. Step(t) = program[t][1] /\ Step(t) \in Steps /\ 1 \in DOMAIN program[t]
  BY <1>1, TailFacts DEF Step
<1> QED BY <1>1, <1>2 DEF Shape

\* The program of a gain: points, level if one was gained, and columns nobody else minds.
LEMMA SavesFacts ==
  ASSUME TypeOK, NEW c \in Classes, NEW r, r.lv \in Levels, r.sp \in Nat, NEW gained \in BOOLEAN, NEW active \in BOOLEAN
  PROVE  LET q == Saves(c, r, gained, active) IN
         /\ q \in Seq(Steps) /\ q # <<>> /\ 1 \in DOMAIN q /\ q[1] = SaveCol("sp", c, r.sp)
         /\ gained => 2 \in DOMAIN q /\ q[2] = SaveCol("lv", c, r.lv)
         /\ \A i \in DOMAIN q : i # 1 /\ ~(gained /\ i = 2) => q[i].do = "save" /\ q[i].col \in {"main", "rest"}
<1> DEFINE A == <<SaveCol("sp", c, r.sp)>>
           B == IF gained THEN <<SaveCol("lv", c, r.lv)>> ELSE <<>>
           C == IF gained /\ active THEN <<SaveCol("main", None, c)>> ELSE <<>>
           D == IF mem.rest # RestAfter THEN <<SaveCol("rest", None, RestAfter)>> ELSE <<>>
<1>1. mem.rest \in Nat /\ RestAfter \in Nat
  <2>1. mem.rest \in Nat
    BY DEF TypeOK, Characters
  <2> QED BY <2>1 DEF RestAfter
<1>2. A \in Seq(Steps) /\ Len(A) = 1 /\ A[1] = SaveCol("sp", c, r.sp)
  BY StepTypes
<1>3. B \in Seq(Steps) /\ (gained => Len(B) = 1 /\ B[1] = SaveCol("lv", c, r.lv)) /\ (~gained => Len(B) = 0)
  BY StepTypes, EmptySeq
<1>4. C \in Seq(Steps) /\ \A i \in DOMAIN C : C[i].do = "save" /\ C[i].col = "main"
  <2>1. CASE gained /\ active
    BY <2>1, StepTypes DEF SaveCol
  <2>2. CASE ~(gained /\ active)
    BY <2>2, EmptySeq
  <2> QED BY <2>1, <2>2
<1>5. D \in Seq(Steps) /\ \A i \in DOMAIN D : D[i].do = "save" /\ D[i].col = "rest"
  <2>1. CASE mem.rest # RestAfter
    BY <1>1, <2>1, StepTypes DEF SaveCol
  <2>2. CASE mem.rest = RestAfter
    BY <2>2, EmptySeq
  <2> QED BY <2>1, <2>2
<1>6. Saves(c, r, gained, active) = ((A \o B) \o C) \o D
  <2>1. Saves(c, r, gained, active) = A \o B \o C \o D
    BY DEF Saves
  <2> QED BY <2>1
<1> HIDE DEF A, B, C, D
<1> DEFINE E == A \o B
<1>7. /\ E \in Seq(Steps) /\ Len(E) \in {1, 2} /\ 1 \in DOMAIN E /\ E[1] = SaveCol("sp", c, r.sp) /\ DOMAIN E = 1..Len(E)
      /\ gained => Len(E) = 2 /\ E[2] = SaveCol("lv", c, r.lv)
      /\ ~gained => Len(E) = 1
  <2>1. /\ E \in Seq(Steps) /\ Len(E) = Len(A) + Len(B) /\ DOMAIN E = 1..(Len(A) + Len(B)) /\ DOMAIN B = 1..Len(B)
        /\ \A i \in 1..Len(A) : E[i] = A[i]
        /\ \A i \in DOMAIN E : i > Len(A) => i - Len(A) \in DOMAIN B /\ E[i] = B[i - Len(A)]
    <3>1. A \in Seq(Steps) /\ B \in Seq(Steps)
      BY <1>2, <1>3
    <3> QED BY <3>1, Concat
  <2> HIDE DEF E
  <2>2. E[1] = A[1] /\ 1 \in DOMAIN E /\ DOMAIN E = 1..Len(E)
    BY <1>2, <1>3, <2>1
  <2>3. CASE gained
    <3>1. 2 \in DOMAIN E /\ 2 > Len(A) /\ 2 - Len(A) = 1 /\ Len(E) = 2
      BY <1>2, <1>3, <2>1, <2>3
    <3>2. E[2] = B[1]
      BY <2>1, <3>1
    <3> QED BY <1>2, <1>3, <2>1, <2>2, <2>3, <3>1, <3>2
  <2>4. CASE ~gained
    BY <1>2, <1>3, <2>1, <2>2, <2>4
  <2> QED BY <2>3, <2>4
<1> HIDE DEF E
<1> DEFINE F == C \o D
<1>8. F \in Seq(Steps) /\ \A i \in DOMAIN F : F[i].do = "save" /\ F[i].col \in {"main", "rest"}
  <2>1. F \in Seq(Steps) /\ \A i \in DOMAIN F : IF i > Len(C) THEN \E j \in DOMAIN D : F[i] = D[j] ELSE \E j \in DOMAIN C : F[i] = C[j]
    <3>1. \A i \in DOMAIN F : i > Len(C) => i - Len(C) \in DOMAIN D /\ F[i] = D[i - Len(C)]
      BY <1>4, <1>5, Concat
    <3>2. \A i \in DOMAIN F : ~(i > Len(C)) => i \in DOMAIN C /\ F[i] = C[i]
      BY <1>4, <1>5, Concat
    <3>3. F \in Seq(Steps)
      BY <1>4, <1>5, Concat
    <3> HIDE DEF F
    <3> QED BY <3>1, <3>2, <3>3
  <2> QED BY <1>4, <1>5, <2>1
<1>9. Saves(c, r, gained, active) = E \o F
  <2>1. Saves(c, r, gained, active) = (E \o C) \o D
    BY <1>6 DEF E
  <2>2. E \in Seq(Steps) /\ C \in Seq(Steps) /\ D \in Seq(Steps)
    BY <1>4, <1>5, <1>7
  <2>3. (E \o C) \o D = E \o (C \o D)
    BY <2>2, Associative
  <2> QED BY <2>1, <2>3 DEF F
<1> HIDE DEF F
<1> DEFINE q == E \o F
<1>10. /\ q \in Seq(Steps) /\ Len(q) = Len(E) + Len(F) /\ Len(F) \in Nat /\ DOMAIN q = 1..Len(q)
       /\ \A i \in 1..Len(E) : q[i] = E[i]
       /\ \A i \in DOMAIN q : i > Len(E) => i - Len(E) \in DOMAIN F /\ q[i] = F[i - Len(E)]
  BY <1>7, <1>8, Concat
<1> HIDE DEF q
<1>11. /\ q # <<>> /\ 1 \in DOMAIN q /\ q[1] = SaveCol("sp", c, r.sp)
       /\ gained => 2 \in DOMAIN q /\ q[2] = SaveCol("lv", c, r.lv)
  BY <1>7, <1>10
<1>12. \A i \in DOMAIN q : i # 1 /\ ~(gained /\ i = 2) => i > Len(E)
  BY <1>7, <1>10
<1>13. \A i \in DOMAIN q : i # 1 /\ ~(gained /\ i = 2) => q[i].do = "save" /\ q[i].col \in {"main", "rest"}
  BY <1>8, <1>10, <1>12
<1>14. Saves(c, r, gained, active) = q
  BY <1>9 DEF q
<1> QED BY <1>10, <1>11, <1>13, <1>14

\* What a gain reads of the character.
LEMMA RestedFacts ==
  ASSUME TypeOK, NEW exp \in Gains
  PROVE  Rested(exp) \in Nat /\ RestAfter \in Nat
<1>1. exp \in Nat /\ RestCap \in Nat \ {0}
  BY AdvancementAssumption
<1>2. mem.rest \in Nat
  BY DEF TypeOK, Characters
<1>3. PICK n \in Nat : n = exp * mem.rest
  <2>1. exp * mem.rest \in Nat
    BY <1>1, <1>2
  <2> QED BY <2>1
<1>4. n \div RestCap \in Nat
  BY <1>1, <1>3
<1> QED BY <1>1, <1>2, <1>3, <1>4 DEF Rested, RestAfter

\* The types of the single fields of the character and of its rows.
LEMMA MemFacts ==
  ASSUME TypeOK
  PROVE  /\ mem.class \in Classes /\ mem.rest \in Nat /\ mem.gc \in GCs \cup {None}
         /\ \A c \in Classes : mem.lv[c] \in 0..MaxLevel /\ mem.sp[c] \in Nat /\ AtLeast1(mem.lv[c]) \in Levels
         /\ \A g \in GCs : mem.rank[g] \in 0..TopRank
         /\ row.class \in Classes /\ row.rest \in Nat /\ row.gc \in GCs \cup {None}
         /\ \A c \in Classes : row.lv[c] \in 0..MaxLevel /\ row.sp[c] \in Nat /\ AtLeast1(row.lv[c]) \in Levels
         /\ \A g \in GCs : row.rank[g] \in 0..TopRank
<1>1. \A l \in 0..MaxLevel : AtLeast1(l) \in Levels
  BY LevelFacts DEF AtLeast1, Levels
<1>2. mem \in Characters /\ row \in Characters
  BY DEF TypeOK
<1>3. ASSUME NEW x \in Characters
      PROVE /\ x.class \in Classes /\ x.rest \in Nat /\ x.gc \in GCs \cup {None}
            /\ \A c \in Classes : x.lv[c] \in 0..MaxLevel /\ x.sp[c] \in Nat
            /\ \A g \in GCs : x.rank[g] \in 0..TopRank
  BY DEF Characters
<1> QED BY <1>1, <1>2, <1>3

\* What a gain does to the live class, and the program it leaves.
LEMMA GainFacts ==
  ASSUME TypeOK, NEW t \in Tasks, NEW c \in Classes, NEW exp \in Gains, program[t] = <<>> \/ Len(program[t]) = 1, Gain(t, c, exp)
  PROVE  /\ mem' \in Characters /\ mem'.class = mem.class /\ mem'.gc = mem.gc /\ mem'.rank = mem.rank
         /\ \A d \in Classes \ {c} : mem'.lv[d] = mem.lv[d] /\ mem'.sp[d] = mem.sp[d]
         /\ AtLeast1(mem.lv[c]) <= AtLeast1(mem'.lv[c])
         /\ Progress(mem'.lv[c], mem'.sp[c]) <= Progress(mem.lv[c], mem.sp[c]) + Rested(exp)
         /\ program' \in [Tasks -> Seq(Steps)] /\ \A u \in Tasks : Shape(u, program'[u])
         /\ \A u \in Tasks \ {t} : program'[u] = program[u]
         /\ 1 \in DOMAIN program'[t] /\ program'[t][1] = SaveCol("sp", c, mem'.sp[c])
         /\ mem'.lv[c] # mem.lv[c] => 2 \in DOMAIN program'[t]
         /\ \A i \in DOMAIN program'[t] :
              i # 1 => \/ i = 2 /\ program'[t][2] = SaveCol("lv", c, mem'.lv[c])
                       \/ program'[t][i].do = "save" /\ program'[t][i].col \in {"main", "rest"}
         /\ mem'.lv[c] # mem.lv[c] => program'[t][2] = SaveCol("lv", c, mem'.lv[c])
         /\ earned' = [earned EXCEPT ![c] = @ + Rested(exp)]
         /\ spoiled' = spoiled \cup Crossed(t, program'[t])
         /\ UNCHANGED <<row, seals, spent, owed, cut>>
<1> DEFINE from == AtLeast1(mem.lv[c])
           s == mem.sp[c] + Rested(exp)
           r == RollOver(from, s)
           gained == r.lv > from
           q == Saves(c, r, gained, mem.class = c)
<1>1. /\ from \in Levels /\ mem.sp[c] \in Nat /\ mem.lv[c] \in 0..MaxLevel /\ Rested(exp) \in Nat /\ RestAfter \in Nat /\ s \in Nat
  BY MemFacts, RestedFacts
<1> HIDE DEF s, from
<1>2. r.lv \in Levels /\ r.lv >= from /\ r.sp \in Nat /\ Progress(r.lv, r.sp) <= Progress(from, s)
  BY <1>1, RollOverFacts
<1>3. /\ mem' = [mem EXCEPT !.sp[c] = r.sp, !.rest = RestAfter, !.lv[c] = IF gained THEN r.lv ELSE @]
      /\ Then(t, q)
      /\ earned' = [earned EXCEPT ![c] = @ + Rested(exp)]
      /\ spoiled' = spoiled \cup Crossed(t, q)
      /\ UNCHANGED <<row, seals, spent, owed, cut>>
  BY DEF Gain, from, s
<1> HIDE DEF r
<1> HIDE DEF gained, q
<1>4. gained \in BOOLEAN /\ (gained <=> r.lv > from)
  BY DEF gained
<1>5. /\ q \in Seq(Steps) /\ q # <<>> /\ 1 \in DOMAIN q /\ q[1] = SaveCol("sp", c, r.sp)
      /\ gained => 2 \in DOMAIN q /\ q[2] = SaveCol("lv", c, r.lv)
      /\ \A i \in DOMAIN q : i # 1 /\ ~(gained /\ i = 2) => q[i].do = "save" /\ q[i].col \in {"main", "rest"}
  <2>1. PICK g \in BOOLEAN : g <=> gained
    BY <1>4
  <2>2. PICK active \in BOOLEAN : active <=> mem.class = c
    OBVIOUS
  <2>3. q = Saves(c, r, g, active)
    BY <2>1, <2>2 DEF q, Saves
  <2> QED BY <1>2, <2>1, <2>3, SavesFacts
<1>6. Shape(t, q)
  <2>1. /\ q[1].do = "save" /\ q[1].col = "sp" /\ q[1].key = c
        /\ gained => q[2].do = "save" /\ q[2].col = "lv" /\ q[2].key = c
    BY <1>5 DEF SaveCol
  <2> QED BY <1>5, <2>1 DEF Shape, Saving
<1>7. /\ program'[t] = q /\ (\A u \in Tasks \ {t} : program'[u] = program[u])
      /\ program' \in [Tasks -> Seq(Steps)] /\ \A u \in Tasks : Shape(u, program'[u])
  BY <1>3, <1>5, <1>6, ThenTypes
<1>8. /\ mem' \in Characters /\ mem'.class = mem.class /\ mem'.gc = mem.gc /\ mem'.rank = mem.rank
      /\ (\A d \in Classes \ {c} : mem'.lv[d] = mem.lv[d] /\ mem'.sp[d] = mem.sp[d])
      /\ mem'.sp[c] = r.sp /\ mem'.lv[c] = IF gained THEN r.lv ELSE mem.lv[c]
  <2>1. mem \in Characters
    BY DEF TypeOK
  <2>2. mem' = [class |-> mem.class, rest |-> RestAfter, gc |-> mem.gc, rank |-> mem.rank,
                lv |-> [mem.lv EXCEPT ![c] = IF gained THEN r.lv ELSE @],
                sp |-> [mem.sp EXCEPT ![c] = r.sp]]
    BY <1>3, <2>1 DEF Characters
  <2>3. r.lv \in 0..MaxLevel
    BY <1>2, LevelFacts DEF Levels
  <2>4. [mem.lv EXCEPT ![c] = IF gained THEN r.lv ELSE @] \in [Classes -> 0..MaxLevel] /\ [mem.sp EXCEPT ![c] = r.sp] \in [Classes -> Nat]
    BY <1>1, <1>2, <2>1, <2>3 DEF Characters
  <2>5. mem.lv \in [Classes -> 0..MaxLevel] /\ mem.sp \in [Classes -> Nat] /\ mem.class \in Classes /\ mem.gc \in GCs \cup {None} /\ mem.rank \in [GCs -> 0..TopRank]
    BY <2>1 DEF Characters
  <2>6. mem' \in Characters
    BY <1>1, <2>2, <2>4, <2>5 DEF Characters
  <2> QED BY <2>2, <2>5, <2>6
<1>9. AtLeast1(mem.lv[c]) <= AtLeast1(mem'.lv[c]) /\ AtLeast1(mem'.lv[c]) = r.lv
  <2>1. from \in Nat \ {0} /\ r.lv \in Nat \ {0}
    BY <1>1, <1>2 DEF Levels
  <2>2. CASE gained
    BY <1>2, <1>8, <2>1, <2>2 DEF AtLeast1, from
  <2>3. CASE ~gained
    <3>1. r.lv = from
      BY <1>2, <1>4, <2>1, <2>3
    <3> QED BY <1>8, <2>1, <2>3, <3>1 DEF from
  <2> QED BY <2>2, <2>3
<1>10. Progress(mem'.lv[c], mem'.sp[c]) <= Progress(mem.lv[c], mem.sp[c]) + Rested(exp)
  <2>1. AtLeast1(r.lv) = r.lv /\ AtLeast1(from) = from
    BY <1>1, <1>2 DEF AtLeast1, Levels
  <2>2. Progress(mem'.lv[c], mem'.sp[c]) = Progress(r.lv, r.sp)
    BY <1>8, <1>9, <2>1 DEF Progress
  <2>3. Progress(from, s) = Progress(mem.lv[c], mem.sp[c]) + Rested(exp)
    <3>1. Total[from] \in Nat
      BY <1>1, TotalIs
    <3>2. Progress(from, s) = Total[from] + s /\ Progress(mem.lv[c], mem.sp[c]) = Total[from] + mem.sp[c]
      BY <2>1 DEF Progress, from
    <3> QED BY <1>1, <3>1, <3>2 DEF s
  <2> QED BY <1>2, <2>2, <2>3
<1>11. mem'.lv[c] # mem.lv[c] => gained
  BY <1>8
<1>12. gained => mem'.lv[c] = r.lv
  BY <1>8
<1> QED BY <1>3, <1>5, <1>7, <1>8, <1>9, <1>10, <1>11, <1>12

\* A program of one step.
LEMMA OneStep ==
  ASSUME NEW t, NEW s \in Steps, s.do \in {"award", "deposit", "gain", "pick"} \/ (s.do = "save" /\ s.col \in {"sp", "lv", "main", "rest"}) \/ t = "packet"
  PROVE  <<s>> \in Seq(Steps) /\ Shape(t, <<s>>) /\ Len(<<s>>) = 1 /\ <<s>>[1] = s
<1>1. <<s>> \in Seq(Steps) /\ Len(<<s>>) = 1 /\ <<s>>[1] = s /\ DOMAIN <<s>> = {1}
  OBVIOUS
<1>2. Shape(t, <<s>>)
  <2> SUFFICES ASSUME NEW i \in {1}, NEW p, p = <<s>>
               PROVE  /\ p[i].do \in {"award", "deposit", "class", "balance", "spend", "bump"} => i = 1
                      /\ p[i].do \in {"gain", "class", "balance", "spend", "bump", "pick", "readRank", "setClass"} => i = Len(p)
                      /\ p[i].do \in {"class", "balance", "spend", "bump", "readRank", "memLevel", "setClass"} => t = "packet"
                      /\ p[i].do = "memLevel" /\ i > 1 => i = 2 /\ p[1] = SaveCol("lv", p[2].key, 1)
                      /\ p[i].do = "save" /\ p[i].col = "sp" => i = 1
                      /\ p[i].do = "save" /\ p[i].col \in {"gc", "rank"} => i = 1 /\ t = "packet"
                      /\ p[i].do = "save" /\ p[i].col = "lv" /\ i > 1 => i = 2 /\ Saving(p[1], "sp", p[2].key)
    BY <1>1 DEF Shape
  <2>1. i = 1 /\ p[i] = s /\ Len(p) = 1
    BY <1>1
  <2> QED BY <2>1
<1> QED BY <1>1, <1>2

\* What leaves the character, the tables and the history alone keeps their types.
LEMMA TypeOfProgram ==
  ASSUME TypeOK, program' \in [Tasks -> Seq(Steps)], \A u \in Tasks : Shape(u, program'[u]),
         UNCHANGED <<mem, row, seals, earned, spent, owed, cut>>, requests' \in Nat, faults' \in Nat
  PROVE  TypeOK'
BY DEF TypeOK

\* The bounded counters of requests and faults stay numbers.
LEMMA CounterFacts ==
  ASSUME TypeOK
  PROVE  /\ Request => requests' \in Nat
         /\ Fault => faults' \in Nat /\ requests' \in Nat
BY DEF TypeOK, Request, Fault

\* Types when experience is granted and rolls over (apply_add_exp).
LEMMA GainTypes ==
  ASSUME TypeOK, NEW t \in Tasks, NEW c \in Classes, NEW exp \in Gains, program[t] = <<>> \/ Len(program[t]) = 1, Gain(t, c, exp),
         requests' \in Nat, faults' \in Nat
  PROVE  TypeOK'
<1>1. mem' \in Characters /\ program' \in [Tasks -> Seq(Steps)] /\ (\A u \in Tasks : Shape(u, program'[u]))
      /\ earned' = [earned EXCEPT ![c] = @ + Rested(exp)] /\ UNCHANGED <<row, seals, spent, owed, cut>>
  BY GainFacts
<1>2. earned' \in [Classes -> Nat]
  BY <1>1, RestedFacts DEF TypeOK
<1> QED BY <1>1, <1>2 DEF TypeOK

\* The actions of experience and of classes keep the types.
LEMMA TypeClass ==
  ASSUME TypeOK,
         \/ \E t \in Tasks, c \in Classes, exp \in Gains : AddExp(t, c, exp)
         \/ \E t \in Tasks, exp \in Gains : Kill(t, exp)
         \/ \E c \in Classes : ClassChange(c)
         \/ \E t \in Tasks : PickClass(t) \/ KillExp(t) \/ SetClass(t) \/ InitClass(t) \/ MemLevel(t)
         \/ RestAtInn
  PROVE  TypeOK'
<1>0. "packet" \in Tasks /\ requests \in Nat /\ faults \in Nat /\ mem \in Characters
  BY DEF Tasks, TypeOK
<1>1. ASSUME NEW t \in Tasks, NEW c \in Classes, NEW exp \in Gains, AddExp(t, c, exp) PROVE TypeOK'
  <2>1. program[t] = <<>> /\ Gain(t, c, exp) /\ requests' \in Nat /\ faults' \in Nat
    BY <1>0, <1>1, CounterFacts DEF AddExp, Idle
  <2> QED BY <2>1, GainTypes
<1>2. ASSUME NEW t \in Tasks, NEW exp \in Gains, Kill(t, exp) PROVE TypeOK'
  <2> DEFINE a == Do("award", mem.gc, mem.rank[mem.gc])
             b == Do("pick", None, exp)
             q == (IF mem.gc \in GCs THEN <<a>> ELSE <<>>) \o <<b>>
  <2>1. b \in Steps /\ b.do = "pick" /\ (mem.gc \in GCs => a \in Steps /\ a.do = "award")
    BY StepTypes, MemFacts DEF Do
  <2> HIDE DEF a, b
  <2>2. (mem.gc \in GCs => q = <<a, b>>) /\ (mem.gc \notin GCs => q = <<b>>)
    <3>1. mem.gc \in GCs => <<a>> \o <<b>> = <<a, b>>
      BY <2>1, PairSeq
    <3>2. <<>> \o <<b>> = <<b>>
      BY <2>1, PairSeq
    <3> QED BY <3>1, <3>2
  <2>3. q \in Seq(Steps) /\ Shape(t, q)
    <3>1. CASE mem.gc \in GCs
      <4>1. q = <<a, b>> /\ <<a, b>> \in Seq(Steps)
        BY <2>1, <2>2, <3>1
      <4>2. Shape(t, <<a, b>>)
        <5>1. Len(<<a, b>>) = 2 /\ DOMAIN <<a, b>> = {1, 2} /\ <<a, b>>[1] = a /\ <<a, b>>[2] = b
          OBVIOUS
        <5> QED BY <2>1, <3>1, <5>1 DEF Shape
      <4> QED BY <4>1, <4>2
    <3>2. CASE mem.gc \notin GCs
      BY <2>1, <2>2, <3>2, OneStep
    <3> QED BY <3>1, <3>2
  <2>4. program[t] = <<>> /\ Then(t, q) /\ Request /\ UNCHANGED <<mem, row, seals, history, faults>>
    BY <1>2 DEF Kill, Idle, a, b
  <2> HIDE DEF q
  <2>5. program' \in [Tasks -> Seq(Steps)] /\ \A u \in Tasks : Shape(u, program'[u])
    BY <2>3, <2>4, ThenTypes
  <2> QED BY <1>0, <2>4, <2>5, CounterFacts, TypeOfProgram DEF history
<1>3. ASSUME NEW c \in Classes, ClassChange(c) PROVE TypeOK'
  <2>1. Do("class", c, 0) \in Steps
    BY StepTypes
  <2>2. program["packet"] = <<>> /\ Then("packet", <<Do("class", c, 0)>>) /\ Request /\ UNCHANGED <<mem, row, seals, history, faults>>
    BY <1>3 DEF ClassChange, Idle
  <2>3. program' \in [Tasks -> Seq(Steps)] /\ \A u \in Tasks : Shape(u, program'[u])
    BY <1>0, <2>1, <2>2, OneStep, ThenTypes
  <2> QED BY <1>0, <2>2, <2>3, CounterFacts, TypeOfProgram DEF history
<1>4. ASSUME NEW t \in Tasks, PickClass(t) PROVE TypeOK'
  <2>1. program[t] # <<>> /\ Step(t).do = "pick" /\ UNCHANGED <<mem, row, seals, history, counters>>
    BY <1>4 DEF PickClass, At, Idle, Step
  <2>2. Step(t) \in Steps /\ Len(program[t]) = 1
    BY <2>1, HeadFacts
  <2>3. Do("gain", mem.class, Step(t).n) \in Steps /\ Do("gain", mem.class, Step(t).n).do = "gain"
    BY <2>1, <2>2, StepShapes, StepTypes, MemFacts DEF Do
  <2>4. program' \in [Tasks -> Seq(Steps)] /\ \A u \in Tasks : Shape(u, program'[u])
    <3>1. CASE Then(t, <<Do("gain", mem.class, Step(t).n)>>)
      BY <2>2, <2>3, <3>1, OneStep, ThenTypes
    <3>2. CASE Done(t)
      BY <2>1, <3>2, DoneTypes
    <3> QED BY <1>4, <3>1, <3>2 DEF PickClass
  <2> QED BY <1>0, <2>1, <2>4, TypeOfProgram DEF history, counters
<1>5. ASSUME NEW t \in Tasks, KillExp(t) PROVE TypeOK'
  <2>1. program[t] # <<>> /\ Step(t).do = "gain" /\ Gain(t, Step(t).key, Step(t).n) /\ UNCHANGED counters
    BY <1>5 DEF KillExp, At, Idle, Step
  <2>2. Step(t) \in Steps /\ Len(program[t]) = 1
    BY <2>1, HeadFacts
  <2>3. Step(t).key \in Classes /\ Step(t).n \in Gains
    BY <2>1, <2>2, StepShapes
  <2> QED BY <1>0, <2>1, <2>2, <2>3, GainTypes DEF counters
<1>6. ASSUME NEW t \in Tasks, SetClass(t) PROVE TypeOK'
  <2>1. program[t] # <<>> /\ Step(t).do \in {"class", "setClass"} /\ Done(t) /\ UNCHANGED <<row, seals, history, counters>>
        /\ mem' = [mem EXCEPT !.class = Step(t).key]
    BY <1>6 DEF SetClass, At, Idle, Step
  <2>2. Step(t).key \in Classes
    BY <2>1, HeadFacts, StepShapes
  <2>3. mem' \in Characters
    BY <1>0, <2>1, <2>2 DEF Characters
  <2>4. program' \in [Tasks -> Seq(Steps)] /\ \A u \in Tasks : Shape(u, program'[u])
    BY <2>1, DoneTypes
  <2> QED BY <2>1, <2>3, <2>4 DEF TypeOK, history, counters
<1>7. ASSUME NEW t \in Tasks, InitClass(t) PROVE TypeOK'
  <2> DEFINE c == Step(t).key
             q == <<SaveCol("lv", c, 1), Do("memLevel", c, 1), Do("setClass", c, 0)>>
  <2>1. program[t] # <<>> /\ Step(t).do = "class" /\ Then(t, q) /\ UNCHANGED <<mem, row, seals, earned, spent, owed, cut>>
        /\ (UNCHANGED counters \/ Fault)
    BY <1>7 DEF InitClass, At, Idle, Step
  <2>2. c \in Classes /\ Len(program[t]) = 1 /\ t = "packet"
    BY <2>1, HeadFacts, StepShapes
  <2>3. q \in Seq(Steps) /\ Shape(t, q)
    <3> DEFINE x == SaveCol("lv", c, 1)  y == Do("memLevel", c, 1)  z == Do("setClass", c, 0)
    <3>1. x \in Steps /\ y \in Steps /\ z \in Steps
      <4>1. 1 \in Levels
        BY LevelFacts DEF Levels
      <4> QED BY <2>2, <4>1, StepTypes
    <3>2. x.do = "save" /\ x.col = "lv" /\ y.do = "memLevel" /\ y.key = c /\ z.do = "setClass" /\ x = SaveCol("lv", y.key, 1)
      BY DEF SaveCol, Do
    <3> HIDE DEF x, y, z, c
    <3>3. q = <<x, y, z>>
      BY DEF x, y, z
    <3>4. <<x, y, z>> \in Seq(Steps) /\ Len(<<x, y, z>>) = 3 /\ DOMAIN <<x, y, z>> = {1, 2, 3} /\ <<x, y, z>>[1] = x /\ <<x, y, z>>[2] = y /\ <<x, y, z>>[3] = z
      BY <3>1
    <3>5. Shape(t, <<x, y, z>>)
      BY <2>2, <3>2, <3>4 DEF Shape
    <3> QED BY <3>3, <3>4, <3>5
  <2> HIDE DEF q
  <2>4. program' \in [Tasks -> Seq(Steps)] /\ \A u \in Tasks : Shape(u, program'[u])
    BY <2>1, <2>2, <2>3, ThenTypes
  <2>5. requests' \in Nat /\ faults' \in Nat
    BY <1>0, <2>1, CounterFacts DEF counters
  <2> QED BY <2>1, <2>4, <2>5, TypeOfProgram
<1>8. ASSUME NEW t \in Tasks, MemLevel(t) PROVE TypeOK'
  <2>1. program[t] # <<>> /\ Step(t).do = "memLevel" /\ Done(t) /\ UNCHANGED <<row, seals, earned, spent, owed, cut, counters>>
        /\ mem' = [mem EXCEPT !.lv[Step(t).key] = 1]
    BY <1>8 DEF MemLevel, At, Idle, Step
  <2>2. Step(t).key \in Classes /\ 1 \in 0..MaxLevel
    BY <2>1, HeadFacts, StepShapes, LevelFacts
  <2>3. mem' \in Characters
    BY <1>0, <2>1, <2>2 DEF Characters
  <2>4. program' \in [Tasks -> Seq(Steps)] /\ \A u \in Tasks : Shape(u, program'[u])
    BY <2>1, DoneTypes
  <2> QED BY <2>1, <2>3, <2>4 DEF TypeOK, counters
<1>9. CASE RestAtInn
  <2>1. mem' \in Characters
    BY <1>0, <1>9 DEF RestAtInn, Characters
  <2> QED BY <1>9, <2>1 DEF RestAtInn, TypeOK, history, counters
<1> QED BY <1>1, <1>2, <1>3, <1>4, <1>5, <1>6, <1>7, <1>8, <1>9

\* So do the actions of Grand Companies.
LEMMA TypeCompany ==
  ASSUME TypeOK,
         \/ \E g \in GCs : JoinGC(g) \/ PromoteGC(g)
         \/ \E g \in GCs, r \in 1 .. TopRank : SetGCRank(g, r)
         \/ \E t \in Tasks, g \in GCs : AddSeals(t, g)
         \/ \E t \in Tasks : ReadRank(t) \/ Award(t) \/ Deposit(t) \/ Balance(t) \/ Spend(t) \/ Bump(t)
  PROVE  TypeOK'
<1>0. "packet" \in Tasks /\ requests \in Nat /\ faults \in Nat /\ mem \in Characters
  BY DEF Tasks, TypeOK
<1>1. ASSUME NEW g \in GCs, JoinGC(g) PROVE TypeOK'
  <2> DEFINE x == SaveCol("gc", None, g)  y == Do("readRank", g, 0)
  <2>1. x \in Steps /\ y \in Steps /\ x.do = "save" /\ x.col = "gc" /\ y.do = "readRank"
    BY StepTypes DEF SaveCol, Do
  <2>2. program["packet"] = <<>> /\ Then("packet", <<x, y>>) /\ Request /\ UNCHANGED <<row, seals, history, faults>>
        /\ mem' = [mem EXCEPT !.gc = g, !.rank[g] = IF @ = 0 THEN 1 ELSE @]
    BY <1>1 DEF JoinGC, Idle
  <2> HIDE DEF x, y
  <2>3. <<x, y>> \in Seq(Steps) /\ Len(<<x, y>>) = 2 /\ DOMAIN <<x, y>> = {1, 2} /\ <<x, y>>[1] = x /\ <<x, y>>[2] = y
    BY <2>1
  <2>4. Shape("packet", <<x, y>>)
    BY <2>1, <2>3 DEF Shape
  <2>5. program' \in [Tasks -> Seq(Steps)] /\ \A u \in Tasks : Shape(u, program'[u])
    BY <1>0, <2>2, <2>3, <2>4, ThenTypes
  <2>6. mem' \in Characters
    <3>1. [mem.rank EXCEPT ![g] = IF @ = 0 THEN 1 ELSE @] \in [GCs -> 0..TopRank]
      BY <1>0, CostFacts DEF Characters
    <3>2. mem' = [class |-> mem.class, rest |-> mem.rest, gc |-> g, lv |-> mem.lv, sp |-> mem.sp,
                  rank |-> [mem.rank EXCEPT ![g] = IF @ = 0 THEN 1 ELSE @]]
      BY <1>0, <2>2 DEF Characters
    <3> QED BY <1>0, <3>1, <3>2 DEF Characters
  <2> QED BY <1>0, <2>2, <2>5, <2>6, CounterFacts DEF TypeOK, history
<1>2. ASSUME NEW g \in GCs, PromoteGC(g) PROVE TypeOK'
  <2>1. program["packet"] = <<>> /\ Then("packet", <<Do("balance", g, mem.rank[g])>>) /\ Request /\ UNCHANGED <<mem, row, seals, history, faults>>
        /\ mem.rank[g] \in DOMAIN Cost
    BY <1>2 DEF PromoteGC, Idle
  <2>2. Do("balance", g, mem.rank[g]) \in Steps
    BY <2>1, StepTypes
  <2>3. program' \in [Tasks -> Seq(Steps)] /\ \A u \in Tasks : Shape(u, program'[u])
    BY <1>0, <2>1, <2>2, OneStep, ThenTypes
  <2> QED BY <1>0, <2>1, <2>3, CounterFacts, TypeOfProgram DEF history
<1>3. ASSUME NEW g \in GCs, NEW r \in 1..TopRank, SetGCRank(g, r) PROVE TypeOK'
  <2>1. program["packet"] = <<>> /\ Then("packet", <<SaveCol("rank", g, r)>>) /\ Request /\ UNCHANGED <<row, seals, history, faults>>
        /\ mem' = [mem EXCEPT !.rank[g] = r]
    BY <1>3 DEF SetGCRank, Idle
  <2>2. SaveCol("rank", g, r) \in Steps /\ r \in 0..TopRank
    BY StepTypes, CostFacts
  <2>3. program' \in [Tasks -> Seq(Steps)] /\ \A u \in Tasks : Shape(u, program'[u])
    BY <1>0, <2>1, <2>2, OneStep, ThenTypes
  <2>4. mem' \in Characters
    BY <1>0, <2>1, <2>2 DEF Characters
  <2> QED BY <1>0, <2>1, <2>3, <2>4, CounterFacts DEF TypeOK, history
<1>4. ASSUME NEW t \in Tasks, NEW g \in GCs, AddSeals(t, g) PROVE TypeOK'
  <2>1. program[t] = <<>> /\ Then(t, <<Do("deposit", g, Reward)>>) /\ Request /\ UNCHANGED <<mem, row, seals, history, faults>>
    BY <1>4 DEF AddSeals, Idle
  <2>2. Do("deposit", g, Reward) \in Steps /\ Do("deposit", g, Reward).do = "deposit"
    BY StepTypes, AdvancementAssumption DEF Do
  <2>3. program' \in [Tasks -> Seq(Steps)] /\ \A u \in Tasks : Shape(u, program'[u])
    BY <1>0, <2>1, <2>2, OneStep, ThenTypes
  <2> QED BY <1>0, <2>1, <2>3, CounterFacts, TypeOfProgram DEF history
<1>5. ASSUME NEW t \in Tasks, ReadRank(t) PROVE TypeOK'
  <2>1. program[t] # <<>> /\ Step(t).do = "readRank" /\ Then(t, <<SaveCol("rank", Step(t).key, mem.rank[Step(t).key])>>)
        /\ UNCHANGED <<mem, row, seals, history, counters>>
    BY <1>5 DEF ReadRank, At, Idle, Step
  <2>2. Step(t).key \in GCs /\ Len(program[t]) = 1 /\ t = "packet"
    BY <2>1, HeadFacts, StepShapes
  <2>3. SaveCol("rank", Step(t).key, mem.rank[Step(t).key]) \in Steps
    BY <2>2, StepTypes, MemFacts
  <2>4. program' \in [Tasks -> Seq(Steps)] /\ \A u \in Tasks : Shape(u, program'[u])
    BY <2>1, <2>2, <2>3, OneStep, ThenTypes
  <2> QED BY <1>0, <2>1, <2>4, TypeOfProgram DEF history, counters
<1>6. ASSUME NEW t \in Tasks, Award(t) PROVE TypeOK'
  <2> DEFINE g == Step(t).key
             cap == IF Step(t).n \in 1 .. TopRank THEN Cap[Step(t).n] ELSE 0
  <2>1. program[t] # <<>> /\ Step(t).do = "award" /\ UNCHANGED <<mem, row, seals, history, counters>>
    BY <1>6 DEF Award, At, Idle, Step
  <2>2. g \in GCs /\ Step(t).n \in 0..TopRank
    BY <2>1, HeadFacts, StepShapes
  <2>3. cap \in Nat
    BY CostFacts
  <2>4. PICK balance \in {seals[g], 0} : IF balance >= cap THEN Done(t) ELSE Then(t, <<Do("deposit", g, Min({Reward, cap - balance}))>>)
    BY <1>6 DEF Award
  <2> HIDE DEF cap
  <2>5. program' \in [Tasks -> Seq(Steps)] /\ \A u \in Tasks : Shape(u, program'[u])
    <3>1. CASE balance >= cap
      BY <2>1, <2>4, <3>1, DoneTypes
    <3>2. CASE ~(balance >= cap)
      <4> DEFINE n == Min({Reward, cap - balance})
                 q == <<Do("deposit", g, n)>>
      <4>1. seals[g] \in Nat
        BY <2>2 DEF TypeOK
      <4>2. balance \in Nat
        BY <4>1
      <4>3. cap - balance \in Nat /\ Reward \in Nat
        BY <2>3, <3>2, <4>2, AdvancementAssumption
      <4>4. n \in Nat
        BY <4>3, MinOfTwo
      <4> HIDE DEF n
      <4>5. Do("deposit", g, n) \in Steps /\ Do("deposit", g, n).do = "deposit"
        BY <2>2, <4>4, StepTypes DEF Do
      <4>6. q \in Seq(Steps) /\ Shape(t, q) /\ Len(q) = 1 /\ q[1] = Do("deposit", g, n)
        BY <4>5, OneStep
      <4>7. program[t] \in Seq(Steps) /\ Shape(t, program[t])
        BY DEF TypeOK
      <4> DEFINE s == Tail(program[t])
      <4>8. s \in Seq(Steps) /\ Shape(t, s) /\ Len(s) = Len(program[t]) - 1 /\ Len(program[t]) \in Nat \ {0}
            /\ \A i \in DOMAIN s : i \in Nat \ {0} /\ i + 1 \in DOMAIN program[t] /\ s[i] = program[t][i + 1]
        BY <2>1, <4>7, TailFacts, TailShape
      <4>9. program' = [program EXCEPT ![t] = q \o s]
        BY <2>1, <2>4, <3>2 DEF Then, n
      <4> HIDE DEF q, s
      <4> DEFINE p == q \o s
      <4>10. /\ p \in Seq(Steps) /\ Len(p) = 1 + Len(s) /\ Len(s) \in Nat /\ DOMAIN p = 1..Len(p) /\ p[1] = q[1]
             /\ \A i \in DOMAIN p : i > 1 => i - 1 \in DOMAIN s /\ p[i] = s[i - 1]
        BY <4>5, <4>8, ConsFacts DEF q
      <4> HIDE DEF p
      <4>11. \A i \in DOMAIN p : i > 1 => i \in DOMAIN program[t] /\ p[i] = program[t][i]
        <5> SUFFICES ASSUME NEW i \in DOMAIN p, i > 1 PROVE i \in DOMAIN program[t] /\ p[i] = program[t][i]
          OBVIOUS
        <5>1. i \in Nat /\ (i - 1) + 1 = i
          BY <4>10
        <5> QED BY <4>8, <4>10, <5>1
      <4>12. Len(p) = Len(program[t])
        BY <4>8, <4>10
      <4>13. Step(t) = program[t][1] /\ p[1].do = "deposit"
        BY <2>1, <4>5, <4>6, <4>10, HeadFacts
      <4>14. Shape(t, p)
        <5> SUFFICES ASSUME NEW i \in DOMAIN p, i # 1
                     PROVE  /\ p[i].do \notin {"award", "deposit", "class", "balance", "spend", "bump"}
                            /\ p[i].do \in {"gain", "pick", "readRank", "setClass"} => i = Len(p)
                            /\ p[i].do \in {"readRank", "setClass"} => t = "packet"
                            /\ p[i].do # "memLevel"
                            /\ p[i].do = "save" => p[i].col \notin {"sp", "gc", "rank", "lv"}
          BY <4>13 DEF Shape
        <5>1. i > 1
          BY <4>10
        <5>2. PICK k \in DOMAIN program[t] : k = i /\ k > 1 /\ p[i] = program[t][k]
          BY <4>11, <5>1
        <5>3. program[t][1].do = "award"
          BY <2>1, <4>13
        <5>4. /\ program[t][k].do \notin {"award", "deposit", "class", "balance", "spend", "bump"}
              /\ program[t][k].do \in {"gain", "pick", "readRank", "setClass"} => k = Len(program[t])
              /\ program[t][k].do \in {"readRank", "setClass"} => t = "packet"
              /\ program[t][k].do # "memLevel"
              /\ program[t][k].do = "save" => program[t][k].col \notin {"sp", "gc", "rank", "lv"}
          BY <4>7, <5>2, <5>3 DEF Shape, Saving, SaveCol
        <5> QED BY <4>12, <5>2, <5>4
      <4>15. program' = [program EXCEPT ![t] = p]
        BY <4>9 DEF p
      <4> QED BY <4>10, <4>14, <4>15 DEF TypeOK
    <3> QED BY <3>1, <3>2
  <2> QED BY <1>0, <2>1, <2>5, TypeOfProgram DEF history, counters
<1>7. ASSUME NEW t \in Tasks, Deposit(t) PROVE TypeOK'
  <2>1. program[t] # <<>> /\ Step(t).do = "deposit" /\ Done(t) /\ UNCHANGED <<mem, row, history, counters>>
        /\ seals' = [seals EXCEPT ![Step(t).key] = @ + Step(t).n]
    BY <1>7 DEF Deposit, At, Idle, Step
  <2>2. Step(t).key \in GCs /\ Step(t).n \in Nat
    BY <2>1, HeadFacts, StepShapes
  <2>3. program' \in [Tasks -> Seq(Steps)] /\ \A u \in Tasks : Shape(u, program'[u])
    BY <2>1, DoneTypes
  <2>4. seals' \in [GCs -> Nat]
    BY <2>1, <2>2 DEF TypeOK
  <2> QED BY <2>1, <2>3, <2>4 DEF TypeOK, history, counters
<1>8. ASSUME NEW t \in Tasks, Balance(t) PROVE TypeOK'
  <2>1. program[t] # <<>> /\ Step(t).do = "balance" /\ UNCHANGED <<mem, row, seals, history, counters>>
        /\ (Then(t, <<Do("spend", Step(t).key, Step(t).n)>>) \/ Done(t))
    BY <1>8 DEF Balance, At, Idle, Step
  <2>2. Step(t).key \in GCs /\ Step(t).n \in DOMAIN Cost /\ Len(program[t]) = 1 /\ t = "packet"
    BY <2>1, HeadFacts, StepShapes
  <2>3. Do("spend", Step(t).key, Step(t).n) \in Steps
    BY <2>2, StepTypes
  <2>4. program' \in [Tasks -> Seq(Steps)] /\ \A u \in Tasks : Shape(u, program'[u])
    BY <2>1, <2>2, <2>3, OneStep, ThenTypes, DoneTypes
  <2> QED BY <1>0, <2>1, <2>4, TypeOfProgram DEF history, counters
<1>9. ASSUME NEW t \in Tasks, Spend(t) PROVE TypeOK'
  <2> DEFINE g == Step(t).key
             taken == Min({seals[g], Cost[Step(t).n]})
  <2>1. program[t] # <<>> /\ Step(t).do = "spend" /\ Then(t, <<Do("bump", g, Step(t).n)>>)
        /\ seals' = [seals EXCEPT ![g] = @ - taken] /\ spent' = [spent EXCEPT ![g] = @ + taken]
        /\ UNCHANGED <<mem, row, earned, owed, spoiled, cut, counters>>
    BY <1>9 DEF Spend, At, Idle, Step
  <2>2. g \in GCs /\ Step(t).n \in DOMAIN Cost /\ Len(program[t]) = 1 /\ t = "packet"
    BY <2>1, HeadFacts, StepShapes
  <2>3. Do("bump", g, Step(t).n) \in Steps
    BY <2>2, StepTypes
  <2>4. program' \in [Tasks -> Seq(Steps)] /\ \A u \in Tasks : Shape(u, program'[u])
    BY <2>1, <2>2, <2>3, OneStep, ThenTypes
  <2>5. taken \in Nat /\ taken <= seals[g] /\ seals[g] \in Nat
    <3>1. seals[g] \in Nat /\ Cost[Step(t).n] \in Nat
      BY <2>2, CostFacts DEF TypeOK
    <3> QED BY <3>1, MinOfTwo
  <2> HIDE DEF taken
  <2>6. seals' \in [GCs -> Nat] /\ spent' \in [GCs -> Nat]
    BY <2>1, <2>2, <2>5, SMTT(30) DEF TypeOK
  <2> QED BY <2>1, <2>4, <2>6 DEF TypeOK, counters
<1>10. ASSUME NEW t \in Tasks, Bump(t) PROVE TypeOK'
  <2> DEFINE g == Step(t).key
             r == Step(t).n
  <2>1. program[t] # <<>> /\ Step(t).do = "bump" /\ Then(t, <<SaveCol("rank", g, r + 1)>>)
        /\ mem' = [mem EXCEPT !.rank[g] = r + 1] /\ owed' = [owed EXCEPT ![g] = @ + Cost[r]]
        /\ UNCHANGED <<row, seals, earned, spent, spoiled, cut, counters>>
    BY <1>10 DEF Bump, At, Idle, Step
  <2>2. g \in GCs /\ r \in DOMAIN Cost /\ Len(program[t]) = 1 /\ t = "packet"
    BY <2>1, HeadFacts, StepShapes
  <2>3. r + 1 \in 0..TopRank /\ Cost[r] \in Nat
    BY <2>2, CostFacts
  <2>4. SaveCol("rank", g, r + 1) \in Steps
    BY <2>2, <2>3, StepTypes
  <2>5. program' \in [Tasks -> Seq(Steps)] /\ \A u \in Tasks : Shape(u, program'[u])
    BY <2>1, <2>2, <2>4, OneStep, ThenTypes
  <2>6. owed' \in [GCs -> Nat]
    BY <2>1, <2>2, <2>3, SMTT(30) DEF TypeOK
  <2>7. mem' \in Characters
    <3>1. [mem.rank EXCEPT ![g] = r + 1] \in [GCs -> 0..TopRank]
      BY <1>0, <2>3 DEF Characters
    <3>2. mem' = [mem EXCEPT !.rank = [mem.rank EXCEPT ![g] = r + 1]]
      BY <1>0, <2>1
    <3> QED BY <1>0, <3>1, <3>2 DEF Characters
  <2> QED BY <2>1, <2>5, <2>6, <2>7 DEF TypeOK, counters
<1> QED BY <1>1, <1>2, <1>3, <1>4, <1>5, <1>6, <1>7, <1>8, <1>9, <1>10

\* The tables after one UPDATE.
LEMMA WrittenTypes ==
  ASSUME TypeOK, NEW s \in Steps, s.do = "save"
  PROVE  Written(s) \in Characters
<1>1. row \in Characters
  BY DEF TypeOK
<1>2. s.col \in {"sp", "lv", "main", "rest", "gc", "rank"}
  BY StepShapes
<1>3. CASE s.col = "sp"
  BY <1>1, <1>3, StepShapes DEF Written, Characters
<1>4. CASE s.col = "lv"
  <2>1. s.val \in 0..MaxLevel /\ s.key \in Classes
    BY <1>4, StepShapes, LevelFacts DEF Levels
  <2> QED BY <1>1, <1>4, <2>1 DEF Written, Characters
<1>5. CASE s.col = "main"
  BY <1>1, <1>5, StepShapes DEF Written, Characters
<1>6. CASE s.col = "rest"
  BY <1>1, <1>6, StepShapes DEF Written, Characters
<1>7. CASE s.col = "gc"
  BY <1>1, <1>7, StepShapes DEF Written, Characters
<1>8. CASE s.col = "rank"
  BY <1>1, <1>8, StepShapes DEF Written, Characters
<1> QED BY <1>2, <1>3, <1>4, <1>5, <1>6, <1>7, <1>8

\* A relogin fixes the class of a kill that is being paid; all else the ticker has to do stays.
LEMMA ReloginFacts ==
  ASSUME TypeOK, Relogin
  PROVE  /\ program["packet"] = <<>> /\ mem' = row /\ program'["packet"] = <<>>
         /\ program' \in [Tasks -> Seq(Steps)] /\ \A u \in Tasks : Shape(u, program'[u])
         /\ DOMAIN program'["ticker"] = DOMAIN program["ticker"]
         /\ \A i \in DOMAIN program["ticker"] :
              IF program["ticker"][i].do = "pick" THEN program'["ticker"][i].do = "gain"
              ELSE program'["ticker"][i] = program["ticker"][i]
         /\ spoiled' = spoiled \cup Cells(program["ticker"])
         /\ UNCHANGED <<row, seals, earned, spent, owed, cut, counters>>
<1> DEFINE p == program["ticker"]
           q == [i \in DOMAIN p |-> IF p[i].do = "pick" THEN Do("gain", mem.class, p[i].n) ELSE p[i]]
<1>0. Tasks = {"packet", "ticker"} /\ "packet" # "ticker"
  BY DEF Tasks
<1>1. /\ program["packet"] = <<>> /\ mem' = row /\ program' = [program EXCEPT !["ticker"] = q]
      /\ spoiled' = spoiled \cup Cells(program["ticker"])
      /\ UNCHANGED <<row, seals, earned, spent, owed, cut, counters>>
  BY DEF Relogin, Idle, Loaded
<1>2. p \in Seq(Steps) /\ Shape("ticker", p)
  BY <1>0 DEF TypeOK
<1>3. p = program["ticker"]
  OBVIOUS
<1> HIDE DEF p
<1>4. \A i \in DOMAIN p : q[i] = IF p[i].do = "pick" THEN Do("gain", mem.class, p[i].n) ELSE p[i]
  OBVIOUS
<1>5. DOMAIN q = DOMAIN p /\ Len(p) \in Nat /\ DOMAIN p = 1..Len(p) /\ \A i \in DOMAIN p : p[i] \in Steps
  BY <1>2
<1>6. \A i \in DOMAIN p : q[i] \in Steps
  BY <1>4, <1>5, StepShapes, StepTypes, MemFacts
<1>7. q \in Seq(Steps) /\ Len(q) = Len(p)
  BY <1>5, <1>6
<1> HIDE DEF q
<1>8. \A i \in DOMAIN p : IF p[i].do = "pick" THEN q[i].do = "gain" ELSE q[i] = p[i]
  <2>1. \A k, n : Do("gain", k, n).do = "gain"
    BY DEF Do
  <2> QED BY <1>4, <2>1
<1>9. Shape("ticker", q)
  <2> SUFFICES ASSUME NEW i \in DOMAIN q
               PROVE  /\ q[i].do \in {"award", "deposit", "class", "balance", "spend", "bump"} => i = 1
                      /\ q[i].do \in {"gain", "class", "balance", "spend", "bump", "pick", "readRank", "setClass"} => i = Len(q)
                      /\ q[i].do \notin {"class", "balance", "spend", "bump", "readRank", "memLevel", "setClass"}
                      /\ q[i].do = "save" /\ q[i].col = "sp" => i = 1
                      /\ q[i].do = "save" => q[i].col \notin {"gc", "rank"}
                      /\ q[i].do = "save" /\ q[i].col = "lv" /\ i > 1 => i = 2 /\ Saving(q[1], "sp", q[2].key)
    BY DEF Shape
  <2>1. i \in DOMAIN p /\ i \in Nat \ {0} /\ (i = 2 => 1 \in DOMAIN p)
    BY <1>5
  <2>2. CASE p[i].do = "pick"
    <3>1. q[i].do = "gain" /\ i = Len(p)
      BY <1>2, <1>8, <2>1, <2>2 DEF Shape
    <3> QED BY <1>7, <3>1
  <2>3. CASE p[i].do # "pick"
    <3>1. q[i] = p[i]
      BY <1>8, <2>1, <2>3
    <3>2. /\ p[i].do \in {"award", "deposit", "class", "balance", "spend", "bump"} => i = 1
          /\ p[i].do \in {"gain", "class", "balance", "spend", "bump", "pick", "readRank", "setClass"} => i = Len(p)
          /\ p[i].do \notin {"class", "balance", "spend", "bump", "readRank", "memLevel", "setClass"}
          /\ p[i].do = "save" /\ p[i].col = "sp" => i = 1
          /\ p[i].do = "save" => p[i].col \notin {"gc", "rank"}
          /\ p[i].do = "save" /\ p[i].col = "lv" /\ i > 1 => i = 2 /\ Saving(p[1], "sp", p[2].key)
      BY <1>0, <1>2, <2>1 DEF Shape
    <3>3. i = 2 /\ Saving(p[1], "sp", p[2].key) /\ q[2] = p[2] => Saving(q[1], "sp", q[2].key)
      <4>1. Saving(p[1], "sp", p[2].key) => p[1].do # "pick"
        BY DEF Saving
      <4> QED BY <1>8, <2>1, <4>1
    <3> QED BY <1>7, <3>1, <3>2, <3>3
  <2> QED BY <2>2, <2>3
<1>10. program'["ticker"] = q /\ program'["packet"] = <<>>
  BY <1>0, <1>1 DEF TypeOK
<1>11. program' \in [Tasks -> Seq(Steps)]
  BY <1>0, <1>1, <1>7 DEF TypeOK
<1>12. \A u \in Tasks : Shape(u, program'[u])
  <2>1. Shape("packet", <<>>)
    BY DEF Shape
  <2> QED BY <1>0, <1>9, <1>10, <2>1
<1> QED BY <1>1, <1>3, <1>5, <1>8, <1>10, <1>11, <1>12

\* The actions of the tables, of the session and of the process keep the types.
LEMMA TypeTables ==
  ASSUME TypeOK, (\E t \in Tasks : Save(t) \/ DbFails(t)) \/ Relogin \/ Crash
  PROVE  TypeOK'
<1>1. ASSUME NEW t \in Tasks, Save(t) PROVE TypeOK'
  <2>1. program[t] # <<>> /\ Step(t).do = "save" /\ Done(t) /\ row' = Written(Step(t)) /\ UNCHANGED <<mem, seals, history, counters>>
    BY <1>1 DEF Save, At, Idle, Step
  <2>2. row' \in Characters
    BY <2>1, HeadFacts, WrittenTypes
  <2>3. program' \in [Tasks -> Seq(Steps)] /\ \A u \in Tasks : Shape(u, program'[u])
    BY <2>1, DoneTypes
  <2> QED BY <2>1, <2>2, <2>3 DEF TypeOK, history, counters
<1>2. ASSUME NEW t \in Tasks, DbFails(t) PROVE TypeOK'
  <2>1. program[t] # <<>> /\ Done(t) /\ Fault /\ UNCHANGED <<mem, row, seals, earned, spent, owed, cut>>
    BY <1>2 DEF DbFails, At, Idle
  <2>2. program' \in [Tasks -> Seq(Steps)] /\ \A u \in Tasks : Shape(u, program'[u])
    BY <2>1, DoneTypes
  <2> QED BY <2>1, <2>2, CounterFacts, TypeOfProgram
<1>3. CASE Relogin
  <2>1. row \in Characters
    BY DEF TypeOK
  <2> QED BY <1>3, <2>1, ReloginFacts DEF TypeOK, counters
<1>4. CASE Crash
  <2>1. program' = [t \in Tasks |-> <<>>] /\ mem' = row /\ cut' \in BOOLEAN /\ Fault /\ UNCHANGED <<row, seals, earned, spent, owed>>
    BY <1>4 DEF Crash, Loaded
  <2>2. program' \in [Tasks -> Seq(Steps)]
    BY <2>1, EmptySeq
  <2>3. \A u \in Tasks : Shape(u, program'[u])
    BY <2>1 DEF Shape
  <2> QED BY <2>1, <2>2, <2>3, CounterFacts DEF TypeOK
<1> QED BY <1>1, <1>2, <1>3, <1>4

\* Every step keeps the types.
LEMMA TypeStep == TypeOK /\ [Next]_vars => TypeOK'
<1> SUFFICES ASSUME TypeOK, [Next]_vars PROVE TypeOK'
  OBVIOUS
<1>1. CASE UNCHANGED vars
  BY <1>1 DEF vars, history, counters, TypeOK
<1>2. CASE Next
  BY <1>2, TypeClass, TypeCompany, TypeTables DEF Next
<1> QED BY <1>1, <1>2

\* The variables keep their types: whatever the packet task and the ticker interleave, the handlers of
\* runtime/quest_apply.rs and runtime/dispatcher.rs leave only programs of the shape above.
THEOREM TypeCorrectness == Spec => []TypeOK
BY TypeInit, TypeStep, PTL DEF Spec

-----------------------------------------------------------------------------
(* Promotions are paid *)

\* A promotion about to take its seals finds them, since only the packet task takes any
\* (apply_promote_gc); seals taken and the cost of promotions made differ by the promotion whose rank is
\* still to be raised, unless the process ended there.
PaidInv ==
  /\ At("packet", "spend") => seals[Step("packet").key] >= Cost[Step("packet").n]
  /\ \A g \in GCs :
       LET due == IF At("packet", "bump") /\ Step("packet").key = g THEN Cost[Step("packet").n] ELSE 0
       IN owed[g] + due <= spent[g] /\ (cut \/ owed[g] + due = spent[g])

\* A promotion is between its balance and its rank.
Paying(t) == At(t, "spend") \/ At(t, "bump")

\* The steps of a promotion come first in their program.
LEMMA PayingFirst ==
  ASSUME TypeOK, NEW t \in Tasks
  PROVE  /\ program[t] # <<>> /\ program'[t] = Tail(program[t]) => ~Paying(t)'
         /\ program'[t] = <<>> => ~Paying(t)'
         /\ \A q : program'[t] = q /\ q \in Seq(Steps) /\ q # <<>> /\ q[1].do \notin {"spend", "bump"} => ~Paying(t)'
<1>1. \A q : program'[t] = q /\ q \in Seq(Steps) /\ q # <<>> => (Paying(t)' => q[1].do \in {"spend", "bump"})
  BY TailFacts DEF Paying, At, Idle
<1>2. ASSUME program[t] # <<>>, program'[t] = Tail(program[t]) PROVE ~Paying(t)'
  <2> DEFINE p == program[t]  q == Tail(p)
  <2>1. p \in Seq(Steps) /\ Shape(t, p)
    BY DEF TypeOK
  <2>2. q \in Seq(Steps) /\ \A i \in DOMAIN q : i + 1 \in DOMAIN p /\ q[i] = p[i + 1]
    BY <1>2, <2>1, TailFacts
  <2>3. CASE q = <<>>
    BY <1>2, <2>3 DEF Paying, At, Idle
  <2>4. CASE q # <<>>
    <3>1. 1 \in DOMAIN q
      BY <2>2, <2>4, TailFacts
    <3>2. 2 \in DOMAIN p /\ q[1] = p[2]
      BY <2>2, <3>1
    <3>3. p[2].do \notin {"spend", "bump"}
      BY <2>1, <3>2 DEF Shape
    <3> QED BY <1>1, <1>2, <2>2, <2>4, <3>2, <3>3
  <2> QED BY <2>3, <2>4
<1>3. program'[t] = <<>> => ~Paying(t)'
  BY DEF Paying, At, Idle
<1> QED BY <1>1, <1>2, <1>3

\* A step that pays nothing and promotes nobody.
LEMMA PaidStill ==
  ASSUME TypeOK, PaidInv, \A g \in GCs : seals'[g] \in Nat /\ seals'[g] >= seals[g], UNCHANGED <<spent, owed, cut>>,
         program'["packet"] = program["packet"] \/ (~At("packet", "bump") /\ ~Paying("packet")')
  PROVE  PaidInv'
<1>0. "packet" \in Tasks
  BY DEF Tasks
<1>1. CASE program'["packet"] = program["packet"]
  <2>1. /\ At("packet", "spend")' <=> At("packet", "spend")
        /\ At("packet", "bump")' <=> At("packet", "bump")
        /\ Step("packet")' = Step("packet")
    BY <1>1 DEF At, Idle, Step
  <2>2. ASSUME At("packet", "spend") PROVE seals'[Step("packet").key] >= Cost[Step("packet").n]
    <3>1. program["packet"] # <<>> /\ Step("packet").do = "spend"
      BY <2>2 DEF At, Idle, Step
    <3>2. Step("packet").key \in GCs /\ Step("packet").n \in DOMAIN Cost
      BY <1>0, <3>1, HeadFacts, StepShapes
    <3>3. seals[Step("packet").key] \in Nat /\ Cost[Step("packet").n] \in Nat
      BY <3>2, CostFacts DEF TypeOK
    <3> QED BY <2>2, <3>2, <3>3 DEF PaidInv
  <2> QED BY <2>1, <2>2 DEF PaidInv
<1>2. CASE ~At("packet", "bump") /\ ~Paying("packet")'
  <2>1. \A g \in GCs : owed[g] + 0 <= spent[g] /\ (cut \/ owed[g] + 0 = spent[g])
    BY <1>2 DEF PaidInv
  <2> QED BY <1>2, <2>1 DEF PaidInv, Paying
<1> QED BY <1>1, <1>2

\* PaidInv holds at first, and every action keeps it.
LEMMA PaidInit == Init => PaidInv
<1> SUFFICES ASSUME Init PROVE PaidInv
  OBVIOUS
<1>1. program["packet"] = <<>>
  BY DEF Init, Tasks
<1>2. \A g \in GCs : owed[g] = 0 /\ spent[g] = 0
  BY DEF Init
<1> QED BY <1>1, <1>2 DEF PaidInv, At, Idle

\* Every step keeps the accounts between seals and ranks.
LEMMA PaidNext ==
  ASSUME TypeOK, TypeOK', PaidInv, [Next]_vars
  PROVE  PaidInv'
<1>0. "packet" \in Tasks /\ "ticker" \in Tasks /\ Tasks = {"packet", "ticker"}
  BY DEF Tasks
<1> DEFINE Same == \A g \in GCs : seals'[g] \in Nat /\ seals'[g] >= seals[g]
<1>s. seals' = seals => Same
  BY DEF TypeOK
<1> HIDE DEF Same
<1>i. program["packet"] = <<>> => ~At("packet", "bump")
  BY DEF At, Idle
<1>h. ASSUME NEW t \in Tasks, program[t] # <<>>, Step(t).do # "bump" PROVE ~At(t, "bump")
  BY <1>h DEF At, Step
<1>n. ASSUME NEW t \in Tasks, NEW q, q \in Seq(Steps), q # <<>>, q[1].do \notin {"spend", "bump"}, program'[t] = q,
             \A u \in Tasks \ {t} : program'[u] = program[u], ~At(t, "bump")
      PROVE  program'["packet"] = program["packet"] \/ (~At("packet", "bump") /\ ~Paying("packet")')
  BY <1>0, <1>n, PayingFirst
<1>d. ASSUME NEW t \in Tasks, program[t] # <<>>, Done(t), Step(t).do # "bump"
      PROVE  program'["packet"] = program["packet"] \/ (~At("packet", "bump") /\ ~Paying("packet")')
  BY <1>0, <1>d, <1>h, DoneTypes, PayingFirst
<1>o. ASSUME NEW t \in Tasks, NEW s \in Steps, program[t] = <<>> \/ Len(program[t]) = 1, Then(t, <<s>>), ~At(t, "bump"),
             s.do \in {"award", "deposit", "gain", "pick"} \/ (s.do = "save" /\ s.col \in {"sp", "lv", "main", "rest"}) \/ t = "packet",
             s.do \notin {"spend", "bump"}
      PROVE  program'["packet"] = program["packet"] \/ (~At("packet", "bump") /\ ~Paying("packet")')
  <2>1. <<s>> \in Seq(Steps) /\ <<s>> # <<>> /\ <<s>>[1] = s /\ Shape(t, <<s>>)
    BY <1>o, OneStep
  <2>2. program'[t] = <<s>> /\ \A u \in Tasks \ {t} : program'[u] = program[u]
    BY <1>o, <2>1, ThenTypes
  <2> QED BY <1>n, <1>o, <2>1, <2>2
<1>g. ASSUME NEW t \in Tasks, NEW c \in Classes, NEW exp \in Gains, program[t] = <<>> \/ Len(program[t]) = 1, Gain(t, c, exp), ~At(t, "bump")
      PROVE  PaidInv'
  <2>1. /\ program'[t] \in Seq(Steps) /\ 1 \in DOMAIN program'[t] /\ program'[t][1] = SaveCol("sp", c, mem'.sp[c])
        /\ (\A u \in Tasks \ {t} : program'[u] = program[u]) /\ UNCHANGED <<seals, spent, owed, cut>>
    BY <1>g, GainFacts
  <2>2. program'[t] # <<>> /\ program'[t][1].do = "save"
    BY <2>1 DEF SaveCol
  <2>3. program'["packet"] = program["packet"] \/ (~At("packet", "bump") /\ ~Paying("packet")')
    BY <1>0, <1>g, <2>1, <2>2, PayingFirst
  <2> QED BY <1>s, <2>1, <2>3, PaidStill DEF Same
<1>1. ASSUME NEW t \in Tasks, NEW c \in Classes, NEW exp \in Gains, AddExp(t, c, exp) PROVE PaidInv'
  <2>1. program[t] = <<>> /\ Gain(t, c, exp)
    BY <1>1 DEF AddExp, Idle
  <2> QED BY <1>g, <2>1 DEF At, Idle
<1>2. ASSUME NEW t \in Tasks, NEW exp \in Gains, Kill(t, exp) PROVE PaidInv'
  <2>1. program[t] = <<>> /\ UNCHANGED <<mem, row, seals, history, faults>>
        /\ Then(t, (IF mem.gc \in GCs THEN <<Do("award", mem.gc, mem.rank[mem.gc])>> ELSE <<>>) \o <<Do("pick", None, exp)>>)
    BY <1>2 DEF Kill, Idle
  <2>2. PICK q : program'[t] = q /\ q \in Seq(Steps) /\ q # <<>> /\ q[1].do \notin {"spend", "bump"} /\ \A u \in Tasks \ {t} : program'[u] = program[u]
    <3> DEFINE a == Do("award", mem.gc, mem.rank[mem.gc])
               b == Do("pick", None, exp)
    <3>1. b \in Steps /\ b.do = "pick" /\ (mem.gc \in GCs => a \in Steps /\ a.do = "award")
      BY StepTypes, MemFacts DEF Do
    <3>2. Then(t, (IF mem.gc \in GCs THEN <<a>> ELSE <<>>) \o <<b>>)
      BY <2>1
    <3> HIDE DEF a, b
    <3>3. CASE mem.gc \in GCs
      <4>1. <<a>> \o <<b>> = <<a, b>> /\ <<a, b>> \in Seq(Steps) /\ <<a, b>>[1] = a /\ <<a, b>> # <<>>
        BY <3>1, <3>3, PairSeq
      <4>2. Then(t, <<a, b>>)
        BY <3>2, <3>3, <4>1
      <4> QED BY <2>1, <3>1, <3>3, <4>1, <4>2, NewProgram
    <3>4. CASE mem.gc \notin GCs
      <4>1. <<>> \o <<b>> = <<b>> /\ <<b>> \in Seq(Steps) /\ <<b>>[1] = b /\ <<b>> # <<>>
        BY <3>1, PairSeq
      <4>2. Then(t, <<b>>)
        BY <3>2, <3>4, <4>1
      <4> QED BY <2>1, <3>1, <4>1, <4>2, NewProgram
    <3> QED BY <3>3, <3>4
  <2>3. ~At(t, "bump")
    BY <2>1 DEF At, Idle
  <2> QED BY <1>n, <1>s, <2>1, <2>2, <2>3, PaidStill DEF Same, history
<1>3. ASSUME NEW c \in Classes, ClassChange(c) PROVE PaidInv'
  <2>1. program["packet"] = <<>> /\ Then("packet", <<Do("class", c, 0)>>) /\ UNCHANGED <<mem, row, seals, history, faults>>
    BY <1>3 DEF ClassChange, Idle
  <2>2. Do("class", c, 0) \in Steps /\ Do("class", c, 0).do = "class"
    BY StepTypes DEF Do
  <2> QED BY <1>0, <1>i, <1>o, <1>s, <2>1, <2>2, PaidStill DEF Same, history
<1>4. ASSUME NEW t \in Tasks, PickClass(t) PROVE PaidInv'
  <2>1. program[t] # <<>> /\ Step(t).do = "pick" /\ UNCHANGED <<mem, row, seals, history, counters>>
        /\ (Then(t, <<Do("gain", mem.class, Step(t).n)>>) \/ Done(t))
    BY <1>4 DEF PickClass, At, Idle, Step
  <2>2. Do("gain", mem.class, Step(t).n) \in Steps /\ Do("gain", mem.class, Step(t).n).do = "gain" /\ Len(program[t]) = 1
    BY <2>1, HeadFacts, StepShapes, StepTypes, MemFacts DEF Do
  <2>3. program'["packet"] = program["packet"] \/ (~At("packet", "bump") /\ ~Paying("packet")')
    BY <1>d, <1>h, <1>o, <2>1, <2>2
  <2> QED BY <1>s, <2>1, <2>3, PaidStill DEF Same, history
<1>5. ASSUME NEW t \in Tasks, KillExp(t) PROVE PaidInv'
  <2>1. program[t] # <<>> /\ Step(t).do = "gain" /\ Gain(t, Step(t).key, Step(t).n)
    BY <1>5 DEF KillExp, At, Idle, Step
  <2>2. Step(t).key \in Classes /\ Step(t).n \in Gains /\ Len(program[t]) = 1
    BY <2>1, HeadFacts, StepShapes
  <2> QED BY <1>g, <1>h, <2>1, <2>2
<1>6. ASSUME NEW t \in Tasks, SetClass(t) \/ MemLevel(t) PROVE PaidInv'
  <2>1. program[t] # <<>> /\ Step(t).do \in {"class", "setClass", "memLevel"} /\ Done(t) /\ UNCHANGED <<seals, spent, owed, cut>>
    BY <1>6 DEF SetClass, MemLevel, At, Idle, Step, history
  <2> QED BY <1>d, <1>s, <2>1, PaidStill DEF Same
<1>7. ASSUME NEW t \in Tasks, InitClass(t) PROVE PaidInv'
  <2> DEFINE c == Step(t).key
             x == SaveCol("lv", c, 1)
             y == Do("memLevel", c, 1)
             z == Do("setClass", c, 0)
  <2>1. program[t] # <<>> /\ Step(t).do = "class" /\ Then(t, <<x, y, z>>) /\ UNCHANGED <<mem, row, seals, earned, spent, owed, cut>>
    BY <1>7 DEF InitClass, At, Idle, Step
  <2>2. c \in Classes /\ Len(program[t]) = 1 /\ t = "packet" /\ 1 \in Levels
    BY <2>1, HeadFacts, StepShapes, LevelFacts DEF Levels
  <2>3. x \in Steps /\ y \in Steps /\ z \in Steps /\ x.do = "save"
    BY <2>2, StepTypes DEF SaveCol
  <2> HIDE DEF x, y, z
  <2>4. <<x, y, z>> \in Seq(Steps) /\ <<x, y, z>> # <<>> /\ <<x, y, z>>[1] = x
    BY <2>3
  <2>5. program'[t] = <<x, y, z>> /\ \A u \in Tasks \ {t} : program'[u] = program[u]
    BY <2>1, <2>2, <2>4, NewProgram
  <2> QED BY <1>h, <1>n, <1>s, <2>1, <2>3, <2>4, <2>5, PaidStill DEF Same
<1>8. ASSUME NEW g \in GCs, JoinGC(g) PROVE PaidInv'
  <2> DEFINE x == SaveCol("gc", None, g)  y == Do("readRank", g, 0)
  <2>1. program["packet"] = <<>> /\ Then("packet", <<x, y>>) /\ UNCHANGED <<row, seals, history, faults>>
    BY <1>8 DEF JoinGC, Idle
  <2>2. x \in Steps /\ y \in Steps /\ x.do = "save"
    BY StepTypes DEF SaveCol
  <2> HIDE DEF x, y
  <2>3. <<x, y>> \in Seq(Steps) /\ <<x, y>> # <<>> /\ <<x, y>>[1] = x
    BY <2>2
  <2>4. program'["packet"] = <<x, y>> /\ \A u \in Tasks \ {"packet"} : program'[u] = program[u]
    BY <1>0, <2>1, <2>3, NewProgram
  <2> QED BY <1>0, <1>i, <1>n, <1>s, <2>1, <2>2, <2>3, <2>4, PaidStill DEF Same, history
<1>9. ASSUME NEW g \in GCs, PromoteGC(g) PROVE PaidInv'
  <2>1. program["packet"] = <<>> /\ Then("packet", <<Do("balance", g, mem.rank[g])>>) /\ UNCHANGED <<mem, row, seals, history, faults>>
        /\ mem.rank[g] \in DOMAIN Cost
    BY <1>9 DEF PromoteGC, Idle
  <2>2. Do("balance", g, mem.rank[g]) \in Steps /\ Do("balance", g, mem.rank[g]).do = "balance"
    BY <2>1, StepTypes DEF Do
  <2> QED BY <1>0, <1>i, <1>o, <1>s, <2>1, <2>2, PaidStill DEF Same, history
<1>10. ASSUME NEW g \in GCs, NEW r \in 1..TopRank, SetGCRank(g, r) PROVE PaidInv'
  <2>1. program["packet"] = <<>> /\ Then("packet", <<SaveCol("rank", g, r)>>) /\ UNCHANGED <<row, seals, history, faults>>
    BY <1>10 DEF SetGCRank, Idle
  <2>2. SaveCol("rank", g, r) \in Steps /\ SaveCol("rank", g, r).do = "save"
    BY StepTypes, CostFacts DEF SaveCol
  <2> QED BY <1>0, <1>i, <1>o, <1>s, <2>1, <2>2, PaidStill DEF Same, history
<1>11. ASSUME NEW t \in Tasks, NEW g \in GCs, AddSeals(t, g) PROVE PaidInv'
  <2>1. program[t] = <<>> /\ Then(t, <<Do("deposit", g, Reward)>>) /\ UNCHANGED <<mem, row, seals, history, faults>>
    BY <1>11 DEF AddSeals, Idle
  <2>2. Do("deposit", g, Reward) \in Steps /\ Do("deposit", g, Reward).do = "deposit"
    BY StepTypes, AdvancementAssumption DEF Do
  <2>3. ~At(t, "bump")
    BY <2>1 DEF At, Idle
  <2> QED BY <1>o, <1>s, <2>1, <2>2, <2>3, PaidStill DEF Same, history
<1>12. ASSUME NEW t \in Tasks, ReadRank(t) PROVE PaidInv'
  <2>1. program[t] # <<>> /\ Step(t).do = "readRank" /\ Then(t, <<SaveCol("rank", Step(t).key, mem.rank[Step(t).key])>>)
        /\ UNCHANGED <<mem, row, seals, history, counters>>
    BY <1>12 DEF ReadRank, At, Idle, Step
  <2>2. Step(t).key \in GCs /\ Len(program[t]) = 1 /\ t = "packet"
    BY <2>1, HeadFacts, StepShapes
  <2>3. SaveCol("rank", Step(t).key, mem.rank[Step(t).key]) \in Steps /\ SaveCol("rank", Step(t).key, mem.rank[Step(t).key]).do = "save"
    BY <2>2, StepTypes, MemFacts DEF SaveCol
  <2> QED BY <1>h, <1>o, <1>s, <2>1, <2>2, <2>3, PaidStill DEF Same, history
<1>13. ASSUME NEW t \in Tasks, Award(t) PROVE PaidInv'
  <2> DEFINE g == Step(t).key
             cap == IF Step(t).n \in 1 .. TopRank THEN Cap[Step(t).n] ELSE 0
  <2>1. program[t] # <<>> /\ Step(t).do = "award" /\ UNCHANGED <<mem, row, seals, history, counters>>
    BY <1>13 DEF Award, At, Idle, Step
  <2>2. PICK balance \in {seals[g], 0} : IF balance >= cap THEN Done(t) ELSE Then(t, <<Do("deposit", g, Min({Reward, cap - balance}))>>)
    BY <1>13 DEF Award
  <2>3. program'["packet"] = program["packet"] \/ (~At("packet", "bump") /\ ~Paying("packet")')
    <3>1. CASE balance >= cap
      BY <1>d, <2>1, <2>2, <3>1
    <3>2. CASE ~(balance >= cap)
      <4>1. PICK s : s = Do("deposit", g, Min({Reward, cap - balance}))
        OBVIOUS
      <4>2. Then(t, <<s>>) /\ s.do = "deposit"
        BY <2>2, <3>2, <4>1 DEF Do
      <4>3. program[t] \in Seq(Steps) /\ Tail(program[t]) \in Seq(Steps)
        BY <2>1, TailFacts DEF TypeOK
      <4>4. program' = [program EXCEPT ![t] = <<s>> \o Tail(program[t])]
        BY <2>1, <4>2 DEF Then
      <4>5. program'[t] = <<s>> \o Tail(program[t]) /\ (\A u \in Tasks \ {t} : program'[u] = program[u])
        BY <4>4 DEF TypeOK
      <4>6. program'[t] \in Seq(Steps)
        BY DEF TypeOK
      <4>7. program'[t][1] = s /\ program'[t] # <<>>
        <5>1. Tail(program[t]) \in Seq(Steps \cup {s})
          BY <4>3
        <5>2. (<<s>> \o Tail(program[t]))[1] = s /\ Len(<<s>> \o Tail(program[t])) = 1 + Len(Tail(program[t])) /\ Len(Tail(program[t])) \in Nat
          BY <5>1, ConsFacts
        <5> QED BY <4>5, <5>2
      <4> QED BY <1>h, <1>n, <2>1, <4>2, <4>5, <4>6, <4>7
    <3> QED BY <3>1, <3>2
  <2> QED BY <1>s, <2>1, <2>3, PaidStill DEF Same, history
<1>14. ASSUME NEW t \in Tasks, Deposit(t) PROVE PaidInv'
  <2>1. program[t] # <<>> /\ Step(t).do = "deposit" /\ Done(t) /\ UNCHANGED <<mem, row, history, counters>>
        /\ seals' = [seals EXCEPT ![Step(t).key] = @ + Step(t).n]
    BY <1>14 DEF Deposit, At, Idle, Step
  <2>2. Step(t).key \in GCs /\ Step(t).n \in Nat
    BY <2>1, HeadFacts, StepShapes
  <2>3. Same
    BY <2>1, <2>2, SMTT(30) DEF TypeOK, Same
  <2> QED BY <1>d, <2>1, <2>3, PaidStill DEF Same, history
<1>15. ASSUME NEW t \in Tasks, Balance(t) PROVE PaidInv'
  <2>1. program[t] # <<>> /\ Step(t).do = "balance" /\ UNCHANGED <<mem, row, seals, history, counters>>
        /\ IF Affords(Step(t).key, Step(t).n) THEN Then(t, <<Do("spend", Step(t).key, Step(t).n)>>) ELSE Done(t)
    BY <1>15 DEF Balance, At, Idle, Step
  <2>2. Step(t).key \in GCs /\ Step(t).n \in DOMAIN Cost /\ Len(program[t]) = 1 /\ t = "packet"
    BY <2>1, HeadFacts, StepShapes
  <2>3. CASE Affords(Step(t).key, Step(t).n)
    <3>1. PICK s : s = Do("spend", Step(t).key, Step(t).n)
      OBVIOUS
    <3>2. s \in Steps /\ s.do = "spend" /\ s.key = Step(t).key /\ s.n = Step(t).n
      BY <2>2, <3>1, StepTypes DEF Do
    <3>3. <<s>> \in Seq(Steps) /\ Shape(t, <<s>>)
      BY <2>2, <3>2, OneStep
    <3>4. program'["packet"] = <<s>>
      BY <2>1, <2>2, <2>3, <3>1, <3>3, ThenTypes
    <3>5. Step("packet")' = s /\ ~At("packet", "bump")'
      BY <3>2, <3>4 DEF Step, At, Idle
    <3>6. ~At("packet", "bump")
      BY <1>h, <2>1, <2>2
    <3>7. seals'[s.key] >= Cost[s.n]
      BY <2>1, <2>3, <3>2 DEF Affords
    <3>8. \A g \in GCs : owed[g] + 0 <= spent[g] /\ (cut \/ owed[g] + 0 = spent[g])
      BY <3>6 DEF PaidInv
    <3>9. UNCHANGED <<owed, spent, cut>>
      BY <2>1 DEF history
    <3> QED BY <3>5, <3>7, <3>8, <3>9 DEF PaidInv
  <2>4. CASE ~Affords(Step(t).key, Step(t).n)
    BY <1>d, <1>s, <2>1, <2>4, PaidStill DEF Same, history
  <2> QED BY <2>3, <2>4
<1>16. ASSUME NEW t \in Tasks, Spend(t) PROVE PaidInv'
  <2>1. program[t] # <<>> /\ Step(t).do = "spend"
    BY <1>16 DEF Spend, At, Idle, Step
  <2>2. Step(t).key \in GCs /\ Step(t).n \in DOMAIN Cost /\ Len(program[t]) = 1 /\ t = "packet"
    BY <2>1, HeadFacts, StepShapes
  <2>3. PICK g \in GCs, n \in DOMAIN Cost : g = Step(t).key /\ n = Step(t).n
    BY <2>2
  <2>4. Cost[n] \in Nat /\ seals[g] \in Nat /\ seals[g] >= Cost[n]
    <3>1. At("packet", "spend")
      BY <2>1, <2>2 DEF At, Idle, Step
    <3> QED BY <2>2, <2>3, <3>1, CostFacts DEF PaidInv, TypeOK
  <2>5. Min({seals[g], Cost[n]}) = Cost[n]
    BY <2>4, MinOfTwo
  <2>6. Then(t, <<Do("bump", g, n)>>) /\ spent' = [spent EXCEPT ![g] = @ + Cost[n]] /\ UNCHANGED <<mem, row, earned, owed, spoiled, cut, counters>>
    BY <1>16, <2>3, <2>5 DEF Spend
  <2>7. PICK s : s = Do("bump", g, n)
    OBVIOUS
  <2>8. s \in Steps /\ s.do = "bump" /\ s.key = g /\ s.n = n
    BY <2>7, StepTypes DEF Do
  <2>9. <<s>> \in Seq(Steps) /\ Shape(t, <<s>>)
    BY <2>2, <2>8, OneStep
  <2>10. program'["packet"] = <<s>>
    BY <2>2, <2>6, <2>7, <2>9, ThenTypes
  <2>11. Step("packet")' = s /\ At("packet", "bump")' /\ ~At("packet", "spend")'
    BY <2>8, <2>10 DEF Step, At, Idle
  <2>12. \A h \in GCs : owed[h] + 0 <= spent[h] /\ (cut \/ owed[h] + 0 = spent[h])
    <3>1. ~At("packet", "bump")
      BY <1>h, <2>1, <2>2
    <3> QED BY <3>1 DEF PaidInv
  <2>13. ASSUME NEW h \in GCs PROVE LET due == IF h = g THEN Cost[n] ELSE 0 IN owed'[h] + due <= spent'[h] /\ (cut' \/ owed'[h] + due = spent'[h])
    <3>1. owed[h] \in Nat /\ spent[h] \in Nat
      BY DEF TypeOK
    <3>2. spent'[h] = IF h = g THEN spent[h] + Cost[n] ELSE spent[h]
      BY <2>6 DEF TypeOK
    <3> QED BY <2>4, <2>6, <2>12, <3>1, <3>2
  <2> QED BY <2>8, <2>11, <2>13 DEF PaidInv
<1>17. ASSUME NEW t \in Tasks, Bump(t) PROVE PaidInv'
  <2>1. program[t] # <<>> /\ Step(t).do = "bump"
    BY <1>17 DEF Bump, At, Idle, Step
  <2>2. Step(t).key \in GCs /\ Step(t).n \in DOMAIN Cost /\ Len(program[t]) = 1 /\ t = "packet"
    BY <2>1, HeadFacts, StepShapes
  <2>3. PICK g \in GCs, n \in DOMAIN Cost : g = Step(t).key /\ n = Step(t).n
    BY <2>2
  <2>4. Cost[n] \in Nat /\ n + 1 \in 0..TopRank
    BY CostFacts
  <2>5. Then(t, <<SaveCol("rank", g, n + 1)>>) /\ owed' = [owed EXCEPT ![g] = @ + Cost[n]] /\ UNCHANGED <<spent, cut>>
    BY <1>17, <2>3 DEF Bump
  <2>6. SaveCol("rank", g, n + 1) \in Steps /\ SaveCol("rank", g, n + 1).do = "save"
    BY <2>4, StepTypes DEF SaveCol
  <2>7. PICK s : s = SaveCol("rank", g, n + 1)
    OBVIOUS
  <2>8. <<s>> \in Seq(Steps) /\ Shape(t, <<s>>) /\ s.do = "save"
    BY <2>2, <2>6, <2>7, OneStep
  <2>9. program'["packet"] = <<s>>
    BY <2>2, <2>5, <2>7, <2>8, ThenTypes
  <2>12. ~At("packet", "bump")' /\ ~At("packet", "spend")'
    BY <2>8, <2>9 DEF Step, At, Idle
  <2>10. At("packet", "bump") /\ Step("packet").key = g /\ Step("packet").n = n
    BY <2>1, <2>2, <2>3 DEF At, Step, Idle
  <2>11. ASSUME NEW h \in GCs PROVE owed'[h] + 0 <= spent'[h] /\ (cut' \/ owed'[h] + 0 = spent'[h])
    <3>1. owed[h] \in Nat /\ spent[h] \in Nat
      BY DEF TypeOK
    <3>2. owed'[h] = owed[h] + (IF g = h THEN Cost[n] ELSE 0)
      BY <2>4, <2>5, <3>1, SMTT(30) DEF TypeOK
    <3>3. LET due == IF g = h THEN Cost[n] ELSE 0 IN owed[h] + due <= spent[h] /\ (cut \/ owed[h] + due = spent[h])
      BY <2>10 DEF PaidInv
    <3> QED BY <2>4, <2>5, <3>1, <3>2, <3>3
  <2> QED BY <2>11, <2>12 DEF PaidInv
<1>18. ASSUME NEW t \in Tasks, Save(t) PROVE PaidInv'
  <2>1. program[t] # <<>> /\ Step(t).do = "save" /\ Done(t) /\ UNCHANGED <<mem, seals, history, counters>>
    BY <1>18 DEF Save, At, Idle, Step
  <2> QED BY <1>d, <1>s, <2>1, PaidStill DEF Same, history
<1>19. ASSUME NEW t \in Tasks, DbFails(t) PROVE PaidInv'
  <2>1. program[t] # <<>> /\ Step(t).do \in {"save", "deposit", "spend", "class"} /\ Done(t) /\ UNCHANGED <<mem, row, seals, earned, spent, owed, cut>>
    BY <1>19 DEF DbFails, At, Idle, Step
  <2> QED BY <1>d, <1>s, <2>1, PaidStill DEF Same
<1>20. CASE Relogin
  <2>1. program["packet"] = <<>> /\ program'["packet"] = <<>> /\ UNCHANGED <<row, seals, earned, spent, owed, cut, counters>>
    BY <1>20, ReloginFacts
  <2>2. seals' = seals /\ program'["packet"] = program["packet"]
    BY <2>1
  <2> QED BY <1>s, <2>1, <2>2, PaidStill DEF Same
<1>21. CASE Crash
  <2>1. program'["packet"] = <<>> /\ cut' = (cut \/ \E t \in Tasks : At(t, "bump")) /\ UNCHANGED <<seals, spent, owed>>
    BY <1>0, <1>21 DEF Crash
  <2>2. ~Paying("packet")'
    BY <1>0, <2>1, PayingFirst
  <2>3. ASSUME NEW h \in GCs PROVE owed[h] + 0 <= spent[h] /\ (cut' \/ owed[h] + 0 = spent[h])
    <3>1. owed[h] \in Nat /\ spent[h] \in Nat
      BY DEF TypeOK
    <3>2. CASE ~At("packet", "bump")
      <4>1. owed[h] + 0 <= spent[h] /\ (cut \/ owed[h] + 0 = spent[h])
        BY <3>2 DEF PaidInv
      <4> QED BY <2>1, <4>1
    <3>3. CASE At("packet", "bump")
      <4>1. Step("packet").n \in DOMAIN Cost
        <5>1. program["packet"] # <<>> /\ Step("packet").do = "bump"
          BY <3>3 DEF At, Idle, Step
        <5> QED BY <1>0, <5>1, HeadFacts, StepShapes
      <4>2. Cost[Step("packet").n] \in Nat
        BY <4>1, CostFacts
      <4>3. owed[h] <= spent[h]
        BY <3>1, <4>2 DEF PaidInv
      <4>4. cut' = TRUE
        BY <1>0, <2>1, <3>3
      <4> QED BY <3>1, <4>3, <4>4
    <3> QED BY <3>2, <3>3
  <2> QED BY <2>1, <2>2, <2>3 DEF PaidInv, Paying
<1>22. CASE RestAtInn
  BY <1>22, <1>s, PaidStill DEF RestAtInn, Same, history
<1>23. CASE UNCHANGED vars
  BY <1>23, <1>s, PaidStill DEF vars, Same, history
<1>24. CASE Next
  BY <1>24, <1>1, <1>2, <1>3, <1>4, <1>5, <1>6, <1>7, <1>8, <1>9, <1>10, <1>11, <1>12, <1>13, <1>14, <1>15, <1>16, <1>17, <1>18, <1>19, <1>20, <1>21, <1>22 DEF Next
<1> QED BY <1>23, <1>24

\* The invariant of the proof holds of every behaviour.
LEMMA PaidInductive == Spec => [](TypeOK /\ PaidInv)
<1>1. Init => TypeOK /\ PaidInv
  BY TypeInit, PaidInit
<1>2. (TypeOK /\ PaidInv) /\ [Next]_vars => (TypeOK /\ PaidInv)'
  BY TypeStep, PaidNext
<1> QED BY <1>1, <1>2, PTL DEF Spec

\* For any companies, ranks, costs and rewards: no rank is had for fewer seals than apply_promote_gc asks,
\* and none are taken for nothing unless the process ended between the payment and the rank.
THEOREM PromotionIsPaidHolds == Spec => []PromotionIsPaid
<1>1. TypeOK /\ PaidInv => PromotionIsPaid
  <2> SUFFICES ASSUME TypeOK, PaidInv, NEW g \in GCs
               PROVE  owed[g] <= spent[g] /\ (Quiet /\ ~cut => owed[g] = spent[g])
    BY DEF PromotionIsPaid
  <2>1. owed[g] \in Nat /\ spent[g] \in Nat
    BY DEF TypeOK
  <2>2. CASE ~At("packet", "bump")
    <3>1. owed[g] + 0 <= spent[g] /\ (cut \/ owed[g] + 0 = spent[g])
      BY <2>2 DEF PaidInv
    <3> QED BY <2>1, <3>1
  <2>3. CASE At("packet", "bump")
    <3>1. "packet" \in Tasks /\ program["packet"] # <<>> /\ Step("packet").do = "bump"
      BY <2>3 DEF Tasks, At, Idle, Step
    <3>2. Step("packet").n \in DOMAIN Cost
      BY <3>1, HeadFacts, StepShapes
    <3>3. Cost[Step("packet").n] \in Nat
      BY <3>2, CostFacts
    <3>4. owed[g] <= spent[g]
      BY <2>1, <3>3 DEF PaidInv
    <3> QED BY <3>1, <3>4 DEF Quiet, Idle
  <2> QED BY <2>2, <2>3
<1> QED BY <1>1, PaidInductive, PTL

-----------------------------------------------------------------------------
(* What is still to be written *)

\* The steps that matter to the mirrored columns: their writes, a rank to be read again before it is
\* saved, and a live level to be reset after it was.  A program's notable steps, and those each task has
\* left.
Notes(s) == s.do \in {"memLevel", "readRank"} \/ (s.do = "save" /\ s.col \in Mirrored)
Notable(p) == {s \in {p[i] : i \in DOMAIN p} : Notes(s)}
Due == [t \in Tasks |-> Notable(program[t])]

\* What is left of the notable steps when the first step is done.
LEMMA NotableTail ==
  ASSUME NEW t, NEW p \in Seq(Steps), p # <<>>, Shape(t, p)
  PROVE  /\ Notable(p) \subseteq Steps /\ Notable(Tail(p)) \subseteq Steps
         /\ Notes(p[1]) => Notable(p) = Notable(Tail(p)) \cup {p[1]}
         /\ ~Notes(p[1]) => Notable(p) = Notable(Tail(p))
         /\ \A s \in Notable(Tail(p)) :
              /\ s.do = "save" => s.col = "lv" /\ Saving(p[1], "sp", s.key)
              /\ s.do = "memLevel" => p[1] = SaveCol("lv", s.key, 1) /\ t = "packet"
<1> DEFINE q == Tail(p)
<1>1. /\ q \in Seq(Steps) /\ 1 \in DOMAIN p
      /\ \A i \in DOMAIN q : i \in Nat \ {0} /\ i + 1 \in DOMAIN p /\ q[i] = p[i + 1]
      /\ \A i \in DOMAIN p : i # 1 => i - 1 \in DOMAIN q /\ q[i - 1] = p[i]
  BY TailFacts
<1> HIDE DEF q
<1>2. (\A i \in DOMAIN p : p[i] \in Steps) /\ \A i \in DOMAIN q : q[i] \in Steps
  BY <1>1
<1>3. {p[i] : i \in DOMAIN p} = {q[i] : i \in DOMAIN q} \cup {p[1]}
  <2>1. ASSUME NEW i \in DOMAIN p PROVE p[i] \in {q[j] : j \in DOMAIN q} \cup {p[1]}
    <3>1. CASE i # 1
      BY <1>1, <3>1
    <3>2. CASE i = 1
      BY <3>2
    <3> QED BY <3>1, <3>2
  <2>2. ASSUME NEW j \in DOMAIN q PROVE q[j] \in {p[i] : i \in DOMAIN p}
    BY <1>1
  <2> QED BY <1>1, <2>1, <2>2
<1>4. ASSUME NEW s \in Notable(q)
      PROVE  /\ s.do = "save" => s.col = "lv" /\ Saving(p[1], "sp", s.key)
             /\ s.do = "memLevel" => p[1] = SaveCol("lv", s.key, 1) /\ t = "packet"
  <2>1. PICK j \in DOMAIN q : s = q[j]
    BY DEF Notable
  <2>2. PICK i \in DOMAIN p : i = j + 1 /\ i > 1 /\ s = p[i] /\ Notes(p[i])
    BY <1>1, <2>1 DEF Notable
  <2>3. s.do = "save" => s.col = "lv"
    BY <2>2 DEF Shape, Notes, Mirrored
  <2>4. s.do = "save" => i = 2 /\ Saving(p[1], "sp", p[2].key)
    BY <2>2, <2>3 DEF Shape
  <2>5. s.do = "memLevel" => i = 2 /\ p[1] = SaveCol("lv", p[2].key, 1) /\ t = "packet"
    BY <2>2 DEF Shape
  <2> QED BY <2>2, <2>3, <2>4, <2>5
<1> QED BY <1>2, <1>3, <1>4 DEF Notable, q

\* The notable steps of a program written out.
LEMMA NotableOne ==
  /\ Notable(<<>>) = {}
  /\ \A s : Notable(<<s>>) = IF Notes(s) THEN {s} ELSE {}
  /\ \A a, b : Notable(<<a, b>>) = {s \in {a, b} : Notes(s)}
  /\ \A a, b, c : Notable(<<a, b, c>>) = {s \in {a, b, c} : Notes(s)}
<1>1. DOMAIN <<>> = {} /\ (\A s : DOMAIN <<s>> = {1} /\ <<s>>[1] = s)
  OBVIOUS
<1>2. \A a, b : DOMAIN <<a, b>> = {1, 2} /\ <<a, b>>[1] = a /\ <<a, b>>[2] = b
  OBVIOUS
<1>3. \A a, b, c : DOMAIN <<a, b, c>> = {1, 2, 3} /\ <<a, b, c>>[1] = a /\ <<a, b, c>>[2] = b /\ <<a, b, c>>[3] = c
  OBVIOUS
<1>4. Notable(<<>>) = {}
  BY <1>1 DEF Notable
<1>5. ASSUME NEW s PROVE Notable(<<s>>) = IF Notes(s) THEN {s} ELSE {}
  BY <1>1 DEF Notable
<1>6. ASSUME NEW a, NEW b PROVE Notable(<<a, b>>) = {s \in {a, b} : Notes(s)}
  <2>1. {<<a, b>>[i] : i \in DOMAIN <<a, b>>} = {a, b}
    BY <1>2
  <2> QED BY <2>1 DEF Notable
<1>7. ASSUME NEW a, NEW b, NEW c PROVE Notable(<<a, b, c>>) = {s \in {a, b, c} : Notes(s)}
  <2>1. {<<a, b, c>>[i] : i \in DOMAIN <<a, b, c>>} = {a, b, c}
    BY <1>3
  <2> QED BY <2>1 DEF Notable
<1> QED BY <1>4, <1>5, <1>6, <1>7

\* Cells and Crossed of Advancement, in terms of notable steps.
LEMMA CellsAre ==
  ASSUME NEW p, NEW col, NEW key
  PROVE  <<col, key>> \in Cells(p) <=> col \in Mirrored /\ \E s \in Notable(p) : Saving(s, col, key)
<1> DEFINE P == {p[i] : i \in DOMAIN p}
<1>1. Cells(p) = {<<s.col, s.key>> : s \in {x \in P : x.do = "save" /\ x.col \in Mirrored}}
  BY DEF Cells
<1>2. Notable(p) = {s \in P : Notes(s)}
  BY DEF Notable
<1> HIDE DEF P
<1>3. ASSUME <<col, key>> \in Cells(p) PROVE col \in Mirrored /\ \E s \in Notable(p) : Saving(s, col, key)
  <2>1. PICK s \in P : s.do = "save" /\ s.col \in Mirrored /\ <<col, key>> = <<s.col, s.key>>
    BY <1>1, <1>3
  <2>2. s.col = col /\ s.key = key
    BY <2>1
  <2> QED BY <1>2, <2>1, <2>2 DEF Notes, Saving
<1>4. ASSUME col \in Mirrored, NEW s \in Notable(p), Saving(s, col, key) PROVE <<col, key>> \in Cells(p)
  BY <1>1, <1>2, <1>4 DEF Saving
<1> QED BY <1>3, <1>4

\* The notable steps of a task that has nothing, or one step, to do.
LEMMA DueTypes ==
  ASSUME TypeOK
  PROVE  /\ Due \in [Tasks -> SUBSET Steps] /\ \A t \in Tasks : Due[t] = Notable(program[t])
         /\ \A t \in Tasks : program[t] = <<>> => Due[t] = {}
         /\ \A t \in Tasks : Len(program[t]) = 1 => Due[t] = IF Notes(Step(t)) THEN {Step(t)} ELSE {}
<1>1. \A t \in Tasks : program[t] \in Seq(Steps)
  BY DEF TypeOK
<1>2. \A t \in Tasks : Notable(program[t]) \in SUBSET Steps
  BY <1>1 DEF Notable
<1>3. ASSUME NEW t \in Tasks, Len(program[t]) = 1 PROVE Notable(program[t]) = IF Notes(Step(t)) THEN {Step(t)} ELSE {}
  <2>1. program[t] # <<>>
    BY <1>3
  <2>2. DOMAIN program[t] = 1..1 /\ Head(program[t]) = program[t][1]
    BY <1>1, <1>3, <2>1, TailFacts
  <2>3. {program[t][i] : i \in DOMAIN program[t]} = {program[t][1]}
    BY <2>2
  <2> QED BY <2>2, <2>3 DEF Notable, Step
<1> QED BY <1>2, <1>3, NotableOne DEF Due

\* A cell is crossed when another task has a write of it left.
LEMMA CrossedAre ==
  ASSUME TypeOK, NEW t \in Tasks, NEW q, NEW col, NEW key
  PROVE  <<col, key>> \in Crossed(t, q) <=>
           /\ col \in Mirrored
           /\ \E s \in Notable(q) : Saving(s, col, key)
           /\ \E u \in Tasks \ {t} : \E s \in Due[u] : Saving(s, col, key)
<1>1. <<col, key>> \in Crossed(t, q) <=> <<col, key>> \in Cells(q) /\ \E u \in Tasks \ {t} : <<col, key>> \in Cells(program[u])
  <2> DEFINE x == <<col, key>>  U == {Cells(program[u]) : u \in Tasks \ {t}}
  <2>1. Crossed(t, q) = Cells(q) \cap UNION U
    BY DEF Crossed
  <2>2. x \in UNION U <=> \E u \in Tasks \ {t} : x \in Cells(program[u])
    OBVIOUS
  <2> HIDE DEF x, U
  <2> QED BY <2>1, <2>2 DEF x
<1>2. \A u \in Tasks : <<col, key>> \in Cells(program[u]) <=> col \in Mirrored /\ \E s \in Due[u] : Saving(s, col, key)
  BY CellsAre, DueTypes
<1>3. <<col, key>> \in Cells(q) <=> col \in Mirrored /\ \E s \in Notable(q) : Saving(s, col, key)
  BY CellsAre
<1> QED BY <1>1, <1>2, <1>3

\* How the two ways a program changes change the notable steps.
LEMMA DueDone ==
  ASSUME TypeOK, NEW t \in Tasks, program[t] # <<>>, Done(t)
  PROVE  /\ Due' \in [Tasks -> SUBSET Steps] /\ \A u \in Tasks \ {t} : Due'[u] = Due[u]
         /\ ~Notes(Step(t)) => Due' = Due
         /\ Notes(Step(t)) => Due[t] = Due'[t] \cup {Step(t)}
         /\ \A s \in Due'[t] :
              Notes(Step(t)) =>
                /\ s.do = "save" => s.col = "lv" /\ Saving(Step(t), "sp", s.key)
                /\ s.do = "memLevel" => Step(t) = SaveCol("lv", s.key, 1) /\ t = "packet"
<1>1. /\ program'[t] = Tail(program[t]) /\ (\A u \in Tasks \ {t} : program'[u] = program[u])
      /\ program' \in [Tasks -> Seq(Steps)]
  BY DoneTypes
<1>2. Due' = [u \in Tasks |-> Notable(program'[u])]
  BY DEF Due
<1>3. Due \in [Tasks -> SUBSET Steps] /\ \A u \in Tasks : Due[u] = Notable(program[u])
  BY DueTypes
<1>4. program[t] \in Seq(Steps) /\ Shape(t, program[t]) /\ Step(t) = program[t][1]
  BY HeadFacts DEF TypeOK
<1>5. Due'[t] = Notable(Tail(program[t])) /\ (\A u \in Tasks \ {t} : Due'[u] = Due[u])
  BY <1>1, <1>2, <1>3
<1>6. Due' \in [Tasks -> SUBSET Steps]
  <2>1. \A u \in Tasks : Notable(program'[u]) \in SUBSET Steps
    BY <1>1 DEF Notable
  <2> QED BY <1>2, <2>1
<1>7. /\ Notes(Step(t)) => Due[t] = Due'[t] \cup {Step(t)}
      /\ ~Notes(Step(t)) => Due[t] = Due'[t]
      /\ \A s \in Due'[t] :
              /\ s.do = "save" => s.col = "lv" /\ Saving(Step(t), "sp", s.key)
              /\ s.do = "memLevel" => Step(t) = SaveCol("lv", s.key, 1) /\ t = "packet"
  BY <1>3, <1>4, <1>5, NotableTail
<1>8. ~Notes(Step(t)) => Due' = Due
  BY <1>3, <1>5, <1>6, <1>7
<1> QED BY <1>5, <1>6, <1>7, <1>8

\* A handler that replaces its step by others has exactly their writes to do.
LEMMA DueThen ==
  ASSUME TypeOK, NEW t \in Tasks, program[t] = <<>> \/ Len(program[t]) = 1, NEW q \in Seq(Steps), Then(t, q)
  PROVE  /\ Due' \in [Tasks -> SUBSET Steps] /\ \A u \in Tasks \ {t} : Due'[u] = Due[u]
         /\ Due'[t] = Notable(q) /\ Due' = [Due EXCEPT ![t] = Notable(q)]
         /\ Due[t] = {} /\ Notable(q) = {} => Due' = Due
<1>1. program'[t] = q /\ \A u \in Tasks \ {t} : program'[u] = program[u]
  BY NewProgram
<1>2. Due' = [u \in Tasks |-> Notable(program'[u])]
  BY DEF Due
<1>3. Due \in [Tasks -> SUBSET Steps] /\ \A u \in Tasks : Due[u] = Notable(program[u])
  BY DueTypes
<1>4. Due'[t] = Notable(q) /\ \A u \in Tasks \ {t} : Due'[u] = Due[u]
  BY <1>1, <1>2, <1>3
<1>5. Due' = [Due EXCEPT ![t] = Notable(q)]
  BY <1>2, <1>3, <1>4
<1>6. Notable(q) \in SUBSET Steps
  BY DEF Notable
<1> QED BY <1>3, <1>4, <1>5, <1>6

\* Which of the steps the handlers build are notable.
LEMMA NotesOf ==
  /\ \A w \in {"class", "setClass", "pick", "gain", "award", "deposit", "balance", "spend", "bump"} : \A k, n : ~Notes(Do(w, k, n))
  /\ \A k, n : Notes(Do("memLevel", k, n)) /\ Notes(Do("readRank", k, n))
  /\ \A col \in {"sp", "lv", "gc", "rank"} : \A k, v : Notes(SaveCol(col, k, v))
  /\ \A col \in {"main", "rest"} : \A k, v : ~Notes(SaveCol(col, k, v))
BY DEF Notes, Do, SaveCol, Mirrored

\* Companies, ranks and the class handlers' own calls are the packet task's.
LEMMA PacketsOwn ==
  ASSUME TypeOK, NEW t \in Tasks, NEW s \in Due[t]
  PROVE  /\ Notes(s) /\ s \in Steps
         /\ s.do \in {"memLevel", "readRank"} => t = "packet"
         /\ s.do = "save" /\ s.col \in {"gc", "rank"} => t = "packet"
<1>1. PICK i \in DOMAIN program[t] : s = program[t][i] /\ Notes(program[t][i])
  BY DueTypes DEF Notable
<1>2. Shape(t, program[t])
  BY DEF TypeOK
<1>3. s \in Steps
  BY DueTypes
<1> QED BY <1>1, <1>2, <1>3 DEF Shape

\* A step that neither the mirrored columns nor the notable steps notice.
SameColumns == /\ mem'.sp = mem.sp /\ mem'.lv = mem.lv /\ mem'.gc = mem.gc /\ mem'.rank = mem.rank
               /\ row'.sp = row.sp /\ row'.lv = row.lv /\ row'.gc = row.gc /\ row'.rank = row.rank
Aside == Due' = Due /\ SameColumns /\ spoiled \subseteq spoiled' /\ earned' = earned

\* A handler that was idle, or had one other step, goes on with steps that write no mirrored column.
LEMMA AsideThen ==
  ASSUME TypeOK, NEW t \in Tasks, NEW q \in Seq(Steps), Then(t, q), Notable(q) = {},
         program[t] = <<>> \/ (Len(program[t]) = 1 /\ ~Notes(Step(t)))
  PROVE  Due' = Due
<1>1. Due[t] = {}
  BY DueTypes
<1> QED BY <1>1, DueThen

\* Kills, seals, balances, the live class and the rested bonus are such steps.
LEMMA AsideSteps ==
  ASSUME TypeOK,
         \/ \E t \in Tasks, exp \in Gains : Kill(t, exp)
         \/ \E c \in Classes : ClassChange(c)
         \/ \E g \in GCs : PromoteGC(g)
         \/ \E t \in Tasks, g \in GCs : AddSeals(t, g)
         \/ \E t \in Tasks : PickClass(t) \/ SetClass(t) \/ Award(t) \/ Deposit(t) \/ Balance(t) \/ Spend(t)
         \/ RestAtInn \/ UNCHANGED vars
  PROVE  Aside
<1>0. "packet" \in Tasks /\ mem \in Characters
  BY DEF Tasks, TypeOK
<1>1. ASSUME NEW t \in Tasks, NEW exp \in Gains, Kill(t, exp) PROVE Aside
  <2> DEFINE a == Do("award", mem.gc, mem.rank[mem.gc])
             b == Do("pick", None, exp)
             q == (IF mem.gc \in GCs THEN <<a>> ELSE <<>>) \o <<b>>
  <2>1. b \in Steps /\ ~Notes(b) /\ ~Notes(a) /\ (mem.gc \in GCs => a \in Steps)
    BY StepTypes, MemFacts, NotesOf
  <2>2. program[t] = <<>> /\ Then(t, q) /\ UNCHANGED <<mem, row, seals, history, faults>>
    BY <1>1 DEF Kill, Idle
  <2> HIDE DEF a, b
  <2>3. q \in Seq(Steps) /\ Notable(q) = {}
    <3>1. CASE mem.gc \in GCs
      <4>1. <<a>> \o <<b>> = <<a, b>> /\ <<a, b>> \in Seq(Steps)
        BY <2>1, <3>1, PairSeq
      <4>2. Notable(<<a, b>>) = {}
        BY <2>1, NotableOne
      <4> QED BY <3>1, <4>1, <4>2
    <3>2. CASE mem.gc \notin GCs
      <4>1. <<>> \o <<b>> = <<b>> /\ <<b>> \in Seq(Steps)
        BY <2>1, PairSeq
      <4>2. Notable(<<b>>) = {}
        BY <2>1, NotableOne
      <4> QED BY <3>2, <4>1, <4>2
    <3> QED BY <3>1, <3>2
  <2> HIDE DEF q
  <2>4. Due' = Due
    BY <2>2, <2>3, AsideThen
  <2> QED BY <2>2, <2>4 DEF Aside, SameColumns, history
<1>2. ASSUME NEW t \in Tasks, NEW s \in Steps, Then(t, <<s>>), ~Notes(s), program[t] = <<>> \/ (Len(program[t]) = 1 /\ ~Notes(Step(t))) PROVE Due' = Due
  <2>1. <<s>> \in Seq(Steps)
    OBVIOUS
  <2>2. Notable(<<s>>) = {}
    BY <1>2, NotableOne
  <2> QED BY <1>2, <2>1, <2>2, AsideThen
<1>3. ASSUME NEW c \in Classes, ClassChange(c) PROVE Aside
  <2>1. program["packet"] = <<>> /\ Then("packet", <<Do("class", c, 0)>>) /\ UNCHANGED <<mem, row, seals, history, faults>>
    BY <1>3 DEF ClassChange, Idle
  <2>2. Do("class", c, 0) \in Steps /\ ~Notes(Do("class", c, 0))
    BY StepTypes, NotesOf
  <2> QED BY <1>0, <1>2, <2>1, <2>2 DEF Aside, SameColumns, history
<1>4. ASSUME NEW g \in GCs, PromoteGC(g) PROVE Aside
  <2>1. program["packet"] = <<>> /\ Then("packet", <<Do("balance", g, mem.rank[g])>>) /\ mem.rank[g] \in DOMAIN Cost /\ UNCHANGED <<mem, row, seals, history, faults>>
    BY <1>4 DEF PromoteGC, Idle
  <2>2. Do("balance", g, mem.rank[g]) \in Steps /\ ~Notes(Do("balance", g, mem.rank[g]))
    BY <2>1, StepTypes, NotesOf
  <2> QED BY <1>0, <1>2, <2>1, <2>2 DEF Aside, SameColumns, history
<1>5. ASSUME NEW t \in Tasks, NEW g \in GCs, AddSeals(t, g) PROVE Aside
  <2>1. program[t] = <<>> /\ Then(t, <<Do("deposit", g, Reward)>>) /\ UNCHANGED <<mem, row, seals, history, faults>>
    BY <1>5 DEF AddSeals, Idle
  <2>2. Do("deposit", g, Reward) \in Steps /\ ~Notes(Do("deposit", g, Reward))
    BY AdvancementAssumption, StepTypes, NotesOf
  <2> QED BY <1>2, <2>1, <2>2 DEF Aside, SameColumns, history
<1>6. ASSUME NEW t \in Tasks, program[t] # <<>>, Done(t), Step(t).do \in {"pick", "class", "setClass", "award", "deposit", "balance"} PROVE Due' = Due
  <2>1. ~Notes(Step(t))
    BY <1>6 DEF Notes
  <2> QED BY <1>6, <2>1, DueDone
<1>7. ASSUME NEW t \in Tasks, PickClass(t) PROVE Aside
  <2>1. program[t] # <<>> /\ Step(t).do = "pick" /\ UNCHANGED <<mem, row, seals, history, counters>>
    BY <1>7 DEF PickClass, At, Idle, Step
  <2>2. Len(program[t]) = 1 /\ ~Notes(Step(t))
    BY <2>1, HeadFacts DEF Notes
  <2>3. Do("gain", mem.class, Step(t).n) \in Steps /\ ~Notes(Do("gain", mem.class, Step(t).n))
    BY <2>1, HeadFacts, StepShapes, StepTypes, MemFacts, NotesOf
  <2>4. Due' = Due
    <3>1. CASE Then(t, <<Do("gain", mem.class, Step(t).n)>>)
      BY <1>2, <2>2, <2>3, <3>1
    <3>2. CASE Done(t)
      BY <1>6, <2>1, <3>2
    <3> QED BY <1>7, <3>1, <3>2 DEF PickClass
  <2> QED BY <2>1, <2>4 DEF Aside, SameColumns, history
<1>8. ASSUME NEW t \in Tasks, SetClass(t) PROVE Aside
  <2>1. program[t] # <<>> /\ Step(t).do \in {"class", "setClass"} /\ Done(t) /\ UNCHANGED <<row, seals, history, counters>>
        /\ mem' = [mem EXCEPT !.class = Step(t).key]
    BY <1>8 DEF SetClass, At, Idle, Step
  <2>2. mem'.sp = mem.sp /\ mem'.lv = mem.lv /\ mem'.gc = mem.gc /\ mem'.rank = mem.rank
    BY <1>0, <2>1 DEF Characters
  <2> QED BY <1>6, <2>1, <2>2 DEF Aside, SameColumns, history
<1>9. ASSUME NEW t \in Tasks, Award(t) PROVE Aside
  <2> DEFINE g == Step(t).key
             cap == IF Step(t).n \in 1 .. TopRank THEN Cap[Step(t).n] ELSE 0
  <2>1. program[t] # <<>> /\ Step(t).do = "award" /\ UNCHANGED <<mem, row, seals, history, counters>>
    BY <1>9 DEF Award, At, Idle, Step
  <2>2. PICK balance \in {seals[g], 0} : IF balance >= cap THEN Done(t) ELSE Then(t, <<Do("deposit", g, Min({Reward, cap - balance}))>>)
    BY <1>9 DEF Award
  <2>3. g \in GCs /\ Step(t).n \in 0..TopRank
    BY <2>1, HeadFacts, StepShapes
  <2>4. cap \in Nat /\ balance \in Nat /\ Reward \in Nat
    BY <2>2, <2>3, CostFacts, AdvancementAssumption, SMTT(30) DEF TypeOK
  <2> HIDE DEF cap
  <2>5. CASE balance >= cap
    BY <1>6, <2>1, <2>2, <2>5 DEF Aside, SameColumns, history
  <2>6. CASE ~(balance >= cap)
    <3>1. cap - balance \in Nat
      BY <2>4, <2>6
    <3>2. PICK n \in Nat : n = Min({Reward, cap - balance})
      BY <2>4, <3>1, MinOfTwo
    <3>3. PICK s : s = Do("deposit", g, n)
      OBVIOUS
    <3>4. s \in Steps /\ ~Notes(s) /\ Then(t, <<s>>)
      BY <2>2, <2>3, <2>6, <3>2, <3>3, StepTypes, NotesOf
    <3>5. Due' = Due
      <4>1. program' = [program EXCEPT ![t] = <<s>> \o Tail(program[t])]
        BY <2>1, <3>4 DEF Then
      <4>2. program[t] \in Seq(Steps) /\ Tail(program[t]) \in Seq(Steps) /\ Shape(t, program[t]) /\ program[t][1] = Step(t)
        BY <2>1, TailFacts DEF TypeOK, Step
      <4>3. Notable(<<s>> \o Tail(program[t])) = Notable(program[t])
        <5>1. PICK p \in Seq(Steps) : p = Tail(program[t])
          BY <4>2
        <5>2. Notable(program[t]) = Notable(p)
          <6>1. ~Notes(program[t][1])
            BY <2>1, <4>2 DEF Notes
          <6> QED BY <2>1, <4>2, <5>1, <6>1, NotableTail
        <5>3. {(<<s>> \o p)[i] : i \in DOMAIN (<<s>> \o p)} = {s} \cup {p[i] : i \in DOMAIN p}
          <6> DEFINE q == <<s>> \o p
          <6>1. Len(p) \in Nat /\ DOMAIN q = 1..(1 + Len(p)) /\ q[1] = s /\ \A i \in DOMAIN q : i > 1 => i - 1 \in DOMAIN p /\ q[i] = p[i - 1]
            BY <3>4, ConsFacts
          <6>2. DOMAIN p = 1..Len(p)
            OBVIOUS
          <6> HIDE DEF q
          <6>3. ASSUME NEW i \in DOMAIN q PROVE q[i] \in {s} \cup {p[j] : j \in DOMAIN p}
            <7>1. CASE i = 1
              BY <6>1, <7>1
            <7>2. CASE i > 1
              BY <6>1, <7>2
            <7> QED BY <6>1, <7>1, <7>2
          <6>4. ASSUME NEW j \in DOMAIN p PROVE p[j] \in {q[i] : i \in DOMAIN q}
            <7>1. PICK i \in DOMAIN q : i = j + 1 /\ i > 1
              BY <6>1, <6>2
            <7>2. q[i] = p[j]
              BY <6>1, <6>2, <7>1
            <7> QED BY <7>2
          <6>5. s \in {q[i] : i \in DOMAIN q}
            BY <6>1
          <6>6. {q[i] : i \in DOMAIN q} = {s} \cup {p[i] : i \in DOMAIN p}
            BY <6>3, <6>4, <6>5
          <6> QED BY <6>6 DEF q
        <5>4. Notable(<<s>> \o p) = Notable(p)
          BY <3>4, <5>3 DEF Notable
        <5> QED BY <5>1, <5>2, <5>4
      <4>4. \A u \in Tasks : Notable(program'[u]) = Notable(program[u])
        BY <4>1, <4>3 DEF TypeOK
      <4> QED BY <4>4 DEF Due
    <3> QED BY <2>1, <3>5 DEF Aside, SameColumns, history
  <2> QED BY <2>5, <2>6
<1>10. ASSUME NEW t \in Tasks, Deposit(t) PROVE Aside
  <2>1. program[t] # <<>> /\ Step(t).do = "deposit" /\ Done(t) /\ UNCHANGED <<mem, row, history, counters>>
    BY <1>10 DEF Deposit, At, Idle, Step
  <2> QED BY <1>6, <2>1 DEF Aside, SameColumns, history
<1>11. ASSUME NEW t \in Tasks, Balance(t) PROVE Aside
  <2>1. program[t] # <<>> /\ Step(t).do = "balance" /\ UNCHANGED <<mem, row, seals, history, counters>>
        /\ (Then(t, <<Do("spend", Step(t).key, Step(t).n)>>) \/ Done(t))
    BY <1>11 DEF Balance, At, Idle, Step
  <2>2. Len(program[t]) = 1 /\ ~Notes(Step(t)) /\ Step(t).key \in GCs /\ Step(t).n \in DOMAIN Cost
    BY <2>1, HeadFacts, StepShapes DEF Notes
  <2>3. Do("spend", Step(t).key, Step(t).n) \in Steps /\ ~Notes(Do("spend", Step(t).key, Step(t).n))
    BY <2>2, StepTypes, NotesOf
  <2>4. Due' = Due
    BY <1>2, <1>6, <2>1, <2>2, <2>3
  <2> QED BY <2>1, <2>4 DEF Aside, SameColumns, history
<1>12. ASSUME NEW t \in Tasks, Spend(t) PROVE Aside
  <2>1. program[t] # <<>> /\ Step(t).do = "spend" /\ UNCHANGED <<mem, row, earned, owed, spoiled, cut, counters>>
        /\ Then(t, <<Do("bump", Step(t).key, Step(t).n)>>)
    BY <1>12 DEF Spend, At, Idle, Step
  <2>2. Len(program[t]) = 1 /\ ~Notes(Step(t)) /\ Step(t).key \in GCs /\ Step(t).n \in DOMAIN Cost
    BY <2>1, HeadFacts, StepShapes DEF Notes
  <2>3. Do("bump", Step(t).key, Step(t).n) \in Steps /\ ~Notes(Do("bump", Step(t).key, Step(t).n))
    BY <2>2, StepTypes, NotesOf
  <2>4. Due' = Due
    BY <1>2, <2>1, <2>2, <2>3
  <2> QED BY <2>1, <2>4 DEF Aside, SameColumns
<1>13. CASE RestAtInn
  <2>1. Due' = Due
    BY <1>13 DEF RestAtInn, Due
  <2>2. mem'.sp = mem.sp /\ mem'.lv = mem.lv /\ mem'.gc = mem.gc /\ mem'.rank = mem.rank
    BY <1>0, <1>13 DEF RestAtInn, Characters
  <2> QED BY <1>13, <2>1, <2>2 DEF RestAtInn, Aside, SameColumns, history
<1>14. CASE UNCHANGED vars
  BY <1>14 DEF vars, history, counters, Aside, SameColumns, Due
<1> QED BY <1>1, <1>3, <1>4, <1>5, <1>7, <1>8, <1>9, <1>10, <1>11, <1>12, <1>13, <1>14

-----------------------------------------------------------------------------
(* Memory and tables agree *)

\* The notable steps of both tasks.
Dues == [Tasks -> SUBSET Steps]
\* No task has a write of the cell left; all such writes are one task's and write value m; and so
\* memory (m) and table (r) agree: they are equal once nothing is left to write.
Unwritten(N, col, key) == \A t \in Tasks : \A s \in N[t] : ~Saving(s, col, key)
Foreseen(N, col, key, m) ==
  /\ \A t, u \in Tasks : \A s \in N[t], z \in N[u] : Saving(s, col, key) /\ Saving(z, col, key) => t = u
  /\ \A t \in Tasks : \A s \in N[t] : Saving(s, col, key) => s.val = m
Agree(N, col, key, m, r) == Foreseen(N, col, key, m) /\ (Unwritten(N, col, key) => r = m)

\* The same for a level: a class change may have saved level 1 and not yet reset the live level.
Resets(S, c) == \E s \in S : s.do = "memLevel" /\ s.key = c
AgreeLevel(N, c, m, r) ==
  /\ \A t, u \in Tasks : \A s \in N[t], z \in N[u] : Saving(s, "lv", c) /\ Saving(z, "lv", c) => t = u
  /\ \A t \in Tasks : \A s \in N[t] : Saving(s, "lv", c) => s.val = m \/ (s.val = 1 /\ Resets(N[t], c))
  /\ Unwritten(N, "lv", c) => IF \E t \in Tasks : Resets(N[t], c) THEN m > 0 \/ r = 1 ELSE r = m

\* The same for a rank, which an enlistment reads again before it saves it.
Rereads(N, g) == \E t \in Tasks : \E s \in N[t] : s.do = "readRank" /\ s.key = g
AgreeRank(N, g, m, r) == Foreseen(N, "rank", g, m) /\ (Unwritten(N, "rank", g) /\ ~Rereads(N, g) => r = m)

\* Every cell that was not spoiled agrees: points, levels, company and ranks.
PointsMirrored == \A c \in Classes : Unspoiled("sp", c) => Agree(Due, "sp", c, mem.sp[c], row.sp[c])
LevelsMirrored == \A c \in Classes : Unspoiled("lv", c) => AgreeLevel(Due, c, mem.lv[c], row.lv[c])
CompanyMirrored == Unspoiled("gc", None) => Agree(Due, "gc", None, mem.gc, row.gc)
RanksMirrored == \A g \in GCs : Unspoiled("rank", g) => AgreeRank(Due, g, mem.rank[g], row.rank[g])
\* The invariant of the proof of ProgressMirrored.
MirrorInv == PointsMirrored /\ LevelsMirrored /\ CompanyMirrored /\ RanksMirrored

\* A cell stays agreed when a step that does not write it is done, and when its write is.
LEMMA AgreeDropped ==
  ASSUME NEW N \in Dues, NEW M \in Dues, NEW t \in Tasks, NEW s, N[t] = M[t] \cup {s}, \A u \in Tasks \ {t} : M[u] = N[u]
  PROVE  /\ \A col, key, m, r : Agree(N, col, key, m, r) /\ ~Saving(s, col, key) => Agree(M, col, key, m, r)
         /\ \A col, key, m, r : /\ Agree(N, col, key, m, r) /\ Saving(s, col, key)
                                /\ \A z \in M[t] : ~Saving(z, col, key)
                                => s.val = m /\ Unwritten(M, col, key) /\ Agree(M, col, key, m, s.val)
<1>1. ASSUME NEW u \in Tasks, NEW z \in M[u] PROVE z \in N[u]
  BY <1>1
<1>2. ASSUME NEW u \in Tasks, NEW z \in N[u] PROVE (u = t /\ z = s) \/ z \in M[u]
  BY <1>2
<1>3. ASSUME NEW col, NEW key, NEW m, NEW r, Agree(N, col, key, m, r), ~Saving(s, col, key) PROVE Agree(M, col, key, m, r)
  BY <1>1, <1>2, <1>3 DEF Agree, Foreseen, Unwritten
<1>4. ASSUME NEW col, NEW key, NEW m, NEW r, Agree(N, col, key, m, r), Saving(s, col, key), \A z \in M[t] : ~Saving(z, col, key)
      PROVE  s.val = m /\ Unwritten(M, col, key) /\ Agree(M, col, key, m, s.val)
  <2>0. s \in N[t]
    OBVIOUS
  <2>1. s.val = m
    BY <1>4, <2>0 DEF Agree, Foreseen
  <2>2. Unwritten(M, col, key)
    BY <1>1, <1>4, <2>0 DEF Agree, Foreseen, Unwritten
  <2> QED BY <2>1, <2>2 DEF Agree, Foreseen, Unwritten
<1> QED BY <1>3, <1>4

\* A cell stays agreed when a task takes up steps that do not write it, and is agreed when one task
\* alone takes up a write of the new value, and when memory is loaded from the table.
LEMMA AgreeNew ==
  ASSUME NEW N \in Dues, NEW M \in Dues, NEW t \in Tasks, \A u \in Tasks \ {t} : M[u] = N[u], NEW col, NEW key
  PROVE  /\ \A m, r : /\ Agree(N, col, key, m, r)
                      /\ \A s \in N[t] : ~Saving(s, col, key)
                      /\ \A s \in M[t] : ~Saving(s, col, key)
                      => Agree(M, col, key, m, r)
         /\ \A m, r : /\ \E s \in M[t] : Saving(s, col, key)
                      /\ \A s \in M[t] : Saving(s, col, key) => s.val = m
                      /\ \A u \in Tasks \ {t} : \A s \in N[u] : ~Saving(s, col, key)
                      => Agree(M, col, key, m, r) /\ ~Unwritten(M, col, key)
         /\ \A r : Unwritten(N, col, key) => Agree(N, col, key, r, r)
<1>1. ASSUME NEW m, NEW r, Agree(N, col, key, m, r), \A s \in N[t] : ~Saving(s, col, key), \A s \in M[t] : ~Saving(s, col, key)
      PROVE  Agree(M, col, key, m, r)
  <2>1. \A u \in Tasks : \A z \in M[u] : Saving(z, col, key) => z \in N[u]
    BY <1>1
  <2>2. Unwritten(M, col, key) => Unwritten(N, col, key)
    BY <1>1 DEF Unwritten
  <2> QED BY <1>1, <2>1, <2>2 DEF Agree, Foreseen
<1>2. ASSUME NEW m, NEW r, \E s \in M[t] : Saving(s, col, key), \A s \in M[t] : Saving(s, col, key) => s.val = m,
             \A u \in Tasks \ {t} : \A s \in N[u] : ~Saving(s, col, key)
      PROVE  Agree(M, col, key, m, r) /\ ~Unwritten(M, col, key)
  BY <1>2 DEF Agree, Foreseen, Unwritten
<1>3. ASSUME NEW r, Unwritten(N, col, key) PROVE Agree(N, col, key, r, r)
  BY <1>3 DEF Agree, Foreseen, Unwritten
<1> QED BY <1>1, <1>2, <1>3

\* The same for levels.
LEMMA LevelDropped ==
  ASSUME NEW N \in Dues, NEW M \in Dues, NEW t \in Tasks, NEW s \in Steps, N[t] = M[t] \cup {s}, \A u \in Tasks \ {t} : M[u] = N[u], NEW c
  PROVE  /\ \A m, r : AgreeLevel(N, c, m, r) /\ ~Saving(s, "lv", c) /\ ~(s.do = "memLevel" /\ s.key = c) => AgreeLevel(M, c, m, r)
         /\ \A m, r : /\ AgreeLevel(N, c, m, r) /\ Saving(s, "lv", c)
                      /\ \A z \in M[t] : ~Saving(z, "lv", c)
                      => AgreeLevel(M, c, m, s.val)
<1>1. \A u \in Tasks : \A z \in M[u] : z \in N[u]
  OBVIOUS
<1>2. \A u \in Tasks : \A z \in N[u] : (u = t /\ z = s) \/ z \in M[u]
  OBVIOUS
<1>3. ASSUME NEW m, NEW r, AgreeLevel(N, c, m, r), ~Saving(s, "lv", c), ~(s.do = "memLevel" /\ s.key = c) PROVE AgreeLevel(M, c, m, r)
  <2>1. \A u \in Tasks : Resets(M[u], c) <=> Resets(N[u], c)
    BY <1>1, <1>2, <1>3 DEF Resets
  <2>2. Unwritten(M, "lv", c) => Unwritten(N, "lv", c)
    BY <1>2, <1>3 DEF Unwritten
  <2> QED BY <1>1, <1>3, <2>1, <2>2 DEF AgreeLevel
<1>4. ASSUME NEW m, NEW r, AgreeLevel(N, c, m, r), Saving(s, "lv", c), \A z \in M[t] : ~Saving(z, "lv", c) PROVE AgreeLevel(M, c, m, s.val)
  <2>0. s \in N[t] /\ s.do = "save" /\ s.col = "lv"
    BY <1>4 DEF Saving
  <2>1. s.val > 0
    BY <2>0, StepShapes, LevelFacts DEF Levels
  <2>2. \A u \in Tasks : Resets(M[u], c) <=> Resets(N[u], c)
    BY <1>1, <1>2, <2>0 DEF Resets
  <2>3. Unwritten(M, "lv", c)
    BY <1>1, <1>4, <2>0 DEF AgreeLevel, Unwritten
  <2>4. s.val = m \/ (s.val = 1 /\ Resets(N[t], c))
    BY <1>4, <2>0 DEF AgreeLevel
  <2>5. IF \E u \in Tasks : Resets(M[u], c) THEN m > 0 \/ s.val = 1 ELSE s.val = m
    BY <2>1, <2>2, <2>4
  <2> QED BY <2>3, <2>5 DEF AgreeLevel, Unwritten
<1> QED BY <1>3, <1>4

\* When levels still agree: the step does not write them, the step queues the write, or nothing is pending.
LEMMA LevelNew ==
  ASSUME NEW N \in Dues, NEW M \in Dues, NEW t \in Tasks, \A u \in Tasks \ {t} : M[u] = N[u], NEW c
  PROVE  /\ \A m, r : /\ AgreeLevel(N, c, m, r)
                      /\ \A s \in N[t] \cup M[t] : ~Saving(s, "lv", c) /\ s.do # "memLevel"
                      => AgreeLevel(M, c, m, r)
         /\ \A m, r : /\ \E s \in M[t] : Saving(s, "lv", c)
                      /\ \A s \in M[t] : Saving(s, "lv", c) => s.val = m \/ (s.val = 1 /\ Resets(M[t], c))
                      /\ \A u \in Tasks \ {t} : \A s \in N[u] : ~Saving(s, "lv", c)
                      => AgreeLevel(M, c, m, r)
         /\ \A r : Unwritten(N, "lv", c) /\ (\A u \in Tasks : ~Resets(N[u], c)) => AgreeLevel(N, c, r, r)
<1>1. ASSUME NEW m, NEW r, AgreeLevel(N, c, m, r), \A s \in N[t] \cup M[t] : ~Saving(s, "lv", c) /\ s.do # "memLevel"
      PROVE  AgreeLevel(M, c, m, r)
  <2>1. \A u \in Tasks : \A z \in M[u] : Saving(z, "lv", c) => z \in N[u]
    BY <1>1
  <2>2. Unwritten(M, "lv", c) => Unwritten(N, "lv", c)
    BY <1>1 DEF Unwritten
  <2>3. \A u \in Tasks : Resets(M[u], c) <=> Resets(N[u], c)
    <3>1. ~Resets(M[t], c) /\ ~Resets(N[t], c)
      BY <1>1 DEF Resets
    <3> QED BY <3>1
  <2> QED BY <1>1, <2>1, <2>2, <2>3 DEF AgreeLevel
<1>2. ASSUME NEW m, NEW r, \E s \in M[t] : Saving(s, "lv", c),
             \A s \in M[t] : Saving(s, "lv", c) => s.val = m \/ (s.val = 1 /\ Resets(M[t], c)),
             \A u \in Tasks \ {t} : \A s \in N[u] : ~Saving(s, "lv", c)
      PROVE  AgreeLevel(M, c, m, r)
  BY <1>2 DEF AgreeLevel, Unwritten
<1>3. ASSUME NEW r, Unwritten(N, "lv", c), \A u \in Tasks : ~Resets(N[u], c) PROVE AgreeLevel(N, c, r, r)
  BY <1>3 DEF AgreeLevel, Unwritten
<1> QED BY <1>1, <1>2, <1>3

\* The same for ranks.
LEMMA RankDropped ==
  ASSUME NEW N \in Dues, NEW M \in Dues, NEW t \in Tasks, NEW s, N[t] = M[t] \cup {s}, \A u \in Tasks \ {t} : M[u] = N[u], s.do # "readRank", NEW g
  PROVE  /\ \A m, r : AgreeRank(N, g, m, r) /\ ~Saving(s, "rank", g) => AgreeRank(M, g, m, r)
         /\ \A m, r : AgreeRank(N, g, m, r) /\ Saving(s, "rank", g) /\ (\A z \in M[t] : ~Saving(z, "rank", g)) => AgreeRank(M, g, m, s.val)
<1>1. \A u \in Tasks : \A z \in M[u] : z \in N[u]
  OBVIOUS
<1>2. \A u \in Tasks : \A z \in N[u] : (u = t /\ z = s) \/ z \in M[u]
  OBVIOUS
<1>3. Rereads(N, g) <=> Rereads(M, g)
  BY <1>1, <1>2 DEF Rereads
<1>4. ASSUME NEW m, NEW r, AgreeRank(N, g, m, r), ~Saving(s, "rank", g) PROVE AgreeRank(M, g, m, r)
  BY <1>1, <1>2, <1>3, <1>4 DEF AgreeRank, Foreseen, Unwritten
<1>5. ASSUME NEW m, NEW r, AgreeRank(N, g, m, r), Saving(s, "rank", g), \A z \in M[t] : ~Saving(z, "rank", g) PROVE AgreeRank(M, g, m, s.val)
  <2>0. s \in N[t]
    OBVIOUS
  <2>1. s.val = m
    BY <1>5, <2>0 DEF AgreeRank, Foreseen
  <2>2. Unwritten(M, "rank", g)
    BY <1>1, <1>5, <2>0 DEF AgreeRank, Foreseen, Unwritten
  <2> QED BY <2>1, <2>2 DEF AgreeRank, Foreseen, Unwritten
<1> QED BY <1>4, <1>5

\* When ranks still agree: the step does not write them, the step queues the write, or nothing is pending.
LEMMA RankNew ==
  ASSUME NEW N \in Dues, NEW M \in Dues, NEW t \in Tasks, \A u \in Tasks \ {t} : M[u] = N[u], NEW g
  PROVE  /\ \A m, r : /\ AgreeRank(N, g, m, r)
                      /\ \A s \in N[t] \cup M[t] : ~Saving(s, "rank", g) /\ ~(s.do = "readRank" /\ s.key = g)
                      => AgreeRank(M, g, m, r)
         /\ \A m, r : /\ \A s \in M[t] : Saving(s, "rank", g) => s.val = m
                      /\ (\E s \in M[t] : Saving(s, "rank", g) \/ (s.do = "readRank" /\ s.key = g))
                      /\ \A u \in Tasks \ {t} : \A s \in N[u] : ~Saving(s, "rank", g)
                      => AgreeRank(M, g, m, r)
         /\ \A r : Unwritten(N, "rank", g) => AgreeRank(N, g, r, r)
<1>1. ASSUME NEW m, NEW r, AgreeRank(N, g, m, r), \A s \in N[t] \cup M[t] : ~Saving(s, "rank", g) /\ ~(s.do = "readRank" /\ s.key = g)
      PROVE  AgreeRank(M, g, m, r)
  <2>1. \A u \in Tasks : \A z \in M[u] : Saving(z, "rank", g) => z \in N[u]
    BY <1>1
  <2>2. Unwritten(M, "rank", g) => Unwritten(N, "rank", g)
    BY <1>1 DEF Unwritten
  <2>3. Rereads(N, g) => Rereads(M, g)
    BY <1>1 DEF Rereads
  <2> QED BY <1>1, <2>1, <2>2, <2>3 DEF AgreeRank, Foreseen
<1>2. ASSUME NEW m, NEW r, \A s \in M[t] : Saving(s, "rank", g) => s.val = m,
             \E s \in M[t] : Saving(s, "rank", g) \/ (s.do = "readRank" /\ s.key = g),
             \A u \in Tasks \ {t} : \A s \in N[u] : ~Saving(s, "rank", g)
      PROVE  AgreeRank(M, g, m, r)
  BY <1>2 DEF AgreeRank, Foreseen, Unwritten, Rereads
<1>3. ASSUME NEW r, Unwritten(N, "rank", g) PROVE AgreeRank(N, g, r, r)
  BY <1>3 DEF AgreeRank, Foreseen, Unwritten
<1> QED BY <1>1, <1>2, <1>3

\* The fields of a write.
LEMMA SavingCol == \A col, key, v : \A c2, k2 : Saving(SaveCol(col, key, v), c2, k2) <=> col = c2 /\ key = k2
BY DEF Saving, SaveCol

\* The fields of a pending write.
LEMMA ColVal == \A col, key, v : SaveCol(col, key, v).val = v /\ SaveCol(col, key, v).do = "save" /\ SaveCol(col, key, v).col = col /\ SaveCol(col, key, v).key = key
BY DEF SaveCol

\* A cell that is not spoiled by a new program is written by it alone.
LEMMA Uncrossed ==
  ASSUME TypeOK, NEW t \in Tasks, NEW q, spoiled' = spoiled \cup Crossed(t, q)
  PROVE  \A col \in Mirrored : \A key : Unspoiled(col, key)' =>
           /\ Unspoiled(col, key)
           /\ (\E s \in Notable(q) : Saving(s, col, key)) => \A u \in Tasks \ {t} : \A s \in Due[u] : ~Saving(s, col, key)
BY CrossedAre DEF Unspoiled

-----------------------------------------------------------------------------
(* What each action leaves to write *)

\* What each action does to the notable steps: apply_add_exp.
LEMMA GainView ==
  ASSUME TypeOK, NEW t \in Tasks, NEW c \in Classes, NEW exp \in Gains,
         program[t] = <<>> \/ (Len(program[t]) = 1 /\ ~Notes(Step(t))), Gain(t, c, exp)
  PROVE  /\ Due \in Dues /\ Due' \in Dues /\ Due[t] = {} /\ \A u \in Tasks \ {t} : Due'[u] = Due[u]
         /\ SaveCol("sp", c, mem'.sp[c]) \in Due'[t]
         /\ \A s \in Due'[t] : s = SaveCol("sp", c, mem'.sp[c]) \/ s = SaveCol("lv", c, mem'.lv[c])
         /\ mem'.lv[c] # mem.lv[c] => SaveCol("lv", c, mem'.lv[c]) \in Due'[t]
         /\ spoiled' = spoiled \cup Crossed(t, program'[t]) /\ Due'[t] = Notable(program'[t])
<1>1. /\ program' \in [Tasks -> Seq(Steps)]
      /\ \A u \in Tasks \ {t} : program'[u] = program[u]
      /\ 1 \in DOMAIN program'[t] /\ program'[t][1] = SaveCol("sp", c, mem'.sp[c])
      /\ mem'.lv[c] # mem.lv[c] => 2 \in DOMAIN program'[t] /\ program'[t][2] = SaveCol("lv", c, mem'.lv[c])
      /\ \A i \in DOMAIN program'[t] :
              i # 1 => \/ i = 2 /\ program'[t][2] = SaveCol("lv", c, mem'.lv[c])
                       \/ program'[t][i].do = "save" /\ program'[t][i].col \in {"main", "rest"}
      /\ spoiled' = spoiled \cup Crossed(t, program'[t])
  BY GainFacts
<1>2. Due' = [u \in Tasks |-> Notable(program'[u])] /\ Due = [u \in Tasks |-> Notable(program[u])]
  BY DEF Due
<1>3. Due \in Dues /\ Due[t] = {}
  BY DueTypes DEF Dues
<1>4. Due' \in Dues
  <2>1. \A u \in Tasks : Notable(program'[u]) \in SUBSET Steps
    BY <1>1 DEF Notable
  <2> QED BY <1>2, <2>1 DEF Dues
<1>5. PICK p : p = program'[t]
  OBVIOUS
<1>6. SaveCol("sp", c, mem'.sp[c]) \in Notable(p)
  BY <1>1, <1>5, NotesOf DEF Notable
<1>7. mem'.lv[c] # mem.lv[c] => SaveCol("lv", c, mem'.lv[c]) \in Notable(p)
  BY <1>1, <1>5, NotesOf DEF Notable
<1>8. ASSUME NEW s \in Notable(p) PROVE s = SaveCol("sp", c, mem'.sp[c]) \/ s = SaveCol("lv", c, mem'.lv[c])
  <2>1. PICK i \in DOMAIN p : s = p[i] /\ Notes(p[i])
    BY DEF Notable
  <2>2. ~(p[i].do = "save" /\ p[i].col \in {"main", "rest"})
    BY <2>1 DEF Notes, Mirrored
  <2> QED BY <1>1, <1>5, <2>1, <2>2
<1> QED BY <1>1, <1>2, <1>3, <1>4, <1>5, <1>6, <1>7, <1>8

\* A class never played, or whose level cannot be read (apply_do_class_change).
LEMMA InitView ==
  ASSUME TypeOK, NEW t \in Tasks, InitClass(t)
  PROVE  \E c \in Classes :
         /\ Due \in Dues /\ Due' \in Dues /\ Due[t] = {} /\ \A u \in Tasks \ {t} : Due'[u] = Due[u]
         /\ Due'[t] = {SaveCol("lv", c, 1), Do("memLevel", c, 1)}
         /\ \E q : spoiled' = spoiled \cup Crossed(t, q) /\ Due'[t] = Notable(q)
         /\ UNCHANGED <<mem, row, earned>>
<1> DEFINE c == Step(t).key
           x == SaveCol("lv", c, 1)  y == Do("memLevel", c, 1)  z == Do("setClass", c, 0)
           q == <<x, y, z>>
<1>1. program[t] # <<>> /\ Step(t).do = "class" /\ Then(t, q) /\ spoiled' = spoiled \cup Crossed(t, q) /\ UNCHANGED <<mem, row, earned>>
  BY DEF InitClass, At, Idle, Step
<1>2. c \in Classes /\ Len(program[t]) = 1 /\ ~Notes(Step(t))
  BY <1>1, HeadFacts, StepShapes DEF Notes
<1>3. x \in Steps /\ y \in Steps /\ z \in Steps /\ Notes(x) /\ Notes(y) /\ ~Notes(z)
  <2>1. 1 \in Levels
    BY LevelFacts DEF Levels
  <2> QED BY <1>2, <2>1, StepTypes, NotesOf
<1> HIDE DEF x, y, z, c
<1>4. q \in Seq(Steps)
  BY <1>3
<1>5. Notable(q) = {x, y}
  BY <1>3, NotableOne
<1> HIDE DEF q
<1>6. Due' \in Dues /\ Due'[t] = {x, y} /\ \A u \in Tasks \ {t} : Due'[u] = Due[u]
  BY <1>1, <1>2, <1>4, <1>5, DueThen DEF Dues
<1>7. Due \in Dues /\ Due[t] = {}
  BY <1>2, DueTypes DEF Dues
<1> QED BY <1>1, <1>2, <1>5, <1>6, <1>7 DEF x, y

\* Its live level, reset after the table was.
LEMMA MemLevelView ==
  ASSUME TypeOK, NEW t \in Tasks, MemLevel(t)
  PROVE  \E s \in Steps :
         /\ s.do = "memLevel" /\ s.key \in Classes /\ t = "packet"
         /\ Due \in Dues /\ Due' \in Dues /\ Due[t] = Due'[t] \cup {s} /\ \A u \in Tasks \ {t} : Due'[u] = Due[u]
         /\ \A z \in Due'[t] : z.do # "save" /\ z.do # "memLevel"
         /\ mem'.sp = mem.sp /\ mem'.gc = mem.gc /\ mem'.rank = mem.rank
         /\ mem'.lv[s.key] = 1 /\ \A c \in Classes \ {s.key} : mem'.lv[c] = mem.lv[c]
         /\ spoiled' = spoiled \cup IF mem.lv[s.key] > 0 THEN {<<"lv", s.key>>} ELSE {}
         /\ UNCHANGED <<row, earned>>
<1> DEFINE s == Step(t)
<1>1. program[t] # <<>> /\ s.do = "memLevel" /\ Done(t) /\ mem' = [mem EXCEPT !.lv[s.key] = 1] /\ UNCHANGED <<row, earned>>
      /\ spoiled' = spoiled \cup IF mem.lv[s.key] > 0 THEN {<<"lv", s.key>>} ELSE {}
  BY DEF MemLevel, At, Idle, Step
<1>2. s \in Steps /\ s.key \in Classes /\ t = "packet" /\ Notes(s)
  BY <1>1, HeadFacts, StepShapes DEF Notes
<1> HIDE DEF s
<1>3. Due \in Dues
  BY DueTypes DEF Dues
<1>4. /\ Due' \in Dues /\ Due[t] = Due'[t] \cup {s} /\ (\A u \in Tasks \ {t} : Due'[u] = Due[u])
      /\ \A z \in Due'[t] : (z.do = "save" => Saving(s, "sp", z.key)) /\ (z.do = "memLevel" => s = SaveCol("lv", z.key, 1))
  BY <1>1, <1>2, DueDone DEF Dues, s
<1>5. \A z \in Due'[t] : z.do # "save" /\ z.do # "memLevel"
  BY <1>1, <1>4, ColVal DEF Saving
<1>6. mem'.sp = mem.sp /\ mem'.gc = mem.gc /\ mem'.rank = mem.rank /\ mem'.lv[s.key] = 1 /\ \A c \in Classes \ {s.key} : mem'.lv[c] = mem.lv[c]
  <2>1. mem \in Characters
    BY DEF TypeOK
  <2> QED BY <1>1, <1>2, <2>1 DEF Characters
<1> QED BY <1>1, <1>2, <1>3, <1>4, <1>5, <1>6

\* Enlisting, and a rank set, read again or raised, by the packet task alone.
LEMMA CompanyView ==
  ASSUME TypeOK,
         \/ \E g \in GCs : JoinGC(g)
         \/ \E g \in GCs, r \in 1 .. TopRank : SetGCRank(g, r)
         \/ \E t \in Tasks : ReadRank(t) \/ Bump(t)
  PROVE  /\ Due \in Dues /\ Due' \in Dues /\ "packet" \in Tasks /\ Due'["ticker"] = Due["ticker"]
         /\ mem'.sp = mem.sp /\ mem'.lv = mem.lv /\ UNCHANGED <<row, earned, spoiled>>
         /\ \E g \in GCs :
              /\ \A h \in GCs \ {g} : mem'.rank[h] = mem.rank[h]
              /\ \/ Due["packet"] = {} /\ Due'["packet"] = {SaveCol("gc", None, g), Do("readRank", g, 0)} /\ mem'.gc = g
                 \/ /\ Due["packet"] \in {{}, {Do("readRank", g, 0)}} /\ mem'.gc = mem.gc
                    /\ Due'["packet"] = {SaveCol("rank", g, mem'.rank[g])}
<1>0. "packet" \in Tasks /\ "packet" # "ticker" /\ "ticker" \in Tasks /\ mem \in Characters /\ Due \in Dues
  BY DueTypes DEF Tasks, TypeOK, Dues
<1> DEFINE Goal == 
         /\ Due \in Dues /\ Due' \in Dues /\ "packet" \in Tasks /\ Due'["ticker"] = Due["ticker"]
         /\ mem'.sp = mem.sp /\ mem'.lv = mem.lv /\ UNCHANGED <<row, earned, spoiled>>
         /\ \E g \in GCs :
              /\ \A h \in GCs \ {g} : mem'.rank[h] = mem.rank[h]
              /\ \/ Due["packet"] = {} /\ Due'["packet"] = {SaveCol("gc", None, g), Do("readRank", g, 0)} /\ mem'.gc = g
                 \/ /\ Due["packet"] \in {{}, {Do("readRank", g, 0)}} /\ mem'.gc = mem.gc
                    /\ Due'["packet"] = {SaveCol("rank", g, mem'.rank[g])}
<1>1. ASSUME NEW g \in GCs, JoinGC(g) PROVE Goal
  <2> DEFINE x == SaveCol("gc", None, g)  y == Do("readRank", g, 0)
  <2>1. x \in Steps /\ y \in Steps /\ Notes(x) /\ Notes(y)
    BY StepTypes, NotesOf
  <2>2. program["packet"] = <<>> /\ Then("packet", <<x, y>>) /\ UNCHANGED <<row, seals, history, faults>>
        /\ mem' = [mem EXCEPT !.gc = g, !.rank[g] = IF @ = 0 THEN 1 ELSE @]
    BY <1>1 DEF JoinGC, Idle
  <2>3. <<x, y>> \in Seq(Steps) /\ Notable(<<x, y>>) = {x, y}
    <3> HIDE DEF x, y
    <3>1. <<x, y>> \in Seq(Steps)
      BY <2>1
    <3> QED BY <2>1, <3>1, NotableOne
  <2>4. Due' \in Dues /\ Due'["packet"] = {x, y} /\ Due'["ticker"] = Due["ticker"] /\ Due["packet"] = {}
    BY <1>0, <2>2, <2>3, DueThen, DueTypes DEF Dues
  <2>5. mem'.sp = mem.sp /\ mem'.lv = mem.lv /\ mem'.gc = g /\ \A h \in GCs \ {g} : mem'.rank[h] = mem.rank[h]
    BY <1>0, <2>2 DEF Characters
  <2> QED BY <1>0, <2>2, <2>4, <2>5 DEF history
<1>2. ASSUME NEW g \in GCs, NEW r \in 0..TopRank, program["packet"] = <<>> \/ Len(program["packet"]) = 1, Due["packet"] \in {{}, {Do("readRank", g, 0)}},
             Then("packet", <<SaveCol("rank", g, r)>>), mem'.sp = mem.sp, mem'.lv = mem.lv, mem'.gc = mem.gc, mem'.rank[g] = r,
             \A h \in GCs \ {g} : mem'.rank[h] = mem.rank[h], UNCHANGED <<row, earned, spoiled>>
      PROVE Goal
  <2> DEFINE x == SaveCol("rank", g, r)
  <2>1. x \in Steps /\ Notes(x)
    BY StepTypes, NotesOf
  <2>2. <<x>> \in Seq(Steps) /\ Notable(<<x>>) = {x}
    <3> HIDE DEF x
    <3>1. <<x>> \in Seq(Steps)
      BY <2>1
    <3> QED BY <2>1, <3>1, NotableOne
  <2>3. Due' \in Dues /\ Due'["packet"] = {x} /\ Due'["ticker"] = Due["ticker"]
    BY <1>0, <1>2, <2>2, DueThen, ZenonT(60) DEF Dues
  <2> QED BY <1>0, <1>2, <2>3
<1>3. ASSUME NEW g \in GCs, NEW r \in 1 .. TopRank, SetGCRank(g, r) PROVE Goal
  <2>1. program["packet"] = <<>> /\ Then("packet", <<SaveCol("rank", g, r)>>) /\ UNCHANGED <<row, seals, history, faults>>
        /\ mem' = [mem EXCEPT !.rank[g] = r]
    BY <1>3 DEF SetGCRank, Idle
  <2>2. mem'.sp = mem.sp /\ mem'.lv = mem.lv /\ mem'.gc = mem.gc /\ mem'.rank[g] = r /\ \A h \in GCs \ {g} : mem'.rank[h] = mem.rank[h]
    BY <1>0, <2>1 DEF Characters
  <2>3. Due["packet"] = {} /\ r \in 0..TopRank
    BY <1>0, <2>1, DueTypes, CostFacts
  <2>4. UNCHANGED <<row, earned, spoiled>>
    BY <2>1 DEF history
  <2> HIDE DEF Goal
  <2> QED BY <1>2, <2>1, <2>2, <2>3, <2>4
<1>4. ASSUME NEW t \in Tasks, ReadRank(t) PROVE Goal
  <2> DEFINE g == Step(t).key
  <2>1. program[t] # <<>> /\ Step(t).do = "readRank" /\ Then(t, <<SaveCol("rank", g, mem.rank[g])>>) /\ UNCHANGED <<mem, row, seals, history, counters>>
    BY <1>4 DEF ReadRank, At, Idle, Step
  <2>2. g \in GCs /\ Len(program[t]) = 1 /\ t = "packet" /\ mem.rank[g] \in 0..TopRank
    BY <2>1, HeadFacts, StepShapes, MemFacts
  <2>3. Step(t) = Do("readRank", g, 0) /\ Notes(Step(t))
    <3>1. Step(t) \in Steps
      BY <2>1, HeadFacts
    <3>2. Step(t) \in RankSteps
      BY <2>1, <3>1 DEF Steps, SaveSteps, GainSteps, ClassSteps, SealSteps
    <3>3. Step(t) \in [do : {"readRank"}, key : GCs, n : {0}]
      BY <2>1, <3>2 DEF RankSteps
    <3> QED BY <3>3 DEF Do, Notes
  <2>4. Due["packet"] = {Do("readRank", g, 0)}
    BY <2>2, <2>3, DueTypes
  <2>5. mem' = mem /\ UNCHANGED <<row, earned, spoiled>>
    BY <2>1 DEF history
  <2> HIDE DEF Goal, g
  <2>6. PICK r \in 0..TopRank : r = mem.rank[g]
    BY <2>2
  <2> QED BY <1>2, <2>1, <2>2, <2>4, <2>5, <2>6
<1>5. ASSUME NEW t \in Tasks, Bump(t) PROVE Goal
  <2>1. program[t] # <<>> /\ Step(t).do = "bump"
    BY <1>5 DEF Bump, At, Idle, Step
  <2>2. Step(t).key \in GCs /\ Step(t).n \in DOMAIN Cost /\ Len(program[t]) = 1 /\ t = "packet" /\ ~Notes(Step(t))
    BY <2>1, HeadFacts, StepShapes DEF Notes
  <2>3. PICK g \in GCs, r \in 0..TopRank : g = Step(t).key /\ r = Step(t).n + 1
    BY <2>2, CostFacts
  <2>4. Then(t, <<SaveCol("rank", g, r)>>) /\ mem' = [mem EXCEPT !.rank[g] = r] /\ UNCHANGED <<row, earned, spoiled>>
    BY <1>5, <2>3 DEF Bump
  <2>5. mem'.sp = mem.sp /\ mem'.lv = mem.lv /\ mem'.gc = mem.gc /\ mem'.rank[g] = r /\ \A h \in GCs \ {g} : mem'.rank[h] = mem.rank[h]
    BY <1>0, <2>4 DEF Characters
  <2>6. Due["packet"] = {}
    BY <2>2, DueTypes
  <2> HIDE DEF Goal
  <2> QED BY <1>2, <2>2, <2>4, <2>5, <2>6
<1> HIDE DEF Goal
<1>6. Goal
  BY <1>1, <1>3, <1>4, <1>5
<1> QED BY <1>6 DEF Goal

\* The write at the head of a program, made or failed.
LEMMA SaveView ==
  ASSUME TypeOK, NEW t \in Tasks, Save(t) \/ DbFails(t), Notes(Step(t))
  PROVE  \E s \in Steps :
         /\ s = Step(t) /\ s.do = "save" /\ s.col \in Mirrored /\ s = SaveCol(s.col, s.key, s.val)
         /\ Due \in Dues /\ Due' \in Dues /\ Due[t] = Due'[t] \cup {s} /\ (\A u \in Tasks \ {t} : Due'[u] = Due[u])
         /\ \A z \in Due'[t] : z.do = "save" => z.col = "lv" /\ Saving(s, "sp", z.key)
         /\ mem' = mem /\ earned' = earned
<1> DEFINE s == Step(t)
<1>1. program[t] # <<>> /\ Done(t) /\ mem' = mem /\ earned' = earned /\ s.do \in {"save", "deposit", "spend", "class"}
  BY DEF Save, DbFails, At, Idle, Step, history
<1>2. s.do = "save" /\ s.col \in Mirrored
  BY <1>1 DEF Notes
<1>3. s \in Steps /\ s = SaveCol(s.col, s.key, s.val)
  BY <1>1, <1>2, HeadFacts, StepShapes
<1>4. Due \in Dues
  BY DueTypes DEF Dues
<1>5. /\ Due' \in Dues /\ Due[t] = Due'[t] \cup {s} /\ (\A u \in Tasks \ {t} : Due'[u] = Due[u])
      /\ \A z \in Due'[t] : z.do = "save" => z.col = "lv" /\ Saving(s, "sp", z.key)
  BY <1>1, DueDone DEF Dues
<1> QED BY <1>1, <1>2, <1>3, <1>4, <1>5

\* One UPDATE changes one column.
LEMMA WrittenColumns ==
  ASSUME TypeOK, NEW s \in Steps, s.do = "save"
  PROVE  /\ Written(s).sp = IF s.col = "sp" THEN [row.sp EXCEPT ![s.key] = s.val] ELSE row.sp
         /\ Written(s).lv = IF s.col = "lv" THEN [row.lv EXCEPT ![s.key] = s.val] ELSE row.lv
         /\ Written(s).gc = IF s.col = "gc" THEN s.val ELSE row.gc
         /\ Written(s).rank = IF s.col = "rank" THEN [row.rank EXCEPT ![s.key] = s.val] ELSE row.rank
<1>1. row \in Characters
  BY DEF TypeOK
<1>2. s.col \in {"sp", "lv", "main", "rest", "gc", "rank"}
  BY StepShapes
<1>3. CASE s.col = "sp"
  BY <1>1, <1>3 DEF Written, Characters
<1>4. CASE s.col = "lv"
  BY <1>1, <1>4 DEF Written, Characters
<1>5. CASE s.col = "main"
  BY <1>1, <1>5 DEF Written, Characters
<1>6. CASE s.col = "rest"
  BY <1>1, <1>6 DEF Written, Characters
<1>7. CASE s.col = "gc"
  BY <1>1, <1>7 DEF Written, Characters
<1>8. CASE s.col = "rank"
  BY <1>1, <1>8 DEF Written, Characters
<1> QED BY <1>2, <1>3, <1>4, <1>5, <1>6, <1>7, <1>8

\* A write of another column, and another failed call, are not noticed.
LEMMA AsideSaves ==
  ASSUME TypeOK, NEW t \in Tasks, Save(t) \/ DbFails(t), ~Notes(Step(t))
  PROVE  Aside
<1>1. program[t] # <<>> /\ Done(t) /\ mem' = mem /\ earned' = earned /\ spoiled \subseteq spoiled'
  BY DEF Save, DbFails, At, Idle, Step, history
<1>2. Due' = Due
  BY <1>1, DueDone
<1>3. row'.sp = row.sp /\ row'.lv = row.lv /\ row'.gc = row.gc /\ row'.rank = row.rank
  <2>1. CASE Save(t)
    <3>1. Step(t).do = "save" /\ row' = Written(Step(t)) /\ Step(t) \in Steps
      BY <1>1, <2>1, HeadFacts DEF Save, At, Step
    <3>2. Step(t).col \notin Mirrored
      BY <3>1 DEF Notes
    <3> QED BY <3>1, <3>2, WrittenColumns DEF Mirrored
  <2>2. CASE DbFails(t)
    BY <2>2 DEF DbFails
  <2> QED BY <2>1, <2>2
<1> QED BY <1>1, <1>2, <1>3 DEF Aside, SameColumns

\* What a write does to its cell, and to no other.
LEMMA SaveEffect ==
  ASSUME TypeOK, NEW t \in Tasks, Save(t) \/ DbFails(t), Notes(Step(t)), NEW s \in Steps, s = Step(t), s.do = "save", s.col \in Mirrored
  PROVE  /\ \A col, key : Unspoiled(col, key)' => Unspoiled(col, key)
         /\ \A c \in Classes : Unspoiled("sp", c)' => row'.sp[c] = IF Saving(s, "sp", c) THEN s.val ELSE row.sp[c]
         /\ \A c \in Classes : Unspoiled("lv", c)' => row'.lv[c] = IF Saving(s, "lv", c) THEN s.val ELSE row.lv[c]
         /\ Unspoiled("gc", None)' => row'.gc = IF Saving(s, "gc", None) THEN s.val ELSE row.gc
         /\ \A g \in GCs : Unspoiled("rank", g)' => row'.rank[g] = IF Saving(s, "rank", g) THEN s.val ELSE row.rank[g]
<1>1. s = Step(t) /\ s.do = "save" /\ s.col \in Mirrored
  OBVIOUS
<1>2. \A col, key : Saving(s, col, key) <=> col = s.col /\ key = s.key
  BY DEF Saving
<1>3. ASSUME DbFails(t) PROVE spoiled \subseteq spoiled' /\ ~Unspoiled(s.col, s.key)' /\ row' = row
  <2>1. spoiled' = spoiled \cup Cells(<<s>>) /\ row' = row
    BY <1>1, <1>3 DEF DbFails
  <2>2. s \in Notable(<<s>>)
    BY <1>1, NotableOne
  <2>3. <<s.col, s.key>> \in Cells(<<s>>)
    BY <1>1, <1>2, <2>2, CellsAre
  <2> QED BY <2>1, <2>3 DEF Unspoiled
<1>4. \A col, key : Unspoiled(col, key)' => Unspoiled(col, key)
  <2>1. Save(t) => spoiled' = spoiled
    BY DEF Save, history
  <2> QED BY <1>3, <2>1 DEF Unspoiled
<1>5. /\ \A c \in Classes : Unspoiled("sp", c)' => row'.sp[c] = IF Saving(s, "sp", c) THEN s.val ELSE row.sp[c]
      /\ \A c \in Classes : Unspoiled("lv", c)' => row'.lv[c] = IF Saving(s, "lv", c) THEN s.val ELSE row.lv[c]
      /\ Unspoiled("gc", None)' => row'.gc = IF Saving(s, "gc", None) THEN s.val ELSE row.gc
      /\ \A g \in GCs : Unspoiled("rank", g)' => row'.rank[g] = IF Saving(s, "rank", g) THEN s.val ELSE row.rank[g]
  <2>1. CASE DbFails(t)
    BY <1>2, <1>3, <2>1
  <2>2. CASE Save(t)
    <3>1. row' = Written(s) /\ row \in Characters
      BY <1>1, <2>2 DEF Save, TypeOK
    <3>2. s.col = "gc" => s.key = None
      BY <1>1, StepShapes
    <3>3. Written(s).sp = (IF s.col = "sp" THEN [row.sp EXCEPT ![s.key] = s.val] ELSE row.sp) /\ row.sp \in [Classes -> Nat]
      BY <1>1, <3>1, WrittenColumns DEF Characters
    <3>4. Written(s).lv = (IF s.col = "lv" THEN [row.lv EXCEPT ![s.key] = s.val] ELSE row.lv) /\ row.lv \in [Classes -> 0..MaxLevel]
      BY <1>1, <3>1, WrittenColumns DEF Characters
    <3>5. Written(s).gc = IF s.col = "gc" THEN s.val ELSE row.gc
      BY <1>1, WrittenColumns
    <3>6. Written(s).rank = (IF s.col = "rank" THEN [row.rank EXCEPT ![s.key] = s.val] ELSE row.rank) /\ row.rank \in [GCs -> 0..TopRank]
      BY <1>1, <3>1, WrittenColumns DEF Characters
    <3>7. \A c \in Classes : row'.sp[c] = IF Saving(s, "sp", c) THEN s.val ELSE row.sp[c]
      BY <1>2, <3>1, <3>3
    <3>8. \A c \in Classes : row'.lv[c] = IF Saving(s, "lv", c) THEN s.val ELSE row.lv[c]
      BY <1>2, <3>1, <3>4
    <3>9. row'.gc = IF Saving(s, "gc", None) THEN s.val ELSE row.gc
      BY <1>2, <3>1, <3>2, <3>5
    <3>10. \A g \in GCs : row'.rank[g] = IF Saving(s, "rank", g) THEN s.val ELSE row.rank[g]
      BY <1>2, <3>1, <3>6
    <3> QED BY <3>7, <3>8, <3>9, <3>10
  <2> QED BY <2>1, <2>2
<1> QED BY <1>4, <1>5

\* A login, after a logout or in the next process.
LEMMA LoginView ==
  ASSUME TypeOK, Relogin \/ Crash
  PROVE  /\ Due' \in Dues /\ mem' = row /\ row' = row /\ earned' = earned
         /\ \A t \in Tasks : \A s \in Due'[t] : s.do \notin {"memLevel", "readRank"}
         /\ \A col \in Mirrored : \A key : Unspoiled(col, key)' => Unspoiled(col, key) /\ Unwritten(Due', col, key)
<1>1. CASE Crash
  <2>1. (\A t \in Tasks : program'[t] = <<>>) /\ mem' = row /\ row' = row /\ earned' = earned /\ spoiled' = spoiled
    BY <1>1 DEF Crash, Loaded
  <2>2. Due' = [t \in Tasks |-> {}]
    <3>1. Due' = [t \in Tasks |-> Notable(program'[t])]
      BY DEF Due
    <3>2. \A t \in Tasks : Notable(program'[t]) = {}
      BY <2>1, NotableOne
    <3> QED BY <3>1, <3>2
  <2> QED BY <2>1, <2>2 DEF Dues, Unwritten, Unspoiled
<1>2. CASE Relogin
  <2>1. /\ program["packet"] = <<>> /\ mem' = row /\ program'["packet"] = <<>>
        /\ program' \in [Tasks -> Seq(Steps)] /\ DOMAIN program'["ticker"] = DOMAIN program["ticker"]
        /\ \A i \in DOMAIN program["ticker"] :
              IF program["ticker"][i].do = "pick" THEN program'["ticker"][i].do = "gain"
              ELSE program'["ticker"][i] = program["ticker"][i]
        /\ spoiled' = spoiled \cup Cells(program["ticker"])
        /\ row' = row /\ earned' = earned
    BY <1>2, ReloginFacts
  <2>2. Tasks = {"packet", "ticker"} /\ "packet" # "ticker"
    BY DEF Tasks
  <2>3. Notable(program'["ticker"]) = Notable(program["ticker"])
    <3> DEFINE p == program["ticker"]  q == program'["ticker"]
    <3>1. \A i \in DOMAIN p : (Notes(p[i]) <=> Notes(q[i])) /\ (Notes(p[i]) => q[i] = p[i])
      <4> SUFFICES ASSUME NEW i \in DOMAIN p PROVE (Notes(p[i]) <=> Notes(q[i])) /\ (Notes(p[i]) => q[i] = p[i])
        OBVIOUS
      <4>1. CASE p[i].do = "pick"
        <5>1. q[i].do = "gain"
          BY <2>1, <4>1
        <5> QED BY <4>1, <5>1 DEF Notes
      <4>2. CASE p[i].do # "pick"
        BY <2>1, <4>2
      <4> QED BY <4>1, <4>2
    <3>2. DOMAIN q = DOMAIN p
      BY <2>1
    <3> HIDE DEF p, q
    <3>3. Notable(q) = Notable(p)
      BY <3>1, <3>2 DEF Notable
    <3> QED BY <3>3 DEF p, q
  <2>4. Due' = Due /\ Due \in Dues /\ Due["packet"] = {} /\ Due["ticker"] = Notable(program["ticker"])
    <3>1. Due \in Dues /\ Due["packet"] = {} /\ Due["ticker"] = Notable(program["ticker"])
      BY <2>1, <2>2, DueTypes DEF Dues
    <3>2. Due' = [t \in Tasks |-> Notable(program'[t])]
      BY DEF Due
    <3>3. Due = [t \in Tasks |-> Notable(program[t])]
      BY DEF Due
    <3>4. \A t \in Tasks : Notable(program'[t]) = Notable(program[t])
      BY <2>1, <2>2, <2>3
    <3> QED BY <3>1, <3>2, <3>3, <3>4
  <2>5. \A t \in Tasks : \A s \in Due'[t] : s.do \notin {"memLevel", "readRank"}
    BY <2>2, <2>4, PacketsOwn
  <2>6. ASSUME NEW col \in Mirrored, NEW key, Unspoiled(col, key)' PROVE Unspoiled(col, key) /\ Unwritten(Due', col, key)
    <3>1. <<col, key>> \notin spoiled /\ <<col, key>> \notin Cells(program["ticker"])
      BY <2>1, <2>6 DEF Unspoiled
    <3>2. \A s \in Due["ticker"] : ~Saving(s, col, key)
      BY <2>4, <3>1, CellsAre
    <3> QED BY <2>2, <2>4, <3>1, <3>2 DEF Unspoiled, Unwritten
  <2> QED BY <2>1, <2>4, <2>5, <2>6
<1> QED BY <1>1, <1>2

-----------------------------------------------------------------------------
(* Progress is mirrored *)

\* MirrorInv holds at first, and every action keeps it.
LEMMA MirrorInit == Init => MirrorInv
<1> SUFFICES ASSUME Init PROVE MirrorInv
  OBVIOUS
<1>1. row = mem /\ \A t \in Tasks : program[t] = <<>>
  BY DEF Init
<1>2. \A t \in Tasks : Due[t] = {}
  BY <1>1, TypeInit, DueTypes
<1> QED BY <1>1, <1>2 DEF MirrorInv, PointsMirrored, LevelsMirrored, CompanyMirrored, RanksMirrored,
                        Agree, AgreeLevel, AgreeRank, Foreseen, Unwritten, Resets

\* Steps that leave memory, rows and pending writes alone.
LEMMA MirrorAside ==
  ASSUME MirrorInv, Aside
  PROVE  MirrorInv'
<1>1. /\ Due' = Due /\ mem'.sp = mem.sp /\ mem'.lv = mem.lv /\ mem'.gc = mem.gc /\ mem'.rank = mem.rank
      /\ row'.sp = row.sp /\ row'.lv = row.lv /\ row'.gc = row.gc /\ row'.rank = row.rank
      /\ \A col, key : Unspoiled(col, key)' => Unspoiled(col, key)
  BY DEF Aside, SameColumns, Unspoiled
<1>2. PointsMirrored'
  BY <1>1 DEF MirrorInv, PointsMirrored
<1>3. LevelsMirrored'
  BY <1>1 DEF MirrorInv, LevelsMirrored
<1>4. CompanyMirrored'
  BY <1>1 DEF MirrorInv, CompanyMirrored
<1>5. RanksMirrored'
  BY <1>1 DEF MirrorInv, RanksMirrored
<1> QED BY <1>2, <1>3, <1>4, <1>5 DEF MirrorInv

\* Experience granted, with the level-ups it brings.
LEMMA MirrorGain ==
  ASSUME TypeOK, MirrorInv, NEW t \in Tasks, NEW c \in Classes, NEW exp \in Gains,
         program[t] = <<>> \/ (Len(program[t]) = 1 /\ ~Notes(Step(t))), Gain(t, c, exp)
  PROVE  MirrorInv'
<1>1. PICK N \in Dues, M \in Dues : N = Due /\ M = Due'
  BY GainView
<1>2. PICK x, y : x = SaveCol("sp", c, mem'.sp[c]) /\ y = SaveCol("lv", c, mem'.lv[c])
  OBVIOUS
<1>3. /\ N[t] = {} /\ (\A u \in Tasks \ {t} : M[u] = N[u]) /\ x \in M[t] /\ (\A s \in M[t] : s = x \/ s = y)
      /\ (mem'.lv[c] # mem.lv[c] => y \in M[t]) /\ spoiled' = spoiled \cup Crossed(t, program'[t]) /\ M[t] = Notable(program'[t])
  BY <1>1, <1>2, GainView
<1>4. /\ mem'.gc = mem.gc /\ mem'.rank = mem.rank /\ row' = row
      /\ \A d \in Classes \ {c} : mem'.lv[d] = mem.lv[d] /\ mem'.sp[d] = mem.sp[d]
  BY GainFacts
<1>5. /\ \A col, key : Saving(x, col, key) <=> col = "sp" /\ key = c
      /\ \A col, key : Saving(y, col, key) <=> col = "lv" /\ key = c
      /\ x.val = mem'.sp[c] /\ y.val = mem'.lv[c] /\ x.do = "save" /\ y.do = "save"
  BY <1>2, SavingCol, ColVal
<1>6. \A col \in Mirrored : \A key : Unspoiled(col, key)' =>
           /\ Unspoiled(col, key)
           /\ (\E s \in M[t] : Saving(s, col, key)) => \A u \in Tasks \ {t} : \A s \in N[u] : ~Saving(s, col, key)
  <2>1. PICK q : q = program'[t]
    OBVIOUS
  <2> QED BY <1>1, <1>3, <2>1, Uncrossed
<1>7. "sp" \in Mirrored /\ "lv" \in Mirrored /\ "gc" \in Mirrored /\ "rank" \in Mirrored
  BY DEF Mirrored
<1>8. ASSUME NEW d \in Classes, Unspoiled("sp", d)' PROVE Agree(M, "sp", d, mem'.sp[d], row'.sp[d])
  <2>1. Agree(N, "sp", d, mem.sp[d], row.sp[d])
    BY <1>1, <1>6, <1>7, <1>8 DEF MirrorInv, PointsMirrored
  <2>2. CASE d = c
    <3>1. \A u \in Tasks \ {t} : \A s \in N[u] : ~Saving(s, "sp", c)
      BY <1>3, <1>5, <1>6, <1>7, <1>8, <2>2
    <3>2. (\E s \in M[t] : Saving(s, "sp", c)) /\ \A s \in M[t] : Saving(s, "sp", c) => s.val = mem'.sp[c]
      BY <1>3, <1>5
    <3> QED BY <1>3, <2>2, <3>1, <3>2, AgreeNew
  <2>3. CASE d # c
    <3>1. (\A s \in N[t] : ~Saving(s, "sp", d)) /\ \A s \in M[t] : ~Saving(s, "sp", d)
      BY <1>3, <1>5, <2>3
    <3>2. Agree(M, "sp", d, mem.sp[d], row.sp[d])
      BY <1>3, <2>1, <3>1, AgreeNew
    <3> QED BY <1>4, <2>3, <3>2
  <2> QED BY <2>2, <2>3
<1>9. ASSUME NEW d \in Classes, Unspoiled("lv", d)' PROVE AgreeLevel(M, d, mem'.lv[d], row'.lv[d])
  <2>1. AgreeLevel(N, d, mem.lv[d], row.lv[d])
    BY <1>1, <1>6, <1>7, <1>9 DEF MirrorInv, LevelsMirrored
  <2>2. CASE d = c /\ y \in M[t]
    <3>1. \A u \in Tasks \ {t} : \A s \in N[u] : ~Saving(s, "lv", c)
      BY <1>3, <1>5, <1>6, <1>7, <1>9, <2>2
    <3>2. (\E s \in M[t] : Saving(s, "lv", c)) /\ \A s \in M[t] : Saving(s, "lv", c) => s.val = mem'.lv[c]
      BY <1>3, <1>5, <2>2
    <3> QED BY <1>3, <2>2, <3>1, <3>2, LevelNew, ZenonT(60)
  <2>3. CASE ~(d = c /\ y \in M[t])
    <3>1. \A s \in N[t] \cup M[t] : ~Saving(s, "lv", d) /\ s.do # "memLevel"
      BY <1>3, <1>5, <2>3
    <3>2. AgreeLevel(M, d, mem.lv[d], row.lv[d])
      BY <1>3, <2>1, <3>1, LevelNew
    <3>3. mem'.lv[d] = mem.lv[d]
      BY <1>3, <1>4, <2>3
    <3> QED BY <1>4, <3>2, <3>3
  <2> QED BY <2>2, <2>3
<1>10. ASSUME Unspoiled("gc", None)' PROVE Agree(M, "gc", None, mem'.gc, row'.gc)
  <2>1. Agree(N, "gc", None, mem.gc, row.gc)
    BY <1>1, <1>6, <1>7, <1>10 DEF MirrorInv, CompanyMirrored
  <2>2. (\A s \in N[t] : ~Saving(s, "gc", None)) /\ \A s \in M[t] : ~Saving(s, "gc", None)
    BY <1>3, <1>5
  <2>3. Agree(M, "gc", None, mem.gc, row.gc)
    BY <1>3, <2>1, <2>2, AgreeNew
  <2> QED BY <1>4, <2>3
<1>11. ASSUME NEW g \in GCs, Unspoiled("rank", g)' PROVE AgreeRank(M, g, mem'.rank[g], row'.rank[g])
  <2>1. AgreeRank(N, g, mem.rank[g], row.rank[g])
    BY <1>1, <1>6, <1>7, <1>11 DEF MirrorInv, RanksMirrored
  <2>2. \A s \in N[t] \cup M[t] : ~Saving(s, "rank", g) /\ ~(s.do = "readRank" /\ s.key = g)
    BY <1>3, <1>5
  <2>3. AgreeRank(M, g, mem.rank[g], row.rank[g])
    BY <1>3, <2>1, <2>2, RankNew
  <2> QED BY <1>4, <2>3
<1> QED BY <1>1, <1>8, <1>9, <1>10, <1>11 DEF MirrorInv, PointsMirrored, LevelsMirrored, CompanyMirrored, RanksMirrored

\* A class used for the first time: its level is to be saved and then reset in memory.
LEMMA MirrorInitClass ==
  ASSUME TypeOK, MirrorInv, NEW t \in Tasks, InitClass(t)
  PROVE  MirrorInv'
<1>1. PICK c \in Classes :
         /\ Due \in Dues /\ Due' \in Dues /\ Due[t] = {} /\ (\A u \in Tasks \ {t} : Due'[u] = Due[u])
         /\ Due'[t] = {SaveCol("lv", c, 1), Do("memLevel", c, 1)}
         /\ (\E q : spoiled' = spoiled \cup Crossed(t, q) /\ Due'[t] = Notable(q))
         /\ UNCHANGED <<mem, row, earned>>
  BY InitView
<1>0. PICK x, y : x = SaveCol("lv", c, 1) /\ y = Do("memLevel", c, 1)
  OBVIOUS
<1>2. PICK N \in Dues, M \in Dues : N = Due /\ M = Due' /\ x = SaveCol("lv", c, 1) /\ y = Do("memLevel", c, 1)
  BY <1>0, <1>1
<1>3. N[t] = {} /\ (\A u \in Tasks \ {t} : M[u] = N[u]) /\ M[t] = {x, y}
  BY <1>1, <1>2
<1>4. /\ \A col, key : Saving(x, col, key) <=> col = "lv" /\ key = c
      /\ \A col, key : ~Saving(y, col, key)
      /\ x.val = 1 /\ x.do = "save" /\ y.do = "memLevel" /\ y.key = c
  <2>1. y.do = "memLevel" /\ y.key = c
    BY <1>2 DEF Do
  <2>2. \A col, key : ~Saving(y, col, key)
    BY <2>1 DEF Saving
  <2> QED BY <1>2, <2>1, <2>2, SavingCol, ColVal
<1>5. \A col \in Mirrored : \A key : Unspoiled(col, key)' =>
           /\ Unspoiled(col, key)
           /\ (\E s \in M[t] : Saving(s, col, key)) => \A u \in Tasks \ {t} : \A s \in N[u] : ~Saving(s, col, key)
  <2>1. PICK q : spoiled' = spoiled \cup Crossed(t, q) /\ Due'[t] = Notable(q)
    BY <1>1
  <2> QED BY <1>2, <2>1, Uncrossed
<1>6. "sp" \in Mirrored /\ "lv" \in Mirrored /\ "gc" \in Mirrored /\ "rank" \in Mirrored
  BY DEF Mirrored
<1>7. ASSUME NEW d \in Classes, Unspoiled("sp", d)' PROVE Agree(M, "sp", d, mem'.sp[d], row'.sp[d])
  <2>1. Agree(N, "sp", d, mem.sp[d], row.sp[d])
    BY <1>2, <1>5, <1>6, <1>7 DEF MirrorInv, PointsMirrored
  <2>2. (\A s \in N[t] : ~Saving(s, "sp", d)) /\ \A s \in M[t] : ~Saving(s, "sp", d)
    BY <1>3, <1>4
  <2> QED BY <1>1, <1>3, <2>1, <2>2, AgreeNew
<1>8. ASSUME NEW d \in Classes, Unspoiled("lv", d)' PROVE AgreeLevel(M, d, mem'.lv[d], row'.lv[d])
  <2>1. AgreeLevel(N, d, mem.lv[d], row.lv[d])
    BY <1>2, <1>5, <1>6, <1>8 DEF MirrorInv, LevelsMirrored
  <2>2. CASE d = c
    <3>1. \A u \in Tasks \ {t} : \A s \in N[u] : ~Saving(s, "lv", c)
      BY <1>3, <1>4, <1>5, <1>6, <1>8, <2>2
    <3>2. Resets(M[t], c)
      BY <1>3, <1>4 DEF Resets
    <3>3. (\E s \in M[t] : Saving(s, "lv", c)) /\ \A s \in M[t] : Saving(s, "lv", c) => s.val = 1 /\ Resets(M[t], c)
      BY <1>3, <1>4, <3>2
    <3> QED BY <1>3, <2>2, <3>1, <3>3, LevelNew
  <2>3. CASE d # c
    <3>1. \A u \in Tasks : \A s \in M[u] : Saving(s, "lv", d) => s \in N[u]
      BY <1>3, <1>4, <2>3
    <3>2. \A u \in Tasks : Resets(M[u], d) <=> Resets(N[u], d)
      <4>1. ~Resets(M[t], d) /\ ~Resets(N[t], d)
        BY <1>3, <1>4, <2>3 DEF Resets
      <4> QED BY <1>3, <4>1
    <3>3. Unwritten(M, "lv", d) => Unwritten(N, "lv", d)
      BY <1>3, <1>4 DEF Unwritten
    <3>4. AgreeLevel(M, d, mem.lv[d], row.lv[d])
      BY <2>1, <3>1, <3>2, <3>3 DEF AgreeLevel
    <3> QED BY <1>1, <3>4
  <2> QED BY <2>2, <2>3
<1>9. ASSUME Unspoiled("gc", None)' PROVE Agree(M, "gc", None, mem'.gc, row'.gc)
  <2>1. Agree(N, "gc", None, mem.gc, row.gc)
    BY <1>2, <1>5, <1>6, <1>9 DEF MirrorInv, CompanyMirrored
  <2>2. (\A s \in N[t] : ~Saving(s, "gc", None)) /\ \A s \in M[t] : ~Saving(s, "gc", None)
    BY <1>3, <1>4
  <2> QED BY <1>1, <1>3, <2>1, <2>2, AgreeNew
<1>10. ASSUME NEW g \in GCs, Unspoiled("rank", g)' PROVE AgreeRank(M, g, mem'.rank[g], row'.rank[g])
  <2>1. AgreeRank(N, g, mem.rank[g], row.rank[g])
    BY <1>2, <1>5, <1>6, <1>10 DEF MirrorInv, RanksMirrored
  <2>2. \A s \in N[t] \cup M[t] : ~Saving(s, "rank", g) /\ ~(s.do = "readRank" /\ s.key = g)
    BY <1>3, <1>4
  <2> QED BY <1>1, <1>3, <2>1, <2>2, RankNew
<1> QED BY <1>2, <1>7, <1>8, <1>9, <1>10 DEF MirrorInv, PointsMirrored, LevelsMirrored, CompanyMirrored, RanksMirrored

\* The level 1 of a class used for the first time, set in memory after it was saved.
LEMMA MirrorMemLevel ==
  ASSUME TypeOK, MirrorInv, NEW t \in Tasks, MemLevel(t)
  PROVE  MirrorInv'
<1>1. PICK s \in Steps :
         /\ s.do = "memLevel" /\ s.key \in Classes /\ t = "packet"
         /\ Due \in Dues /\ Due' \in Dues /\ Due[t] = Due'[t] \cup {s} /\ (\A u \in Tasks \ {t} : Due'[u] = Due[u])
         /\ (\A z \in Due'[t] : z.do # "save" /\ z.do # "memLevel")
         /\ mem'.sp = mem.sp /\ mem'.gc = mem.gc /\ mem'.rank = mem.rank
         /\ mem'.lv[s.key] = 1 /\ (\A c \in Classes \ {s.key} : mem'.lv[c] = mem.lv[c])
         /\ spoiled' = spoiled \cup IF mem.lv[s.key] > 0 THEN {<<"lv", s.key>>} ELSE {}
         /\ UNCHANGED <<row, earned>>
  BY MemLevelView
<1>2. PICK N \in Dues, M \in Dues : N = Due /\ M = Due'
  BY <1>1
<1>3. N[t] = M[t] \cup {s} /\ (\A u \in Tasks \ {t} : M[u] = N[u]) /\ \A col, key : ~Saving(s, col, key)
  BY <1>1, <1>2 DEF Saving
<1>4. \A col, key : Unspoiled(col, key)' => Unspoiled(col, key)
  BY <1>1 DEF Unspoiled
<1>5. ASSUME NEW d \in Classes, Unspoiled("sp", d)' PROVE Agree(M, "sp", d, mem'.sp[d], row'.sp[d])
  <2>1. Agree(N, "sp", d, mem.sp[d], row.sp[d])
    BY <1>2, <1>4, <1>5 DEF MirrorInv, PointsMirrored
  <2>2. Agree(M, "sp", d, mem.sp[d], row.sp[d])
    BY <1>3, <2>1, AgreeDropped
  <2> QED BY <1>1, <2>2
<1>6. ASSUME NEW d \in Classes, Unspoiled("lv", d)' PROVE AgreeLevel(M, d, mem'.lv[d], row'.lv[d])
  <2>1. AgreeLevel(N, d, mem.lv[d], row.lv[d])
    BY <1>2, <1>4, <1>6 DEF MirrorInv, LevelsMirrored
  <2>2. CASE d # s.key
    <3>1. AgreeLevel(M, d, mem.lv[d], row.lv[d])
      BY <1>3, <2>1, <2>2, LevelDropped
    <3> QED BY <1>1, <2>2, <3>1
  <2>3. CASE d = s.key
    <3>1. mem.lv[d] = 0
      <4>1. ~(mem.lv[d] > 0)
        <5>1. mem.lv[d] > 0 => <<"lv", d>> \in spoiled'
          BY <1>1, <2>3
        <5> QED BY <1>6, <5>1 DEF Unspoiled
      <4> QED BY <4>1, MemFacts
    <3>2. ASSUME NEW u \in Tasks, NEW z \in N[u], Saving(z, "lv", d) PROVE FALSE
      <4>1. z \in Steps /\ z.do = "save" /\ z.col = "lv"
        BY <3>2 DEF Saving, Dues
      <4>2. z.val > 0
        BY <4>1, StepShapes, LevelFacts DEF Levels
      <4>3. Resets(N[u], d)
        BY <2>1, <3>1, <3>2, <4>2 DEF AgreeLevel
      <4>4. u = "packet"
        BY <1>2, <4>3, PacketsOwn DEF Resets
      <4>5. z \in M[t] \/ z = s
        BY <1>1, <1>3, <4>4
      <4> QED BY <1>1, <1>2, <4>1, <4>5
    <3>3. Unwritten(N, "lv", d)
      BY <3>2 DEF Unwritten
    <3>4. Resets(N[t], d)
      BY <1>1, <1>3, <2>3 DEF Resets
    <3>5. row.lv[d] = 1
      BY <2>1, <3>1, <3>3, <3>4 DEF AgreeLevel
    <3>6. Unwritten(M, "lv", d)
      BY <1>3, <3>3 DEF Unwritten
    <3>7. ASSUME NEW u \in Tasks, Resets(M[u], d) PROVE FALSE
      <4>1. PICK z \in M[u] : z.do = "memLevel"
        BY <3>7 DEF Resets
      <4>2. z \in N[u]
        BY <1>3
      <4>3. u = "packet"
        BY <1>2, <4>1, <4>2, PacketsOwn
      <4> QED BY <1>1, <1>2, <4>1, <4>3
    <3>8. PICK r : r = row.lv[d]
      OBVIOUS
    <3>9. AgreeLevel(M, d, r, r)
      BY <3>6, <3>7 DEF AgreeLevel, Unwritten
    <3> QED BY <1>1, <2>3, <3>5, <3>8, <3>9
  <2> QED BY <2>2, <2>3
<1>7. ASSUME Unspoiled("gc", None)' PROVE Agree(M, "gc", None, mem'.gc, row'.gc)
  <2>1. Agree(N, "gc", None, mem.gc, row.gc)
    BY <1>2, <1>4, <1>7 DEF MirrorInv, CompanyMirrored
  <2> QED BY <1>1, <1>3, <2>1, AgreeDropped
<1>8. ASSUME NEW g \in GCs, Unspoiled("rank", g)' PROVE AgreeRank(M, g, mem'.rank[g], row'.rank[g])
  <2>1. AgreeRank(N, g, mem.rank[g], row.rank[g])
    BY <1>2, <1>4, <1>8 DEF MirrorInv, RanksMirrored
  <2>2. s.do # "readRank"
    BY <1>1
  <2>3. AgreeRank(M, g, mem.rank[g], row.rank[g])
    BY <1>3, <2>1, <2>2, RankDropped
  <2> QED BY <1>1, <2>3
<1> QED BY <1>2, <1>5, <1>6, <1>7, <1>8 DEF MirrorInv, PointsMirrored, LevelsMirrored, CompanyMirrored, RanksMirrored

\* An enlistment or a rank set by script, and a promotion's read and raise of the rank.
LEMMA MirrorCompany ==
  ASSUME TypeOK, MirrorInv,
         \/ \E g \in GCs : JoinGC(g)
         \/ \E g \in GCs, r \in 1 .. TopRank : SetGCRank(g, r)
         \/ \E t \in Tasks : ReadRank(t) \/ Bump(t)
  PROVE  MirrorInv'
<1>1. /\ Due \in Dues /\ Due' \in Dues /\ "packet" \in Tasks /\ Due'["ticker"] = Due["ticker"]
      /\ mem'.sp = mem.sp /\ mem'.lv = mem.lv /\ UNCHANGED <<row, earned, spoiled>>
      /\ \E g \in GCs :
              /\ \A h \in GCs \ {g} : mem'.rank[h] = mem.rank[h]
              /\ \/ Due["packet"] = {} /\ Due'["packet"] = {SaveCol("gc", None, g), Do("readRank", g, 0)} /\ mem'.gc = g
                 \/ /\ Due["packet"] \in {{}, {Do("readRank", g, 0)}} /\ mem'.gc = mem.gc
                    /\ Due'["packet"] = {SaveCol("rank", g, mem'.rank[g])}
  BY CompanyView
<1>2. PICK N \in Dues, M \in Dues, t \in Tasks : N = Due /\ M = Due' /\ t = "packet"
  BY <1>1
<1>3. PICK g \in GCs :
              /\ \A h \in GCs \ {g} : mem'.rank[h] = mem.rank[h]
              /\ \/ N[t] = {} /\ M[t] = {SaveCol("gc", None, g), Do("readRank", g, 0)} /\ mem'.gc = g
                 \/ /\ N[t] \in {{}, {Do("readRank", g, 0)}} /\ mem'.gc = mem.gc
                    /\ M[t] = {SaveCol("rank", g, mem'.rank[g])}
  BY <1>1, <1>2
<1>4. PICK x, y, z, r : x = SaveCol("gc", None, g) /\ y = Do("readRank", g, 0) /\ z = SaveCol("rank", g, r) /\ r = mem'.rank[g]
  OBVIOUS
<1>5. /\ \A u \in Tasks \ {t} : M[u] = N[u]
      /\ \/ N[t] = {} /\ M[t] = {x, y} /\ mem'.gc = g
         \/ N[t] \in {{}, {y}} /\ mem'.gc = mem.gc /\ M[t] = {z}
  BY <1>1, <1>2, <1>3, <1>4 DEF Tasks
<1>6. /\ \A col, key : Saving(x, col, key) <=> col = "gc" /\ key = None
      /\ \A col, key : ~Saving(y, col, key)
      /\ \A col, key : Saving(z, col, key) <=> col = "rank" /\ key = g
      /\ x.val = g /\ z.val = r /\ x.do = "save" /\ z.do = "save" /\ y.do = "readRank" /\ y.key = g
  <2>1. y.do = "readRank" /\ y.key = g
    BY <1>4 DEF Do
  <2>2. \A col, key : ~Saving(y, col, key)
    BY <2>1 DEF Saving
  <2> QED BY <1>4, <2>1, <2>2, SavingCol, ColVal
<1>7. \A col, key : Unspoiled(col, key)' => Unspoiled(col, key)
  BY <1>1 DEF Unspoiled
<1>8. \A u \in Tasks \ {t} : \A s \in N[u] : \A key : ~Saving(s, "gc", key) /\ ~Saving(s, "rank", key)
  BY <1>2, PacketsOwn DEF Saving
<1>9. ASSUME NEW d \in Classes, Unspoiled("sp", d)' PROVE Agree(M, "sp", d, mem'.sp[d], row'.sp[d])
  <2>1. Agree(N, "sp", d, mem.sp[d], row.sp[d])
    BY <1>2, <1>7, <1>9 DEF MirrorInv, PointsMirrored
  <2>2. (\A s \in N[t] : ~Saving(s, "sp", d)) /\ \A s \in M[t] : ~Saving(s, "sp", d)
    BY <1>5, <1>6
  <2> QED BY <1>1, <1>5, <2>1, <2>2, AgreeNew
<1>10. ASSUME NEW d \in Classes, Unspoiled("lv", d)' PROVE AgreeLevel(M, d, mem'.lv[d], row'.lv[d])
  <2>1. AgreeLevel(N, d, mem.lv[d], row.lv[d])
    BY <1>2, <1>7, <1>10 DEF MirrorInv, LevelsMirrored
  <2>2. \A s \in N[t] \cup M[t] : ~Saving(s, "lv", d) /\ s.do # "memLevel"
    BY <1>5, <1>6
  <2> QED BY <1>1, <1>5, <2>1, <2>2, LevelNew
<1>11. ASSUME Unspoiled("gc", None)' PROVE Agree(M, "gc", None, mem'.gc, row'.gc)
  <2>1. Agree(N, "gc", None, mem.gc, row.gc)
    BY <1>2, <1>7, <1>11 DEF MirrorInv, CompanyMirrored
  <2>2. CASE M[t] = {x, y} /\ mem'.gc = g
    <3>1. (\E s \in M[t] : Saving(s, "gc", None)) /\ \A s \in M[t] : Saving(s, "gc", None) => s.val = g
      BY <1>6, <2>2
    <3> QED BY <1>5, <1>8, <2>2, <3>1, AgreeNew
  <2>3. CASE N[t] \in {{}, {y}} /\ mem'.gc = mem.gc /\ M[t] = {z}
    <3>1. (\A s \in N[t] : ~Saving(s, "gc", None)) /\ \A s \in M[t] : ~Saving(s, "gc", None)
      BY <1>6, <2>3
    <3>2. Agree(M, "gc", None, mem.gc, row.gc)
      BY <1>5, <2>1, <3>1, AgreeNew
    <3> QED BY <1>1, <2>3, <3>2
  <2> QED BY <1>5, <2>2, <2>3
<1>12. ASSUME NEW h \in GCs, Unspoiled("rank", h)' PROVE AgreeRank(M, h, mem'.rank[h], row'.rank[h])
  <2>1. AgreeRank(N, h, mem.rank[h], row.rank[h])
    BY <1>2, <1>7, <1>12 DEF MirrorInv, RanksMirrored
  <2>2. CASE h = g
    <3>1. (\A s \in M[t] : Saving(s, "rank", g) => s.val = r) /\ \E s \in M[t] : Saving(s, "rank", g) \/ (s.do = "readRank" /\ s.key = g)
      BY <1>5, <1>6
    <3>2. \A v : AgreeRank(M, g, r, v)
      BY <1>5, <1>8, <3>1, RankNew
    <3> QED BY <1>4, <2>2, <3>2
  <2>3. CASE h # g
    <3>1. \A s \in N[t] \cup M[t] : ~Saving(s, "rank", h) /\ ~(s.do = "readRank" /\ s.key = h)
      BY <1>5, <1>6, <2>3
    <3>2. AgreeRank(M, h, mem.rank[h], row.rank[h])
      BY <1>5, <2>1, <3>1, RankNew
    <3> QED BY <1>1, <1>3, <2>3, <3>2
  <2> QED BY <2>2, <2>3
<1> QED BY <1>2, <1>9, <1>10, <1>11, <1>12 DEF MirrorInv, PointsMirrored, LevelsMirrored, CompanyMirrored, RanksMirrored

\* One call of the database, done or failed.
LEMMA MirrorSave ==
  ASSUME TypeOK, MirrorInv, NEW t \in Tasks, Save(t) \/ DbFails(t), Notes(Step(t))
  PROVE  MirrorInv'
<1>1. PICK s \in Steps :
         /\ s = Step(t) /\ s.do = "save" /\ s.col \in Mirrored /\ s = SaveCol(s.col, s.key, s.val)
         /\ Due \in Dues /\ Due' \in Dues /\ Due[t] = Due'[t] \cup {s} /\ (\A u \in Tasks \ {t} : Due'[u] = Due[u])
         /\ (\A z \in Due'[t] : z.do = "save" => z.col = "lv" /\ Saving(s, "sp", z.key))
         /\ mem' = mem /\ earned' = earned
  BY SaveView
<1>2. PICK N \in Dues, M \in Dues : N = Due /\ M = Due'
  BY <1>1
<1>3. /\ N[t] = M[t] \cup {s} /\ (\A u \in Tasks \ {t} : M[u] = N[u])
      /\ \A z \in M[t] : z.do = "save" => z.col = "lv" /\ s.col = "sp"
  BY <1>1, <1>2 DEF Saving
<1>4. \A col, key : Saving(s, col, key) <=> col = s.col /\ key = s.key
  BY <1>1 DEF Saving
<1>5. \A col, key : Saving(s, col, key) => \A z \in M[t] : ~Saving(z, col, key)
  BY <1>3, <1>4 DEF Saving
<1>6. \A col, key : Unspoiled(col, key)' => Unspoiled(col, key)
  BY <1>1, SaveEffect
<1>7. /\ \A c \in Classes : Unspoiled("sp", c)' => row'.sp[c] = IF Saving(s, "sp", c) THEN s.val ELSE row.sp[c]
      /\ \A c \in Classes : Unspoiled("lv", c)' => row'.lv[c] = IF Saving(s, "lv", c) THEN s.val ELSE row.lv[c]
      /\ Unspoiled("gc", None)' => row'.gc = IF Saving(s, "gc", None) THEN s.val ELSE row.gc
      /\ \A g \in GCs : Unspoiled("rank", g)' => row'.rank[g] = IF Saving(s, "rank", g) THEN s.val ELSE row.rank[g]
  BY <1>1, SaveEffect
<1>8. ASSUME NEW d \in Classes, Unspoiled("sp", d)' PROVE Agree(M, "sp", d, mem'.sp[d], row'.sp[d])
  <2>1. Agree(N, "sp", d, mem.sp[d], row.sp[d])
    BY <1>2, <1>6, <1>8 DEF MirrorInv, PointsMirrored
  <2> QED BY <1>1, <1>3, <1>5, <1>7, <1>8, <2>1, AgreeDropped
<1>9. ASSUME NEW d \in Classes, Unspoiled("lv", d)' PROVE AgreeLevel(M, d, mem'.lv[d], row'.lv[d])
  <2>1. AgreeLevel(N, d, mem.lv[d], row.lv[d])
    BY <1>2, <1>6, <1>9 DEF MirrorInv, LevelsMirrored
  <2>2. s.do # "memLevel"
    BY <1>1
  <2> QED BY <1>1, <1>3, <1>5, <1>7, <1>9, <2>1, <2>2, LevelDropped
<1>10. ASSUME Unspoiled("gc", None)' PROVE Agree(M, "gc", None, mem'.gc, row'.gc)
  <2>1. Agree(N, "gc", None, mem.gc, row.gc)
    BY <1>2, <1>6, <1>10 DEF MirrorInv, CompanyMirrored
  <2> QED BY <1>1, <1>3, <1>5, <1>7, <1>10, <2>1, AgreeDropped
<1>11. ASSUME NEW g \in GCs, Unspoiled("rank", g)' PROVE AgreeRank(M, g, mem'.rank[g], row'.rank[g])
  <2>1. AgreeRank(N, g, mem.rank[g], row.rank[g])
    BY <1>2, <1>6, <1>11 DEF MirrorInv, RanksMirrored
  <2>2. s.do # "readRank"
    BY <1>1
  <2> QED BY <1>1, <1>3, <1>5, <1>7, <1>11, <2>1, <2>2, RankDropped
<1> QED BY <1>2, <1>8, <1>9, <1>10, <1>11 DEF MirrorInv, PointsMirrored, LevelsMirrored, CompanyMirrored, RanksMirrored

\* A relogin or a process end: memory is read back from the rows.
LEMMA MirrorLogin ==
  ASSUME TypeOK, MirrorInv, Relogin \/ Crash
  PROVE  MirrorInv'
<1>1. /\ Due' \in Dues /\ mem' = row /\ row' = row
      /\ \A t \in Tasks : \A s \in Due'[t] : s.do \notin {"memLevel", "readRank"}
      /\ \A col \in Mirrored : \A key : Unspoiled(col, key)' => Unwritten(Due', col, key)
  BY LoginView
<1>2. PICK M \in Dues : M = Due'
  BY <1>1
<1>3. "sp" \in Mirrored /\ "lv" \in Mirrored /\ "gc" \in Mirrored /\ "rank" \in Mirrored
  BY DEF Mirrored
<1>4. \A col, key, r : Unwritten(M, col, key) => Agree(M, col, key, r, r)
  BY DEF Agree, Foreseen, Unwritten
<1>5. \A t \in Tasks : \A c : ~Resets(M[t], c)
  BY <1>1, <1>2 DEF Resets
<1>6. \A c, r : Unwritten(M, "lv", c) => AgreeLevel(M, c, r, r)
  BY <1>5 DEF AgreeLevel, Unwritten
<1>7. \A g, r : Unwritten(M, "rank", g) => AgreeRank(M, g, r, r)
  BY DEF AgreeRank, Foreseen, Unwritten
<1>8. PointsMirrored'
  BY <1>1, <1>2, <1>3, <1>4 DEF PointsMirrored
<1>9. LevelsMirrored'
  BY <1>1, <1>2, <1>3, <1>6 DEF LevelsMirrored
<1>10. CompanyMirrored'
  BY <1>1, <1>2, <1>3, <1>4 DEF CompanyMirrored
<1>11. RanksMirrored'
  BY <1>1, <1>2, <1>3, <1>7 DEF RanksMirrored
<1> QED BY <1>8, <1>9, <1>10, <1>11 DEF MirrorInv

\* Experience is gained by a task that has nothing else to do.
LEMMA GainReady ==
  ASSUME TypeOK
  PROVE  /\ \A t \in Tasks, c \in Classes, exp \in Gains : AddExp(t, c, exp) => program[t] = <<>> /\ Gain(t, c, exp)
         /\ \A t \in Tasks : KillExp(t) =>
              /\ Len(program[t]) = 1 /\ ~Notes(Step(t)) /\ Step(t).key \in Classes /\ Step(t).n \in Gains
              /\ Gain(t, Step(t).key, Step(t).n)
<1>1. ASSUME NEW t \in Tasks, NEW c \in Classes, NEW exp \in Gains, AddExp(t, c, exp) PROVE program[t] = <<>> /\ Gain(t, c, exp)
  BY <1>1 DEF AddExp, Idle
<1>2. ASSUME NEW t \in Tasks, KillExp(t)
      PROVE  /\ Len(program[t]) = 1 /\ ~Notes(Step(t)) /\ Step(t).key \in Classes /\ Step(t).n \in Gains
             /\ Gain(t, Step(t).key, Step(t).n)
  <2>1. program[t] # <<>> /\ Step(t).do = "gain" /\ Gain(t, Step(t).key, Step(t).n)
    BY <1>2 DEF KillExp, At, Idle, Step
  <2> QED BY <2>1, HeadFacts, StepShapes DEF Notes
<1> QED BY <1>1, <1>2

\* Every step keeps MirrorInv.
LEMMA MirrorNext == TypeOK /\ MirrorInv /\ [Next]_vars => MirrorInv'
<1> SUFFICES ASSUME TypeOK, MirrorInv, [Next]_vars PROVE MirrorInv'
  OBVIOUS
<1>1. ASSUME NEW t \in Tasks, NEW c \in Classes, NEW exp \in Gains, AddExp(t, c, exp) PROVE MirrorInv'
  BY <1>1, GainReady, MirrorGain
<1>2. ASSUME NEW t \in Tasks, KillExp(t) PROVE MirrorInv'
  <2>1. PICK c \in Classes, exp \in Gains : c = Step(t).key /\ exp = Step(t).n
    BY <1>2, GainReady
  <2>2. Len(program[t]) = 1 /\ ~Notes(Step(t)) /\ Gain(t, c, exp)
    BY <1>2, <2>1, GainReady
  <2> QED BY <2>2, MirrorGain
<1>3. ASSUME NEW t \in Tasks, Save(t) \/ DbFails(t) PROVE MirrorInv'
  BY <1>3, MirrorSave, AsideSaves, MirrorAside
<1>4. ASSUME \/ \E t \in Tasks, exp \in Gains : Kill(t, exp)
             \/ \E c \in Classes : ClassChange(c)
             \/ \E g \in GCs : PromoteGC(g)
             \/ \E t \in Tasks, g \in GCs : AddSeals(t, g)
             \/ \E t \in Tasks : PickClass(t) \/ SetClass(t) \/ Award(t) \/ Deposit(t) \/ Balance(t) \/ Spend(t)
             \/ RestAtInn \/ UNCHANGED vars
      PROVE  MirrorInv'
  <2>1. Aside
    BY <1>4, AsideSteps
  <2> QED BY <2>1, MirrorAside
<1>5. ASSUME \/ \E g \in GCs : JoinGC(g)
             \/ \E g \in GCs, r \in 1 .. TopRank : SetGCRank(g, r)
             \/ \E t \in Tasks : ReadRank(t) \/ Bump(t)
      PROVE  MirrorInv'
  BY <1>5, MirrorCompany
<1>6. ASSUME NEW t \in Tasks, InitClass(t) \/ MemLevel(t) PROVE MirrorInv'
  BY <1>6, MirrorInitClass, MirrorMemLevel
<1>7. ASSUME Relogin \/ Crash PROVE MirrorInv'
  BY <1>7, MirrorLogin
<1> QED BY <1>1, <1>2, <1>3, <1>4, <1>5, <1>6, <1>7 DEF Next

\* The invariant of the proof holds of every behaviour.
LEMMA MirrorInductive == Spec => [](TypeOK /\ MirrorInv)
<1>1. Init => TypeOK /\ MirrorInv
  BY TypeInit, MirrorInit
<1>2. (TypeOK /\ MirrorInv) /\ [Next]_vars => (TypeOK /\ MirrorInv)'
  BY TypeStep, MirrorNext
<1> QED BY <1>1, <1>2, PTL DEF Spec

\* For any classes, companies, thresholds and gains, and any number of requests, failed calls, relogins
\* and process ends: once both tasks are idle, every cell of the tables that no overlapping handlers and
\* no failed call disturbed holds what the live character has.
THEOREM ProgressMirroredHolds == Spec => []ProgressMirrored
<1>1. TypeOK /\ MirrorInv => ProgressMirrored
  <2> SUFFICES ASSUME TypeOK, MirrorInv, Quiet
               PROVE  /\ \A c \in Classes : /\ Unspoiled("sp", c) => row.sp[c] = mem.sp[c]
                                            /\ Unspoiled("lv", c) => row.lv[c] = mem.lv[c]
                      /\ Unspoiled("gc", None) => row.gc = mem.gc
                      /\ \A g \in GCs : Unspoiled("rank", g) => row.rank[g] = mem.rank[g]
    BY DEF ProgressMirrored
  <2>1. \A t \in Tasks : Due[t] = {}
    BY DueTypes DEF Quiet, Idle
  <2>2. \A col, key : Unwritten(Due, col, key)
    BY <2>1 DEF Unwritten
  <2>3. \A c \in Classes, t \in Tasks : ~Resets(Due[t], c)
    BY <2>1 DEF Resets
  <2>4. \A g \in GCs : ~Rereads(Due, g)
    BY <2>1 DEF Rereads
  <2> QED BY <2>2, <2>3, <2>4 DEF MirrorInv, PointsMirrored, LevelsMirrored, CompanyMirrored, RanksMirrored, Agree, AgreeLevel, AgreeRank
<1> QED BY <1>1, MirrorInductive, PTL

-----------------------------------------------------------------------------
(* No free progress *)

\* The points a class was granted (e) cover what the live class (ml, ms) and the saved class (rl, rs)
\* stand for, the saved level is not ahead of the live one, and a level whose points were already
\* written may be written too.
Covered(N, c, ml, ms, rl, rs, e) ==
  /\ Progress(ml, ms) <= e /\ Progress(rl, rs) <= e /\ AtLeast1(rl) <= AtLeast1(ml)
  /\ \A t \in Tasks : \A s \in N[t] :
       Saving(s, "lv", c) /\ (\A z \in N[t] : ~Saving(z, "sp", c)) => Progress(s.val, rs) <= e
\* The invariant of the proof of NoFreeProgress, on top of MirrorInv.
FreeInv ==
  \A c \in Classes : Unspoiled("sp", c) /\ Unspoiled("lv", c)
    => Covered(Due, c, mem.lv[c], mem.sp[c], row.lv[c], row.sp[c], earned[c])

\* A higher level with the same points stands for no less.
LEMMA ProgressRises ==
  ASSUME NEW l \in 0..MaxLevel, NEW s \in Nat
  PROVE  /\ Progress(l, s) \in Nat /\ AtLeast1(l) \in Nat
         /\ \A k \in 0..MaxLevel : AtLeast1(l) <= AtLeast1(k) => Progress(l, s) <= Progress(k, s)
<1>1. \A k \in 0..MaxLevel : AtLeast1(k) \in Levels /\ AtLeast1(k) \in Nat
  BY LevelFacts DEF AtLeast1, Levels
<1>2. \A k \in 0..MaxLevel : Total[AtLeast1(k)] \in Nat
  BY <1>1, TotalIs
<1>3. \A k \in 0..MaxLevel : AtLeast1(l) <= AtLeast1(k) => Total[AtLeast1(l)] <= Total[AtLeast1(k)]
  BY <1>1, TotalRises
<1> QED BY <1>1, <1>2, <1>3 DEF Progress

\* A level still to be written is not above the live one.
LEMMA LevelInReach ==
  ASSUME TypeOK, MirrorInv, NEW t \in Tasks, NEW s \in Due[t], NEW c \in Classes, Unspoiled("lv", c), Saving(s, "lv", c)
  PROVE  s.val \in 0..MaxLevel /\ AtLeast1(s.val) <= AtLeast1(mem.lv[c])
<1>1. s \in Steps /\ s.do = "save" /\ s.col = "lv"
  BY PacketsOwn DEF Saving
<1>2. s.val \in Levels
  BY <1>1, StepShapes
<1>3. s.val \in 0..MaxLevel /\ AtLeast1(s.val) = s.val
  BY <1>2, LevelFacts DEF Levels, AtLeast1
<1>4. s.val = mem.lv[c] \/ s.val = 1
  BY DEF MirrorInv, LevelsMirrored, AgreeLevel
<1>5. mem.lv[c] \in 0..MaxLevel
  BY MemFacts
<1> QED BY <1>3, <1>4, <1>5, LevelFacts DEF AtLeast1

\* FreeInv holds at first, and every action keeps it.
LEMMA FreeInit == Init => FreeInv
<1> SUFFICES ASSUME Init, NEW c \in Classes PROVE Covered(Due, c, mem.lv[c], mem.sp[c], row.lv[c], row.sp[c], earned[c])
  BY DEF FreeInv
<1>1. row = mem /\ (\A t \in Tasks : program[t] = <<>>) /\ mem.lv[c] \in {0, 1} /\ mem.sp[c] = 0 /\ earned[c] = 0
  BY DEF Init
<1>2. \A t \in Tasks : Due[t] = {}
  BY <1>1, TypeInit, DueTypes
<1>3. AtLeast1(mem.lv[c]) = 1
  BY <1>1 DEF AtLeast1
<1>4. Progress(mem.lv[c], mem.sp[c]) = 0
  BY <1>1, <1>3, TotalIs DEF Progress
<1> QED BY <1>1, <1>2, <1>3, <1>4 DEF Covered

\* Steps that leave memory, rows and pending writes alone.
LEMMA FreeAside ==
  ASSUME FreeInv, Aside
  PROVE  FreeInv'
<1>1. /\ Due' = Due /\ mem'.sp = mem.sp /\ mem'.lv = mem.lv /\ row'.sp = row.sp /\ row'.lv = row.lv /\ earned' = earned
      /\ \A col, key : Unspoiled(col, key)' => Unspoiled(col, key)
  BY DEF Aside, SameColumns, Unspoiled
<1> QED BY <1>1 DEF FreeInv

\* Nothing that matters to the class happens.
LEMMA CoveredStill ==
  ASSUME NEW N, NEW M, NEW c, NEW ml, NEW ms, NEW rl, NEW rs, NEW e, Covered(N, c, ml, ms, rl, rs, e),
         \A u \in Tasks : \A s \in M[u] : Saving(s, "lv", c) => s \in N[u],
         \A u \in Tasks : (\E s \in M[u] : Saving(s, "lv", c)) => \A z \in N[u] : Saving(z, "sp", c) => z \in M[u]
  PROVE  Covered(M, c, ml, ms, rl, rs, e)
<1>1. ASSUME NEW u \in Tasks, NEW s \in M[u], Saving(s, "lv", c), \A z \in M[u] : ~Saving(z, "sp", c) PROVE Progress(s.val, rs) <= e
  <2>1. s \in N[u] /\ \A z \in N[u] : ~Saving(z, "sp", c)
    BY <1>1
  <2> QED BY <1>1, <2>1 DEF Covered
<1> QED BY <1>1 DEF Covered

\* Experience granted: what memory stands for grows by no more.
LEMMA FreeGain ==
  ASSUME TypeOK, FreeInv, NEW t \in Tasks, NEW c \in Classes, NEW exp \in Gains,
         program[t] = <<>> \/ (Len(program[t]) = 1 /\ ~Notes(Step(t))), Gain(t, c, exp)
  PROVE  FreeInv'
<1>1. PICK N \in Dues, M \in Dues : N = Due /\ M = Due'
  BY GainView
<1>2. PICK x, y : x = SaveCol("sp", c, mem'.sp[c]) /\ y = SaveCol("lv", c, mem'.lv[c])
  OBVIOUS
<1>3. /\ N[t] = {} /\ (\A u \in Tasks \ {t} : M[u] = N[u]) /\ x \in M[t] /\ (\A s \in M[t] : s = x \/ s = y)
      /\ spoiled' = spoiled \cup Crossed(t, program'[t])
  BY <1>1, <1>2, GainView
<1>4. /\ row' = row /\ earned' = [earned EXCEPT ![c] = @ + Rested(exp)] /\ mem' \in Characters
      /\ \A d \in Classes \ {c} : mem'.lv[d] = mem.lv[d] /\ mem'.sp[d] = mem.sp[d]
      /\ AtLeast1(mem.lv[c]) <= AtLeast1(mem'.lv[c])
      /\ Progress(mem'.lv[c], mem'.sp[c]) <= Progress(mem.lv[c], mem.sp[c]) + Rested(exp)
  BY GainFacts
<1>5. /\ \A col, key : Saving(x, col, key) <=> col = "sp" /\ key = c
      /\ \A col, key : Saving(y, col, key) <=> col = "lv" /\ key = c
  BY <1>2, SavingCol
<1>6. \A col, key : Unspoiled(col, key)' => Unspoiled(col, key)
  BY <1>3 DEF Unspoiled
<1> SUFFICES ASSUME NEW d \in Classes, Unspoiled("sp", d)', Unspoiled("lv", d)'
             PROVE  Covered(M, d, mem'.lv[d], mem'.sp[d], row'.lv[d], row'.sp[d], earned'[d])
  BY <1>1 DEF FreeInv
<1>7. Covered(N, d, mem.lv[d], mem.sp[d], row.lv[d], row.sp[d], earned[d])
  BY <1>1, <1>6 DEF FreeInv
<1>8. CASE d # c
  <2>1. Covered(M, d, mem.lv[d], mem.sp[d], row.lv[d], row.sp[d], earned[d])
    <3>1. \A s \in M[t] : ~Saving(s, "lv", d)
      BY <1>3, <1>5, <1>8
    <3>2. \A u \in Tasks : \A s \in M[u] : Saving(s, "lv", d) => s \in N[u] /\ M[u] = N[u]
      BY <1>3, <3>1
    <3> QED BY <1>7, <3>2, CoveredStill
  <2>2. earned'[d] = earned[d]
    BY <1>4, <1>8 DEF TypeOK
  <2> QED BY <1>4, <1>8, <2>1, <2>2
<1>9. CASE d = c
  <2>1. earned[c] \in Nat /\ Rested(exp) \in Nat /\ earned'[c] = earned[c] + Rested(exp)
    BY <1>4, RestedFacts DEF TypeOK
  <2>2. /\ mem.lv[c] \in 0..MaxLevel /\ mem.sp[c] \in Nat /\ row.lv[c] \in 0..MaxLevel /\ row.sp[c] \in Nat
        /\ mem'.lv[c] \in 0..MaxLevel /\ mem'.sp[c] \in Nat
    BY <1>4, MemFacts DEF Characters
  <2>3. /\ Progress(mem.lv[c], mem.sp[c]) \in Nat /\ Progress(row.lv[c], row.sp[c]) \in Nat /\ Progress(mem'.lv[c], mem'.sp[c]) \in Nat
        /\ AtLeast1(mem.lv[c]) \in Nat /\ AtLeast1(row.lv[c]) \in Nat /\ AtLeast1(mem'.lv[c]) \in Nat
    BY <2>2, ProgressRises
  <2>4. /\ Progress(mem.lv[c], mem.sp[c]) <= earned[c] /\ Progress(row.lv[c], row.sp[c]) <= earned[c]
        /\ AtLeast1(row.lv[c]) <= AtLeast1(mem.lv[c])
    BY <1>7, <1>9 DEF Covered
  <2>5. /\ Progress(mem'.lv[c], mem'.sp[c]) <= earned'[c] /\ Progress(row.lv[c], row.sp[c]) <= earned'[c]
        /\ AtLeast1(row.lv[c]) <= AtLeast1(mem'.lv[c])
    BY <1>4, <2>1, <2>3, <2>4
  <2>6. ASSUME NEW u \in Tasks, NEW s \in M[u], Saving(s, "lv", c), \A z \in M[u] : ~Saving(z, "sp", c) PROVE Progress(s.val, row.sp[c]) <= earned'[c]
    <3>1. u # t
      BY <1>3, <1>5, <2>6
    <3>2. s \in N[u] /\ \A z \in N[u] : ~Saving(z, "sp", c)
      BY <1>3, <2>6, <3>1
    <3>3. Progress(s.val, row.sp[c]) <= earned[c]
      BY <1>7, <1>9, <2>6, <3>2 DEF Covered
    <3>4. s \in Steps /\ s.do = "save" /\ s.col = "lv"
      BY <2>6, <3>2 DEF Saving, Dues
    <3>5. s.val \in 0..MaxLevel
      BY <3>4, StepShapes, LevelFacts DEF Levels
    <3>6. Progress(s.val, row.sp[c]) \in Nat
      BY <2>2, <3>5, ProgressRises
    <3> QED BY <2>1, <3>3, <3>6
  <2> QED BY <1>4, <1>9, <2>5, <2>6 DEF Covered
<1> QED BY <1>8, <1>9

\* A class used for the first time stands for nothing.
LEMMA FreeInitClass ==
  ASSUME TypeOK, FreeInv, NEW t \in Tasks, InitClass(t)
  PROVE  FreeInv'
<1>1. PICK c \in Classes :
         /\ Due \in Dues /\ Due' \in Dues /\ Due[t] = {} /\ (\A u \in Tasks \ {t} : Due'[u] = Due[u])
         /\ Due'[t] = {SaveCol("lv", c, 1), Do("memLevel", c, 1)}
         /\ (\E q : spoiled' = spoiled \cup Crossed(t, q) /\ Due'[t] = Notable(q))
         /\ UNCHANGED <<mem, row, earned>>
  BY InitView
<1>0. PICK x, y : x = SaveCol("lv", c, 1) /\ y = Do("memLevel", c, 1)
  OBVIOUS
<1>2. PICK N \in Dues, M \in Dues : N = Due /\ M = Due' /\ x = SaveCol("lv", c, 1) /\ y = Do("memLevel", c, 1)
  BY <1>0, <1>1
<1>3. N[t] = {} /\ (\A u \in Tasks \ {t} : M[u] = N[u]) /\ M[t] = {x, y}
  BY <1>1, <1>2
<1>4. /\ \A col, key : Saving(x, col, key) <=> col = "lv" /\ key = c
      /\ \A col, key : ~Saving(y, col, key)
      /\ x.val = 1
  <2>1. y.do = "memLevel"
    BY <1>2 DEF Do
  <2>2. \A col, key : ~Saving(y, col, key)
    BY <2>1 DEF Saving
  <2> QED BY <1>2, <2>2, SavingCol, ColVal
<1>5. \A col, key : Unspoiled(col, key)' => Unspoiled(col, key)
  BY <1>1 DEF Unspoiled
<1> SUFFICES ASSUME NEW d \in Classes, Unspoiled("sp", d)', Unspoiled("lv", d)'
             PROVE  Covered(M, d, mem.lv[d], mem.sp[d], row.lv[d], row.sp[d], earned[d])
  BY <1>1, <1>2 DEF FreeInv
<1>6. Covered(N, d, mem.lv[d], mem.sp[d], row.lv[d], row.sp[d], earned[d])
  BY <1>2, <1>5 DEF FreeInv
<1>7. Progress(1, row.sp[d]) <= earned[d]
  <2>1. row.lv[d] \in 0..MaxLevel /\ row.sp[d] \in Nat /\ earned[d] \in Nat /\ 1 \in 0..MaxLevel
    BY MemFacts, LevelFacts DEF TypeOK
  <2>2. AtLeast1(1) <= AtLeast1(row.lv[d])
    BY <2>1 DEF AtLeast1
  <2>3. Progress(1, row.sp[d]) <= Progress(row.lv[d], row.sp[d]) /\ Progress(1, row.sp[d]) \in Nat /\ Progress(row.lv[d], row.sp[d]) \in Nat
    BY <2>1, <2>2, ProgressRises
  <2>4. Progress(row.lv[d], row.sp[d]) <= earned[d]
    BY <1>6 DEF Covered
  <2> QED BY <2>1, <2>3, <2>4
<1>8. ASSUME NEW u \in Tasks, NEW s \in M[u], Saving(s, "lv", d), \A z \in M[u] : ~Saving(z, "sp", d) PROVE Progress(s.val, row.sp[d]) <= earned[d]
  <2>1. CASE u = t
    <3>1. s.val = 1
      BY <1>3, <1>4, <1>8, <2>1
    <3> QED BY <1>7, <3>1
  <2>2. CASE u # t
    BY <1>3, <1>6, <1>8, <2>2 DEF Covered
  <2> QED BY <2>1, <2>2
<1> QED BY <1>6, <1>8 DEF Covered

\* The level 1 of a class used for the first time, set in memory after it was saved.
LEMMA FreeMemLevel ==
  ASSUME TypeOK, FreeInv, NEW t \in Tasks, MemLevel(t)
  PROVE  FreeInv'
<1>1. PICK s \in Steps :
         /\ s.do = "memLevel" /\ s.key \in Classes /\ t = "packet"
         /\ Due \in Dues /\ Due' \in Dues /\ Due[t] = Due'[t] \cup {s} /\ (\A u \in Tasks \ {t} : Due'[u] = Due[u])
         /\ (\A z \in Due'[t] : z.do # "save" /\ z.do # "memLevel")
         /\ mem'.sp = mem.sp /\ mem'.gc = mem.gc /\ mem'.rank = mem.rank
         /\ mem'.lv[s.key] = 1 /\ (\A c \in Classes \ {s.key} : mem'.lv[c] = mem.lv[c])
         /\ spoiled' = spoiled \cup IF mem.lv[s.key] > 0 THEN {<<"lv", s.key>>} ELSE {}
         /\ UNCHANGED <<row, earned>>
  BY MemLevelView
<1>2. PICK N \in Dues, M \in Dues : N = Due /\ M = Due'
  BY <1>1
<1>3. (\A z \in M[t] : \A col, key : ~Saving(z, col, key)) /\ \A u \in Tasks \ {t} : M[u] = N[u]
  BY <1>1, <1>2 DEF Saving
<1>4. \A col, key : Unspoiled(col, key)' => Unspoiled(col, key)
  BY <1>1 DEF Unspoiled
<1> SUFFICES ASSUME NEW d \in Classes, Unspoiled("sp", d)', Unspoiled("lv", d)'
             PROVE  Covered(M, d, mem'.lv[d], mem'.sp[d], row'.lv[d], row'.sp[d], earned'[d])
  BY <1>2 DEF FreeInv
<1>5. Covered(N, d, mem.lv[d], mem.sp[d], row.lv[d], row.sp[d], earned[d])
  BY <1>2, <1>4 DEF FreeInv
<1>6. Covered(M, d, mem.lv[d], mem.sp[d], row.lv[d], row.sp[d], earned[d])
  <2>1. \A u \in Tasks : \A z \in M[u] : Saving(z, "lv", d) => z \in N[u] /\ M[u] = N[u]
    BY <1>3
  <2> QED BY <1>5, <2>1, CoveredStill
<1>7. AtLeast1(mem'.lv[d]) = AtLeast1(mem.lv[d])
  <2>1. CASE d # s.key
    BY <1>1, <2>1
  <2>2. CASE d = s.key
    <3>1. mem.lv[d] > 0 => <<"lv", d>> \in spoiled'
      BY <1>1, <2>2
    <3>2. mem.lv[d] = 0
      BY <3>1, MemFacts DEF Unspoiled
    <3> QED BY <1>1, <2>2, <3>2 DEF AtLeast1
  <2> QED BY <2>1, <2>2
<1>8. Progress(mem'.lv[d], mem'.sp[d]) = Progress(mem.lv[d], mem.sp[d])
  BY <1>1, <1>7 DEF Progress
<1> QED BY <1>1, <1>6, <1>7, <1>8 DEF Covered

\* Enlistments and ranks touch no experience.
LEMMA FreeCompany ==
  ASSUME TypeOK, FreeInv,
         \/ \E g \in GCs : JoinGC(g)
         \/ \E g \in GCs, r \in 1 .. TopRank : SetGCRank(g, r)
         \/ \E t \in Tasks : ReadRank(t) \/ Bump(t)
  PROVE  FreeInv'
<1>1. /\ Due \in Dues /\ Due' \in Dues /\ "packet" \in Tasks /\ Due'["ticker"] = Due["ticker"]
      /\ mem'.sp = mem.sp /\ mem'.lv = mem.lv /\ UNCHANGED <<row, earned, spoiled>>
      /\ \E g \in GCs :
              \/ Due'["packet"] = {SaveCol("gc", None, g), Do("readRank", g, 0)}
              \/ Due'["packet"] = {SaveCol("rank", g, mem'.rank[g])}
  BY CompanyView
<1>2. PICK N \in Dues, M \in Dues : N = Due /\ M = Due'
  BY <1>1
<1>3. \A z \in M["packet"] : \A key : ~Saving(z, "lv", key)
  <2>1. \A g : Do("readRank", g, 0).do # "save"
    BY DEF Do
  <2>2. \A z \in M["packet"] : z.do # "save" \/ z.col \in {"gc", "rank"}
    BY <1>1, <1>2, <2>1, ColVal
  <2> QED BY <2>2 DEF Saving
<1>4. \A u \in Tasks \ {"packet"} : M[u] = N[u]
  BY <1>1, <1>2 DEF Tasks
<1> SUFFICES ASSUME NEW d \in Classes, Unspoiled("sp", d)', Unspoiled("lv", d)'
             PROVE  Covered(M, d, mem.lv[d], mem.sp[d], row.lv[d], row.sp[d], earned[d])
  BY <1>1, <1>2 DEF FreeInv
<1>5. Covered(N, d, mem.lv[d], mem.sp[d], row.lv[d], row.sp[d], earned[d])
  BY <1>1, <1>2 DEF FreeInv, Unspoiled
<1>6. \A u \in Tasks : \A z \in M[u] : Saving(z, "lv", d) => z \in N[u] /\ M[u] = N[u]
  BY <1>3, <1>4
<1> QED BY <1>5, <1>6, CoveredStill

\* The order of the two writes is what keeps this: points first, then the level they paid for.
LEMMA FreeSave ==
  ASSUME TypeOK, MirrorInv, FreeInv, NEW t \in Tasks, Save(t) \/ DbFails(t), Notes(Step(t))
  PROVE  FreeInv'
<1>1. PICK s \in Steps :
         /\ s = Step(t) /\ s.do = "save" /\ s.col \in Mirrored /\ s = SaveCol(s.col, s.key, s.val)
         /\ Due \in Dues /\ Due' \in Dues /\ Due[t] = Due'[t] \cup {s} /\ (\A u \in Tasks \ {t} : Due'[u] = Due[u])
         /\ (\A z \in Due'[t] : z.do = "save" => z.col = "lv" /\ Saving(s, "sp", z.key))
         /\ mem' = mem /\ earned' = earned
  BY SaveView
<1>2. PICK N \in Dues, M \in Dues : N = Due /\ M = Due'
  BY <1>1
<1>3. /\ N[t] = M[t] \cup {s} /\ (\A u \in Tasks \ {t} : M[u] = N[u])
      /\ \A z \in M[t] : z.do = "save" => z.col = "lv" /\ s.col = "sp"
      /\ \A u \in Tasks : M[u] \subseteq N[u]
  BY <1>1, <1>2 DEF Saving
<1>4. \A col, key : Unspoiled(col, key)' => Unspoiled(col, key)
  BY <1>1, SaveEffect
<1> SUFFICES ASSUME NEW d \in Classes, Unspoiled("sp", d)', Unspoiled("lv", d)'
             PROVE  Covered(M, d, mem.lv[d], mem.sp[d], row'.lv[d], row'.sp[d], earned[d])
  BY <1>1, <1>2 DEF FreeInv
<1>5. Unspoiled("sp", d) /\ Unspoiled("lv", d)
  BY <1>4
<1>6. Covered(N, d, mem.lv[d], mem.sp[d], row.lv[d], row.sp[d], earned[d])
  BY <1>2, <1>5 DEF FreeInv
<1>7. /\ row'.sp[d] = IF Saving(s, "sp", d) THEN s.val ELSE row.sp[d]
      /\ row'.lv[d] = IF Saving(s, "lv", d) THEN s.val ELSE row.lv[d]
  BY <1>1, SaveEffect
<1>8. /\ mem.lv[d] \in 0..MaxLevel /\ mem.sp[d] \in Nat /\ row.lv[d] \in 0..MaxLevel /\ row.sp[d] \in Nat /\ earned[d] \in Nat
      /\ Progress(mem.lv[d], mem.sp[d]) \in Nat /\ Progress(mem.lv[d], mem.sp[d]) <= earned[d]
      /\ AtLeast1(row.lv[d]) <= AtLeast1(mem.lv[d])
  <2>1. mem.lv[d] \in 0..MaxLevel /\ mem.sp[d] \in Nat /\ row.lv[d] \in 0..MaxLevel /\ row.sp[d] \in Nat /\ earned[d] \in Nat
    BY MemFacts DEF TypeOK
  <2> QED BY <1>6, <2>1, ProgressRises DEF Covered
<1>9. ASSUME NEW l \in 0..MaxLevel, AtLeast1(l) <= AtLeast1(mem.lv[d]) PROVE Progress(l, mem.sp[d]) <= earned[d]
  <2>1. Progress(l, mem.sp[d]) <= Progress(mem.lv[d], mem.sp[d]) /\ Progress(l, mem.sp[d]) \in Nat
    BY <1>8, <1>9, ProgressRises
  <2> QED BY <1>8, <2>1
<1>10. CASE Saving(s, "sp", d)
  <2>1. s.val = mem.sp[d] /\ ~Saving(s, "lv", d)
    <3>1. Agree(N, "sp", d, mem.sp[d], row.sp[d])
      BY <1>2, <1>5 DEF MirrorInv, PointsMirrored
    <3>2. s \in N[t]
      BY <1>3
    <3> QED BY <1>10, <3>1, <3>2 DEF Agree, Foreseen, Saving
  <2>2. row'.sp[d] = mem.sp[d] /\ row'.lv[d] = row.lv[d]
    BY <1>7, <1>10, <2>1
  <2>3. Progress(row.lv[d], mem.sp[d]) <= earned[d]
    BY <1>8, <1>9
  <2>4. ASSUME NEW u \in Tasks, NEW z \in M[u], Saving(z, "lv", d) PROVE Progress(z.val, mem.sp[d]) <= earned[d]
    <3>1. z \in Due[u]
      BY <1>2, <1>3
    <3>2. z.val \in 0..MaxLevel /\ AtLeast1(z.val) <= AtLeast1(mem.lv[d])
      BY <1>5, <2>4, <3>1, LevelInReach
    <3> QED BY <1>9, <3>2
  <2> QED BY <1>8, <2>2, <2>3, <2>4 DEF Covered
<1>11. CASE Saving(s, "lv", d)
  <2>1. s \in N[t] /\ s \in Due[t] /\ s.col = "lv" /\ ~Saving(s, "sp", d)
    BY <1>1, <1>2, <1>3, <1>11 DEF Saving
  <2>2. \A z \in M[t] : z.do # "save"
    BY <1>3, <2>1
  <2>3. \A z \in N[t] : ~Saving(z, "sp", d)
    BY <1>3, <2>1, <2>2 DEF Saving
  <2>4. Progress(s.val, row.sp[d]) <= earned[d]
    BY <1>6, <1>11, <2>1, <2>3 DEF Covered
  <2>5. AtLeast1(s.val) <= AtLeast1(mem.lv[d])
    BY <1>5, <1>11, <2>1, LevelInReach
  <2>6. row'.sp[d] = row.sp[d] /\ row'.lv[d] = s.val
    BY <1>7, <1>11, <2>1
  <2>7. ASSUME NEW u \in Tasks, NEW z \in M[u], Saving(z, "lv", d), \A x \in M[u] : ~Saving(x, "sp", d) PROVE Progress(z.val, row.sp[d]) <= earned[d]
    <3>1. u # t
      BY <2>2, <2>7 DEF Saving
    <3> QED BY <1>3, <1>6, <2>7, <3>1 DEF Covered
  <2> QED BY <1>8, <2>4, <2>5, <2>6, <2>7 DEF Covered
<1>12. CASE ~Saving(s, "sp", d) /\ ~Saving(s, "lv", d)
  <2>1. row'.sp[d] = row.sp[d] /\ row'.lv[d] = row.lv[d]
    BY <1>7, <1>12
  <2>2. \A u \in Tasks : \A z \in N[u] : Saving(z, "sp", d) => z \in M[u]
    BY <1>3, <1>12
  <2>3. Covered(M, d, mem.lv[d], mem.sp[d], row.lv[d], row.sp[d], earned[d])
    BY <1>3, <1>6, <2>2, CoveredStill
  <2> QED BY <2>1, <2>3
<1> QED BY <1>10, <1>11, <1>12

\* A relogin or a process end: memory stands for what the rows do.
LEMMA FreeLogin ==
  ASSUME TypeOK, FreeInv, Relogin \/ Crash
  PROVE  FreeInv'
<1>1. /\ mem' = row /\ row' = row /\ earned' = earned
      /\ \A col \in Mirrored : \A key : Unspoiled(col, key)' => Unspoiled(col, key) /\ Unwritten(Due', col, key)
  BY LoginView
<1>2. "sp" \in Mirrored /\ "lv" \in Mirrored
  BY DEF Mirrored
<1> SUFFICES ASSUME NEW d \in Classes, Unspoiled("sp", d)', Unspoiled("lv", d)'
             PROVE  Covered(Due', d, row.lv[d], row.sp[d], row.lv[d], row.sp[d], earned[d])
  BY <1>1 DEF FreeInv
<1>3. Covered(Due, d, mem.lv[d], mem.sp[d], row.lv[d], row.sp[d], earned[d])
  BY <1>1, <1>2 DEF FreeInv
<1>4. AtLeast1(row.lv[d]) <= AtLeast1(row.lv[d])
  BY MemFacts, ProgressRises
<1>5. \A t \in Tasks : \A s \in Due'[t] : ~Saving(s, "lv", d)
  BY <1>1, <1>2 DEF Unwritten
<1>6. Progress(row.lv[d], row.sp[d]) <= earned[d]
  BY <1>3 DEF Covered
<1> QED BY <1>4, <1>5, <1>6 DEF Covered

\* Every step keeps FreeInv.
LEMMA FreeNext == TypeOK /\ MirrorInv /\ FreeInv /\ [Next]_vars => FreeInv'
<1> SUFFICES ASSUME TypeOK, MirrorInv, FreeInv, [Next]_vars PROVE FreeInv'
  OBVIOUS
<1>1. ASSUME NEW t \in Tasks, NEW c \in Classes, NEW exp \in Gains, AddExp(t, c, exp) PROVE FreeInv'
  BY <1>1, GainReady, FreeGain
<1>2. ASSUME NEW t \in Tasks, KillExp(t) PROVE FreeInv'
  <2>1. PICK c \in Classes, exp \in Gains : c = Step(t).key /\ exp = Step(t).n
    BY <1>2, GainReady
  <2>2. Len(program[t]) = 1 /\ ~Notes(Step(t)) /\ Gain(t, c, exp)
    BY <1>2, <2>1, GainReady
  <2> QED BY <2>2, FreeGain
<1>3. ASSUME NEW t \in Tasks, Save(t) \/ DbFails(t) PROVE FreeInv'
  BY <1>3, FreeSave, AsideSaves, FreeAside
<1>4. ASSUME \/ \E t \in Tasks, exp \in Gains : Kill(t, exp)
             \/ \E c \in Classes : ClassChange(c)
             \/ \E g \in GCs : PromoteGC(g)
             \/ \E t \in Tasks, g \in GCs : AddSeals(t, g)
             \/ \E t \in Tasks : PickClass(t) \/ SetClass(t) \/ Award(t) \/ Deposit(t) \/ Balance(t) \/ Spend(t)
             \/ RestAtInn \/ UNCHANGED vars
      PROVE  FreeInv'
  <2>1. Aside
    BY <1>4, AsideSteps
  <2> QED BY <2>1, FreeAside
<1>5. ASSUME \/ \E g \in GCs : JoinGC(g)
             \/ \E g \in GCs, r \in 1 .. TopRank : SetGCRank(g, r)
             \/ \E t \in Tasks : ReadRank(t) \/ Bump(t)
      PROVE  FreeInv'
  BY <1>5, FreeCompany
<1>6. ASSUME NEW t \in Tasks, InitClass(t) \/ MemLevel(t) PROVE FreeInv'
  BY <1>6, FreeInitClass, FreeMemLevel
<1>7. ASSUME Relogin \/ Crash PROVE FreeInv'
  BY <1>7, FreeLogin
<1> QED BY <1>1, <1>2, <1>3, <1>4, <1>5, <1>6, <1>7 DEF Next

\* For any thresholds and gains: at every step, so at whatever point the process ends, the level and points
\* saved for a class stand for no more experience than apply_add_exp granted it, unless the writes of
\* two gains crossed or one failed.
THEOREM NoFreeProgressHolds == Spec => []NoFreeProgress
<1>1. Init => TypeOK /\ MirrorInv /\ FreeInv
  BY TypeInit, MirrorInit, FreeInit
<1>2. (TypeOK /\ MirrorInv /\ FreeInv) /\ [Next]_vars => (TypeOK /\ MirrorInv /\ FreeInv)'
  BY TypeStep, MirrorNext, FreeNext
<1>3. FreeInv => NoFreeProgress
  BY DEF FreeInv, NoFreeProgress, Covered
<1> QED BY <1>1, <1>2, <1>3, PTL DEF Spec

=============================================================================
