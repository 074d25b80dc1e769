-------------------------- MODULE QuestJournalProofs --------------------------
(***************************************************************************)
(* Proofs about QuestJournal for any quests, leves, slots and tasks, and   *)
(* programs of any length.                                                 *)
(*                                                                         *)
(* What a program has still to write stands at its head: ShapeInv.  So the *)
(* invariants speak of three functions of the programs, the row write, the *)
(* bit-set call and the payment each task is about to make (RowWork,       *)
(* BitWork, PayWork), and of the set Todo of all pending steps.  RowsInv   *)
(* (with PayGood), BitsInv and MarkInv say how memory, tables, client and  *)
(* payments differ by them.                                                *)
(***************************************************************************)
EXTENDS QuestJournal, FiniteSetTheorems, SequenceTheorems, WellFoundedInduction, TLAPS

-----------------------------------------------------------------------------
(* Types *)

Entry == [quest : Entries, seq : Sequences, done : BOOLEAN, ls : 0..1]
Cells == Entry \cup {NoQuest}
RowSteps ==
    [do : {"save"}, slot : Slots, c : Entry] \cup [do : {"saveLs"}, slot : Slots, ls : 0..1]
    \cup [do : {"remove"}, quest : Entries]
BitSteps == [do : {"loadBits"}, quest : Quests, flag : BOOLEAN] \cup [do : {"saveBits"}, bits : SUBSET Quests]
PaySteps == [do : {"pay"}, quest : Leves]
OtherSteps ==
    [do : {"swap", "drain", "active", "finish", "drop"}, quest : Quests]
    \cup [do : {"clear", "show"}, quest : Quests, set : SUBSET Enpcs] \cup {Hook}
Steps == RowSteps \cup BitSteps \cup PaySteps \cup OtherSteps

TypeOK ==
    /\ journal \in [Slots -> Cells] /\ rows \in [Slots -> Cells]
    /\ bits \subseteq Quests /\ dbBits \subseteq Quests
    /\ old \in [Entries -> SUBSET Enpcs] /\ cur \in [Entries -> SUBSET Enpcs] /\ shown \in [Entries -> SUBSET Enpcs]
    /\ left \in [Entries -> SUBSET Enpcs]
    /\ program \in [Tasks -> Seq(Steps)]
    /\ credit \in [Leves -> Nat] /\ overpaid \in BOOLEAN /\ spoiled \subseteq {"rows", "bits", "markers"}

\* What a step of each kind says.
LEMMA StepFields ==
    ASSUME NEW x \in Steps
    PROVE  /\ x \in RowSteps <=> x.do \in {"save", "saveLs", "remove"}
           /\ x \in BitSteps <=> x.do \in {"loadBits", "saveBits"}
           /\ x \in PaySteps <=> x.do = "pay"
           /\ x.do = "save" => x.slot \in Slots /\ x.c \in Entry /\ x = Save(x.slot, x.c)
           /\ x.do = "saveLs" => x.slot \in Slots /\ x.ls \in 0..1 /\ x = SaveLs(x.slot, x.ls)
           /\ x.do = "remove" => x.quest \in Entries /\ x = RemoveRow(x.quest)
           /\ x.do = "loadBits" => x.quest \in Quests /\ x.flag \in BOOLEAN /\ x = LoadBits(x.quest, x.flag)
           /\ x.do = "saveBits" => x.bits \in SUBSET Quests /\ x = [do |-> "saveBits", bits |-> x.bits]
           /\ x.do = "pay" => x.quest \in Leves /\ x = Do("pay", x.quest)
           /\ x.do \in {"swap", "drain", "active", "finish", "drop"} => x.quest \in Quests /\ x = Do(x.do, x.quest)
           /\ x.do \in {"clear", "show"} => x.quest \in Quests /\ x.set \in SUBSET Enpcs /\ x = [do |-> x.do, quest |-> x.quest, set |-> x.set]
           /\ x.do = "hook" => x = Hook
  BY DEF Steps, RowSteps, BitSteps, PaySteps, OtherSteps, Save, SaveLs, RemoveRow, LoadBits, Do, Hook

\* The steps the handlers build.
LEMMA StepTypes ==
    /\ \A s \in Slots, c \in Entry : Save(s, c) \in RowSteps
    /\ \A s \in Slots, n \in 0..1 : SaveLs(s, n) \in RowSteps
    /\ \A q \in Entries : RemoveRow(q) \in RowSteps
    /\ \A q \in Quests, f \in BOOLEAN : LoadBits(q, f) \in BitSteps
    /\ \A b \in SUBSET Quests : [do |-> "saveBits", bits |-> b] \in BitSteps
    /\ \A l \in Leves : Do("pay", l) \in PaySteps
    /\ \A w \in {"swap", "drain", "active", "finish", "drop"}, q \in Quests : Do(w, q) \in OtherSteps
    /\ \A w \in {"clear", "show"}, q \in Quests, e \in SUBSET Enpcs : [do |-> w, quest |-> q, set |-> e] \in OtherSteps
    /\ Hook \in OtherSteps
  BY DEF RowSteps, BitSteps, PaySteps, OtherSteps, Save, SaveLs, RemoveRow, LoadBits, Do

\* An entry of the journal is of a quest, and an empty slot of none.
LEMMA CellFacts ==
    /\ NoQuest.quest \notin Entries /\ NoQuest \notin Entry
    /\ \A c \in Cells : c # NoQuest <=> c \in Entry
    /\ \A c \in Cells : c # NoQuest <=> c.quest \in Entries
    /\ \A c \in Entry : c.quest \in Entries /\ c.ls \in 0..1 /\ c.done \in BOOLEAN /\ c.seq \in Sequences
<1>1. "none" \notin Entries
  BY JournalAssumption DEF Entries
<1> QED BY <1>1 DEF NoQuest, Entry, Cells

\* A changed entry is an entry.
LEMMA ChangedEntry ==
    ASSUME NEW c \in Entry
    PROVE  /\ \A n \in Sequences : [c EXCEPT !.seq = n] \in Entry /\ [c EXCEPT !.seq = n].quest = c.quest
                                   /\ [c EXCEPT !.seq = n].ls = c.ls /\ [c EXCEPT !.seq = n].done = c.done
           /\ \A n \in 0..1 : [c EXCEPT !.ls = n] \in Entry /\ [c EXCEPT !.ls = n].quest = c.quest
                              /\ [c EXCEPT !.ls = n].ls = n /\ [c EXCEPT !.ls = n].done = c.done
           /\ [c EXCEPT !.done = TRUE] \in Entry /\ [c EXCEPT !.done = TRUE].quest = c.quest
           /\ [c EXCEPT !.done = TRUE].ls = c.ls /\ [c EXCEPT !.done = TRUE].done
           /\ [c EXCEPT !.ls = c.ls] = c
  BY DEF Entry

\* A new entry.
LEMMA FreshEntry == \A q \in Entries : Quest(q) \in Entry /\ Quest(q).quest = q /\ Quest(q).ls = 0 /\ ~Quest(q).done
  BY JournalAssumption DEF Quest, Entry

-----------------------------------------------------------------------------
(* The first steps of a program *)

Items(p) == {p[i] : i \in DOMAIN p}
First(p) == IF p = <<>> THEN Hook ELSE Head(p)
Second(p) == IF p = <<>> THEN Hook ELSE First(Tail(p))

\* The row write, the call about the completed set and the payment a program is about to make.
RowOf(p) == IF First(p) \in RowSteps THEN First(p) ELSE Hook
BitOf(p) == IF First(p) \in BitSteps THEN First(p) ELSE IF Second(p) \in BitSteps THEN Second(p) ELSE Hook
PayOf(p) == IF First(p) \in PaySteps THEN First(p) ELSE IF Second(p) \in PaySteps THEN Second(p) ELSE Hook

RowWork == [t \in Tasks |-> RowOf(program[t])]
BitWork == [t \in Tasks |-> BitOf(program[t])]
PayWork == [t \in Tasks |-> PayOf(program[t])]
Todo == UNION {Items(program[t]) : t \in Tasks}

\* A program without writes and payments, whose swaps have their drain after them.
Calm(p) == \A x \in Items(p) : x \in OtherSteps
Drained(p) == \A i \in DOMAIN p : p[i].do = "swap" => \E j \in DOMAIN p : j > i /\ p[j] = Do("drain", p[i].quest)

\* Writes and payments stand at the head.  After a deleted row comes one call or the payment;
\* a leve whose row is deleted is paid for.
Shape(p) ==
    /\ Drained(p)
    /\ p # <<>> => \/ Calm(Tail(p))
                   \/ /\ Head(p).do = "remove" /\ Tail(p) # <<>> /\ Calm(Tail(Tail(p)))
                      /\ Second(p).do = "loadBits" \/ Second(p) = Do("pay", Head(p).quest)
    /\ p # <<>> /\ Head(p).do = "remove" /\ Head(p).quest \in Leves => Second(p) = Do("pay", Head(p).quest)
ShapeInv == \A t \in Tasks : Shape(program[t])

\* The kinds are different.
LEMMA KindsApart ==
    /\ RowSteps \cap BitSteps = {} /\ RowSteps \cap PaySteps = {} /\ RowSteps \cap OtherSteps = {}
    /\ BitSteps \cap PaySteps = {} /\ BitSteps \cap OtherSteps = {} /\ PaySteps \cap OtherSteps = {}
    /\ Hook \in OtherSteps /\ Hook.do = "hook" /\ Hook \in Steps
    /\ RowSteps \subseteq Steps /\ BitSteps \subseteq Steps /\ PaySteps \subseteq Steps /\ OtherSteps \subseteq Steps
<1>1. \A x \in RowSteps : x.do \in {"save", "saveLs", "remove"}
  BY DEF RowSteps
<1>2. \A x \in BitSteps : x.do \in {"loadBits", "saveBits"}
  BY DEF BitSteps
<1>3. \A x \in PaySteps : x.do = "pay"
  BY DEF PaySteps
<1>4. \A x \in OtherSteps : x.do \in {"swap", "drain", "active", "finish", "drop", "clear", "show", "hook"}
  BY DEF OtherSteps, Hook
<1>5. Hook \in OtherSteps /\ Hook.do = "hook"
  BY DEF OtherSteps, Hook
<1> QED BY <1>1, <1>2, <1>3, <1>4, <1>5 DEF Steps

\* A step put before a program.
LEMMA Cons ==
    ASSUME NEW S, NEW a \in S, NEW p \in Seq(S)
    PROVE  LET q == <<a>> \o p IN
           /\ q \in Seq(S) /\ q # <<>> /\ Head(q) = a /\ Tail(q) = p /\ Len(q) = Len(p) + 1
           /\ q[1] = a /\ \A i \in DOMAIN p : i + 1 \in DOMAIN q /\ q[i + 1] = p[i] /\ i \in Nat
           /\ \A i \in DOMAIN q : i = 1 \/ (i - 1 \in DOMAIN p /\ q[i] = p[i - 1])
           /\ 1 \in DOMAIN q
  OBVIOUS

\* Sequences of the same elements are equal.
LEMMA Alike ==
    ASSUME NEW S, NEW p \in Seq(S), NEW q \in Seq(S), Len(p) = Len(q), \A i \in 1..Len(p) : p[i] = q[i]
    PROVE  p = q
  OBVIOUS

\* What a step put before a sequence makes.
LEMMA Joined ==
    ASSUME NEW S, NEW a \in S, NEW q \in Seq(S), NEW r \in Seq(S),
           Len(r) = Len(q) + 1, r[1] = a, \A i \in 1..Len(q) : r[i + 1] = q[i]
    PROVE  <<a>> \o q = r
<1>1. PICK p : p = <<a>> \o q
  OBVIOUS
<1>2. p \in Seq(S) /\ Len(p) = Len(q) + 1 /\ p[1] = a /\ (\A i \in DOMAIN p : i = 1 \/ (i - 1 \in DOMAIN q /\ p[i] = q[i - 1]))
      /\ DOMAIN p = 1..Len(p) /\ DOMAIN q = 1..Len(q)
  BY <1>1, Cons
<1>3. ASSUME NEW i \in 1..Len(p) PROVE p[i] = r[i]
  <2>1. CASE i = 1
    BY <1>2, <2>1
  <2>2. CASE i # 1
    <3>1. i - 1 \in 1..Len(q) /\ p[i] = q[i - 1] /\ (i - 1) + 1 = i
      BY <1>2, <2>2
    <3> QED BY <3>1
  <2> QED BY <2>1, <2>2
<1>4. p = r
  BY <1>2, <1>3, Alike
<1> QED BY <1>1, <1>4

\* Short sequences put together.
LEMMA Short ==
    ASSUME NEW S, NEW a \in S, NEW b \in S, NEW c \in S, NEW d \in S
    PROVE  /\ <<a>> \o <<b>> = <<a, b>> /\ <<a>> \o <<b, c>> = <<a, b, c>> /\ <<a>> \o <<b, c, d>> = <<a, b, c, d>>
           /\ <<a>> \o <<>> = <<a>> /\ <<>> \o <<a, b>> = <<a, b>>
           /\ <<a>> \in Seq(S) /\ <<a, b>> \in Seq(S) /\ <<b>> \in Seq(S) /\ <<b, c>> \in Seq(S) /\ <<b, c, d>> \in Seq(S)
           /\ <<a, b, c>> \in Seq(S) /\ <<a, b, c, d>> \in Seq(S)
<1>1. <<a>> \in Seq(S) /\ <<b>> \in Seq(S) /\ <<a, b>> \in Seq(S) /\ <<b, c>> \in Seq(S) /\ <<a, b, c>> \in Seq(S)
      /\ <<b, c, d>> \in Seq(S) /\ <<a, b, c, d>> \in Seq(S)
  OBVIOUS
<1>2. <<a>> \o <<b>> = <<a, b>>
  <2>1. PICK q, r : q = <<b>> /\ r = <<a, b>>
    OBVIOUS
  <2>2. q \in Seq(S) /\ r \in Seq(S) /\ Len(r) = Len(q) + 1 /\ r[1] = a /\ \A i \in 1..Len(q) : r[i + 1] = q[i]
    BY <2>1
  <2> QED BY <2>1, <2>2, Joined
<1>3. <<a>> \o <<b, c>> = <<a, b, c>>
  <2>1. PICK q, r : q = <<b, c>> /\ r = <<a, b, c>>
    OBVIOUS
  <2>2. q \in Seq(S) /\ r \in Seq(S) /\ Len(r) = Len(q) + 1 /\ r[1] = a /\ \A i \in 1..Len(q) : r[i + 1] = q[i]
    BY <2>1
  <2> QED BY <2>1, <2>2, Joined
<1>4. <<a>> \o <<b, c, d>> = <<a, b, c, d>>
  <2>1. PICK q, r : q = <<b, c, d>> /\ r = <<a, b, c, d>>
    OBVIOUS
  <2>2. q \in Seq(S) /\ r \in Seq(S) /\ Len(r) = Len(q) + 1 /\ r[1] = a /\ \A i \in 1..Len(q) : r[i + 1] = q[i]
    BY <2>1
  <2> QED BY <2>1, <2>2, Joined
<1>5. <<a>> \o <<>> = <<a>> /\ <<>> \o <<a, b>> = <<a, b>>
  BY <1>1, ConcatEmptySeq
<1> QED BY <1>1, <1>2, <1>3, <1>4, <1>5

\* And before a program.
LEMMA ConsLong ==
    ASSUME NEW S, NEW a \in S, NEW y \in Seq(S), NEW x \in Seq(S), NEW p \in Seq(S),
           Len(x) = Len(y) + 1, x[1] = a, \A i \in 1..Len(y) : x[i + 1] = y[i]
    PROVE  <<a>> \o (y \o p) = x \o p
<1>1. PICK q, r : q = y \o p /\ r = x \o p
  OBVIOUS
<1>2. /\ q \in Seq(S) /\ Len(q) = Len(y) + Len(p) /\ r \in Seq(S) /\ Len(r) = Len(x) + Len(p)
      /\ \A i \in 1..Len(y) + Len(p) : q[i] = IF i <= Len(y) THEN y[i] ELSE p[i - Len(y)]
      /\ \A i \in 1..Len(x) + Len(p) : r[i] = IF i <= Len(x) THEN x[i] ELSE p[i - Len(x)]
      /\ Len(x) \in Nat /\ Len(y) \in Nat /\ Len(p) \in Nat
  BY <1>1, ConcatProperties
<1>3. Len(r) = Len(q) + 1 /\ r[1] = a
  BY <1>2
<1>4. ASSUME NEW i \in 1..Len(q) PROVE r[i + 1] = q[i]
  <2>1. CASE i <= Len(y)
    BY <1>2, <2>1
  <2>2. CASE i > Len(y)
    <3>1. (i + 1) - Len(x) = i - Len(y) /\ i + 1 \in 1..Len(x) + Len(p) /\ ~(i + 1 <= Len(x)) /\ i \in 1..Len(y) + Len(p) /\ ~(i <= Len(y))
      BY <1>2, <2>2
    <3> QED BY <1>2, <3>1
  <2> QED BY <2>1, <2>2
<1>5. <<a>> \o q = r
  BY <1>2, <1>3, <1>4, Joined
<1> QED BY <1>1, <1>5

\* Longer beginnings are put before a program one step at a time.
Begin1(a, p) == <<a>> \o p
Begin2(a, b, p) == <<a, b>> \o p
Begin3(a, b, c, p) == <<a, b, c>> \o p
Begin4(a, b, c, d, p) == <<a, b, c, d>> \o p

LEMMA ConsMany ==
    ASSUME NEW S, NEW a \in S, NEW b \in S, NEW c \in S, NEW d \in S, NEW p \in Seq(S)
    PROVE  /\ Begin2(a, b, p) = Begin1(a, Begin1(b, p))
           /\ Begin3(a, b, c, p) = Begin1(a, Begin1(b, Begin1(c, p)))
           /\ Begin4(a, b, c, d, p) = Begin1(a, Begin1(b, Begin1(c, Begin1(d, p))))
<1>1. <<a, b>> \o p = <<a>> \o (<<b>> \o p)
  <2>1. PICK x, y : x = <<a, b>> /\ y = <<b>>
    OBVIOUS
  <2>2. x \in Seq(S) /\ y \in Seq(S) /\ Len(x) = Len(y) + 1 /\ x[1] = a /\ Len(y) \in Nat /\ \A i \in 1..Len(y) : x[i + 1] = y[i]
    BY <2>1
  <2>3. <<a>> \o (y \o p) = x \o p
    BY <2>2, ConsLong
  <2> QED BY <2>1, <2>3
<1>2. <<b, c>> \o p = <<b>> \o (<<c>> \o p)
  <2>1. PICK x, y : x = <<b, c>> /\ y = <<c>>
    OBVIOUS
  <2>2. x \in Seq(S) /\ y \in Seq(S) /\ Len(x) = Len(y) + 1 /\ x[1] = b /\ Len(y) \in Nat /\ \A i \in 1..Len(y) : x[i + 1] = y[i]
    BY <2>1
  <2>3. <<b>> \o (y \o p) = x \o p
    BY <2>2, ConsLong
  <2> QED BY <2>1, <2>3
<1>3. <<c, d>> \o p = <<c>> \o (<<d>> \o p)
  <2>1. PICK x, y : x = <<c, d>> /\ y = <<d>>
    OBVIOUS
  <2>2. x \in Seq(S) /\ y \in Seq(S) /\ Len(x) = Len(y) + 1 /\ x[1] = c /\ Len(y) \in Nat /\ \A i \in 1..Len(y) : x[i + 1] = y[i]
    BY <2>1
  <2>3. <<c>> \o (y \o p) = x \o p
    BY <2>2, ConsLong
  <2> QED BY <2>1, <2>3
<1>4. <<a, b, c>> \o p = <<a>> \o (<<b, c>> \o p)
  <2>1. PICK x, y : x = <<a, b, c>> /\ y = <<b, c>>
    OBVIOUS
  <2>2. x \in Seq(S) /\ y \in Seq(S) /\ Len(x) = Len(y) + 1 /\ x[1] = a /\ Len(y) \in Nat /\ \A i \in 1..Len(y) : x[i + 1] = y[i]
    BY <2>1
  <2>3. <<a>> \o (y \o p) = x \o p
    BY <2>2, ConsLong
  <2> QED BY <2>1, <2>3
<1>5. <<b, c, d>> \o p = <<b>> \o (<<c, d>> \o p)
  <2>1. PICK x, y : x = <<b, c, d>> /\ y = <<c, d>>
    OBVIOUS
  <2>2. x \in Seq(S) /\ y \in Seq(S) /\ Len(x) = Len(y) + 1 /\ x[1] = b /\ Len(y) \in Nat /\ \A i \in 1..Len(y) : x[i + 1] = y[i]
    BY <2>1
  <2>3. <<b>> \o (y \o p) = x \o p
    BY <2>2, ConsLong
  <2> QED BY <2>1, <2>3
<1>6. <<a, b, c, d>> \o p = <<a>> \o (<<b, c, d>> \o p)
  <2>1. PICK x, y : x = <<a, b, c, d>> /\ y = <<b, c, d>>
    OBVIOUS
  <2>2. x \in Seq(S) /\ y \in Seq(S) /\ Len(x) = Len(y) + 1 /\ x[1] = a /\ Len(y) \in Nat /\ \A i \in 1..Len(y) : x[i + 1] = y[i]
    BY <2>1
  <2>3. <<a>> \o (y \o p) = x \o p
    BY <2>2, ConsLong
  <2> QED BY <2>1, <2>3
<1> QED BY <1>1, <1>2, <1>3, <1>4, <1>5, <1>6 DEF Begin1, Begin2, Begin3, Begin4

\* The steps of a program with one put before it.
LEMMA ItemsCons ==
    ASSUME NEW S, NEW a \in S, NEW p \in Seq(S)
    PROVE  Items(<<a>> \o p) = {a} \cup Items(p)
<1> DEFINE q == <<a>> \o p
<1>1. /\ q[1] = a /\ 1 \in DOMAIN q
      /\ \A i \in DOMAIN p : i + 1 \in DOMAIN q /\ q[i + 1] = p[i]
      /\ \A i \in DOMAIN q : i = 1 \/ (i - 1 \in DOMAIN p /\ q[i] = p[i - 1])
  BY Cons
<1> HIDE DEF q
<1>2. Items(q) = {a} \cup Items(p)
  BY <1>1 DEF Items
<1> QED BY <1>2 DEF q

\* A program is its head and its tail.
LEMMA HeadTail ==
    ASSUME NEW S, NEW p \in Seq(S), p # <<>>
    PROVE  /\ Head(p) \in S /\ Tail(p) \in Seq(S) /\ p = <<Head(p)>> \o Tail(p)
           /\ Items(p) = {Head(p)} \cup Items(Tail(p)) /\ p[1] = Head(p) /\ 1 \in DOMAIN p
<1>1. Head(p) \in S /\ Tail(p) \in Seq(S) /\ p = <<Head(p)>> \o Tail(p) /\ p[1] = Head(p) /\ 1 \in DOMAIN p
  OBVIOUS
<1>2. PICK a \in S, r \in Seq(S) : a = Head(p) /\ r = Tail(p)
  BY <1>1
<1>3. Items(<<a>> \o r) = {a} \cup Items(r)
  BY ItemsCons, Zenon
<1> QED BY <1>1, <1>2, <1>3, Zenon

\* The first steps are steps of the program, or there are none.
LEMMA FirstSteps ==
    ASSUME NEW p \in Seq(Steps)
    PROVE  /\ Items(p) \subseteq Steps /\ First(p) \in Steps /\ Second(p) \in Steps
           /\ First(p) \in Items(p) \cup {Hook} /\ Second(p) \in Items(p) \cup {Hook}
           /\ Calm(p) => First(p) \in OtherSteps /\ Second(p) \in OtherSteps
<1>1. Hook \in Steps /\ Hook \in OtherSteps
  BY KindsApart
<1>2. CASE p = <<>>
  BY <1>1, <1>2 DEF First, Second, Items, Calm
<1>3. CASE p # <<>>
  <2>1. Head(p) \in Steps /\ Tail(p) \in Seq(Steps) /\ Items(p) = {Head(p)} \cup Items(Tail(p)) /\ First(p) = Head(p)
    BY <1>3, HeadTail DEF First
  <2>2. Tail(p) # <<>> => First(Tail(p)) = Head(Tail(p)) /\ Head(Tail(p)) \in Items(Tail(p)) /\ Head(Tail(p)) \in Steps
    BY <2>1, HeadTail DEF First
  <2>3. Tail(p) = <<>> => First(Tail(p)) = Hook
    BY DEF First
  <2>4. Second(p) = First(Tail(p))
    BY <1>3 DEF Second
  <2>5. Items(p) \subseteq Steps
    BY DEF Items
  <2> QED BY <1>1, <2>1, <2>2, <2>3, <2>4, <2>5 DEF Calm
<1> QED BY <1>2, <1>3

-----------------------------------------------------------------------------
(* Shapes *)

\* What follows a swap still follows it when the step before is gone.
LEMMA DrainedTail ==
    ASSUME NEW p \in Seq(Steps), p # <<>>, Drained(p)
    PROVE  Drained(Tail(p))
<1>1. PICK r : r = Tail(p)
  OBVIOUS
<1>2. r \in Seq(Steps) /\ Len(p) = Len(r) + 1 /\ Len(r) \in Nat /\ \A i \in 1..Len(r) : r[i] = p[i + 1]
  BY <1>1
<1>3. ASSUME NEW i \in DOMAIN r, r[i].do = "swap" PROVE \E j \in DOMAIN r : j > i /\ r[j] = Do("drain", r[i].quest)
  <2>1. i \in 1..Len(r) /\ i + 1 \in DOMAIN p /\ p[i + 1] = r[i]
    BY <1>2
  <2>2. PICK j \in DOMAIN p : j > i + 1 /\ p[j] = Do("drain", r[i].quest)
    BY <1>3, <2>1 DEF Drained
  <2>3. j - 1 \in DOMAIN r /\ j - 1 > i /\ r[j - 1] = p[j]
    BY <1>2, <2>1, <2>2
  <2> QED BY <2>2, <2>3
<1> QED BY <1>1, <1>3 DEF Drained

\* Nor does a step before it matter, unless it is a swap itself.
LEMMA DrainedCons ==
    ASSUME NEW p \in Seq(Steps), Drained(p), NEW a \in Steps,
           a.do = "swap" => \E j \in DOMAIN p : p[j] = Do("drain", a.quest)
    PROVE  Drained(<<a>> \o p)
<1>1. PICK q : q = <<a>> \o p
  OBVIOUS
<1>2. q \in Seq(Steps) /\ Len(q) = Len(p) + 1 /\ q[1] = a /\ Len(p) \in Nat
      /\ (\A i \in DOMAIN p : i + 1 \in DOMAIN q /\ q[i + 1] = p[i] /\ i \in Nat)
      /\ (\A i \in DOMAIN q : i = 1 \/ (i - 1 \in DOMAIN p /\ q[i] = p[i - 1]))
      /\ DOMAIN p = 1..Len(p) /\ DOMAIN q = 1..Len(q)
  BY <1>1, Cons
<1>3. ASSUME NEW i \in DOMAIN q, q[i].do = "swap" PROVE \E j \in DOMAIN q : j > i /\ q[j] = Do("drain", q[i].quest)
  <2>1. CASE i = 1
    <3>1. PICK j \in DOMAIN p : p[j] = Do("drain", a.quest)
      BY <1>2, <1>3, <2>1
    <3>2. j + 1 \in DOMAIN q /\ j + 1 > i /\ q[j + 1] = p[j]
      BY <1>2, <2>1
    <3> QED BY <1>2, <2>1, <3>1, <3>2
  <2>2. CASE i # 1
    <3>1. i - 1 \in DOMAIN p /\ q[i] = p[i - 1]
      BY <1>2, <2>2
    <3>2. PICK j \in DOMAIN p : j > i - 1 /\ p[j] = Do("drain", q[i].quest)
      BY <1>3, <3>1 DEF Drained
    <3>3. j + 1 \in DOMAIN q /\ j + 1 > i /\ q[j + 1] = p[j]
      BY <1>2, <3>2
    <3> QED BY <3>2, <3>3
  <2> QED BY <2>1, <2>2
<1> QED BY <1>1, <1>3 DEF Drained

\* A calm program writes and pays nothing.
Light(p) == p \in Seq(Steps) /\ Calm(p) /\ Drained(p)
LEMMA CalmWork ==
    ASSUME NEW p, Light(p)
    PROVE  RowOf(p) = Hook /\ BitOf(p) = Hook /\ PayOf(p) = Hook /\ Shape(p) /\ Items(p) \subseteq OtherSteps
<1>1. First(p) \in OtherSteps /\ Second(p) \in OtherSteps
  BY FirstSteps DEF Light
<1>2. RowOf(p) = Hook /\ BitOf(p) = Hook /\ PayOf(p) = Hook
  BY <1>1, KindsApart DEF RowOf, BitOf, PayOf
<1>3. ASSUME p # <<>> PROVE Calm(Tail(p)) /\ Head(p).do # "remove"
  <2>1. Items(p) = {Head(p)} \cup Items(Tail(p)) /\ Head(p) \in Steps
    BY <1>3, HeadTail DEF Light
  <2>2. Head(p) \in OtherSteps
    BY <2>1 DEF Light, Calm
  <2> QED BY <2>1, <2>2, StepFields, KindsApart DEF Light, Calm
<1> QED BY <1>2, <1>3 DEF Shape, Light, Calm

\* After a step other than a deletion the rest is calm; and so is a program that starts calmly.
LEMMA CalmTail ==
    ASSUME NEW p \in Seq(Steps), Shape(p), p # <<>>, Head(p).do # "remove"
    PROVE  /\ Light(Tail(p)) /\ Tail(p) \in Seq(Steps) /\ Head(p) \in Steps /\ First(p) = Head(p)
           /\ Items(p) = {Head(p)} \cup Items(Tail(p)) /\ Second(p) \in OtherSteps
           /\ Head(p) \in OtherSteps => Light(p)
<1>1. Head(p) \in Steps /\ Tail(p) \in Seq(Steps) /\ Items(p) = {Head(p)} \cup Items(Tail(p)) /\ First(p) = Head(p)
      /\ Second(p) = First(Tail(p))
  BY HeadTail DEF First, Second
<1>2. Calm(Tail(p)) /\ Drained(Tail(p)) /\ Drained(p)
  BY DrainedTail DEF Shape
<1> QED BY <1>1, <1>2, FirstSteps DEF Light, Calm

\* A task that may be given a command writes and pays nothing.
LEMMA CalmIdle ==
    ASSUME NEW p \in Seq(Steps), Shape(p), p # <<>> => Head(p).do = "hook"
    PROVE  Light(p)
<1>1. CASE p = <<>>
  BY <1>1 DEF Light, Calm, Items, Drained
<1>2. CASE p # <<>>
  <2>1. Head(p) \in Steps
    BY <1>2, HeadTail
  <2>2. Head(p) \in OtherSteps
    BY <1>2, <2>1, StepFields, KindsApart
  <2> QED BY <1>2, <2>2, CalmTail
<1> QED BY <1>1, <1>2

\* One harmless step more.
LEMMA LightCons ==
    ASSUME NEW p, Light(p), NEW a \in OtherSteps,
           a.do = "swap" => Do("drain", a.quest) \in Items(p)
    PROVE  Light(<<a>> \o p) /\ Items(<<a>> \o p) = {a} \cup Items(p)
<1>1. a \in Steps /\ p \in Seq(Steps)
  BY KindsApart DEF Light
<1>2. <<a>> \o p \in Seq(Steps) /\ Items(<<a>> \o p) = {a} \cup Items(p)
  BY <1>1, Cons, ItemsCons
<1>3. Drained(<<a>> \o p)
  <2>1. a.do = "swap" => \E j \in DOMAIN p : p[j] = Do("drain", a.quest)
    BY DEF Items
  <2> QED BY <1>1, <2>1, DrainedCons DEF Light
<1> QED BY <1>2, <1>3 DEF Light, Calm

\* What a program of one step before a calm one does.
Does(q, r, b, p) == q \in Seq(Steps) /\ Shape(q) /\ RowOf(q) = r /\ BitOf(q) = b /\ PayOf(q) = p

LEMMA OneStep ==
    ASSUME NEW p, Light(p), NEW a \in Steps, a.do # "swap", a.do = "remove" => a.quest \notin Leves
    PROVE  LET q == <<a>> \o p IN
           /\ Does(q, IF a \in RowSteps THEN a ELSE Hook, IF a \in BitSteps THEN a ELSE Hook, IF a \in PaySteps THEN a ELSE Hook)
           /\ Items(q) = {a} \cup Items(p)
<1>1. PICK q : q = <<a>> \o p
  OBVIOUS
<1>2. q \in Seq(Steps) /\ q # <<>> /\ Head(q) = a /\ Tail(q) = p /\ Items(q) = {a} \cup Items(p) /\ p \in Seq(Steps)
  BY <1>1, Cons, ItemsCons DEF Light
<1>3. First(q) = a /\ Second(q) \in OtherSteps
  BY <1>2, FirstSteps DEF First, Second, Light
<1>4. Drained(q)
  BY <1>1, DrainedCons DEF Light
<1>5. Shape(q)
  BY <1>2, <1>4 DEF Shape, Light
<1>6. RowOf(q) = (IF a \in RowSteps THEN a ELSE Hook) /\ BitOf(q) = (IF a \in BitSteps THEN a ELSE Hook)
      /\ PayOf(q) = (IF a \in PaySteps THEN a ELSE Hook)
  BY <1>3, KindsApart DEF RowOf, BitOf, PayOf
<1> QED BY <1>1, <1>2, <1>5, <1>6 DEF Does

\* And one of a deletion and what comes with it.
LEMMA TwoSteps ==
    ASSUME NEW p, Light(p), NEW x \in Entries, NEW b \in Steps,
           (b.do = "loadBits" /\ x \notin Leves) \/ (b = Do("pay", x) /\ x \in Leves)
    PROVE  LET q == <<RemoveRow(x)>> \o (<<b>> \o p) IN
           /\ Does(q, RemoveRow(x), IF b \in BitSteps THEN b ELSE Hook, IF b \in PaySteps THEN b ELSE Hook)
           /\ Items(q) = {RemoveRow(x), b} \cup Items(p)
<1>1. PICK a, r, q : a = RemoveRow(x) /\ r = <<b>> \o p /\ q = <<a>> \o r
  OBVIOUS
<1>0. a \in RowSteps /\ a \in Steps /\ a.do = "remove" /\ a.quest = x
  BY <1>1, StepTypes, KindsApart DEF RemoveRow
<1>2. r \in Seq(Steps) /\ r # <<>> /\ Head(r) = b /\ Tail(r) = p /\ Items(r) = {b} \cup Items(p) /\ p \in Seq(Steps)
  BY <1>1, Cons, ItemsCons DEF Light
<1>3. q \in Seq(Steps) /\ q # <<>> /\ Head(q) = a /\ Tail(q) = r /\ Items(q) = {a} \cup Items(r)
  <2>1. q = <<a>> \o r /\ a \in Steps /\ r \in Seq(Steps)
    BY <1>0, <1>1, <1>2
  <2>2. q \in Seq(Steps) /\ q # <<>> /\ Head(q) = a /\ Tail(q) = r
    BY <2>1, Cons
  <2>3. Items(q) = {a} \cup Items(r)
    BY <2>1, ItemsCons
  <2> QED BY <2>2, <2>3
<1>4. First(q) = a /\ Second(q) = b
  BY <1>2, <1>3 DEF First, Second
<1>5. b.do \in {"loadBits", "pay"}
  BY DEF Do
<1>6. Drained(r)
  BY <1>1, <1>5, DrainedCons DEF Light
<1>7. Drained(q)
  BY <1>0, <1>1, <1>2, <1>6, DrainedCons
<1>8. Shape(q)
  BY <1>0, <1>2, <1>3, <1>4, <1>7 DEF Shape, Light
<1>9. b \in BitSteps \/ b \in PaySteps
  BY <1>5, StepFields
<1>10. RowOf(q) = a /\ BitOf(q) = (IF b \in BitSteps THEN b ELSE Hook) /\ PayOf(q) = (IF b \in PaySteps THEN b ELSE Hook)
  BY <1>0, <1>4, <1>9, KindsApart DEF RowOf, BitOf, PayOf
<1> QED BY <1>1, <1>2, <1>3, <1>8, <1>10 DEF Does

\* What a program is about to do, by its head.
LEMMA HeadWork ==
    ASSUME NEW p \in Seq(Steps), Shape(p), p # <<>>
    PROVE  /\ Head(p) \in Steps /\ Items(p) = {Head(p)} \cup Items(Tail(p)) /\ Tail(p) \in Seq(Steps)
           /\ RowOf(p) = IF Head(p) \in RowSteps THEN Head(p) ELSE Hook
           /\ Head(p).do # "remove" =>
                 /\ BitOf(p) = IF Head(p) \in BitSteps THEN Head(p) ELSE Hook
                 /\ PayOf(p) = IF Head(p) \in PaySteps THEN Head(p) ELSE Hook
                 /\ Light(Tail(p)) /\ Does(Tail(p), Hook, Hook, Hook)
           /\ Head(p).do = "remove" => Does(Tail(p), Hook, BitOf(p), PayOf(p))
<1>1. Head(p) \in Steps /\ Tail(p) \in Seq(Steps) /\ Items(p) = {Head(p)} \cup Items(Tail(p)) /\ First(p) = Head(p)
      /\ Second(p) = First(Tail(p)) /\ First(Tail(p)) \in Steps
  BY HeadTail, FirstSteps DEF First, Second
<1>2. RowOf(p) = IF Head(p) \in RowSteps THEN Head(p) ELSE Hook
  BY <1>1 DEF RowOf
<1>3. ASSUME Head(p).do # "remove"
      PROVE  /\ BitOf(p) = IF Head(p) \in BitSteps THEN Head(p) ELSE Hook
             /\ PayOf(p) = IF Head(p) \in PaySteps THEN Head(p) ELSE Hook
             /\ Light(Tail(p)) /\ Does(Tail(p), Hook, Hook, Hook)
  <2>1. Light(Tail(p)) /\ Second(p) \in OtherSteps
    BY <1>3, CalmTail
  <2>2. Does(Tail(p), Hook, Hook, Hook)
    BY <1>1, <2>1, CalmWork DEF Does
  <2> QED BY <1>1, <2>1, <2>2, KindsApart DEF BitOf, PayOf
<1>4. ASSUME Head(p).do = "remove" PROVE Does(Tail(p), Hook, BitOf(p), PayOf(p))
  <2>0. Head(p) \in RowSteps
    BY <1>1, <1>4, StepFields
  <2>1. BitOf(p) = (IF Second(p) \in BitSteps THEN Second(p) ELSE Hook) /\ PayOf(p) = (IF Second(p) \in PaySteps THEN Second(p) ELSE Hook)
    BY <1>1, <2>0, KindsApart DEF BitOf, PayOf
  <2>2. Drained(Tail(p))
    BY DrainedTail DEF Shape
  <2>3. CASE Calm(Tail(p))
    <3>1. Light(Tail(p))
      BY <1>1, <2>2, <2>3 DEF Light
    <3>2. Second(p) \in OtherSteps
      BY <1>1, <2>3, FirstSteps
    <3> QED BY <1>1, <2>1, <3>1, <3>2, CalmWork, KindsApart DEF Does
  <2>4. CASE Tail(p) # <<>> /\ Calm(Tail(Tail(p))) /\ (Second(p).do = "loadBits" \/ Second(p) = Do("pay", Head(p).quest))
    <3>1. Head(Tail(p)) = Second(p) /\ Tail(Tail(p)) \in Seq(Steps) /\ Second(p).do \in {"loadBits", "pay"} /\ First(Tail(p)) = Second(p)
          /\ Second(Tail(p)) = First(Tail(Tail(p)))
      <4>1. Second(p).do \in {"loadBits", "pay"}
        BY <2>4 DEF Do
      <4>2. Head(Tail(p)) = Second(p) /\ First(Tail(p)) = Second(p) /\ Second(Tail(p)) = First(Tail(Tail(p)))
        BY <1>1, <2>4 DEF First, Second
      <4>3. Tail(Tail(p)) \in Seq(Steps)
        BY <1>1, <2>4, HeadTail
      <4> QED BY <4>1, <4>2, <4>3
    <3>2. Second(Tail(p)) \in OtherSteps
      BY <2>4, <3>1, FirstSteps
    <3>3. Shape(Tail(p))
      BY <2>2, <2>4, <3>1 DEF Shape
    <3>4. Second(p) \in BitSteps \/ Second(p) \in PaySteps
      BY <1>1, <3>1, StepFields
    <3>5. RowOf(Tail(p)) = Hook /\ BitOf(Tail(p)) = BitOf(p) /\ PayOf(Tail(p)) = PayOf(p)
      BY <2>1, <3>1, <3>2, <3>4, KindsApart DEF RowOf, BitOf, PayOf
    <3> QED BY <1>1, <3>3, <3>5 DEF Does
  <2> QED BY <1>4, <2>3, <2>4 DEF Shape
<1> QED BY <1>1, <1>2, <1>3, <1>4

-----------------------------------------------------------------------------
(* The journal and its table, by the writes still to be made *)

\* The write x of a task, not made yet, is of slot s as the table is.
Writing(r, x, s) == (x.do \in {"save", "saveLs"} /\ x.slot = s) \/ (x.do = "remove" /\ x.quest = r[s].quest)

Distinct(f) == \A s1, s2 \in Slots : f[s1] # NoQuest /\ f[s1].quest = f[s2].quest => s1 = s2

\* What a pending write finds: the entry it saves is the one in memory, and the row it
\* changes or deletes is of the same quest.
SaveFinds(j, r, x) ==
    /\ j[x.slot] = x.c
    /\ \/ r[x.slot] = NoQuest /\ x.c.ls = 0
       \/ r[x.slot] # NoQuest /\ r[x.slot].quest = x.c.quest /\ r[x.slot].ls = x.c.ls
SaveLsFinds(j, r, x) == r[x.slot] # NoQuest /\ j[x.slot] = [r[x.slot] EXCEPT !.ls = x.ls]
RemoveFinds(j, r, x) == \A s \in Slots : j[s].quest # x.quest /\ (r[s].quest = x.quest => j[s] = NoQuest)
Finds(j, r, x) ==
    /\ x.do = "save" => SaveFinds(j, r, x)
    /\ x.do = "saveLs" => SaveLsFinds(j, r, x)
    /\ x.do = "remove" => RemoveFinds(j, r, x)

\* A row differs from its entry only while a write of it is pending, in one task.
Mirrored(j, r, w) == \A s \in Slots : r[s] = j[s] \/ \E t \in Tasks : Writing(r, w[t], s)
OneWriter(r, w) == \A s \in Slots : \A t, u \in Tasks : Writing(r, w[t], s) /\ Writing(r, w[u], s) => t = u

RowsGood(j, r, w) ==
    /\ Distinct(j) /\ Distinct(r) /\ Mirrored(j, r, w) /\ OneWriter(r, w)
    /\ \A t \in Tasks : Finds(j, r, w[t])

RowsTyped(j, r, w) == j \in [Slots -> Cells] /\ r \in [Slots -> Cells] /\ w \in [Tasks -> RowSteps \cup {Hook}]

\* What Overlap asks of the writes of another task.
Touches(r, x, s, q) ==
    \/ x.do \in {"save", "saveLs"} /\ (x.slot = s \/ (x.do = "save" /\ x.c.quest = q))
    \/ x.do = "remove" /\ (x.quest = q \/ r[s].quest = x.quest)

\* No write is pending of a slot that no other task touches.
LEMMA Untouched ==
    ASSUME NEW j, NEW r, NEW w, RowsTyped(j, r, w), RowsGood(j, r, w), NEW t \in Tasks, w[t] = Hook, NEW s \in Slots, NEW q,
           \A u \in Tasks \ {t} : ~Touches(r, w[u], s, q)
    PROVE  /\ r[s] = j[s] /\ \A u \in Tasks : ~Writing(r, w[u], s)
           /\ \A u \in Tasks : w[u].do = "remove" => w[u].quest # q
           /\ \A u \in Tasks : w[u].do = "save" => w[u].c.quest # q
<1>1. \A u \in Tasks : ~Writing(r, w[u], s) /\ (w[u].do = "remove" => w[u].quest # q) /\ (w[u].do = "save" => w[u].c.quest # q)
  <2> SUFFICES ASSUME NEW u \in Tasks
               PROVE ~Writing(r, w[u], s) /\ (w[u].do = "remove" => w[u].quest # q) /\ (w[u].do = "save" => w[u].c.quest # q)
    OBVIOUS
  <2>1. CASE u = t
    BY <2>1, KindsApart DEF Writing
  <2>2. CASE u # t
    BY <2>2 DEF Writing, Touches
  <2> QED BY <2>1, <2>2
<1> QED BY <1>1 DEF RowsGood, Mirrored

\* A pending write of another slot finds what it found when a slot changes to another quest.
LEMMA FindsStill ==
    ASSUME NEW j, NEW j2, NEW r, NEW s \in Slots, NEW x \in RowSteps \cup {Hook}, Finds(j, r, x), ~Writing(r, x, s),
           \A y \in Slots \ {s} : j2[y] = j[y], x.do = "remove" => j2[s].quest # x.quest
    PROVE  Finds(j2, r, x)
<1>1. ASSUME x.do = "save" PROVE SaveFinds(j2, r, x)
  <2>1. x.slot \in Slots \ {s}
    BY <1>1, StepFields, KindsApart DEF Writing
  <2> QED BY <1>1, <2>1 DEF Finds, SaveFinds
<1>2. ASSUME x.do = "saveLs" PROVE SaveLsFinds(j2, r, x)
  <2>1. x.slot \in Slots \ {s}
    BY <1>2, StepFields, KindsApart DEF Writing
  <2> QED BY <1>2, <2>1 DEF Finds, SaveLsFinds
<1>3. ASSUME x.do = "remove" PROVE RemoveFinds(j2, r, x)
  <2>1. RemoveFinds(j, r, x) /\ r[s].quest # x.quest
    BY <1>3 DEF Finds, Writing
  <2> QED BY <1>3, <2>1 DEF RemoveFinds
<1> QED BY <1>1, <1>2, <1>3 DEF Finds

\* An entry is put into a free slot, or changed but for its linkshell step.
Puts(j, s, c) ==
    \/ j[s] = NoQuest /\ c.ls = 0 /\ \A x \in Slots : j[x].quest # c.quest
    \/ j[s] # NoQuest /\ c.quest = j[s].quest /\ c.ls = j[s].ls

LEMMA PutGood ==
    ASSUME NEW j, NEW r, NEW w, RowsTyped(j, r, w), RowsGood(j, r, w), NEW t \in Tasks, w[t] = Hook,
           NEW s \in Slots, NEW c \in Entry, Puts(j, s, c), \A u \in Tasks \ {t} : ~Touches(r, w[u], s, c.quest)
    PROVE  RowsGood([j EXCEPT ![s] = c], r, [w EXCEPT ![t] = Save(s, c)])
<1>0. PICK j2, w2 : j2 = [j EXCEPT ![s] = c] /\ w2 = [w EXCEPT ![t] = Save(s, c)]
  OBVIOUS
<1>1. /\ j2[s] = c /\ \A x \in Slots \ {s} : j2[x] = j[x]
      /\ w2[t] = Save(s, c) /\ \A u \in Tasks \ {t} : w2[u] = w[u]
  BY <1>0 DEF RowsTyped
<1>2. /\ r[s] = j[s] /\ \A u \in Tasks : ~Writing(r, w[u], s)
      /\ \A u \in Tasks : w[u].do = "remove" => w[u].quest # c.quest
      /\ \A u \in Tasks : w[u].do = "save" => w[u].c.quest # c.quest
  BY Untouched
<1>3. w2[t].do = "save" /\ w2[t].slot = s /\ w2[t].c = c
  BY <1>1 DEF Save
<1>4. c.quest \in Entries /\ c # NoQuest
  BY CellFacts
<1>5. Distinct(j2)
  <2> SUFFICES ASSUME NEW s1 \in Slots, NEW s2 \in Slots, j2[s1] # NoQuest, j2[s1].quest = j2[s2].quest, s1 # s2 PROVE FALSE
    BY DEF Distinct
  <2>1. \A x \in Slots \ {s} : j[x].quest # c.quest
    BY <1>4 DEF RowsGood, Distinct, Puts
  <2>2. s1 # s /\ s2 # s
    BY <1>1, <2>1
  <2> QED BY <1>1, <2>2 DEF RowsGood, Distinct
<1>6. Mirrored(j2, r, w2)
  <2> SUFFICES ASSUME NEW x \in Slots PROVE r[x] = j2[x] \/ \E u \in Tasks : Writing(r, w2[u], x)
    BY DEF Mirrored
  <2>1. CASE x = s
    BY <1>3, <2>1 DEF Writing
  <2>2. CASE x # s
    <3>1. r[x] = j[x] \/ \E u \in Tasks : Writing(r, w[u], x)
      BY DEF RowsGood, Mirrored
    <3>2. ~Writing(r, w[t], x)
      BY KindsApart DEF Writing
    <3> QED BY <1>1, <2>2, <3>1, <3>2
  <2> QED BY <2>1, <2>2
<1>7. OneWriter(r, w2)
  <2> SUFFICES ASSUME NEW x \in Slots, NEW u \in Tasks, NEW v \in Tasks, Writing(r, w2[u], x), Writing(r, w2[v], x), u # v PROVE FALSE
    BY DEF OneWriter
  <2>1. \A k \in Tasks : Writing(r, w2[k], x) => (k = t /\ x = s) \/ (k # t /\ Writing(r, w[k], x))
    BY <1>1, <1>3 DEF Writing
  <2> QED BY <1>2, <2>1 DEF RowsGood, OneWriter
<1>8. ASSUME NEW u \in Tasks PROVE Finds(j2, r, w2[u])
  <2>1. CASE u = t
    <3>1. SaveFinds(j2, r, w2[t])
      BY <1>1, <1>2, <1>3 DEF SaveFinds, Puts
    <3> QED BY <1>3, <2>1, <3>1 DEF Finds
  <2>2. CASE u # t
    <3>1. w2[u] = w[u] /\ Finds(j, r, w[u]) /\ ~Writing(r, w[u], s) /\ w[u] \in RowSteps \cup {Hook}
          /\ (w[u].do = "remove" => j2[s].quest # w[u].quest)
      BY <1>1, <1>2, <2>2 DEF RowsGood, RowsTyped
    <3> QED BY <1>1, <3>1, FindsStill
  <2> QED BY <2>1, <2>2
<1> QED BY <1>0, <1>5, <1>6, <1>7, <1>8 DEF RowsGood

\* The linkshell step of an entry is set.
LEMMA PutLsGood ==
    ASSUME NEW j, NEW r, NEW w, RowsTyped(j, r, w), RowsGood(j, r, w), NEW t \in Tasks, w[t] = Hook,
           NEW s \in Slots, j[s] # NoQuest, NEW n \in 0..1, \A u \in Tasks \ {t} : ~Touches(r, w[u], s, j[s].quest)
    PROVE  RowsGood([j EXCEPT ![s].ls = n], r, [w EXCEPT ![t] = SaveLs(s, n)])
<1>0. PICK c, j2, w2 : c = [j[s] EXCEPT !.ls = n] /\ j2 = [j EXCEPT ![s] = c] /\ w2 = [w EXCEPT ![t] = SaveLs(s, n)]
  OBVIOUS
<1>9. j2 = [j EXCEPT ![s].ls = n]
  BY <1>0 DEF RowsTyped
<1>a. j[s] \in Entry
  BY CellFacts DEF RowsTyped
<1>b. c \in Entry /\ c.quest = j[s].quest
  BY <1>0, <1>a, ChangedEntry
<1>1. /\ j2[s] = c /\ \A x \in Slots \ {s} : j2[x] = j[x]
      /\ w2[t] = SaveLs(s, n) /\ \A u \in Tasks \ {t} : w2[u] = w[u]
  BY <1>0 DEF RowsTyped
<1>2. /\ r[s] = j[s] /\ \A u \in Tasks : ~Writing(r, w[u], s)
      /\ \A u \in Tasks : w[u].do = "remove" => w[u].quest # c.quest
  BY <1>b, Untouched
<1>3. w2[t].do = "saveLs" /\ w2[t].slot = s /\ w2[t].ls = n
  BY <1>1 DEF SaveLs
<1>4. c.quest \in Entries /\ c # NoQuest
  BY <1>b, CellFacts
<1>5. Distinct(j2)
  <2> SUFFICES ASSUME NEW s1 \in Slots, NEW s2 \in Slots, j2[s1] # NoQuest, j2[s1].quest = j2[s2].quest, s1 # s2 PROVE FALSE
    BY DEF Distinct
  <2>1. \A x \in Slots \ {s} : j[x].quest # c.quest
    BY <1>4, <1>b DEF RowsGood, Distinct
  <2>2. s1 # s /\ s2 # s
    BY <1>1, <2>1
  <2> QED BY <1>1, <2>2 DEF RowsGood, Distinct
<1>6. Mirrored(j2, r, w2)
  <2> SUFFICES ASSUME NEW x \in Slots PROVE r[x] = j2[x] \/ \E u \in Tasks : Writing(r, w2[u], x)
    BY DEF Mirrored
  <2>1. CASE x = s
    BY <1>3, <2>1 DEF Writing
  <2>2. CASE x # s
    <3>1. r[x] = j[x] \/ \E u \in Tasks : Writing(r, w[u], x)
      BY DEF RowsGood, Mirrored
    <3>2. ~Writing(r, w[t], x)
      BY KindsApart DEF Writing
    <3> QED BY <1>1, <2>2, <3>1, <3>2
  <2> QED BY <2>1, <2>2
<1>7. OneWriter(r, w2)
  <2> SUFFICES ASSUME NEW x \in Slots, NEW u \in Tasks, NEW v \in Tasks, Writing(r, w2[u], x), Writing(r, w2[v], x), u # v PROVE FALSE
    BY DEF OneWriter
  <2>1. \A k \in Tasks : Writing(r, w2[k], x) => (k = t /\ x = s) \/ (k # t /\ Writing(r, w[k], x))
    BY <1>1, <1>3 DEF Writing
  <2> QED BY <1>2, <2>1 DEF RowsGood, OneWriter
<1>8. ASSUME NEW u \in Tasks PROVE Finds(j2, r, w2[u])
  <2>1. CASE u = t
    <3>1. SaveLsFinds(j2, r, w2[t])
      BY <1>0, <1>1, <1>2, <1>3 DEF SaveLsFinds
    <3> QED BY <1>3, <2>1, <3>1 DEF Finds
  <2>2. CASE u # t
    <3>1. w2[u] = w[u] /\ Finds(j, r, w[u]) /\ ~Writing(r, w[u], s) /\ w[u] \in RowSteps \cup {Hook}
          /\ (w[u].do = "remove" => j2[s].quest # w[u].quest)
      BY <1>1, <1>2, <2>2 DEF RowsGood, RowsTyped
    <3> QED BY <1>1, <3>1, FindsStill
  <2> QED BY <2>1, <2>2
<1> QED BY <1>0, <1>9, <1>5, <1>6, <1>7, <1>8 DEF RowsGood

\* An entry leaves the journal.
LEMMA OutGood ==
    ASSUME NEW j, NEW r, NEW w, RowsTyped(j, r, w), RowsGood(j, r, w), NEW t \in Tasks, w[t] = Hook,
           NEW s \in Slots, NEW q \in Entries, j[s].quest = q, \A u \in Tasks \ {t} : ~Touches(r, w[u], s, q)
    PROVE  RowsGood([j EXCEPT ![s] = NoQuest], r, [w EXCEPT ![t] = RemoveRow(q)])
<1>0. PICK j2, w2 : j2 = [j EXCEPT ![s] = NoQuest] /\ w2 = [w EXCEPT ![t] = RemoveRow(q)]
  OBVIOUS
<1>1. /\ j2[s] = NoQuest /\ \A x \in Slots \ {s} : j2[x] = j[x]
      /\ w2[t] = RemoveRow(q) /\ \A u \in Tasks \ {t} : w2[u] = w[u]
  BY <1>0 DEF RowsTyped
<1>2. /\ r[s] = j[s] /\ \A u \in Tasks : ~Writing(r, w[u], s)
      /\ \A u \in Tasks : w[u].do = "remove" => w[u].quest # q
      /\ \A u \in Tasks : w[u].do = "save" => w[u].c.quest # q
  BY Untouched
<1>3. w2[t].do = "remove" /\ w2[t].quest = q
  BY <1>1 DEF RemoveRow
<1>4. j[s] # NoQuest /\ NoQuest.quest # q /\ r[s] # NoQuest /\ r[s].quest = q
  BY <1>2, CellFacts
<1>5. \A x \in Slots \ {s} : j[x].quest # q /\ r[x].quest # q
  BY <1>4 DEF RowsGood, Distinct
<1>6. Distinct(j2)
  <2> SUFFICES ASSUME NEW s1 \in Slots, NEW s2 \in Slots, j2[s1] # NoQuest, j2[s1].quest = j2[s2].quest, s1 # s2 PROVE FALSE
    BY DEF Distinct
  <2>1. s1 # s /\ j[s1] # NoQuest /\ j[s1] \in Cells
    BY <1>1 DEF RowsTyped
  <2>2. j[s1].quest # NoQuest.quest
    BY <2>1, CellFacts
  <2>3. s2 # s
    BY <1>1, <2>1, <2>2
  <2> QED BY <1>1, <2>1, <2>3 DEF RowsGood, Distinct
<1>7. Mirrored(j2, r, w2)
  <2> SUFFICES ASSUME NEW x \in Slots PROVE r[x] = j2[x] \/ \E u \in Tasks : Writing(r, w2[u], x)
    BY DEF Mirrored
  <2>1. CASE x = s
    BY <1>3, <1>4, <2>1 DEF Writing
  <2>2. CASE x # s
    <3>1. r[x] = j[x] \/ \E u \in Tasks : Writing(r, w[u], x)
      BY DEF RowsGood, Mirrored
    <3>2. ~Writing(r, w[t], x)
      BY KindsApart DEF Writing
    <3> QED BY <1>1, <2>2, <3>1, <3>2
  <2> QED BY <2>1, <2>2
<1>8. OneWriter(r, w2)
  <2> SUFFICES ASSUME NEW x \in Slots, NEW u \in Tasks, NEW v \in Tasks, Writing(r, w2[u], x), Writing(r, w2[v], x), u # v PROVE FALSE
    BY DEF OneWriter
  <2>1. \A k \in Tasks : Writing(r, w2[k], x) => (k = t /\ x = s) \/ (k # t /\ Writing(r, w[k], x))
    BY <1>1, <1>3, <1>5 DEF Writing
  <2> QED BY <1>2, <2>1 DEF RowsGood, OneWriter
<1>9. ASSUME NEW u \in Tasks PROVE Finds(j2, r, w2[u])
  <2>1. CASE u = t
    <3>1. RemoveFinds(j2, r, w2[t])
      BY <1>1, <1>3, <1>4, <1>5 DEF RemoveFinds
    <3> QED BY <1>3, <2>1, <3>1 DEF Finds
  <2>2. CASE u # t
    <3>1. w2[u] = w[u] /\ Finds(j, r, w[u]) /\ ~Writing(r, w[u], s) /\ w[u] \in RowSteps \cup {Hook}
      BY <1>1, <1>2, <2>2 DEF RowsGood, RowsTyped
    <3>2. w[u].do = "remove" => j2[s].quest # w[u].quest
      BY <1>1, <3>1, StepFields, KindsApart, CellFacts
    <3> QED BY <1>1, <3>1, <3>2, FindsStill
  <2> QED BY <2>1, <2>2
<1> QED BY <1>0, <1>6, <1>7, <1>8, <1>9 DEF RowsGood

\* A row is saved.
LEMMA SaveGood ==
    ASSUME NEW j, NEW r, NEW w, RowsTyped(j, r, w), RowsGood(j, r, w), NEW t \in Tasks,
           NEW s \in Slots, NEW c \in Entry, w[t] = Save(s, c)
    PROVE  RowsGood(j, [r EXCEPT ![s] = [c EXCEPT !.ls = IF r[s] = NoQuest THEN 0 ELSE r[s].ls]], [w EXCEPT ![t] = Hook])
<1>1. w[t].do = "save" /\ w[t].slot = s /\ w[t].c = c /\ Writing(r, w[t], s) /\ SaveFinds(j, r, w[t])
  BY DEF Save, Writing, RowsGood, Finds
<1>2. [c EXCEPT !.ls = IF r[s] = NoQuest THEN 0 ELSE r[s].ls] = c
  <2>1. (IF r[s] = NoQuest THEN 0 ELSE r[s].ls) = c.ls
    BY <1>1 DEF SaveFinds
  <2> QED BY <2>1, ChangedEntry
<1>3. PICK r2, w2 : r2 = [r EXCEPT ![s] = c] /\ w2 = [w EXCEPT ![t] = Hook]
  OBVIOUS
<1>4. /\ r2[s] = c /\ \A x \in Slots \ {s} : r2[x] = r[x]
      /\ w2[t] = Hook /\ \A u \in Tasks \ {t} : w2[u] = w[u]
  BY <1>3 DEF RowsTyped
<1>5. j[s] = c /\ c.quest \in Entries /\ c # NoQuest
  BY <1>1, CellFacts DEF SaveFinds
<1>6. \A u \in Tasks \ {t} : ~Writing(r, w[u], s)
  BY <1>1 DEF RowsGood, OneWriter
<1>7. \A u \in Tasks, x \in Slots : Writing(r2, w2[u], x) <=> u # t /\ x # s /\ Writing(r, w[u], x)
  <2> SUFFICES ASSUME NEW u \in Tasks, NEW x \in Slots PROVE Writing(r2, w2[u], x) <=> u # t /\ x # s /\ Writing(r, w[u], x)
    OBVIOUS
  <2>1. CASE u = t
    BY <1>4, <2>1, KindsApart DEF Writing
  <2>2. CASE u # t /\ x = s
    <3>1. w[u].do = "remove" => w[u].quest # c.quest
      BY <1>5 DEF RowsGood, Finds, RemoveFinds
    <3> QED BY <1>4, <1>6, <2>2, <3>1 DEF Writing
  <2>3. CASE u # t /\ x # s
    BY <1>4, <2>3 DEF Writing
  <2> QED BY <2>1, <2>2, <2>3
<1>8. \A x \in Slots : r[x] # NoQuest /\ r[x].quest = c.quest => x = s
  <2> SUFFICES ASSUME NEW x \in Slots, r[x] # NoQuest, r[x].quest = c.quest, x # s PROVE FALSE
    OBVIOUS
  <2>1. j[x].quest # c.quest
    BY <1>5 DEF RowsGood, Distinct
  <2>2. PICK u \in Tasks : Writing(r, w[u], x)
    BY <2>1 DEF RowsGood, Mirrored
  <2>3. Finds(j, r, w[u]) /\ w[u] \in RowSteps \cup {Hook}
    BY DEF RowsGood, RowsTyped
  <2>4. CASE w[u].do = "save"
    BY <2>1, <2>2, <2>3, <2>4 DEF Finds, SaveFinds, Writing
  <2>5. CASE w[u].do = "saveLs"
    <3>1. w[u].slot = x /\ w[u].ls \in 0..1
      BY <2>2, <2>3, <2>5, StepFields, KindsApart DEF Writing
    <3>2. r[x] \in Entry /\ j[x] = [r[x] EXCEPT !.ls = w[u].ls]
      BY <2>3, <2>5, <3>1, CellFacts DEF Finds, SaveLsFinds, RowsTyped
    <3>3. j[x].quest = r[x].quest
      BY <3>1, <3>2, ChangedEntry
    <3> QED BY <2>1, <3>3
  <2>6. CASE w[u].do = "remove"
    BY <1>5, <2>2, <2>3, <2>6 DEF Finds, RemoveFinds, Writing
  <2> QED BY <2>2, <2>4, <2>5, <2>6 DEF Writing
<1>9. Distinct(r2)
  <2> SUFFICES ASSUME NEW s1 \in Slots, NEW s2 \in Slots, r2[s1] # NoQuest, r2[s1].quest = r2[s2].quest, s1 # s2 PROVE FALSE
    BY DEF Distinct
  <2>1. CASE s1 = s
    <3>1. r[s2].quest = c.quest
      BY <1>4, <2>1
    <3>2. r[s2] # NoQuest
      BY <1>5, <3>1, CellFacts
    <3> QED BY <1>8, <2>1, <3>1, <3>2
  <2>2. CASE s2 = s
    <3>1. r[s1].quest = c.quest /\ r[s1] # NoQuest
      BY <1>4, <2>2
    <3> QED BY <1>8, <2>2, <3>1
  <2>3. CASE s1 # s /\ s2 # s
    BY <1>4, <2>3 DEF RowsGood, Distinct
  <2> QED BY <2>1, <2>2, <2>3
<1>10. Mirrored(j, r2, w2)
  <2> SUFFICES ASSUME NEW x \in Slots, x # s PROVE r2[x] = j[x] \/ \E u \in Tasks : Writing(r2, w2[u], x)
    BY <1>4, <1>5 DEF Mirrored
  <2>1. r[x] = j[x] \/ \E u \in Tasks : Writing(r, w[u], x)
    BY DEF RowsGood, Mirrored
  <2>2. ~Writing(r, w[t], x)
    BY <1>1 DEF Writing
  <2> QED BY <1>4, <1>7, <2>1, <2>2
<1>11. OneWriter(r2, w2)
  BY <1>7 DEF RowsGood, OneWriter
<1>12. ASSUME NEW u \in Tasks PROVE Finds(j, r2, w2[u])
  <2>1. CASE u = t
    BY <1>4, <2>1, KindsApart DEF Finds
  <2>2. CASE u # t
    <3>1. w2[u] = w[u] /\ Finds(j, r, w[u]) /\ ~Writing(r, w[u], s) /\ w[u] \in RowSteps \cup {Hook}
      BY <1>4, <1>6, <2>2 DEF RowsGood, RowsTyped
    <3>2. w[u].do \in {"save", "saveLs"} => w[u].slot \in Slots \ {s}
      BY <3>1, StepFields, KindsApart DEF Writing
    <3>3. w[u].do = "remove" => c.quest # w[u].quest
      BY <1>5, <3>1 DEF Finds, RemoveFinds
    <3> QED BY <1>4, <3>1, <3>2, <3>3 DEF Finds, SaveFinds, SaveLsFinds, RemoveFinds
  <2> QED BY <2>1, <2>2
<1> QED BY <1>2, <1>3, <1>9, <1>10, <1>11, <1>12 DEF RowsGood

\* The linkshell column of a row is saved: the row is there.
LsTo(j, r, w, s, t, n) == r[s] # NoQuest /\ RowsGood(j, [r EXCEPT ![s].ls = n], [w EXCEPT ![t] = Hook])
LEMMA SaveLsGood ==
    ASSUME NEW j, NEW r, NEW w, RowsTyped(j, r, w), RowsGood(j, r, w), NEW t \in Tasks,
           NEW s \in Slots, NEW n \in 0..1, w[t] = SaveLs(s, n)
    PROVE  LsTo(j, r, w, s, t, n)
<1> USE DEF LsTo
<1>1. w[t].do = "saveLs" /\ w[t].slot = s /\ w[t].ls = n /\ Writing(r, w[t], s) /\ SaveLsFinds(j, r, w[t])
  BY DEF SaveLs, Writing, RowsGood, Finds
<1>2. r[s] # NoQuest /\ j[s] = [r[s] EXCEPT !.ls = n] /\ r[s] \in Entry
  BY <1>1, CellFacts DEF SaveLsFinds, RowsTyped
<1>3. PICK c, r2, w2 : c = j[s] /\ r2 = [r EXCEPT ![s] = c] /\ w2 = [w EXCEPT ![t] = Hook]
  OBVIOUS
<1>0. r2 = [r EXCEPT ![s].ls = n]
  BY <1>2, <1>3 DEF RowsTyped
<1>4. /\ r2[s] = c /\ \A x \in Slots \ {s} : r2[x] = r[x]
      /\ w2[t] = Hook /\ \A u \in Tasks \ {t} : w2[u] = w[u]
  BY <1>3 DEF RowsTyped
<1>5. c.quest = r[s].quest /\ c # NoQuest /\ c \in Entry /\ c.quest \in Entries
  <2>1. c \in Entry /\ c.quest = r[s].quest
    <3>1. PICK e \in Entry : e = r[s]
      BY <1>2
    <3>2. c = [e EXCEPT !.ls = n]
      BY <1>2, <1>3, <3>1
    <3>3. [e EXCEPT !.ls = n] \in Entry /\ [e EXCEPT !.ls = n].quest = e.quest
      BY ChangedEntry
    <3> QED BY <3>1, <3>2, <3>3
  <2> QED BY <2>1, CellFacts
<1>6. \A u \in Tasks \ {t} : ~Writing(r, w[u], s)
  BY <1>1 DEF RowsGood, OneWriter
<1>7. \A u \in Tasks, x \in Slots : Writing(r2, w2[u], x) <=> u # t /\ x # s /\ Writing(r, w[u], x)
  <2> SUFFICES ASSUME NEW u \in Tasks, NEW x \in Slots PROVE Writing(r2, w2[u], x) <=> u # t /\ x # s /\ Writing(r, w[u], x)
    OBVIOUS
  <2>1. CASE u = t
    BY <1>4, <2>1, KindsApart DEF Writing
  <2>2. CASE u # t /\ x = s
    BY <1>4, <1>5, <1>6, <2>2 DEF Writing
  <2>3. CASE u # t /\ x # s
    BY <1>4, <2>3 DEF Writing
  <2> QED BY <2>1, <2>2, <2>3
<1>8. Distinct(r2)
  <2>1. \A x \in Slots : r2[x].quest = r[x].quest /\ (r2[x] # NoQuest => r[x] # NoQuest)
    BY <1>2, <1>4, <1>5
  <2> QED BY <2>1 DEF RowsGood, Distinct
<1>9. Mirrored(j, r2, w2)
  <2> SUFFICES ASSUME NEW x \in Slots, x # s PROVE r2[x] = j[x] \/ \E u \in Tasks : Writing(r2, w2[u], x)
    BY <1>3, <1>4 DEF Mirrored
  <2>1. r[x] = j[x] \/ \E u \in Tasks : Writing(r, w[u], x)
    BY DEF RowsGood, Mirrored
  <2>2. ~Writing(r, w[t], x)
    BY <1>1 DEF Writing
  <2> QED BY <1>4, <1>7, <2>1, <2>2
<1>10. OneWriter(r2, w2)
  BY <1>7 DEF RowsGood, OneWriter
<1>11. ASSUME NEW u \in Tasks PROVE Finds(j, r2, w2[u])
  <2>1. CASE u = t
    BY <1>4, <2>1, KindsApart DEF Finds
  <2>2. CASE u # t
    <3>1. w2[u] = w[u] /\ Finds(j, r, w[u]) /\ ~Writing(r, w[u], s) /\ w[u] \in RowSteps \cup {Hook}
      BY <1>4, <1>6, <2>2 DEF RowsGood, RowsTyped
    <3>2. w[u].do \in {"save", "saveLs"} => w[u].slot \in Slots \ {s}
      BY <3>1, StepFields, KindsApart DEF Writing
    <3>3. w[u].do = "remove" => r[s].quest # w[u].quest
      BY <3>1 DEF Writing
    <3> QED BY <1>4, <1>5, <3>1, <3>2, <3>3 DEF Finds, SaveFinds, SaveLsFinds, RemoveFinds
  <2> QED BY <2>1, <2>2
<1> QED BY <1>0, <1>2, <1>3, <1>8, <1>9, <1>10, <1>11 DEF RowsGood

\* The rows of a quest are deleted.
LEMMA RemoveGood ==
    ASSUME NEW j, NEW r, NEW w, RowsTyped(j, r, w), RowsGood(j, r, w), NEW t \in Tasks, NEW q \in Entries, w[t] = RemoveRow(q)
    PROVE  RowsGood(j, [s \in Slots |-> IF r[s].quest = q THEN NoQuest ELSE r[s]], [w EXCEPT ![t] = Hook])
<1>1. w[t].do = "remove" /\ w[t].quest = q /\ RemoveFinds(j, r, w[t])
  BY DEF RemoveRow, RowsGood, Finds
<1>2. PICK r2, w2 : r2 = [s \in Slots |-> IF r[s].quest = q THEN NoQuest ELSE r[s]] /\ w2 = [w EXCEPT ![t] = Hook]
  OBVIOUS
<1>3. /\ \A x \in Slots : r2[x] = IF r[x].quest = q THEN NoQuest ELSE r[x]
      /\ w2[t] = Hook /\ \A u \in Tasks \ {t} : w2[u] = w[u]
  BY <1>2 DEF RowsTyped
<1>4. \A x \in Slots : r[x].quest = q => j[x] = NoQuest /\ \A u \in Tasks \ {t} : ~Writing(r, w[u], x)
  BY <1>1 DEF RowsGood, OneWriter, RemoveFinds, Writing
<1>5. \A u \in Tasks, x \in Slots : Writing(r2, w2[u], x) <=> u # t /\ r[x].quest # q /\ Writing(r, w[u], x)
  <2> SUFFICES ASSUME NEW u \in Tasks, NEW x \in Slots PROVE Writing(r2, w2[u], x) <=> u # t /\ r[x].quest # q /\ Writing(r, w[u], x)
    OBVIOUS
  <2>1. CASE u = t
    BY <1>3, <2>1, KindsApart DEF Writing
  <2>2. CASE u # t /\ r[x].quest = q
    <3>1. w[u].do = "remove" => w[u].quest \in Entries
      BY StepFields, KindsApart DEF RowsTyped
    <3>2. ~Writing(r, w[u], x) /\ r2[x] = NoQuest /\ w2[u] = w[u]
      BY <1>3, <1>4, <2>2
    <3> QED BY <2>2, <3>1, <3>2, CellFacts DEF Writing
  <2>3. CASE u # t /\ r[x].quest # q
    BY <1>3, <2>3 DEF Writing
  <2> QED BY <2>1, <2>2, <2>3
<1>6. Distinct(r2)
  <2> SUFFICES ASSUME NEW s1 \in Slots, NEW s2 \in Slots, r2[s1] # NoQuest, r2[s1].quest = r2[s2].quest PROVE s1 = s2
    BY DEF Distinct
  <2>1. r2[s1] = r[s1] /\ r[s1] # NoQuest /\ r[s1] \in Cells
    BY <1>3 DEF RowsTyped
  <2>2. r[s1].quest \in Entries
    BY <2>1, CellFacts
  <2>3. r2[s2] # NoQuest
    BY <2>1, <2>2, CellFacts
  <2> QED BY <1>3, <2>1, <2>3 DEF RowsGood, Distinct
<1>7. Mirrored(j, r2, w2)
  <2> SUFFICES ASSUME NEW x \in Slots PROVE r2[x] = j[x] \/ \E u \in Tasks : Writing(r2, w2[u], x)
    BY DEF Mirrored
  <2>1. CASE r[x].quest = q
    BY <1>3, <1>4, <2>1
  <2>2. CASE r[x].quest # q
    <3>1. r[x] = j[x] \/ \E u \in Tasks : Writing(r, w[u], x)
      BY DEF RowsGood, Mirrored
    <3>2. ~Writing(r, w[t], x)
      BY <1>1, <2>2 DEF Writing
    <3> QED BY <1>3, <1>5, <2>2, <3>1, <3>2
  <2> QED BY <2>1, <2>2
<1>8. OneWriter(r2, w2)
  BY <1>5 DEF RowsGood, OneWriter
<1>9. ASSUME NEW u \in Tasks PROVE Finds(j, r2, w2[u])
  <2>1. CASE u = t
    BY <1>3, <2>1, KindsApart DEF Finds
  <2>2. CASE u # t
    <3>1. w2[u] = w[u] /\ Finds(j, r, w[u]) /\ w[u] \in RowSteps \cup {Hook} /\ \A x \in Slots : r[x].quest = q => ~Writing(r, w[u], x)
      BY <1>3, <1>4, <2>2 DEF RowsGood, RowsTyped
    <3>2. w[u].do \in {"save", "saveLs"} => w[u].slot \in Slots /\ r2[w[u].slot] = r[w[u].slot]
      BY <1>3, <3>1, StepFields, KindsApart DEF Writing
    <3>3. w[u].do = "remove" => w[u].quest \in Entries /\ \A x \in Slots : r2[x].quest = w[u].quest => r[x].quest = w[u].quest
      BY <1>3, <3>1, StepFields, KindsApart, CellFacts
    <3> QED BY <3>1, <3>2, <3>3 DEF Finds, SaveFinds, SaveLsFinds, RemoveFinds
  <2> QED BY <2>1, <2>2
<1> QED BY <1>2, <1>6, <1>7, <1>8, <1>9 DEF RowsGood

\* The journal is loaded from the table, with no write under way.
LEMMA LoadGood ==
    ASSUME NEW j, NEW r, NEW w, RowsTyped(j, r, w), RowsGood(j, r, w)
    PROVE  RowsGood(r, r, [t \in Tasks |-> Hook])
<1>1. PICK w2 : w2 = [t \in Tasks |-> Hook]
  OBVIOUS
<1>2. \A t \in Tasks : w2[t] = Hook
  BY <1>1
<1>3. \A t \in Tasks : Finds(r, r, w2[t])
  BY <1>2, KindsApart DEF Finds
<1>4. \A t \in Tasks, s \in Slots : ~Writing(r, w2[t], s)
  BY <1>2, KindsApart DEF Writing
<1> QED BY <1>1, <1>3, <1>4 DEF RowsGood, Mirrored, OneWriter

-----------------------------------------------------------------------------
(* The completed set and its table, by the calls still to be made *)

Storing(m) == {t \in Tasks : m[t].do = "saveBits"}
Loading(m) == {t \in Tasks : m[t].do = "loadBits"}
AtMostOne(S) == \A x, y \in S : x = y

\* What a load changes in the set it has loaded.
Apply(b, x) == IF x.flag THEN b \cup {x.quest} ELSE b \ {x.quest}

\* The set the table has or is about to have.
IsBase(d, m, b) == (Storing(m) = {} /\ b = d) \/ \E t \in Storing(m) : b = m[t].bits

\* At most one task has loaded the set and not yet saved it.  Memory is what the table will be,
\* but for the change of a task that has still to load; with two of those nothing is promised.
BitsGood(b, d, m) ==
    /\ AtMostOne(Storing(m))
    /\ AtMostOne(Loading(m)) =>
          \A base \in SUBSET Quests : IsBase(d, m, base) =>
             /\ Loading(m) = {} => b = base
             /\ \A t \in Loading(m) : b = Apply(base, m[t])

BitsTyped(b, d, m) == b \in SUBSET Quests /\ d \in SUBSET Quests /\ m \in [Tasks -> BitSteps \cup {Hook}]

\* A bit is changed in memory and is to be changed in the table.
LEMMA ChangeGood ==
    ASSUME NEW b, NEW d, NEW m, BitsTyped(b, d, m), BitsGood(b, d, m), NEW t \in Tasks, m[t] = Hook,
           NEW x \in BitSteps, x.do = "loadBits"
    PROVE  BitsGood(Apply(b, x), d, [m EXCEPT ![t] = x])
<1>1. PICK m2 : m2 = [m EXCEPT ![t] = x]
  OBVIOUS
<1>2. m2[t] = x /\ \A u \in Tasks \ {t} : m2[u] = m[u]
  BY <1>1 DEF BitsTyped
<1>3. Storing(m2) = Storing(m) /\ Loading(m2) = Loading(m) \cup {t} /\ t \notin Loading(m) /\ t \notin Storing(m)
  BY <1>2, KindsApart DEF Storing, Loading
<1>4. ASSUME AtMostOne(Loading(m2)), NEW base \in SUBSET Quests, IsBase(d, m2, base)
      PROVE \A u \in Loading(m2) : Apply(b, x) = Apply(base, m2[u])
  <2>1. Loading(m) = {} /\ AtMostOne(Loading(m)) /\ Loading(m2) = {t}
    BY <1>3, <1>4 DEF AtMostOne
  <2>2. IsBase(d, m, base)
    <3>1. \A u \in Storing(m) : m2[u] = m[u] /\ u \in Storing(m2)
      BY <1>2, <1>3 DEF Storing
    <3> QED BY <1>3, <1>4, <3>1 DEF IsBase
  <2>3. b = base
    BY <2>1, <2>2 DEF BitsGood
  <2> QED BY <1>2, <2>1, <2>3
<1>5. AtMostOne(Storing(m2))
  BY <1>3 DEF BitsGood
<1>6. Loading(m2) # {}
  BY <1>3
<1> QED BY <1>1, <1>4, <1>5, <1>6 DEF BitsGood

\* The set is loaded, by the only task about to, and will be saved unless it has the bit.
LEMMA LoadBitsGood ==
    ASSUME NEW b, NEW d, NEW m, BitsTyped(b, d, m), BitsGood(b, d, m), NEW t \in Tasks, m[t].do = "loadBits",
           \A u \in Tasks \ {t} : m[u].do \notin {"loadBits", "saveBits"},
           NEW y, (y = Hook /\ Apply(d, m[t]) = d) \/ y = [do |-> "saveBits", bits |-> Apply(d, m[t])]
    PROVE  BitsGood(b, d, [m EXCEPT ![t] = y])
<1>1. PICK m2 : m2 = [m EXCEPT ![t] = y]
  OBVIOUS
<1>2. m2[t] = y /\ \A u \in Tasks \ {t} : m2[u] = m[u]
  BY <1>1 DEF BitsTyped
<1>3. Loading(m) = {t} /\ Storing(m) = {}
  BY DEF Loading, Storing
<1>4. b = Apply(d, m[t])
  <2>1. AtMostOne(Loading(m)) /\ IsBase(d, m, d) /\ t \in Loading(m) /\ d \in SUBSET Quests
    BY <1>3 DEF AtMostOne, IsBase, BitsTyped
  <2> QED BY <2>1 DEF BitsGood
<1>5. Loading(m2) = {}
  BY <1>2, KindsApart DEF Loading
<1>6. CASE y = Hook /\ Apply(d, m[t]) = d
  <2>1. Storing(m2) = {}
    BY <1>2, <1>6, KindsApart DEF Storing
  <2> QED BY <1>1, <1>4, <1>5, <1>6, <2>1 DEF BitsGood, AtMostOne, IsBase
<1>7. CASE y = [do |-> "saveBits", bits |-> Apply(d, m[t])]
  <2>1. Storing(m2) = {t} /\ m2[t].bits = b
    BY <1>2, <1>4, <1>7, KindsApart DEF Storing
  <2> QED BY <1>1, <1>5, <2>1 DEF BitsGood, AtMostOne, IsBase
<1> QED BY <1>6, <1>7

\* The set is saved.
LEMMA SaveBitsGood ==
    ASSUME NEW b, NEW d, NEW m, BitsTyped(b, d, m), BitsGood(b, d, m), NEW t \in Tasks, m[t].do = "saveBits"
    PROVE  BitsGood(b, m[t].bits, [m EXCEPT ![t] = Hook])
<1>1. PICK m2 : m2 = [m EXCEPT ![t] = Hook]
  OBVIOUS
<1>2. m2[t] = Hook /\ \A u \in Tasks \ {t} : m2[u] = m[u]
  BY <1>1 DEF BitsTyped
<1>3. Storing(m) = {t}
  BY DEF Storing, BitsGood, AtMostOne
<1>4. Storing(m2) = {} /\ Loading(m2) = Loading(m) /\ t \notin Loading(m)
  BY <1>2, <1>3, KindsApart DEF Storing, Loading
<1>5. ASSUME AtMostOne(Loading(m2)), NEW base \in SUBSET Quests, IsBase(m[t].bits, m2, base)
      PROVE (Loading(m2) = {} => b = base) /\ \A u \in Loading(m2) : b = Apply(base, m2[u])
  <2>1. base = m[t].bits /\ AtMostOne(Loading(m))
    BY <1>4, <1>5 DEF IsBase
  <2>2. IsBase(d, m, base)
    <3>1. t \in Storing(m) /\ base = m[t].bits
      BY <1>3, <2>1
    <3> QED BY <3>1 DEF IsBase
  <2>3. (Loading(m) = {} => b = base) /\ \A u \in Loading(m) : b = Apply(base, m[u])
    BY <2>1, <2>2 DEF BitsGood
  <2>4. \A u \in Loading(m) : u \in Tasks \ {t} /\ m2[u] = m[u]
    BY <1>2, <1>4 DEF Loading
  <2> QED BY <1>4, <2>3, <2>4
<1> QED BY <1>1, <1>4, <1>5 DEF BitsGood, AtMostOne

\* With no call pending the sets are equal, and the other way round.
LEMMA RestBitsGood ==
    ASSUME NEW b, NEW d, d \in SUBSET Quests, NEW m, \A t \in Tasks : m[t] = Hook
    PROVE  BitsGood(b, d, m) <=> b = d
<1>1. Storing(m) = {} /\ Loading(m) = {}
  BY KindsApart DEF Storing, Loading
<1> QED BY <1>1 DEF BitsGood, AtMostOne, IsBase

-----------------------------------------------------------------------------
(* Payments *)

\* A completion of the leve is recorded, in memory or in the table, and not on its way out.
Recorded(f, l) == \E s \in Slots : f[s] # NoQuest /\ f[s].quest = l /\ f[s].done
Owed(j, r, w, l) == (Recorded(j, l) \/ Recorded(r, l)) /\ \A t \in Tasks : w[t] # RemoveRow(l)
Payers(y, l) == {t \in Tasks : y[t] = Do("pay", l)}

\* There is a completion for each pending payment, and one more for what is recorded.
PayGood(c, j, r, w, y) ==
    \A l \in Leves :
        /\ Cardinality(Payers(y, l)) <= c[l]
        /\ Owed(j, r, w, l) => Cardinality(Payers(y, l)) < c[l]

\* There are finitely many tasks.
LEMMA PayersFinite ==
    ASSUME NEW y, NEW l
    PROVE  IsFiniteSet(Payers(y, l)) /\ Cardinality(Payers(y, l)) \in Nat
           /\ (Payers(y, l) # {} => Cardinality(Payers(y, l)) > 0)
<1>1. IsFiniteSet(Payers(y, l))
  BY FS_Subset, JournalAssumption DEF Payers
<1> QED BY <1>1, FS_CardinalityType, FS_EmptySet

\* Nothing changes for the payments if nothing more is recorded.
LEMMA PayKept ==
    ASSUME NEW c, NEW j, NEW r, NEW w, NEW y, PayGood(c, j, r, w, y), NEW j2, NEW r2, NEW w2,
           \A l \in Leves : Owed(j2, r2, w2, l) => Owed(j, r, w, l)
    PROVE  PayGood(c, j2, r2, w2, y)
  BY DEF PayGood

\* A leve is completed.
LEMMA PayEarned ==
    ASSUME NEW c \in [Leves -> Nat], NEW j, NEW r, NEW w, NEW y, PayGood(c, j, r, w, y), NEW j2, NEW r2, NEW w2, NEW k \in Leves,
           \A l \in Leves \ {k} : Owed(j2, r2, w2, l) => Owed(j, r, w, l)
    PROVE  PayGood([c EXCEPT ![k] = @ + 1], j2, r2, w2, y)
<1> SUFFICES ASSUME NEW l \in Leves
             PROVE LET c2 == [c EXCEPT ![k] = @ + 1]
                   IN  Cardinality(Payers(y, l)) <= c2[l] /\ (Owed(j2, r2, w2, l) => Cardinality(Payers(y, l)) < c2[l])
  BY DEF PayGood
<1>1. Cardinality(Payers(y, l)) \in Nat /\ c[l] \in Nat /\ Cardinality(Payers(y, l)) <= c[l]
      /\ (Owed(j, r, w, l) => Cardinality(Payers(y, l)) < c[l])
  BY PayersFinite DEF PayGood
<1>2. CASE l = k
  BY <1>1, <1>2
<1>3. CASE l # k
  BY <1>1, <1>3
<1> QED BY <1>2, <1>3

\* A completed leve is taken out to be paid for.
LEMMA PayAsked ==
    ASSUME NEW c \in [Leves -> Nat], NEW j, NEW r, NEW w, NEW y, DOMAIN y = Tasks, y = [t \in Tasks |-> y[t]], PayGood(c, j, r, w, y),
           NEW j2, NEW r2, NEW w2, NEW k \in Leves, NEW t \in Tasks, y[t] = Hook, Owed(j, r, w, k), ~Owed(j2, r2, w2, k),
           \A l \in Leves \ {k} : Owed(j2, r2, w2, l) => Owed(j, r, w, l)
    PROVE  PayGood(c, j2, r2, w2, [y EXCEPT ![t] = Do("pay", k)])
<1>1. PICK y2 : y2 = [y EXCEPT ![t] = Do("pay", k)]
  OBVIOUS
<1>2. y2[t] = Do("pay", k) /\ \A u \in Tasks \ {t} : y2[u] = y[u]
  BY <1>1
<1> SUFFICES ASSUME NEW l \in Leves
             PROVE Cardinality(Payers(y2, l)) <= c[l] /\ (Owed(j2, r2, w2, l) => Cardinality(Payers(y2, l)) < c[l])
  BY <1>1 DEF PayGood
<1>3. \A v : Hook # Do("pay", v)
  BY DEF Hook, Do
<1>4. IsFiniteSet(Payers(y, l)) /\ Cardinality(Payers(y, l)) \in Nat /\ c[l] \in Nat /\ Cardinality(Payers(y, l)) <= c[l]
      /\ (Owed(j, r, w, l) => Cardinality(Payers(y, l)) < c[l])
  BY PayersFinite DEF PayGood
<1>5. CASE l = k
  <2>1. Payers(y2, l) = Payers(y, l) \cup {t} /\ t \notin Payers(y, l)
    BY <1>2, <1>3, <1>5 DEF Payers
  <2>2. Cardinality(Payers(y2, l)) = Cardinality(Payers(y, l)) + 1
    BY <1>4, <2>1, FS_AddElement
  <2> QED BY <1>4, <1>5, <2>2
<1>6. CASE l # k
  <2>1. Do("pay", k) # Do("pay", l)
    BY <1>6 DEF Do
  <2>2. Payers(y2, l) = Payers(y, l)
    BY <1>2, <1>3, <2>1 DEF Payers
  <2> QED BY <1>4, <1>6, <2>2
<1> QED BY <1>5, <1>6

\* A leve is paid for.
LEMMA PayMade ==
    ASSUME NEW c \in [Leves -> Nat], NEW j, NEW r, NEW w, NEW y, DOMAIN y = Tasks, y = [t \in Tasks |-> y[t]], PayGood(c, j, r, w, y),
           NEW k \in Leves, NEW t \in Tasks, y[t] = Do("pay", k)
    PROVE  c[k] # 0 /\ PayGood([c EXCEPT ![k] = @ - 1], j, r, w, [y EXCEPT ![t] = Hook])
<1>1. PICK y2, c2 : y2 = [y EXCEPT ![t] = Hook] /\ c2 = [c EXCEPT ![k] = @ - 1]
  OBVIOUS
<1>2. y2[t] = Hook /\ (\A u \in Tasks \ {t} : y2[u] = y[u]) /\ c2[k] = c[k] - 1 /\ \A l \in Leves \ {k} : c2[l] = c[l]
  BY <1>1
<1>3. \A v : Hook # Do("pay", v)
  BY DEF Hook, Do
<1>4. ASSUME NEW l \in Leves
      PROVE /\ IsFiniteSet(Payers(y, l)) /\ Cardinality(Payers(y, l)) \in Nat /\ c[l] \in Nat /\ Cardinality(Payers(y, l)) <= c[l]
            /\ (Owed(j, r, w, l) => Cardinality(Payers(y, l)) < c[l])
  BY PayersFinite DEF PayGood
<1>5. t \in Payers(y, k)
  BY DEF Payers
<1>6. c[k] # 0
  BY <1>4, <1>5, PayersFinite
<1>7. ASSUME NEW l \in Leves
      PROVE  Cardinality(Payers(y2, l)) <= c2[l] /\ (Owed(j, r, w, l) => Cardinality(Payers(y2, l)) < c2[l])
  <2>1. CASE l = k
    <3>1. Payers(y2, l) = Payers(y, l) \ {t}
      BY <1>2, <1>3, <2>1 DEF Payers
    <3>2. Cardinality(Payers(y2, l)) = Cardinality(Payers(y, l)) - 1
      BY <1>4, <1>5, <2>1, <3>1, FS_RemoveElement
    <3>3. Cardinality(Payers(y, l)) \in Nat /\ c[l] \in Nat /\ Cardinality(Payers(y, l)) <= c[l]
          /\ (Owed(j, r, w, l) => Cardinality(Payers(y, l)) < c[l])
      BY <1>4
    <3> QED BY <1>2, <2>1, <3>2, <3>3
  <2>2. CASE l # k
    <3>1. Do("pay", k) # Do("pay", l)
      BY <2>2 DEF Do
    <3>2. Payers(y2, l) = Payers(y, l)
      BY <1>2, <1>3, <3>1 DEF Payers
    <3> QED BY <1>2, <1>4, <2>2, <3>2
  <2> QED BY <2>1, <2>2
<1> QED BY <1>1, <1>6, <1>7 DEF PayGood

\* The programs are lost.  What was about to be paid for may be recorded again.
LEMMA PayLost ==
    ASSUME NEW c \in [Leves -> Nat], NEW j, NEW r, NEW w, NEW y, PayGood(c, j, r, w, y), NEW j2, NEW r2, NEW w2, NEW y2,
           \A t \in Tasks : y2[t] = Hook, \A l \in Leves : Owed(j2, r2, w2, l) => Owed(j, r, w, l) \/ Payers(y, l) # {}
    PROVE  PayGood(c, j2, r2, w2, y2)
<1> SUFFICES ASSUME NEW l \in Leves
             PROVE Cardinality(Payers(y2, l)) <= c[l] /\ (Owed(j2, r2, w2, l) => Cardinality(Payers(y2, l)) < c[l])
  BY DEF PayGood
<1>1. \A v : Hook # Do("pay", v)
  BY DEF Hook, Do
<1>2. Payers(y2, l) = {}
  BY <1>1 DEF Payers
<1>3. Cardinality(Payers(y2, l)) = 0
  BY <1>2, FS_EmptySet
<1>4. Cardinality(Payers(y, l)) \in Nat /\ c[l] \in Nat /\ Cardinality(Payers(y, l)) <= c[l]
      /\ (Owed(j, r, w, l) => Cardinality(Payers(y, l)) < c[l]) /\ (Payers(y, l) # {} => Cardinality(Payers(y, l)) > 0)
  BY PayersFinite DEF PayGood
<1> QED BY <1>3, <1>4

\* What changes of the rows mean for what is recorded.
LEMMA OwedPut ==
    ASSUME NEW j, NEW r, NEW w, RowsTyped(j, r, w), NEW t \in Tasks, w[t] = Hook, NEW s \in Slots, NEW c \in Entry, NEW l \in Leves,
           l # c.quest \/ (c.done => j[s] # NoQuest /\ j[s].quest = c.quest /\ j[s].done),
           NEW x, x = Save(s, c) \/ \E n \in 0..1 : x = SaveLs(s, n),
           Owed([j EXCEPT ![s] = c], r, [w EXCEPT ![t] = x], l)
    PROVE  Owed(j, r, w, l)
<1>1. PICK j2, w2 : j2 = [j EXCEPT ![s] = c] /\ w2 = [w EXCEPT ![t] = x]
  OBVIOUS
<1>2. j2[s] = c /\ (\A y \in Slots \ {s} : j2[y] = j[y]) /\ \A u \in Tasks \ {t} : w2[u] = w[u]
  BY <1>1 DEF RowsTyped
<1>3. \A u \in Tasks : w[u] # RemoveRow(l)
  <2>1. Hook # RemoveRow(l)
    BY DEF Hook, RemoveRow
  <2> QED BY <1>1, <1>2, <2>1 DEF Owed
<1>4. Recorded(j2, l) => Recorded(j, l)
  BY <1>2 DEF Recorded
<1> QED BY <1>1, <1>3, <1>4 DEF Owed

OutTo(j, w, s, t, q, j2, w2) == j2 = [j EXCEPT ![s] = NoQuest] /\ w2 = [w EXCEPT ![t] = RemoveRow(q)]
LEMMA OwedOut ==
    ASSUME NEW j, NEW r, NEW w, RowsTyped(j, r, w), NEW t \in Tasks, w[t] = Hook, NEW s \in Slots, NEW q \in Entries, NEW l \in Leves,
           NEW j2, NEW w2, OutTo(j, w, s, t, q, j2, w2), Owed(j2, r, w2, l)
    PROVE  l # q /\ Owed(j, r, w, l)
<1>1. j2 = [j EXCEPT ![s] = NoQuest] /\ w2 = [w EXCEPT ![t] = RemoveRow(q)]
  BY DEF OutTo
<1>2. j2[s] = NoQuest /\ (\A y \in Slots \ {s} : j2[y] = j[y]) /\ (\A u \in Tasks \ {t} : w2[u] = w[u]) /\ w2[t] = RemoveRow(q)
  BY <1>1 DEF RowsTyped
<1>3. \A u \in Tasks : w[u] # RemoveRow(l)
  <2>1. Hook # RemoveRow(l)
    BY DEF Hook, RemoveRow
  <2> QED BY <1>1, <1>2, <2>1 DEF Owed
<1>4. Recorded(j2, l) => Recorded(j, l)
  BY <1>2 DEF Recorded
<1>5. l # q
  BY <1>1, <1>2 DEF Owed
<1> QED BY <1>1, <1>3, <1>4, <1>5 DEF Owed

WrittenTo(r, w, s, t, c, r2, w2) == r2 = [r EXCEPT ![s] = c] /\ w2 = [w EXCEPT ![t] = Hook]
LEMMA OwedWritten ==
    ASSUME NEW j, NEW r, NEW w, RowsTyped(j, r, w), NEW t \in Tasks, \A q \in Leves : w[t] # RemoveRow(q),
           NEW s \in Slots, NEW c \in Entry, (j[s] = c) \/ (r[s] # NoQuest /\ r[s].quest = c.quest /\ r[s].done = c.done),
           NEW l \in Leves, NEW r2, NEW w2, WrittenTo(r, w, s, t, c, r2, w2), Owed(j, r2, w2, l)
    PROVE  Owed(j, r, w, l)
<1>1. r2 = [r EXCEPT ![s] = c] /\ w2 = [w EXCEPT ![t] = Hook]
  BY DEF WrittenTo
<1>2. r2[s] = c /\ (\A y \in Slots \ {s} : r2[y] = r[y]) /\ \A u \in Tasks \ {t} : w2[u] = w[u]
  BY <1>1 DEF RowsTyped
<1>3. \A u \in Tasks : w[u] # RemoveRow(l)
  BY <1>1, <1>2 DEF Owed
<1>4. Recorded(r2, l) => Recorded(j, l) \/ Recorded(r, l)
  BY <1>2 DEF Recorded
<1> QED BY <1>1, <1>3, <1>4 DEF Owed

RemovedFrom(r, w, t, q, r2, w2) == r2 = [s \in Slots |-> IF r[s].quest = q THEN NoQuest ELSE r[s]] /\ w2 = [w EXCEPT ![t] = Hook]
LEMMA OwedRemoved ==
    ASSUME NEW j, NEW r, NEW w, RowsTyped(j, r, w), RowsGood(j, r, w), NEW t \in Tasks, NEW q \in Entries, w[t] = RemoveRow(q),
           NEW l \in Leves, NEW r2, NEW w2, RemovedFrom(r, w, t, q, r2, w2), Owed(j, r2, w2, l)
    PROVE  Owed(j, r, w, l)
<1>1. r2 = [s \in Slots |-> IF r[s].quest = q THEN NoQuest ELSE r[s]] /\ w2 = [w EXCEPT ![t] = Hook]
  BY DEF RemovedFrom
<1>2. (\A y \in Slots : r2[y] = IF r[y].quest = q THEN NoQuest ELSE r[y]) /\ \A u \in Tasks \ {t} : w2[u] = w[u]
  BY <1>1 DEF RowsTyped
<1>3. w[t].do = "remove" /\ w[t].quest = q
  BY DEF RemoveRow
<1>4. \A s \in Slots : j[s].quest # q
  BY <1>3 DEF RowsGood, Finds, RemoveFinds
<1>5. l # q
  BY <1>1, <1>2, <1>4 DEF Owed, Recorded
<1>6. \A u \in Tasks : w[u] # RemoveRow(l)
  <2>1. RemoveRow(q) # RemoveRow(l)
    BY <1>5 DEF RemoveRow
  <2> QED BY <1>1, <1>2, <2>1 DEF Owed
<1>7. Recorded(r2, l) => Recorded(r, l)
  BY <1>2 DEF Recorded
<1> QED BY <1>1, <1>6, <1>7 DEF Owed

-----------------------------------------------------------------------------
(* Markers *)

\* What is about to be shown and cleared, and what a quest is marked with or was left with.
Showing(q, e, z) == \E x \in z : x.do = "show" /\ x.quest = q /\ e \in x.set
Clearing(q, e, z) == \E x \in z : x.do = "clear" /\ x.quest = q /\ e \in x.set
Named(q, o, c, l) == o[q] \cup c[q] \cup l[q]

\* For one entry, the client shows what is named, or is about to, and nothing more but what is
\* about to be cleared; an old set is about to be drained; and what is not in the journal has none.
MarksOf(q, h, o, c, l, sh, z) ==
    /\ q \notin h => o[q] = {} /\ c[q] = {}
    /\ \A e \in Named(q, o, c, l) : e \in sh[q] \/ Showing(q, e, z)
    /\ \A e \in sh[q] : e \in Named(q, o, c, l) \/ Clearing(q, e, z)
    /\ o[q] # {} => Do("drain", q) \in z
MarkGood(h, o, c, l, sh, z) == \A q \in Entries : MarksOf(q, h, o, c, l, sh, z)

\* The pending steps that matter stay.
MarkWork == {"clear", "show", "drain"}
KeepsMarks(z, z2) == \A x \in z : x.do \in MarkWork => x \in z2

KeepsCasts(z, z2) == \A x \in z : x.do \in {"clear", "show"} => x \in z2

\* The sets of an entry change, and what is named no longer is about to be cleared, what is
\* named newly about to be shown.
LEMMA MarksShift ==
    ASSUME NEW q, NEW h, NEW o, NEW c, NEW l, NEW sh, NEW z, MarksOf(q, h, o, c, l, sh, z),
           NEW h2, NEW o2, NEW c2, NEW l2, NEW z2, KeepsCasts(z, z2),
           \A e \in Named(q, o2, c2, l2) : e \in Named(q, o, c, l) \/ Showing(q, e, z2),
           \A e \in Named(q, o, c, l) : e \in Named(q, o2, c2, l2) \/ Clearing(q, e, z2),
           q \notin h2 => o2[q] = {} /\ c2[q] = {},
           o2[q] # {} => Do("drain", q) \in z2
    PROVE  MarksOf(q, h2, o2, c2, l2, sh, z2)
<1>1. \A e : (Showing(q, e, z) => Showing(q, e, z2)) /\ (Clearing(q, e, z) => Clearing(q, e, z2))
  BY DEF Showing, Clearing, KeepsCasts
<1>2. /\ \A e \in Named(q, o, c, l) : e \in sh[q] \/ Showing(q, e, z)
      /\ \A e \in sh[q] : e \in Named(q, o, c, l) \/ Clearing(q, e, z)
  BY DEF MarksOf
<1>3. \A e \in Named(q, o2, c2, l2) : e \in sh[q] \/ Showing(q, e, z2)
  BY <1>1, <1>2
<1>4. \A e \in sh[q] : e \in Named(q, o2, c2, l2) \/ Clearing(q, e, z2)
  BY <1>1, <1>2
<1> QED BY <1>3, <1>4 DEF MarksOf

\* Nothing changes for an entry if the pending steps that matter stay.
LEMMA MarksSame ==
    ASSUME NEW q, NEW h, NEW o, NEW c, NEW l, NEW sh, NEW z, MarksOf(q, h, o, c, l, sh, z),
           NEW h2, NEW o2, NEW c2, NEW l2, NEW sh2, NEW z2, KeepsCasts(z, z2), Do("drain", q) \in z => Do("drain", q) \in z2,
           o2[q] = o[q], c2[q] = c[q], l2[q] = l[q], sh2[q] = sh[q], q \in h \ h2 => o[q] = {} /\ c[q] = {}
    PROVE  MarksOf(q, h2, o2, c2, l2, sh2, z2)
<1>1. MarksOf(q, h2, o2, c2, l2, sh, z2)
  <2>1. Named(q, o2, c2, l2) = Named(q, o, c, l)
    BY DEF Named
  <2>2. (q \notin h2 => o2[q] = {} /\ c2[q] = {}) /\ (o2[q] # {} => Do("drain", q) \in z2)
    BY DEF MarksOf
  <2> QED BY <2>1, <2>2, MarksShift
<1> QED BY <1>1 DEF MarksOf

LEMMA MarkKept ==
    ASSUME NEW h, NEW o, NEW c, NEW l, NEW sh, NEW z, MarkGood(h, o, c, l, sh, z), NEW h2, NEW z2, KeepsMarks(z, z2),
           \A q \in h \ h2 : o[q] = {} /\ c[q] = {}
    PROVE  MarkGood(h2, o, c, l, sh, z2)
<1>1. \A q : Do("drain", q).do = "drain"
  BY DEF Do
<1>2. KeepsCasts(z, z2) /\ \A q : Do("drain", q) \in z => Do("drain", q) \in z2
  BY <1>1 DEF KeepsMarks, MarkWork, KeepsCasts
<1> QED BY <1>2, MarksSame DEF MarkGood

-----------------------------------------------------------------------------
(* The invariant *)

Held == {q \in Entries : Has(q)}

RowsInv == "rows" \notin spoiled =>
    /\ RowsGood(journal, rows, RowWork)
    /\ ~overpaid /\ PayGood(credit, journal, rows, RowWork, PayWork)
BitsInv == "bits" \notin spoiled => BitsGood(bits, dbBits, BitWork)
MarkInv ==
    /\ \A l \in Leves : old[l] = {} /\ cur[l] = {}
    /\ "markers" \notin spoiled => MarkGood(Held, old, cur, left, shown, Todo)

Inv == TypeOK /\ ShapeInv /\ RowsInv /\ BitsInv /\ MarkInv

\* Every set of natural numbers that is not empty has a least element, which Min of FiniteSetsExt is.
LEMMA LessWellFounded == \E R : IsWellFoundedOn(R, Nat) /\ \A x, y \in Nat : <<x, y>> \in R <=> x < y
<1>1. IsWellFoundedOn(OpToRel(<, Nat), Nat)
  BY NatLessThanWellFounded
<1>2. \A x, y \in Nat : <<x, y>> \in OpToRel(<, Nat) <=> x < y
  BY DEF OpToRel
<1> QED BY <1>1, <1>2, Zenon

LEMMA MinIn ==
    ASSUME NEW T, T \subseteq Nat, T # {}
    PROVE  Min(T) \in T
<1>1. PICK R : IsWellFoundedOn(R, Nat) /\ (\A x, y \in Nat : <<x, y>> \in R <=> x < y)
  BY LessWellFounded
<1>2. IsWellFoundedOn(R, Nat)
  BY <1>1
<1>3. PICK x \in T : \A y \in T : ~ (<<y, x>> \in R)
  BY <1>2, WFMin, Zenon
<1>4. \A y \in T : ~ (y < x)
  BY <1>1, <1>3
<1>5. \A y \in T : x <= y
  BY <1>4
<1> QED BY <1>5 DEF Min

\* The slots of the journal.
LEMMA SlotFacts ==
    ASSUME TypeOK
    PROVE  /\ \A q : Has(q) => slot_of(q) \in Slots /\ journal[slot_of(q)].quest = q
           /\ \A q \in Entries : Has(q) => journal[slot_of(q)] # NoQuest /\ journal[slot_of(q)] \in Entry
           /\ \A q : ~Has(q) => \A s \in Slots : journal[s].quest # q
           /\ \A q : \A s \in Slots : journal[s].quest = q => Has(q)
           /\ Free # {} => Min(Free) \in Slots /\ journal[Min(Free)] = NoQuest
<1>1. Slots \subseteq Nat
  BY JournalAssumption
<1>2. \A q : SlotsOf(q) \subseteq Nat /\ (SlotsOf(q) # {} => Min(SlotsOf(q)) \in SlotsOf(q))
  BY <1>1, MinIn DEF SlotsOf
<1>3. Free # {} => Min(Free) \in Free
  <2>1. Free \subseteq Nat
    BY <1>1 DEF Free
  <2> QED BY <2>1, MinIn
<1>4. \A q : Has(q) => slot_of(q) \in Slots /\ journal[slot_of(q)].quest = q
  BY <1>2 DEF Has, slot_of, SlotsOf
<1>5. ASSUME NEW q \in Entries, Has(q) PROVE journal[slot_of(q)] # NoQuest /\ journal[slot_of(q)] \in Entry
  <2>1. journal[slot_of(q)] \in Cells /\ journal[slot_of(q)].quest = q
    BY <1>4, <1>5 DEF TypeOK
  <2> QED BY <2>1, CellFacts
<1> QED BY <1>3, <1>4, <1>5 DEF Has, SlotsOf, Free

\* What is held follows the quests of the slots.
LEMMA HeldIs == \A q \in Entries : q \in Held <=> \E s \in Slots : journal[s].quest = q
  BY DEF Held, Has, SlotsOf
LEMMA HeldNext == \A q \in Entries : q \in Held' <=> \E s \in Slots : journal'[s].quest = q
  BY DEF Held, Has, SlotsOf

\* What the replacement of the program of t by q changes, if q is about to do a, b and y.
Replaced(t, q) == program' = [program EXCEPT ![t] = q]
Changes(t, q, a, b, y) ==
    /\ program' \in [Tasks -> Seq(Steps)] /\ ShapeInv'
    /\ program[t] \in Seq(Steps) /\ Shape(program[t])
    /\ RowWork[t] = RowOf(program[t]) /\ BitWork[t] = BitOf(program[t]) /\ PayWork[t] = PayOf(program[t])
    /\ RowWork' = [RowWork EXCEPT ![t] = a] /\ BitWork' = [BitWork EXCEPT ![t] = b] /\ PayWork' = [PayWork EXCEPT ![t] = y]
    /\ Items(q) \subseteq Todo' /\ Items(program[t]) \subseteq Todo
    /\ \A x \in Todo : x \in Todo' \/ x \in Items(program[t])

LEMMA Moved ==
    ASSUME TypeOK, ShapeInv, NEW t \in Tasks, NEW q, NEW a, NEW b, NEW y, Does(q, a, b, y), Replaced(t, q)
    PROVE  Changes(t, q, a, b, y)
<1>1. q \in Seq(Steps) /\ Shape(q) /\ RowOf(q) = a /\ BitOf(q) = b /\ PayOf(q) = y
  BY DEF Does
<1>2. program \in [Tasks -> Seq(Steps)]
  BY DEF TypeOK
<1>3. program' \in [Tasks -> Seq(Steps)] /\ program'[t] = q /\ \A u \in Tasks \ {t} : program'[u] = program[u]
  BY <1>1, <1>2 DEF Replaced
<1>4. ShapeInv'
  <2>1. \A u \in Tasks : Shape(program'[u])
    BY <1>1, <1>3 DEF ShapeInv
  <2> QED BY <2>1 DEF ShapeInv
<1>5. RowWork' = [RowWork EXCEPT ![t] = a] /\ BitWork' = [BitWork EXCEPT ![t] = b] /\ PayWork' = [PayWork EXCEPT ![t] = y]
  BY <1>1, <1>3 DEF RowWork, BitWork, PayWork, Replaced
<1>6. Items(q) \subseteq Todo' /\ Items(program[t]) \subseteq Todo /\ \A x \in Todo : x \in Todo' \/ x \in Items(program[t])
  BY <1>3 DEF Todo
<1>7. program[t] \in Seq(Steps) /\ Shape(program[t])
  BY <1>2 DEF ShapeInv
<1>8. RowWork[t] = RowOf(program[t]) /\ BitWork[t] = BitOf(program[t]) /\ PayWork[t] = PayOf(program[t])
  BY DEF RowWork, BitWork, PayWork
<1> QED BY <1>3, <1>4, <1>5, <1>6, <1>7, <1>8 DEF Changes

\* The types of what the tasks are about to do.
LEMMA WorkTypes ==
    ASSUME TypeOK
    PROVE  /\ RowsTyped(journal, rows, RowWork) /\ BitsTyped(bits, dbBits, BitWork)
           /\ RowWork \in [Tasks -> RowSteps \cup {Hook}] /\ PayWork \in [Tasks -> PaySteps \cup {Hook}]
  BY DEF TypeOK, RowsTyped, BitsTyped, RowWork, BitWork, PayWork, RowOf, BitOf, PayOf

\* What Overlap tells of the other tasks.
LEMMA OverlapSees ==
    ASSUME TypeOK, NEW t \in Tasks, NEW s \in Slots, NEW q, "rows" \notin Overlap(t, s, q)
    PROVE  "rows" \notin spoiled /\ \A u \in Tasks \ {t} : ~Touches(rows, RowWork[u], s, q)
<1>1. "rows" \notin spoiled /\ \A u \in Tasks \ {t} : ~Writes(u, s, q)
  BY DEF Overlap
<1>2. ASSUME NEW u \in Tasks \ {t}, Touches(rows, RowWork[u], s, q) PROVE FALSE
  <2>1. RowWork[u] = RowOf(program[u]) /\ program[u] \in Seq(Steps)
    BY DEF RowWork, TypeOK
  <2>2. RowWork[u] # Hook
    BY <1>2, KindsApart DEF Touches
  <2>3. program[u] # <<>> /\ RowWork[u] = Head(program[u])
    BY <2>1, <2>2 DEF RowOf, First
  <2>4. 1 \in DOMAIN program[u] /\ program[u][1] = RowWork[u]
    BY <2>1, <2>3, HeadTail
  <2> QED BY <1>1, <1>2, <2>4 DEF Writes, Touches
<1> QED BY <1>1, <1>2

LEMMA OverlapIs ==
    ASSUME TypeOK, NEW t, NEW s, NEW q
    PROVE  /\ Overlap(t, s, q) \subseteq {"rows", "bits", "markers"} /\ spoiled \subseteq Overlap(t, s, q)
           /\ "bits" \in Overlap(t, s, q) <=> "bits" \in spoiled
           /\ "markers" \in Overlap(t, s, q) <=> "markers" \in spoiled
  BY DEF Overlap, TypeOK

-----------------------------------------------------------------------------
(* Commands and steps in general *)

\* A task that may be given a command has nothing to write.
LEMMA IssueCalm ==
    ASSUME Inv, NEW t \in Tasks, MayIssue(t)
    PROVE  Light(program[t]) /\ program[t] \in Seq(Steps)
<1>1. program[t] \in Seq(Steps) /\ Shape(program[t])
  BY DEF Inv, TypeOK, ShapeInv
<1> QED BY <1>1, CalmIdle DEF MayIssue

\* The steps a handler leaves, none of them a write.
LEMMA Pushes ==
    ASSUME NEW p, Light(p), NEW q \in Quests
    PROVE  /\ \A r \in {<<Hook>> \o p, <<Do("swap", q), Hook, Do("drain", q)>> \o p,
                        <<Do("swap", q), Hook, Do("drain", q), Do("active", q)>> \o p,
                        <<Hook, Do("finish", q)>> \o p, <<Hook, Do("drop", q)>> \o p} : Light(r) /\ Items(p) \subseteq Items(r)
<1>0. p \in Seq(Steps)
  BY DEF Light
<1> DEFINE S1 == Do("swap", q)  D == Do("drain", q)  A == Do("active", q)  F == Do("finish", q)  R == Do("drop", q)
<1>1. S1 \in OtherSteps /\ D \in OtherSteps /\ A \in OtherSteps /\ F \in OtherSteps /\ R \in OtherSteps /\ Hook \in OtherSteps
  BY StepTypes
<1>2. S1 \in Steps /\ D \in Steps /\ A \in Steps /\ F \in Steps /\ R \in Steps /\ Hook \in Steps
  BY <1>1, KindsApart
<1>3. S1.do = "swap" /\ S1.quest = q /\ D.do # "swap" /\ A.do # "swap" /\ F.do # "swap" /\ R.do # "swap" /\ Hook.do # "swap"
  BY KindsApart DEF Do
<1>4. Do("drain", S1.quest) = D
  BY <1>3
<1> HIDE DEF S1, D, A, F, R
<1>5. \A x : Light(x) => Light(<<Hook>> \o x) /\ Items(<<Hook>> \o x) = {Hook} \cup Items(x)
  BY <1>1, <1>3, LightCons
<1>6. \A x : Light(x) => Light(<<D>> \o x) /\ Items(<<D>> \o x) = {D} \cup Items(x)
  BY <1>1, <1>3, LightCons
<1>7. \A x : Light(x) => Light(<<A>> \o x) /\ Items(<<A>> \o x) = {A} \cup Items(x)
  BY <1>1, <1>3, LightCons
<1>8. \A x : Light(x) => Light(<<F>> \o x) /\ Items(<<F>> \o x) = {F} \cup Items(x)
  BY <1>1, <1>3, LightCons
<1>9. \A x : Light(x) => Light(<<R>> \o x) /\ Items(<<R>> \o x) = {R} \cup Items(x)
  BY <1>1, <1>3, LightCons
<1>10. \A x : Light(x) /\ D \in Items(x) => Light(<<S1>> \o x) /\ Items(<<S1>> \o x) = {S1} \cup Items(x)
  BY <1>1, <1>3, <1>4, LightCons
<1>11. <<S1, Hook, D>> \o p = <<S1>> \o (<<Hook>> \o (<<D>> \o p))
  <2>1. Begin3(S1, Hook, D, p) = Begin1(S1, Begin1(Hook, Begin1(D, p)))
    BY <1>0, <1>2, ConsMany
  <2> QED BY <2>1 DEF Begin1, Begin3
<1>12. <<S1, Hook, D, A>> \o p = <<S1>> \o (<<Hook>> \o (<<D>> \o (<<A>> \o p)))
  <2>1. Begin4(S1, Hook, D, A, p) = Begin1(S1, Begin1(Hook, Begin1(D, Begin1(A, p))))
    BY <1>0, <1>2, ConsMany
  <2> QED BY <2>1 DEF Begin1, Begin4
<1>13. <<Hook, F>> \o p = <<Hook>> \o (<<F>> \o p) /\ <<Hook, R>> \o p = <<Hook>> \o (<<R>> \o p)
  <2>1. Begin2(Hook, F, p) = Begin1(Hook, Begin1(F, p)) /\ Begin2(Hook, R, p) = Begin1(Hook, Begin1(R, p))
    BY <1>0, <1>2, ConsMany
  <2> QED BY <2>1 DEF Begin1, Begin2
<1>14. Light(<<Hook>> \o p) /\ Items(p) \subseteq Items(<<Hook>> \o p)
  BY <1>5
<1>15. Light(<<Hook, F>> \o p) /\ Items(p) \subseteq Items(<<Hook, F>> \o p)
  <2>1. PICK x : x = <<F>> \o p /\ Light(x) /\ Items(x) = {F} \cup Items(p)
    BY <1>8
  <2> QED BY <1>5, <1>13, <2>1
<1>16. Light(<<Hook, R>> \o p) /\ Items(p) \subseteq Items(<<Hook, R>> \o p)
  <2>1. PICK x : x = <<R>> \o p /\ Light(x) /\ Items(x) = {R} \cup Items(p)
    BY <1>9
  <2> QED BY <1>5, <1>13, <2>1
<1>17. Light(<<S1, Hook, D>> \o p) /\ Items(p) \subseteq Items(<<S1, Hook, D>> \o p)
  <2>1. PICK x : x = <<D>> \o p /\ Light(x) /\ Items(x) = {D} \cup Items(p)
    BY <1>6
  <2>2. PICK y : y = <<Hook>> \o x /\ Light(y) /\ Items(y) = {Hook} \cup Items(x)
    BY <1>5, <2>1
  <2> QED BY <1>10, <1>11, <2>1, <2>2
<1>18. Light(<<S1, Hook, D, A>> \o p) /\ Items(p) \subseteq Items(<<S1, Hook, D, A>> \o p)
  <2>0. PICK z : z = <<A>> \o p /\ Light(z) /\ Items(z) = {A} \cup Items(p)
    BY <1>7
  <2>1. PICK x : x = <<D>> \o z /\ Light(x) /\ Items(x) = {D} \cup Items(z)
    BY <1>6, <2>0
  <2>2. PICK y : y = <<Hook>> \o x /\ Light(y) /\ Items(y) = {Hook} \cup Items(x)
    BY <1>5, <2>1
  <2>3. PICK w : w = <<S1>> \o y
    OBVIOUS
  <2>4. Light(w) /\ Items(w) = {S1} \cup Items(y)
    BY <1>10, <2>1, <2>2, <2>3
  <2>5. <<S1, Hook, D, A>> \o p = w
    BY <1>12, <2>0, <2>1, <2>2, <2>3
  <2> QED BY <2>0, <2>1, <2>2, <2>4, <2>5
<1> USE DEF S1, D, A, F, R
<1> QED BY <1>14, <1>15, <1>16, <1>17, <1>18, Zenon

\* A step between calm programs that leaves journal, sets, tables and payments alone.
LEMMA CalmStep ==
    ASSUME Inv, NEW t \in Tasks, NEW q, Light(program[t]), Light(q), Replaced(t, q),
           UNCHANGED <<journal, bits, rows, dbBits, credit, overpaid>>,
           spoiled \subseteq spoiled'
    PROVE  /\ program' \in [Tasks -> Seq(Steps)] /\ ShapeInv' /\ RowsInv' /\ BitsInv' /\ Held' = Held
           /\ Items(q) \subseteq Todo' /\ Items(program[t]) \subseteq Todo /\ \A x \in Todo : x \in Todo' \/ x \in Items(program[t])
<1>1. Does(q, Hook, Hook, Hook) /\ Does(program[t], Hook, Hook, Hook)
  BY CalmWork DEF Does, Light
<1>2. TypeOK /\ ShapeInv /\ RowsInv /\ BitsInv
  BY DEF Inv
<1>0. RowOf(program[t]) = Hook /\ BitOf(program[t]) = Hook /\ PayOf(program[t]) = Hook
  BY <1>1 DEF Does
<1>3. Changes(t, q, Hook, Hook, Hook)
  BY <1>1, <1>2, Moved DEF Replaced
<1>4. RowWork' = RowWork /\ BitWork' = BitWork /\ PayWork' = PayWork
  BY <1>3, <1>0 DEF Changes, RowWork, BitWork, PayWork
<1>5. RowsInv'
  BY <1>2, <1>4 DEF RowsInv
<1>6. BitsInv'
  BY <1>2, <1>4 DEF BitsInv
<1>7. Held' = Held
  BY DEF Held, Has, SlotsOf
<1> QED BY <1>3, <1>5, <1>6, <1>7 DEF Changes

\* Such a step that changes nothing but the program.
LEMMA HarmlessStep ==
    ASSUME Inv, NEW t \in Tasks, NEW q, Light(program[t]), Light(q), Replaced(t, q),
           UNCHANGED <<memory, tables, client, history>>,
           \A x \in Items(program[t]) : x.do \in MarkWork => x \in Items(q)
    PROVE  Inv'
<1>1. /\ program' \in [Tasks -> Seq(Steps)] /\ ShapeInv' /\ RowsInv' /\ BitsInv' /\ Held' = Held
      /\ Items(q) \subseteq Todo' /\ \A x \in Todo : x \in Todo' \/ x \in Items(program[t])
  BY CalmStep DEF memory, tables, client, history
<1>2. KeepsMarks(Todo, Todo')
  BY <1>1 DEF KeepsMarks, MarkWork
<1>3. old' = old /\ cur' = cur /\ shown' = shown /\ left' = left /\ spoiled' = spoiled
  BY DEF memory, client, history
<1>4. MarkGood(Held, old, cur, left, shown, Todo) => MarkGood(Held, old, cur, left, shown, Todo')
  BY <1>2, MarkKept
<1>5. MarkInv'
  <2>1. "markers" \notin spoiled' => MarkGood(Held', old', cur', left', shown', Todo')
    BY <1>1, <1>3, <1>4 DEF Inv, MarkInv
  <2>2. \A l \in Leves : old'[l] = {} /\ cur'[l] = {}
    BY <1>3 DEF Inv, MarkInv
  <2> QED BY <2>1, <2>2 DEF MarkInv
<1>6. TypeOK'
  BY <1>1 DEF Inv, TypeOK, memory, tables, client, history
<1> QED BY <1>1, <1>5, <1>6 DEF Inv

\* An entry is put into the journal, and its row is to be saved before the rest of the program.
PutAt(t, rest, s, c) ==
    /\ Light(program[t]) /\ Light(rest) /\ Items(program[t]) \subseteq Items(rest)
    /\ program' = [program EXCEPT ![t] = <<Save(s, c)>> \o rest]
    /\ journal' = [journal EXCEPT ![s] = c] /\ Puts(journal, s, c) /\ spoiled' = Overlap(t, s, c.quest)
    /\ UNCHANGED <<bits, rows, dbBits, overpaid>>
    /\ \/ credit' = credit /\ (c.done => journal[s] # NoQuest /\ journal[s].done)
       \/ c.quest \in Leves /\ credit' = [credit EXCEPT ![c.quest] = @ + 1]

LEMMA PutStep ==
    ASSUME Inv, NEW t \in Tasks, NEW r, NEW s \in Slots, NEW c \in Entry, PutAt(t, r, s, c)
    PROVE  /\ program' \in [Tasks -> Seq(Steps)] /\ ShapeInv' /\ RowsInv' /\ BitsInv'
           /\ journal' \in [Slots -> Cells] /\ credit' \in [Leves -> Nat] /\ spoiled' \subseteq {"rows", "bits", "markers"}
           /\ Held \subseteq Held' /\ Held' \subseteq Held \cup {c.quest} /\ KeepsMarks(Todo, Todo')
           /\ ("markers" \in spoiled' <=> "markers" \in spoiled)
<1> USE DEF PutAt
<1>0. TypeOK /\ ShapeInv /\ RowsInv /\ BitsInv
  BY DEF Inv
<1>1. Save(s, c) \in RowSteps /\ Save(s, c) \in Steps /\ Save(s, c).do = "save" /\ Save(s, c) \notin BitSteps /\ Save(s, c) \notin PaySteps
  BY StepTypes, KindsApart DEF Save
<1>2. Does(<<Save(s, c)>> \o r, Save(s, c), Hook, Hook) /\ Items(<<Save(s, c)>> \o r) = {Save(s, c)} \cup Items(r)
  <2>1. PICK a \in Steps : a = Save(s, c)
    BY <1>1
  <2>2. a \in RowSteps /\ a \notin BitSteps /\ a \notin PaySteps /\ a.do # "swap" /\ a.do # "remove"
    BY <1>1, <2>1
  <2>3. LET q == <<a>> \o r
        IN  /\ Does(q, IF a \in RowSteps THEN a ELSE Hook, IF a \in BitSteps THEN a ELSE Hook, IF a \in PaySteps THEN a ELSE Hook)
            /\ Items(q) = {a} \cup Items(r)
    BY <2>2, OneStep
  <2> QED BY <2>1, <2>2, <2>3
<1>3. RowOf(program[t]) = Hook /\ BitOf(program[t]) = Hook /\ PayOf(program[t]) = Hook
  BY CalmWork
<1>4. PICK q : q = <<Save(s, c)>> \o r
  OBVIOUS
<1>5. /\ program' \in [Tasks -> Seq(Steps)] /\ ShapeInv'
      /\ RowWork[t] = Hook /\ BitWork[t] = Hook /\ PayWork[t] = Hook
      /\ RowWork' = [RowWork EXCEPT ![t] = Save(s, c)] /\ BitWork' = [BitWork EXCEPT ![t] = Hook] /\ PayWork' = [PayWork EXCEPT ![t] = Hook]
      /\ Items(q) \subseteq Todo' /\ \A x \in Todo : x \in Todo' \/ x \in Items(program[t])
  <2>1. Does(q, Save(s, c), Hook, Hook) /\ Replaced(t, q)
    BY <1>2, <1>4 DEF Replaced
  <2>2. Changes(t, q, Save(s, c), Hook, Hook)
    BY <1>0, <2>1, Moved
  <2> QED BY <1>3, <2>2 DEF Changes
<1>6. BitWork' = BitWork /\ PayWork' = PayWork
  BY <1>5 DEF BitWork, PayWork
<1>7. BitsInv'
  BY <1>0, <1>6, OverlapIs DEF BitsInv
<1>8. RowsInv'
  <2> SUFFICES ASSUME "rows" \notin spoiled'
               PROVE  RowsGood(journal', rows', RowWork') /\ ~overpaid' /\ PayGood(credit', journal', rows', RowWork', PayWork')
    BY DEF RowsInv
  <2>1. "rows" \notin spoiled /\ \A u \in Tasks \ {t} : ~Touches(rows, RowWork[u], s, c.quest)
    BY <1>0, OverlapSees
  <2>2. RowsGood(journal, rows, RowWork) /\ ~overpaid /\ PayGood(credit, journal, rows, RowWork, PayWork)
        /\ RowsTyped(journal, rows, RowWork)
    BY <1>0, <2>1, WorkTypes DEF RowsInv
  <2>3. RowsGood(journal', rows, RowWork')
    BY <1>5, <2>1, <2>2, PutGood
  <2>4. ASSUME NEW l \in Leves, l # c.quest \/ (c.done => journal[s] # NoQuest /\ journal[s].done),
               Owed(journal', rows, RowWork', l)
        PROVE  Owed(journal, rows, RowWork, l)
    <3>1. c.done /\ l = c.quest => journal[s] # NoQuest /\ journal[s].quest = c.quest /\ journal[s].done
      BY <2>4, SlotFacts, <1>0 DEF Puts
    <3>2. PICK x : x = Save(s, c)
      OBVIOUS
    <3>3. Owed([journal EXCEPT ![s] = c], rows, [RowWork EXCEPT ![t] = x], l)
      BY <1>5, <2>4, <3>2
    <3> QED BY <1>5, <2>2, <3>1, <3>2, <3>3, OwedPut
  <2>5. CASE credit' = credit /\ (c.done => journal[s] # NoQuest /\ journal[s].done)
    BY <1>6, <2>2, <2>3, <2>4, <2>5, PayKept
  <2>6. CASE c.quest \in Leves /\ credit' = [credit EXCEPT ![c.quest] = @ + 1]
    <3>1. \A l \in Leves \ {c.quest} : Owed(journal', rows, RowWork', l) => Owed(journal, rows, RowWork, l)
      BY <2>4
    <3>2. credit \in [Leves -> Nat]
      BY <1>0 DEF TypeOK
    <3>3. PayGood([credit EXCEPT ![c.quest] = @ + 1], journal', rows, RowWork', PayWork)
      BY <2>2, <2>6, <3>1, <3>2, PayEarned
    <3> QED BY <1>6, <2>2, <2>3, <2>6, <3>3
  <2> QED BY <2>5, <2>6
<1>9. journal' \in [Slots -> Cells] /\ credit' \in [Leves -> Nat] /\ spoiled' \subseteq {"rows", "bits", "markers"}
      /\ ("markers" \in spoiled' <=> "markers" \in spoiled)
  <2>1. c \in Cells
    BY DEF Cells
  <2>2. journal' \in [Slots -> Cells]
    BY <1>0, <2>1 DEF TypeOK
  <2>3. credit' \in [Leves -> Nat]
    BY <1>0 DEF TypeOK
  <2> QED BY <1>0, <2>2, <2>3, OverlapIs
<1>10. Held \subseteq Held' /\ Held' \subseteq Held \cup {c.quest}
  <2>1. journal'[s] = c /\ \A x \in Slots \ {s} : journal'[x] = journal[x]
    BY <1>0 DEF TypeOK
  <2>2. journal[s].quest \in Entries => journal[s].quest = c.quest
    BY CellFacts DEF Puts
  <2> QED BY <2>1, <2>2, HeldIs, HeldNext DEF Held
<1>11. KeepsMarks(Todo, Todo')
  BY <1>2, <1>4, <1>5 DEF KeepsMarks, MarkWork
<1> QED BY <1>5, <1>7, <1>8, <1>9, <1>10, <1>11

\* Markers stay as they are when what is pending of them stays.
LEMMA MarksStay ==
    ASSUME Inv, UNCHANGED <<old, cur, shown, left>>, "markers" \notin spoiled' => "markers" \notin spoiled, KeepsMarks(Todo, Todo'),
           \A q \in Held \ Held' : old[q] = {} /\ cur[q] = {}
    PROVE  MarkInv'
<1>1. ASSUME "markers" \notin spoiled' PROVE MarkGood(Held', old, cur, left, shown, Todo')
  <2>1. MarkGood(Held, old, cur, left, shown, Todo)
    BY <1>1 DEF Inv, MarkInv
  <2>2. PICK h2, z2 : h2 = Held' /\ z2 = Todo'
    OBVIOUS
  <2>3. MarkGood(h2, old, cur, left, shown, z2)
    BY <2>1, <2>2, MarkKept
  <2> QED BY <2>2, <2>3
<1> QED BY <1>1 DEF Inv, MarkInv

\* A write is put before a calm program.
LEMMA WriteCons ==
    ASSUME NEW p, Light(p), NEW a \in RowSteps, a.do = "remove" => a.quest \notin Leves
    PROVE  Does(<<a>> \o p, a, Hook, Hook) /\ Items(<<a>> \o p) = {a} \cup Items(p)
<1>1. a \in Steps /\ a \notin BitSteps /\ a \notin PaySteps
  BY KindsApart
<1>2. a.do # "swap"
  BY <1>1, StepFields
<1>3. LET q == <<a>> \o p
      IN  /\ Does(q, IF a \in RowSteps THEN a ELSE Hook, IF a \in BitSteps THEN a ELSE Hook, IF a \in PaySteps THEN a ELSE Hook)
          /\ Items(q) = {a} \cup Items(p)
  BY <1>1, <1>2, OneStep
<1> QED BY <1>1, <1>3

\* The linkshell step of an entry is set, and its column is to be saved.
LEMMA LsStep ==
    ASSUME Inv, NEW t \in Tasks, NEW q \in Quests, NEW n \in 0..1, SetNpcLs(t, q, n)
    PROVE  Inv'
<1>0. TypeOK /\ ShapeInv /\ RowsInv /\ BitsInv
  BY DEF Inv
<1>1. Light(program[t])
  BY IssueCalm DEF SetNpcLs
<1>2. PICK s : s = slot_of(q)
  OBVIOUS
<1>3. s \in Slots /\ journal[s].quest = q /\ journal[s] # NoQuest /\ journal[s] \in Entry
  BY <1>0, <1>2, SlotFacts DEF SetNpcLs, Entries
<1>4. PICK a, p : a = SaveLs(s, n) /\ p = <<a>> \o program[t]
  OBVIOUS
<1>5. a \in RowSteps /\ a.do = "saveLs"
  BY <1>3, <1>4, StepTypes DEF SaveLs
<1>6. Does(p, a, Hook, Hook) /\ Items(p) = {a} \cup Items(program[t])
  BY <1>1, <1>4, <1>5, WriteCons
<1>7. Replaced(t, p)
  BY <1>2, <1>4 DEF SetNpcLs, Then, Replaced
<1>8. Changes(t, p, a, Hook, Hook)
  BY <1>0, <1>6, <1>7, Moved
<1>9. RowOf(program[t]) = Hook /\ BitOf(program[t]) = Hook /\ PayOf(program[t]) = Hook
  BY <1>1, CalmWork
<1>10. BitWork' = BitWork /\ PayWork' = PayWork /\ RowWork' = [RowWork EXCEPT ![t] = a] /\ RowWork[t] = Hook
  BY <1>8, <1>9 DEF Changes, BitWork, PayWork
<1>11. PICK c : c = [journal[s] EXCEPT !.ls = n]
  OBVIOUS
<1>12. c \in Entry /\ c.quest = q /\ c.done = journal[s].done /\ journal' = [journal EXCEPT ![s] = c]
       /\ journal' = [journal EXCEPT ![s].ls = n]
  <2>1. [journal[s] EXCEPT !.ls = n] \in Entry /\ [journal[s] EXCEPT !.ls = n].quest = journal[s].quest
        /\ [journal[s] EXCEPT !.ls = n].done = journal[s].done
    BY <1>3, ChangedEntry
  <2>2. journal' = [journal EXCEPT ![s].ls = n]
    BY <1>2 DEF SetNpcLs
  <2>3. journal' = [journal EXCEPT ![s] = c]
    BY <1>0, <1>11, <2>2 DEF TypeOK
  <2> QED BY <1>3, <1>11, <2>1, <2>2, <2>3
<1>13. RowsInv'
  <2> SUFFICES ASSUME "rows" \notin spoiled'
               PROVE  RowsGood(journal', rows', RowWork') /\ ~overpaid' /\ PayGood(credit', journal', rows', RowWork', PayWork')
    BY DEF RowsInv
  <2>0. rows' = rows /\ credit' = credit /\ overpaid' = overpaid /\ spoiled' = Overlap(t, s, q)
    BY <1>2 DEF SetNpcLs, tables, client
  <2>1. "rows" \notin spoiled /\ \A u \in Tasks \ {t} : ~Touches(rows, RowWork[u], s, q)
    BY <1>0, <1>3, <2>0, OverlapSees
  <2>2. RowsGood(journal, rows, RowWork) /\ ~overpaid /\ PayGood(credit, journal, rows, RowWork, PayWork)
        /\ RowsTyped(journal, rows, RowWork)
    BY <1>0, <2>1, WorkTypes DEF RowsInv
  <2>3. RowsGood([journal EXCEPT ![s].ls = n], rows, [RowWork EXCEPT ![t] = SaveLs(s, n)])
    BY <1>3, <1>10, <2>1, <2>2, PutLsGood
  <2>4. RowsGood(journal', rows, RowWork')
    BY <1>4, <1>10, <1>12, <2>3
  <2>5. ASSUME NEW l \in Leves, Owed(journal', rows, RowWork', l) PROVE Owed(journal, rows, RowWork, l)
    <3>1. l # c.quest
      BY <1>12, JournalAssumption
    <3>2. Owed([journal EXCEPT ![s] = c], rows, [RowWork EXCEPT ![t] = a], l)
      BY <1>10, <1>12, <2>5
    <3>3. a = Save(s, c) \/ \E m \in 0..1 : a = SaveLs(s, m)
      BY <1>4
    <3> QED BY <1>3, <1>10, <1>12, <2>2, <3>1, <3>2, <3>3, OwedPut
  <2>6. PayGood(credit, journal', rows, RowWork', PayWork)
    BY <2>2, <2>5, PayKept
  <2> QED BY <1>10, <2>0, <2>2, <2>4, <2>6
<1>14. Held' = Held
  <2>1. \A x \in Slots : journal'[x].quest = journal[x].quest
    BY <1>0, <1>3, <1>12 DEF TypeOK
  <2> QED BY <2>1, HeldIs, HeldNext DEF Held
<1>15. BitsInv'
  BY <1>0, <1>10, OverlapIs DEF BitsInv, SetNpcLs, tables, client
<1>16. MarkInv'
  <2>1. KeepsMarks(Todo, Todo')
    BY <1>6, <1>8 DEF KeepsMarks, MarkWork, Changes
  <2>2. UNCHANGED <<old, cur, shown, left>> /\ ("markers" \notin spoiled' => "markers" \notin spoiled)
    BY <1>0, OverlapIs DEF SetNpcLs, client
  <2> QED BY <1>14, <2>1, <2>2, MarksStay
<1>17. TypeOK'
  <2>1. journal' \in [Slots -> Cells]
    BY <1>0, <1>12 DEF TypeOK, Cells
  <2>2. spoiled' \subseteq {"rows", "bits", "markers"}
    BY <1>0, OverlapIs DEF SetNpcLs, client
  <2>3. program' \in [Tasks -> Seq(Steps)]
    BY <1>8 DEF Changes
  <2> QED BY <1>0, <2>1, <2>2, <2>3 DEF TypeOK, SetNpcLs, tables, client
<1> QED BY <1>8, <1>13, <1>15, <1>16, <1>17 DEF Inv, Changes

\* An entry leaves the journal, and its row is to be deleted.
OutAt(t, p, s, q, b, y) ==
    /\ journal[s].quest = q /\ journal' = [journal EXCEPT ![s] = NoQuest]
    /\ Does(p, RemoveRow(q), b, y) /\ Replaced(t, p)
    /\ "rows" \notin spoiled' => "rows" \notin Overlap(t, s, q)
    /\ UNCHANGED <<rows, credit, overpaid>>
    /\ y = Hook \/ (q \in Leves /\ y = Do("pay", q) /\ journal[s].done)

LEMMA OutStep ==
    ASSUME Inv, NEW t \in Tasks, Light(program[t]), NEW s \in Slots, NEW q \in Entries, NEW p, NEW b, NEW y, OutAt(t, p, s, q, b, y)
    PROVE  /\ Changes(t, p, RemoveRow(q), b, y) /\ RowsInv' /\ journal' \in [Slots -> Cells]
           /\ Held' \subseteq Held /\ Held \subseteq Held' \cup {q}
<1> USE DEF OutAt
<1>0. TypeOK /\ ShapeInv /\ RowsInv /\ BitsInv
  BY DEF Inv
<1>1. Changes(t, p, RemoveRow(q), b, y)
  BY <1>0, Moved
<1>2. RowOf(program[t]) = Hook /\ BitOf(program[t]) = Hook /\ PayOf(program[t]) = Hook
  BY CalmWork
<1>3. RowWork' = [RowWork EXCEPT ![t] = RemoveRow(q)] /\ RowWork[t] = Hook /\ PayWork' = [PayWork EXCEPT ![t] = y] /\ PayWork[t] = Hook
  BY <1>1, <1>2 DEF Changes
<1>4. RowsInv'
  <2> SUFFICES ASSUME "rows" \notin spoiled'
               PROVE  RowsGood(journal', rows, RowWork') /\ ~overpaid /\ PayGood(credit, journal', rows, RowWork', PayWork')
    BY DEF RowsInv
  <2>1. "rows" \notin spoiled /\ \A u \in Tasks \ {t} : ~Touches(rows, RowWork[u], s, q)
    BY <1>0, OverlapSees
  <2>2. RowsGood(journal, rows, RowWork) /\ ~overpaid /\ PayGood(credit, journal, rows, RowWork, PayWork)
        /\ RowsTyped(journal, rows, RowWork)
    BY <1>0, <2>1, WorkTypes DEF RowsInv
  <2>3. RowsGood([journal EXCEPT ![s] = NoQuest], rows, [RowWork EXCEPT ![t] = RemoveRow(q)])
    BY <1>3, <2>1, <2>2, OutGood
  <2>4. RowsGood(journal', rows, RowWork')
    BY <1>3, <2>3
  <2>5. ASSUME NEW l \in Leves, Owed(journal', rows, RowWork', l) PROVE l # q /\ Owed(journal, rows, RowWork, l)
    <3>1. PICK j2, w2 : j2 = journal' /\ w2 = RowWork'
      OBVIOUS
    <3>2. OutTo(journal, RowWork, s, t, q, j2, w2) /\ Owed(j2, rows, w2, l)
      BY <1>3, <2>5, <3>1 DEF OutTo
    <3>3. RowsTyped(journal, rows, RowWork) /\ RowWork[t] = Hook
      BY <1>3, <2>2
    <3> QED BY <3>2, <3>3, OwedOut
  <2>6. PayGood(credit, journal', rows, RowWork', PayWork')
    <3>1. CASE y = Hook
      <4>1. PayWork' = PayWork
        BY <1>3, <3>1 DEF PayWork
      <4> QED BY <2>2, <2>5, <4>1, PayKept
    <3>2. CASE q \in Leves /\ y = Do("pay", q) /\ journal[s].done
      <4>1. journal[s] # NoQuest
        BY <3>2, CellFacts
      <4>2. \A u \in Tasks : RowWork[u] # RemoveRow(q)
        <5>1. RemoveRow(q).do = "remove" /\ RemoveRow(q).quest = q
          BY DEF RemoveRow
        <5>2. Hook # RemoveRow(q)
          BY <5>1, KindsApart
        <5> QED BY <1>3, <2>1, <5>1, <5>2 DEF Touches
      <4>3. Owed(journal, rows, RowWork, q)
        BY <3>2, <4>1, <4>2 DEF Owed, Recorded
      <4>4. ~Owed(journal', rows, RowWork', q)
        BY <2>5, <3>2
      <4>5. DOMAIN PayWork = Tasks /\ PayWork = [u \in Tasks |-> PayWork[u]] /\ credit \in [Leves -> Nat]
        BY <1>0 DEF PayWork, TypeOK
      <4>6. PayGood(credit, journal', rows, RowWork', [PayWork EXCEPT ![t] = Do("pay", q)])
        BY <1>3, <2>2, <2>5, <3>2, <4>3, <4>4, <4>5, PayAsked
      <4> QED BY <1>3, <3>2, <4>6
    <3> QED BY <3>1, <3>2
  <2> QED BY <2>2, <2>4, <2>6
<1>5. journal' \in [Slots -> Cells]
  BY <1>0 DEF TypeOK, Cells
<1>6. Held' \subseteq Held /\ Held \subseteq Held' \cup {q}
  <2>1. journal'[s] = NoQuest /\ \A x \in Slots \ {s} : journal'[x] = journal[x]
    BY <1>0 DEF TypeOK
  <2>2. ASSUME NEW x \in Entries, NEW z \in Slots, journal'[z].quest = x PROVE journal[z].quest = x
    BY <2>1, <2>2, CellFacts
  <2>3. ASSUME NEW x \in Entries, NEW z \in Slots, journal[z].quest = x, x # q PROVE journal'[z].quest = x
    BY <2>1, <2>3
  <2>4. Held \subseteq Entries /\ Held' \subseteq Entries
    BY DEF Held
  <2> QED BY <2>2, <2>3, <2>4, HeldIs, HeldNext
<1> QED BY <1>1, <1>4, <1>5, <1>6

\* The marker sets change while everything else stays but the program.
Unmoved == UNCHANGED <<journal, bits, rows, dbBits, credit, overpaid>>
Advanced(t, r) ==
    /\ program' \in [Tasks -> Seq(Steps)] /\ ShapeInv' /\ RowsInv' /\ BitsInv' /\ Held' = Held
    /\ Items(r) \subseteq Todo' /\ Items(program[t]) \subseteq Todo
    /\ \A x \in Todo : x \in Todo' \/ x \in Items(program[t])
LEMMA Advance ==
    ASSUME Inv, NEW t \in Tasks, NEW r, Light(program[t]), Light(r), Replaced(t, r), Unmoved, spoiled \subseteq spoiled'
    PROVE  Advanced(t, r)
  BY CalmStep DEF Unmoved, Advanced

LEMMA MarkStep ==
    ASSUME Inv, NEW t \in Tasks, NEW r, Advanced(t, r), Unmoved, spoiled' = spoiled \/ spoiled' = spoiled \cup {"markers"},
           old' \in [Entries -> SUBSET Enpcs], cur' \in [Entries -> SUBSET Enpcs], shown' \in [Entries -> SUBSET Enpcs],
           left' \in [Entries -> SUBSET Enpcs],
           \A l \in Leves : old'[l] = {} /\ cur'[l] = {},
           "markers" \notin spoiled' => MarkGood(Held, old', cur', left', shown', Todo')
    PROVE  Inv'
<1>1. MarkInv'
  BY DEF MarkInv, Advanced
<1>2. TypeOK'
  BY DEF Inv, TypeOK, Advanced, Unmoved
<1> QED BY <1>1, <1>2 DEF Inv, Advanced

\* An entry is not a leve and has no markers as one.
LEMMA QuestOrLeve == \A q \in Quests : q \in Entries /\ \A l \in Leves : l # q /\ l \in Entries
  BY JournalAssumption DEF Entries

-----------------------------------------------------------------------------
(* Commands *)

\* An entry is put into the journal and no marker changes.
LEMMA PutInv ==
    ASSUME Inv, NEW t \in Tasks, NEW r, NEW s \in Slots, NEW c \in Entry, PutAt(t, r, s, c), UNCHANGED <<old, cur, shown, left>>
    PROVE  Inv'
<1>1. /\ program' \in [Tasks -> Seq(Steps)] /\ ShapeInv' /\ RowsInv' /\ BitsInv'
      /\ journal' \in [Slots -> Cells] /\ credit' \in [Leves -> Nat] /\ spoiled' \subseteq {"rows", "bits", "markers"}
      /\ Held \subseteq Held' /\ KeepsMarks(Todo, Todo')
      /\ ("markers" \in spoiled' <=> "markers" \in spoiled)
  BY PutStep
<1>2. MarkInv'
  BY <1>1, MarksStay
<1>3. UNCHANGED <<bits, rows, dbBits, overpaid>>
  BY DEF PutAt
<1>4. TypeOK'
  BY <1>1, <1>3 DEF Inv, TypeOK
<1> QED BY <1>1, <1>2, <1>4 DEF Inv

\* What is new in the journal, and what is changed there.
LEMMA PutsNew ==
    ASSUME TypeOK, NEW q \in Entries, ~Has(q), Free # {}
    PROVE  /\ Min(Free) \in Slots /\ Quest(q) \in Entry /\ Quest(q).quest = q /\ ~Quest(q).done
           /\ Puts(journal, Min(Free), Quest(q))
<1>1. Min(Free) \in Slots /\ journal[Min(Free)] = NoQuest /\ \A s \in Slots : journal[s].quest # q
  BY SlotFacts
<1>2. Quest(q) \in Entry /\ Quest(q).quest = q /\ Quest(q).ls = 0 /\ ~Quest(q).done
  BY FreshEntry
<1> QED BY <1>1, <1>2 DEF Puts

LEMMA AddQuestInv ==
    ASSUME Inv, NEW t \in Tasks, NEW q \in Quests, AddQuest(t, q)
    PROVE  Inv'
<1>0. TypeOK /\ q \in Entries
  BY DEF Inv, Entries
<1>1. PICK p, s, c, r : p = program[t] /\ s = Min(Free) /\ c = Quest(q) /\ r = <<Hook>> \o p
  OBVIOUS
<1>2. Light(p) /\ p \in Seq(Steps)
  BY <1>1, IssueCalm DEF AddQuest
<1>3. s \in Slots /\ c \in Entry /\ c.quest = q /\ ~c.done /\ Puts(journal, s, c)
  BY <1>0, <1>1, PutsNew DEF AddQuest
<1>4. Light(r) /\ Items(p) \subseteq Items(r)
  BY <1>1, <1>2, Pushes
<1>5. program' = [program EXCEPT ![t] = <<Save(s, c)>> \o r]
  <2>1. PICK a \in Steps : a = Save(s, c)
    BY <1>3, StepTypes, KindsApart
  <2>2. Begin2(a, Hook, p) = Begin1(a, Begin1(Hook, p))
    BY <1>2, KindsApart, ConsMany
  <2>3. <<a, Hook>> \o p = <<a>> \o r
    BY <1>1, <2>2 DEF Begin1, Begin2
  <2>4. program' = [program EXCEPT ![t] = <<a, Hook>> \o p]
    BY <1>1, <2>1 DEF AddQuest, Then
  <2> QED BY <2>1, <2>3, <2>4
<1>6. PutAt(t, r, s, c)
  <2>1. journal' = [journal EXCEPT ![s] = c] /\ spoiled' = Overlap(t, s, c.quest)
    BY <1>1, <1>3 DEF AddQuest, Add
  <2>2. UNCHANGED <<bits, rows, dbBits, overpaid>> /\ credit' = credit
    BY DEF AddQuest, tables, client
  <2> QED BY <1>1, <1>2, <1>3, <1>4, <1>5, <2>1, <2>2 DEF PutAt
<1>7. /\ program' \in [Tasks -> Seq(Steps)] /\ ShapeInv' /\ RowsInv' /\ BitsInv'
      /\ journal' \in [Slots -> Cells] /\ credit' \in [Leves -> Nat] /\ spoiled' \subseteq {"rows", "bits", "markers"}
      /\ Held \subseteq Held' /\ KeepsMarks(Todo, Todo')
      /\ ("markers" \in spoiled' <=> "markers" \in spoiled)
  BY <1>3, <1>6, PutStep
<1>8. old' = [old EXCEPT ![q] = {}] /\ cur' = [cur EXCEPT ![q] = {}] /\ UNCHANGED <<bits, rows, dbBits, shown, left, overpaid>>
  BY DEF AddQuest, tables, client
<1>9. MarkInv'
  <2>1. \A l \in Leves : old[l] = {} /\ cur[l] = {} /\ l # q /\ l \in Entries
    BY JournalAssumption DEF Inv, MarkInv, Entries
  <2>2. \A l \in Leves : old'[l] = {} /\ cur'[l] = {}
    BY <1>0, <1>8, <2>1 DEF TypeOK
  <2>3. ASSUME "markers" \notin spoiled' PROVE MarkGood(Held', old', cur', left', shown', Todo')
    <3>1. MarkGood(Held, old, cur, left, shown, Todo)
      BY <1>7, <2>3 DEF Inv, MarkInv
    <3>2. q \notin Held
      BY DEF Held, AddQuest
    <3>3. old[q] = {} /\ cur[q] = {}
      BY <1>0, <3>1, <3>2 DEF MarkGood, MarksOf
    <3>4. old' = old /\ cur' = cur
      BY <1>0, <1>8, <3>3 DEF TypeOK
    <3>5. PICK h2, z2 : h2 = Held' /\ z2 = Todo'
      OBVIOUS
    <3>6. MarkGood(h2, old, cur, left, shown, z2)
      BY <1>7, <3>1, <3>5, MarkKept
    <3> QED BY <1>8, <3>4, <3>5, <3>6
  <2> QED BY <2>2, <2>3 DEF MarkInv
<1>10. TypeOK'
  BY <1>0, <1>7, <1>8 DEF TypeOK
<1> QED BY <1>7, <1>9, <1>10 DEF Inv

LEMMA AcceptLeveInv ==
    ASSUME Inv, NEW t \in Tasks, NEW l \in Leves, AcceptRegionalLeve(t, l)
    PROVE  Inv'
<1>0. TypeOK /\ l \in Entries
  BY DEF Inv, Entries
<1>1. PICK p, s, c : p = program[t] /\ s = Min(Free) /\ c = Quest(l)
  OBVIOUS
<1>2. Light(p)
  BY <1>1, IssueCalm DEF AcceptRegionalLeve
<1>3. s \in Slots /\ c \in Entry /\ c.quest = l /\ ~c.done /\ Puts(journal, s, c)
  BY <1>0, <1>1, PutsNew DEF AcceptRegionalLeve
<1>4. PutAt(t, p, s, c)
  <2>1. journal' = [journal EXCEPT ![s] = c] /\ spoiled' = Overlap(t, s, c.quest)
    BY <1>1, <1>3 DEF AcceptRegionalLeve, Add
  <2>2. UNCHANGED <<bits, rows, dbBits, overpaid>> /\ credit' = credit
    BY DEF AcceptRegionalLeve, tables, client
  <2>3. program' = [program EXCEPT ![t] = <<Save(s, c)>> \o p]
    BY <1>1 DEF AcceptRegionalLeve, Then
  <2> QED BY <1>1, <1>2, <1>3, <2>1, <2>2, <2>3 DEF PutAt
<1>5. UNCHANGED <<old, cur, shown, left>>
  BY DEF AcceptRegionalLeve, client
<1> QED BY <1>3, <1>4, <1>5, PutInv

LEMMA AdvanceLeveInv ==
    ASSUME Inv, NEW t \in Tasks, NEW l \in Leves, AdvanceLeve(t, l)
    PROVE  Inv'
<1>0. TypeOK /\ l \in Entries
  BY DEF Inv, Entries
<1>1. PICK p, s : p = program[t] /\ s = slot_of(l)
  OBVIOUS
<1>2. Light(p)
  BY <1>1, IssueCalm DEF AdvanceLeve
<1>3. s \in Slots /\ journal[s].quest = l /\ journal[s] # NoQuest /\ journal[s] \in Entry
  BY <1>0, <1>1, SlotFacts DEF AdvanceLeve
<1>4. PICK c : c = [journal[s] EXCEPT !.done = TRUE]
  OBVIOUS
<1>5. c \in Entry /\ c.quest = l /\ c.ls = journal[s].ls
  BY <1>3, <1>4, ChangedEntry
<1>6. PutAt(t, p, s, c)
  <2>1. journal' = [journal EXCEPT ![s] = c] /\ spoiled' = Overlap(t, s, c.quest)
    BY <1>1, <1>4, <1>5 DEF AdvanceLeve
  <2>2. UNCHANGED <<bits, rows, dbBits, overpaid>> /\ credit' = [credit EXCEPT ![c.quest] = @ + 1]
    BY <1>5 DEF AdvanceLeve, tables, client
  <2>3. program' = [program EXCEPT ![t] = <<Save(s, c)>> \o p]
    BY <1>1, <1>4 DEF AdvanceLeve, Then
  <2>4. Puts(journal, s, c)
    BY <1>3, <1>5 DEF Puts
  <2> QED BY <1>1, <1>2, <1>5, <2>1, <2>2, <2>3, <2>4 DEF PutAt
<1>7. UNCHANGED <<old, cur, shown, left>>
  BY DEF AdvanceLeve, client
<1> QED BY <1>3, <1>5, <1>6, <1>7, PutInv

LEMMA StartSequenceInv ==
    ASSUME Inv, NEW t \in Tasks, NEW q \in Quests, NEW n \in Sequences, StartSequence(t, q, n)
    PROVE  Inv'
<1>0. TypeOK /\ q \in Entries
  BY DEF Inv, Entries
<1>1. PICK p, s, k : p = program[t] /\ s = slot_of(q) /\ k = <<Do("swap", q), Hook, Do("drain", q)>>
  OBVIOUS
<1>2. Light(p) /\ p \in Seq(Steps)
  BY <1>1, IssueCalm DEF StartSequence
<1>3. s \in Slots /\ journal[s].quest = q /\ journal[s] # NoQuest /\ journal[s] \in Entry
  BY <1>0, <1>1, SlotFacts DEF StartSequence
<1>4. PICK c : c = [journal[s] EXCEPT !.seq = n]
  OBVIOUS
<1>5. c \in Entry /\ c.quest = q /\ c.ls = journal[s].ls /\ c.done = journal[s].done
  BY <1>3, <1>4, ChangedEntry
<1>6. Light(k \o p) /\ Items(p) \subseteq Items(k \o p)
  BY <1>1, <1>2, Pushes
<1>7. program' = [program EXCEPT ![t] = <<Save(s, c)>> \o (k \o p)]
  <2>1. PICK a \in Steps : a = Save(s, c)
    BY <1>5, <1>3, StepTypes, KindsApart
  <2>2. PICK x : x = <<a>>
    OBVIOUS
  <2>3. x \in Seq(Steps)
    BY <2>2
  <2>4. k \in Seq(Steps)
    <3>1. Do("swap", q) \in Steps /\ Do("drain", q) \in Steps /\ Hook \in Steps
      BY StepTypes, KindsApart
    <3> QED BY <1>1, <3>1
  <2>5. (x \o k) \o p = x \o (k \o p)
    BY <1>2, <2>3, <2>4, ConcatAssociative
  <2>6. program' = [program EXCEPT ![t] = (x \o k) \o p]
    BY <1>1, <1>4, <2>1, <2>2 DEF StartSequence, Mutate, Then
  <2> QED BY <2>1, <2>2, <2>5, <2>6
<1>8. PutAt(t, k \o p, s, c)
  <2>1. journal' = [journal EXCEPT ![s] = c] /\ spoiled' = Overlap(t, s, c.quest)
    BY <1>1, <1>4, <1>5 DEF StartSequence, Mutate
  <2>2. UNCHANGED <<bits, rows, dbBits, overpaid>> /\ credit' = credit
    BY DEF StartSequence, Mutate, tables, client
  <2>3. Puts(journal, s, c)
    BY <1>3, <1>5 DEF Puts
  <2> QED BY <1>1, <1>2, <1>3, <1>5, <1>6, <1>7, <2>1, <2>2, <2>3 DEF PutAt
<1>9. UNCHANGED <<old, cur, shown, left>>
  BY DEF StartSequence, Mutate, client
<1> QED BY <1>3, <1>5, <1>8, <1>9, PutInv

LEMMA DataInv ==
    ASSUME Inv, NEW t \in Tasks, NEW q \in Quests, NEW n \in Sequences, ChangeData(t, q, n) \/ ClearData(t, q, n)
    PROVE  Inv'
<1>0. TypeOK /\ q \in Entries
  BY DEF Inv, Entries
<1>1. PICK p, s : p = program[t] /\ s = slot_of(q)
  OBVIOUS
<1>2. Light(p) /\ p \in Seq(Steps)
  BY <1>1, IssueCalm DEF ChangeData, ClearData
<1>3. s \in Slots /\ journal[s].quest = q /\ journal[s] # NoQuest /\ journal[s] \in Entry
  BY <1>0, <1>1, SlotFacts DEF ChangeData, ClearData
<1>4. PICK c : c = [journal[s] EXCEPT !.seq = n]
  OBVIOUS
<1>5. c \in Entry /\ c.quest = q /\ c.ls = journal[s].ls /\ c.done = journal[s].done
  BY <1>3, <1>4, ChangedEntry
<1>6. Mutate(t, q, c, <<>>)
  BY <1>1, <1>4 DEF ChangeData, ClearData
<1>7. program' = [program EXCEPT ![t] = <<Save(s, c)>> \o p]
  <2>1. PICK a \in Steps : a = Save(s, c)
    BY <1>5, <1>3, StepTypes, KindsApart
  <2>2. PICK x : x = <<a>>
    OBVIOUS
  <2>3. x \in Seq(Steps)
    BY <2>2
  <2>4. x \o <<>> = x
    BY <2>3, ConcatEmptySeq
  <2>5. program' = [program EXCEPT ![t] = (x \o <<>>) \o p]
    BY <1>1, <1>6, <2>1, <2>2 DEF Mutate, Then
  <2> QED BY <2>1, <2>2, <2>4, <2>5
<1>8. PutAt(t, p, s, c)
  <2>1. journal' = [journal EXCEPT ![s] = c] /\ spoiled' = Overlap(t, s, c.quest)
    BY <1>1, <1>5, <1>6 DEF Mutate
  <2>2. UNCHANGED <<bits, rows, dbBits, overpaid>> /\ credit' = credit
    BY <1>6 DEF Mutate, tables
  <2>3. Puts(journal, s, c)
    BY <1>3, <1>5 DEF Puts
  <2> QED BY <1>1, <1>2, <1>3, <1>5, <1>7, <2>1, <2>2, <2>3 DEF PutAt
<1>9. UNCHANGED <<old, cur, shown, left>>
  BY <1>6 DEF Mutate, client
<1> QED BY <1>3, <1>5, <1>8, <1>9, PutInv

\* Commands that only leave steps.
LEMMA StepsLeftInv ==
    ASSUME Inv, NEW t \in Tasks, NEW q \in Quests, UpdateEnpcs(t, q) \/ CompleteQuest(t, q) \/ AbandonQuest(t, q)
    PROVE  Inv'
<1>1. PICK p : p = program[t]
  OBVIOUS
<1>2. Light(p)
  BY <1>1, IssueCalm DEF UpdateEnpcs, CompleteQuest, AbandonQuest
<1>3. UNCHANGED <<memory, tables, client, history>>
  BY DEF UpdateEnpcs, CompleteQuest, AbandonQuest
<1>4. PICK r : Replaced(t, r) /\ Light(r) /\ Items(p) \subseteq Items(r)
  <2>1. CASE UpdateEnpcs(t, q)
    <3>1. PICK r : r = <<Do("swap", q), Hook, Do("drain", q), Do("active", q)>> \o p
      OBVIOUS
    <3>2. Light(r) /\ Items(p) \subseteq Items(r)
      BY <1>2, <3>1, Pushes
    <3>3. Replaced(t, r)
      BY <1>1, <2>1, <3>1 DEF UpdateEnpcs, Then, Replaced
    <3> QED BY <3>2, <3>3
  <2>2. CASE CompleteQuest(t, q)
    <3>1. PICK r : r = <<Hook, Do("finish", q)>> \o p
      OBVIOUS
    <3>2. Light(r) /\ Items(p) \subseteq Items(r)
      BY <1>2, <3>1, Pushes
    <3>3. Replaced(t, r)
      BY <1>1, <2>2, <3>1 DEF CompleteQuest, Then, Replaced
    <3> QED BY <3>2, <3>3
  <2>3. CASE AbandonQuest(t, q)
    <3>1. PICK r : r = <<Hook, Do("drop", q)>> \o p
      OBVIOUS
    <3>2. Light(r) /\ Items(p) \subseteq Items(r)
      BY <1>2, <3>1, Pushes
    <3>3. Replaced(t, r)
      BY <1>1, <2>3, <3>1 DEF AbandonQuest, Then, Replaced
    <3> QED BY <3>2, <3>3
  <2> QED BY <2>1, <2>2, <2>3
<1> QED BY <1>1, <1>2, <1>3, <1>4, HarmlessStep

\* An entry is marked: it moves over from the old set or is shown.
LEMMA SetEnpcInv ==
    ASSUME Inv, NEW t \in Tasks, NEW q \in Quests, NEW e \in Enpcs, SetEnpc(t, q, e)
    PROVE  Inv'
<1>0. TypeOK /\ q \in Entries /\ q \in Held /\ q \notin Leves
  BY JournalAssumption DEF Inv, Entries, Held, SetEnpc
<1>1. PICK p, a : p = program[t] /\ a = [do |-> "show", quest |-> q, set |-> {e}]
  OBVIOUS
<1>2. Light(p)
  BY <1>1, IssueCalm DEF SetEnpc
<1>3. a \in OtherSteps /\ a.do = "show" /\ a.quest = q /\ a.set = {e}
  <2>1. {e} \in SUBSET Enpcs
    OBVIOUS
  <2> QED BY <1>1, <2>1, StepTypes
<1>4. Unmoved /\ shown' = shown /\ spoiled' = spoiled
  BY DEF SetEnpc, Unmoved, tables, history
<1>5. /\ cur'[q] = cur[q] \cup {e} /\ old'[q] = old[q] \ {e} /\ left'[q] = left[q] \ {e}
      /\ \A x \in Entries \ {q} : cur'[x] = cur[x] /\ old'[x] = old[x] /\ left'[x] = left[x]
      /\ cur' \in [Entries -> SUBSET Enpcs] /\ old' \in [Entries -> SUBSET Enpcs] /\ left' \in [Entries -> SUBSET Enpcs]
      /\ shown' \in [Entries -> SUBSET Enpcs]
  BY <1>0, <1>4 DEF TypeOK, SetEnpc
<1>6. PICK r : Replaced(t, r) /\ Light(r) /\ Items(p) \subseteq Items(r) /\ (e \in old[q] \/ a \in Items(r))
  <2>1. CASE e \in old[q] /\ UNCHANGED program
    <3>1. Replaced(t, p)
      BY <1>0, <1>1, <2>1 DEF Replaced, TypeOK
    <3> QED BY <1>2, <2>1, <3>1
  <2>2. CASE Then(t, <<[do |-> "show", quest |-> q, set |-> {e}]>>)
    <3>1. PICK r : r = <<a>> \o p
      OBVIOUS
    <3>2. Light(r) /\ Items(r) = {a} \cup Items(p)
      BY <1>2, <1>3, <3>1, LightCons
    <3>3. Replaced(t, r)
      BY <1>1, <2>2, <3>1 DEF Then, Replaced
    <3> QED BY <3>2, <3>3
  <2> QED BY <2>1, <2>2 DEF SetEnpc
<1>7. Advanced(t, r)
  BY <1>1, <1>2, <1>4, <1>6, Advance
<1>8. \A l \in Leves : old'[l] = {} /\ cur'[l] = {}
  BY <1>0, <1>5 DEF Inv, MarkInv, Entries
<1>9. ASSUME "markers" \notin spoiled' PROVE MarkGood(Held, old', cur', left', shown', Todo')
  <2>1. \A d \in Entries : MarksOf(d, Held, old, cur, left, shown, Todo)
    BY <1>4, <1>9 DEF Inv, MarkInv, MarkGood
  <2>2. \A x \in Todo : x \in Todo'
    BY <1>1, <1>6, <1>7 DEF Advanced
  <2>3. PICK o2, c2, l2, z2 : o2 = old' /\ c2 = cur' /\ l2 = left' /\ z2 = Todo'
    OBVIOUS
  <2>4. KeepsCasts(Todo, z2) /\ \A d : Do("drain", d) \in Todo => Do("drain", d) \in z2
    BY <2>2, <2>3 DEF KeepsCasts
  <2>5. ASSUME NEW d \in Entries PROVE MarksOf(d, Held, o2, c2, l2, shown, z2)
    <3>1. CASE d # q
      BY <1>5, <2>1, <2>3, <2>4, <3>1, MarksSame
    <3>2. CASE d = q
      <4>1. \A b \in Named(q, o2, c2, l2) : b \in Named(q, old, cur, left) \/ Showing(q, b, z2)
        <5>1. e \in old[q] \/ a \in z2
          BY <1>6, <1>7, <2>3 DEF Advanced
        <5>2. a \in z2 => Showing(q, e, z2)
          BY <1>3 DEF Showing
        <5> QED BY <1>5, <2>3, <5>1, <5>2 DEF Named
      <4>2. \A b \in Named(q, old, cur, left) : b \in Named(q, o2, c2, l2)
        BY <1>5, <2>3 DEF Named
      <4>3. o2[q] # {} => Do("drain", q) \in z2
        BY <1>5, <2>1, <2>3, <2>4, <3>2 DEF MarksOf
      <4> QED BY <1>0, <2>1, <2>4, <3>2, <4>1, <4>2, <4>3, MarksShift
    <3> QED BY <3>1, <3>2
  <2> QED BY <1>4, <2>3, <2>5 DEF MarkGood
<1> QED BY <1>4, <1>5, <1>7, <1>8, <1>9, MarkStep

\* The call that changes one bit is put before a calm program.
LEMMA LoadCons ==
    ASSUME NEW p, Light(p), NEW a \in BitSteps
    PROVE  Does(<<a>> \o p, Hook, a, Hook) /\ Items(<<a>> \o p) = {a} \cup Items(p)
<1>1. a \in Steps /\ a \notin RowSteps /\ a \notin PaySteps
  BY KindsApart
<1>2. a.do # "swap" /\ a.do # "remove"
  BY <1>1, StepFields
<1>3. LET q == <<a>> \o p
      IN  /\ Does(q, IF a \in RowSteps THEN a ELSE Hook, IF a \in BitSteps THEN a ELSE Hook, IF a \in PaySteps THEN a ELSE Hook)
          /\ Items(q) = {a} \cup Items(p)
  BY <1>1, <1>2, OneStep
<1> QED BY <1>1, <1>3

\* The bits of memory and the calls when one bit changes.
LEMMA BitChanged ==
    ASSUME Inv, NEW t \in Tasks, BitWork[t] = Hook, NEW q \in Quests, NEW f \in BOOLEAN,
           BitWork' = [BitWork EXCEPT ![t] = LoadBits(q, f)], bits' = IF f THEN bits \cup {q} ELSE bits \ {q},
           dbBits' = dbBits, "bits" \notin spoiled' => "bits" \notin spoiled
    PROVE  BitsInv'
<1>1. PICK x : x = LoadBits(q, f)
  OBVIOUS
<1>2. x \in BitSteps /\ x.do = "loadBits" /\ bits' = Apply(bits, x)
  <2>1. x.do = "loadBits" /\ x.quest = q /\ x.flag = f
    BY <1>1 DEF LoadBits
  <2> QED BY <1>1, <2>1, StepTypes DEF Apply
<1>3. ASSUME "bits" \notin spoiled' PROVE BitsGood(bits', dbBits, BitWork')
  <2>1. BitsGood(bits, dbBits, BitWork) /\ BitsTyped(bits, dbBits, BitWork)
    BY <1>3, WorkTypes DEF Inv, BitsInv
  <2>2. BitsGood(Apply(bits, x), dbBits, [BitWork EXCEPT ![t] = x])
    BY <1>2, <2>1, ChangeGood
  <2> QED BY <1>1, <1>2, <2>2
<1> QED BY <1>3 DEF BitsInv

LEMMA SetQuestCompleteInv ==
    ASSUME Inv, NEW t \in Tasks, NEW q \in Quests, NEW f \in BOOLEAN, SetQuestComplete(t, q, f)
    PROVE  Inv'
<1>0. TypeOK /\ ShapeInv
  BY DEF Inv
<1>1. PICK p, a, r : p = program[t] /\ a = LoadBits(q, f) /\ r = <<a>> \o p
  OBVIOUS
<1>2. Light(p)
  BY <1>1, IssueCalm DEF SetQuestComplete
<1>3. a \in BitSteps
  BY <1>1, StepTypes
<1>4. Does(r, Hook, a, Hook) /\ Items(r) = {a} \cup Items(p)
  BY <1>1, <1>2, <1>3, LoadCons
<1>5. Replaced(t, r)
  BY <1>1 DEF SetQuestComplete, Then, Replaced
<1>6. Changes(t, r, Hook, a, Hook)
  BY <1>0, <1>4, <1>5, Moved
<1>7. RowOf(p) = Hook /\ BitOf(p) = Hook /\ PayOf(p) = Hook
  BY <1>2, CalmWork
<1>8. BitWork' = [BitWork EXCEPT ![t] = a] /\ BitWork[t] = Hook /\ RowWork' = RowWork /\ PayWork' = PayWork
  BY <1>1, <1>6, <1>7 DEF Changes, RowWork, PayWork
<1>9. /\ UNCHANGED <<journal, old, cur, rows, dbBits, shown, left, credit, overpaid, spoiled>>
      /\ bits' = IF f THEN bits \cup {q} ELSE bits \ {q}
  BY DEF SetQuestComplete, tables, client, history
<1>10. BitsInv'
  BY <1>1, <1>8, <1>9, BitChanged
<1>11. RowsInv'
  BY <1>8, <1>9 DEF Inv, RowsInv
<1>12. MarkInv'
  <2>1. KeepsMarks(Todo, Todo') /\ Held' = Held
    BY <1>1, <1>4, <1>6, <1>9 DEF KeepsMarks, MarkWork, Changes, Held, Has, SlotsOf
  <2> QED BY <1>9, <2>1, MarksStay
<1>13. TypeOK'
  BY <1>0, <1>6, <1>9 DEF TypeOK, Changes
<1> QED BY <1>6, <1>10, <1>11, <1>12, <1>13 DEF Inv, Changes

LEMMA HandInInv ==
    ASSUME Inv, NEW t \in Tasks, NEW l \in Leves, HandIn(t, l)
    PROVE  Inv'
<1>0. TypeOK /\ l \in Entries
  BY DEF Inv, Entries
<1>1. PICK p, s, y, r : p = program[t] /\ s = slot_of(l) /\ y = Do("pay", l) /\ r = <<RemoveRow(l)>> \o (<<y>> \o p)
  OBVIOUS
<1>2. Light(p) /\ p \in Seq(Steps)
  BY <1>1, IssueCalm DEF HandIn
<1>3. s \in Slots /\ journal[s].quest = l /\ journal[s].done
  BY <1>0, <1>1, SlotFacts DEF HandIn
<1>4. y \in PaySteps /\ y \in Steps /\ y \notin BitSteps
  BY <1>1, StepTypes, KindsApart
<1>5. Does(r, RemoveRow(l), Hook, y) /\ Items(r) = {RemoveRow(l), y} \cup Items(p)
  <2>1. LET q == <<RemoveRow(l)>> \o (<<y>> \o p) IN
        /\ Does(q, RemoveRow(l), IF y \in BitSteps THEN y ELSE Hook, IF y \in PaySteps THEN y ELSE Hook)
        /\ Items(q) = {RemoveRow(l), y} \cup Items(p)
    BY <1>0, <1>1, <1>2, <1>4, TwoSteps
  <2> QED BY <1>1, <1>4, <2>1
<1>6. Replaced(t, r)
  <2>1. PICK a \in Steps : a = RemoveRow(l)
    BY <1>0, StepTypes, KindsApart
  <2>2. Begin2(a, y, p) = Begin1(a, Begin1(y, p))
    BY <1>2, <1>4, ConsMany
  <2>3. <<a, y>> \o p = r
    BY <1>1, <2>1, <2>2 DEF Begin1, Begin2
  <2>4. program' = [program EXCEPT ![t] = <<a, y>> \o p]
    BY <1>1, <2>1 DEF HandIn, Then
  <2> QED BY <2>3, <2>4 DEF Replaced
<1>7. /\ UNCHANGED <<bits, old, cur, rows, dbBits, shown, left, credit, overpaid>>
      /\ spoiled' = Overlap(t, s, l) /\ journal' = [journal EXCEPT ![s] = NoQuest]
  BY <1>1 DEF HandIn, tables, client
<1>8. /\ Changes(t, r, RemoveRow(l), Hook, y) /\ RowsInv' /\ journal' \in [Slots -> Cells]
      /\ Held' \subseteq Held /\ Held \subseteq Held' \cup {l}
  <2>1. OutAt(t, r, s, l, Hook, y)
    BY <1>1, <1>3, <1>5, <1>6, <1>7 DEF OutAt
  <2> QED BY <1>0, <1>1, <1>2, <1>3, <2>1, OutStep
<1>9. BitWork' = BitWork
  <2>1. BitOf(p) = Hook
    BY <1>2, CalmWork
  <2> QED BY <1>1, <1>8, <2>1 DEF Changes, BitWork
<1>10. BitsInv'
  BY <1>0, <1>7, <1>9, OverlapIs DEF Inv, BitsInv
<1>11. MarkInv'
  <2>1. KeepsMarks(Todo, Todo')
    BY <1>1, <1>5, <1>8 DEF KeepsMarks, MarkWork, Changes
  <2>2. "markers" \notin spoiled' => "markers" \notin spoiled
    BY <1>0, <1>7, OverlapIs
  <2>3. old[l] = {} /\ cur[l] = {}
    BY DEF Inv, MarkInv
  <2> QED BY <1>7, <1>8, <2>1, <2>2, <2>3, MarksStay
<1>12. TypeOK'
  <2>1. spoiled' \subseteq {"rows", "bits", "markers"}
    BY <1>0, <1>7, OverlapIs
  <2> QED BY <1>0, <1>7, <1>8, <2>1 DEF TypeOK, Changes
<1> QED BY <1>8, <1>10, <1>11, <1>12 DEF Inv, Changes

LEMMA CommandInv ==
    ASSUME Inv, NEW t \in Tasks, Command(t)
    PROVE  Inv'
<1>1. CASE \E q \in Quests : AddQuest(t, q)
  BY <1>1, AddQuestInv
<1>2. CASE \E q \in Quests : UpdateEnpcs(t, q) \/ CompleteQuest(t, q) \/ AbandonQuest(t, q)
  BY <1>2, StepsLeftInv
<1>3. CASE \E q \in Quests, n \in Sequences : StartSequence(t, q, n)
  BY <1>3, StartSequenceInv
<1>10. CASE \E q \in Quests, n \in Sequences : ChangeData(t, q, n) \/ ClearData(t, q, n)
  BY <1>10, DataInv
<1>4. CASE \E q \in Quests, e \in Enpcs : SetEnpc(t, q, e)
  BY <1>4, SetEnpcInv
<1>5. CASE \E q \in Quests, f \in BOOLEAN : SetQuestComplete(t, q, f)
  BY <1>5, SetQuestCompleteInv
<1>6. CASE \E q \in Quests, n \in 0..1 : SetNpcLs(t, q, n)
  BY <1>6, LsStep
<1>7. CASE \E l \in Leves : AcceptRegionalLeve(t, l)
  BY <1>7, AcceptLeveInv
<1>8. CASE \E l \in Leves : AdvanceLeve(t, l)
  BY <1>8, AdvanceLeveInv
<1>9. CASE \E l \in Leves : HandIn(t, l)
  BY <1>9, HandInInv
<1> QED BY <1>1, <1>2, <1>3, <1>4, <1>5, <1>6, <1>7, <1>8, <1>9, <1>10 DEF Command

-----------------------------------------------------------------------------
(* Steps *)

\* A task takes the first step of its program.
LEMMA HeadIs ==
    ASSUME Inv, NEW t \in Tasks, NEW what, Next_(t, what)
    PROVE  /\ program[t] \in Seq(Steps) /\ Shape(program[t]) /\ program[t] # <<>>
           /\ Step(t) = Head(program[t]) /\ Step(t).do = what /\ Step(t) \in Steps
           /\ Items(program[t]) = {Step(t)} \cup Items(Tail(program[t])) /\ Tail(program[t]) \in Seq(Steps)
           /\ RowOf(program[t]) = IF Step(t) \in RowSteps THEN Step(t) ELSE Hook
           /\ what # "remove" =>
                 /\ BitOf(program[t]) = IF Step(t) \in BitSteps THEN Step(t) ELSE Hook
                 /\ PayOf(program[t]) = IF Step(t) \in PaySteps THEN Step(t) ELSE Hook
                 /\ Light(Tail(program[t])) /\ Does(Tail(program[t]), Hook, Hook, Hook)
           /\ what = "remove" => Does(Tail(program[t]), Hook, BitOf(program[t]), PayOf(program[t]))
<1>1. program[t] \in Seq(Steps) /\ Shape(program[t]) /\ program[t] # <<>> /\ Step(t) = Head(program[t]) /\ Step(t).do = what
  BY DEF Inv, TypeOK, ShapeInv, Next_, Step
<1>2. PICK p : p = program[t]
  OBVIOUS
<1>3. p \in Seq(Steps) /\ Shape(p) /\ p # <<>>
  BY <1>1, <1>2
<1>4. /\ Head(p) \in Steps /\ Items(p) = {Head(p)} \cup Items(Tail(p)) /\ Tail(p) \in Seq(Steps)
      /\ RowOf(p) = IF Head(p) \in RowSteps THEN Head(p) ELSE Hook
      /\ Head(p).do # "remove" =>
            /\ BitOf(p) = IF Head(p) \in BitSteps THEN Head(p) ELSE Hook
            /\ PayOf(p) = IF Head(p) \in PaySteps THEN Head(p) ELSE Hook
            /\ Light(Tail(p)) /\ Does(Tail(p), Hook, Hook, Hook)
      /\ Head(p).do = "remove" => Does(Tail(p), Hook, BitOf(p), PayOf(p))
  BY <1>3, HeadWork
<1> QED BY <1>1, <1>2, <1>4

\* A row is written: nothing else of what the tasks are about to do changes.
RowWriters == {"save", "saveLs", "remove"}
LEMMA RowWritten ==
    ASSUME Inv, NEW t \in Tasks, NEW what \in RowWriters, Next_(t, what), Done(t)
    PROVE  /\ program' \in [Tasks -> Seq(Steps)] /\ ShapeInv' /\ KeepsMarks(Todo, Todo')
           /\ BitWork' = BitWork /\ PayWork' = PayWork
           /\ RowWork[t] = Step(t) /\ RowWork' = [RowWork EXCEPT ![t] = Hook]
<1>0. TypeOK /\ ShapeInv
  BY DEF Inv
<1>1. PICK p, x : p = program[t] /\ x = Step(t)
  OBVIOUS
<1>2. /\ x \in Steps /\ x.do = what /\ Items(p) = {x} \cup Items(Tail(p))
      /\ RowOf(p) = (IF x \in RowSteps THEN x ELSE Hook)
      /\ what # "remove" =>
            /\ BitOf(p) = IF x \in BitSteps THEN x ELSE Hook
            /\ PayOf(p) = IF x \in PaySteps THEN x ELSE Hook
            /\ Does(Tail(p), Hook, Hook, Hook)
      /\ what = "remove" => Does(Tail(p), Hook, BitOf(p), PayOf(p))
  BY <1>1, HeadIs
<1>3. x \in RowSteps /\ x \notin BitSteps /\ x \notin PaySteps
  BY <1>2, StepFields, KindsApart DEF RowWriters
<1>4. Does(Tail(p), Hook, BitOf(p), PayOf(p))
  BY <1>2, <1>3
<1>5. Replaced(t, Tail(p))
  BY <1>0, <1>1 DEF Done, Replaced, TypeOK
<1>6. Changes(t, Tail(p), Hook, BitOf(p), PayOf(p))
  BY <1>0, <1>4, <1>5, Moved
<1>7. BitWork' = BitWork /\ PayWork' = PayWork
  BY <1>1, <1>6 DEF Changes, BitWork, PayWork
<1>8. RowWork[t] = x /\ RowWork' = [RowWork EXCEPT ![t] = Hook]
  BY <1>1, <1>2, <1>3, <1>6 DEF Changes
<1>9. KeepsMarks(Todo, Todo')
  BY <1>1, <1>2, <1>6 DEF Changes, KeepsMarks, MarkWork, RowWriters
<1> QED BY <1>1, <1>6, <1>7, <1>8, <1>9 DEF Changes

\* The rows change as they should and no more is recorded.
LEMMA RowWrittenInv ==
    ASSUME Inv, NEW t \in Tasks, NEW what \in RowWriters, Next_(t, what), Done(t), UNCHANGED <<memory, dbBits, client, history>>,
           rows' \in [Slots -> Cells],
           "rows" \notin spoiled => /\ RowsGood(journal, rows', RowWork')
                                    /\ \A l \in Leves : Owed(journal, rows', RowWork', l) => Owed(journal, rows, RowWork, l)
    PROVE  Inv'
<1>1. /\ program' \in [Tasks -> Seq(Steps)] /\ ShapeInv' /\ KeepsMarks(Todo, Todo')
      /\ BitWork' = BitWork /\ PayWork' = PayWork
  BY RowWritten
<1>2. UNCHANGED <<journal, bits, old, cur, dbBits, shown, left, credit, overpaid, spoiled>>
  BY DEF memory, client, history
<1>3. RowsInv'
  <2> SUFFICES ASSUME "rows" \notin spoiled
               PROVE  RowsGood(journal, rows', RowWork') /\ ~overpaid /\ PayGood(credit, journal, rows', RowWork', PayWork)
    BY <1>1, <1>2 DEF RowsInv
  <2>1. ~overpaid /\ PayGood(credit, journal, rows, RowWork, PayWork)
    BY DEF Inv, RowsInv
  <2>2. PayGood(credit, journal, rows', RowWork', PayWork)
    BY <2>1, PayKept
  <2> QED BY <2>1, <2>2
<1>4. BitsInv'
  BY <1>1, <1>2 DEF Inv, BitsInv
<1>5. MarkInv'
  <2>1. Held' = Held
    BY <1>2 DEF Held, Has, SlotsOf
  <2> QED BY <1>1, <1>2, <2>1, MarksStay
<1>6. TypeOK'
  BY <1>1, <1>2 DEF Inv, TypeOK
<1> QED BY <1>1, <1>3, <1>4, <1>5, <1>6 DEF Inv

LEMMA SaveQuestInv ==
    ASSUME Inv, NEW t \in Tasks, SaveQuest(t)
    PROVE  Inv'
<1>0. TypeOK
  BY DEF Inv
<1>1. Next_(t, "save") /\ Done(t) /\ "save" \in RowWriters /\ UNCHANGED <<memory, dbBits, client, history>>
  BY DEF SaveQuest, RowWriters
<1>2. RowWork[t] = Step(t) /\ RowWork' = [RowWork EXCEPT ![t] = Hook]
  BY <1>1, RowWritten
<1>3. PICK x : x = Step(t)
  OBVIOUS
<1>4. x \in Steps /\ x.do = "save"
  BY <1>1, <1>3, HeadIs
<1>5. PICK s, c : s = x.slot /\ c = x.c
  OBVIOUS
<1>6. s \in Slots /\ c \in Entry /\ x = Save(s, c)
  BY <1>4, <1>5, StepFields
<1>7. PICK n : n = IF rows[s] = NoQuest THEN 0 ELSE rows[s].ls
  OBVIOUS
<1>8. n \in 0..1
  BY <1>0, <1>6, <1>7, CellFacts DEF TypeOK
<1>9. PICK d : d = [c EXCEPT !.ls = n]
  OBVIOUS
<1>10. d \in Entry
  BY <1>6, <1>8, <1>9, ChangedEntry
<1>11. rows' = [rows EXCEPT ![s] = d]
  BY <1>3, <1>5, <1>7, <1>9 DEF SaveQuest
<1>12. rows' \in [Slots -> Cells]
  BY <1>0, <1>6, <1>10, <1>11 DEF TypeOK, Cells
<1>13. ASSUME "rows" \notin spoiled
       PROVE  /\ RowsGood(journal, rows', RowWork')
              /\ \A l \in Leves : Owed(journal, rows', RowWork', l) => Owed(journal, rows, RowWork, l)
  <2>1. RowsGood(journal, rows, RowWork) /\ RowsTyped(journal, rows, RowWork)
    BY <1>0, <1>13, WorkTypes DEF Inv, RowsInv
  <2>2. RowWork[t] = Save(s, c)
    BY <1>2, <1>3, <1>6
  <2>3. RowsGood(journal, [rows EXCEPT ![s] = [c EXCEPT !.ls = IF rows[s] = NoQuest THEN 0 ELSE rows[s].ls]], [RowWork EXCEPT ![t] = Hook])
    BY <1>6, <2>1, <2>2, SaveGood
  <2>4. RowsGood(journal, rows', RowWork')
    BY <1>2, <1>7, <1>9, <1>11, <2>3
  <2>5. journal[s] = d
    <3>1. Save(s, c).do = "save" /\ Save(s, c).slot = s /\ Save(s, c).c = c
      BY DEF Save
    <3>2. Finds(journal, rows, RowWork[t])
      BY <2>1 DEF RowsGood
    <3>3. journal[s] = c /\ ((rows[s] = NoQuest /\ c.ls = 0) \/ (rows[s] # NoQuest /\ rows[s].ls = c.ls))
      BY <2>2, <3>1, <3>2 DEF Finds, SaveFinds
    <3>4. n = c.ls
      BY <1>7, <3>3
    <3>5. [c EXCEPT !.ls = c.ls] = c
      BY <1>6, ChangedEntry
    <3> QED BY <1>9, <3>3, <3>4, <3>5
  <2>6. \A q \in Leves : RowWork[t] # RemoveRow(q)
    BY <2>2 DEF Save, RemoveRow
  <2>7. ASSUME NEW l \in Leves, Owed(journal, rows', RowWork', l) PROVE Owed(journal, rows, RowWork, l)
    <3>1. PICK r2, w2 : r2 = rows' /\ w2 = RowWork'
      OBVIOUS
    <3>2. WrittenTo(rows, RowWork, s, t, d, r2, w2) /\ Owed(journal, r2, w2, l)
      BY <1>2, <1>11, <2>7, <3>1 DEF WrittenTo
    <3> QED BY <1>6, <1>10, <2>1, <2>5, <2>6, <3>2, OwedWritten
  <2> QED BY <2>4, <2>7
<1> QED BY <1>1, <1>12, <1>13, RowWrittenInv

LEMMA SaveQuestNpcLsInv ==
    ASSUME Inv, NEW t \in Tasks, SaveQuestNpcLs(t)
    PROVE  Inv'
<1>0. TypeOK
  BY DEF Inv
<1>1. Next_(t, "saveLs") /\ Done(t) /\ "saveLs" \in RowWriters /\ UNCHANGED <<memory, dbBits, client, history>>
  BY DEF SaveQuestNpcLs, RowWriters
<1>2. RowWork[t] = Step(t) /\ RowWork' = [RowWork EXCEPT ![t] = Hook]
  BY <1>1, RowWritten
<1>3. PICK x : x = Step(t)
  OBVIOUS
<1>4. x \in Steps /\ x.do = "saveLs"
  BY <1>1, <1>3, HeadIs
<1>5. PICK s, n : s = x.slot /\ n = x.ls
  OBVIOUS
<1>6. s \in Slots /\ n \in 0..1 /\ x = SaveLs(s, n)
  BY <1>4, <1>5, StepFields
<1>7. PICK d : d = [rows[s] EXCEPT !.ls = n]
  OBVIOUS
<1>8. rows[s] # NoQuest => rows[s] \in Entry /\ d \in Entry /\ d.quest = rows[s].quest /\ d.done = rows[s].done
  BY <1>0, <1>6, <1>7, CellFacts, ChangedEntry DEF TypeOK
<1>9. rows' = IF rows[s] = NoQuest THEN rows ELSE [rows EXCEPT ![s].ls = n]
  BY <1>3, <1>5 DEF SaveQuestNpcLs
<1>10. rows[s] # NoQuest => rows' = [rows EXCEPT ![s] = d]
  BY <1>0, <1>7, <1>9 DEF TypeOK
<1>11. rows' \in [Slots -> Cells]
  BY <1>0, <1>6, <1>8, <1>9, <1>10 DEF TypeOK, Cells
<1>12. ASSUME "rows" \notin spoiled
       PROVE  /\ RowsGood(journal, rows', RowWork')
              /\ \A l \in Leves : Owed(journal, rows', RowWork', l) => Owed(journal, rows, RowWork, l)
  <2>1. RowsGood(journal, rows, RowWork) /\ RowsTyped(journal, rows, RowWork)
    BY <1>0, <1>12, WorkTypes DEF Inv, RowsInv
  <2>2. RowWork[t] = SaveLs(s, n)
    BY <1>2, <1>3, <1>6
  <2>3. rows[s] # NoQuest /\ RowsGood(journal, [rows EXCEPT ![s].ls = n], [RowWork EXCEPT ![t] = Hook])
    <3>1. LsTo(journal, rows, RowWork, s, t, n)
      BY <1>6, <2>1, <2>2, SaveLsGood
    <3> QED BY <3>1 DEF LsTo
  <2>4. RowsGood(journal, rows', RowWork')
    BY <1>2, <1>9, <2>3
  <2>6. \A q \in Leves : RowWork[t] # RemoveRow(q)
    BY <2>2 DEF SaveLs, RemoveRow
  <2>7. ASSUME NEW l \in Leves, Owed(journal, rows', RowWork', l) PROVE Owed(journal, rows, RowWork, l)
    <3>1. PICK r2, w2 : r2 = rows' /\ w2 = RowWork'
      OBVIOUS
    <3>2. WrittenTo(rows, RowWork, s, t, d, r2, w2) /\ Owed(journal, r2, w2, l)
      BY <1>2, <1>10, <2>3, <2>7, <3>1 DEF WrittenTo
    <3> QED BY <1>6, <1>8, <2>1, <2>3, <2>6, <3>2, OwedWritten
  <2> QED BY <2>4, <2>7
<1> QED BY <1>1, <1>11, <1>12, RowWrittenInv

LEMMA RemoveQuestInv ==
    ASSUME Inv, NEW t \in Tasks, RemoveQuest(t)
    PROVE  Inv'
<1>0. TypeOK
  BY DEF Inv
<1>1. Next_(t, "remove") /\ Done(t) /\ "remove" \in RowWriters /\ UNCHANGED <<memory, dbBits, client, history>>
  BY DEF RemoveQuest, RowWriters
<1>2. RowWork[t] = Step(t) /\ RowWork' = [RowWork EXCEPT ![t] = Hook]
  BY <1>1, RowWritten
<1>3. PICK x, q : x = Step(t) /\ q = x.quest
  OBVIOUS
<1>4. x \in Steps /\ x.do = "remove"
  BY <1>1, <1>3, HeadIs
<1>5. q \in Entries /\ x = RemoveRow(q)
  BY <1>3, <1>4, StepFields
<1>6. rows' = [s \in Slots |-> IF rows[s].quest = q THEN NoQuest ELSE rows[s]]
  BY <1>3 DEF RemoveQuest
<1>7. rows' \in [Slots -> Cells]
  BY <1>0, <1>6 DEF TypeOK, Cells
<1>8. ASSUME "rows" \notin spoiled
      PROVE  /\ RowsGood(journal, rows', RowWork')
             /\ \A l \in Leves : Owed(journal, rows', RowWork', l) => Owed(journal, rows, RowWork, l)
  <2>1. RowsGood(journal, rows, RowWork) /\ RowsTyped(journal, rows, RowWork)
    BY <1>0, <1>8, WorkTypes DEF Inv, RowsInv
  <2>2. RowWork[t] = RemoveRow(q)
    BY <1>2, <1>3, <1>5
  <2>3. RowsGood(journal, [s \in Slots |-> IF rows[s].quest = q THEN NoQuest ELSE rows[s]], [RowWork EXCEPT ![t] = Hook])
    BY <1>5, <2>1, <2>2, RemoveGood
  <2>4. RowsGood(journal, rows', RowWork')
    BY <1>2, <1>6, <2>3
  <2>5. ASSUME NEW l \in Leves, Owed(journal, rows', RowWork', l) PROVE Owed(journal, rows, RowWork, l)
    <3>1. PICK r2, w2 : r2 = rows' /\ w2 = RowWork'
      OBVIOUS
    <3>2. RemovedFrom(rows, RowWork, t, q, r2, w2) /\ Owed(journal, r2, w2, l)
      BY <1>2, <1>6, <2>5, <3>1 DEF RemovedFrom
    <3> QED BY <1>5, <2>1, <2>2, <3>2, OwedRemoved
  <2> QED BY <2>4, <2>5
<1> QED BY <1>1, <1>7, <1>8, RowWrittenInv

\* A call about the completed set is made: the rest is calm, but for the call y it leaves.
LEMMA BitCall ==
    ASSUME Inv, NEW t \in Tasks, NEW what \in {"loadBits", "saveBits"}, Next_(t, what), NEW r, Replaced(t, r), NEW y,
           \/ r = Tail(program[t]) /\ y = Hook
           \/ r = <<y>> \o Tail(program[t]) /\ y \in BitSteps
    PROVE  /\ program' \in [Tasks -> Seq(Steps)] /\ ShapeInv' /\ KeepsMarks(Todo, Todo')
           /\ RowWork' = RowWork /\ PayWork' = PayWork
           /\ BitWork[t] = Step(t) /\ BitWork' = [BitWork EXCEPT ![t] = y]
<1>0. TypeOK /\ ShapeInv
  BY DEF Inv
<1>1. PICK p, x, u : p = program[t] /\ x = Step(t) /\ u = Tail(p)
  OBVIOUS
<1>2. /\ x \in Steps /\ x.do = what /\ Items(p) = {x} \cup Items(u)
      /\ RowOf(p) = (IF x \in RowSteps THEN x ELSE Hook)
      /\ BitOf(p) = (IF x \in BitSteps THEN x ELSE Hook)
      /\ PayOf(p) = (IF x \in PaySteps THEN x ELSE Hook)
      /\ Light(u) /\ Does(u, Hook, Hook, Hook)
  BY <1>1, HeadIs
<1>3. x \in BitSteps /\ x \notin RowSteps /\ x \notin PaySteps
  BY <1>2, StepFields, KindsApart
<1>4. Does(r, Hook, y, Hook) /\ Items(u) \subseteq Items(r)
  <2>1. CASE r = Tail(program[t]) /\ y = Hook
    BY <1>1, <1>2, <2>1
  <2>2. CASE r = <<y>> \o Tail(program[t]) /\ y \in BitSteps
    <3>1. Does(<<y>> \o u, Hook, y, Hook) /\ Items(<<y>> \o u) = {y} \cup Items(u)
      BY <1>2, <2>2, LoadCons
    <3> QED BY <1>1, <2>2, <3>1
  <2> QED BY <2>1, <2>2
<1>5. Changes(t, r, Hook, y, Hook)
  BY <1>0, <1>4, Moved
<1>6. RowWork' = RowWork /\ PayWork' = PayWork
  BY <1>1, <1>2, <1>3, <1>5 DEF Changes, RowWork, PayWork
<1>7. BitWork[t] = x /\ BitWork' = [BitWork EXCEPT ![t] = y]
  BY <1>1, <1>2, <1>3, <1>5 DEF Changes
<1>8. KeepsMarks(Todo, Todo')
  BY <1>1, <1>2, <1>4, <1>5 DEF Changes, KeepsMarks, MarkWork
<1> QED BY <1>1, <1>5, <1>6, <1>7, <1>8 DEF Changes

\* Only the completed sets are touched by it.
LEMMA BitCallInv ==
    ASSUME Inv, program' \in [Tasks -> Seq(Steps)], ShapeInv', KeepsMarks(Todo, Todo'), RowWork' = RowWork, PayWork' = PayWork,
           UNCHANGED <<journal, bits, old, cur, rows, shown, left, credit, overpaid>>, dbBits' \subseteq Quests,
           spoiled' = spoiled \/ spoiled' = spoiled \cup {"bits"},
           "bits" \notin spoiled' => BitsGood(bits, dbBits', BitWork')
    PROVE  Inv'
<1>1. RowsInv'
  BY DEF Inv, RowsInv
<1>2. BitsInv'
  BY DEF BitsInv
<1>3. MarkInv'
  <2>1. Held' = Held
    BY DEF Held, Has, SlotsOf
  <2> QED BY <2>1, MarksStay
<1>4. TypeOK'
  BY DEF Inv, TypeOK
<1> QED BY <1>1, <1>2, <1>3, <1>4 DEF Inv

LEMMA LoadCompletedInv ==
    ASSUME Inv, NEW t \in Tasks, LoadCompleted(t)
    PROVE  Inv'
<1>0. TypeOK
  BY DEF Inv
<1>1. PICK x, p : x = Step(t) /\ p = program[t]
  OBVIOUS
<1>2. Next_(t, "loadBits")
  BY DEF LoadCompleted
<1>3. x \in Steps /\ x.do = "loadBits"
  BY <1>1, <1>2, HeadIs
<1>4. x.quest \in Quests /\ x.flag \in BOOLEAN
  BY <1>3, StepFields
<1>5. PICK new : new = Apply(dbBits, x)
  OBVIOUS
<1>6. new \in SUBSET Quests
  BY <1>0, <1>4, <1>5 DEF Apply, TypeOK
<1>7. PICK z : z = [do |-> "saveBits", bits |-> new]
  OBVIOUS
<1>8. z \in BitSteps
  BY <1>6, <1>7, StepTypes
<1>9. PICK y, r : /\ Replaced(t, r)
                  /\ \/ r = Tail(p) /\ y = Hook /\ new = dbBits
                     \/ r = <<y>> \o Tail(p) /\ y = z
  <2>1. CASE x.flag /\ x.quest \in dbBits
    <3>1. Replaced(t, Tail(p))
      BY <1>0, <1>1, <2>1 DEF LoadCompleted, Done, Replaced, TypeOK
    <3>2. new = dbBits
      BY <1>5, <2>1 DEF Apply
    <3> QED BY <3>1, <3>2
  <2>2. CASE ~(x.flag /\ x.quest \in dbBits)
    <3>1. z = [do |-> "saveBits", bits |-> IF x.flag THEN dbBits \cup {x.quest} ELSE dbBits \ {x.quest}]
      BY <1>5, <1>7 DEF Apply
    <3>2. Replaced(t, <<z>> \o Tail(p))
      BY <1>0, <1>1, <2>2, <3>1 DEF LoadCompleted, Replaced, TypeOK
    <3> QED BY <3>2
  <2> QED BY <2>1, <2>2
<1>10. /\ program' \in [Tasks -> Seq(Steps)] /\ ShapeInv' /\ KeepsMarks(Todo, Todo')
       /\ RowWork' = RowWork /\ PayWork' = PayWork
       /\ BitWork[t] = x /\ BitWork' = [BitWork EXCEPT ![t] = y]
  BY <1>1, <1>2, <1>8, <1>9, BitCall
<1>11. UNCHANGED <<journal, bits, old, cur, rows, dbBits, shown, left, credit, overpaid>>
  BY DEF LoadCompleted, memory, tables, client
<1>12. spoiled' = spoiled \/ spoiled' = spoiled \cup {"bits"}
  BY DEF LoadCompleted
<1>13. ASSUME "bits" \notin spoiled' PROVE BitsGood(bits, dbBits, BitWork')
  <2>1. "bits" \notin spoiled
        /\ \A u \in Tasks \ {t}, d \in {"loadBits", "saveBits"} : \A i \in DOMAIN program[u] : program[u][i].do # d
    BY <1>13 DEF LoadCompleted
  <2>2. BitsGood(bits, dbBits, BitWork) /\ BitsTyped(bits, dbBits, BitWork)
    BY <1>0, <2>1, WorkTypes DEF Inv, BitsInv
  <2>3. ASSUME NEW u \in Tasks \ {t} PROVE BitWork[u].do \notin {"loadBits", "saveBits"}
    <3>1. program[u] \in Seq(Steps)
      BY <1>0 DEF TypeOK
    <3>2. BitOf(program[u]) \in Items(program[u]) \cup {Hook}
      BY <3>1, FirstSteps DEF BitOf
    <3>3. BitWork[u] = BitOf(program[u]) /\ Hook.do = "hook"
      BY KindsApart DEF BitWork
    <3> QED BY <2>1, <3>2, <3>3 DEF Items
  <2>4. (y = Hook /\ Apply(dbBits, BitWork[t]) = dbBits) \/ y = [do |-> "saveBits", bits |-> Apply(dbBits, BitWork[t])]
    BY <1>5, <1>7, <1>9, <1>10
  <2>5. BitsGood(bits, dbBits, [BitWork EXCEPT ![t] = y])
    BY <1>3, <1>10, <2>2, <2>3, <2>4, LoadBitsGood
  <2> QED BY <1>10, <2>5
<1> QED BY <1>0, <1>10, <1>11, <1>12, <1>13, BitCallInv DEF TypeOK

LEMMA SaveCompletedInv ==
    ASSUME Inv, NEW t \in Tasks, SaveCompleted(t)
    PROVE  Inv'
<1>0. TypeOK
  BY DEF Inv
<1>1. PICK x, p : x = Step(t) /\ p = program[t]
  OBVIOUS
<1>2. Next_(t, "saveBits")
  BY DEF SaveCompleted
<1>3. x \in Steps /\ x.do = "saveBits"
  BY <1>1, <1>2, HeadIs
<1>4. x.bits \subseteq Quests
  BY <1>3, StepFields
<1>5. PICK y : y = Hook
  OBVIOUS
<1>6. Replaced(t, Tail(p))
  BY <1>0, <1>1 DEF SaveCompleted, Done, Replaced, TypeOK
<1>7. /\ program' \in [Tasks -> Seq(Steps)] /\ ShapeInv' /\ KeepsMarks(Todo, Todo')
      /\ RowWork' = RowWork /\ PayWork' = PayWork
      /\ BitWork[t] = x /\ BitWork' = [BitWork EXCEPT ![t] = y]
  BY <1>1, <1>2, <1>5, <1>6, BitCall
<1>8. UNCHANGED <<journal, bits, old, cur, rows, shown, left, credit, overpaid, spoiled>> /\ dbBits' = x.bits
  BY <1>1 DEF SaveCompleted, memory, client, history
<1>9. ASSUME "bits" \notin spoiled' PROVE BitsGood(bits, dbBits', BitWork')
  <2>1. BitsGood(bits, dbBits, BitWork) /\ BitsTyped(bits, dbBits, BitWork)
    BY <1>0, <1>8, <1>9, WorkTypes DEF Inv, BitsInv
  <2>2. BitsGood(bits, BitWork[t].bits, [BitWork EXCEPT ![t] = Hook])
    BY <1>3, <1>7, <2>1, SaveBitsGood
  <2> QED BY <1>5, <1>7, <1>8, <2>2
<1> QED BY <1>4, <1>7, <1>8, <1>9, BitCallInv

\* A call of the database fails.
LEMMA DbFailsInv ==
    ASSUME Inv, NEW t \in Tasks, DbFails(t)
    PROVE  Inv'
<1>0. TypeOK
  BY DEF Inv
<1>1. PICK what \in {"save", "saveLs", "remove", "loadBits", "saveBits"} : Next_(t, what)
  BY DEF DbFails
<1>2. Step(t).do = what /\ Done(t) /\ UNCHANGED <<journal, bits, old, cur, rows, dbBits, shown, left, credit, overpaid>>
  BY <1>1, HeadIs DEF DbFails, memory, tables, client
<1>3. CASE what \in RowWriters
  <2>1. /\ program' \in [Tasks -> Seq(Steps)] /\ ShapeInv' /\ KeepsMarks(Todo, Todo') /\ BitWork' = BitWork
    BY <1>1, <1>2, <1>3, RowWritten
  <2>2. spoiled' = spoiled \cup {"rows"}
    BY <1>2, <1>3 DEF DbFails, RowWriters
  <2>3. RowsInv'
    BY <2>2 DEF RowsInv
  <2>4. BitsInv'
    BY <1>2, <2>1, <2>2 DEF Inv, BitsInv
  <2>5. MarkInv'
    <3>1. Held' = Held
      BY <1>2 DEF Held, Has, SlotsOf
    <3> QED BY <1>2, <2>1, <2>2, <3>1, MarksStay
  <2>6. TypeOK'
    BY <1>0, <1>2, <2>1, <2>2 DEF TypeOK
  <2> QED BY <2>1, <2>3, <2>4, <2>5, <2>6 DEF Inv
<1>4. CASE what \in {"loadBits", "saveBits"}
  <2>1. PICK y, r : y = Hook /\ r = Tail(program[t])
    OBVIOUS
  <2>2. Replaced(t, r)
    BY <1>0, <1>2, <2>1 DEF Done, Replaced, TypeOK
  <2>3. /\ program' \in [Tasks -> Seq(Steps)] /\ ShapeInv' /\ KeepsMarks(Todo, Todo')
        /\ RowWork' = RowWork /\ PayWork' = PayWork
    BY <1>1, <1>4, <2>1, <2>2, BitCall
  <2>4. spoiled' = spoiled \cup {"bits"}
    BY <1>2, <1>4 DEF DbFails
  <2> QED BY <1>0, <1>2, <2>3, <2>4, BitCallInv DEF TypeOK
<1> QED BY <1>1, <1>3, <1>4 DEF RowWriters

\* A leve is paid for: a completion of it is waiting.
LEMMA PayInv ==
    ASSUME Inv, NEW t \in Tasks, Pay(t)
    PROVE  Inv'
<1>0. TypeOK /\ ShapeInv
  BY DEF Inv
<1>1. PICK x, p, l : x = Step(t) /\ p = program[t] /\ l = x.quest
  OBVIOUS
<1>2. /\ x \in Steps /\ x.do = "pay" /\ Items(p) = {x} \cup Items(Tail(p))
      /\ RowOf(p) = (IF x \in RowSteps THEN x ELSE Hook)
      /\ BitOf(p) = (IF x \in BitSteps THEN x ELSE Hook)
      /\ PayOf(p) = (IF x \in PaySteps THEN x ELSE Hook)
      /\ Does(Tail(p), Hook, Hook, Hook)
  BY <1>1, HeadIs DEF Pay
<1>3. x \in PaySteps /\ x \notin RowSteps /\ x \notin BitSteps /\ l \in Leves /\ x = Do("pay", l)
  BY <1>1, <1>2, StepFields, KindsApart
<1>4. Replaced(t, Tail(p))
  BY <1>0, <1>1 DEF Pay, Done, Replaced, TypeOK
<1>5. Changes(t, Tail(p), Hook, Hook, Hook)
  BY <1>0, <1>2, <1>4, Moved
<1>6. RowWork' = RowWork /\ BitWork' = BitWork
  BY <1>1, <1>2, <1>3, <1>5 DEF Changes, RowWork, BitWork
<1>7. PayWork[t] = Do("pay", l) /\ PayWork' = [PayWork EXCEPT ![t] = Hook]
  BY <1>1, <1>2, <1>3, <1>5 DEF Changes
<1>8. /\ UNCHANGED <<journal, bits, old, cur, rows, dbBits, shown, left, spoiled>>
      /\ credit[l] = 0 => overpaid' = TRUE /\ credit' = credit
      /\ credit[l] # 0 => credit' = [credit EXCEPT ![l] = @ - 1] /\ overpaid' = overpaid
  BY <1>1 DEF Pay, memory, tables, client
<1>9. RowsInv'
  <2> SUFFICES ASSUME "rows" \notin spoiled
               PROVE  RowsGood(journal, rows, RowWork) /\ ~overpaid' /\ PayGood(credit', journal, rows, RowWork, PayWork')
    BY <1>6, <1>8 DEF RowsInv
  <2>1. RowsGood(journal, rows, RowWork) /\ ~overpaid /\ PayGood(credit, journal, rows, RowWork, PayWork)
    BY DEF Inv, RowsInv
  <2>2. DOMAIN PayWork = Tasks /\ PayWork = [u \in Tasks |-> PayWork[u]] /\ credit \in [Leves -> Nat]
    BY <1>0 DEF PayWork, TypeOK
  <2>3. credit[l] # 0 /\ PayGood([credit EXCEPT ![l] = @ - 1], journal, rows, RowWork, [PayWork EXCEPT ![t] = Hook])
    BY <1>3, <1>7, <2>1, <2>2, PayMade
  <2> QED BY <1>7, <1>8, <2>1, <2>3
<1>10. BitsInv'
  BY <1>6, <1>8 DEF Inv, BitsInv
<1>11. MarkInv'
  <2>1. KeepsMarks(Todo, Todo') /\ Held' = Held
    BY <1>1, <1>2, <1>5, <1>8 DEF Changes, KeepsMarks, MarkWork, Held, Has, SlotsOf
  <2> QED BY <1>8, <2>1, MarksStay
<1>12. TypeOK'
  <2>1. credit' \in [Leves -> Nat]
    <3>1. credit[l] \in Nat /\ credit \in [Leves -> Nat]
      BY <1>0, <1>3 DEF TypeOK
    <3> QED BY <1>8, <3>1
  <2>2. overpaid' \in BOOLEAN
    BY <1>0, <1>8 DEF TypeOK
  <2> QED BY <1>0, <1>5, <1>8, <2>1, <2>2 DEF TypeOK, Changes
<1> QED BY <1>5, <1>9, <1>10, <1>11, <1>12 DEF Inv, Changes

\* A step without write or payment: the program and its rest are calm.
LEMMA OtherHead ==
    ASSUME Inv, NEW t \in Tasks, NEW what \in {"swap", "drain", "active", "finish", "drop", "clear", "show", "hook"}, Next_(t, what)
    PROVE  /\ Light(program[t]) /\ Light(Tail(program[t])) /\ Step(t) \in OtherSteps /\ Step(t).do = what
           /\ Items(program[t]) = {Step(t)} \cup Items(Tail(program[t]))
           /\ what # "hook" => Step(t).quest \in Quests
<1>1. /\ program[t] \in Seq(Steps) /\ Shape(program[t]) /\ program[t] # <<>>
      /\ Step(t) = Head(program[t]) /\ Step(t).do = what /\ Step(t) \in Steps
      /\ Items(program[t]) = {Step(t)} \cup Items(Tail(program[t]))
      /\ Light(Tail(program[t]))
  BY HeadIs
<1>2. Step(t) \notin RowSteps /\ Step(t) \notin BitSteps /\ Step(t) \notin PaySteps /\ (what # "hook" => Step(t).quest \in Quests)
  BY <1>1, StepFields
<1>3. Step(t) \in OtherSteps
  BY <1>1, <1>2 DEF Steps
<1>4. Light(program[t])
  BY <1>1, <1>3, CalmTail
<1> QED BY <1>1, <1>2, <1>3, <1>4

\* The rest of the program follows.
LEMMA DoneIs ==
    ASSUME Inv, NEW t \in Tasks, Done(t)
    PROVE  Replaced(t, Tail(program[t]))
  BY DEF Inv, TypeOK, Done, Replaced

LEMMA HookEndsInv ==
    ASSUME Inv, NEW t \in Tasks, HookEnds(t)
    PROVE  Inv'
<1>1. PICK r : r = Tail(program[t])
  OBVIOUS
<1>2. /\ Light(program[t]) /\ Light(r) /\ Items(program[t]) = {Step(t)} \cup Items(r) /\ Step(t).do = "hook"
  BY <1>1, OtherHead DEF HookEnds
<1>3. Replaced(t, r) /\ UNCHANGED <<memory, tables, client, history>>
  BY <1>1, DoneIs DEF HookEnds
<1> QED BY <1>2, <1>3, HarmlessStep DEF MarkWork

LEMMA ActiveInv ==
    ASSUME Inv, NEW t \in Tasks, Active(t)
    PROVE  Inv'
<1>0. TypeOK
  BY DEF Inv
<1>1. PICK u, q : u = Tail(program[t]) /\ q = Step(t).quest
  OBVIOUS
<1>2. /\ Light(program[t]) /\ Light(u) /\ Items(program[t]) = {Step(t)} \cup Items(u) /\ Step(t).do = "active" /\ q \in Quests
  BY <1>1, OtherHead DEF Active
<1>3. PICK a : a = [do |-> "show", quest |-> q, set |-> cur[q]]
  OBVIOUS
<1>4. a \in OtherSteps /\ a.do # "swap"
  <2>1. cur[q] \in SUBSET Enpcs
    BY <1>0, <1>2, QuestOrLeve DEF TypeOK
  <2> QED BY <1>2, <1>3, <2>1, StepTypes
<1>5. PICK r : r = <<a>> \o u
  OBVIOUS
<1>6. Light(r) /\ Items(r) = {a} \cup Items(u)
  BY <1>2, <1>4, <1>5, LightCons
<1>7. Replaced(t, r) /\ UNCHANGED <<memory, tables, client, history>>
  BY <1>0, <1>1, <1>3, <1>5 DEF Active, Replaced, TypeOK
<1> QED BY <1>2, <1>6, <1>7, HarmlessStep DEF MarkWork

LEMMA SwapInv ==
    ASSUME Inv, NEW t \in Tasks, Swap(t)
    PROVE  Inv'
<1>0. TypeOK
  BY DEF Inv
<1>1. PICK p, x, u, q : p = program[t] /\ x = Step(t) /\ u = Tail(p) /\ q = x.quest
  OBVIOUS
<1>2. /\ Light(p) /\ Light(u) /\ Items(p) = {x} \cup Items(u) /\ x.do = "swap" /\ q \in Quests
  BY <1>1, OtherHead DEF Swap
<1>3. Replaced(t, u) /\ Unmoved /\ shown' = shown
  BY <1>1, DoneIs DEF Swap, Unmoved, tables, client, history
<1>4. CASE ~Has(q)
  <2>1. UNCHANGED <<memory, tables, client, history>>
    BY <1>1, <1>4 DEF Swap, memory, client, history
  <2> QED BY <1>1, <1>2, <1>3, <2>1, HarmlessStep DEF MarkWork
<1>5. CASE Has(q)
  <2>1. /\ old' = [old EXCEPT ![q] = cur[q]] /\ cur' = [cur EXCEPT ![q] = {}]
        /\ left' = [left EXCEPT ![q] = @ \cup old[q]] /\ spoiled' = spoiled
    BY <1>1, <1>5 DEF Swap, history
  <2>2. Advanced(t, u)
    BY <1>1, <1>2, <1>3, <2>1, Advance
  <2>3. q \in Entries /\ q \in Held
    BY <1>2, <1>5, QuestOrLeve DEF Held
  <2>4. /\ old'[q] = cur[q] /\ cur'[q] = {} /\ left'[q] = left[q] \cup old[q]
        /\ \A d \in Entries \ {q} : old'[d] = old[d] /\ cur'[d] = cur[d] /\ left'[d] = left[d]
        /\ old' \in [Entries -> SUBSET Enpcs] /\ cur' \in [Entries -> SUBSET Enpcs] /\ shown' \in [Entries -> SUBSET Enpcs]
        /\ left' \in [Entries -> SUBSET Enpcs]
    BY <1>0, <1>3, <2>1, <2>3 DEF TypeOK
  <2>5. \A l \in Leves : old'[l] = {} /\ cur'[l] = {}
    BY <1>2, <2>4, QuestOrLeve DEF Inv, MarkInv
  <2>6. Do("drain", q) \in Items(u)
    <3>1. p # <<>> /\ p \in Seq(Steps) /\ x = Head(p) /\ Drained(p)
      BY <1>1, <1>2 DEF Swap, Next_, Step, Light
    <3>2. 1 \in DOMAIN p /\ p[1] = x /\ u \in Seq(Steps) /\ \A j \in DOMAIN p : j > 1 => j - 1 \in DOMAIN u /\ u[j - 1] = p[j]
      BY <1>1, <3>1
    <3>3. PICK j \in DOMAIN p : j > 1 /\ p[j] = Do("drain", q)
      BY <1>1, <1>2, <3>1, <3>2 DEF Drained
    <3> QED BY <3>2, <3>3 DEF Items
  <2>7. ASSUME "markers" \notin spoiled' PROVE MarkGood(Held, old', cur', left', shown', Todo')
    <3>1. \A d \in Entries : MarksOf(d, Held, old, cur, left, shown, Todo)
      BY <2>1, <2>7 DEF Inv, MarkInv, MarkGood
    <3>2. \A y \in Todo : y.do \in MarkWork => y \in Todo'
      BY <1>1, <1>2, <2>2 DEF Advanced, MarkWork
    <3>3. Do("drain", q) \in Todo'
      BY <2>2, <2>6 DEF Advanced
    <3>4. \A d : Do("drain", d).do = "drain"
      BY DEF Do
    <3>5. PICK o2, c2, l2, z2 : o2 = old' /\ c2 = cur' /\ l2 = left' /\ z2 = Todo'
      OBVIOUS
    <3>6. KeepsCasts(Todo, z2) /\ \A d : Do("drain", d) \in Todo => Do("drain", d) \in z2
      BY <3>2, <3>4, <3>5 DEF KeepsCasts, MarkWork
    <3>7. ASSUME NEW d \in Entries PROVE MarksOf(d, Held, o2, c2, l2, shown, z2)
      <4>1. CASE d # q
        BY <2>4, <3>1, <3>5, <3>6, <4>1, MarksSame
      <4>2. CASE d = q
        <5>1. Named(q, o2, c2, l2) = Named(q, old, cur, left)
          BY <2>4, <3>5 DEF Named
        <5> QED BY <2>3, <3>1, <3>3, <3>5, <3>6, <4>2, <5>1, MarksShift
      <4> QED BY <4>1, <4>2
    <3> QED BY <1>3, <3>5, <3>7 DEF MarkGood
  <2> QED BY <1>3, <2>1, <2>2, <2>4, <2>5, <2>7, MarkStep
<1> QED BY <1>4, <1>5

LEMMA DrainInv ==
    ASSUME Inv, NEW t \in Tasks, Drain(t)
    PROVE  Inv'
<1>0. TypeOK
  BY DEF Inv
<1>1. PICK p, x, u, q : p = program[t] /\ x = Step(t) /\ u = Tail(p) /\ q = x.quest
  OBVIOUS
<1>2. /\ Light(p) /\ Light(u) /\ Items(p) = {x} \cup Items(u) /\ x.do = "drain" /\ q \in Quests /\ x \in OtherSteps
  BY <1>1, OtherHead DEF Drain
<1>3. q \in Entries /\ x = Do("drain", q)
  BY <1>1, <1>2, QuestOrLeve, StepFields, KindsApart
<1>4. PICK w, a : w = (IF Has(q) THEN old[q] ELSE {}) /\ a = [do |-> "clear", quest |-> q, set |-> w]
  OBVIOUS
<1>5. a \in OtherSteps /\ a.do = "clear" /\ a.quest = q /\ a.set = w
  <2>1. w \in SUBSET Enpcs
    BY <1>0, <1>3, <1>4 DEF TypeOK
  <2> QED BY <1>2, <1>4, <2>1, StepTypes
<1>6. PICK r : r = <<a>> \o u
  OBVIOUS
<1>7. Light(r) /\ Items(r) = {a} \cup Items(u)
  BY <1>2, <1>5, <1>6, LightCons
<1>8. Replaced(t, r)
  BY <1>0, <1>1, <1>4, <1>6 DEF Drain, Replaced, TypeOK
<1>9. Unmoved /\ shown' = shown /\ left' = left /\ cur' = cur /\ spoiled' = spoiled /\ old' = IF Has(q) THEN [old EXCEPT ![q] = {}] ELSE old
  BY <1>1 DEF Drain, Unmoved, tables, client, history
<1>10. Advanced(t, r)
  BY <1>1, <1>2, <1>7, <1>8, <1>9, Advance
<1>11. /\ old' \in [Entries -> SUBSET Enpcs] /\ (Has(q) => old'[q] = {}) /\ (~Has(q) => old' = old)
       /\ \A d \in Entries \ {q} : old'[d] = old[d]
  BY <1>0, <1>3, <1>9 DEF TypeOK
<1>12. \A l \in Leves : old'[l] = {} /\ cur'[l] = {}
  BY <1>2, <1>9, <1>11, QuestOrLeve DEF Inv, MarkInv
<1>13. ASSUME "markers" \notin spoiled' PROVE MarkGood(Held, old', cur', left', shown', Todo')
  <2>1. \A d \in Entries : MarksOf(d, Held, old, cur, left, shown, Todo)
    BY <1>9, <1>13 DEF Inv, MarkInv, MarkGood
  <2>2. \A y \in Todo : y # x => y \in Todo'
    BY <1>1, <1>2, <1>7, <1>10 DEF Advanced
  <2>3. PICK o2, z2 : o2 = old' /\ z2 = Todo'
    OBVIOUS
  <2>4. a \in z2 /\ KeepsCasts(Todo, z2)
    BY <1>2, <1>7, <1>10, <2>2, <2>3 DEF Advanced, KeepsCasts
  <2>5. \A d \in Entries \ {q} : Do("drain", d) \in Todo => Do("drain", d) \in z2
    BY <1>1, <2>2, <2>3 DEF Do
  <2>6. Has(q) <=> q \in Held
    BY <1>3 DEF Held
  <2>7. old[q] # {} => Has(q)
    BY <1>3, <2>1, <2>6 DEF MarksOf
  <2>8. ASSUME NEW d \in Entries PROVE MarksOf(d, Held, o2, cur, left, shown, z2)
    <3>1. CASE d # q
      BY <1>11, <2>1, <2>3, <2>4, <2>5, <3>1, MarksSame
    <3>2. CASE d = q
      <4>1. o2[q] = {}
        BY <1>11, <2>3, <2>7
      <4>2. \A e \in old[q] : Clearing(q, e, z2)
        BY <1>4, <1>5, <2>4, <2>7 DEF Clearing
      <4>3. \A e \in Named(q, old, cur, left) : e \in Named(q, o2, cur, left) \/ Clearing(q, e, z2)
        BY <4>2 DEF Named
      <4>4. \A e \in Named(q, o2, cur, left) : e \in Named(q, old, cur, left)
        BY <4>1 DEF Named
      <4>5. q \notin Held => o2[q] = {} /\ cur[q] = {}
        BY <1>3, <2>1, <4>1 DEF MarksOf
      <4> QED BY <2>1, <2>4, <3>2, <4>1, <4>3, <4>4, <4>5, MarksShift
    <3> QED BY <3>1, <3>2
  <2> QED BY <1>9, <2>3, <2>8 DEF MarkGood
<1> QED BY <1>0, <1>9, <1>10, <1>11, <1>12, <1>13, MarkStep DEF TypeOK

LEMMA ClearInv ==
    ASSUME Inv, NEW t \in Tasks, Clear(t)
    PROVE  Inv'
<1>0. TypeOK
  BY DEF Inv
<1>1. PICK p, x, u, q : p = program[t] /\ x = Step(t) /\ u = Tail(p) /\ q = x.quest
  OBVIOUS
<1>2. /\ Light(p) /\ Light(u) /\ Items(p) = {x} \cup Items(u) /\ x.do = "clear" /\ q \in Quests
  BY <1>1, OtherHead DEF Clear
<1>3. q \in Entries
  BY <1>2, QuestOrLeve
<1>4. Replaced(t, u) /\ Unmoved /\ old' = old /\ cur' = cur
  BY <1>1, DoneIs DEF Clear, Unmoved, memory, tables, client
<1>5. /\ shown' = [shown EXCEPT ![q] = @ \ x.set] /\ left' = [left EXCEPT ![q] = @ \ x.set]
      /\ spoiled' = IF x.set \cap (old[q] \cup cur[q]) # {} THEN spoiled \cup {"markers"} ELSE spoiled
  BY <1>1 DEF Clear
<1>6. Advanced(t, u)
  BY <1>1, <1>2, <1>4, <1>5, Advance
<1>7. /\ shown' \in [Entries -> SUBSET Enpcs] /\ shown'[q] = shown[q] \ x.set
      /\ left' \in [Entries -> SUBSET Enpcs] /\ left'[q] = left[q] \ x.set
      /\ \A d \in Entries \ {q} : shown'[d] = shown[d] /\ left'[d] = left[d]
  BY <1>0, <1>3, <1>5 DEF TypeOK
<1>8. ASSUME "markers" \notin spoiled' PROVE MarkGood(Held, old', cur', left', shown', Todo')
  <2>1. x.set \cap (old[q] \cup cur[q]) = {} /\ \A d \in Entries : MarksOf(d, Held, old, cur, left, shown, Todo)
    BY <1>5, <1>8 DEF Inv, MarkInv, MarkGood
  <2>2. PICK l2, s2, z2 : l2 = left' /\ s2 = shown' /\ z2 = Todo'
    OBVIOUS
  <2>3. \A y \in Todo : y # x => y \in z2
    BY <1>1, <1>2, <1>6, <2>2 DEF Advanced
  <2>4. /\ \A d, e : Showing(d, e, Todo) => Showing(d, e, z2)
        /\ \A d, e : Clearing(d, e, Todo) => Clearing(d, e, z2) \/ (d = q /\ e \in x.set)
        /\ \A d : Do("drain", d) \in Todo => Do("drain", d) \in z2
    BY <1>1, <1>2, <2>3 DEF Showing, Clearing, Do
  <2>5. ASSUME NEW d \in Entries PROVE MarksOf(d, Held, old, cur, l2, s2, z2)
    <3>0. /\ \A e \in Named(d, old, cur, left) : e \in shown[d] \/ Showing(d, e, Todo)
          /\ \A e \in shown[d] : e \in Named(d, old, cur, left) \/ Clearing(d, e, Todo)
          /\ d \notin Held => old[d] = {} /\ cur[d] = {}
          /\ old[d] # {} => Do("drain", d) \in Todo
      BY <2>1 DEF MarksOf
    <3>1. CASE d # q
      <4>1. s2[d] = shown[d] /\ Named(d, old, cur, l2) = Named(d, old, cur, left)
        BY <1>7, <2>2, <3>1 DEF Named
      <4> QED BY <2>4, <3>0, <3>1, <4>1 DEF MarksOf
    <3>2. CASE d = q
      <4>1. s2[d] = shown[d] \ x.set /\ \A e : e \in Named(d, old, cur, l2) <=> e \in Named(d, old, cur, left) /\ e \notin x.set
        BY <1>7, <2>1, <2>2, <3>2 DEF Named
      <4> QED BY <2>4, <3>0, <4>1 DEF MarksOf
    <3> QED BY <3>1, <3>2
  <2> QED BY <1>4, <2>2, <2>5 DEF MarkGood
<1>9. spoiled' = spoiled \/ spoiled' = spoiled \cup {"markers"}
  BY <1>5
<1>10. \A l \in Leves : old'[l] = {} /\ cur'[l] = {}
  BY <1>4 DEF Inv, MarkInv
<1> QED BY <1>0, <1>4, <1>6, <1>7, <1>8, <1>9, <1>10, MarkStep DEF TypeOK

LEMMA ShowInv ==
    ASSUME Inv, NEW t \in Tasks, Show(t)
    PROVE  Inv'
<1>0. TypeOK
  BY DEF Inv
<1>1. PICK p, x, u, q : p = program[t] /\ x = Step(t) /\ u = Tail(p) /\ q = x.quest
  OBVIOUS
<1>2. /\ Light(p) /\ Light(u) /\ Items(p) = {x} \cup Items(u) /\ x.do = "show" /\ q \in Quests /\ x \in OtherSteps
  BY <1>1, OtherHead DEF Show
<1>3. q \in Entries /\ x.set \subseteq Enpcs
  BY <1>2, QuestOrLeve, StepFields, KindsApart
<1>4. Replaced(t, u) /\ Unmoved /\ old' = old /\ cur' = cur /\ left' = left
  BY <1>1, DoneIs DEF Show, Unmoved, memory, tables
<1>5. /\ shown' = [shown EXCEPT ![q] = @ \cup x.set]
      /\ spoiled' = IF x.set \subseteq Named(q, old, cur, left) THEN spoiled ELSE spoiled \cup {"markers"}
  BY <1>1 DEF Show, MarkersOf, Named
<1>6. Advanced(t, u)
  BY <1>1, <1>2, <1>4, <1>5, Advance
<1>7. shown' \in [Entries -> SUBSET Enpcs] /\ shown'[q] = shown[q] \cup x.set /\ \A d \in Entries \ {q} : shown'[d] = shown[d]
  BY <1>0, <1>3, <1>5 DEF TypeOK
<1>8. ASSUME "markers" \notin spoiled' PROVE MarkGood(Held, old', cur', left', shown', Todo')
  <2>1. x.set \subseteq Named(q, old, cur, left) /\ \A d \in Entries : MarksOf(d, Held, old, cur, left, shown, Todo)
    BY <1>5, <1>8 DEF Inv, MarkInv, MarkGood
  <2>2. PICK s2, z2 : s2 = shown' /\ z2 = Todo'
    OBVIOUS
  <2>3. \A y \in Todo : y # x => y \in z2
    BY <1>1, <1>2, <1>6, <2>2 DEF Advanced
  <2>4. /\ \A d, e : Showing(d, e, Todo) => Showing(d, e, z2) \/ (d = q /\ e \in x.set)
        /\ \A d, e : Clearing(d, e, Todo) => Clearing(d, e, z2)
        /\ \A d : Do("drain", d) \in Todo => Do("drain", d) \in z2
    BY <1>1, <1>2, <2>3 DEF Showing, Clearing, Do
  <2>5. ASSUME NEW d \in Entries PROVE MarksOf(d, Held, old, cur, left, s2, z2)
    <3>0. /\ \A e \in Named(d, old, cur, left) : e \in shown[d] \/ Showing(d, e, Todo)
          /\ \A e \in shown[d] : e \in Named(d, old, cur, left) \/ Clearing(d, e, Todo)
          /\ d \notin Held => old[d] = {} /\ cur[d] = {}
          /\ old[d] # {} => Do("drain", d) \in Todo
      BY <2>1 DEF MarksOf
    <3>1. CASE d # q
      <4>1. s2[d] = shown[d]
        BY <1>7, <2>2, <3>1
      <4> QED BY <2>4, <3>0, <3>1, <4>1 DEF MarksOf
    <3>2. CASE d = q
      <4>1. s2[d] = shown[d] \cup x.set
        BY <1>7, <2>2, <3>2
      <4> QED BY <2>1, <2>4, <3>0, <3>2, <4>1 DEF MarksOf
    <3> QED BY <3>1, <3>2
  <2> QED BY <1>4, <2>2, <2>5 DEF MarkGood
<1>9. spoiled' = spoiled \/ spoiled' = spoiled \cup {"markers"}
  BY <1>5
<1>10. \A l \in Leves : old'[l] = {} /\ cur'[l] = {}
  BY <1>4 DEF Inv, MarkInv
<1> QED BY <1>0, <1>4, <1>6, <1>7, <1>8, <1>9, <1>10, MarkStep DEF TypeOK

\* A quest has left the journal for good: what marked it is about to be cleared, or is left.
LEMMA OutMarks ==
    ASSUME Inv, NEW q \in Quests, old' = [old EXCEPT ![q] = {}], cur' = [cur EXCEPT ![q] = {}], shown' = shown,
           \A d \in Entries \ {q} : left'[d] = left[d],
           left[q] \subseteq left'[q], left'[q] \subseteq Named(q, old, cur, left),
           spoiled \subseteq spoiled', Held \subseteq Held' \cup {q}, \A x \in Todo : x.do \in MarkWork => x \in Todo',
           \A e \in old[q] \cup cur[q] : "markers" \notin spoiled' => e \in left'[q] \/ Clearing(q, e, Todo')
    PROVE  MarkInv' /\ old' \in [Entries -> SUBSET Enpcs] /\ cur' \in [Entries -> SUBSET Enpcs]
<1>1. q \in Entries /\ (\A l \in Leves : l # q /\ l \in Entries) /\ TypeOK
  BY QuestOrLeve DEF Inv
<1>2. /\ old' \in [Entries -> SUBSET Enpcs] /\ cur' \in [Entries -> SUBSET Enpcs] /\ old'[q] = {} /\ cur'[q] = {}
      /\ \A d \in Entries \ {q} : old'[d] = old[d] /\ cur'[d] = cur[d]
  BY <1>1 DEF TypeOK
<1>3. \A l \in Leves : old'[l] = {} /\ cur'[l] = {}
  BY <1>1, <1>2 DEF Inv, MarkInv
<1>4. ASSUME "markers" \notin spoiled' PROVE MarkGood(Held', old', cur', left', shown', Todo')
  <2>1. \A d \in Entries : MarksOf(d, Held, old, cur, left, shown, Todo)
    BY <1>4 DEF Inv, MarkInv, MarkGood
  <2>2. \A d \in Entries : Do("drain", d).do = "drain"
    BY DEF Do
  <2>3. PICK h2, o2, c2, l2, z2 : h2 = Held' /\ o2 = old' /\ c2 = cur' /\ l2 = left' /\ z2 = Todo'
    OBVIOUS
  <2>4. KeepsCasts(Todo, z2) /\ \A d \in Entries : Do("drain", d) \in Todo => Do("drain", d) \in z2
    BY <2>2, <2>3 DEF KeepsCasts, MarkWork
  <2>5. ASSUME NEW d \in Entries PROVE MarksOf(d, h2, o2, c2, l2, shown, z2)
    <3>1. CASE d # q
      <4>1. o2[d] = old[d] /\ c2[d] = cur[d] /\ l2[d] = left[d] /\ d \notin Held \ h2
        BY <1>2, <2>3, <3>1
      <4> QED BY <2>1, <2>4, <4>1, MarksSame
    <3>2. CASE d = q
      <4>1. o2[q] = {} /\ c2[q] = {}
        BY <1>2, <2>3
      <4>2. \A e \in Named(q, o2, c2, l2) : e \in Named(q, old, cur, left)
        BY <2>3, <4>1 DEF Named
      <4>3. \A e \in Named(q, old, cur, left) : e \in Named(q, o2, c2, l2) \/ Clearing(q, e, z2)
        BY <1>4, <2>3, <4>1 DEF Named
      <4> QED BY <2>1, <2>4, <3>2, <4>1, <4>2, <4>3, MarksShift
    <3> QED BY <3>1, <3>2
  <2> QED BY <2>3, <2>5 DEF MarkGood
<1> QED BY <1>2, <1>3, <1>4 DEF MarkInv

LEMMA FinishCompleteInv ==
    ASSUME Inv, NEW t \in Tasks, FinishComplete(t)
    PROVE  Inv'
<1>0. TypeOK /\ ShapeInv
  BY DEF Inv
<1>1. PICK p, x, u, q, s : p = program[t] /\ x = Step(t) /\ u = Tail(p) /\ q = x.quest /\ s = slot_of(q)
  OBVIOUS
<1>2. /\ Light(p) /\ Light(u) /\ u \in Seq(Steps) /\ Items(p) = {x} \cup Items(u) /\ x.do = "finish" /\ q \in Quests
  BY <1>1, OtherHead DEF FinishComplete, Light
<1>3. q \in Entries /\ q \notin Leves
  BY <1>2, QuestOrLeve
<1>4. PICK w, k : w = (IF Has(q) THEN MarkersOf(q) ELSE {}) /\ k = [do |-> "clear", quest |-> q, set |-> w]
  OBVIOUS
<1>5. k \in OtherSteps /\ k \in Steps /\ k.do = "clear" /\ k.quest = q /\ k.set = w
  <2>1. w \in SUBSET Enpcs
    BY <1>0, <1>3, <1>4 DEF TypeOK, MarkersOf
  <2> QED BY <1>2, <1>4, <2>1, StepTypes, KindsApart
<1>6. PICK v : v = <<k>> \o u
  OBVIOUS
<1>7. Light(v) /\ Items(v) = {k} \cup Items(u)
  BY <1>2, <1>5, <1>6, LightCons
<1>8. PICK a : a = LoadBits(q, TRUE)
  OBVIOUS
<1>9. a \in BitSteps /\ a \in Steps /\ a \notin PaySteps /\ a.do = "loadBits"
  BY <1>2, <1>8, StepTypes, KindsApart DEF LoadBits
<1>10. <<a, k>> \o u = <<a>> \o v /\ v \in Seq(Steps)
  <2>1. Begin2(a, k, u) = Begin1(a, Begin1(k, u))
    BY <1>2, <1>5, <1>9, ConsMany
  <2> QED BY <1>6, <1>7, <2>1 DEF Begin1, Begin2, Light
<1>11. PICK h : h = <<a, k>>
  OBVIOUS
<1>12. h \in Seq(Steps)
  BY <1>5, <1>9, <1>11
<1>13. /\ UNCHANGED <<rows, dbBits, shown, left, credit, overpaid>>
       /\ bits' = bits \cup {q} /\ old' = [old EXCEPT ![q] = {}] /\ cur' = [cur EXCEPT ![q] = {}]
       /\ journal' = (IF Has(q) THEN [journal EXCEPT ![s] = NoQuest] ELSE journal)
       /\ spoiled' = (IF Has(q) THEN Overlap(t, s, q) ELSE spoiled)
  BY <1>1 DEF FinishComplete, tables, client
<1>14. program' = [program EXCEPT ![t] = (IF Has(q) THEN <<RemoveRow(q)>> ELSE <<>>) \o h \o u]
  BY <1>0, <1>1, <1>4, <1>8, <1>11 DEF FinishComplete, TypeOK
<1>15. PICK r, f : /\ Changes(t, r, f, a, Hook) /\ RowsInv' /\ journal' \in [Slots -> Cells] /\ Held \subseteq Held' \cup {q}
                   /\ k \in Items(r) /\ Items(u) \subseteq Items(r)
  <2>1. CASE Has(q)
    <3>1. PICK y, r : y = RemoveRow(q) /\ r = <<y>> \o (<<a>> \o v)
      OBVIOUS
    <3>2. y \in Steps
      BY <1>3, <3>1, StepTypes, KindsApart
    <3>3. Does(r, y, a, Hook) /\ Items(r) = {y, a} \cup Items(v)
      <4>1. LET g == <<RemoveRow(q)>> \o (<<a>> \o v) IN
            /\ Does(g, RemoveRow(q), IF a \in BitSteps THEN a ELSE Hook, IF a \in PaySteps THEN a ELSE Hook)
            /\ Items(g) = {RemoveRow(q), a} \cup Items(v)
        BY <1>3, <1>7, <1>9, TwoSteps
      <4> QED BY <1>9, <3>1, <4>1
    <3>4. Replaced(t, r)
      <4>1. PICK g : g = <<y>>
        OBVIOUS
      <4>2. g \in Seq(Steps)
        BY <3>2, <4>1
      <4>3. (g \o h) \o u = g \o (h \o u)
        BY <1>2, <1>12, <4>2, ConcatAssociative
      <4>4. h \o u = <<a>> \o v
        BY <1>10, <1>11
      <4>5. program' = [program EXCEPT ![t] = (g \o h) \o u]
        BY <1>14, <2>1, <3>1, <4>1
      <4> QED BY <3>1, <4>1, <4>3, <4>4, <4>5 DEF Replaced
    <3>5. s \in Slots /\ journal[s].quest = q
      BY <1>0, <1>1, <2>1, SlotFacts
    <3>6. PICK b, n : b = a /\ n = Hook
      OBVIOUS
    <3>7. OutAt(t, r, s, q, b, n)
      BY <1>13, <2>1, <3>1, <3>3, <3>4, <3>5, <3>6 DEF OutAt
    <3>8. Light(program[t])
      BY <1>1, <1>2
    <3>9. /\ Changes(t, r, RemoveRow(q), b, n) /\ RowsInv' /\ journal' \in [Slots -> Cells]
          /\ Held' \subseteq Held /\ Held \subseteq Held' \cup {q}
      BY <1>3, <3>5, <3>7, <3>8, OutStep
    <3> QED BY <1>7, <3>3, <3>6, <3>9
  <2>2. CASE ~Has(q)
    <3>1. PICK r : r = <<a>> \o v
      OBVIOUS
    <3>2. Does(r, Hook, a, Hook) /\ Items(r) = {a} \cup Items(v)
      BY <1>7, <1>9, <3>1, LoadCons
    <3>3. Replaced(t, r)
      <4>1. <<>> \o h = h
        BY <1>12, ConcatEmptySeq
      <4>2. h \o u = r
        BY <1>10, <1>11, <3>1
      <4> QED BY <1>14, <2>2, <4>1, <4>2 DEF Replaced
    <3>4. Changes(t, r, Hook, a, Hook)
      BY <1>0, <3>2, <3>3, Moved
    <3>5. RowOf(p) = Hook /\ PayOf(p) = Hook
      BY <1>2, CalmWork
    <3>6. RowWork' = RowWork /\ PayWork' = PayWork
      BY <1>1, <3>4, <3>5 DEF Changes, RowWork, PayWork
    <3>7. RowsInv'
      BY <1>13, <2>2, <3>6 DEF Inv, RowsInv
    <3>8. Held' = Held /\ journal' \in [Slots -> Cells]
      BY <1>0, <1>13, <2>2 DEF Held, Has, SlotsOf, TypeOK
    <3> QED BY <1>7, <3>2, <3>4, <3>7, <3>8
  <2> QED BY <2>1, <2>2
<1>16. spoiled \subseteq spoiled' /\ spoiled' \subseteq {"rows", "bits", "markers"} /\ ("bits" \in spoiled' <=> "bits" \in spoiled)
  BY <1>0, <1>13, OverlapIs DEF TypeOK
<1>17. BitsInv'
  <2>1. BitOf(p) = Hook
    BY <1>2, CalmWork
  <2>2. BitWork[t] = Hook /\ BitWork' = [BitWork EXCEPT ![t] = LoadBits(q, TRUE)]
    BY <1>1, <1>8, <1>15, <2>1 DEF Changes
  <2>3. bits' = IF TRUE THEN bits \cup {q} ELSE bits \ {q}
    BY <1>13
  <2> QED BY <1>2, <1>13, <1>16, <2>2, <2>3, BitChanged
<1>18. MarkInv' /\ old' \in [Entries -> SUBSET Enpcs] /\ cur' \in [Entries -> SUBSET Enpcs]
  <2>1. k \in Todo' /\ \A y \in Todo : y.do \in MarkWork => y \in Todo'
    BY <1>1, <1>2, <1>15 DEF Changes, MarkWork
  <2>2. ASSUME "markers" \notin spoiled', NEW e \in old[q] \cup cur[q]
        PROVE  Clearing(q, e, Todo')
    <3>1. Has(q)
      <4>1. q \notin Held => old[q] = {} /\ cur[q] = {}
        BY <1>3, <1>16, <2>2 DEF Inv, MarkInv, MarkGood, MarksOf
      <4> QED BY <2>2, <4>1 DEF Held
    <3> QED BY <1>4, <1>5, <2>1, <2>2, <3>1 DEF MarkersOf, Clearing
  <2>3. left' = left /\ left[q] \subseteq Named(q, old, cur, left)
    BY <1>13 DEF Named
  <2> QED BY <1>2, <1>13, <1>15, <1>16, <2>1, <2>2, <2>3, OutMarks
<1>19. TypeOK'
  BY <1>0, <1>2, <1>13, <1>15, <1>16, <1>18 DEF TypeOK, Changes
<1> QED BY <1>15, <1>17, <1>18, <1>19 DEF Inv, Changes

LEMMA DropQuestInv ==
    ASSUME Inv, NEW t \in Tasks, DropQuest(t)
    PROVE  Inv'
<1>0. TypeOK /\ ShapeInv
  BY DEF Inv
<1>1. PICK p, x, u, q, s : p = program[t] /\ x = Step(t) /\ u = Tail(p) /\ q = x.quest /\ s = slot_of(q)
  OBVIOUS
<1>2. /\ Light(p) /\ Light(u) /\ Items(p) = {x} \cup Items(u) /\ x.do = "drop" /\ q \in Quests
  BY <1>1, OtherHead DEF DropQuest
<1>3. q \in Entries /\ q \notin Leves
  BY <1>2, QuestOrLeve
<1>4. CASE ~Has(q)
  <2>1. UNCHANGED <<memory, tables, client, history>> /\ Done(t)
    BY <1>1, <1>4 DEF DropQuest, memory, client, history
  <2>2. Replaced(t, u)
    BY <1>1, <2>1, DoneIs
  <2> QED BY <1>1, <1>2, <2>1, <2>2, HarmlessStep DEF MarkWork
<1>5. CASE Has(q)
  <2>1. /\ UNCHANGED <<bits, rows, dbBits, shown, credit, overpaid>>
        /\ journal' = [journal EXCEPT ![s] = NoQuest] /\ old' = [old EXCEPT ![q] = {}] /\ cur' = [cur EXCEPT ![q] = {}]
        /\ spoiled' = Overlap(t, s, q) /\ left' = [left EXCEPT ![q] = @ \cup MarkersOf(q)]
    BY <1>1, <1>5 DEF DropQuest, tables, client
  <2>2. PICK a, r : a = RemoveRow(q) /\ r = <<a>> \o u
    OBVIOUS
  <2>3. a \in RowSteps /\ a.quest = q
    BY <1>3, <2>2, StepTypes DEF RemoveRow
  <2>4. Does(r, a, Hook, Hook) /\ Items(r) = {a} \cup Items(u)
    BY <1>2, <1>3, <2>2, <2>3, WriteCons
  <2>5. Replaced(t, r)
    BY <1>0, <1>1, <1>5, <2>2 DEF DropQuest, Replaced, TypeOK
  <2>6. s \in Slots /\ journal[s].quest = q
    BY <1>0, <1>1, <1>5, SlotFacts
  <2>7. PICK n : n = Hook
    OBVIOUS
  <2>8. OutAt(t, r, s, q, n, n)
    BY <2>1, <2>2, <2>4, <2>5, <2>6, <2>7 DEF OutAt
  <2>9. Light(program[t])
    BY <1>1, <1>2
  <2>10. /\ Changes(t, r, RemoveRow(q), n, n) /\ RowsInv' /\ journal' \in [Slots -> Cells]
         /\ Held' \subseteq Held /\ Held \subseteq Held' \cup {q}
    BY <1>3, <2>6, <2>8, <2>9, OutStep
  <2>11. spoiled \subseteq spoiled' /\ spoiled' \subseteq {"rows", "bits", "markers"} /\ ("bits" \in spoiled' <=> "bits" \in spoiled)
    BY <1>0, <2>1, OverlapIs DEF TypeOK
  <2>12. BitsInv'
    <3>1. BitOf(p) = Hook
      BY <1>2, CalmWork
    <3>2. BitWork' = BitWork
      BY <1>1, <2>7, <2>10, <3>1 DEF Changes, BitWork
    <3> QED BY <2>1, <2>11, <3>2 DEF Inv, BitsInv
  <2>13. MarkInv' /\ old' \in [Entries -> SUBSET Enpcs] /\ cur' \in [Entries -> SUBSET Enpcs]
    <3>1. \A y \in Todo : y.do \in MarkWork => y \in Todo'
      BY <1>1, <1>2, <2>4, <2>10 DEF Changes, MarkWork, RemoveRow
    <3>2. left'[q] = Named(q, old, cur, left) /\ \A d \in Entries \ {q} : left'[d] = left[d]
      BY <1>0, <1>3, <2>1 DEF TypeOK, MarkersOf, Named
    <3>3. left[q] \subseteq left'[q] /\ old[q] \cup cur[q] \subseteq left'[q]
      BY <3>2 DEF Named
    <3> QED BY <1>2, <2>1, <2>10, <2>11, <3>1, <3>2, <3>3, OutMarks
  <2>14. TypeOK'
    <3>1. left' \in [Entries -> SUBSET Enpcs]
      BY <1>0, <1>3, <2>1 DEF TypeOK, MarkersOf
    <3> QED BY <1>0, <2>1, <2>10, <2>11, <2>13, <3>1 DEF TypeOK, Changes
  <2> QED BY <2>10, <2>12, <2>13, <2>14 DEF Inv, Changes
<1> QED BY <1>4, <1>5

LEMMA RestInv ==
    ASSUME Inv, NEW t \in Tasks, Rest(t)
    PROVE  Inv'
<1>1. CASE SaveQuest(t) \/ SaveQuestNpcLs(t) \/ RemoveQuest(t)
  BY <1>1, SaveQuestInv, SaveQuestNpcLsInv, RemoveQuestInv
<1>2. CASE LoadCompleted(t) \/ SaveCompleted(t) \/ DbFails(t) \/ Pay(t)
  BY <1>2, LoadCompletedInv, SaveCompletedInv, DbFailsInv, PayInv
<1>3. CASE HookEnds(t) \/ Swap(t) \/ Drain(t) \/ Clear(t) \/ Active(t) \/ Show(t)
  BY <1>3, HookEndsInv, SwapInv, DrainInv, ClearInv, ActiveInv, ShowInv
<1>4. CASE FinishComplete(t) \/ DropQuest(t)
  BY <1>4, FinishCompleteInv, DropQuestInv
<1> QED BY <1>1, <1>2, <1>3, <1>4 DEF Rest

\* Nothing is under way.
LEMMA IdleWork ==
    ASSUME \A t \in Tasks : program[t] = <<>>
    PROVE  /\ RowWork = [t \in Tasks |-> Hook] /\ BitWork = [t \in Tasks |-> Hook] /\ PayWork = [t \in Tasks |-> Hook]
           /\ ShapeInv /\ Todo = {}
<1>1. \A p : p = <<>> => Items(p) = {} /\ First(p) = Hook /\ Second(p) = Hook /\ Drained(p)
  BY DEF Items, First, Second, Drained
<1>2. \A t \in Tasks : RowOf(program[t]) = Hook /\ BitOf(program[t]) = Hook /\ PayOf(program[t]) = Hook
  BY <1>1 DEF RowOf, BitOf, PayOf
<1>3. ShapeInv
  BY <1>1 DEF ShapeInv, Shape
<1>4. Todo = {}
  BY <1>1 DEF Todo
<1> QED BY <1>2, <1>3, <1>4 DEF RowWork, BitWork, PayWork

\* No markers at all are as they should be.
LEMMA BareMarks == Bare \in [Entries -> SUBSET Enpcs] /\ \A h, z : MarkGood(h, Bare, Bare, Bare, Bare, z)
  BY DEF Bare, MarkGood, MarksOf, Named

\* A leve whose deletion is pending is about to be paid for.
LEMMA DeletedIsPaid ==
    ASSUME TypeOK, ShapeInv, NEW t \in Tasks, NEW l \in Leves, RowWork[t] = RemoveRow(l)
    PROVE  PayWork[t] = Do("pay", l)
<1>1. PICK p : p = program[t]
  OBVIOUS
<1>2. p \in Seq(Steps) /\ Shape(p) /\ RowOf(p) = RemoveRow(l) /\ PayWork[t] = PayOf(p)
  BY <1>1 DEF TypeOK, ShapeInv, RowWork, PayWork
<1>3. RemoveRow(l).do = "remove" /\ RemoveRow(l).quest = l /\ RemoveRow(l) # Hook
  BY DEF RemoveRow, Hook
<1>4. First(p) = RemoveRow(l) /\ First(p) \in RowSteps /\ p # <<>> /\ First(p) = Head(p)
  BY <1>2, <1>3 DEF RowOf, First
<1>5. Second(p) = Do("pay", l)
  BY <1>2, <1>3, <1>4 DEF Shape
<1>6. Do("pay", l) \in PaySteps
  BY StepTypes
<1>7. First(p) \notin PaySteps
  BY <1>4, KindsApart
<1> QED BY <1>2, <1>5, <1>6, <1>7 DEF PayOf

\* The journal is loaded with nothing under way any more.
LEMMA LoadedInv ==
    ASSUME Inv, Loaded, \A t \in Tasks : program'[t] = <<>>, program' \in [Tasks -> Seq(Steps)], spoiled' = spoiled \ {"markers"}
    PROVE  Inv'
<1>0. TypeOK /\ ShapeInv
  BY DEF Inv
<1>1. /\ RowWork' = [t \in Tasks |-> Hook] /\ BitWork' = [t \in Tasks |-> Hook] /\ PayWork' = [t \in Tasks |-> Hook]
      /\ ShapeInv'
  <2>1. \A p : p = <<>> => Items(p) = {} /\ First(p) = Hook /\ Second(p) = Hook /\ Drained(p)
    BY DEF Items, First, Second, Drained
  <2>2. \A t \in Tasks : RowOf(program'[t]) = Hook /\ BitOf(program'[t]) = Hook /\ PayOf(program'[t]) = Hook
    BY <2>1 DEF RowOf, BitOf, PayOf
  <2>3. \A t \in Tasks : Shape(program'[t])
    BY <2>1 DEF Shape
  <2> QED BY <2>2, <2>3 DEF RowWork, BitWork, PayWork, ShapeInv
<1>2. /\ journal' = rows /\ rows' = rows /\ bits' = dbBits /\ dbBits' = dbBits /\ credit' = credit /\ overpaid' = overpaid
      /\ old' = Bare /\ cur' = Bare /\ shown' = Bare /\ left' = Bare
  BY DEF Loaded, tables, client
<1>3. RowsInv'
  <2> SUFFICES ASSUME "rows" \notin spoiled
               PROVE  RowsGood(rows, rows, RowWork') /\ ~overpaid /\ PayGood(credit, rows, rows, RowWork', PayWork')
    BY <1>2 DEF RowsInv
  <2>1. RowsGood(journal, rows, RowWork) /\ ~overpaid /\ PayGood(credit, journal, rows, RowWork, PayWork)
        /\ RowsTyped(journal, rows, RowWork)
    BY <1>0, WorkTypes DEF Inv, RowsInv
  <2>2. RowsGood(rows, rows, RowWork')
    BY <1>1, <2>1, LoadGood
  <2>3. ASSUME NEW l \in Leves, Owed(rows, rows, RowWork', l)
        PROVE  Owed(journal, rows, RowWork, l) \/ Payers(PayWork, l) # {}
    <3>1. Recorded(rows, l)
      BY <2>3 DEF Owed
    <3>2. ASSUME NEW t \in Tasks, RowWork[t] = RemoveRow(l) PROVE Payers(PayWork, l) # {}
      <4>1. PayWork[t] = Do("pay", l)
        BY <1>0, <3>2, DeletedIsPaid
      <4> QED BY <4>1 DEF Payers
    <3> QED BY <3>1, <3>2 DEF Owed
  <2>4. credit \in [Leves -> Nat] /\ \A t \in Tasks : PayWork'[t] = Hook
    BY <1>0, <1>1 DEF TypeOK
  <2>5. PICK w2, y2 : w2 = RowWork' /\ y2 = PayWork'
    OBVIOUS
  <2>6. PayGood(credit, rows, rows, w2, y2)
    <3>1. \A l \in Leves : Owed(rows, rows, w2, l) => Owed(journal, rows, RowWork, l) \/ Payers(PayWork, l) # {}
      BY <2>3, <2>5
    <3>2. \A t \in Tasks : y2[t] = Hook
      BY <2>4, <2>5
    <3> QED BY <2>1, <2>4, <3>1, <3>2, PayLost
  <2> QED BY <2>1, <2>2, <2>5, <2>6
<1>4. BitsInv'
  <2>1. PICK m2 : m2 = BitWork'
    OBVIOUS
  <2>2. dbBits \in SUBSET Quests /\ \A t \in Tasks : m2[t] = Hook
    BY <1>0, <1>1, <2>1 DEF TypeOK
  <2>3. BitsGood(dbBits, dbBits, m2)
    BY <2>2, RestBitsGood
  <2> QED BY <1>2, <2>1, <2>3 DEF BitsInv
<1>5. MarkInv'
  <2>1. \A l \in Leves : Bare[l] = {}
    BY DEF Bare, Entries
  <2>2. PICK h2, z2 : h2 = Held' /\ z2 = Todo'
    OBVIOUS
  <2>3. MarkGood(h2, Bare, Bare, Bare, Bare, z2)
    BY BareMarks
  <2> QED BY <1>2, <2>1, <2>2, <2>3 DEF MarkInv
<1>6. TypeOK'
  BY <1>0, <1>2, BareMarks DEF TypeOK
<1> QED BY <1>1, <1>3, <1>4, <1>5, <1>6 DEF Inv

\* The player logs in again while the other task still works on the old character.
LEMMA ReloginInv ==
    ASSUME Inv, NEW t \in Tasks, Relogin(t)
    PROVE  Inv'
<1>0. TypeOK /\ ShapeInv
  BY DEF Inv
<1>1. /\ program' = program /\ program[t] = <<>>
      /\ journal' = rows /\ rows' = rows /\ bits' = dbBits /\ dbBits' = dbBits /\ credit' = credit /\ overpaid' = overpaid
      /\ old' = Bare /\ cur' = Bare /\ shown' = Bare /\ left' = Bare
      /\ spoiled' = (spoiled \ {"markers"}) \cup LateTables(t) \cup LateMarkers(t)
  BY DEF Relogin, Loaded, tables
<1>2. RowWork' = RowWork /\ BitWork' = BitWork /\ PayWork' = PayWork /\ ShapeInv'
  BY <1>0, <1>1 DEF RowWork, BitWork, PayWork, ShapeInv
<1>3. \A u \in Tasks : program[u] \in Seq(Steps) /\ RowOf(program[u]) \in Items(program[u]) \cup {Hook}
                       /\ BitOf(program[u]) \in Items(program[u]) \cup {Hook}
  <2>1. \A u \in Tasks : program[u] \in Seq(Steps)
    BY <1>0 DEF TypeOK
  <2> QED BY <2>1, FirstSteps DEF RowOf, BitOf
<1>4. \A x \in Items(program[t]) : FALSE
  BY <1>1 DEF Items
<1>5. RowsInv'
  <2> SUFFICES ASSUME "rows" \notin spoiled'
               PROVE  RowsGood(rows, rows, RowWork) /\ ~overpaid /\ PayGood(credit, rows, rows, RowWork, PayWork)
    BY <1>1, <1>2 DEF RowsInv
  <2>1. "rows" \notin spoiled /\ ~Pends(t, {"save", "saveLs", "remove", "finish", "drop"})
    BY <1>1 DEF LateTables
  <2>2. RowsGood(journal, rows, RowWork) /\ ~overpaid /\ PayGood(credit, journal, rows, RowWork, PayWork)
        /\ RowsTyped(journal, rows, RowWork)
    BY <1>0, <2>1, WorkTypes DEF Inv, RowsInv
  <2>3. ASSUME NEW u \in Tasks PROVE RowWork[u] = Hook
    <3>1. \A x \in Items(program[u]) : x.do \notin {"save", "saveLs", "remove"}
      BY <1>4, <2>1 DEF Pends, Items
    <3>2. RowWork[u] = RowOf(program[u]) /\ RowWork[u] \in RowSteps \cup {Hook}
      BY DEF RowWork, RowOf
    <3>3. RowWork[u] \in RowSteps => RowWork[u].do \in {"save", "saveLs", "remove"} /\ RowWork[u] # Hook
      BY StepFields, KindsApart
    <3> QED BY <1>3, <3>1, <3>2, <3>3
  <2>4. RowWork = [u \in Tasks |-> Hook]
    BY <2>3 DEF RowWork
  <2>5. RowsGood(rows, rows, RowWork)
    BY <2>2, <2>4, LoadGood
  <2>6. \A l \in Leves : Owed(rows, rows, RowWork, l) => Owed(journal, rows, RowWork, l)
    BY DEF Owed
  <2>7. PayGood(credit, rows, rows, RowWork, PayWork)
    BY <2>2, <2>6, PayKept
  <2> QED BY <2>2, <2>5, <2>7
<1>6. BitsInv'
  <2> SUFFICES ASSUME "bits" \notin spoiled' PROVE BitsGood(dbBits, dbBits, BitWork)
    BY <1>1, <1>2 DEF BitsInv
  <2>1. ~Pends(t, {"loadBits", "saveBits", "finish"})
    BY <1>1 DEF LateTables
  <2>2. ASSUME NEW u \in Tasks PROVE BitWork[u] = Hook
    <3>1. \A x \in Items(program[u]) : x.do \notin {"loadBits", "saveBits"}
      BY <1>4, <2>1 DEF Pends, Items
    <3>2. BitWork[u] = BitOf(program[u]) /\ BitWork[u] \in BitSteps \cup {Hook}
      BY DEF BitWork, BitOf
    <3>3. BitWork[u] \in BitSteps => BitWork[u].do \in {"loadBits", "saveBits"} /\ BitWork[u] # Hook
      BY StepFields, KindsApart
    <3> QED BY <1>3, <3>1, <3>2, <3>3
  <2>3. dbBits \in SUBSET Quests
    BY <1>0 DEF TypeOK
  <2> QED BY <2>2, <2>3, RestBitsGood
<1>7. MarkInv'
  <2>1. \A l \in Leves : Bare[l] = {}
    BY DEF Bare, Entries
  <2>2. PICK h2, z2 : h2 = Held' /\ z2 = Todo'
    OBVIOUS
  <2>3. MarkGood(h2, Bare, Bare, Bare, Bare, z2)
    BY BareMarks
  <2> QED BY <1>1, <2>1, <2>2, <2>3 DEF MarkInv
<1>8. TypeOK'
  <2>1. spoiled' \subseteq {"rows", "bits", "markers"}
    BY <1>0, <1>1 DEF LateTables, LateMarkers, TypeOK
  <2> QED BY <1>0, <1>1, <2>1, BareMarks DEF TypeOK
<1> QED BY <1>2, <1>5, <1>6, <1>7, <1>8 DEF Inv

LEMMA CrashInv ==
    ASSUME Inv, Crash
    PROVE  Inv'
<1>1. Loaded /\ program' = [t \in Tasks |-> <<>>] /\ spoiled' = spoiled \ {"markers"}
  BY DEF Crash
<1>2. program' \in [Tasks -> Seq(Steps)] /\ \A t \in Tasks : program'[t] = <<>>
  BY <1>1
<1> QED BY <1>1, <1>2, LoadedInv

-----------------------------------------------------------------------------
(* Theorems *)

LEMMA InitInv == Init => Inv
<1> SUFFICES ASSUME Init PROVE Inv
  OBVIOUS
<1>1. /\ journal = [s \in Slots |-> NoQuest] /\ rows = journal /\ bits = {} /\ dbBits = {}
      /\ old = Bare /\ cur = Bare /\ shown = Bare /\ left = Bare /\ program = [t \in Tasks |-> <<>>]
      /\ credit = [l \in Leves |-> 0] /\ overpaid = FALSE /\ spoiled = {}
  BY DEF Init
<1>2. TypeOK
  <2>1. NoQuest \in Cells /\ <<>> \in Seq(Steps) /\ 0 \in Nat
    BY DEF Cells
  <2>2. journal \in [Slots -> Cells] /\ rows \in [Slots -> Cells] /\ credit \in [Leves -> Nat] /\ overpaid \in BOOLEAN
    BY <1>1, <2>1
  <2>3. program \in [Tasks -> Seq(Steps)]
    BY <1>1, <2>1
  <2> QED BY <1>1, <2>2, <2>3, BareMarks DEF TypeOK
<1>3. /\ RowWork = [t \in Tasks |-> Hook] /\ BitWork = [t \in Tasks |-> Hook] /\ PayWork = [t \in Tasks |-> Hook]
      /\ ShapeInv /\ Todo = {}
  BY <1>1, IdleWork
<1>4. RowsInv
  <2>1. RowsGood(journal, rows, RowWork)
    <3>1. Distinct(journal) /\ Distinct(rows) /\ Mirrored(journal, rows, RowWork)
      BY <1>1 DEF Distinct, Mirrored
    <3>2. \A t \in Tasks : Finds(journal, rows, RowWork[t])
      BY <1>3, KindsApart DEF Finds
    <3>3. OneWriter(rows, RowWork)
      BY <1>3, KindsApart DEF OneWriter, Writing
    <3> QED BY <3>1, <3>2, <3>3 DEF RowsGood
  <2>2. \A l \in Leves : ~Owed(journal, rows, RowWork, l)
    BY <1>1 DEF Owed, Recorded
  <2>3. \A l \in Leves : Payers(PayWork, l) = {}
    BY <1>3 DEF Payers, Hook, Do
  <2>4. PayGood(credit, journal, rows, RowWork, PayWork)
    <3>1. Cardinality({}) = 0
      BY FS_EmptySet
    <3>2. \A l \in Leves : credit[l] = 0
      BY <1>1
    <3> QED BY <2>2, <2>3, <3>1, <3>2 DEF PayGood
  <2> QED BY <1>1, <2>1, <2>4 DEF RowsInv
<1>5. BitsInv
  <2>1. \A t \in Tasks : BitWork[t] = Hook
    BY <1>3
  <2> QED BY <1>1, <2>1, RestBitsGood DEF BitsInv
<1>6. MarkInv
  <2>1. \A l \in Leves : Bare[l] = {}
    BY DEF Bare, Entries
  <2> QED BY <1>1, <2>1, BareMarks DEF MarkInv
<1> QED BY <1>2, <1>3, <1>4, <1>5, <1>6 DEF Inv

LEMMA NextInv == Inv /\ [Next]_vars => Inv'
<1> SUFFICES ASSUME Inv, [Next]_vars PROVE Inv'
  OBVIOUS
<1>1. CASE \E t \in Tasks : Command(t)
  BY <1>1, CommandInv
<1>2. CASE \E t \in Tasks : Rest(t)
  BY <1>2, RestInv
<1>3. CASE \E t \in Tasks : Relogin(t)
  BY <1>3, ReloginInv
<1>4. CASE Crash
  BY <1>4, CrashInv
<1>5. CASE UNCHANGED vars
  <2>1. /\ journal' = journal /\ bits' = bits /\ rows' = rows /\ dbBits' = dbBits /\ old' = old /\ cur' = cur
        /\ shown' = shown /\ left' = left /\ program' = program /\ credit' = credit /\ overpaid' = overpaid /\ spoiled' = spoiled
    BY <1>5 DEF vars, memory, tables, client, history
  <2>2. RowWork' = RowWork /\ BitWork' = BitWork /\ PayWork' = PayWork /\ Todo' = Todo /\ Held' = Held
    BY <2>1 DEF RowWork, BitWork, PayWork, Todo, Held, Has, SlotsOf
  <2> QED BY <2>1, <2>2 DEF Inv, TypeOK, ShapeInv, RowsInv, BitsInv, MarkInv
<1> QED BY <1>1, <1>2, <1>3, <1>4, <1>5 DEF Next

\* The slots whose call was cleared in memory are slots.
LEMMA ClearedNext == TypeOK /\ cleared \subseteq Slots /\ [Next]_vars => cleared' \subseteq Slots
<1> SUFFICES ASSUME TypeOK, cleared \subseteq Slots, [Next]_vars PROVE cleared' \subseteq Slots
  OBVIOUS
<1>1. ASSUME NEW t \in Tasks, Command(t) PROVE cleared' \subseteq Slots
  <2>1. CASE \E q \in Quests, n \in Sequences : ClearData(t, q, n)
    BY <2>1, SlotFacts DEF ClearData
  <2>2. CASE (\E q \in Quests : AddQuest(t, q)) \/ (\E l \in Leves : AcceptRegionalLeve(t, l) \/ AdvanceLeve(t, l) \/ HandIn(t, l))
    BY <2>2 DEF AddQuest, AcceptRegionalLeve, AdvanceLeve, HandIn
  <2>3. CASE \E q \in Quests : UpdateEnpcs(t, q) \/ CompleteQuest(t, q) \/ AbandonQuest(t, q)
    BY <2>3 DEF UpdateEnpcs, CompleteQuest, AbandonQuest, memory
  <2>4. CASE \E q \in Quests : (\E n \in Sequences : StartSequence(t, q, n) \/ ChangeData(t, q, n)) \/ (\E e \in Enpcs : SetEnpc(t, q, e))
    BY <2>4 DEF StartSequence, ChangeData, SetEnpc
  <2>5. CASE \E q \in Quests : (\E f \in BOOLEAN : SetQuestComplete(t, q, f)) \/ (\E n \in 0..1 : SetNpcLs(t, q, n))
    BY <2>5 DEF SetQuestComplete, SetNpcLs
  <2> QED BY <1>1, <2>1, <2>2, <2>3, <2>4, <2>5 DEF Command
<1>2. ASSUME NEW t \in Tasks, Rest(t) PROVE cleared' \subseteq Slots
  <2>1. CASE SaveQuest(t) \/ SaveQuestNpcLs(t) \/ RemoveQuest(t) \/ LoadCompleted(t) \/ SaveCompleted(t) \/ DbFails(t)
    BY <2>1 DEF SaveQuest, SaveQuestNpcLs, RemoveQuest, LoadCompleted, SaveCompleted, DbFails, memory
  <2>2. CASE HookEnds(t) \/ Swap(t) \/ Drain(t) \/ Clear(t) \/ Active(t) \/ Show(t) \/ Pay(t)
    BY <2>2 DEF HookEnds, Swap, Drain, Clear, Active, Show, Pay, memory
  <2>3. CASE FinishComplete(t) \/ DropQuest(t)
    BY <2>3 DEF FinishComplete, DropQuest
  <2> QED BY <1>2, <2>1, <2>2, <2>3 DEF Rest
<1>3. CASE (\E t \in Tasks : Relogin(t)) \/ Crash
  BY <1>3 DEF Relogin, Crash, Loaded
<1>4. CASE UNCHANGED vars
  BY <1>4 DEF vars, memory
<1> QED BY <1>1, <1>2, <1>3, <1>4 DEF Next

\* The journal, its tables and the programs hold what their types say: every
\* step a handler leaves is one of those of quest_apply.rs, in its place.
THEOREM TypeCorrectness == Spec => [](TypeOK /\ cleared \subseteq Slots /\ ShapeInv)
<1> DEFINE Typed == Inv /\ cleared \subseteq Slots
<1>1. Init => Typed
  BY InitInv DEF Init
<1>2. Typed /\ [Next]_vars => Typed'
  BY NextInv, ClearedNext DEF Inv
<1>3. Typed => TypeOK /\ cleared \subseteq Slots /\ ShapeInv
  BY DEF Inv
<1> HIDE DEF Typed
<1> QED BY <1>1, <1>2, <1>3, PTL DEF Spec

\* With no handler under way the scenario table is the journal and the completed
\* set of the table the one in memory: every change under the lock (AddQuest,
\* Mutate, FinishComplete and the others) is written by the calls after it,
\* whatever hooks and process ends come between, but for the call that ClearData
\* takes from memory alone, and unless handlers overlapped or a call failed.
THEOREM MemoryMirroredHolds == Spec => []MemoryMirrored
<1>1. ASSUME Inv PROVE MemoryMirrored
  <2> SUFFICES ASSUME Quiet
               PROVE  ("rows" \notin spoiled => \A s \in Slots : rows[s] = journal[s]) /\ ("bits" \notin spoiled => dbBits = bits)
    BY DEF MemoryMirrored, InMemory
  <2>1. RowWork = [t \in Tasks |-> Hook] /\ BitWork = [t \in Tasks |-> Hook]
    BY IdleWork DEF Quiet
  <2>2. ASSUME "rows" \notin spoiled PROVE \A s \in Slots : rows[s] = journal[s]
    <3>1. Mirrored(journal, rows, RowWork)
      BY <1>1, <2>2 DEF Inv, RowsInv, RowsGood
    <3> QED BY <2>1, <3>1, KindsApart DEF Mirrored, Writing
  <2>3. ASSUME "bits" \notin spoiled PROVE dbBits = bits
    <3>1. BitsGood(bits, dbBits, BitWork) /\ dbBits \in SUBSET Quests /\ \A t \in Tasks : BitWork[t] = Hook
      BY <1>1, <2>1, <2>3 DEF Inv, BitsInv, TypeOK
    <3> QED BY <3>1, RestBitsGood
  <2> QED BY <2>2, <2>3
<1> QED BY InitInv, NextInv, <1>1, PTL DEF Spec

\* With no handler under way the client marks what the current set of each quest
\* says, and beyond it what an abandonment (DropQuest) or a swap before a drain
\* left there: what a swap leaves in the old set is drained and cleared, a
\* turn-in between the two (FinishComplete) clears both sets, and what SetEnpc
\* names is broadcast after the lock.
THEOREM MarkersMatchHolds == Spec => []MarkersMatch
<1>1. ASSUME Inv PROVE MarkersMatch
  <2> SUFFICES ASSUME Quiet, "markers" \notin spoiled, NEW q \in Entries PROVE shown[q] = cur[q] \cup left[q]
    BY DEF MarkersMatch
  <2>1. Todo = {}
    BY IdleWork DEF Quiet
  <2>2. MarksOf(q, Held, old, cur, left, shown, Todo)
    BY <1>1 DEF Inv, MarkInv, MarkGood
  <2> QED BY <2>1, <2>2 DEF MarksOf, Named, Showing, Clearing
<1> QED BY InitInv, NextInv, <1>1, PTL DEF Spec

\* A leve is paid for at most once per completion: the hand-in takes it out of
\* the journal under the lock, deletes its row and pays after it, so what a
\* process end brings back, or a relogin once the delete is made, has not been
\* paid for.  A relogin over a delete still to come is exempt, as overlapping
\* handlers and failed calls are.
THEOREM PaidOncePerCompletionHolds == Spec => []PaidOncePerCompletion
<1>1. Inv => PaidOncePerCompletion
  BY DEF Inv, RowsInv, PaidOncePerCompletion
<1> QED BY InitInv, NextInv, <1>1, PTL DEF Spec
=============================================================================
