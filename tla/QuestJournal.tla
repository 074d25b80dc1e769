---------------------------- MODULE QuestJournal ----------------------------
(***************************************************************************)
(* The quest journal of one character: in memory (actor/quest.rs), in the  *)
(* tables characters_quest_scenario and characters_quest_completed, and as *)
(* head markers on the client (runtime/quest_apply.rs, processor.rs).      *)
(*                                                                         *)
(* A handler changes the journal under the character's lock and makes its  *)
(* database calls, broadcasts and script hooks after it has let go of the  *)
(* lock.  So a handler is one action for its locked part and then a        *)
(* program: the steps it has still to take, which the packet task and the  *)
(* ticker interleave.  A hook runs a script whose commands are handlers    *)
(* again, run before the rest of the program that called the hook.         *)
(***************************************************************************)
EXTENDS Integers, Sequences, FiniteSets, FiniteSetsExt

CONSTANTS
    Quests,      \* scenario quests
    Leves,       \* regional leves, kept in the same journal
    Slots,       \* journal slots, an interval from 0
    Sequences,   \* sequence numbers a script may start
    Enpcs,       \* NPC classes a quest may mark
    Tasks,       \* the packet task and the ticker
    MaxPending,  \* bound: the steps that may be pending when a command is issued
    MaxCredit    \* bound: the completions of a leve that may wait for payment

ASSUME JournalAssumption ==
    /\ Slots # {} /\ Slots \subseteq Nat /\ 0 \in Sequences
    /\ Quests \cap Leves = {} /\ "none" \notin Quests \cup Leves /\ IsFiniteSet(Tasks)
    /\ MaxPending \in Nat /\ MaxCredit \in Nat \ {0}

VARIABLES
    journal,   \* QuestJournal.slots, save for the calls in cleared
    cleared,   \* slots whose linkshell call clear_data has taken from memory alone
    bits,      \* QuestJournal.completed
    rows,      \* characters_quest_scenario, by slot
    dbBits,    \* characters_quest_completed
    old, cur,  \* QuestState.old and QuestState.current of each quest
    shown,     \* what the client marks, by quest
    left,      \* history: markers dropped from the quest with no clear sent for them
    program,   \* what each task has still to do, the next step first
    credit,    \* history: completions of each leve, less its payments
    overpaid,  \* history: a leve was paid for without being completed again
    spoiled    \* history: what two overlapping handlers have disturbed

memory == <<journal, cleared, bits, old, cur>>
tables == <<rows, dbBits>>
client == <<shown, left>>
history == <<credit, overpaid, spoiled>>
vars == <<memory, tables, client, program, history>>

Entries == Quests \cup Leves
NoQuest == [quest |-> "none"]

\* Quest::new.  seq stands for all that save_quest stores of an entry's
\* progress: sequence, flags and counters.
Quest(q) == [quest |-> q, seq |-> 0, done |-> FALSE, ls |-> 0]
Bare == [e \in Entries |-> {}]

-----------------------------------------------------------------------------
(* The journal *)

SlotsOf(q) == {s \in Slots : journal[s].quest = q}
Has(q) == SlotsOf(q) # {}
slot_of(q) == Min(SlotsOf(q))
Free == {s \in Slots : journal[s] = NoQuest}

\* The entry of a slot as the process has it.
Silent(c) == [c EXCEPT !.ls = 0]
InMemory(s) == IF s \in cleared THEN Silent(journal[s]) ELSE journal[s]

\* QuestJournal.add: the first free slot; the entry starts without markers.
Add(c) == journal' = [journal EXCEPT ![Min(Free)] = c]

\* The steps of task t touch slot s or entry q in the table.
Writes(t, s, q) ==
    \E i \in DOMAIN program[t] :
        LET st == program[t][i]
        IN \/ st.do \in {"save", "saveLs"} /\ (st.slot = s \/ (st.do = "save" /\ st.c.quest = q))
           \/ st.do = "remove" /\ (st.quest = q \/ rows[s].quest = st.quest)

\* Another task has a write of this entry still to make: the two handlers
\* overlap and the table may end up with the older of them (history only).
Overlap(t, s, q) ==
    IF \E u \in Tasks \ {t} : Writes(u, s, q) THEN spoiled \cup {"rows"} ELSE spoiled

\* Another task has steps of these kinds still to take.
Pends(t, kinds) == \E u \in Tasks \ {t} : \E i \in DOMAIN program[u] : program[u][i].do \in kinds

\* A command is issued by a packet or the ticker when the task has nothing to
\* do, and by a script while a hook of the task runs.
Pending == FoldSet(LAMBDA t, n : n + Len(program[t]), 0, Tasks)
MayIssue(t) == (program[t] # <<>> => Head(program[t]).do = "hook") /\ Pending <= MaxPending
Then(t, steps) == program' = [program EXCEPT ![t] = steps \o @]

Save(s, c) == [do |-> "save", slot |-> s, c |-> c]
SaveLs(s, n) == [do |-> "saveLs", slot |-> s, ls |-> n]
RemoveRow(q) == [do |-> "remove", quest |-> q]
LoadBits(q, flag) == [do |-> "loadBits", quest |-> q, flag |-> flag]
Hook == [do |-> "hook"]
Do(what, q) == [do |-> what, quest |-> q]

-----------------------------------------------------------------------------
(* Handlers, their locked part *)

\* apply_quest_mutation: the changed entry is saved after the lock.
Mutate(t, q, c, rest) ==
    LET s == slot_of(q)
    IN /\ journal' = [journal EXCEPT ![s] = c]
       /\ spoiled' = Overlap(t, s, q)
       /\ Then(t, <<Save(s, c)>> \o rest)
       /\ UNCHANGED <<bits, old, cur, tables, client, credit, overpaid>>

AddQuest(t, q) ==
    /\ MayIssue(t)
    /\ ~Has(q) /\ q \notin bits /\ Free # {}
    /\ Add(Quest(q))
    /\ old' = [old EXCEPT ![q] = {}] /\ cur' = [cur EXCEPT ![q] = {}]
    /\ spoiled' = Overlap(t, Min(Free), q)
    /\ Then(t, <<Save(Min(Free), Quest(q)), Hook>>)
    /\ UNCHANGED <<cleared, bits, tables, client, credit, overpaid>>

\* A flag or a counter changes.
ChangeData(t, q, n) ==
    /\ MayIssue(t)
    /\ Has(q)
    /\ Mutate(t, q, [journal[slot_of(q)] EXCEPT !.seq = n], <<>>)
    /\ UNCHANGED cleared

\* QuestData.clear: flags, counters and the linkshell call go; the save that
\* follows stores the former and leaves the call in its row.
ClearData(t, q, n) ==
    /\ MayIssue(t)
    /\ Has(q)
    /\ Mutate(t, q, [journal[slot_of(q)] EXCEPT !.seq = n], <<>>)
    /\ cleared' = IF journal[slot_of(q)].ls = 0 THEN cleared ELSE cleared \cup {slot_of(q)}

\* The mutation, then the swap of the marker sets, the onStateChange hook that
\* fills the new set, and the clears for what it did not name again.
StartSequence(t, q, n) ==
    /\ MayIssue(t)
    /\ Has(q)
    /\ Mutate(t, q, [journal[slot_of(q)] EXCEPT !.seq = n], <<Do("swap", q), Hook, Do("drain", q)>>)
    /\ UNCHANGED cleared

\* The same without the mutation, and what is marked is sent once more.
UpdateEnpcs(t, q) ==
    /\ MayIssue(t)
    /\ Has(q)
    /\ Then(t, <<Do("swap", q), Hook, Do("drain", q), Do("active", q)>>)
    /\ UNCHANGED <<memory, tables, client, history>>

\* apply_quest_set_enpc: the entry joins the current set under the lock and is
\* broadcast after it, unless the previous set had it with the same state.
SetEnpc(t, q, e) ==
    /\ MayIssue(t)
    /\ Has(q)
    /\ cur' = [cur EXCEPT ![q] = @ \cup {e}]
    /\ old' = [old EXCEPT ![q] = @ \ {e}]
    /\ left' = [left EXCEPT ![q] = @ \ {e}]
    /\ \/ e \in old[q] /\ UNCHANGED program
       \/ Then(t, <<[do |-> "show", quest |-> q, set |-> {e}]>>)
    /\ UNCHANGED <<journal, cleared, bits, tables, shown, history>>

\* apply_complete_quest: present before the hook, finished after it.
CompleteQuest(t, q) ==
    /\ MayIssue(t)
    /\ Has(q)
    /\ Then(t, <<Hook, Do("finish", q)>>)
    /\ UNCHANGED <<memory, tables, client, history>>

AbandonQuest(t, q) ==
    /\ MayIssue(t)
    /\ Then(t, <<Hook, Do("drop", q)>>)
    /\ UNCHANGED <<memory, tables, client, history>>

SetQuestComplete(t, q, flag) ==
    /\ MayIssue(t)
    /\ bits' = IF flag THEN bits \cup {q} ELSE bits \ {q}
    /\ Then(t, <<LoadBits(q, flag)>>)
    /\ UNCHANGED <<journal, cleared, old, cur, tables, client, history>>

\* apply_quest_set_npc_ls_from, _increment_npc_ls_msg_step, _clear_npc_ls: a
\* call step of 0, 1 or 2, in its own column and its own call.
SetNpcLs(t, q, n) ==
    /\ MayIssue(t)
    /\ Has(q)
    /\ journal' = [journal EXCEPT ![slot_of(q)].ls = n]
    /\ spoiled' = Overlap(t, slot_of(q), q)
    /\ cleared' = cleared \ {slot_of(q)}
    /\ Then(t, <<SaveLs(slot_of(q), n)>>)
    /\ UNCHANGED <<bits, old, cur, tables, client, credit, overpaid>>

AcceptRegionalLeve(t, l) ==
    /\ MayIssue(t)
    /\ ~Has(l) /\ Free # {}
    /\ Add(Quest(l))
    /\ spoiled' = Overlap(t, Min(Free), l)
    /\ Then(t, <<Save(Min(Free), Quest(l))>>)
    /\ UNCHANGED <<cleared, bits, old, cur, tables, client, credit, overpaid>>

\* advance_regional_leves: the objective is reached, once.
AdvanceLeve(t, l) ==
    /\ MayIssue(t)
    /\ Has(l) /\ ~journal[slot_of(l)].done
    /\ LET s == slot_of(l)
           c == [journal[s] EXCEPT !.done = TRUE]
       IN /\ journal' = [journal EXCEPT ![s] = c]
          /\ spoiled' = Overlap(t, s, l)
          /\ Then(t, <<Save(s, c)>>)
    /\ credit[l] < MaxCredit /\ credit' = [credit EXCEPT ![l] = @ + 1]
    /\ UNCHANGED <<cleared, bits, old, cur, tables, client, overpaid>>

\* Fault: the leve leaves the journal and is paid before its row is deleted.
HandInPaysFirst(t, l) ==
    /\ MayIssue(t)
    /\ Has(l) /\ journal[slot_of(l)].done
    /\ journal' = [journal EXCEPT ![slot_of(l)] = NoQuest]
    /\ cleared' = cleared \ {slot_of(l)}
    /\ spoiled' = Overlap(t, slot_of(l), l)
    /\ Then(t, <<Do("pay", l), RemoveRow(l)>>)
    /\ UNCHANGED <<bits, old, cur, tables, client, credit, overpaid>>

\* apply_regional_leve_hand_in: out of the journal if completed, then out of
\* the table, then paid.
HandIn(t, l) ==
    /\ MayIssue(t)
    /\ Has(l) /\ journal[slot_of(l)].done
    /\ journal' = [journal EXCEPT ![slot_of(l)] = NoQuest]
    /\ cleared' = cleared \ {slot_of(l)}
    /\ spoiled' = Overlap(t, slot_of(l), l)
    /\ Then(t, <<RemoveRow(l), Do("pay", l)>>)
    /\ UNCHANGED <<bits, old, cur, tables, client, credit, overpaid>>

-----------------------------------------------------------------------------
(* The steps after the lock *)

\* Fault: only the new marker set is cleared.
MarkersOfCurrent(q) == cur[q]

\* Both halves: a turn-in can land between a swap and its drain.
MarkersOf(q) == old[q] \cup cur[q]

Next_(t, what) == program[t] # <<>> /\ Head(program[t]).do = what
Step(t) == Head(program[t])
Done(t) == program' = [program EXCEPT ![t] = Tail(@)]

\* save_quest: an upsert by slot that leaves the linkshell columns alone.
SaveQuest(t) ==
    /\ Next_(t, "save")
    /\ LET s == Step(t).slot
       IN rows' = [rows EXCEPT ![s] =
             [Step(t).c EXCEPT !.ls = IF rows[s] = NoQuest THEN 0 ELSE rows[s].ls]]
    /\ Done(t)
    /\ UNCHANGED <<memory, dbBits, client, history>>

\* save_quest_npc_ls: an update by slot, of whatever row is there.
SaveQuestNpcLs(t) ==
    /\ Next_(t, "saveLs")
    /\ rows' = IF rows[Step(t).slot] = NoQuest THEN rows ELSE [rows EXCEPT ![Step(t).slot].ls = Step(t).ls]
    /\ Done(t)
    /\ UNCHANGED <<memory, dbBits, client, history>>

\* Fault: the row is deleted by slot 0 rather than by quest.
RemoveFirstRow(t) ==
    /\ Next_(t, "remove")
    /\ rows' = [rows EXCEPT ![Min(Slots)] = NoQuest]
    /\ Done(t)
    /\ UNCHANGED <<memory, dbBits, client, history>>

\* remove_quest: by quest id.
RemoveQuest(t) ==
    /\ Next_(t, "remove")
    /\ rows' = [s \in Slots |-> IF rows[s].quest = Step(t).quest THEN NoQuest ELSE rows[s]]
    /\ Done(t)
    /\ UNCHANGED <<memory, dbBits, client, history>>

\* complete_quest and the clearing arm of apply_set_quest_complete load the
\* whole bit set, change one bit and save the whole set in a second call.
LoadCompleted(t) ==
    /\ Next_(t, "loadBits")
    /\ LET q == Step(t).quest
           new == IF Step(t).flag THEN dbBits \cup {q} ELSE dbBits \ {q}
       IN IF Step(t).flag /\ q \in dbBits
          THEN Done(t)
          ELSE program' = [program EXCEPT ![t] = <<[do |-> "saveBits", bits |-> new]>> \o Tail(@)]
    /\ spoiled' = IF \E u \in Tasks \ {t}, d \in {"loadBits", "saveBits"} : \E i \in DOMAIN program[u] : program[u][i].do = d
                  THEN spoiled \cup {"bits"} ELSE spoiled
    /\ UNCHANGED <<memory, tables, client, credit, overpaid>>

SaveCompleted(t) ==
    /\ Next_(t, "saveBits")
    /\ dbBits' = Step(t).bits
    /\ Done(t)
    /\ UNCHANGED <<memory, rows, client, history>>

\* A hook's script ends when it likes.
HookEnds(t) ==
    /\ Next_(t, "hook")
    /\ Done(t)
    /\ UNCHANGED <<memory, tables, client, history>>

\* begin_sequence_swap.  What an earlier swap has not drained yet is dropped:
\* nothing will clear it on the client.
Swap(t) ==
    /\ Next_(t, "swap")
    /\ LET q == Step(t).quest IN
       IF Has(q)
       THEN /\ old' = [old EXCEPT ![q] = cur[q]]
            /\ cur' = [cur EXCEPT ![q] = {}]
            /\ left' = [left EXCEPT ![q] = @ \cup old[q]]
       ELSE UNCHANGED <<old, cur, left>>
    /\ Done(t)
    /\ UNCHANGED <<journal, cleared, bits, tables, shown, history>>

\* drain_stale_enpcs; the clears are sent after the lock.
Drain(t) ==
    /\ Next_(t, "drain")
    /\ LET q == Step(t).quest IN
       /\ old' = IF Has(q) THEN [old EXCEPT ![q] = {}] ELSE old
       /\ program' = [program EXCEPT ![t] =
             <<[do |-> "clear", quest |-> q, set |-> IF Has(q) THEN old[q] ELSE {}]>> \o Tail(@)]
    /\ UNCHANGED <<journal, cleared, bits, cur, tables, client, history>>

\* A clear for a class that was marked again meanwhile takes the new marker.
Clear(t) ==
    /\ Next_(t, "clear")
    /\ shown' = [shown EXCEPT ![Step(t).quest] = @ \ Step(t).set]
    /\ left' = [left EXCEPT ![Step(t).quest] = @ \ Step(t).set]
    /\ spoiled' = IF Step(t).set \cap (old[Step(t).quest] \cup cur[Step(t).quest]) # {} THEN spoiled \cup {"markers"} ELSE spoiled
    /\ Done(t)
    /\ UNCHANGED <<memory, tables, credit, overpaid>>

\* The active markers are read under the lock and sent after it.
Active(t) ==
    /\ Next_(t, "active")
    /\ LET q == Step(t).quest
       IN program' = [program EXCEPT ![t] = <<[do |-> "show", quest |-> q, set |-> cur[q]]>> \o Tail(@)]
    /\ UNCHANGED <<memory, tables, client, history>>

Show(t) ==
    /\ Next_(t, "show")
    /\ shown' = [shown EXCEPT ![Step(t).quest] = @ \cup Step(t).set]
    /\ spoiled' = IF Step(t).set \subseteq MarkersOf(Step(t).quest) \cup left[Step(t).quest]
                  THEN spoiled ELSE spoiled \cup {"markers"}
    /\ Done(t)
    /\ UNCHANGED <<memory, tables, left, credit, overpaid>>

\* finish_complete_quest.
FinishComplete(t) ==
    /\ Next_(t, "finish")
    /\ LET q == Step(t).quest
           had == Has(q)
       IN /\ journal' = IF had THEN [journal EXCEPT ![slot_of(q)] = NoQuest] ELSE journal
          /\ cleared' = IF had THEN cleared \ {slot_of(q)} ELSE cleared
          /\ bits' = bits \cup {q}
          /\ old' = [old EXCEPT ![q] = {}] /\ cur' = [cur EXCEPT ![q] = {}]
          /\ spoiled' = IF had THEN Overlap(t, slot_of(q), q) ELSE spoiled
          /\ program' = [program EXCEPT ![t] =
                (IF had THEN <<RemoveRow(q)>> ELSE <<>>)
                \o <<LoadBits(q, TRUE), [do |-> "clear", quest |-> q, set |-> IF had THEN MarkersOf(q) ELSE {}]>> \o Tail(@)]
    /\ UNCHANGED <<tables, client, credit, overpaid>>

\* The locked part of apply_abandon_quest, after its hook.  Nothing clears the
\* markers of an abandoned quest.
DropQuest(t) ==
    /\ Next_(t, "drop")
    /\ LET q == Step(t).quest IN
       IF Has(q)
       THEN /\ journal' = [journal EXCEPT ![slot_of(q)] = NoQuest]
            /\ cleared' = cleared \ {slot_of(q)}
            /\ old' = [old EXCEPT ![q] = {}] /\ cur' = [cur EXCEPT ![q] = {}]
            /\ left' = [left EXCEPT ![q] = @ \cup MarkersOf(q)]
            /\ spoiled' = Overlap(t, slot_of(q), q)
            /\ program' = [program EXCEPT ![t] = <<RemoveRow(q)>> \o Tail(@)]
       ELSE /\ Done(t)
            /\ UNCHANGED <<journal, cleared, old, cur, left, spoiled>>
    /\ UNCHANGED <<bits, tables, shown, credit, overpaid>>

\* The grants of a hand-in.
Pay(t) ==
    /\ Next_(t, "pay")
    /\ LET l == Step(t).quest IN
       IF credit[l] = 0 THEN overpaid' = TRUE /\ UNCHANGED credit
       ELSE credit' = [credit EXCEPT ![l] = @ - 1] /\ UNCHANGED overpaid
    /\ Done(t)
    /\ UNCHANGED <<memory, tables, client, spoiled>>

\* A database call fails: it is logged and the handler goes on.
DbFails(t) ==
    /\ \E d \in {"save", "saveLs", "remove", "loadBits", "saveBits"} : Next_(t, d)
    /\ spoiled' = spoiled \cup {IF Step(t).do \in {"loadBits", "saveBits"} THEN "bits" ELSE "rows"}
    /\ Done(t)
    /\ UNCHANGED <<memory, tables, client, credit, overpaid>>

-----------------------------------------------------------------------------
\* The journal is loaded from the tables at login; the client starts bare.
Loaded ==
    /\ journal' = rows /\ cleared' = {} /\ bits' = dbBits
    /\ old' = Bare /\ cur' = Bare /\ shown' = Bare /\ left' = Bare
    /\ UNCHANGED <<tables, credit, overpaid>>

\* What the other task has still to write or send for the old character, and
\* the new one has not seen.
LateTables(t) ==
    (IF Pends(t, {"save", "saveLs", "remove", "finish", "drop"}) THEN {"rows"} ELSE {})
    \cup (IF Pends(t, {"loadBits", "saveBits", "finish"}) THEN {"bits"} ELSE {})
LateMarkers(t) ==
    IF Pends(t, {"swap", "drain", "active", "clear", "show", "finish", "drop"}) THEN {"markers"} ELSE {}

\* The player logs out and in again.  The other task may still hold the old
\* character and finish what it was doing to it.
Relogin(t) ==
    /\ program[t] = <<>>
    /\ Loaded
    /\ spoiled' = (spoiled \ {"markers"}) \cup LateTables(t) \cup LateMarkers(t)
    /\ UNCHANGED program

\* The process ends, between any two steps.
Crash ==
    /\ \E t \in Tasks : program[t] # <<>>
    /\ Loaded
    /\ program' = [t \in Tasks |-> <<>>]
    /\ spoiled' = spoiled \ {"markers"}

Init ==
    /\ journal = [s \in Slots |-> NoQuest] /\ rows = journal
    /\ cleared = {} /\ bits = {} /\ dbBits = {}
    /\ old = Bare /\ cur = Bare /\ shown = Bare /\ left = Bare
    /\ program = [t \in Tasks |-> <<>>]
    /\ credit = [l \in Leves |-> 0] /\ overpaid = FALSE /\ spoiled = {}

Command(t) ==
    \/ \E q \in Quests :
          \/ AddQuest(t, q) \/ UpdateEnpcs(t, q) \/ CompleteQuest(t, q) \/ AbandonQuest(t, q)
          \/ \E n \in Sequences : StartSequence(t, q, n) \/ ChangeData(t, q, n) \/ ClearData(t, q, n)
          \/ \E e \in Enpcs : SetEnpc(t, q, e)
          \/ \E flag \in BOOLEAN : SetQuestComplete(t, q, flag)
          \/ \E n \in 0..1 : SetNpcLs(t, q, n)
    \/ \E l \in Leves : AcceptRegionalLeve(t, l) \/ AdvanceLeve(t, l) \/ HandIn(t, l)

Rest(t) ==
    \/ SaveQuest(t) \/ SaveQuestNpcLs(t) \/ RemoveQuest(t) \/ LoadCompleted(t) \/ SaveCompleted(t)
    \/ HookEnds(t) \/ Swap(t) \/ Drain(t) \/ Clear(t) \/ Active(t) \/ Show(t) \/ FinishComplete(t) \/ DropQuest(t) \/ Pay(t) \/ DbFails(t)

Next == (\E t \in Tasks : Command(t) \/ Rest(t) \/ Relogin(t)) \/ Crash

Spec == Init /\ [][Next]_vars

-----------------------------------------------------------------------------
(* Properties *)

Quiet == \A t \in Tasks : program[t] = <<>>

\* When no handler is under way the scenario table is the journal, row for row
\* and column for column, and the completed set of the table is the one in
\* memory, through adds, mutations, completions, abandons, hand-ins, nested
\* hooks, relogins and process ends.  One column differs in the code's own
\* course: clear_data zeroes an NPC-linkshell call in memory alone, so the row
\* keeps the call until the next one is stored or the quest ends, and the next
\* login brings it back.  Exempt: two handlers of one entry that overlapped,
\* each saving after the lock what it saw under it, a second load of the
\* completed set between another's load and its save of all of it, a relogin
\* over another task's writes, and a failed call.
MemoryMirrored ==
    Quiet => /\ "rows" \notin spoiled =>
                  \A s \in Slots : InMemory(s) = IF s \in cleared THEN Silent(rows[s]) ELSE rows[s]
             /\ "bits" \notin spoiled => dbBits = bits

\* When no handler is under way the client marks the ENPCs of each quest's
\* current set, and beyond them only what was left there: the markers of an
\* abandoned quest, for which no clear is ever sent, and those of a sequence
\* that a further swap dropped before its drain.  A completed quest leaves none
\* of its own, even when it is turned in between a swap and its drain.  Exempt:
\* a broadcast of one task that comes after another task has dropped what it
\* shows, or marked again what it clears, and a relogin over such a task.
MarkersMatch == Quiet /\ "markers" \notin spoiled => \A q \in Entries : shown[q] = cur[q] \cup left[q]

\* A leve is paid for at most once per completion, whatever process end comes
\* between the journal, the table and the grants, and though the player logs in
\* anew between the delete and the grants.  Exempt: a relogin while the delete
\* is still to come, which loads the completed leve again to be paid again,
\* overlapping handlers of the entry, and a failed call.
PaidOncePerCompletion == overpaid => "rows" \in spoiled
=============================================================================
