--------------------------- MODULE MCQuestJournal ---------------------------
EXTENDS QuestJournal, TLC

\* The invariants speak of behaviours without a disturbance: what follows one
\* adds nothing to them.
Undisturbed == spoiled = {}

\* The tasks, and the NPC classes, are interchangeable.
Symmetry == Permutations(Tasks) \cup Permutations(Enpcs)
=============================================================================
