------------------------------ MODULE MCBattle ------------------------------
EXTENDS Battle
=============================================================================
