--------------------------- MODULE MCAdvancement ---------------------------
\* The instance of Advancement for TLC: three levels and two ranks.
EXTENDS Advancement

MCThreshold == <<2, 3>>
MCCost == <<2>>
MCCap == <<2, 3>>
=============================================================================
