----------------------------- MODULE MCMapZones -----------------------------
EXTENDS MapZones

\* Two zones that share the boundary, one of another region, and one of theirs
\* that another map server has.
MCLoaded == {"gate", "field", "inn"}
MCRegion == [z \in Zones |-> IF z = "inn" THEN 2 ELSE 1]
MCBoundary == <<"gate", "field">>
MCInstalled == {<<"gate", "past">>}
MCDestinations == {<<"gate", "past">>, <<"inn", "public">>, <<"field", "past">>, <<"deck", "public">>}
MCHome == <<"gate", "public">>

\* Two of the invariants speak of behaviours without a disturbance; the third,
\* of those in which the player was sent to a zone that is elsewhere as well.
Undisturbed == disturbed \subseteq {"unloaded"}
=============================================================================
