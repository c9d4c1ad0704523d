---------------------------- MODULE ResolvedLegs ----------------------------
(***************************************************************************)
(* The legs that are handed to the resolved layer, in any order, are those *)
(* of the exchanges of its route plan.  This is checked twice, when the    *)
(* input is validated (validateBuildInput) and when an executor puts the   *)
(* legs in the order of the route (getOrderedLegs).                        *)
(*                                                                         *)
(* A leg says where it belongs, and of its exchange and the fallbacks that *)
(* are nested in it, outermost first, whether their fields are well formed. *)
(* A position is its own key: the indexes of one are kept apart by colons. *)
(***************************************************************************)
EXTENDS PriceRoutes, FiniteSets

LegCount(r) == Cardinality(Positions(r))

KeysOf(legs) == {legs[n].pos : n \in DOMAIN legs}
HasDuplicates(legs) == \E n, m \in DOMAIN legs : n # m /\ legs[n].pos = legs[m].pos

\* A fallback has none itself.
IsValid(leg) == Len(leg.params) <= 2 /\ \A n \in DOMAIN leg.params : leg.params[n]

Validates(r, legs) ==
    /\ ~HasDuplicates(legs)
    /\ Len(legs) = LegCount(r)
    /\ \A n \in DOMAIN legs : legs[n].pos \in Positions(r) /\ IsValid(legs[n])
    /\ Positions(r) \subseteq KeysOf(legs)

CanBeOrdered(r, legs) ==
    /\ ~HasDuplicates(legs)
    /\ KeysOf(legs) \subseteq Positions(r)
    /\ Positions(r) \subseteq KeysOf(legs)

\* The leg of a position, wherever it was in the list.
LegAt(legs, pos) == legs[CHOOSE n \in DOMAIN legs : legs[n].pos = pos]
=============================================================================
