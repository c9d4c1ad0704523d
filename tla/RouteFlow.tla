----------------------------- MODULE RouteFlow -----------------------------
(***************************************************************************)
(* What running a built transaction promises: the funds go along the       *)
(* route, one swap after the other, each token in either of its forms      *)
(* while under way, and end on Augustus in the form of the route's         *)
(* destination token; or everything reverts.                               *)
(***************************************************************************)
EXTENDS PriceRoutes

CONSTANT Routes

VARIABLES
    route,
    swapped,   \* how many of its swaps have been made
    held,      \* what the funds are
    place,     \* "executor" or "augustus"
    outcome    \* "building", "running", "done" or "reverted"

flowVars == <<route, swapped, held, place, outcome>>

Form(token) == IF token = ETH THEN WETH ELSE token
SameToken(t, u) == Form(t) = Form(u)

FlowInit ==
    /\ route \in Routes
    /\ swapped = 0
    /\ held = route.src
    /\ place = "executor"
    /\ outcome = "building"

Submit ==
    /\ outcome = "building"
    /\ outcome' = "running"
    /\ UNCHANGED <<route, swapped, held, place>>

\* Wrapping and unwrapping, on the executor; a branch that gives way to its
\* fallback takes its own back.
Convert(token) ==
    /\ outcome = "running" /\ place = "executor"
    /\ SameToken(token, held)
    /\ held' = token
    /\ UNCHANGED <<route, swapped, place, outcome>>

\* The next swap is made, once.  Only the last may deliver.
MakeSwap(token, to) ==
    LET swaps == route.paths[1].swaps IN
    /\ outcome = "running" /\ place = "executor"
    /\ swapped < Len(swaps)
    /\ SameToken(held, swaps[swapped + 1].src)
    /\ SameToken(token, swaps[swapped + 1].dest)
    /\ to = "augustus" => swapped + 1 = Len(swaps) /\ token = route.dest
    /\ swapped' = swapped + 1
    /\ held' = token
    /\ place' = to
    /\ UNCHANGED <<route, outcome>>

AllSwapped == swapped = Len(route.paths[1].swaps)

Deliver ==
    /\ outcome = "running" /\ place = "executor"
    /\ AllSwapped
    /\ held = route.dest
    /\ place' = "augustus"
    /\ UNCHANGED <<route, swapped, held, outcome>>

Settle ==
    /\ outcome = "running" /\ place = "augustus"
    /\ AllSwapped
    /\ outcome' = "done"
    /\ UNCHANGED <<route, swapped, held, place>>

RevertAll ==
    /\ outcome = "running"
    /\ outcome' = "reverted"
    /\ UNCHANGED <<route, swapped, held, place>>

FlowNext ==
    \/ Submit
    \/ \E token \in Tokens : Convert(token)
    \/ \E token \in Tokens, to \in {"executor", "augustus"} : MakeSwap(token, to)
    \/ Deliver
    \/ Settle
    \/ RevertAll

FlowSpec == FlowInit /\ [][FlowNext]_flowVars
=============================================================================
