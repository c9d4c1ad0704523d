---------------------------- MODULE PriceRoutes ----------------------------
(***************************************************************************)
(* Price routes, as the pricing service hands them to the builder, and how *)
(* the builder classifies them.                                            *)
(*                                                                         *)
(* A price route splits the amount over paths; a path is a sequence of     *)
(* swaps; a swap splits its amount over exchanges; an exchange may carry   *)
(* the quote of a fallback, to be run should the exchange itself revert.   *)
(***************************************************************************)
EXTENDS Naturals, Sequences

CONSTANTS
    ETH,      \* the native token, and
    WETH,     \* its ERC20 wrapping
    Tokens

ASSUME TokenAssumption == {ETH, WETH} \subseteq Tokens /\ ETH # WETH

Branches == {"primary", "fallback"}

Swap(route, pos) == route.paths[pos[1]].swaps[pos[2]]
Exchange(route, pos) == Swap(route, pos).exchanges[pos[3]]
Quote(route, leg) == Exchange(route, leg[1]).quotes[leg[2]]

\* The positions of a route plan's exchanges: <<path, swap, exchange>>.
Positions(route) ==
    UNION {UNION {{<<i, j, k>> : k \in DOMAIN route.paths[i].swaps[j].exchanges}
                    : j \in DOMAIN route.paths[i].swaps}
             : i \in DOMAIN route.paths}

\* Paths, the swaps of each and the exchanges of these are lists.
IsList(s) == Len(s) \in Nat /\ DOMAIN s = 1..Len(s)
IsRoutePlan(route) ==
    /\ IsList(route.paths)
    /\ \A i \in DOMAIN route.paths :
        /\ IsList(route.paths[i].swaps)
        /\ \A j \in DOMAIN route.paths[i].swaps : IsList(route.paths[i].swaps[j].exchanges)

\* What is encoded for a route: each exchange and, if it has one, its fallback.
Legs(route) ==
    UNION {{<<pos, b>> : b \in DOMAIN Exchange(route, pos).quotes} : pos \in Positions(route)}

\* The order of WalkRoutePlan; a fallback comes right after its primary.
Before(a, b) ==
    \/ a[1][1] < b[1][1]
    \/ a[1][1] = b[1][1] /\ a[1][2] < b[1][2]
    \/ a[1][1] = b[1][1] /\ a[1][2] = b[1][2] /\ a[1][3] < b[1][3]
    \/ a[1] = b[1] /\ a[2] = "primary" /\ b[2] = "fallback"

IsMegaSwap(route) == Len(route.paths) > 1
IsMultiSwap(route) == Len(route.paths) = 1 /\ Len(route.paths[1].swaps) > 1
IsLastSwap(route, pos) == pos[2] = Len(route.paths[pos[1]].swaps)

-----------------------------------------------------------------------------

RouteExecutionType(route) ==
    LET path == route.paths[1]
        whole == Len(route.paths) = 1 /\ path.percent = 100
    IN  CASE whole /\ Len(path.swaps) = 1 /\ Len(path.swaps[1].exchanges) > 1 ->
                "VERTICAL_BRANCH"
          [] whole /\ Len(path.swaps) = 1 /\ Len(path.swaps[1].exchanges) <= 1 ->
                "SINGLE_STEP"
          [] whole /\ Len(path.swaps) > 1 ->
                IF \A pos \in Positions(route) : Exchange(route, pos).percent = 100
                THEN "HORIZONTAL_SEQUENCE"
                ELSE "VERTICAL_BRANCH_HORIZONTAL_SEQUENCE"
          [] Len(route.paths) > 1 -> "NESTED_VERTICAL_BRANCH_HORIZONTAL_SEQUENCE"
          [] OTHER -> "unsupported"

\* A route that only wraps the native token has an executor of its own.
IsSingleWrapRoute(route) ==
    /\ Len(route.paths) = 1
    /\ Len(route.paths[1].swaps) = 1
    /\ Len(route.paths[1].swaps[1].exchanges) = 1
    /\ Exchange(route, <<1, 1, 1>>).isWeth
    /\ route.src = ETH

\* "none": the shape is not implemented on that side.
DetectExecutor(route) ==
    LET type == RouteExecutionType(route) IN
    CASE IsSingleWrapRoute(route) -> "WETH"
      [] ~IsSingleWrapRoute(route) /\ route.side = "SELL"
           /\ type \in {"SINGLE_STEP", "HORIZONTAL_SEQUENCE"} -> "Executor01"
      [] ~IsSingleWrapRoute(route) /\ route.side = "SELL"
           /\ type \in {"VERTICAL_BRANCH", "VERTICAL_BRANCH_HORIZONTAL_SEQUENCE",
                        "NESTED_VERTICAL_BRANCH_HORIZONTAL_SEQUENCE"} -> "Executor02"
      [] ~IsSingleWrapRoute(route) /\ route.side = "BUY"
           /\ type \in {"SINGLE_STEP", "VERTICAL_BRANCH"} -> "Executor03"
      [] OTHER -> "none"

\* The same fences stand in the builder and in the resolved layer below it.
PassesFences(route, executor) ==
    /\ executor = "Executor02" => route.side = "SELL" /\ ~route.exactOut
    /\ executor = "Executor03" => route.side = "BUY" /\ route.exactOut
=============================================================================
