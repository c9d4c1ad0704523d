---------------------------- MODULE MCExecutor01 ----------------------------
(* Routes of one, two and three swaps through the native token in either of *)
(* its forms, with and without fallbacks.                                   *)
EXTENDS Executor01, TLC

CONSTANTS Eth, Weth, Usdc, Dai, Usdt

Plain(src, dest) == [src |-> src, dest |-> dest]
Same(amount) == [src |-> amount, dest |-> amount]
Single(src, dest, quotes) ==
    [src |-> src, dest |-> dest,
     exchanges |-> <<[percent |-> 100, isWeth |-> FALSE, quotes |-> quotes]>>]

Sell(swaps) ==
    [side |-> "SELL", exactOut |-> FALSE, minMax |-> 1, srcAmount |-> 1,
     src |-> swaps[1].src, dest |-> swaps[Len(swaps)].dest,
     paths |-> <<[percent |-> 100, swaps |-> swaps]>>]

Alone == ("primary" :> Same(1))
WithFallback == ("primary" :> Same(1)) @@ ("fallback" :> Same(1))
\* Returns another amount than its primary, so that the sums of a WETH plan that
\* would balance do not, or the other way round.
WithBetterFallback == ("primary" :> Same(1)) @@ ("fallback" :> [src |-> 1, dest |-> 2])

\* Paths through the native token in one of its forms, at any point, or not.
Paths(n) ==
    LET others == <<Usdc, Dai, Usdt, Usdc>> IN
    {[i \in 1..n |-> IF i = at THEN native ELSE others[i]] : at \in 0..n, native \in {Eth, Weth}}

Along(path, quotes) ==
    Sell([i \in 1..(Len(path) - 1) |-> Single(path[i], path[i + 1], quotes[i])])

RoutesOf(hops, anyQuotes) ==
    {Along(path, quotes) : path \in Paths(hops + 1), quotes \in [1..hops -> anyQuotes]}

OneSwap == RoutesOf(1, {Alone, WithFallback})
TwoSwaps == RoutesOf(2, {Alone, WithFallback, WithBetterFallback})
\* At most one fallback: the neighbours that a block looks at are primaries.
ThreeSwaps ==
    {Along(path, [i \in 1..3 |-> IF i = at THEN WithFallback ELSE Alone]) :
        path \in Paths(4), at \in 0..3}
UpToThreeSwaps == OneSwap \union TwoSwaps \union ThreeSwaps

AllAnswers == AnswerType
\* What decides about forms and places; amounts are in the calldata.
CoreAnswers == {a \in AnswerType : ~a.skipApproval /\ ~a.ethInsert /\ ~a.noInsert}
FormAnswers == {a \in CoreAnswers : ~a.transferSrc}

Focused ==
    IsMultiSwap(route) => \A leg \in DOMAIN param : param[leg].answer \in FormAnswers
FocusedSpec == RunInit /\ [][Next /\ Focused']_vars

\* The theorems about Executor01 speak of routes like these.
ASSUME PathAssumption == \A r \in Routes : SoldAlongOnePath(r)
=============================================================================
