---------------------------- MODULE MCExecutor02 ----------------------------
(* SELLs split over two exchanges of a swap, in a route of one or two swaps, *)
(* or over two paths, through the native token in either of its forms.       *)
EXTENDS Executor02, TLC

CONSTANTS Eth, Weth, Usdc, Dai

Same(amount) == [src |-> amount, dest |-> amount]
Share(percent, quotes) == [percent |-> percent, isWeth |-> FALSE, quotes |-> quotes]
Half(quotes) == Share(50, quotes)
Whole(quotes) == Share(100, quotes)
Alone == "primary" :> Same(1)
Twice == "primary" :> Same(2)
WithFallback == Alone @@ ("fallback" :> Same(1))
TwiceWithFallback == Twice @@ ("fallback" :> Same(2))

Hop(src, dest, exchanges) == [src |-> src, dest |-> dest, exchanges |-> exchanges]
Path(percent, swaps) == [percent |-> percent, swaps |-> swaps]
Sell(paths) ==
    LET swaps == paths[1].swaps IN
    [side |-> "SELL", exactOut |-> FALSE, minMax |-> 1, srcAmount |-> 1,
     src |-> swaps[1].src, dest |-> swaps[Len(swaps)].dest, paths |-> paths]

Halves == <<Half(Alone), Half(Alone)>>
FirstFallsBack == <<Half(WithFallback), Half(Alone)>>
SecondFallsBack == <<Half(Alone), Half(WithFallback)>>
Thirds == <<Share(34, Alone), Share(33, Alone), Share(33, Alone)>>

\* One swap, split.
Ends == {<<Eth, Usdc>>, <<Weth, Usdc>>, <<Usdc, Eth>>, <<Usdc, Weth>>}
OneSwap ==
    {Sell(<<Path(100, <<Hop(e[1], e[2], x)>>)>>) :
        e \in Ends, x \in {Halves, FirstFallsBack, SecondFallsBack, Thirds}}

\* Two swaps, one of them split and at most one fallback, or both split.
Tracks == {<<Eth, Dai, Usdc>>, <<Weth, Dai, Usdc>>, <<Usdc, Eth, Dai>>, <<Usdc, Weth, Dai>>,
           <<Usdc, Dai, Eth>>, <<Usdc, Dai, Weth>>}
Along(t, x, y) == Sell(<<Path(100, <<Hop(t[1], t[2], x), Hop(t[2], t[3], y)>>)>>)
HalvesAndWhole ==
    ({Halves, FirstFallsBack, SecondFallsBack} \X {<<Whole(Twice)>>})
    \union {<<Halves, <<Whole(TwiceWithFallback)>>>>}
TwoSwaps ==
    {Along(t, x[1], x[2]) : t \in Tracks, x \in HalvesAndWhole \union {<<Halves, Halves>>}}
    \union {Along(t, x[2], x[1]) : t \in Tracks, x \in HalvesAndWhole}

\* Two paths: one of two swaps with at most one fallback, and another of one swap.
TwoLegs(t, x, y) == Path(50, <<Hop(t[1], t[2], <<Whole(x)>>), Hop(t[2], t[3], <<Whole(y)>>)>>)
Direct(t, exchanges) == Path(50, <<Hop(t[1], t[3], exchanges)>>)
Beside(t, long) ==
    {Sell(<<long, Direct(t, <<Whole(Alone)>>)>>), Sell(<<Direct(t, <<Whole(Alone)>>), long>>)}
TwoPaths ==
    UNION {Beside(t, TwoLegs(t, x[1], x[2])) : t \in Tracks,
            x \in {<<Alone, Alone>>, <<WithFallback, Alone>>, <<Alone, WithFallback>>}}
    \union {Sell(<<TwoLegs(t, Alone, Alone), Direct(t, x)>>) : t \in Tracks,
            x \in {<<Whole(WithFallback)>>, Halves}}

\* A swap that returns ETH, split, on a path beside another.
SplitBeside ==
    LET t == <<Usdc, Eth, Dai>> IN
    {Sell(<<Path(50, <<Hop(t[1], t[2], Halves), Hop(t[2], t[3], <<Whole(Alone)>>)>>),
            TwoLegs(t, Alone, Alone)>>)}

SplitRoutes == OneSwap \union TwoSwaps \union TwoPaths \union SplitBeside

\* They are of those that Executor02's theorems are about.
ASSUME CheckedRoutes == \A r \in SplitRoutes : SoldOverPaths(r)

\* What decides about forms and places; amounts are in the calldata.
CoreAnswers == {a \in AnswerType : ~a.skipApproval /\ ~a.ethInsert /\ ~a.noInsert}
FormAnswers == {a \in CoreAnswers : ~a.transferSrc}

\* Exchanges that are paid by a transfer only where there is one swap.
Focused == Several => \A leg \in DOMAIN param : param[leg].answer \in FormAnswers
FocusedSpec == RunInit /\ [][Next /\ Focused']_vars
=============================================================================
