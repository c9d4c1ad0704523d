---------------------------- MODULE MCTxBuilder ----------------------------
(* Routes of every shape that DetectExecutor tells apart, on either side,   *)
(* through the native token in either form at any point, two exchanges a    *)
(* swap or two paths, with and without a fallback.                          *)
EXTENDS TxBuilder, FiniteSets, TLC

CONSTANTS Eth, Weth, Usdc, Dai, Usdt

Amounts(src, dest) == [src |-> src, dest |-> dest]
Exch(percent, src, dest) ==
    [percent |-> percent, isWeth |-> FALSE, quotes |-> ("primary" :> Amounts(src, dest))]
ExchOr(percent, src, dest, other) ==
    [percent |-> percent, isWeth |-> FALSE,
     quotes |-> ("primary" :> Amounts(src, dest)) @@ ("fallback" :> Amounts(src, other))]
Hop(src, dest, exchanges) == [src |-> src, dest |-> dest, exchanges |-> exchanges]
Path(percent, swaps) == [percent |-> percent, swaps |-> swaps]
Route(side, exactOut, src, dest, paths) ==
    [side |-> side, exactOut |-> exactOut, minMax |-> 2, srcAmount |-> 1,
     src |-> src, dest |-> dest, paths |-> paths]

Ends == {<<Eth, Usdc>>, <<Weth, Usdc>>, <<Usdc, Eth>>, <<Usdc, Weth>>}
Middles == {Eth, Weth}

\* One swap: alone, with a fallback, split, and split with a fallback.
Splits == {<<Exch(100, 1, 1)>>, <<ExchOr(100, 1, 1, 2)>>,
           <<Exch(50, 1, 1), ExchOr(50, 1, 1, 1)>>}
OneSwapRoutes ==
    {Route(side, exactOut, e[1], e[2], <<Path(100, <<Hop(e[1], e[2], x)>>)>>) :
        side \in {"SELL", "BUY"}, exactOut \in BOOLEAN, e \in Ends, x \in Splits}
WrapRoute ==
    Route("SELL", FALSE, Eth, Weth, <<Path(100, <<Hop(Eth, Weth,
        <<[percent |-> 100, isWeth |-> TRUE, quotes |-> ("primary" :> Amounts(1, 1))]>>)>>)>>)

\* Two swaps through the native token, the first or the second split, so that
\* what one side wraps and the other unwraps may balance.
FirstSplit(m, x, y) ==
    Path(100, <<Hop(Usdc, m, <<Exch(50, 1, 1), x>>), Hop(m, Dai, <<y>>)>>)
SecondSplit(m, x) ==
    Path(100, <<Hop(Usdc, m, <<ExchOr(100, 2, 2, 1)>>), Hop(m, Dai, <<Exch(50, 1, 1), x>>)>>)
TwoSwapRoutes ==
    {Route("SELL", FALSE, Usdc, Dai, <<p>>) :
        p \in {FirstSplit(m, x, y) : m \in Middles, x \in {Exch(50, 1, 1), ExchOr(50, 1, 1, 1)},
                                    y \in {Exch(100, 2, 2), ExchOr(100, 2, 2, 2)}}
              \union {SecondSplit(m, Exch(50, 1, 1)) : m \in Middles}}

\* Two paths, one of them through the native token.
MegaRoutes ==
    {Route("SELL", FALSE, Usdc, Dai,
        <<Path(50, <<Hop(Usdc, m, <<ExchOr(100, 1, 1, 1)>>), Hop(m, Dai, <<Exch(100, 1, 1)>>)>>),
          Path(50, <<Hop(Usdc, Weth, <<Exch(100, 1, 1)>>), Hop(Weth, Dai, <<Exch(100, 1, 1)>>)>>)>>)
        : m \in Middles}
\* Shapes that nothing implements.
Unsupported ==
    {Route("BUY", TRUE, Usdc, Dai,
        <<Path(100, <<Hop(Usdc, Usdt, <<Exch(100, 1, 1)>>), Hop(Usdt, Dai, <<Exch(100, 1, 1)>>)>>)>>),
     Route("SELL", FALSE, Usdc, Dai, <<Path(90, <<Hop(Usdc, Dai, <<Exch(100, 1, 1)>>)>>)>>)}

AllRoutes == OneSwapRoutes \union {WrapRoute} \union TwoSwapRoutes \union MegaRoutes
             \union Unsupported

FormsAndTransfers ==
    {a \in AnswerType : a.hasRecipient /\ ~a.skipApproval /\ ~a.ethInsert /\ ~a.noInsert}
=============================================================================
