---------------------------- MODULE MCExecutor03 ----------------------------
(* BUYs in one swap from or to the native token in either of its forms,     *)
(* split over up to three exchanges.                                        *)
EXTENDS Executor03, TLC

CONSTANTS Eth, Weth, Usdc

\* Two units at most for one quoted.
Buy(src, dest, exchanges) ==
    [side |-> "BUY", exactOut |-> TRUE, minMax |-> 2, srcAmount |-> 1, src |-> src, dest |-> dest,
     paths |-> <<[percent |-> 100,
                  swaps |-> <<[src |-> src, dest |-> dest, exchanges |-> exchanges]>>]>>]

Same(amount) == [src |-> amount, dest |-> amount]
Exch(quotes) == [percent |-> 50, isWeth |-> FALSE, quotes |-> quotes]
Alone == Exch("primary" :> Same(1))
WithFallback == Exch(("primary" :> Same(1)) @@ ("fallback" :> Same(1)))

Ends == {<<Eth, Usdc>>, <<Weth, Usdc>>, <<Usdc, Eth>>, <<Usdc, Weth>>}
NativeEnds == {<<Eth, Usdc>>, <<Usdc, Eth>>}
Split(n, ends) == {Buy(e[1], e[2], [k \in 1..n |-> Alone]) : e \in ends}

\* Only where ETH is an end does the order of blocks matter.
UpToThree == Split(1, Ends) \union Split(2, Ends) \union Split(3, NativeEnds)
WithFallbacks == {Buy(e[1], e[2], <<WithFallback>>) : e \in Ends}

\* Where the amount is not found in the calldata, it is not inserted with ETH either:
\* the flags of both answers are the same.
FlagAnswers == {a \in AnswerType : ~a.skipApproval /\ ~(a.noInsert /\ a.ethInsert)}
FormAnswers ==
    {a \in AnswerType : ~a.skipApproval /\ ~a.ethInsert /\ ~a.noInsert /\ ~a.transferSrc}

\* The theorems about Executor03 speak of routes like these.
ASSUME BuyAssumption == \A r \in Routes : BoughtInOneSwap(r)
=============================================================================
