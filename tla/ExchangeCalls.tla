--------------------------- MODULE ExchangeCalls ---------------------------
(***************************************************************************)
(* What the bytecodes of the executors have in common: the calls of built  *)
(* exchanges, their flags and the steps around them.                       *)
(***************************************************************************)
EXTENDS TxBuilder, ExecutorVM

WrappedForm(token) == IF token = ETH THEN WETH ELSE token

\* A WETH token that the pool takes or returns as ETH.
UnwrapsSrc(swap, a) == a.unwrap /\ swap.src = WETH
WrapsDest(swap, a) == a.unwrap /\ swap.dest = WETH

\* Planned approve data is used unless the exchange is paid by a transfer.
MayApprove(p) == p.approve = "data" /\ ~p.answer.transferSrc /\ ~p.answer.skipApproval

\* A flag that sends ETH and inserts nothing (those that are 1 modulo 4).
SendsOnly(flag) == flag.send /\ ~flag.insert

\* NeedUnwrapNative overrides whatever else is said.
UnwrapFlag(swap, a, flag) ==
    IF UnwrapsSrc(swap, a) THEN Flag(TRUE, a.ethInsert /\ ~a.noInsert, "token")
    ELSE IF WrapsDest(swap, a) THEN Flag(FALSE, ~a.noInsert, "eth")
    ELSE flag

\* In a route of one swap; "keeps": the output stays on the executor.
SingleFlag(swap, a, keeps) ==
    UnwrapFlag(swap, a,
        IF swap.src = ETH /\ ~(a.wrap /\ "deposit" \in plan)
        THEN Flag(TRUE, a.ethInsert, IF a.hasRecipient THEN "none" ELSE "token")
        ELSE IF swap.dest = ETH /\ ~(a.wrap /\ "withdraw" \in plan)
        THEN Flag(FALSE, ~a.noInsert, "eth")
        ELSE Flag(FALSE, ~a.noInsert, IF keeps THEN "token" ELSE "none"))

\* In a longer one; "keeps": the output is measured for the next step.
MultiFlag(swap, a, keeps) ==
    UnwrapFlag(swap, a,
        IF swap.src = ETH /\ ~a.wrap
        THEN Flag(TRUE, a.ethInsert /\ ~a.noInsert, IF keeps THEN "token" ELSE "none")
        ELSE IF swap.dest = ETH /\ ~a.wrap
        THEN Flag(FALSE, ~(a.noInsert /\ a.hasRecipient), IF keeps THEN "eth" ELSE "none")
        ELSE Flag(FALSE, ~a.noInsert, IF keeps THEN "token" ELSE "none"))

\* The call of a built exchange: its encoder answered for the tokens of the swap
\* and the recipient that the builder asked for.
CallOf(swap, p, flag) ==
    LET a == p.answer IN
    DexStep(IF TakesNative(swap, a) THEN ETH ELSE WrappedForm(swap.src),
            IF a.transferSrc THEN "pool"
            ELSE IF TakesNative(swap, a) THEN "eth"
            ELSE IF a.skipApproval \/ p.approve = "already" THEN "granted"
            ELSE "needs",
            IF GivesNative(swap, a) THEN ETH ELSE WrappedForm(swap.dest),
            IF a.hasRecipient THEN p.recipient ELSE "executor",
            flag,
            WrappedForm(swap.dest))

TransferSrcStep(swap) == TransferStep(WrappedForm(swap.src), "pool")
=============================================================================
