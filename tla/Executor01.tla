----------------------------- MODULE Executor01 -----------------------------
(***************************************************************************)
(* Executor01: the bytecode of a SELL along one path, one exchange a swap, *)
(* and what becomes of the funds when it runs.                             *)
(*                                                                         *)
(* The bytecode is a sequence of blocks, one per swap and a trailer.  A    *)
(* block has its steps in the order of Stages, each there or not: the      *)
(* builder prepends and appends them to the exchange call.  A swap with a  *)
(* fallback is a group of two blocks: the contract runs the first and, if  *)
(* it reverts, the second from the state before the group.                 *)
(***************************************************************************)
EXTENDS ExchangeCalls

Stages == <<"approveWeth", "deposit", "approve", "transferSrc", "unwrapSrc", "dex",
            "wrapDest", "withdraw", "forward", "sendNative", "normalize">>
DexStage == CHOOSE i \in DOMAIN Stages : Stages[i] = "dex"
End == Len(Stages) + 1

VARIABLES
    hop,       \* the swap whose block runs; one past the last for the trailer
    branch,    \* the block of the group that runs
    stage,     \* index of the step that runs
    machine,   \* the contract's state
    saved,     \* its state before the group
    outcome    \* "building", "running", "done" or "reverted"

runVars == <<hop, branch, stage, machine, saved, outcome>>
vars == <<buildVars, runVars>>

Hops(r) == Len(r.paths[1].swaps)
SwapAt(h) == route.paths[1].swaps[h]
LegOf(h, b) == <<<<1, h, 1>>, b>>
HasFallback(h) == LegOf(h, "fallback") \in DOMAIN param
ParamOf(h, b) == param[LegOf(h, b)]
AnswerOf(h, b) == ParamOf(h, b).answer

\* The routes that Executor01 is for: along one path, one exchange a swap.
SoldAlongOnePath(r) ==
    LET swaps == r.paths[1].swaps IN
    /\ DOMAIN r.paths = {1} /\ Len(r.paths) = 1
    /\ Len(swaps) \in Nat \ {0} /\ DOMAIN swaps = 1..Len(swaps)
    /\ \A h \in DOMAIN swaps : /\ DOMAIN swaps[h].exchanges = {1}
                               /\ swaps[h].src \in Tokens /\ swaps[h].dest \in Tokens
    /\ r.src = swaps[1].src /\ r.dest = swaps[Len(swaps)].dest

\* Neighbours are primaries, for a fallback too.
PrevWraps(h) == h > 1 /\ AnswerOf(h - 1, "primary").wrap
NextWraps(h) == h < Hops(route) /\ AnswerOf(h + 1, "primary").wrap

-----------------------------------------------------------------------------
(* The flag of an exchange call. *)

SimpleSwapFlag(swap, p) ==
    SingleFlag(swap, p.answer, ~p.answer.hasRecipient \/ p.toExecutor \/ swap.dest = ETH)

\* Mutant: a redirected fallback's output is not measured.
MultiSwapFlagUnmeasured(swap, p, isLast) ==
    LET a == p.answer IN
    MultiFlag(swap, a,
        ~isLast \/ ~a.hasRecipient \/ (a.wrap /\ swap.dest = ETH /\ "withdraw" \in plan))

\* Every output but that of a last exchange that delivers is measured.
MultiSwapFlag(swap, p, isLast) ==
    LET a == p.answer IN
    MultiFlag(swap, a,
        ~isLast \/ ~a.hasRecipient \/ p.toExecutor
        \/ (a.wrap /\ swap.dest = ETH /\ "withdraw" \in plan))

DexFlag(h, b) ==
    IF IsMultiSwap(route)
    THEN MultiSwapFlag(SwapAt(h), ParamOf(h, b), h = Hops(route))
    ELSE SimpleSwapFlag(SwapAt(h), ParamOf(h, b))

-----------------------------------------------------------------------------
(* The steps of a block. *)

\* A primary or fallback ends mid-route in WETH when it is left for the next hop.
EndsInWeth(h, b) ==
    AnswerOf(h, b).wrap /\ ~("withdraw" \in plan /\ ~NextWraps(h))

Deposits(h, b) ==
    AnswerOf(h, b).wrap /\ "deposit" \in plan /\ SwapAt(h).src = ETH /\ ~PrevWraps(h)

\* Mutant: ETH is never approved, even where it arrives as WETH.
ApprovesSourceUnlessEth(h, b) ==
    /\ ~SendsOnly(DexFlag(h, b))
    /\ SwapAt(h).src # ETH
    /\ MayApprove(ParamOf(h, b))

\* From the second swap on, ETH may arrive as WETH.
ApprovesSource(h, b) ==
    /\ ~SendsOnly(DexFlag(h, b))
    /\ SwapAt(h).src # ETH \/ h > 1
    /\ MayApprove(ParamOf(h, b))

\* Mutant: the primary is not looked at for its form.
GroupHandlesNativeSendAnyForm(h) ==
    /\ HasFallback(h)
    /\ route.dest = ETH
    /\ AnswerOf(h, "fallback").wrap
    /\ AnswerOf(h, "primary").hasRecipient

\* The fallback sends its native output itself, as the primary delivers.
GroupHandlesNativeSend(h) ==
    /\ HasFallback(h)
    /\ route.dest = ETH
    /\ AnswerOf(h, "fallback").wrap
    /\ ~AnswerOf(h, "primary").wrap
    /\ AnswerOf(h, "primary").hasRecipient

BlockHas(h, b, s) ==
    LET p == ParamOf(h, b)
        a == p.answer
        swap == SwapAt(h)
        last == h = Hops(route)
    IN
    CASE s = "approveWeth" -> Deposits(h, b) /\ MayApprove(p)
      [] s = "deposit" -> Deposits(h, b)
      [] s = "approve" -> ApprovesSource(h, b)
      [] s = "transferSrc" -> a.transferSrc
      [] s = "unwrapSrc" -> UnwrapsSrc(swap, a)
      [] s = "dex" -> TRUE
      [] s = "wrapDest" -> WrapsDest(swap, a)
      [] s = "withdraw" -> a.wrap /\ "withdraw" \in plan /\ swap.dest = ETH /\ ~NextWraps(h)
      [] s = "forward" ->
            /\ b = "fallback" /\ last /\ route.dest # ETH
            /\ AnswerOf(h, "primary").hasRecipient /\ ~a.hasRecipient
      [] s = "sendNative" -> b = "fallback" /\ last /\ swap.dest = ETH /\ GroupHandlesNativeSend(h)
      [] s = "normalize" ->
            /\ b = "fallback" /\ ~last /\ swap.dest = ETH
            /\ EndsInWeth(h, "primary") # EndsInWeth(h, "fallback")

\* Mutant: the route-level send is not suppressed behind a group.
TrailerHasBothSends(s) ==
    LET a == AnswerOf(Hops(route), "primary") IN
    CASE s = "forward" -> ~a.hasRecipient /\ route.dest # ETH
      [] s = "sendNative" -> route.dest = ETH /\ ("withdraw" \in plan \/ ~a.hasRecipient)
      [] OTHER -> FALSE

\* Outputs that stayed on the executor are forwarded after the last block.
TrailerHas(s) ==
    LET a == AnswerOf(Hops(route), "primary") IN
    CASE s = "forward" -> ~a.hasRecipient /\ route.dest # ETH
      [] s = "sendNative" ->
            /\ route.dest = ETH
            /\ ~GroupHandlesNativeSend(Hops(route))
            /\ "withdraw" \in plan \/ ~a.hasRecipient
      [] OTHER -> FALSE

Has(h, b, s) == IF h > Hops(route) THEN TrailerHas(s) ELSE BlockHas(h, b, s)

\* The first step of a block from index i on.
StepFrom(h, b, i) ==
    CHOOSE j \in i..End :
        /\ j = End \/ Has(h, b, Stages[j])
        /\ \A k \in i..(j - 1) : ~Has(h, b, Stages[k])

StepAt(h, b, s) ==
    CASE s \in {"approveWeth", "approve"} -> ApproveStep
      [] s \in {"deposit", "wrapDest"} -> WrapStep
      [] s \in {"unwrapSrc", "withdraw"} -> UnwrapStep
      [] s = "transferSrc" -> TransferSrcStep(SwapAt(h))
      [] s = "dex" -> CallOf(SwapAt(h), ParamOf(h, b), DexFlag(h, b))
      [] s = "forward" -> TransferStep(route.dest, "augustus")
      [] s = "sendNative" -> SendNativeStep
      [] s = "normalize" -> IF EndsInWeth(h, "fallback") THEN UnwrapStep ELSE WrapStep

-----------------------------------------------------------------------------
(* Running the bytecode. *)

Current == StepAt(hop, branch, Stages[stage])
Running == outcome = "running" /\ stage < End

RunInit ==
    /\ Init
    /\ hop = 1
    /\ branch = "primary"
    /\ stage = 1
    /\ machine = [held |-> route.src, at |-> "executor", exact |-> TRUE, granted |-> FALSE]
    /\ saved = machine
    /\ outcome = "building"

\* Augustus hands the user's funds to the executor together with the bytecode.
Start ==
    /\ outcome = "building" /\ phase = "built" /\ label = "Executor01"
    /\ outcome' = "running"
    /\ stage' = StepFrom(1, "primary", 1)
    /\ UNCHANGED <<buildVars, hop, branch, machine, saved>>

Step ==
    /\ Running
    /\ FindsFunds(machine, Current)
    /\ IsGranted(machine, Current)
    /\ machine' = Apply(machine, Current)
    /\ stage' = StepFrom(hop, branch, stage + 1)
    /\ UNCHANGED <<buildVars, hop, branch, saved, outcome>>

NextBlock ==
    /\ outcome = "running" /\ stage = End /\ hop <= Hops(route)
    /\ hop' = hop + 1
    /\ branch' = "primary"
    /\ stage' = StepFrom(hop + 1, "primary", 1)
    /\ machine' = [machine EXCEPT !.granted = FALSE]
    /\ saved' = machine'
    /\ UNCHANGED <<buildVars, outcome>>

Finish ==
    /\ outcome = "running" /\ stage = End /\ hop > Hops(route)
    /\ outcome' = "done"
    /\ UNCHANGED <<buildVars, hop, branch, stage, machine, saved>>

\* An exchange may revert for the market's reasons; any step reverts that does
\* not find what it needs.  The first block of a group gives way to the second.
Revert ==
    /\ Running
    /\ \/ Current.op = "dex"
       \/ ~FindsFunds(machine, Current)
       \/ ~IsGranted(machine, Current)
    /\ IF hop <= Hops(route) /\ HasFallback(hop) /\ branch = "primary"
       THEN /\ branch' = "fallback"
            /\ machine' = saved
            /\ stage' = StepFrom(hop, "fallback", 1)
            /\ UNCHANGED outcome
       ELSE /\ outcome' = "reverted"
            /\ UNCHANGED <<branch, machine, stage>>
    /\ UNCHANGED <<buildVars, hop, saved>>

Run == Start \/ Step \/ NextBlock \/ Finish \/ Revert

Next == (Build /\ UNCHANGED runVars) \/ Run

SwapSpec == RunInit /\ [][Next]_vars

-----------------------------------------------------------------------------
(* Properties. *)

RunTypeOK ==
    /\ TypeOK
    /\ hop \in 1..(Hops(route) + 1)
    /\ branch \in Branches
    /\ stage \in 1..End
    /\ machine \in Machines
    /\ saved \in Machines
    /\ outcome \in {"building", "running", "done", "reverted"}

\* Every step finds the funds where it takes them from and in the form it
\* takes, and ETH is sent along exactly to the exchanges that take ETH: no
\* block relies on a wrap, unwrap or transfer that another block, a dropped
\* WETH plan or the trailer was to do.
StepsFindFunds == Running => FindsFunds(machine, Current)

\* An exchange that pulls its source has been granted it in the same block:
\* the approval of a reverted block is gone, and a fallback has its own target.
PullsAreGranted == Running => IsGranted(machine, Current)

\* A step that works on the threaded amount works on what is there: each output
\* that a later step uses has been measured, in the form it came in.
AmountsAreThreaded == Running => IsExact(machine, Current)

\* When the bytecode has run, Augustus has the funds in the form the user asked
\* for, whichever branches ran.
FundsAreDelivered ==
    outcome = "done" => machine.at = "augustus" /\ machine.held = route.dest

\* Running the bytecode is running the route: each swap is made once, in order,
\* by one of its two branches, and only what has gone through all is delivered.
SwapsMade ==
    IF hop > Hops(route) THEN Hops(route)
    ELSE IF stage > DexStage THEN hop ELSE hop - 1

Flow == INSTANCE RouteFlow WITH
    swapped <- SwapsMade,
    held <- machine.held,
    place <- IF machine.at = "pool" THEN "executor" ELSE machine.at

ImplementsRouteFlow == Flow!FlowSpec
=============================================================================
