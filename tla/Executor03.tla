----------------------------- MODULE Executor03 -----------------------------
(***************************************************************************)
(* Executor03: the bytecode of a BUY in one swap, split over exchanges, and *)
(* what becomes of the funds when it runs.                                 *)
(*                                                                         *)
(* The bytecode is a block per exchange, in an order of its own.  Each     *)
(* exchange takes its share of the source funds.  All outputs stay on the  *)
(* executor, which itself sends the destination token on once the bytecode *)
(* has run, and unwraps what wrapped source is left.                       *)
(***************************************************************************)
EXTENDS ExchangeCalls, FiniteSets

Stages == <<"approveWeth", "deposit", "approve", "transferSrc", "unwrapSrc", "dex",
            "wrapDest", "withdraw">>
End == Len(Stages) + 1

VARIABLES
    turn,      \* index of the block that runs
    stage,     \* index of the step of it that runs
    machine,   \* the share of the exchange that runs
    returned,  \* the outputs of the blocks that have run
    outcome    \* "building", "running", "done" or "reverted"

runVars == <<turn, stage, machine, returned, outcome>>
vars == <<buildVars, runVars>>

TheSwap == route.paths[1].swaps[1]
ParamOf(k) == param[<<<<1, 1, k>>, "primary">>]
Wraps(k) == ParamOf(k).answer.wrap

\* The routes that Executor03 is for, as far as it serves them: fallbacks, which
\* it ignores, are left out.
BoughtInOneSwap(r) ==
    LET swap == r.paths[1].swaps[1] IN
    /\ r.side = "BUY"
    /\ DOMAIN r.paths = {1}
    /\ DOMAIN r.paths[1].swaps = {1} /\ Len(r.paths[1].swaps) = 1
    /\ Len(swap.exchanges) \in Nat \ {0} /\ DOMAIN swap.exchanges = 1..Len(swap.exchanges)
    /\ \A k \in DOMAIN swap.exchanges : DOMAIN swap.exchanges[k].quotes = {"primary"}
    /\ swap.src \in Tokens /\ r.src = swap.src
    /\ swap.dest \in Tokens /\ r.dest = swap.dest

ExchangeIndexes == DOMAIN TheSwap.exchanges

\* Mutant: exchanges keep the order of the route.
RoutedOrder == [i \in ExchangeIndexes |-> i]

\* Exchanges that work in ETH come first, last one first; then those that work
\* in WETH, in the order of the route.
ComesBefore(j, k) ==
    \/ ~Wraps(j) /\ Wraps(k)
    \/ ~Wraps(j) /\ ~Wraps(k) /\ j > k
    \/ Wraps(j) /\ Wraps(k) /\ j < k

Rank(k) == Cardinality({j \in ExchangeIndexes : ComesBefore(j, k)}) + 1

Ordered == [i \in ExchangeIndexes |-> CHOOSE k \in ExchangeIndexes : Rank(k) = i]

-----------------------------------------------------------------------------
(* The flag of an exchange call. *)

AnyWithoutRecipient ==
    \E k \in DOMAIN TheSwap.exchanges : ~ParamOf(k).answer.hasRecipient

\* Mutant: the output of a pool that returns ETH for WETH is not measured as such.
DexFlagUnmeasured(k) ==
    LET a == ParamOf(k).answer
        needWrap == a.wrap /\ "deposit" \in plan
        needUnwrap == a.wrap /\ "withdraw" \in plan
        check == CASE TheSwap.dest = ETH -> IF needUnwrap THEN "token" ELSE "eth"
                   [] OTHER -> IF AnyWithoutRecipient THEN "token" ELSE "none"
    IN  IF UnwrapsSrc(TheSwap, a) THEN Flag(TRUE, FALSE, "token")
        ELSE IF TheSwap.src = ETH /\ ~needWrap
        THEN Flag(TRUE, a.ethInsert /\ ~a.noInsert, IF a.hasRecipient THEN "none" ELSE "token")
        ELSE Flag(FALSE, ~a.noInsert, check)

\* One exchange that names no recipient has every output measured.
DexFlag(k) ==
    LET a == ParamOf(k).answer
        needWrap == a.wrap /\ "deposit" \in plan
        needUnwrap == a.wrap /\ "withdraw" \in plan
        check == CASE TheSwap.dest = ETH -> IF needUnwrap THEN "token" ELSE "eth"
                   [] OTHER -> IF AnyWithoutRecipient THEN "token" ELSE "none"
    IN  IF UnwrapsSrc(TheSwap, a) THEN Flag(TRUE, FALSE, "token")
        ELSE IF WrapsDest(TheSwap, a) THEN Flag(FALSE, ~a.noInsert, "eth")
        ELSE IF TheSwap.src = ETH /\ ~needWrap
        THEN Flag(TRUE, a.ethInsert /\ ~a.noInsert, IF a.hasRecipient THEN "none" ELSE "token")
        ELSE Flag(FALSE, ~a.noInsert, check)

-----------------------------------------------------------------------------
(* The steps of a block. *)

Deposits(k) == Wraps(k) /\ "deposit" \in plan /\ TheSwap.src = ETH

\* Mutant: a call that carries ETH is taken for one that only sends it.
ApprovesSourceUnlessInserted(k) ==
    TheSwap.src # ETH /\ DexFlag(k).insert /\ MayApprove(ParamOf(k))

ApprovesSource(k) ==
    TheSwap.src # ETH /\ ~SendsOnly(DexFlag(k)) /\ MayApprove(ParamOf(k))

Has(i, s) ==
    LET k == Ordered[i]
        a == ParamOf(k).answer
    IN
    CASE s = "approveWeth" -> Deposits(k) /\ MayApprove(ParamOf(k))
      [] s = "deposit" -> Deposits(k)
      [] s = "approve" -> ApprovesSource(k)
      [] s = "transferSrc" -> a.transferSrc
      [] s = "unwrapSrc" -> UnwrapsSrc(TheSwap, a)
      [] s = "dex" -> TRUE
      [] s = "wrapDest" -> WrapsDest(TheSwap, a)
      [] s = "withdraw" -> i = Len(TheSwap.exchanges) /\ TheSwap.dest = ETH /\ "withdraw" \in plan

\* The first step of a block from index j on.
StepFrom(i, j) ==
    CHOOSE n \in j..End :
        /\ n = End \/ Has(i, Stages[n])
        /\ \A m \in j..(n - 1) : ~Has(i, Stages[m])

StepAt(i, s) ==
    CASE s \in {"approveWeth", "approve"} -> ApproveStep
      [] s \in {"deposit", "wrapDest"} -> WrapStep
      [] s \in {"unwrapSrc", "withdraw"} -> UnwrapStep
      [] s = "transferSrc" -> TransferSrcStep(TheSwap)
      [] s = "dex" -> CallOf(TheSwap, ParamOf(Ordered[i]), DexFlag(Ordered[i]))

-----------------------------------------------------------------------------
(* Running the bytecode. *)

Current == StepAt(turn, Stages[stage])
Running == outcome = "running" /\ stage < End

Share == [held |-> route.src, at |-> "executor", exact |-> TRUE, granted |-> FALSE]

RunInit ==
    /\ Init
    /\ turn = 1
    /\ stage = 1
    /\ machine = Share
    /\ returned = {}
    /\ outcome = "building"

Start ==
    /\ outcome = "building" /\ phase = "built" /\ label = "Executor03"
    /\ outcome' = "running"
    /\ stage' = StepFrom(1, 1)
    /\ UNCHANGED <<buildVars, turn, machine, returned>>

\* The withdrawal at the end unwraps what all exchanges have returned.
Step ==
    /\ Running
    /\ FindsFunds(machine, Current)
    /\ IsGranted(machine, Current)
    /\ machine' = Apply(machine, Current)
    /\ returned' = IF Stages[stage] = "withdraw"
                   THEN {[out EXCEPT !.held = ETH] : out \in returned}
                   ELSE returned
    /\ stage' = StepFrom(turn, stage + 1)
    /\ UNCHANGED <<buildVars, turn, outcome>>

EndBlock ==
    /\ outcome = "running" /\ stage = End
    /\ returned' = returned \union {[held |-> machine.held, at |-> machine.at]}
    /\ IF turn < Len(TheSwap.exchanges)
       THEN /\ turn' = turn + 1
            /\ stage' = StepFrom(turn + 1, 1)
            /\ machine' = Share
            /\ UNCHANGED outcome
       ELSE /\ outcome' = "done"
            /\ UNCHANGED <<turn, stage, machine>>
    /\ UNCHANGED buildVars

Revert ==
    /\ Running
    /\ \/ Current.op = "dex"
       \/ ~FindsFunds(machine, Current)
       \/ ~IsGranted(machine, Current)
    /\ outcome' = "reverted"
    /\ UNCHANGED <<buildVars, turn, stage, machine, returned>>

Run == Start \/ Step \/ EndBlock \/ Revert

Next == (Build /\ UNCHANGED runVars) \/ Run

SwapSpec == RunInit /\ [][Next]_vars

-----------------------------------------------------------------------------
(* Properties. *)

RunTypeOK ==
    /\ TypeOK
    /\ turn \in DOMAIN TheSwap.exchanges
    /\ stage \in 1..End
    /\ machine \in Machines
    /\ returned \subseteq [held : Tokens, at : Places]
    /\ outcome \in {"building", "running", "done", "reverted"}

\* Every step finds its share where it takes it from and in the form it takes:
\* in particular the one withdrawal, which comes behind the last block, works on
\* the threaded output of that block, so that block must have returned WETH if
\* any has (orderExchanges puts exchanges that work in WETH last).
StepsFindFunds == Running => FindsFunds(machine, Current)

\* An exchange that pulls its share has been granted it in its own block.
PullsAreGranted == Running => IsGranted(machine, Current)

\* A step that works on the threaded amount works on what is there.
AmountsAreThreaded == Running => IsExact(machine, Current)

\* When the bytecode has run, the outputs of all exchanges, of whatever mix of
\* forms, are on the executor and are the token that it sends on.
OutputsAreInForm ==
    outcome = "done" => returned = {[held |-> route.dest, at |-> "executor"]}
=============================================================================
