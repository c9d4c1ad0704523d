----------------------------- MODULE TxBuilder -----------------------------
(***************************************************************************)
(* builder.BuildGeneric up to the encoding of the bytecode: classify the   *)
(* route, resolve every exchange and fallback with its DEX encoder, plan   *)
(* the wrapping of the native token, plan the approvals.                   *)
(*                                                                         *)
(* A build calls services it does not control: a DEX encoder per leg, the  *)
(* WETH provider, the approval checker.  Their answers are chosen freely,  *)
(* within the contract that Consistent and Compatible name, and each may   *)
(* fail, which fails the build.                                            *)
(***************************************************************************)
EXTENDS PriceRoutes

CONSTANTS
    Routes,     \* the price routes to build
    Answers,    \* what a DEX encoder may answer for a leg
    Decisions,  \* what the approval checker may answer, a set of BOOLEANs
    Assumed     \* the parts of Compatible that are relied on

AnswerType == [wrap : BOOLEAN,          \* NeedWrapNative: the pool holds WETH, not ETH
               unwrap : BOOLEAN,        \* NeedUnwrapNative: the pool holds ETH, not WETH
               hasRecipient : BOOLEAN,  \* DexFuncHasRecipient
               transferSrc : BOOLEAN,   \* TransferSrcTokenBeforeSwap is set
               skipApproval : BOOLEAN,  \* SkipApproval
               ethInsert : BOOLEAN,     \* SendEthButSupportsInsertFromAmount
               noInsert : BOOLEAN]      \* amount not in the calldata, or special dex

ParamType == [answer : AnswerType,
              recipient : {"executor", "augustus"},
              toExecutor : BOOLEAN,     \* ExecutorIsDestReceiver
              approve : {"none", "already", "data"}]

\* A pricing route moves something on every leg, and no less than its quote on a
\* BUY; its swaps trade one token for another and follow each other; and it does
\* not come back to ETH: one that starts in ETH does not pass through it again, one
\* that ends in ETH has not been there before.
WellFormed(r) ==
    /\ r.side \in {"SELL", "BUY"}
    /\ r.minMax \in Nat /\ r.srcAmount \in Nat
    /\ r.side = "BUY" => r.srcAmount <= r.minMax
    /\ \A leg \in Legs(r) : leg[2] \in Branches
    /\ \A leg \in Legs(r) : Quote(r, leg) \in [src : Nat \ {0}, dest : Nat \ {0}]
    /\ \A p \in Positions(r) :
        /\ p \in (Nat \ {0}) \X (Nat \ {0}) \X (Nat \ {0})
        /\ <<p, "primary">> \in Legs(r)
        /\ Swap(r, p).src # Swap(r, p).dest
        /\ p[2] > 1 => \E q \in Positions(r) : q[1] = p[1] /\ q[2] = p[2] - 1
        /\ ~IsLastSwap(r, p) => \E q \in Positions(r) : q[1] = p[1] /\ q[2] = p[2] + 1
    /\ \A p, q \in Positions(r) :
        /\ p[1] = q[1] /\ q[2] = p[2] + 1 => Swap(r, p).dest = Swap(r, q).src
        /\ p[1] = q[1] /\ p[2] = 1 /\ Swap(r, p).src = ETH => Swap(r, q).dest # ETH
        /\ p[1] = q[1] /\ IsLastSwap(r, p) /\ Swap(r, p).dest = ETH => Swap(r, q).src # ETH

ASSUME BuilderAssumption ==
    /\ Answers \subseteq AnswerType
    /\ Decisions \subseteq BOOLEAN
    /\ \A r \in Routes : WellFormed(r)

VARIABLES
    route,      \* the request
    phase,      \* "classify", "legs", "weth", "approvals", "built" or "failed"
    label,      \* ExecutorType, as reported on success and on failure
    param,      \* param[leg]: DexExchangeBuildParam of the legs resolved so far
    deposits,   \* the amounts that resolved legs need wrapped, and
    withdraws,  \* unwrapped
    plan        \* the templates of the WethPlan

buildVars == <<route, phase, label, param, deposits, withdraws, plan>>

-----------------------------------------------------------------------------
(* The contract of DEX encoders. *)

TakesNative(swap, a) == (swap.src = ETH /\ ~a.wrap) \/ (swap.src = WETH /\ a.unwrap)
GivesNative(swap, a) == (swap.dest = ETH /\ ~a.wrap) \/ (swap.dest = WETH /\ a.unwrap)

\* A pool holds either form of the native token, and does not trade it for itself;
\* ETH cannot be transferred like an ERC20; who wraps the output must receive it.
Consistent(swap, a) ==
    /\ a.wrap => ~a.unwrap /\ {ETH, WETH} \intersect {swap.src, swap.dest} # {}
    /\ a.unwrap => WETH \in {swap.src, swap.dest} /\ ~({swap.src, swap.dest} \subseteq {ETH, WETH})
    /\ a.transferSrc => ~TakesNative(swap, a)
    /\ swap.dest = WETH /\ a.unwrap => ~a.hasRecipient

\* What is relied on between an exchange (a) and its fallback (b).
\*  "midRoute": where a route passes through ETH, both take the same form.
\*  "rawFinal": where it ends in ETH, a raw fallback is not put behind a raw
\*      exchange that delivers by itself;
\*  "measuredFinal": nor, in a longer route, one that names a recipient behind
\*      an exchange that delivers WETH.
\*  "measuredSource": a raw fallback that names a recipient is not put behind
\*      an exchange that names none, in a route of one swap from ETH.
Compatible(r, pos, a, b) ==
    LET swap == Swap(r, pos)
        final == swap.dest = ETH /\ IsLastSwap(r, pos) /\ ~b.wrap
    IN
    /\ "midRoute" \in Assumed /\ swap.src = ETH /\ pos[2] > 1 => a.wrap = b.wrap
    /\ "rawFinal" \in Assumed /\ final => a.wrap \/ ~a.hasRecipient
    /\ "measuredFinal" \in Assumed /\ final /\ IsMultiSwap(r) /\ a.wrap => ~b.hasRecipient
    /\ "measuredSource" \in Assumed /\ swap.src = ETH /\ ~IsMultiSwap(r) /\ ~b.wrap =>
            (b.hasRecipient => a.hasRecipient)

-----------------------------------------------------------------------------
(* Resolving a leg. *)

IsFallback(leg) == leg[2] = "fallback"
PrimaryOf(leg) == <<leg[1], "primary">>

\* Mutant: the scaling rounds up.
SrcAmountRoundedUp(r, leg) ==
    LET q == Quote(r, leg) IN
    IF leg[1][2] = 1 /\ r.side = "BUY"
    THEN (q.src * r.minMax + r.srcAmount - 1) \div r.srcAmount ELSE q.src

\* A BUY scales the first amount to the most the user allows.
SrcAmount(r, leg) ==
    LET q == Quote(r, leg) IN
    IF leg[1][2] = 1 /\ r.side = "BUY" THEN (q.src * r.minMax) \div r.srcAmount ELSE q.src

\* The scaling divides by the route's amount.
HasAmount(r, leg) == leg[1][2] = 1 /\ r.side = "BUY" => r.srcAmount # 0

NeedsDeposit(r, leg, a) == Swap(r, leg[1]).src = ETH /\ a.wrap

\* Mid-route, a leg that already returns ETH is counted as well.
NeedsWithdraw(r, leg, a) ==
    /\ Swap(r, leg[1]).dest = ETH
    /\ a.wrap \/ ((IsMultiSwap(r) \/ IsMegaSwap(r)) /\ ~IsLastSwap(r, leg[1]))

\* A fallback behind a primary that leaves its output on Executor01 does too.
RedirectedToExecutor(leg) ==
    /\ IsFallback(leg)
    /\ label = "Executor01"
    /\ ~param[PrimaryOf(leg)].answer.hasRecipient

\* Mutant: a swap before the last delivers to Augustus as well.
RecipientOfAnySwap(r, leg, a) ==
    IF \/ Swap(r, leg[1]).dest = ETH /\ a.wrap /\ Quote(r, leg).dest > 0
       \/ r.side = "BUY"
       \/ IsFallback(leg) /\ Swap(r, leg[1]).dest = ETH
       \/ RedirectedToExecutor(leg)
    THEN "executor" ELSE "augustus"

\* Mutant: only a redirected fallback is given a recipient.
RecipientUnset(r, leg, a) ==
    IF RedirectedToExecutor(leg) THEN "executor" ELSE "none"

\* Mutant: a BUY delivers to Augustus like a SELL.
RecipientOfAnySide(r, leg, a) ==
    IF \/ Swap(r, leg[1]).dest = ETH /\ a.wrap /\ Quote(r, leg).dest > 0
       \/ ~IsLastSwap(r, leg[1])
       \/ IsFallback(leg) /\ Swap(r, leg[1]).dest = ETH
       \/ RedirectedToExecutor(leg)
    THEN "executor" ELSE "augustus"

Recipient(r, leg, a) ==
    IF \/ Swap(r, leg[1]).dest = ETH /\ a.wrap /\ Quote(r, leg).dest > 0
       \/ ~IsLastSwap(r, leg[1])
       \/ r.side = "BUY"
       \/ IsFallback(leg) /\ Swap(r, leg[1]).dest = ETH
       \/ RedirectedToExecutor(leg)
    THEN "executor" ELSE "augustus"

Unresolved == Legs(route) \ DOMAIN param

Init ==
    /\ route \in Routes
    /\ phase = "classify"
    /\ label = "none"
    /\ param = <<>>
    /\ deposits = 0
    /\ withdraws = 0
    /\ plan = {}

\* Requests that no executor takes, or that their executor does not implement,
\* fail before any service is called.
Classify ==
    /\ phase = "classify"
    /\ label' = DetectExecutor(route)
    /\ phase' = IF label' # "none" /\ PassesFences(route, label') THEN "legs" ELSE "failed"
    /\ UNCHANGED <<route, param, deposits, withdraws, plan>>

ResolveLeg(leg, a) ==
    LET swap == Swap(route, leg[1]) IN
    /\ phase = "legs"
    /\ leg \in Unresolved
    /\ \A other \in Unresolved \ {leg} : Before(leg, other)
    /\ HasAmount(route, leg)
    /\ Consistent(swap, a)
    /\ IsFallback(leg) => Compatible(route, leg[1], param[PrimaryOf(leg)].answer, a)
    /\ param' = [l \in DOMAIN param \union {leg} |->
                    IF l = leg
                    THEN [answer |-> a,
                          recipient |-> Recipient(route, leg, a),
                          toExecutor |-> RedirectedToExecutor(leg),
                          approve |-> "none"]
                    ELSE param[l]]
    /\ deposits' = IF NeedsDeposit(route, leg, a)
                   THEN deposits + SrcAmount(route, leg) ELSE deposits
    /\ withdraws' = IF NeedsWithdraw(route, leg, a)
                    THEN withdraws + Quote(route, leg).dest ELSE withdraws
    /\ phase' = IF Unresolved = {leg} THEN "weth" ELSE "legs"
    /\ UNCHANGED <<route, label, plan>>

-----------------------------------------------------------------------------
(* The WETH plan. *)

TouchesNativeOrWrapped(swap) == {ETH, WETH} \intersect {swap.src, swap.dest} # {}

\* Only primaries are looked at.
HasMixedWrap ==
    \E p, q \in Positions(route) :
        /\ p[1] = q[1]
        /\ TouchesNativeOrWrapped(Swap(route, p)) /\ TouchesNativeOrWrapped(Swap(route, q))
        /\ param[<<p, "primary">>].answer.wrap # param[<<q, "primary">>].answer.wrap

\* Mutant: a plan whose two sides balance is always dropped.
PlannedTemplatesIgnoreMixed ==
    IF deposits = withdraws THEN {}
    ELSE (IF deposits # 0 THEN {"deposit"} ELSE {}) \union
         (IF withdraws # 0 \/ (deposits # 0 /\ route.side = "BUY") THEN {"withdraw"} ELSE {})

\* What is wrapped for one leg and unwrapped for another needs neither, unless
\* some path mixes pools of both forms.  The templates are those of the
\* default WETH provider.
PlannedTemplates ==
    IF deposits = withdraws /\ (deposits = 0 \/ ~HasMixedWrap) THEN {}
    ELSE (IF deposits # 0 THEN {"deposit"} ELSE {}) \union
         (IF withdraws # 0 \/ (deposits # 0 /\ route.side = "BUY") THEN {"withdraw"} ELSE {})

PlanWeth ==
    /\ phase = "weth"
    /\ plan' = PlannedTemplates
    /\ phase' = "approvals"
    /\ UNCHANGED <<route, label, param, deposits, withdraws>>

-----------------------------------------------------------------------------
(* Approvals. *)

\* Mutant: a WETH pool that is paid from ETH is taken for one paid in ETH.
NeedsAllowanceUnlessEth(swap, a) ==
    /\ ~a.skipApproval
    /\ ~(a.unwrap /\ swap.src = WETH)
    /\ swap.src # ETH /\ ~a.transferSrc

\* Legs whose exchange takes its source through an allowance.
NeedsAllowance(swap, a) ==
    /\ ~a.skipApproval
    /\ ~(a.unwrap /\ swap.src = WETH)
    /\ (swap.src # ETH /\ ~a.transferSrc) \/ (swap.src = ETH /\ a.wrap)

Requested == {leg \in DOMAIN param : NeedsAllowance(Swap(route, leg[1]), param[leg].answer)}

\* One decision per request; a fallback's goes to the fallback.
PlanApprovals(decision) ==
    /\ phase = "approvals"
    /\ param' = [leg \in DOMAIN param |->
                    IF leg \in Requested
                    THEN [param[leg] EXCEPT !.approve = IF decision[leg] THEN "already" ELSE "data"]
                    ELSE param[leg]]
    /\ phase' = "built"
    /\ UNCHANGED <<route, label, deposits, withdraws, plan>>

\* No encoder, an encoder that fails, or one whose two answers about NeedWrapNative
\* differ, no amount to scale by; a WETH provider or an approval checker that is
\* asked and fails.
ServiceFails ==
    /\ \/ phase = "legs"
       \/ phase = "weth" /\ PlannedTemplates # {}
       \/ phase = "approvals" /\ Requested # {}
    /\ phase' = "failed"
    /\ UNCHANGED <<route, label, param, deposits, withdraws, plan>>

Build ==
    \/ Classify
    \/ \E leg \in Unresolved, a \in Answers : ResolveLeg(leg, a)
    \/ ServiceFails
    \/ PlanWeth
    \/ \E decision \in [Requested -> Decisions] : PlanApprovals(decision)

Spec == Init /\ [][Build]_buildVars

-----------------------------------------------------------------------------
(* Properties. *)

TypeOK ==
    /\ route \in Routes
    /\ phase \in {"classify", "legs", "weth", "approvals", "built", "failed"}
    /\ label \in {"none", "WETH", "Executor01", "Executor02", "Executor03"}
    /\ DOMAIN param \subseteq Legs(route)
    /\ \A leg \in DOMAIN param : param[leg] \in ParamType
    /\ deposits \in Nat
    /\ withdraws \in Nat
    /\ plan \subseteq {"deposit", "withdraw"}

\* Every exchange that pulls an ERC20 through an allowance has been decided
\* about: the allowance is known to be there or approve data is planned, for
\* the token in the form the pool takes it (getApprovalTokenAndTarget).
Pulls(swap, a) == ~TakesNative(swap, a) /\ ~a.transferSrc /\ ~a.skipApproval

PullsAreDecided ==
    phase = "built" =>
        \A leg \in DOMAIN param :
            Pulls(Swap(route, leg[1]), param[leg].answer) => param[leg].approve # "none"

AllWrap(path, swap) ==
    /\ \E p \in Positions(route) : p[1] = path /\ p[2] = swap
    /\ \A p \in Positions(route) :
            p[1] = path /\ p[2] = swap => param[<<p, "primary">>].answer.wrap

Covers(templates) ==
    \A leg \in DOMAIN param :
        LET pos == leg[1] IN
        param[leg].answer.wrap =>
            /\ Swap(route, pos).src = ETH /\ ~AllWrap(pos[1], pos[2] - 1) => "deposit" \in templates
            /\ Swap(route, pos).dest = ETH /\ ~AllWrap(pos[1], pos[2] + 1) => "withdraw" \in templates

\* A leg that pays a WETH pool from ETH finds the deposit template, one that
\* returns WETH where the route says ETH finds the withdraw template, whichever
\* of an exchange and its fallback runs (buildResolvedLegs: "the deposit/withdraw
\* template must exist for whichever branch runs").  Only where all exchanges of
\* the neighbouring swap work in WETH as well is the WETH passed on as it is.
PlanCoversBranches == phase = "built" => Covers(plan)
=============================================================================
