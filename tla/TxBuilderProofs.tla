-------------------------- MODULE TxBuilderProofs --------------------------
(***************************************************************************)
(* TxBuilder for every set of routes, answers and decisions: the state is  *)
(* well typed, every exchange that pulls is decided about, and the WETH    *)
(* plan covers the branches that may run.                                  *)
(***************************************************************************)
EXTENDS TxBuilder, TLAPS

-----------------------------------------------------------------------------
(* Legs and amounts. *)

\* A leg is a position and a branch; its quote moves something.
LEMMA LegShape ==
    ASSUME NEW r \in Routes, NEW leg \in Legs(r)
    PROVE  /\ leg = <<leg[1], leg[2]>>
           /\ leg[1] \in Positions(r)
           /\ leg[2] \in {"primary", "fallback"}
           /\ PrimaryOf(leg) \in Legs(r)
           /\ Quote(r, leg).src \in Nat \ {0}
           /\ Quote(r, leg).dest \in Nat \ {0}
<1>1. leg = <<leg[1], leg[2]>> /\ leg[1] \in Positions(r)
  <2>1. PICK pos \in Positions(r) : leg \in {<<pos, b>> : b \in DOMAIN Exchange(r, pos).quotes}
    BY DEF Legs
  <2>2. PICK b \in DOMAIN Exchange(r, pos).quotes : leg = <<pos, b>>
    BY <2>1
  <2> QED
    BY <2>2
<1>2. leg[2] \in {"primary", "fallback"}
  BY BuilderAssumption DEF WellFormed, Branches
<1>3. PrimaryOf(leg) \in Legs(r)
  BY <1>1, BuilderAssumption DEF WellFormed, PrimaryOf
<1>4. Quote(r, leg) \in [src : Nat \ {0}, dest : Nat \ {0}]
  BY BuilderAssumption DEF WellFormed
<1> QED
  BY <1>1, <1>2, <1>3, <1>4

\* The swaps of a path hand over to each other.
LEMMA HandOver ==
    ASSUME NEW r, WellFormed(r), NEW p \in Positions(r), NEW q \in Positions(r),
           p[1] = q[1], q[2] = p[2] + 1
    PROVE  Swap(r, p).dest = Swap(r, q).src
  BY DEF WellFormed

\* A path does not come back to ETH, nor pass through it before it ends there.
LEMMA NoReturnToEth ==
    ASSUME NEW r, WellFormed(r), NEW p \in Positions(r), NEW q \in Positions(r),
           p[1] = q[1], Swap(r, p).src = ETH, Swap(r, q).dest = ETH
    PROVE  p[2] # 1 /\ ~IsLastSwap(r, q)
  BY DEF WellFormed

\* Positions are triples of naturals, so that Before is irreflexive on them.
LEMMA PositionShape ==
    ASSUME NEW r \in Routes, NEW p \in Positions(r)
    PROVE  p[1] \in Nat /\ p[2] \in Nat \ {0} /\ p[3] \in Nat
<1>1. p \in (Nat \ {0}) \X (Nat \ {0}) \X (Nat \ {0})
  BY BuilderAssumption DEF WellFormed
<1> QED
  BY <1>1

\* Scaling up does not round to nothing.
LEMMA ScaledIsPositive ==
    ASSUME NEW a \in Nat, a # 0, NEW s \in Nat, s # 0, NEW m \in Nat, s <= m
    PROVE  (a * m) \div s \in Nat \ {0}
<1>1. a * m >= m
  BY SMT
<1>2. a * m \in Nat
  BY SMT
<1> DEFINE x == a * m
<1>3. x \in Nat /\ x >= s
  BY <1>1, <1>2
<1> HIDE DEF x
<1>4. x \div s \in Nat \ {0}
  BY <1>3, SMT
<1> QED
  BY <1>4 DEF x

LEMMA SrcAmountIsPositive ==
    ASSUME NEW r \in Routes, NEW leg \in Legs(r), HasAmount(r, leg)
    PROVE  SrcAmount(r, leg) \in Nat \ {0}
<1>1. Quote(r, leg).src \in Nat \ {0}
  BY LegShape
<1>2. CASE leg[1][2] = 1 /\ r.side = "BUY"
  <2>1. r.minMax \in Nat /\ r.srcAmount \in Nat /\ r.srcAmount # 0 /\ r.srcAmount <= r.minMax
    BY <1>2, BuilderAssumption DEF WellFormed, HasAmount
  <2>2. (Quote(r, leg).src * r.minMax) \div r.srcAmount \in Nat \ {0}
    BY <1>1, <2>1, ScaledIsPositive
  <2> QED
    BY <1>2, <2>2 DEF SrcAmount
<1>3. CASE ~(leg[1][2] = 1 /\ r.side = "BUY")
  BY <1>1, <1>3 DEF SrcAmount
<1> QED
  BY <1>2, <1>3

\* The leg to resolve is the first unresolved one: a fallback's primary is there.
LEMMA PrimaryResolved ==
    ASSUME route \in Routes,
           NEW leg \in Unresolved, IsFallback(leg),
           \A other \in Unresolved \ {leg} : Before(leg, other)
    PROVE  PrimaryOf(leg) \in DOMAIN param
<1>1. leg \in Legs(route) /\ leg[1] \in Positions(route) /\ PrimaryOf(leg) \in Legs(route)
  BY LegShape DEF Unresolved
<1>2. leg[1][1] \in Nat /\ leg[1][2] \in Nat /\ leg[1][3] \in Nat
  BY <1>1, PositionShape
<1>3. PrimaryOf(leg)[1] = leg[1] /\ PrimaryOf(leg)[2] = "primary" /\ leg[2] = "fallback"
  BY DEF PrimaryOf, IsFallback
<1>4. ~Before(leg, PrimaryOf(leg))
  BY <1>2, <1>3 DEF Before
<1>5. PrimaryOf(leg) # leg
  BY <1>3
<1> QED
  BY <1>1, <1>4, <1>5 DEF Unresolved

-----------------------------------------------------------------------------
(* Types. *)

LEMMA InitTypes == Init => TypeOK
  BY DEF Init, TypeOK, ParamType

LEMMA ResolveTypes ==
    ASSUME TypeOK, NEW leg \in Unresolved, NEW a \in Answers, ResolveLeg(leg, a)
    PROVE  TypeOK'
<1> USE DEF TypeOK, ResolveLeg
<1>1. route \in Routes /\ leg \in Legs(route)
  BY DEF Unresolved
<1>2. SrcAmount(route, leg) \in Nat /\ Quote(route, leg).dest \in Nat
  BY <1>1, LegShape, SrcAmountIsPositive
<1>3. deposits' \in Nat /\ withdraws' \in Nat
  BY <1>2
<1>4. [answer |-> a, recipient |-> Recipient(route, leg, a),
       toExecutor |-> RedirectedToExecutor(leg), approve |-> "none"] \in ParamType
  <2>1. a \in AnswerType
    BY BuilderAssumption
  <2>2. Recipient(route, leg, a) \in {"executor", "augustus"}
    BY DEF Recipient
  <2>3. RedirectedToExecutor(leg) \in BOOLEAN
    BY DEF RedirectedToExecutor, IsFallback
  <2> QED
    BY <2>1, <2>2, <2>3 DEF ParamType
<1>5. DOMAIN param' \subseteq Legs(route) /\ \A l \in DOMAIN param' : param'[l] \in ParamType
  BY <1>1, <1>4
<1> QED
  BY <1>3, <1>5

LEMMA ApprovalTypes ==
    ASSUME TypeOK, NEW decision \in [Requested -> Decisions], PlanApprovals(decision)
    PROVE  TypeOK'
<1> USE DEF TypeOK, PlanApprovals
<1>1. ASSUME NEW l \in DOMAIN param
      PROVE  [param[l] EXCEPT !.approve = IF decision[l] THEN "already" ELSE "data"] \in ParamType
  BY DEF ParamType
<1>2. \A l \in DOMAIN param' : param'[l] \in ParamType
  BY <1>1
<1> QED
  BY <1>2

LEMMA StepTypes == TypeOK /\ [Build]_buildVars => TypeOK'
<1> SUFFICES ASSUME TypeOK, [Build]_buildVars
             PROVE  TypeOK'
  OBVIOUS
<1>1. CASE Classify
  BY <1>1 DEF TypeOK, Classify, DetectExecutor
<1>2. ASSUME NEW leg \in Unresolved, NEW a \in Answers, ResolveLeg(leg, a)
      PROVE  TypeOK'
  BY <1>2, ResolveTypes
<1>3. CASE ServiceFails
  BY <1>3 DEF TypeOK, ServiceFails
<1>4. CASE PlanWeth
  BY <1>4 DEF TypeOK, PlanWeth, PlannedTemplates
<1>5. ASSUME NEW decision \in [Requested -> Decisions], PlanApprovals(decision)
      PROVE  TypeOK'
  BY <1>5, ApprovalTypes
<1>6. CASE UNCHANGED buildVars
  BY <1>6 DEF TypeOK, buildVars
<1> QED
  BY <1>1, <1>2, <1>3, <1>4, <1>5, <1>6 DEF Build

\* Whatever is built, from whatever the services answer, every variable keeps
\* its type: parameters are kept for legs of the route only, with a recipient
\* each, and the sums of the WETH plan are amounts.
THEOREM TypeCorrect == Spec => []TypeOK
  BY InitTypes, StepTypes, PTL DEF Spec

-----------------------------------------------------------------------------
(* Approvals. *)

\* What pulls is asked about: the two conditions were written apart, one for
\* approvals, one for the way a pool is paid.
LEMMA PullsAreRequested ==
    ASSUME NEW swap, NEW a, Pulls(swap, a)
    PROVE  NeedsAllowance(swap, a)
BY DEF Pulls, NeedsAllowance, TakesNative

\* Every exchange of a built transaction that pulls an ERC20 is either known to
\* have its allowance or is given approve data, a fallback in its own right.
THEOREM PullsDecided == Spec => []PullsAreDecided
<1>1. Init => PullsAreDecided
  BY DEF Init, PullsAreDecided
<1>2. TypeOK /\ PullsAreDecided /\ [Build]_buildVars => PullsAreDecided'
  <2> SUFFICES ASSUME TypeOK, PullsAreDecided, [Build]_buildVars, phase' = "built",
                      NEW leg \in DOMAIN param', Pulls(Swap(route, leg[1]), param[leg].answer)',
                      route' = route
               PROVE  param'[leg].approve # "none"
    BY DEF PullsAreDecided, Build, buildVars, Classify, ResolveLeg, ServiceFails, PlanWeth,
           PlanApprovals
  <2>1. ASSUME NEW decision \in [Requested -> Decisions], PlanApprovals(decision)
        PROVE  param'[leg].approve # "none"
    <3>1. leg \in DOMAIN param /\ param[leg] \in ParamType
      BY <2>1 DEF PlanApprovals, TypeOK
    <3>2. param'[leg].answer = param[leg].answer
      BY <2>1, <3>1 DEF PlanApprovals, ParamType
    <3>3. leg \in Requested
      BY <3>1, <3>2, PullsAreRequested DEF Requested, Pulls, Swap, TakesNative, NeedsAllowance
    <3>4. param'[leg] = [param[leg] EXCEPT !.approve = IF decision[leg] THEN "already" ELSE "data"]
      BY <2>1, <3>1, <3>3 DEF PlanApprovals
    <3>5. CASE decision[leg]
      BY <3>1, <3>4, <3>5 DEF ParamType
    <3>6. CASE ~decision[leg]
      BY <3>1, <3>4, <3>6 DEF ParamType
    <3> QED
      BY <3>5, <3>6
  <2>2. CASE UNCHANGED buildVars
    BY <2>2 DEF buildVars, PullsAreDecided, Pulls, TakesNative, Swap
  <2>3. CASE Classify
    BY <2>3 DEF Classify
  <2>4. ASSUME NEW l \in Unresolved, NEW a \in Answers, ResolveLeg(l, a)
        PROVE  FALSE
    BY <2>4 DEF ResolveLeg
  <2>5. CASE ServiceFails \/ PlanWeth
    BY <2>5 DEF ServiceFails, PlanWeth
  <2> QED
    BY <2>1, <2>2, <2>3, <2>4, <2>5 DEF Build
<1> QED
  BY <1>1, <1>2, TypeCorrect, PTL DEF Spec

-----------------------------------------------------------------------------
(* The WETH plan.                                                          *)
(*                                                                         *)
(* The plan looks at two sums and at the forms of primaries, its coverage  *)
(* speaks of single legs and of fallbacks.  PlanInv relates them while the *)
(* legs are resolved: a sum is there exactly if some leg adds to it, and   *)
(* where a path passes through ETH a fallback takes its primary's form.    *)

Deposited == \E leg \in DOMAIN param : NeedsDeposit(route, leg, param[leg].answer)
Withdrawn == \E leg \in DOMAIN param : NeedsWithdraw(route, leg, param[leg].answer)

SumsMatch == (deposits # 0 <=> Deposited) /\ (withdraws # 0 <=> Withdrawn)

AgreesMidRoute(leg) ==
    IsFallback(leg) /\ Swap(route, leg[1]).src = ETH /\ leg[1][2] > 1 =>
        param[leg].answer.wrap = param[PrimaryOf(leg)].answer.wrap

FormsAgree ==
    \A leg \in DOMAIN param : PrimaryOf(leg) \in DOMAIN param /\ AgreesMidRoute(leg)

AllResolved == phase \in {"weth", "approvals", "built"} => DOMAIN param = Legs(route)

PlanInv ==
    /\ SumsMatch
    /\ FormsAgree
    /\ AllResolved
    /\ phase \in {"approvals", "built"} => Covers(plan)

\* Sums of different paths may be equal by chance: on one path they are not.
SinglePath(r) == \A p, q \in Positions(r) : p[1] = q[1]

\* A plan that is dropped is not needed: if something is wrapped and something
\* unwrapped on a path and all its primaries take one form, every leg's WETH is
\* passed on, or taken, as it is.
LEMMA PlannedCovers ==
    ASSUME TypeOK, SumsMatch, FormsAgree, DOMAIN param = Legs(route), SinglePath(route)
    PROVE  Covers(PlannedTemplates)
<1> SUFFICES ASSUME NEW leg \in Legs(route), param[leg].answer.wrap
             PROVE  /\ Swap(route, leg[1]).src = ETH /\ ~AllWrap(leg[1][1], leg[1][2] - 1)
                         => "deposit" \in PlannedTemplates
                    /\ Swap(route, leg[1]).dest = ETH /\ ~AllWrap(leg[1][1], leg[1][2] + 1)
                         => "withdraw" \in PlannedTemplates
  BY DEF Covers
<1> DEFINE pos == leg[1]
<1>0. route \in Routes /\ WellFormed(route)
  BY BuilderAssumption DEF TypeOK
<1>1. /\ pos \in Positions(route)
      /\ leg[2] \in {"primary", "fallback"}
      /\ leg = <<pos, leg[2]>>
      /\ PrimaryOf(leg) \in Legs(route)
      /\ pos[2] \in Nat \ {0}
  BY <1>0, LegShape, PositionShape
\* A leg that is in WETH while its path's ETH comes in mid-route has a primary in WETH.
<1>2. ASSUME NEW l \in Legs(route), Swap(route, l[1]).src = ETH, l[1][2] > 1,
             param[l].answer.wrap
      PROVE  param[<<l[1], "primary">>].answer.wrap
  <2>1. l = <<l[1], l[2]>> /\ l[2] \in {"primary", "fallback"}
    BY <1>0, LegShape
  <2>2. CASE l[2] = "primary"
    <3>1. <<l[1], "primary">> = l
      BY <2>1, <2>2
    <3> QED
      BY <1>2, <3>1
  <2>3. CASE l[2] = "fallback"
    BY <1>2, <2>3 DEF FormsAgree, AgreesMidRoute, IsFallback, PrimaryOf
  <2> QED
    BY <2>1, <2>2, <2>3
<1>3. ASSUME NEW p \in Positions(route), NEW q \in Positions(route),
             {ETH, WETH} \intersect {Swap(route, p).src, Swap(route, p).dest} # {},
             {ETH, WETH} \intersect {Swap(route, q).src, Swap(route, q).dest} # {},
             param[<<p, "primary">>].answer.wrap, ~param[<<q, "primary">>].answer.wrap
      PROVE  HasMixedWrap
  BY <1>3 DEF HasMixedWrap, TouchesNativeOrWrapped, SinglePath
<1>4. ASSUME Swap(route, pos).src = ETH, ~AllWrap(pos[1], pos[2] - 1)
      PROVE  "deposit" \in PlannedTemplates
  <2>1. deposits # 0
    BY <1>4 DEF SumsMatch, Deposited, NeedsDeposit
  <2>2. ~(deposits = withdraws /\ ~HasMixedWrap)
    <3> SUFFICES ASSUME withdraws # 0
                 PROVE  HasMixedWrap
      BY <2>1
    <3>1. PICK other \in Legs(route) : Swap(route, other[1]).dest = ETH
      BY DEF SumsMatch, Withdrawn, NeedsWithdraw
    <3>2. other[1] \in Positions(route) /\ other[1][1] = pos[1]
      BY <1>0, <1>1, LegShape DEF SinglePath
    <3>3. pos[2] > 1
      <4>1. pos[2] # 1
        BY <1>0, <1>1, <1>4, <3>1, <3>2, NoReturnToEth
      <4> QED
        BY <1>1, <4>1
    <3>4. PICK p \in Positions(route) : p[1] = pos[1] /\ p[2] = pos[2] - 1
      BY <1>0, <1>1, <3>3 DEF WellFormed
    <3>5. PICK q \in Positions(route) :
            q[1] = pos[1] /\ q[2] = pos[2] - 1 /\ ~param[<<q, "primary">>].answer.wrap
      BY <1>4, <3>4 DEF AllWrap
    <3>6. Swap(route, q).dest = ETH
      <4>1. q[2] \in Nat /\ pos[2] = q[2] + 1
        BY <1>0, <1>1, <3>5, PositionShape
      <4> QED
        BY <1>0, <1>1, <1>4, <3>5, <4>1, HandOver
    <3>7. param[<<pos, "primary">>].answer.wrap
      BY <1>2, <1>4, <3>3
    <3> QED
      BY <1>1, <1>3, <1>4, <3>5, <3>6, <3>7
  <2> QED
    BY <2>1, <2>2 DEF PlannedTemplates
<1>5. ASSUME Swap(route, pos).dest = ETH, ~AllWrap(pos[1], pos[2] + 1)
      PROVE  "withdraw" \in PlannedTemplates
  <2>1. withdraws # 0
    BY <1>5 DEF SumsMatch, Withdrawn, NeedsWithdraw
  <2>2. ~(deposits = withdraws /\ ~HasMixedWrap)
    <3> SUFFICES ASSUME deposits # 0
                 PROVE  HasMixedWrap
      BY <2>1
    <3>1. PICK other \in Legs(route) : Swap(route, other[1]).src = ETH /\ param[other].answer.wrap
      BY DEF SumsMatch, Deposited, NeedsDeposit
    <3>2. other[1] \in Positions(route) /\ other[1][1] = pos[1] /\ other[1][2] \in Nat \ {0}
      BY <1>0, <1>1, LegShape, PositionShape DEF SinglePath
    <3>3. other[1][2] > 1
      <4>1. other[1][2] # 1
        BY <1>0, <1>1, <1>5, <3>1, <3>2, NoReturnToEth
      <4> QED
        BY <3>2, <4>1
    <3>4. ~IsLastSwap(route, pos)
      BY <1>0, <1>1, <1>5, <3>1, <3>2, NoReturnToEth
    <3>5. PICK p \in Positions(route) : p[1] = pos[1] /\ p[2] = pos[2] + 1
      BY <1>0, <1>1, <3>4 DEF WellFormed
    <3>6. PICK q \in Positions(route) :
            q[1] = pos[1] /\ q[2] = pos[2] + 1 /\ ~param[<<q, "primary">>].answer.wrap
      BY <1>5, <3>5 DEF AllWrap
    <3>7. Swap(route, q).src = ETH
      BY <1>0, <1>1, <1>5, <3>6, HandOver
    <3>8. param[<<other[1], "primary">>].answer.wrap
      BY <1>2, <3>1, <3>3
    <3> QED
      BY <1>3, <3>1, <3>2, <3>6, <3>7, <3>8
  <2> QED
    BY <2>1, <2>2 DEF PlannedTemplates
<1> QED
  BY <1>4, <1>5

\* Resolving a leg keeps the sums in step with the legs, and a fallback's form
\* in step with its primary's.
LEMMA ResolveKeepsSums ==
    ASSUME TypeOK, SumsMatch, NEW leg \in Unresolved, NEW a \in Answers, ResolveLeg(leg, a)
    PROVE  SumsMatch'
<1>1. /\ route \in Routes /\ leg \in Legs(route) /\ leg \notin DOMAIN param
      /\ route' = route
      /\ DOMAIN param' = DOMAIN param \union {leg}
      /\ param'[leg].answer = a
      /\ \A l \in DOMAIN param : param'[l] = param[l]
      /\ deposits \in Nat /\ withdraws \in Nat
  BY DEF ResolveLeg, Unresolved, TypeOK
<1>2. SrcAmount(route, leg) \in Nat \ {0} /\ Quote(route, leg).dest \in Nat \ {0}
  BY <1>1, LegShape, SrcAmountIsPositive DEF ResolveLeg
<1>3. deposits' # 0 <=> Deposited'
  <2>1. Deposited' <=> Deposited \/ NeedsDeposit(route, leg, a)
    BY <1>1 DEF Deposited, NeedsDeposit, Swap
  <2>2. deposits' # 0 <=> deposits # 0 \/ NeedsDeposit(route, leg, a)
    BY <1>1, <1>2 DEF ResolveLeg
  <2> QED
    BY <2>1, <2>2 DEF SumsMatch
<1>4. withdraws' # 0 <=> Withdrawn'
  <2>1. Withdrawn' <=> Withdrawn \/ NeedsWithdraw(route, leg, a)
    BY <1>1 DEF Withdrawn, NeedsWithdraw, Swap, IsMultiSwap, IsMegaSwap, IsLastSwap
  <2>2. withdraws' # 0 <=> withdraws # 0 \/ NeedsWithdraw(route, leg, a)
    BY <1>1, <1>2 DEF ResolveLeg
  <2> QED
    BY <2>1, <2>2 DEF SumsMatch
<1> QED
  BY <1>3, <1>4 DEF SumsMatch

LEMMA ResolveKeepsForms ==
    ASSUME TypeOK, FormsAgree, "midRoute" \in Assumed,
           NEW leg \in Unresolved, NEW a \in Answers, ResolveLeg(leg, a)
    PROVE  FormsAgree'
<1>1. /\ route \in Routes /\ leg \in Legs(route) /\ leg \notin DOMAIN param
      /\ route' = route
      /\ DOMAIN param' = DOMAIN param \union {leg}
      /\ param'[leg].answer = a
      /\ \A l \in DOMAIN param : param'[l] = param[l]
  BY DEF ResolveLeg, Unresolved, TypeOK
<1>2. ASSUME NEW l \in DOMAIN param
      PROVE  PrimaryOf(l) \in DOMAIN param' /\ AgreesMidRoute(l)'
  BY <1>1 DEF FormsAgree, AgreesMidRoute, IsFallback, PrimaryOf, Swap
<1>3. PrimaryOf(leg) \in DOMAIN param' /\ AgreesMidRoute(leg)'
  <2>1. CASE IsFallback(leg)
    <3>1. PrimaryOf(leg) \in DOMAIN param
      BY <1>1, <2>1, PrimaryResolved DEF ResolveLeg
    <3>2. Compatible(route, leg[1], param[PrimaryOf(leg)].answer, a)
      BY <2>1 DEF ResolveLeg
    <3> QED
      BY <1>1, <3>1, <3>2 DEF AgreesMidRoute, Compatible, Swap, IsFallback, PrimaryOf
  <2>2. CASE ~IsFallback(leg)
    <3>1. PrimaryOf(leg) = leg
      BY <1>1, <2>2, LegShape DEF IsFallback, PrimaryOf
    <3> QED
      BY <1>1, <2>2, <3>1 DEF AgreesMidRoute, IsFallback
  <2> QED
    BY <2>1, <2>2
<1> QED
  BY <1>1, <1>2, <1>3 DEF FormsAgree, PrimaryOf

\* Deciding about approvals leaves all that the plan looks at.
LEMMA ApprovalsKeepPlan ==
    ASSUME TypeOK, PlanInv, NEW decision \in [Requested -> Decisions], PlanApprovals(decision)
    PROVE  PlanInv'
<1>1. /\ DOMAIN param' = DOMAIN param
      /\ route' = route /\ deposits' = deposits /\ withdraws' = withdraws /\ plan' = plan
      /\ phase = "approvals"
  BY DEF PlanApprovals
<1>2. \A l \in DOMAIN param : param'[l].answer = param[l].answer
  BY DEF PlanApprovals, TypeOK, ParamType
<1>3. SumsMatch'
  BY <1>1, <1>2 DEF PlanInv, SumsMatch, Deposited, Withdrawn, NeedsDeposit, NeedsWithdraw, Swap,
                    IsMultiSwap, IsMegaSwap, IsLastSwap
<1>4. FormsAgree'
  BY <1>1, <1>2 DEF PlanInv, FormsAgree, AgreesMidRoute, IsFallback, PrimaryOf, Swap
<1>5. AllResolved'
  BY <1>1 DEF PlanInv, AllResolved
<1>6. Covers(plan)'
  <2>1. DOMAIN param = Legs(route) /\ Covers(plan) /\ route \in Routes
    BY <1>1 DEF PlanInv, AllResolved, TypeOK
  <2>2. \A p \in Positions(route) : <<p, "primary">> \in DOMAIN param
    BY <2>1, BuilderAssumption DEF WellFormed
  <2>3. \A path, swap : AllWrap(path, swap)' <=> AllWrap(path, swap)
    BY <1>1, <1>2, <2>2 DEF AllWrap
  <2> QED
    BY <1>1, <1>2, <2>1, <2>3 DEF Covers, Swap
<1> QED
  BY <1>3, <1>4, <1>5, <1>6 DEF PlanInv

LEMMA PlanInvStep ==
    ASSUME "midRoute" \in Assumed, \A r \in Routes : SinglePath(r)
    PROVE  TypeOK /\ PlanInv /\ [Build]_buildVars => PlanInv'
<1> SUFFICES ASSUME TypeOK, PlanInv, [Build]_buildVars
             PROVE  PlanInv'
  OBVIOUS
\* Steps that leave the legs, and the sums with them.
<1>1. ASSUME UNCHANGED <<route, param, deposits, withdraws>>
      PROVE  SumsMatch' /\ FormsAgree'
  BY <1>1 DEF PlanInv, SumsMatch, FormsAgree, AgreesMidRoute, Deposited, Withdrawn,
              NeedsDeposit, NeedsWithdraw, Swap, IsMultiSwap, IsMegaSwap, IsLastSwap
<1>2. CASE Classify
  BY <1>1, <1>2 DEF Classify, PlanInv, AllResolved
<1>3. ASSUME NEW leg \in Unresolved, NEW a \in Answers, ResolveLeg(leg, a)
      PROVE  PlanInv'
  <2>1. SumsMatch' /\ FormsAgree'
    BY <1>3, ResolveKeepsSums, ResolveKeepsForms DEF PlanInv
  <2>2. AllResolved' /\ ~(phase' \in {"approvals", "built"})
    <3>1. phase' = "weth" => DOMAIN param' = Legs(route')
      BY <1>3 DEF ResolveLeg, Unresolved, TypeOK
    <3> QED
      BY <1>3, <3>1 DEF ResolveLeg, AllResolved
  <2> QED
    BY <2>1, <2>2 DEF PlanInv
<1>4. CASE ServiceFails
  BY <1>1, <1>4 DEF ServiceFails, PlanInv, AllResolved
<1>5. CASE PlanWeth
  <2>1. Covers(PlannedTemplates)
    BY <1>5, PlannedCovers DEF PlanWeth, PlanInv, AllResolved, TypeOK
  <2>2. Covers(plan)'
    BY <1>5, <2>1 DEF PlanWeth, Covers, AllWrap, Swap
  <2> QED
    BY <1>1, <1>5, <2>2 DEF PlanWeth, PlanInv, AllResolved
<1>6. ASSUME NEW decision \in [Requested -> Decisions], PlanApprovals(decision)
      PROVE  PlanInv'
  BY <1>6, ApprovalsKeepPlan
<1>7. CASE UNCHANGED buildVars
  <2>1. Covers(plan) => Covers(plan)'
    BY <1>7 DEF buildVars, Covers, AllWrap, Swap
  <2> QED
    BY <1>1, <1>7, <2>1 DEF buildVars, PlanInv, AllResolved
<1> QED
  BY <1>2, <1>3, <1>4, <1>5, <1>6, <1>7 DEF Build

\* On a route of one path whose fallbacks keep to the form of their exchange where
\* ETH comes in mid-route, whichever branches run find the templates they need:
\* leaving out a plan whose sums balance never takes one from them.
THEOREM PlanCovers ==
    ASSUME "midRoute" \in Assumed, \A r \in Routes : SinglePath(r)
    PROVE  Spec => []PlanCoversBranches
<1>1. Init => PlanInv
  BY DEF Init, PlanInv, SumsMatch, Deposited, Withdrawn, FormsAgree, AllResolved
<1>2. TypeOK /\ PlanInv /\ [Build]_buildVars => PlanInv'
  BY PlanInvStep
<1>3. PlanInv => PlanCoversBranches
  BY DEF PlanInv, PlanCoversBranches
<1> QED
  BY <1>1, <1>2, <1>3, TypeCorrect, PTL DEF Spec

-----------------------------------------------------------------------------
(* What a build leaves behind: facts that the bytecode builders start from. *)

\* A leg is kept as its encoder answered it, within the contract, and with what
\* the builder asked for.
KeptAsAnswered(leg) ==
    LET p == param[leg] IN
    /\ p.answer \in Answers
    /\ Consistent(Swap(route, leg[1]), p.answer)
    /\ p.recipient = Recipient(route, leg, p.answer)
    /\ p.toExecutor = RedirectedToExecutor(leg)
    /\ PrimaryOf(leg) \in DOMAIN param
    /\ IsFallback(leg) => Compatible(route, leg[1], param[PrimaryOf(leg)].answer, p.answer)

LegsKept == \A leg \in DOMAIN param : KeptAsAnswered(leg)

Classified ==
    IF phase = "classify" THEN param = <<>> ELSE label = DetectExecutor(route)

PlanAsSummed == phase \in {"approvals", "built"} => plan = PlannedTemplates

BuildInv == SumsMatch /\ AllResolved /\ LegsKept /\ Classified /\ PlanAsSummed

\* It is so kept while its own record and its primary's answer stay.
LEMMA LegStays ==
    ASSUME NEW l \in DOMAIN param, KeptAsAnswered(l),
           route' = route, label' = label,
           l \in DOMAIN param', PrimaryOf(l) \in DOMAIN param',
           param'[l].answer = param[l].answer,
           param'[l].recipient = param[l].recipient,
           param'[l].toExecutor = param[l].toExecutor,
           param'[PrimaryOf(l)].answer = param[PrimaryOf(l)].answer
    PROVE  KeptAsAnswered(l)'
<1> DEFINE a == param[l].answer
           b == param[PrimaryOf(l)].answer
<1>1. RedirectedToExecutor(l)' = RedirectedToExecutor(l)
  BY DEF RedirectedToExecutor, PrimaryOf
<1>2. Recipient(route, l, a)' = Recipient(route, l, a)
  BY <1>1 DEF Recipient, Swap, Quote, Exchange, IsLastSwap
<1>3. Consistent(Swap(route, l[1]), a)' <=> Consistent(Swap(route, l[1]), a)
  BY DEF Consistent, TakesNative, Swap
<1>4. Compatible(route, l[1], b, a)' <=> Compatible(route, l[1], b, a)
  BY DEF Compatible, Swap, IsLastSwap, IsMultiSwap, PrimaryOf
<1>5. PrimaryOf(l)' = PrimaryOf(l) /\ (IsFallback(l)' <=> IsFallback(l))
  BY DEF PrimaryOf, IsFallback
<1>6. /\ a \in Answers /\ Consistent(Swap(route, l[1]), a)
      /\ param[l].recipient = Recipient(route, l, a)
      /\ param[l].toExecutor = RedirectedToExecutor(l)
      /\ IsFallback(l) => Compatible(route, l[1], b, a)
  BY DEF KeptAsAnswered
<1>7. /\ (a \in Answers)' /\ Consistent(Swap(route, l[1]), a)'
      /\ (param[l].recipient = Recipient(route, l, a))'
      /\ (param[l].toExecutor = RedirectedToExecutor(l))'
      /\ (IsFallback(l) => Compatible(route, l[1], b, a))'
  <2>2. (a \in Answers)' /\ Consistent(Swap(route, l[1]), a)'
    BY <1>3, <1>6
  <2>3. (param[l].recipient = Recipient(route, l, a))'
    <3> HIDE DEF a
    <3> QED
      BY <1>2, <1>6
  <2>4. (param[l].toExecutor = RedirectedToExecutor(l))'
    BY <1>1, <1>6
  <2>5. (IsFallback(l) => Compatible(route, l[1], b, a))'
    <3> HIDE DEF a, b
    <3> QED
      BY <1>4, <1>5, <1>6
  <2> QED
    BY <2>2, <2>3, <2>4, <2>5
<1> QED
  BY <1>5, <1>7 DEF KeptAsAnswered, PrimaryOf, IsFallback

\* Resolving a leg changes no leg that has been resolved, and what the new one is
\* given depends on its primary only, which has been.
LEMMA ResolveKeepsLegs ==
    ASSUME TypeOK, LegsKept, NEW leg \in Unresolved, NEW a \in Answers, ResolveLeg(leg, a)
    PROVE  LegsKept'
<1>1. /\ route \in Routes /\ leg \in Legs(route) /\ leg \notin DOMAIN param
      /\ route' = route /\ label' = label
      /\ DOMAIN param' = DOMAIN param \union {leg}
      /\ param'[leg] = [answer |-> a, recipient |-> Recipient(route, leg, a),
                        toExecutor |-> RedirectedToExecutor(leg), approve |-> "none"]
      /\ \A l \in DOMAIN param : param'[l] = param[l]
  BY DEF ResolveLeg, Unresolved, TypeOK
<1>2. ASSUME NEW l \in DOMAIN param
      PROVE  KeptAsAnswered(l)'
  <2>1. KeptAsAnswered(l) /\ PrimaryOf(l) \in DOMAIN param
    BY DEF LegsKept, KeptAsAnswered
  <2>2. param'[l] = param[l] /\ param'[PrimaryOf(l)] = param[PrimaryOf(l)]
    BY <1>1, <2>1
  <2> QED
    BY <1>1, <2>1, <2>2, LegStays
<1>3. KeptAsAnswered(leg)'
  <2>1. IsFallback(leg) => PrimaryOf(leg) \in DOMAIN param
    BY <1>1, PrimaryResolved DEF ResolveLeg
  <2>2. PrimaryOf(leg) \in DOMAIN param'
    BY <1>1, <2>1, LegShape DEF IsFallback, PrimaryOf
  <2>3. RedirectedToExecutor(leg)' = RedirectedToExecutor(leg)
    BY <1>1, <2>1 DEF RedirectedToExecutor, PrimaryOf
  <2>4. Recipient(route, leg, a)' = Recipient(route, leg, a)
    <3> USE DEF Recipient, Swap, Quote, Exchange, IsLastSwap
    <3> QED
      BY <1>1, <2>3
  <2>5. Consistent(Swap(route, leg[1]), a)
    BY DEF ResolveLeg
  <2>6. IsFallback(leg) => Compatible(route, leg[1], param[PrimaryOf(leg)].answer, a)
    BY DEF ResolveLeg
  <2>7. param'[leg].answer = a /\ param'[leg].recipient = Recipient(route, leg, a)
        /\ param'[leg].toExecutor = RedirectedToExecutor(leg)
    BY <1>1
  <2> HIDE DEF Recipient
  <2>8. Consistent(Swap(route, leg[1]), param[leg].answer)'
    BY <1>1, <2>5, <2>7 DEF Consistent, TakesNative, Swap
  <2>9. (IsFallback(leg) => Compatible(route, leg[1], param[PrimaryOf(leg)].answer, param[leg].answer))'
    BY <1>1, <2>1, <2>6, <2>7 DEF Compatible, Swap, IsLastSwap, IsMultiSwap, PrimaryOf, IsFallback
  <2> QED
    <3>1. /\ param'[leg].answer \in Answers
          /\ (param[leg].recipient = Recipient(route, leg, param[leg].answer))'
          /\ (param[leg].toExecutor = RedirectedToExecutor(leg))'
          /\ (PrimaryOf(leg) \in DOMAIN param)'
      BY <1>1, <2>2, <2>3, <2>4, <2>7 DEF PrimaryOf
    <3> QED
      BY <2>8, <2>9, <3>1 DEF KeptAsAnswered
<1> QED
  BY <1>1, <1>2, <1>3 DEF LegsKept

\* What is decided about approvals is in no other part of a leg.
LEMMA ApprovalsKeepLegs ==
    ASSUME TypeOK, BuildInv, NEW decision \in [Requested -> Decisions], PlanApprovals(decision)
    PROVE  BuildInv'
<1>1. /\ DOMAIN param' = DOMAIN param
      /\ route' = route /\ deposits' = deposits /\ withdraws' = withdraws /\ plan' = plan
      /\ label' = label /\ phase = "approvals" /\ phase' = "built"
  BY DEF PlanApprovals
<1>2. \A l \in DOMAIN param : /\ param'[l].answer = param[l].answer
                              /\ param'[l].recipient = param[l].recipient
                              /\ param'[l].toExecutor = param[l].toExecutor
  BY DEF PlanApprovals, TypeOK, ParamType
<1>3. SumsMatch'
  BY <1>1, <1>2 DEF BuildInv, SumsMatch, Deposited, Withdrawn, NeedsDeposit, NeedsWithdraw, Swap,
                    IsMultiSwap, IsMegaSwap, IsLastSwap
<1>4. ASSUME NEW l \in DOMAIN param
      PROVE  KeptAsAnswered(l)'
  <2>1. KeptAsAnswered(l) /\ PrimaryOf(l) \in DOMAIN param
    BY DEF BuildInv, LegsKept, KeptAsAnswered
  <2> QED
    BY <1>1, <1>2, <2>1, LegStays
<1>5. (plan = PlannedTemplates)'
  <2>1. DOMAIN param = Legs(route) /\ plan = PlannedTemplates /\ route \in Routes
    BY <1>1 DEF BuildInv, AllResolved, PlanAsSummed, TypeOK
  <2>2. \A p \in Positions(route) : <<p, "primary">> \in DOMAIN param
    BY <2>1, BuilderAssumption DEF WellFormed
  <2>3. \A p \in Positions(route) :
            param'[<<p, "primary">>].answer = param[<<p, "primary">>].answer
    BY <1>2, <2>2
  <2>4. Positions(route)' = Positions(route) /\ \A p : Swap(route, p)' = Swap(route, p)
    BY <1>1 DEF Swap
  <2>5. HasMixedWrap' <=> HasMixedWrap
    BY <2>3, <2>4 DEF HasMixedWrap
  <2> QED
    BY <1>1, <2>1, <2>5 DEF PlannedTemplates
<1> QED
  BY <1>1, <1>3, <1>4, <1>5 DEF BuildInv, AllResolved, LegsKept, Classified, PlanAsSummed

LEMMA BuildInvStep == TypeOK /\ BuildInv /\ [Build]_buildVars => BuildInv'
<1> SUFFICES ASSUME TypeOK, BuildInv, [Build]_buildVars
             PROVE  BuildInv'
  OBVIOUS
\* Steps that leave the legs, and the sums with them.
<1>1. ASSUME UNCHANGED <<route, param, deposits, withdraws>>
      PROVE  SumsMatch'
  BY <1>1 DEF BuildInv, SumsMatch, Deposited, Withdrawn,
              NeedsDeposit, NeedsWithdraw, Swap, IsMultiSwap, IsMegaSwap, IsLastSwap
<1>2. ASSUME UNCHANGED <<route, label, param>>
      PROVE  LegsKept'
  <2>1. ASSUME NEW l \in DOMAIN param
        PROVE  KeptAsAnswered(l)'
    <3>1. KeptAsAnswered(l) /\ PrimaryOf(l) \in DOMAIN param
      BY DEF BuildInv, LegsKept, KeptAsAnswered
    <3> QED
      BY <1>2, <3>1, LegStays
  <2> QED
    BY <1>2, <2>1 DEF LegsKept
<1>3. CASE Classify
  <2>1. DOMAIN param' = {} /\ label' = DetectExecutor(route')
    BY <1>3 DEF Classify, BuildInv, Classified
  <2>2. LegsKept'
    BY <2>1 DEF LegsKept
  <2> QED
    BY <1>1, <1>3, <2>1, <2>2 DEF Classify, BuildInv, AllResolved, Classified, PlanAsSummed
<1>4. ASSUME NEW leg \in Unresolved, NEW a \in Answers, ResolveLeg(leg, a)
      PROVE  BuildInv'
  <2>1. SumsMatch' /\ LegsKept'
    BY <1>4, ResolveKeepsSums, ResolveKeepsLegs DEF BuildInv
  <2>2. phase' = "weth" => DOMAIN param' = Legs(route')
    BY <1>4 DEF ResolveLeg, Unresolved, TypeOK
  <2>3. AllResolved' /\ Classified' /\ PlanAsSummed'
    BY <1>4, <2>2 DEF ResolveLeg, BuildInv, AllResolved, Classified, PlanAsSummed
  <2> QED
    BY <2>1, <2>3 DEF BuildInv
<1>5. CASE ServiceFails
  <2>1. SumsMatch' /\ LegsKept'
    BY <1>1, <1>2, <1>5 DEF ServiceFails
  <2>2. AllResolved' /\ Classified' /\ PlanAsSummed'
    BY <1>5 DEF ServiceFails, BuildInv, AllResolved, Classified, PlanAsSummed
  <2> QED
    BY <2>1, <2>2 DEF BuildInv
<1>6. CASE PlanWeth
  <2>1. SumsMatch' /\ LegsKept'
    BY <1>1, <1>2, <1>6 DEF PlanWeth
  <2>2. (plan = PlannedTemplates)'
    BY <1>6 DEF PlanWeth, PlannedTemplates, HasMixedWrap, Swap
  <2>3. AllResolved' /\ Classified'
    BY <1>6 DEF PlanWeth, BuildInv, AllResolved, Classified
  <2> QED
    BY <2>1, <2>2, <2>3 DEF BuildInv, PlanAsSummed
<1>7. ASSUME NEW decision \in [Requested -> Decisions], PlanApprovals(decision)
      PROVE  BuildInv'
  BY <1>7, ApprovalsKeepLegs
<1>8. CASE UNCHANGED buildVars
  <2>1. SumsMatch' /\ LegsKept'
    BY <1>1, <1>2, <1>8 DEF buildVars
  <2>2. AllResolved' /\ Classified' /\ PlanAsSummed'
    BY <1>8 DEF buildVars, BuildInv, AllResolved, Classified, PlanAsSummed, PlannedTemplates,
                HasMixedWrap, Swap
  <2> QED
    BY <2>1, <2>2 DEF BuildInv
<1> QED
  BY <1>3, <1>4, <1>5, <1>6, <1>7, <1>8 DEF Build

\* Whatever is built, the legs stand as their encoders answered and as the
\* builder asked, the executor is the one detected, and the WETH plan is that of
\* the legs: no later phase disturbs what an earlier one relied on.
THEOREM LegsStandAsAnswered == Spec => []BuildInv
<1>1. Init => BuildInv
  BY DEF Init, BuildInv, SumsMatch, Deposited, Withdrawn, AllResolved, LegsKept, Classified,
         PlanAsSummed
<1> QED
  BY <1>1, BuildInvStep, TypeCorrect, PTL DEF Spec
=============================================================================
