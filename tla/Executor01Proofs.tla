-------------------------- MODULE Executor01Proofs --------------------------
(***************************************************************************)
(* Executor01 for a path of any length, whatever the encoders answer and    *)
(* whichever branches revert: every step finds its funds, they are          *)
(* delivered, and the bytecode implements the flow along the route.         *)
(*                                                                         *)
(* The argument: at every stage of every block the funds have a form, a     *)
(* place and a measure that are determined by the stages that the block     *)
(* has (Expected).  A stage that is not there changes none of them, one     *)
(* that is there finds what it needs and leaves what the next one expects.  *)
(* Both branches of a group end in what the next block expects.             *)
(***************************************************************************)
EXTENDS Executor01, TxBuilderProofs

-----------------------------------------------------------------------------
(* What the build leaves to the bytecode. *)

\* All four parts of the contract of fallbacks are relied on, and all routes go
\* along one path.
ReliedOn ==
    /\ {"midRoute", "rawFinal", "measuredFinal", "measuredSource"} \subseteq Assumed
    /\ \A r \in Routes : SoldAlongOnePath(r)

Last == Hops(route)

HasLeg(h, b) == b = "primary" \/ (b = "fallback" /\ HasFallback(h))

\* What is left of Compatible for the fallback of a swap.
FallbackFits(h) ==
    LET a == AnswerOf(h, "primary")
        b == AnswerOf(h, "fallback")
        final == SwapAt(h).dest = ETH /\ h = Last /\ ~b.wrap
    IN
    /\ SwapAt(h).src = ETH /\ h > 1 => a.wrap = b.wrap
    /\ final => a.wrap \/ ~a.hasRecipient
    /\ final /\ Last > 1 /\ a.wrap => ~b.hasRecipient
    /\ SwapAt(h).src = ETH /\ Last = 1 /\ ~b.wrap => (b.hasRecipient => a.hasRecipient)

\* A leg as it was built: it has answered within the contract; it delivers to
\* Augustus only from the last swap; a pull has been decided about; WETH that is not
\* passed on between neighbours finds its template.
BuiltLeg(h, b) ==
    LET p == ParamOf(h, b)
        a == p.answer
        swap == SwapAt(h)
    IN
    /\ p \in ParamType
    /\ Consistent(swap, a)
    /\ Pulls(swap, a) => p.approve # "none"
    /\ p.toExecutor <=> b = "fallback" /\ ~AnswerOf(h, "primary").hasRecipient
    /\ p.recipient = IF \/ swap.dest = ETH /\ a.wrap
                        \/ h # Last
                        \/ b = "fallback" /\ swap.dest = ETH
                        \/ p.toExecutor
                     THEN "executor" ELSE "augustus"
    /\ a.wrap /\ swap.src = ETH /\ ~PrevWraps(h) => "deposit" \in plan
    /\ a.wrap /\ swap.dest = ETH /\ ~NextWraps(h) => "withdraw" \in plan
    /\ b = "fallback" => FallbackFits(h)

\* The path as the blocks see it.
PathFits ==
    /\ Last \in Nat \ {0}
    /\ IsMultiSwap(route) <=> Last > 1
    /\ route.src = SwapAt(1).src /\ route.dest = SwapAt(Last).dest
    /\ \A h \in 1..Last :
        /\ SwapAt(h).src \in Tokens /\ SwapAt(h).dest \in Tokens
        /\ SwapAt(h).src # SwapAt(h).dest
        /\ h < Last => SwapAt(h).dest = SwapAt(h + 1).src
        /\ SwapAt(Last).dest = ETH => SwapAt(h).src # ETH

\* A withdrawal in a route that ends in ETH is for the last swap.
WithdrawalIsLast ==
    "withdraw" \in plan /\ SwapAt(Last).dest = ETH =>
        \E b \in Branches : HasLeg(Last, b) /\ AnswerOf(Last, b).wrap

Built ==
    /\ PathFits
    /\ WithdrawalIsLast
    /\ \A h \in 1..Last, b \in Branches : HasLeg(h, b) => BuiltLeg(h, b)

\* The positions of such a route are its swaps, in order.
LEMMA PathPositions ==
    ASSUME SoldAlongOnePath(route)
    PROVE  /\ Positions(route) = {<<1, h, 1>> : h \in 1..Last}
           /\ \A h \in 1..Last : Swap(route, <<1, h, 1>>) = SwapAt(h)
<1>1. DOMAIN route.paths = {1} /\ DOMAIN route.paths[1].swaps = 1..Last
      /\ \A h \in 1..Last : DOMAIN route.paths[1].swaps[h].exchanges = {1}
  BY DEF SoldAlongOnePath, Last, Hops
<1>2. DOMAIN route.paths[1].swaps = 1..Last /\ \A h \in 1..Last : SwapAt(h) = route.paths[1].swaps[h]
  BY <1>1 DEF SwapAt
<1>3. \A h \in 1..Last : {<<1, h, k>> : k \in DOMAIN route.paths[1].swaps[h].exchanges} = {<<1, h, 1>>}
  BY <1>1
<1>4. UNION {{<<1, h, k>> : k \in DOMAIN route.paths[1].swaps[h].exchanges}
               : h \in DOMAIN route.paths[1].swaps} = {<<1, h, 1>> : h \in 1..Last}
  BY <1>2, <1>3
<1>5. Positions(route) =
        UNION {UNION {{<<i, j, k>> : k \in DOMAIN route.paths[i].swaps[j].exchanges}
                        : j \in DOMAIN route.paths[i].swaps} : i \in {1}}
  BY <1>1 DEF Positions
<1>6. Positions(route) = {<<1, h, 1>> : h \in 1..Last}
  BY <1>4, <1>5
<1> QED
  BY <1>2, <1>6 DEF Swap

\* A well-formed request along one path is a path to the blocks.
LEMMA PathIsFit ==
    ASSUME TypeOK, SoldAlongOnePath(route)
    PROVE  PathFits
<1>1. WellFormed(route)
  BY BuilderAssumption DEF TypeOK
<1>2. Last \in Nat \ {0} /\ (IsMultiSwap(route) <=> Last > 1)
      /\ route.src = SwapAt(1).src /\ route.dest = SwapAt(Last).dest
  BY DEF SoldAlongOnePath, Last, Hops, IsMultiSwap, SwapAt
<1>3. ASSUME NEW h \in 1..Last
      PROVE  /\ SwapAt(h).src \in Tokens /\ SwapAt(h).dest \in Tokens
             /\ SwapAt(h).src # SwapAt(h).dest
             /\ h < Last => SwapAt(h).dest = SwapAt(h + 1).src
             /\ SwapAt(Last).dest = ETH => SwapAt(h).src # ETH
  <2> DEFINE p == <<1, h, 1>>
             q == <<1, h + 1, 1>>
             e == <<1, Last, 1>>
  <2>1. p \in Positions(route) /\ Swap(route, p) = SwapAt(h) /\ p[1] = 1 /\ p[2] = h
    BY PathPositions
  <2>2. SwapAt(h).src \in Tokens /\ SwapAt(h).dest \in Tokens
    BY DEF SoldAlongOnePath, SwapAt, Last, Hops
  <2>3. SwapAt(h).src # SwapAt(h).dest
    BY <1>1, <2>1 DEF WellFormed
  <2>4. ASSUME h < Last
        PROVE  SwapAt(h).dest = SwapAt(h + 1).src
    <3>1. q \in Positions(route) /\ Swap(route, q) = SwapAt(h + 1) /\ q[1] = 1 /\ q[2] = h + 1
      BY <1>2, <2>4, PathPositions
    <3> QED
      BY <1>1, <2>1, <3>1 DEF WellFormed
  <2>5. ASSUME SwapAt(Last).dest = ETH
        PROVE  SwapAt(h).src # ETH
    <3>1. e \in Positions(route) /\ Swap(route, e) = SwapAt(Last) /\ e[1] = 1 /\ IsLastSwap(route, e)
      BY <1>2, PathPositions DEF IsLastSwap, Last, Hops
    <3> QED
      BY <1>1, <2>1, <2>5, <3>1 DEF WellFormed
  <2> QED
    BY <2>2, <2>3, <2>4, <2>5
<1> QED
  BY <1>2, <1>3 DEF PathFits

\* Each leg in turn, from what has been proved of builds.
LEMMA LegIsBuilt ==
    ASSUME ReliedOn, TypeOK, BuildInv, PullsAreDecided, PlanCoversBranches,
           phase = "built", label = "Executor01",
           NEW h \in 1..Last, NEW b \in Branches, HasLeg(h, b)
    PROVE  BuiltLeg(h, b)
<1> DEFINE leg == LegOf(h, b)
           pos == <<1, h, 1>>
           a == AnswerOf(h, b)
           swap == SwapAt(h)
<1>0. route \in Routes /\ WellFormed(route) /\ SoldAlongOnePath(route) /\ PathFits
  BY BuilderAssumption, PathIsFit DEF TypeOK, ReliedOn
<1>1. /\ leg = <<pos, b>> /\ leg[1] = pos /\ leg[2] = b /\ pos[2] = h /\ pos[1] = 1
      /\ PrimaryOf(leg) = LegOf(h, "primary")
      /\ IsFallback(leg) <=> b = "fallback"
  BY DEF LegOf, PrimaryOf, IsFallback
<1>2. pos \in Positions(route) /\ Swap(route, pos) = swap /\ (IsLastSwap(route, pos) <=> h = Last)
  BY <1>0, PathPositions DEF IsLastSwap, Last, Hops
<1>3. DOMAIN param = Legs(route)
  BY DEF BuildInv, AllResolved
<1>4. leg \in DOMAIN param /\ LegOf(h, "primary") \in DOMAIN param
  BY <1>0, <1>1, <1>2, <1>3 DEF HasLeg, HasFallback, WellFormed, LegOf
<1>5. KeptAsAnswered(leg) /\ ParamOf(h, b) = param[leg]
      /\ ParamOf(h, "primary") = param[PrimaryOf(leg)]
  BY <1>1, <1>4 DEF BuildInv, LegsKept, ParamOf
<1>6. ParamOf(h, b) \in ParamType
  BY <1>4, <1>5 DEF TypeOK
<1>7. Consistent(swap, a)
  BY <1>1, <1>2, <1>5 DEF KeptAsAnswered, AnswerOf
<1>8. Pulls(swap, a) => ParamOf(h, b).approve # "none"
  BY <1>1, <1>2, <1>4, <1>5 DEF PullsAreDecided, AnswerOf
<1>9. ParamOf(h, b).toExecutor <=> b = "fallback" /\ ~AnswerOf(h, "primary").hasRecipient
  BY <1>1, <1>5 DEF KeptAsAnswered, RedirectedToExecutor, AnswerOf
<1>10. route.side = "SELL"
  BY DEF BuildInv, Classified, DetectExecutor
<1>11. ParamOf(h, b).recipient =
          IF \/ swap.dest = ETH /\ a.wrap
             \/ h # Last
             \/ b = "fallback" /\ swap.dest = ETH
             \/ ParamOf(h, b).toExecutor
          THEN "executor" ELSE "augustus"
  <2>1. Quote(route, leg).dest > 0
    <3>1. Quote(route, leg).dest \in Nat \ {0}
      BY <1>0, <1>3, <1>4, LegShape
    <3> QED
      BY <3>1
  <2>2. ParamOf(h, b).recipient = Recipient(route, leg, a)
        /\ (ParamOf(h, b).toExecutor <=> RedirectedToExecutor(leg))
    BY <1>5 DEF KeptAsAnswered, AnswerOf
  <2> QED
    BY <1>1, <1>2, <1>10, <2>1, <2>2 DEF Recipient
<1>12. Covers(plan)
  BY DEF PlanCoversBranches
<1>13. a.wrap /\ swap.src = ETH /\ ~PrevWraps(h) => "deposit" \in plan
  <2>1. AllWrap(1, h - 1) => PrevWraps(h)
    <3> SUFFICES ASSUME AllWrap(1, h - 1)
                 PROVE  PrevWraps(h)
      OBVIOUS
    <3>1. PICK p \in Positions(route) : p[1] = 1 /\ p[2] = h - 1 /\ param[<<p, "primary">>].answer.wrap
      BY DEF AllWrap
    <3>2. p = <<1, h - 1, 1>> /\ h > 1
      BY <1>0, <3>1, PathPositions
    <3> QED
      BY <3>1, <3>2 DEF PrevWraps, AnswerOf, ParamOf, LegOf
  <2> QED
    BY <1>1, <1>2, <1>4, <1>5, <1>12, <2>1 DEF Covers, AnswerOf
<1>14. a.wrap /\ swap.dest = ETH /\ ~NextWraps(h) => "withdraw" \in plan
  <2>1. AllWrap(1, h + 1) => NextWraps(h)
    <3> SUFFICES ASSUME AllWrap(1, h + 1)
                 PROVE  NextWraps(h)
      OBVIOUS
    <3>1. PICK p \in Positions(route) : p[1] = 1 /\ p[2] = h + 1 /\ param[<<p, "primary">>].answer.wrap
      BY DEF AllWrap
    <3>2. p = <<1, h + 1, 1>> /\ h < Last
      BY <1>0, <3>1, PathPositions DEF PathFits
    <3> QED
      BY <3>1, <3>2 DEF NextWraps, AnswerOf, ParamOf, LegOf, Last
  <2> QED
    BY <1>1, <1>2, <1>4, <1>5, <1>12, <2>1 DEF Covers, AnswerOf
<1>15. b = "fallback" => FallbackFits(h)
  <2> SUFFICES ASSUME b = "fallback"
               PROVE  FallbackFits(h)
    OBVIOUS
  <2>1. Compatible(route, pos, AnswerOf(h, "primary"), a)
    BY <1>1, <1>5 DEF KeptAsAnswered, AnswerOf
  <2> QED
    BY <1>0, <1>1, <1>2, <2>1 DEF Compatible, FallbackFits, ReliedOn, PathFits
<1> QED
  BY <1>6, <1>7, <1>8, <1>9, <1>11, <1>13, <1>14, <1>15 DEF BuiltLeg, AnswerOf

\* What the sums of a build say of a route that ends in ETH: no other swap of it
\* returns ETH.
LEMMA LastWithdraws ==
    ASSUME ReliedOn, TypeOK, BuildInv, phase = "built", label = "Executor01"
    PROVE  WithdrawalIsLast
<1> SUFFICES ASSUME "withdraw" \in plan, SwapAt(Last).dest = ETH
             PROVE  \E b \in Branches : HasLeg(Last, b) /\ AnswerOf(Last, b).wrap
  BY DEF WithdrawalIsLast
<1>0. route \in Routes /\ SoldAlongOnePath(route) /\ PathFits
  BY PathIsFit DEF TypeOK, ReliedOn
<1>1. route.side = "SELL"
  BY DEF BuildInv, Classified, DetectExecutor
<1>2. withdraws # 0
  BY <1>1 DEF BuildInv, PlanAsSummed, PlannedTemplates
<1>3. PICK leg \in DOMAIN param : NeedsWithdraw(route, leg, param[leg].answer)
  BY <1>2 DEF BuildInv, SumsMatch, Withdrawn
<1>4. leg \in Legs(route)
  BY <1>3 DEF BuildInv, AllResolved
<1>5. leg = <<leg[1], leg[2]>> /\ leg[1] \in Positions(route) /\ leg[2] \in Branches
  BY <1>0, <1>4, LegShape DEF Branches
<1>6. PICK h \in 1..Last : leg[1] = <<1, h, 1>>
  BY <1>0, <1>5, PathPositions
<1>7. SwapAt(h).dest = ETH
  BY <1>0, <1>3, <1>6, PathPositions DEF NeedsWithdraw
<1>8. h = Last
  <2> SUFFICES ASSUME h < Last
               PROVE  FALSE
    BY <1>0 DEF PathFits
  <2>1. SwapAt(h + 1).src = ETH /\ h + 1 \in 1..Last
    BY <1>0, <1>7 DEF PathFits
  <2> QED
    BY <1>0, <2>1 DEF PathFits
<1>9. IsLastSwap(route, leg[1])
  BY <1>6, <1>8 DEF IsLastSwap, Last, Hops
<1>10. param[leg].answer.wrap
  BY <1>3, <1>9 DEF NeedsWithdraw
<1>11. leg = LegOf(Last, leg[2]) /\ HasLeg(Last, leg[2]) /\ AnswerOf(Last, leg[2]).wrap
  BY <1>3, <1>5, <1>6, <1>8, <1>10 DEF LegOf, HasLeg, HasFallback, AnswerOf, ParamOf, Branches
<1> QED
  BY <1>5, <1>11

\* What a finished build has established is what the blocks are encoded from.
LEMMA BuildLeaves ==
    ASSUME ReliedOn, TypeOK, BuildInv, PullsAreDecided, PlanCoversBranches,
           phase = "built", label = "Executor01"
    PROVE  Built
<1>1. PathFits
  BY PathIsFit DEF TypeOK, ReliedOn
<1> QED
  BY <1>1, LastWithdraws, LegIsBuilt DEF Built

-----------------------------------------------------------------------------
(* The stages of a block. *)

\* The eleven stages, by number.
LEMMA StageNames ==
    /\ End = 12
    /\ DexStage = 6
    /\ Stages[1] = "approveWeth" /\ Stages[2] = "deposit" /\ Stages[3] = "approve"
    /\ Stages[4] = "transferSrc" /\ Stages[5] = "unwrapSrc" /\ Stages[6] = "dex"
    /\ Stages[7] = "wrapDest" /\ Stages[8] = "withdraw" /\ Stages[9] = "forward"
    /\ Stages[10] = "sendNative" /\ Stages[11] = "normalize"
<1>1. Stages = <<"approveWeth", "deposit", "approve", "transferSrc", "unwrapSrc", "dex",
                 "wrapDest", "withdraw", "forward", "sendNative", "normalize">>
  BY DEF Stages
<1>2. End = 12 /\ DOMAIN Stages = 1..11
  BY <1>1 DEF End
<1>3. \A i \in 1..11 : Stages[i] = "dex" <=> i = 6
  BY <1>1
<1>4. DexStage = 6
  BY <1>2, <1>3 DEF DexStage
<1> QED
  BY <1>1, <1>2, <1>4

IsFirst(h, b, j, n) ==
    /\ n \in j..12
    /\ n = 12 \/ Has(h, b, Stages[n])
    /\ \A m \in j..(n - 1) : ~Has(h, b, Stages[m])

\* There always is a first step from a stage on, at the latest the end of the
\* block: found from the end of the block backwards.
LEMMA StepFromIsFirst ==
    ASSUME NEW h, NEW b, NEW j \in 1..12
    PROVE  IsFirst(h, b, j, StepFrom(h, b, j))
<1>1. \E n : IsFirst(h, b, 12, n)
  <2>1. IsFirst(h, b, 12, 12)
    BY DEF IsFirst
  <2> QED
    BY <2>1
<1>2. ASSUME NEW k \in 1..11, \E n : IsFirst(h, b, k + 1, n)
      PROVE  \E n : IsFirst(h, b, k, n)
  <2>1. CASE Has(h, b, Stages[k])
    <3>1. IsFirst(h, b, k, k)
      BY <2>1 DEF IsFirst
    <3> QED
      BY <3>1
  <2>2. CASE ~Has(h, b, Stages[k])
    <3>1. PICK n : IsFirst(h, b, k + 1, n)
      BY <1>2
    <3>2. \A m \in k..(n - 1) : m = k \/ m \in (k + 1)..(n - 1)
      BY <3>1 DEF IsFirst
    <3>3. IsFirst(h, b, k, n)
      BY <2>2, <3>1, <3>2 DEF IsFirst
    <3> QED
      BY <3>3
  <2> QED
    BY <2>1, <2>2
<1>3. \E n : IsFirst(h, b, 11, n)
  BY <1>2, <1>1
<1>4. \E n : IsFirst(h, b, 10, n)
  BY <1>2, <1>3
<1>5. \E n : IsFirst(h, b, 9, n)
  BY <1>2, <1>4
<1>6. \E n : IsFirst(h, b, 8, n)
  BY <1>2, <1>5
<1>7. \E n : IsFirst(h, b, 7, n)
  BY <1>2, <1>6
<1>8. \E n : IsFirst(h, b, 6, n)
  BY <1>2, <1>7
<1>9. \E n : IsFirst(h, b, 5, n)
  BY <1>2, <1>8
<1>10. \E n : IsFirst(h, b, 4, n)
  BY <1>2, <1>9
<1>11. \E n : IsFirst(h, b, 3, n)
  BY <1>2, <1>10
<1>12. \E n : IsFirst(h, b, 2, n)
  BY <1>2, <1>11
<1>13. \E n : IsFirst(h, b, 1, n)
  BY <1>2, <1>12
<1>14. \E n : IsFirst(h, b, j, n)
  BY <1>1, <1>3, <1>4, <1>5, <1>6, <1>7, <1>8, <1>9, <1>10, <1>11, <1>12, <1>13
<1>15. \E n \in j..12 : IsFirst(h, b, j, n)
  BY <1>14 DEF IsFirst
<1>16. StepFrom(h, b, j) = CHOOSE n \in j..12 : /\ n = 12 \/ Has(h, b, Stages[n])
                                              /\ \A m \in j..(n - 1) : ~Has(h, b, Stages[m])
  BY StageNames DEF StepFrom
<1> QED
  BY <1>15, <1>16 DEF IsFirst

-----------------------------------------------------------------------------
(* What there is at each stage. *)

Wraps(h) == AnswerOf(h, "primary").wrap

\* A block starts with WETH for ETH exactly where its neighbour has passed it on.
StartForm(h) ==
    IF SwapAt(h).src = ETH /\ PrevWraps(h) /\ Wraps(h) THEN WETH ELSE SwapAt(h).src

\* What there is before stage n of a block, up to its call ...
BeforeCall(h, b, n, m) ==
    LET a == AnswerOf(h, b) IN
    /\ m.held = IF Deposits(h, b) /\ n > 2 THEN WETH
                ELSE IF UnwrapsSrc(SwapAt(h), a) /\ n > 5 THEN ETH
                ELSE StartForm(h)
    /\ m.at = IF a.transferSrc /\ n > 4 THEN "pool" ELSE "executor"
    /\ m.exact
    /\ MayApprove(ParamOf(h, b)) /\ ((Deposits(h, b) /\ n > 1) \/ (ApprovesSource(h, b) /\ n > 3))
         => m.granted

\* ... behind it ...
CallDelivers(h, b) == AnswerOf(h, b).hasRecipient /\ ParamOf(h, b).recipient = "augustus"

AfterCall(h, b, n, m) ==
    LET a == AnswerOf(h, b) IN
    /\ m.held = IF BlockHas(h, b, "normalize") /\ n > 11
                    THEN (IF EndsInWeth(h, "fallback") THEN ETH ELSE WETH)
                ELSE IF BlockHas(h, b, "withdraw") /\ n > 8 THEN ETH
                ELSE IF WrapsDest(SwapAt(h), a) /\ n > 7 THEN WETH
                ELSE IF GivesNative(SwapAt(h), a) THEN ETH
                ELSE WrappedForm(SwapAt(h).dest)
    /\ m.at = IF \/ CallDelivers(h, b)
                 \/ BlockHas(h, b, "forward") /\ n > 9
                 \/ BlockHas(h, b, "sendNative") /\ n > 10
              THEN "augustus" ELSE "executor"
    /\ m.at = "executor" => m.exact

\* ... and in the trailer, which delivers what the last block has not.
Delivered == AnswerOf(Last, "primary").hasRecipient /\ ~(route.dest = ETH /\ Wraps(Last))

InTrailer(n, m) ==
    /\ m.held = route.dest
    /\ m.at = IF \/ Delivered
                 \/ TrailerHas("forward") /\ n > 9
                 \/ TrailerHas("sendNative") /\ n > 10
              THEN "augustus" ELSE "executor"
    /\ m.at = "executor" => m.exact

Expected(h, b, n, m) ==
    /\ m \in Machines
    /\ h <= Last /\ n <= 6 => BeforeCall(h, b, n, m)
    /\ h <= Last /\ n > 6 => AfterCall(h, b, n, m)
    /\ h > Last => InTrailer(n, m)

\* Which stages a block has.
LEMMA HasStages ==
    ASSUME NEW h \in Nat, NEW b, Last \in Nat, h <= Last
    PROVE  /\ Has(h, b, "approveWeth") <=> Deposits(h, b) /\ MayApprove(ParamOf(h, b))
           /\ Has(h, b, "deposit") <=> Deposits(h, b)
           /\ Has(h, b, "approve") <=> ApprovesSource(h, b)
           /\ Has(h, b, "transferSrc") <=> AnswerOf(h, b).transferSrc
           /\ Has(h, b, "unwrapSrc") <=> UnwrapsSrc(SwapAt(h), AnswerOf(h, b))
           /\ Has(h, b, "dex")
           /\ Has(h, b, "wrapDest") <=> WrapsDest(SwapAt(h), AnswerOf(h, b))
           /\ Has(h, b, "withdraw") <=> BlockHas(h, b, "withdraw")
           /\ Has(h, b, "forward") <=> BlockHas(h, b, "forward")
           /\ Has(h, b, "sendNative") <=> BlockHas(h, b, "sendNative")
           /\ Has(h, b, "normalize") <=> BlockHas(h, b, "normalize")
<1>1. \A s : Has(h, b, s) = BlockHas(h, b, s)
  BY DEF Has, Last
<1> QED
  BY <1>1 DEF BlockHas, AnswerOf

\* When a block withdraws, forwards, sends or normalises.
LEMMA BlockHasLate ==
    ASSUME NEW h \in Nat, NEW b
    PROVE  /\ BlockHas(h, b, "withdraw") <=>
                /\ AnswerOf(h, b).wrap /\ "withdraw" \in plan
                /\ SwapAt(h).dest = ETH /\ ~NextWraps(h)
           /\ BlockHas(h, b, "forward") <=>
                /\ b = "fallback" /\ h = Last /\ route.dest # ETH
                /\ AnswerOf(h, "primary").hasRecipient /\ ~AnswerOf(h, b).hasRecipient
           /\ BlockHas(h, b, "sendNative") <=>
                /\ b = "fallback" /\ h = Last /\ SwapAt(h).dest = ETH
                /\ GroupHandlesNativeSend(h)
           /\ BlockHas(h, b, "normalize") <=>
                /\ b = "fallback" /\ h # Last /\ SwapAt(h).dest = ETH
                /\ EndsInWeth(h, "primary") # EndsInWeth(h, "fallback")
  BY DEF BlockHas, AnswerOf, Last

\* Which stages the trailer has.
LEMMA TrailerStages ==
    ASSUME Last \in Nat, NEW b
    PROVE  /\ \A n \in 1..11 : Has(Last + 1, b, Stages[n]) =>
                (n = 9 /\ TrailerHas("forward")) \/ (n = 10 /\ TrailerHas("sendNative"))
           /\ Has(Last + 1, b, Stages[9]) = TrailerHas("forward")
           /\ Has(Last + 1, b, Stages[10]) = TrailerHas("sendNative")
           /\ TrailerHas("forward") <=>
                ~AnswerOf(Last, "primary").hasRecipient /\ route.dest # ETH
           /\ TrailerHas("sendNative") <=>
                /\ route.dest = ETH /\ ~GroupHandlesNativeSend(Last)
                /\ "withdraw" \in plan \/ ~AnswerOf(Last, "primary").hasRecipient
<1>1. \A s : Has(Last + 1, b, s) = TrailerHas(s)
  BY DEF Has, Last
<1>2. \A s : s \notin {"forward", "sendNative"} => ~TrailerHas(s)
  BY DEF TrailerHas
<1>3. \A n \in 1..11 : n # 9 /\ n # 10 => Stages[n] \notin {"forward", "sendNative"}
  BY StageNames
<1>4. \A n \in 1..11 : Has(Last + 1, b, Stages[n]) => n = 9 \/ n = 10
  BY <1>1, <1>2, <1>3
<1>5. Has(Last + 1, b, Stages[9]) = TrailerHas("forward")
      /\ Has(Last + 1, b, Stages[10]) = TrailerHas("sendNative")
  BY <1>1, StageNames
<1>6. TrailerHas("forward") <=>
        ~AnswerOf(Last, "primary").hasRecipient /\ route.dest # ETH
  BY DEF TrailerHas, Last
<1>7. TrailerHas("sendNative") <=>
        /\ route.dest = ETH /\ ~GroupHandlesNativeSend(Last)
        /\ "withdraw" \in plan \/ ~AnswerOf(Last, "primary").hasRecipient
  BY DEF TrailerHas, Last
<1>8. \A n \in 1..11 : Has(Last + 1, b, Stages[n]) =>
                (n = 9 /\ TrailerHas("forward")) \/ (n = 10 /\ TrailerHas("sendNative"))
  BY <1>4, <1>5
<1> QED
  BY <1>5, <1>6, <1>7, <1>8

\* Stages that are not there leave what is expected: the next step finds it.
LEMMA SkippingKeepsExpected ==
    ASSUME Last \in Nat, NEW h \in 1..(Last + 1), NEW b, NEW j \in 1..12, NEW n, NEW m,
           Expected(h, b, j, m), IsFirst(h, b, j, n)
    PROVE  Expected(h, b, n, m)
<1> DEFINE a == AnswerOf(h, b)
<1>1. n \in j..12 /\ m \in Machines
  BY DEF IsFirst, Expected
<1>2. \A l \in 1..11 : j <= l /\ n > l => ~Has(h, b, Stages[l])
  BY <1>1 DEF IsFirst
<1>3. CASE h <= Last
  <2>1. /\ j <= 1 /\ n > 1 => ~Has(h, b, "approveWeth")
        /\ j <= 2 /\ n > 2 => ~Has(h, b, "deposit")
        /\ j <= 3 /\ n > 3 => ~Has(h, b, "approve")
        /\ j <= 4 /\ n > 4 => ~Has(h, b, "transferSrc")
        /\ j <= 5 /\ n > 5 => ~Has(h, b, "unwrapSrc")
        /\ j <= 6 /\ n > 6 => ~Has(h, b, "dex")
        /\ j <= 7 /\ n > 7 => ~Has(h, b, "wrapDest")
        /\ j <= 8 /\ n > 8 => ~Has(h, b, "withdraw")
        /\ j <= 9 /\ n > 9 => ~Has(h, b, "forward")
        /\ j <= 10 /\ n > 10 => ~Has(h, b, "sendNative")
        /\ j <= 11 /\ n > 11 => ~Has(h, b, "normalize")
    BY <1>2, StageNames
  <2>2. /\ j <= 1 /\ n > 1 => ~(Deposits(h, b) /\ MayApprove(ParamOf(h, b)))
        /\ j <= 2 /\ n > 2 => ~Deposits(h, b)
        /\ j <= 3 /\ n > 3 => ~ApprovesSource(h, b)
        /\ j <= 4 /\ n > 4 => ~a.transferSrc
        /\ j <= 5 /\ n > 5 => ~UnwrapsSrc(SwapAt(h), a)
        /\ ~(j <= 6 /\ n > 6)
        /\ j <= 7 /\ n > 7 => ~WrapsDest(SwapAt(h), a)
        /\ j <= 8 /\ n > 8 => ~BlockHas(h, b, "withdraw")
        /\ j <= 9 /\ n > 9 => ~BlockHas(h, b, "forward")
        /\ j <= 10 /\ n > 10 => ~BlockHas(h, b, "sendNative")
        /\ j <= 11 /\ n > 11 => ~BlockHas(h, b, "normalize")
    BY <1>3, <2>1, HasStages
  <2>3. CASE j <= 6
    <3>1. n <= 6 /\ BeforeCall(h, b, j, m)
      BY <1>1, <1>3, <2>2, <2>3 DEF Expected
    <3>2. BeforeCall(h, b, n, m)
      BY <1>1, <2>2, <3>1 DEF BeforeCall
    <3> QED
      BY <1>1, <1>3, <3>1, <3>2 DEF Expected
  <2>4. CASE j > 6
    <3>1. n > 6 /\ AfterCall(h, b, j, m)
      BY <1>1, <1>3, <2>4 DEF Expected
    <3>2. AfterCall(h, b, n, m)
      BY <1>1, <2>2, <2>4, <3>1 DEF AfterCall
    <3> QED
      BY <1>1, <1>3, <3>1, <3>2 DEF Expected
  <2> QED
    BY <2>3, <2>4
<1>4. CASE h = Last + 1
  <2>1. /\ j <= 9 /\ n > 9 => ~TrailerHas("forward")
        /\ j <= 10 /\ n > 10 => ~TrailerHas("sendNative")
    BY <1>2, <1>4, TrailerStages
  <2>2. InTrailer(j, m)
    BY <1>4 DEF Expected
  <2>3. InTrailer(n, m)
    BY <1>1, <2>1, <2>2 DEF InTrailer
  <2> QED
    BY <1>1, <1>4, <2>3 DEF Expected
<1> QED
  BY <1>3, <1>4

-----------------------------------------------------------------------------
(* The call of a block. *)

Call(h, b) == CallOf(SwapAt(h), ParamOf(h, b), DexFlag(h, b))

\* The call of a leg, field by field.
LEMMA CallIs ==
    ASSUME NEW h, NEW b
    PROVE  /\ Call(h, b).op = "dex"
           /\ Call(h, b).in = IF TakesNative(SwapAt(h), AnswerOf(h, b)) THEN ETH
                              ELSE WrappedForm(SwapAt(h).src)
           /\ Call(h, b).how = IF AnswerOf(h, b).transferSrc THEN "pool"
                               ELSE IF TakesNative(SwapAt(h), AnswerOf(h, b)) THEN "eth"
                               ELSE IF AnswerOf(h, b).skipApproval \/ ParamOf(h, b).approve = "already"
                               THEN "granted" ELSE "needs"
           /\ Call(h, b).out = IF GivesNative(SwapAt(h), AnswerOf(h, b)) THEN ETH
                               ELSE WrappedForm(SwapAt(h).dest)
           /\ Call(h, b).to = IF AnswerOf(h, b).hasRecipient THEN ParamOf(h, b).recipient
                              ELSE "executor"
           /\ Call(h, b).flag = DexFlag(h, b)
           /\ Call(h, b).measured = WrappedForm(SwapAt(h).dest)
  BY DEF Call, CallOf, DexStep, AnswerOf

\* A leg and the form of its source: what the stages before the call leave is what
\* the pool takes.
LEMMA SourceForm ==
    ASSUME Built, NEW h \in 1..Last, NEW b \in Branches, HasLeg(h, b)
    PROVE  (IF TakesNative(SwapAt(h), AnswerOf(h, b)) THEN ETH ELSE WrappedForm(SwapAt(h).src)) =
           (IF Deposits(h, b) THEN WETH
            ELSE IF UnwrapsSrc(SwapAt(h), AnswerOf(h, b)) THEN ETH
            ELSE StartForm(h))
<1> DEFINE a == AnswerOf(h, b)
           swap == SwapAt(h)
<1>1. BuiltLeg(h, b) /\ ETH # WETH /\ PathFits
  BY TokenAssumption DEF Built
<1>2. Consistent(swap, a) /\ a \in AnswerType
  BY <1>1 DEF BuiltLeg, ParamType, AnswerOf
<1>3. CASE swap.src = ETH
  <2>1. ~UnwrapsSrc(swap, a) /\ (TakesNative(swap, a) <=> ~a.wrap)
    BY <1>1, <1>3 DEF UnwrapsSrc, TakesNative
  <2>2. h > 1 => (Wraps(h) <=> a.wrap)
    BY <1>1, <1>3 DEF BuiltLeg, FallbackFits, Wraps, Branches
  <2>3. PrevWraps(h) => h > 1
    BY DEF PrevWraps
  <2>4. Deposits(h, b) <=> a.wrap /\ ~PrevWraps(h)
    BY <1>1, <1>3 DEF Deposits, BuiltLeg, AnswerOf
  <2> QED
    BY <1>3, <2>1, <2>2, <2>3, <2>4 DEF StartForm, WrappedForm
<1>4. CASE swap.src # ETH
  BY <1>1, <1>4 DEF Deposits, StartForm, WrappedForm, TakesNative, UnwrapsSrc
<1> QED
  BY <1>3, <1>4

\* The call takes what the stages before it have prepared, and its flag says
\* whether that is ETH.
LEMMA CallTakes ==
    ASSUME Built, NEW h \in 1..Last, NEW b \in Branches, HasLeg(h, b)
    PROVE  /\ Call(h, b).in = IF Deposits(h, b) THEN WETH
                              ELSE IF UnwrapsSrc(SwapAt(h), AnswerOf(h, b)) THEN ETH
                              ELSE StartForm(h)
           /\ Call(h, b).how = "pool" <=> AnswerOf(h, b).transferSrc
           /\ Call(h, b).flag.send <=> Call(h, b).in = ETH
<1> DEFINE a == AnswerOf(h, b)
           swap == SwapAt(h)
<1>1. BuiltLeg(h, b) /\ ETH # WETH /\ PathFits
  BY TokenAssumption DEF Built
<1>2. Consistent(swap, a) /\ a \in AnswerType
  BY <1>1 DEF BuiltLeg, ParamType, AnswerOf
<1>3. Call(h, b).how = "pool" <=> a.transferSrc
  BY CallIs
<1>4. Call(h, b).in = IF TakesNative(swap, a) THEN ETH ELSE WrappedForm(swap.src)
  BY CallIs
<1>5. Call(h, b).in = ETH <=> (swap.src = ETH /\ ~a.wrap) \/ UnwrapsSrc(swap, a)
  BY <1>1, <1>4 DEF TakesNative, WrappedForm, UnwrapsSrc
<1>6. ~UnwrapsSrc(swap, a) /\ WrapsDest(swap, a) => swap.src # ETH
  BY <1>2 DEF Consistent, WrapsDest
<1>7. ASSUME Last = 1, swap.src = ETH, a.wrap
      PROVE  "deposit" \in plan
  BY <1>1, <1>7 DEF BuiltLeg, PrevWraps, AnswerOf
<1>8. DexFlag(h, b).send <=> (swap.src = ETH /\ ~a.wrap) \/ UnwrapsSrc(swap, a)
  <2>1. CASE Last > 1
    <3>1. DexFlag(h, b) = MultiSwapFlag(swap, ParamOf(h, b), h = Last)
      BY <1>1, <2>1 DEF DexFlag, PathFits, Last
    <3> QED
      BY <1>6, <3>1 DEF MultiSwapFlag, MultiFlag, UnwrapFlag, Flag, AnswerOf
  <2>2. CASE Last = 1
    <3>1. DexFlag(h, b) = SimpleSwapFlag(swap, ParamOf(h, b))
      BY <1>1, <2>2 DEF DexFlag, PathFits, Last
    <3> QED
      BY <1>6, <1>7, <2>2, <3>1 DEF SimpleSwapFlag, SingleFlag, UnwrapFlag, Flag, AnswerOf
  <2> QED
    BY <1>1, <2>1, <2>2 DEF PathFits
<1> QED
  BY <1>3, <1>4, <1>5, <1>8, CallIs, SourceForm

\* A call that needs an allowance has planned approve data, and a stage of its own
\* block that grants it: with the deposit, or because its flag is not that of a
\* call that sends ETH.
LEMMA CallIsGranted ==
    ASSUME Built, NEW h \in 1..Last, NEW b \in Branches, HasLeg(h, b), Call(h, b).how = "needs"
    PROVE  MayApprove(ParamOf(h, b)) /\ (Deposits(h, b) \/ ApprovesSource(h, b))
<1> DEFINE a == AnswerOf(h, b)
           swap == SwapAt(h)
<1>1. BuiltLeg(h, b) /\ ETH # WETH
  BY TokenAssumption DEF Built
<1>2. ParamOf(h, b) \in ParamType /\ a \in AnswerType
  BY <1>1 DEF BuiltLeg, ParamType, AnswerOf
<1>3. ~a.transferSrc /\ ~TakesNative(swap, a) /\ ~a.skipApproval
      /\ ParamOf(h, b).approve # "already"
  BY CallIs
<1>4. MayApprove(ParamOf(h, b))
  BY <1>1, <1>2, <1>3 DEF BuiltLeg, Pulls, ParamType, MayApprove, AnswerOf
<1>5. Call(h, b).in # ETH
  BY <1>1, <1>3, CallIs DEF WrappedForm
<1>6. ~SendsOnly(DexFlag(h, b))
  BY <1>5, CallIs, CallTakes DEF SendsOnly
<1>7. CASE swap.src = ETH /\ ~PrevWraps(h)
  <2>1. a.wrap
    BY <1>3, <1>7 DEF TakesNative
  <2> QED
    BY <1>1, <1>4, <1>7, <2>1 DEF BuiltLeg, Deposits, AnswerOf
<1>8. CASE swap.src # ETH \/ PrevWraps(h)
  BY <1>4, <1>6, <1>8 DEF ApprovesSource, PrevWraps
<1> QED
  BY <1>7, <1>8

\* It delivers to Augustus only what is in the form of a last swap's destination.
LEMMA DeliversInForm ==
    ASSUME Built, NEW h \in 1..Last, NEW b \in Branches, HasLeg(h, b), CallDelivers(h, b)
    PROVE  /\ h = Last
           /\ route.dest = SwapAt(h).dest
           /\ SwapAt(h).dest = ETH => b = "primary" /\ ~AnswerOf(h, b).wrap
           /\ b = "fallback" => AnswerOf(h, "primary").hasRecipient
           /\ ~WrapsDest(SwapAt(h), AnswerOf(h, b))
           /\ Call(h, b).out = route.dest
<1> DEFINE a == AnswerOf(h, b)
           swap == SwapAt(h)
<1>1. BuiltLeg(h, b) /\ PathFits
  BY DEF Built
<1>2. Consistent(swap, a)
  BY <1>1 DEF BuiltLeg, AnswerOf
<1>3. /\ h = Last
      /\ ~(swap.dest = ETH /\ a.wrap)
      /\ ~(b = "fallback" /\ swap.dest = ETH)
      /\ ~ParamOf(h, b).toExecutor
  BY <1>1 DEF BuiltLeg, CallDelivers, AnswerOf
<1>4. b = "fallback" => AnswerOf(h, "primary").hasRecipient
  BY <1>1, <1>3 DEF BuiltLeg
<1>5. ~WrapsDest(swap, a)
  BY <1>2 DEF Consistent, WrapsDest, CallDelivers
<1>6. Call(h, b).out = swap.dest
  BY <1>3, <1>5, CallIs DEF GivesNative, WrapsDest, WrappedForm
<1> QED
  BY <1>1, <1>3, <1>4, <1>5, <1>6 DEF PathFits, Branches

\* What it leaves on the executor it measures, in the form it came in, in a route
\* of one swap ...
LEMMA SingleMeasures ==
    ASSUME Built, Last = 1, NEW b \in Branches, HasLeg(1, b), Call(1, b).to = "executor"
    PROVE  Measures(Call(1, b))
<1> DEFINE p == ParamOf(1, b)
           a == p.answer
           swap == SwapAt(1)
           c == Call(1, b)
           flag == SimpleSwapFlag(swap, p)
<1>1. BuiltLeg(1, b) /\ PathFits /\ ETH # WETH
  BY TokenAssumption DEF Built
<1>2. Consistent(swap, a) /\ a \in AnswerType /\ p \in ParamType
  BY <1>1 DEF BuiltLeg, ParamType
<1>3. c.flag = flag
  BY <1>1, CallIs DEF DexFlag, PathFits, Last
<1>4. c.out = (IF GivesNative(swap, a) THEN ETH ELSE WrappedForm(swap.dest))
      /\ c.measured = WrappedForm(swap.dest)
      /\ (a.hasRecipient => p.recipient = "executor")
  BY CallIs DEF AnswerOf
<1>5. swap.src # swap.dest
  BY <1>1 DEF PathFits
<1>6. CASE UnwrapsSrc(swap, a)
  <2>1. flag.check = "token"
    BY <1>6 DEF SimpleSwapFlag, SingleFlag, UnwrapFlag, Flag
  <2>2. ~GivesNative(swap, a)
    BY <1>2, <1>5, <1>6 DEF Consistent, UnwrapsSrc, GivesNative
  <2> QED
    BY <1>3, <1>4, <2>1, <2>2 DEF Measures
<1>7. CASE ~UnwrapsSrc(swap, a) /\ WrapsDest(swap, a)
  <2>1. flag.check = "eth"
    BY <1>7 DEF SimpleSwapFlag, SingleFlag, UnwrapFlag, Flag
  <2>2. GivesNative(swap, a)
    BY <1>7 DEF WrapsDest, GivesNative
  <2> QED
    BY <1>3, <1>4, <2>1, <2>2 DEF Measures
<1>8. CASE ~UnwrapsSrc(swap, a) /\ ~WrapsDest(swap, a) /\ swap.src = ETH /\ ~a.wrap
  <2>1. ~GivesNative(swap, a)
    BY <1>5, <1>8 DEF GivesNative, WrapsDest
  <2>2. ~a.hasRecipient
    <3> SUFFICES ASSUME a.hasRecipient
                 PROVE  FALSE
      OBVIOUS
    <3>1. p.recipient = "executor"
      BY <1>4
    <3>2. p.toExecutor \/ (b = "fallback" /\ swap.dest = ETH)
      BY <1>1, <1>5, <1>8, <3>1 DEF BuiltLeg
    <3>3. b = "fallback" /\ ~AnswerOf(1, "primary").hasRecipient
      BY <1>1, <1>5, <1>8, <3>2 DEF BuiltLeg
    <3> QED
      BY <1>1, <1>8, <3>3 DEF BuiltLeg, FallbackFits, AnswerOf
  <2>3. flag.check = "token"
    BY <1>8, <2>2 DEF SimpleSwapFlag, SingleFlag, UnwrapFlag, Flag
  <2> QED
    BY <1>3, <1>4, <2>1, <2>3 DEF Measures
<1>9. CASE ~UnwrapsSrc(swap, a) /\ ~WrapsDest(swap, a) /\ ~(swap.src = ETH /\ ~a.wrap)
           /\ swap.dest = ETH /\ ~a.wrap
  <2>1. flag.check = "eth"
    BY <1>5, <1>9 DEF SimpleSwapFlag, SingleFlag, UnwrapFlag, Flag
  <2>2. GivesNative(swap, a)
    BY <1>9 DEF GivesNative
  <2> QED
    BY <1>3, <1>4, <2>1, <2>2 DEF Measures
<1>10. CASE ~UnwrapsSrc(swap, a) /\ ~WrapsDest(swap, a) /\ ~(swap.src = ETH /\ ~a.wrap)
            /\ ~(swap.dest = ETH /\ ~a.wrap)
  <2>1. ~GivesNative(swap, a)
    BY <1>10 DEF GivesNative, WrapsDest
  <2>2. /\ swap.src = ETH => "deposit" \in plan
        /\ swap.dest = ETH => "withdraw" \in plan
    <3>1. ~PrevWraps(1) /\ ~NextWraps(1)
      BY <1>1 DEF PrevWraps, NextWraps, PathFits, Last
    <3> QED
      BY <1>1, <1>10, <3>1 DEF BuiltLeg
  <2>3. ~a.hasRecipient \/ p.toExecutor \/ swap.dest = ETH
    BY <1>1, <1>4 DEF BuiltLeg
  <2>4. flag.check = "token"
    BY <1>10, <2>2, <2>3 DEF SimpleSwapFlag, SingleFlag, UnwrapFlag, Flag
  <2> QED
    BY <1>3, <1>4, <2>1, <2>4 DEF Measures
<1> QED
  BY <1>6, <1>7, <1>8, <1>9, <1>10

\* ... and in a longer one.
LEMMA MultiMeasures ==
    ASSUME Built, Last > 1, NEW h \in 1..Last, NEW b \in Branches, HasLeg(h, b),
           Call(h, b).to = "executor"
    PROVE  Measures(Call(h, b))
<1> DEFINE p == ParamOf(h, b)
           a == p.answer
           swap == SwapAt(h)
           c == Call(h, b)
           flag == MultiSwapFlag(swap, p, h = Last)
<1>1. BuiltLeg(h, b) /\ PathFits /\ ETH # WETH
  BY TokenAssumption DEF Built
<1>2. Consistent(swap, a) /\ a \in AnswerType /\ p \in ParamType
  BY <1>1 DEF BuiltLeg, ParamType
<1>3. c.flag = flag
  BY <1>1, CallIs DEF DexFlag, PathFits, Last
<1>4. c.out = (IF GivesNative(swap, a) THEN ETH ELSE WrappedForm(swap.dest))
      /\ c.measured = WrappedForm(swap.dest)
      /\ (a.hasRecipient => p.recipient = "executor")
  BY CallIs DEF AnswerOf
<1>5. swap.src # swap.dest
  BY <1>1 DEF PathFits
\* All outputs that stay are measured.
<1>6. h # Last \/ ~a.hasRecipient \/ p.toExecutor
      \/ (a.wrap /\ swap.dest = ETH /\ "withdraw" \in plan)
  <2> SUFFICES ASSUME h = Last, a.hasRecipient, ~p.toExecutor
               PROVE  a.wrap /\ swap.dest = ETH /\ "withdraw" \in plan
    OBVIOUS
  <2>1. swap.dest = ETH /\ (a.wrap \/ b = "fallback")
    BY <1>1, <1>4 DEF BuiltLeg
  <2>2. a.wrap
    <3> SUFFICES ASSUME ~a.wrap
                 PROVE  FALSE
      OBVIOUS
    <3>1. b = "fallback" /\ AnswerOf(h, "primary").hasRecipient
      BY <1>1, <2>1 DEF BuiltLeg
    <3> QED
      BY <1>1, <2>1, <3>1 DEF BuiltLeg, FallbackFits, AnswerOf
  <2>3. ~NextWraps(h)
    BY DEF NextWraps, Last
  <2> QED
    BY <1>1, <2>1, <2>2, <2>3 DEF BuiltLeg
<1>7. CASE UnwrapsSrc(swap, a)
  <2>1. flag.check = "token"
    BY <1>7 DEF MultiSwapFlag, MultiFlag, UnwrapFlag, Flag
  <2>2. ~GivesNative(swap, a)
    BY <1>2, <1>5, <1>7 DEF Consistent, UnwrapsSrc, GivesNative
  <2> QED
    BY <1>3, <1>4, <2>1, <2>2 DEF Measures
<1>8. CASE ~UnwrapsSrc(swap, a) /\ WrapsDest(swap, a)
  <2>1. flag.check = "eth"
    BY <1>8 DEF MultiSwapFlag, MultiFlag, UnwrapFlag, Flag
  <2>2. GivesNative(swap, a)
    BY <1>8 DEF WrapsDest, GivesNative
  <2> QED
    BY <1>3, <1>4, <2>1, <2>2 DEF Measures
<1>9. CASE ~UnwrapsSrc(swap, a) /\ ~WrapsDest(swap, a)
  <2>1. flag.check = IF swap.dest = ETH /\ ~a.wrap THEN "eth" ELSE "token"
    BY <1>5, <1>6, <1>9 DEF MultiSwapFlag, MultiFlag, UnwrapFlag, Flag
  <2>2. GivesNative(swap, a) <=> swap.dest = ETH /\ ~a.wrap
    BY <1>9 DEF GivesNative, WrapsDest
  <2> QED
    BY <1>3, <1>4, <2>1, <2>2 DEF Measures
<1> QED
  BY <1>7, <1>8, <1>9

\* The funds behind the call.
LEMMA CallReturns ==
    ASSUME Built, NEW h \in 1..Last, NEW b \in Branches, HasLeg(h, b)
    PROVE  /\ Call(h, b).out = IF GivesNative(SwapAt(h), AnswerOf(h, b)) THEN ETH
                               ELSE WrappedForm(SwapAt(h).dest)
           /\ Call(h, b).out \in Tokens
           /\ Call(h, b).to = IF CallDelivers(h, b) THEN "augustus" ELSE "executor"
           /\ Call(h, b).to = "executor" => Measures(Call(h, b))
<1>1. PathFits /\ BuiltLeg(h, b) /\ {ETH, WETH} \subseteq Tokens
  BY TokenAssumption DEF Built
<1>2. Call(h, b).out \in Tokens
  BY <1>1, CallIs DEF PathFits, WrappedForm
<1>3. ParamOf(h, b).recipient \in {"executor", "augustus"}
  BY <1>1 DEF BuiltLeg
<1>4. Call(h, b).to = IF CallDelivers(h, b) THEN "augustus" ELSE "executor"
  BY <1>3, CallIs DEF CallDelivers
<1>5. Call(h, b).to = "executor" => Measures(Call(h, b))
  <2>1. CASE Last > 1
    BY <2>1, MultiMeasures
  <2>2. CASE Last = 1
    BY <2>2, SingleMeasures
  <2> QED
    BY <1>1, <2>1, <2>2 DEF PathFits
<1> QED
  BY <1>2, <1>4, <1>5, CallIs

-----------------------------------------------------------------------------
(* The steps of a block and of the trailer. *)

\* A step finds what it needs, and its effect is what the next stage expects.
GoesOn(h, b, n, m) ==
    LET s == StepAt(h, b, Stages[n]) IN
    /\ FindsFunds(m, s) /\ IsGranted(m, s) /\ IsExact(m, s)
    /\ Expected(h, b, n + 1, Apply(m, s))

\* The stages before the call.
LEMMA SourceStepsGoOn ==
    ASSUME Built, NEW h \in 1..Last, NEW b \in Branches, HasLeg(h, b),
           NEW n \in 1..5, Has(h, b, Stages[n]), NEW m, Expected(h, b, n, m)
    PROVE  GoesOn(h, b, n, m)
<1> DEFINE a == AnswerOf(h, b)
           swap == SwapAt(h)
           s == StepAt(h, b, Stages[n])
<1>1. BuiltLeg(h, b) /\ PathFits /\ ETH # WETH /\ {ETH, WETH} \subseteq Tokens
  BY TokenAssumption DEF Built
<1>2. Consistent(swap, a) /\ a \in AnswerType
  BY <1>1 DEF BuiltLeg, ParamType, AnswerOf
<1>3. Last \in Nat /\ h \in Nat /\ h <= Last
  BY <1>1 DEF PathFits
<1>4. m \in Machines /\ BeforeCall(h, b, n, m)
  BY <1>3 DEF Expected
<1>5. m = [held |-> m.held, at |-> m.at, exact |-> m.exact, granted |-> m.granted]
  BY <1>4 DEF Machines
<1>6. ASSUME Deposits(h, b)
      PROVE  swap.src = ETH /\ ~UnwrapsSrc(swap, a) /\ StartForm(h) = ETH
  BY <1>1, <1>6 DEF Deposits, StartForm, UnwrapsSrc
<1>7. SUFFICES /\ FindsFunds(m, s) /\ IsGranted(m, s) /\ IsExact(m, s)
               /\ Apply(m, s) \in Machines /\ BeforeCall(h, b, n + 1, Apply(m, s))
  BY <1>3 DEF GoesOn, Expected
<1>8. CASE n \in {1, 3}
  <2>1. s = ApproveStep /\ (n = 1 => Deposits(h, b)) /\ (n = 3 => ApprovesSource(h, b))
    BY <1>3, <1>8, StageNames, HasStages DEF StepAt
  <2>2. FindsFunds(m, s) /\ IsGranted(m, s) /\ IsExact(m, s) /\ Apply(m, s) = [m EXCEPT !.granted = TRUE]
    BY <2>1 DEF ApproveStep, FindsFunds, IsGranted, IsExact, Apply
  <2>3. Apply(m, s) \in Machines /\ Apply(m, s).held = m.held /\ Apply(m, s).at = m.at
        /\ Apply(m, s).exact = m.exact /\ Apply(m, s).granted
    BY <1>4, <1>5, <2>2 DEF Machines
  <2>4. BeforeCall(h, b, n + 1, Apply(m, s))
    BY <1>4, <1>8, <2>3 DEF BeforeCall
  <2> QED
    BY <2>2, <2>3, <2>4
<1>9. CASE n = 2
  <2>1. s = WrapStep /\ Deposits(h, b)
    BY <1>3, <1>9, StageNames, HasStages DEF StepAt
  <2>2. m.held = ETH /\ m.at = "executor" /\ m.exact
    BY <1>4, <1>6, <1>9, <2>1 DEF BeforeCall
  <2>3. FindsFunds(m, s) /\ IsGranted(m, s) /\ IsExact(m, s) /\ Apply(m, s) = [m EXCEPT !.held = WETH]
    BY <2>1, <2>2 DEF WrapStep, FindsFunds, IsGranted, IsExact, Apply
  <2>4. BeforeCall(h, b, 3, Apply(m, s)) /\ Apply(m, s) \in Machines
    BY <1>1, <1>4, <1>5, <1>9, <2>1, <2>3 DEF BeforeCall, Machines
  <2> QED
    BY <1>9, <2>3, <2>4
<1>10. CASE n = 4
  <2>1. s = TransferStep(WrappedForm(swap.src), "pool") /\ a.transferSrc
    BY <1>3, <1>10, StageNames, HasStages DEF StepAt, TransferSrcStep
  <2>2. ~TakesNative(swap, a)
    BY <1>2, <2>1 DEF Consistent
  <2>3. m.held = WrappedForm(swap.src) /\ m.at = "executor" /\ m.exact
    <3>1. m.held = IF Deposits(h, b) THEN WETH ELSE StartForm(h)
      BY <1>4, <1>10 DEF BeforeCall
    <3>2. ~UnwrapsSrc(swap, a)
      BY <2>2 DEF TakesNative, UnwrapsSrc
    <3> QED
      BY <1>4, <1>10, <2>2, <3>1, <3>2, SourceForm DEF BeforeCall
  <2>4. FindsFunds(m, s) /\ IsGranted(m, s) /\ IsExact(m, s) /\ Apply(m, s) = [m EXCEPT !.at = "pool"]
    BY <2>1, <2>3 DEF TransferStep, FindsFunds, IsGranted, IsExact, Apply
  <2>5. BeforeCall(h, b, 5, Apply(m, s)) /\ Apply(m, s) \in Machines
    BY <1>4, <1>5, <1>10, <2>1, <2>4 DEF BeforeCall, Machines, Places
  <2> QED
    BY <1>10, <2>4, <2>5
<1>11. CASE n = 5
  <2>1. s = UnwrapStep /\ UnwrapsSrc(swap, a)
    BY <1>3, <1>11, StageNames, HasStages DEF StepAt
  <2>2. ~a.transferSrc /\ swap.src = WETH /\ ~Deposits(h, b)
    BY <1>1, <1>2, <2>1 DEF Consistent, UnwrapsSrc, TakesNative, Deposits
  <2>3. m.held = WETH /\ m.at = "executor" /\ m.exact
    BY <1>1, <1>4, <1>11, <2>2 DEF BeforeCall, StartForm
  <2>4. FindsFunds(m, s) /\ IsGranted(m, s) /\ IsExact(m, s) /\ Apply(m, s) = [m EXCEPT !.held = ETH]
    BY <2>1, <2>3 DEF UnwrapStep, FindsFunds, IsGranted, IsExact, Apply
  <2>5. BeforeCall(h, b, 6, Apply(m, s)) /\ Apply(m, s) \in Machines
    BY <1>1, <1>4, <1>5, <1>11, <2>1, <2>2, <2>4 DEF BeforeCall, Machines
  <2> QED
    BY <1>11, <2>4, <2>5
<1> QED
  BY <1>8, <1>9, <1>10, <1>11

\* The call.
LEMMA CallGoesOn ==
    ASSUME Built, NEW h \in 1..Last, NEW b \in Branches, HasLeg(h, b),
           NEW m, Expected(h, b, 6, m)
    PROVE  GoesOn(h, b, 6, m)
<1> DEFINE a == AnswerOf(h, b)
           s == StepAt(h, b, Stages[6])
           c == Call(h, b)
<1>1. Last \in Nat /\ h \in Nat /\ h <= Last
  BY DEF Built, PathFits
<1>2. BeforeCall(h, b, 6, m)
  BY <1>1 DEF Expected
<1>3. s = c /\ c.op = "dex"
  BY StageNames, CallIs DEF StepAt, Call
<1>4. m.held = c.in /\ (m.at = IF c.how = "pool" THEN "pool" ELSE "executor") /\ m.exact
  BY <1>2, CallTakes DEF BeforeCall
<1>5. FindsFunds(m, s) /\ IsExact(m, s)
  BY <1>3, <1>4, CallTakes DEF FindsFunds, IsExact
<1>6. IsGranted(m, s)
  BY <1>2, <1>3, CallIsGranted DEF IsGranted, BeforeCall
<1>7. Apply(m, s) = [held |-> c.out, at |-> c.to, granted |-> FALSE,
                     exact |-> c.to = "executor" /\ Measures(c)]
  BY <1>3 DEF Apply
<1>8. c.out \in Tokens /\ c.to \in Places /\ Measures(c) \in BOOLEAN
  BY CallReturns DEF Measures, Places
<1>9. Apply(m, s) \in Machines
  BY <1>7, <1>8 DEF Machines
<1>10. AfterCall(h, b, 7, Apply(m, s))
  BY <1>7, <1>8, CallReturns DEF AfterCall
<1> QED
  BY <1>1, <1>5, <1>6, <1>9, <1>10 DEF GoesOn, Expected

\* The stages behind it.
LEMMA DestStepsGoOn ==
    ASSUME Built, NEW h \in 1..Last, NEW b \in Branches, HasLeg(h, b),
           NEW n \in 7..11, Has(h, b, Stages[n]), NEW m, Expected(h, b, n, m)
    PROVE  GoesOn(h, b, n, m)
<1> DEFINE a == AnswerOf(h, b)
           swap == SwapAt(h)
           s == StepAt(h, b, Stages[n])
<1>1. BuiltLeg(h, b) /\ PathFits /\ ETH # WETH /\ {ETH, WETH} \subseteq Tokens
  BY TokenAssumption DEF Built
<1>2. a \in AnswerType
  BY <1>1 DEF BuiltLeg, ParamType, AnswerOf
<1>3. Last \in Nat /\ h \in Nat /\ h <= Last
  BY <1>1 DEF PathFits
<1>4. m \in Machines /\ AfterCall(h, b, n, m)
  BY <1>3 DEF Expected
<1>5. m = [held |-> m.held, at |-> m.at, exact |-> m.exact, granted |-> m.granted]
  BY <1>4 DEF Machines
<1>6. ASSUME swap.dest = ETH
      PROVE  ~WrapsDest(swap, a) /\ (GivesNative(swap, a) <=> ~a.wrap)
  BY <1>1, <1>6 DEF WrapsDest, GivesNative
<1>7. SUFFICES /\ FindsFunds(m, s) /\ IsGranted(m, s) /\ IsExact(m, s)
               /\ Apply(m, s) \in Machines /\ AfterCall(h, b, n + 1, Apply(m, s))
  BY <1>3 DEF GoesOn, Expected
<1>8. CASE n = 7
  <2>1. s = WrapStep /\ WrapsDest(swap, a)
    BY <1>3, <1>8, StageNames, HasStages DEF StepAt
  <2>2. ~CallDelivers(h, b) /\ GivesNative(swap, a)
    BY <2>1, DeliversInForm DEF WrapsDest, GivesNative
  <2>3. m.held = ETH /\ m.at = "executor" /\ m.exact
    BY <1>4, <1>8, <2>2 DEF AfterCall
  <2>4. FindsFunds(m, s) /\ IsGranted(m, s) /\ IsExact(m, s) /\ Apply(m, s) = [m EXCEPT !.held = WETH]
    BY <2>1, <2>3 DEF WrapStep, FindsFunds, IsGranted, IsExact, Apply
  <2>5. AfterCall(h, b, 8, Apply(m, s)) /\ Apply(m, s) \in Machines
    BY <1>1, <1>4, <1>5, <1>8, <2>1, <2>2, <2>4 DEF AfterCall, Machines
  <2> QED
    BY <1>8, <2>4, <2>5
<1>9. CASE n = 8
  <2>1. s = UnwrapStep /\ BlockHas(h, b, "withdraw") /\ a.wrap /\ swap.dest = ETH
    BY <1>3, <1>9, StageNames, HasStages, BlockHasLate DEF StepAt
  <2>2. ~CallDelivers(h, b)
    BY <2>1, DeliversInForm
  <2>3. m.held = WETH /\ m.at = "executor" /\ m.exact
    BY <1>4, <1>6, <1>9, <2>1, <2>2 DEF AfterCall, WrappedForm
  <2>4. FindsFunds(m, s) /\ IsGranted(m, s) /\ IsExact(m, s) /\ Apply(m, s) = [m EXCEPT !.held = ETH]
    BY <2>1, <2>3 DEF UnwrapStep, FindsFunds, IsGranted, IsExact, Apply
  <2>5. AfterCall(h, b, 9, Apply(m, s)) /\ Apply(m, s) \in Machines
    BY <1>1, <1>4, <1>5, <1>9, <2>1, <2>2, <2>4 DEF AfterCall, Machines
  <2> QED
    BY <1>9, <2>4, <2>5
<1>10. CASE n = 9
  <2>1. s = TransferStep(route.dest, "augustus") /\ BlockHas(h, b, "forward")
        /\ swap.dest = route.dest /\ swap.dest # ETH /\ ~a.hasRecipient
    BY <1>1, <1>3, <1>10, StageNames, HasStages, BlockHasLate DEF StepAt, PathFits
  <2>2. ~CallDelivers(h, b) /\ ~BlockHas(h, b, "withdraw")
    BY <1>3, <2>1, BlockHasLate DEF CallDelivers
  <2>3. m.held = route.dest /\ m.at = "executor" /\ m.exact
    BY <1>4, <1>10, <2>1, <2>2 DEF AfterCall, WrapsDest, GivesNative, WrappedForm
  <2>4. FindsFunds(m, s) /\ IsGranted(m, s) /\ IsExact(m, s) /\ Apply(m, s) = [m EXCEPT !.at = "augustus"]
    BY <2>1, <2>3 DEF TransferStep, FindsFunds, IsGranted, IsExact, Apply
  <2>5. AfterCall(h, b, 10, Apply(m, s)) /\ Apply(m, s) \in Machines
    BY <1>4, <1>5, <1>10, <2>1, <2>2, <2>4 DEF AfterCall, Machines, Places
  <2> QED
    BY <1>10, <2>4, <2>5
<1>11. CASE n = 10
  <2>0. s = SendNativeStep
    BY <1>11, StageNames DEF StepAt
  <2>1. BlockHas(h, b, "sendNative") /\ b = "fallback" /\ h = Last
        /\ swap.dest = ETH /\ swap.dest = route.dest /\ GroupHandlesNativeSend(h)
    BY <1>1, <1>3, <1>11, StageNames, HasStages, BlockHasLate DEF PathFits
  <2>2. a.wrap /\ ~NextWraps(h) /\ "withdraw" \in plan
    <3>1. a.wrap /\ ~NextWraps(h)
      BY <2>1 DEF GroupHandlesNativeSend, NextWraps, Last
    <3> QED
      BY <1>1, <2>1, <3>1 DEF BuiltLeg, AnswerOf
  <2>3. ~CallDelivers(h, b) /\ BlockHas(h, b, "withdraw") /\ ~BlockHas(h, b, "forward")
    BY <1>3, <2>1, <2>2, BlockHasLate, DeliversInForm
  <2>4. m.held = ETH /\ m.at = "executor" /\ m.exact
    BY <1>4, <1>11, <2>3 DEF AfterCall
  <2>5. FindsFunds(m, s) /\ IsGranted(m, s) /\ IsExact(m, s) /\ Apply(m, s) = [m EXCEPT !.at = "augustus"]
    BY <2>0, <2>4 DEF SendNativeStep, FindsFunds, IsGranted, IsExact, Apply
  <2>6. AfterCall(h, b, 11, Apply(m, s)) /\ Apply(m, s) \in Machines
    BY <1>4, <1>5, <1>11, <2>1, <2>3, <2>5 DEF AfterCall, Machines, Places
  <2> QED
    BY <1>11, <2>5, <2>6
<1>12. CASE n = 11
  <2>1. /\ s = IF EndsInWeth(h, "fallback") THEN UnwrapStep ELSE WrapStep
        /\ BlockHas(h, b, "normalize") /\ b = "fallback" /\ h # Last /\ swap.dest = ETH
    BY <1>3, <1>12, StageNames, HasStages, BlockHasLate DEF StepAt
  <2>2. ~CallDelivers(h, b) /\ ~BlockHas(h, b, "forward") /\ ~BlockHas(h, b, "sendNative")
    BY <1>3, <2>1, BlockHasLate, DeliversInForm
  <2>3. m.held = (IF EndsInWeth(h, "fallback") THEN WETH ELSE ETH) /\ m.at = "executor" /\ m.exact
    <3>1. BlockHas(h, b, "withdraw") <=> a.wrap /\ ~EndsInWeth(h, "fallback")
      BY <1>3, <2>1, BlockHasLate DEF EndsInWeth
    <3>2. EndsInWeth(h, "fallback") => a.wrap
      BY <2>1 DEF EndsInWeth
    <3>3. m.held = (IF BlockHas(h, b, "withdraw") THEN ETH
                    ELSE IF GivesNative(swap, a) THEN ETH ELSE WETH)
      BY <1>4, <1>6, <1>12, <2>1 DEF AfterCall, WrappedForm
    <3>4. m.at = "executor" /\ m.exact
      BY <1>4, <1>12, <2>2 DEF AfterCall
    <3> QED
      BY <1>6, <2>1, <3>1, <3>2, <3>3, <3>4
  <2>4. /\ FindsFunds(m, s) /\ IsGranted(m, s) /\ IsExact(m, s)
        /\ Apply(m, s) = [m EXCEPT !.held = IF EndsInWeth(h, "fallback") THEN ETH ELSE WETH]
    BY <2>1, <2>3 DEF UnwrapStep, WrapStep, FindsFunds, IsGranted, IsExact, Apply
  <2>5. AfterCall(h, b, 12, Apply(m, s)) /\ Apply(m, s) \in Machines
    BY <1>1, <1>4, <1>5, <1>12, <2>1, <2>2, <2>3, <2>4 DEF AfterCall, Machines
  <2> QED
    BY <1>12, <2>4, <2>5
<1> QED
  BY <1>8, <1>9, <1>10, <1>11, <1>12

\* A trailer's send waits for what has not been delivered: a withdrawal that only
\* the fallback of a raw last exchange needs is sent by the group itself.
LEMMA TrailerWaits ==
    ASSUME Built
    PROVE  Delivered <=> ~TrailerHas("forward") /\ ~TrailerHas("sendNative")
<1> DEFINE a == AnswerOf(Last, "primary")
<1>1. PathFits /\ WithdrawalIsLast /\ Last \in 1..Last
  BY DEF Built, PathFits
<1>2. BuiltLeg(Last, "primary")
  BY <1>1 DEF Built, HasLeg, Branches
<1>3. ~NextWraps(Last)
  BY <1>1 DEF NextWraps, Last, PathFits
<1>4. CASE route.dest # ETH
  BY <1>1, <1>4, TrailerStages DEF Delivered, PathFits
<1>5. CASE route.dest = ETH /\ a.wrap
  <2>1. "withdraw" \in plan
    BY <1>1, <1>2, <1>3, <1>5 DEF BuiltLeg, PathFits, AnswerOf
  <2>2. ~GroupHandlesNativeSend(Last)
    BY <1>5 DEF GroupHandlesNativeSend
  <2> QED
    BY <1>1, <1>5, <2>1, <2>2, TrailerStages DEF Delivered, Wraps, PathFits
<1>6. CASE route.dest = ETH /\ ~a.wrap /\ ~a.hasRecipient
  <2>1. ~GroupHandlesNativeSend(Last)
    BY <1>6 DEF GroupHandlesNativeSend
  <2> QED
    BY <1>1, <1>6, <2>1, TrailerStages DEF Delivered, PathFits
<1>7. CASE route.dest = ETH /\ ~a.wrap /\ a.hasRecipient
  <2>1. "withdraw" \in plan => GroupHandlesNativeSend(Last)
    BY <1>1, <1>7 DEF WithdrawalIsLast, GroupHandlesNativeSend, HasLeg, PathFits, Branches
  <2> QED
    BY <1>1, <1>7, <2>1, TrailerStages DEF Delivered, Wraps, PathFits
<1> QED
  BY <1>4, <1>5, <1>6, <1>7

\* The steps of the trailer.
LEMMA TrailerStepsGoOn ==
    ASSUME Built, NEW b, NEW n \in 1..11, Has(Last + 1, b, Stages[n]),
           NEW m, Expected(Last + 1, b, n, m)
    PROVE  GoesOn(Last + 1, b, n, m)
<1> DEFINE s == StepAt(Last + 1, b, Stages[n])
<1>1. Last \in Nat /\ ~(Last + 1 <= Last) /\ Last + 1 > Last
  BY DEF Built, PathFits
<1>2. m \in Machines /\ InTrailer(n, m)
  BY <1>1 DEF Expected
<1>3. m = [held |-> m.held, at |-> m.at, exact |-> m.exact, granted |-> m.granted]
  BY <1>2 DEF Machines
<1>4. TrailerHas("forward") <=> route.dest # ETH /\ TrailerHas("forward")
  BY <1>1, TrailerStages
<1>5. TrailerHas("sendNative") <=> route.dest = ETH /\ TrailerHas("sendNative")
  BY <1>1, TrailerStages
<1>6. (n = 9 /\ TrailerHas("forward")) \/ (n = 10 /\ TrailerHas("sendNative"))
  BY <1>1, TrailerStages
<1>7. SUFFICES /\ FindsFunds(m, s) /\ IsGranted(m, s) /\ IsExact(m, s)
               /\ Apply(m, s) \in Machines /\ InTrailer(n + 1, Apply(m, s))
  BY <1>1 DEF GoesOn, Expected
<1>8. CASE n = 9 /\ TrailerHas("forward")
  <2>1. s = TransferStep(route.dest, "augustus")
    BY <1>8, StageNames DEF StepAt
  <2>2. m.held = route.dest /\ m.at = "executor" /\ m.exact
    BY <1>2, <1>8, TrailerWaits DEF InTrailer
  <2>3. FindsFunds(m, s) /\ IsGranted(m, s) /\ IsExact(m, s) /\ Apply(m, s) = [m EXCEPT !.at = "augustus"]
    BY <2>1, <2>2 DEF TransferStep, FindsFunds, IsGranted, IsExact, Apply
  <2>4. InTrailer(10, Apply(m, s)) /\ Apply(m, s) \in Machines
    BY <1>2, <1>3, <1>8, <2>2, <2>3 DEF InTrailer, Machines, Places
  <2> QED
    BY <1>8, <2>3, <2>4
<1>9. CASE n = 10 /\ TrailerHas("sendNative")
  <2>1. s = SendNativeStep
    BY <1>9, StageNames DEF StepAt
  <2>2. m.held = ETH /\ m.at = "executor" /\ m.exact
    BY <1>2, <1>4, <1>5, <1>9, TrailerWaits DEF InTrailer
  <2>3. FindsFunds(m, s) /\ IsGranted(m, s) /\ IsExact(m, s) /\ Apply(m, s) = [m EXCEPT !.at = "augustus"]
    BY <2>1, <2>2 DEF SendNativeStep, FindsFunds, IsGranted, IsExact, Apply
  <2>4. InTrailer(11, Apply(m, s)) /\ Apply(m, s) \in Machines
    BY <1>2, <1>3, <1>9, <2>2, <2>3 DEF InTrailer, Machines, Places
  <2> QED
    BY <1>9, <2>3, <2>4
<1> QED
  BY <1>6, <1>8, <1>9

-----------------------------------------------------------------------------
(* From block to block. *)

\* A branch ends mid-route in WETH where the next block takes it as it is.
LEMMA EndsInWethIs ==
    ASSUME Built, NEW h \in 1..Last, NEW b \in Branches, HasLeg(h, b), SwapAt(h).dest = ETH
    PROVE  EndsInWeth(h, b) <=> AnswerOf(h, b).wrap /\ NextWraps(h)
<1>1. BuiltLeg(h, b)
  BY DEF Built
<1>2. AnswerOf(h, b).wrap /\ ~NextWraps(h) => "withdraw" \in plan
  BY <1>1 DEF BuiltLeg, AnswerOf
<1> QED
  BY <1>2 DEF EndsInWeth

\* Whichever branch ran, a block before the last ends with what the next one
\* starts from.
LEMMA BlockEndsMidRoute ==
    ASSUME Built, NEW h \in 1..Last, h # Last, NEW b \in Branches, HasLeg(h, b),
           NEW m, Expected(h, b, 12, m)
    PROVE  m.held = StartForm(h + 1) /\ m.at = "executor" /\ m.exact
<1> DEFINE a == AnswerOf(h, b)
           swap == SwapAt(h)
<1>1. PathFits /\ ETH # WETH /\ HasLeg(h, "primary") /\ "primary" \in Branches
  BY TokenAssumption DEF Built, HasLeg, Branches
<1>2. Last \in Nat /\ h \in Nat /\ h < Last /\ swap.dest = SwapAt(h + 1).src
  BY <1>1 DEF PathFits
<1>3. AfterCall(h, b, 12, m)
  BY <1>2 DEF Expected
<1>4. m.at = "executor" /\ m.exact
  <2>1. ~CallDelivers(h, b)
    BY DeliversInForm
  <2>2. ~BlockHas(h, b, "forward") /\ ~BlockHas(h, b, "sendNative")
    BY <1>2, BlockHasLate
  <2> QED
    BY <1>3, <2>1, <2>2 DEF AfterCall
<1>5. CASE swap.dest # ETH
  <2>1. ~BlockHas(h, b, "withdraw") /\ ~BlockHas(h, b, "normalize")
    BY <1>2, <1>5, BlockHasLate
  <2>2. m.held = swap.dest
    BY <1>3, <1>5, <2>1 DEF AfterCall, WrapsDest, GivesNative, WrappedForm
  <2> QED
    BY <1>2, <1>4, <1>5, <2>2 DEF StartForm
<1>6. CASE swap.dest = ETH
  <2>1. (PrevWraps(h + 1) <=> Wraps(h)) /\ (NextWraps(h) <=> Wraps(h + 1))
    <3>1. h + 1 > 1 /\ (h + 1) - 1 = h
      BY <1>2
    <3> QED
      BY <1>2, <3>1 DEF PrevWraps, NextWraps, Wraps, Last
  <2>2. StartForm(h + 1) = IF Wraps(h) /\ NextWraps(h) THEN WETH ELSE ETH
    BY <1>2, <1>6, <2>1 DEF StartForm
  <2>3. ~WrapsDest(swap, a) /\ (GivesNative(swap, a) <=> ~a.wrap)
    BY <1>1, <1>6 DEF WrapsDest, GivesNative
  <2>4. BlockHas(h, b, "withdraw") <=> a.wrap /\ ~NextWraps(h)
    <3>1. a.wrap /\ ~NextWraps(h) => "withdraw" \in plan
      BY <1>6 DEF Built, BuiltLeg, AnswerOf
    <3> QED
      BY <1>2, <1>6, <3>1, BlockHasLate
  <2>5. BlockHas(h, b, "normalize") <=>
            b = "fallback" /\ EndsInWeth(h, "primary") # EndsInWeth(h, "fallback")
    BY <1>2, <1>6, BlockHasLate
  <2>6. EndsInWeth(h, "primary") <=> Wraps(h) /\ NextWraps(h)
    BY <1>1, <1>6, EndsInWethIs DEF Wraps
  <2>7. m.held = IF BlockHas(h, b, "normalize") THEN (IF EndsInWeth(h, "fallback") THEN ETH ELSE WETH)
                 ELSE IF a.wrap /\ NextWraps(h) THEN WETH ELSE ETH
    BY <1>3, <1>6, <2>3, <2>4 DEF AfterCall, WrappedForm
  <2>8. CASE b = "primary"
    BY <1>4, <2>2, <2>5, <2>7, <2>8 DEF Wraps
  <2>9. CASE b = "fallback"
    <3>1. EndsInWeth(h, "fallback") <=> a.wrap /\ NextWraps(h)
      BY <1>6, <2>9, EndsInWethIs
    <3>2. EndsInWeth(h, "primary") \in BOOLEAN /\ EndsInWeth(h, "fallback") \in BOOLEAN
      BY <1>1, <2>9 DEF EndsInWeth, Built, BuiltLeg, ParamType, AnswerType, AnswerOf
    <3> QED
      BY <1>4, <2>2, <2>5, <2>6, <2>7, <2>9, <3>1, <3>2
  <2> QED
    BY <2>8, <2>9 DEF Branches
<1> QED
  BY <1>5, <1>6

\* Whichever branch of the last swap ran, it ends with the destination token,
\* delivered exactly if the primary delivers: the trailer serves both.
LEMMA LastBlockEnds ==
    ASSUME Built, NEW b \in Branches, HasLeg(Last, b), NEW m, Expected(Last, b, 12, m)
    PROVE  InTrailer(1, m)
<1> DEFINE a == AnswerOf(Last, b)
           p == AnswerOf(Last, "primary")
           swap == SwapAt(Last)
<1>1. PathFits /\ ETH # WETH /\ Last \in 1..Last /\ Last \in Nat /\ route.dest = swap.dest
  BY TokenAssumption DEF Built, PathFits
<1>2. BuiltLeg(Last, b)
  BY <1>1 DEF Built
<1>3. AfterCall(Last, b, 12, m)
  BY <1>1 DEF Expected
<1>4. ~NextWraps(Last) /\ ~BlockHas(Last, b, "normalize")
  BY <1>1, BlockHasLate DEF NextWraps, Last
<1>5. BlockHas(Last, b, "withdraw") <=> a.wrap /\ swap.dest = ETH
  BY <1>1, <1>2, <1>4, BlockHasLate DEF BuiltLeg, AnswerOf
<1>6. m.held = route.dest
  <2>1. CASE swap.dest = ETH
    BY <1>1, <1>3, <1>4, <1>5, <2>1 DEF AfterCall, WrapsDest, GivesNative
  <2>2. CASE swap.dest # ETH
    BY <1>1, <1>3, <1>4, <1>5, <2>2 DEF AfterCall, WrapsDest, GivesNative, WrappedForm
  <2> QED
    BY <2>1, <2>2
<1>7. CallDelivers(Last, b) <=> /\ a.hasRecipient
                                /\ ~(swap.dest = ETH /\ a.wrap)
                                /\ ~(b = "fallback" /\ swap.dest = ETH)
                                /\ ~(b = "fallback" /\ ~p.hasRecipient)
  BY <1>2 DEF CallDelivers, BuiltLeg, AnswerOf
<1>8. (m.at = "executor" \/ m.at = "augustus") /\ (m.at = "executor" => m.exact)
  BY <1>3 DEF AfterCall
<1>9. m.at = "augustus" <=> Delivered
  <2>1. m.at = "augustus" <=> \/ CallDelivers(Last, b)
                              \/ BlockHas(Last, b, "forward")
                              \/ BlockHas(Last, b, "sendNative")
    BY <1>3 DEF AfterCall
  <2>2. BlockHas(Last, b, "forward") <=>
            b = "fallback" /\ swap.dest # ETH /\ p.hasRecipient /\ ~a.hasRecipient
    BY <1>1, BlockHasLate
  <2>3. BlockHas(Last, b, "sendNative") <=>
            b = "fallback" /\ swap.dest = ETH /\ a.wrap /\ ~p.wrap /\ p.hasRecipient
    BY <1>1, BlockHasLate DEF GroupHandlesNativeSend, HasLeg, Branches
  <2>4. Delivered <=> p.hasRecipient /\ ~(swap.dest = ETH /\ p.wrap)
    BY <1>1 DEF Delivered, Wraps
  <2>5. CASE b = "primary"
    BY <1>7, <2>1, <2>2, <2>3, <2>4, <2>5
  <2>6. CASE b = "fallback"
    <3>1. swap.dest = ETH /\ ~a.wrap => p.wrap \/ ~p.hasRecipient
      BY <1>2, <2>6 DEF BuiltLeg, FallbackFits, AnswerOf
    <3> QED
      BY <1>7, <2>1, <2>2, <2>3, <2>4, <2>6, <3>1
  <2> QED
    BY <2>5, <2>6 DEF Branches
<1> QED
  BY <1>6, <1>8, <1>9 DEF InTrailer

\* The trailer ends with the funds delivered.
LEMMA TrailerEnds ==
    ASSUME Built, NEW b, NEW m, Expected(Last + 1, b, 12, m)
    PROVE  m.at = "augustus" /\ m.held = route.dest
<1>1. InTrailer(12, m)
  BY DEF Expected, Built, PathFits
<1> QED
  BY <1>1, TrailerWaits DEF InTrailer

\* While the bytecode runs, what has been built stays.
LEMMA BuiltStays ==
    ASSUME UNCHANGED buildVars
    PROVE  /\ Last' = Last
           /\ \A h : HasFallback(h)' = HasFallback(h)
           /\ \A h : StartForm(h)' = StartForm(h)
           /\ \A h, b : \A n \in 1..11 : Has(h, b, Stages[n])' <=> Has(h, b, Stages[n])
           /\ \A h, b, n, m : Expected(h, b, n, m)' <=> Expected(h, b, n, m)
<1> USE DEF buildVars
<1> DEFINE StageSet == {"approveWeth", "deposit", "approve", "transferSrc", "unwrapSrc", "dex",
                        "wrapDest", "withdraw", "forward", "sendNative", "normalize"}
<1>1. Last' = Last /\ \A h : SwapAt(h)' = SwapAt(h)
  BY DEF Last, Hops, SwapAt
<1>2. \A h, b : ParamOf(h, b)' = ParamOf(h, b) /\ AnswerOf(h, b)' = AnswerOf(h, b)
  BY DEF ParamOf, AnswerOf, LegOf
<1>3. \A h : HasFallback(h)' = HasFallback(h)
  BY DEF HasFallback, LegOf
<1>4. \A h : PrevWraps(h)' = PrevWraps(h) /\ NextWraps(h)' = NextWraps(h) /\ Wraps(h)' = Wraps(h)
  BY <1>1, <1>2 DEF PrevWraps, NextWraps, Wraps, Last
<1>5. \A h : StartForm(h)' = StartForm(h)
  BY <1>1, <1>4 DEF StartForm
<1>6. \A h, b : Deposits(h, b)' = Deposits(h, b) /\ EndsInWeth(h, b)' = EndsInWeth(h, b)
  BY <1>1, <1>2, <1>4 DEF Deposits, EndsInWeth
<1>7. \A h, b : DexFlag(h, b)' = DexFlag(h, b)
  <2> SUFFICES ASSUME NEW h, NEW b
               PROVE  DexFlag(h, b)' = DexFlag(h, b)
    OBVIOUS
  <2>1. SwapAt(h)' = SwapAt(h) /\ ParamOf(h, b)' = ParamOf(h, b) /\ Hops(route)' = Hops(route)
    BY <1>1, <1>2 DEF Last
  <2>2. MultiSwapFlag(SwapAt(h), ParamOf(h, b), h = Hops(route))'
            = MultiSwapFlag(SwapAt(h), ParamOf(h, b), h = Hops(route))
    BY <2>1 DEF MultiSwapFlag, MultiFlag, UnwrapFlag, UnwrapsSrc, WrapsDest, Flag
  <2>3. SimpleSwapFlag(SwapAt(h), ParamOf(h, b))' = SimpleSwapFlag(SwapAt(h), ParamOf(h, b))
    BY <2>1 DEF SimpleSwapFlag, SingleFlag, UnwrapFlag, UnwrapsSrc, WrapsDest, Flag
  <2> QED
    BY <2>2, <2>3 DEF DexFlag, IsMultiSwap
<1>8. \A h, b : MayApprove(ParamOf(h, b))' = MayApprove(ParamOf(h, b))
                /\ ApprovesSource(h, b)' = ApprovesSource(h, b)
  BY <1>1, <1>2, <1>7 DEF MayApprove, ApprovesSource, SendsOnly
<1>9. \A h, b : /\ UnwrapsSrc(SwapAt(h), AnswerOf(h, b))' = UnwrapsSrc(SwapAt(h), AnswerOf(h, b))
                /\ WrapsDest(SwapAt(h), AnswerOf(h, b))' = WrapsDest(SwapAt(h), AnswerOf(h, b))
                /\ GivesNative(SwapAt(h), AnswerOf(h, b))' = GivesNative(SwapAt(h), AnswerOf(h, b))
                /\ CallDelivers(h, b)' = CallDelivers(h, b)
  BY <1>1, <1>2 DEF UnwrapsSrc, WrapsDest, GivesNative, CallDelivers
<1>10. \A h : GroupHandlesNativeSend(h)' = GroupHandlesNativeSend(h)
  BY <1>2, <1>3 DEF GroupHandlesNativeSend
<1>11. \A h, b : \A s \in StageSet : BlockHas(h, b, s)' <=> BlockHas(h, b, s)
  <2> SUFFICES ASSUME NEW h, NEW b, NEW s \in StageSet
               PROVE  BlockHas(h, b, s)' <=> BlockHas(h, b, s)
    OBVIOUS
  <2> QED
    BY <1>1, <1>2, <1>4, <1>6, <1>8, <1>9, <1>10 DEF BlockHas, AnswerOf, Last
<1>12. \A s \in StageSet : TrailerHas(s)' <=> TrailerHas(s)
  BY <1>1, <1>2, <1>10 DEF TrailerHas, Last
<1>13. \A h, b : \A n \in 1..11 : Has(h, b, Stages[n])' <=> Has(h, b, Stages[n])
  <2> SUFFICES ASSUME NEW h, NEW b, NEW s \in StageSet
               PROVE  Has(h, b, s)' <=> Has(h, b, s)
    BY StageNames DEF Stages
  <2> QED
    BY <1>1, <1>11, <1>12 DEF Has, Last
<1>14. Delivered' = Delivered
  BY <1>1, <1>2, <1>4 DEF Delivered
<1>15. \A h, b, n, m : BeforeCall(h, b, n, m)' = BeforeCall(h, b, n, m)
  BY <1>2, <1>5, <1>6, <1>8, <1>9 DEF BeforeCall
<1>16. \A h, b, n, m : AfterCall(h, b, n, m)' = AfterCall(h, b, n, m)
  BY <1>1, <1>6, <1>9, <1>11 DEF AfterCall
<1>17. \A n, m : InTrailer(n, m)' = InTrailer(n, m)
  BY <1>12, <1>14 DEF InTrailer
<1>18. \A h, b, n, m : Expected(h, b, n, m)' <=> Expected(h, b, n, m)
  BY <1>1, <1>15, <1>16, <1>17 DEF Expected
<1> QED
  BY <1>1, <1>3, <1>5, <1>13, <1>18

-----------------------------------------------------------------------------
(* Running the bytecode. *)

BuildFacts == TypeOK /\ BuildInv /\ PullsAreDecided /\ PlanCoversBranches

\* The funds at the stage that runs are what is expected there; a group starts, and
\* starts again, with what the block before it has left.
RunInv ==
    /\ hop \in 1..(Last + 1)
    /\ branch \in Branches
    /\ stage \in 1..12
    /\ machine \in Machines /\ saved \in Machines
    /\ outcome \in {"building", "running", "done", "reverted"}
    /\ hop <= Last => saved.held = StartForm(hop) /\ saved.at = "executor" /\ saved.exact
    /\ branch = "fallback" => hop <= Last /\ HasFallback(hop)
    /\ outcome = "building" => /\ hop = 1 /\ branch = "primary" /\ stage = 1
                               /\ machine = [held |-> route.src, at |-> "executor",
                                             exact |-> TRUE, granted |-> FALSE]
                               /\ saved = machine
    /\ outcome # "building" => phase = "built" /\ label = "Executor01"
    /\ outcome = "running" => /\ Expected(hop, branch, stage, machine)
                              /\ stage = 12 \/ Has(hop, branch, Stages[stage])
    /\ outcome = "done" => machine.at = "augustus" /\ machine.held = route.dest

\* A block starts with what the one before it has left, at a stage up to its call.
LEMMA BlockStarts ==
    ASSUME Last \in Nat, NEW h \in 1..Last, NEW b, NEW m \in Machines,
           m.held = StartForm(h), m.at = "executor", m.exact
    PROVE  /\ StepFrom(h, b, 1) \in 1..6
           /\ Has(h, b, Stages[StepFrom(h, b, 1)])
           /\ Expected(h, b, StepFrom(h, b, 1), m)
<1>1. Expected(h, b, 1, m)
  BY DEF Expected, BeforeCall
<1>2. IsFirst(h, b, 1, StepFrom(h, b, 1))
  BY StepFromIsFirst
<1>3. Has(h, b, Stages[6])
  BY StageNames, HasStages
<1>4. StepFrom(h, b, 1) \in 1..6 /\ Has(h, b, Stages[StepFrom(h, b, 1)])
  BY <1>2, <1>3 DEF IsFirst
<1>5. h \in 1..(Last + 1)
  OBVIOUS
<1> QED
  BY <1>1, <1>2, <1>4, <1>5, SkippingKeepsExpected

\* What the step that runs needs is there.
LEMMA RunningStepGoesOn ==
    ASSUME Built, RunInv, Running
    PROVE  GoesOn(hop, branch, stage, machine)
<1>1. /\ stage \in 1..11 /\ hop \in 1..(Last + 1) /\ branch \in Branches
      /\ Expected(hop, branch, stage, machine) /\ Has(hop, branch, Stages[stage])
  BY StageNames DEF RunInv, Running
<1>2. HasLeg(hop, branch)
  BY <1>1 DEF RunInv, HasLeg, Branches
<1>3. Last \in Nat
  BY DEF Built, PathFits
<1>4. CASE hop <= Last /\ stage <= 5
  BY <1>1, <1>2, <1>3, <1>4, SourceStepsGoOn
<1>5. CASE hop <= Last /\ stage = 6
  BY <1>1, <1>2, <1>3, <1>5, CallGoesOn
<1>6. CASE hop <= Last /\ stage >= 7
  BY <1>1, <1>2, <1>3, <1>6, DestStepsGoOn
<1>7. CASE hop = Last + 1
  BY <1>1, <1>7, TrailerStepsGoOn
<1> QED
  BY <1>1, <1>3, <1>4, <1>5, <1>6, <1>7

\* So a step reverts only for the market's reasons.
LEMMA OnlyCallsRevert ==
    ASSUME Built, RunInv, Revert
    PROVE  hop <= Last /\ stage = 6
<1>1. Running /\ stage \in 1..11 /\ hop \in 1..(Last + 1) /\ Last \in Nat
      /\ Has(hop, branch, Stages[stage])
  BY StageNames DEF Revert, Running, RunInv, Built, PathFits
<1>2. Current.op = "dex"
  BY <1>1, RunningStepGoesOn DEF Revert, GoesOn, Current
<1>3. \A n \in 1..11 : n # 6 => StepAt(hop, branch, Stages[n]).op # "dex"
  BY StageNames DEF StepAt, ApproveStep, WrapStep, UnwrapStep, TransferSrcStep, TransferStep,
                    SendNativeStep
<1>4. stage = 6
  BY <1>1, <1>2, <1>3 DEF Current
<1>5. hop # Last + 1
  BY <1>1, <1>4, TrailerStages
<1> QED
  BY <1>1, <1>4, <1>5

\* The first block starts with the user's funds.
LEMMA RunStarts ==
    ASSUME Built, RunInv, Start
    PROVE  RunInv'
<1>1. hop = 1 /\ branch = "primary" /\ stage = 1 /\ machine = saved /\ machine \in Machines
      /\ UNCHANGED <<buildVars, hop, branch, machine, saved>>
  BY DEF RunInv, Start
<1>2. Last \in Nat /\ 1 \in 1..Last
  BY DEF Built, PathFits
<1>3. machine.held = StartForm(1) /\ machine.at = "executor" /\ machine.exact
  BY <1>1, <1>2 DEF RunInv
<1>4. stage' = StepFrom(1, "primary", 1)
  BY DEF Start
<1>5. stage' \in 1..6 /\ Has(1, "primary", Stages[stage'])
      /\ Expected(1, "primary", stage', machine)
  BY <1>1, <1>2, <1>3, <1>4, BlockStarts
<1>6. /\ Last' = Last /\ StartForm(hop)' = StartForm(hop)
      /\ Has(hop, branch, Stages[stage])'
      /\ Expected(hop, branch, stage, machine)'
  BY <1>1, <1>5, BuiltStays DEF Stages
<1> QED
  BY <1>1, <1>5, <1>6 DEF RunInv, Start, buildVars

\* A step leaves what the next stage that is there expects.
LEMMA RunSteps ==
    ASSUME Built, RunInv, Step
    PROVE  RunInv'
<1> DEFINE m == Apply(machine, Current)
<1>1. /\ Running /\ outcome' = "running" /\ stage \in 1..11
      /\ UNCHANGED <<buildVars, hop, branch, saved>>
      /\ hop \in 1..(Last + 1) /\ Last \in Nat
      /\ machine' = m /\ stage' = StepFrom(hop, branch, stage + 1)
  BY StageNames DEF RunInv, Step, Running, Built, PathFits
<1>2. Expected(hop, branch, stage + 1, m)
  BY <1>1, RunningStepGoesOn DEF GoesOn, Current
<1>3. stage + 1 \in 1..12 /\ IsFirst(hop, branch, stage + 1, stage')
  BY <1>1, StepFromIsFirst
<1>4. stage' \in 1..12 /\ (stage' = 12 \/ Has(hop, branch, Stages[stage']))
  BY <1>1, <1>3 DEF IsFirst
<1>5. Expected(hop, branch, stage', m)
  BY <1>1, <1>2, <1>3, SkippingKeepsExpected
<1>6. m \in Machines
  BY <1>2 DEF Expected
<1>7. /\ Last' = Last /\ HasFallback(hop)' = HasFallback(hop) /\ StartForm(hop)' = StartForm(hop)
      /\ (stage = 12 \/ Has(hop, branch, Stages[stage]))'
      /\ Expected(hop, branch, stage, machine)'
  BY <1>1, <1>4, <1>5, BuiltStays DEF Stages
<1> QED
  BY <1>1, <1>4, <1>6, <1>7 DEF RunInv, buildVars, Running

\* The next block takes over, or the trailer.
LEMMA RunEntersBlock ==
    ASSUME Built, RunInv, NextBlock
    PROVE  RunInv'
<1> DEFINE m == [machine EXCEPT !.granted = FALSE]
<1>1. /\ stage = 12 /\ outcome = "running" /\ outcome' = "running" /\ UNCHANGED buildVars
      /\ hop \in 1..Last /\ Last \in Nat
      /\ hop' = hop + 1 /\ branch' = "primary" /\ machine' = m /\ saved' = m
      /\ stage' = StepFrom(hop + 1, "primary", 1)
      /\ branch \in Branches /\ machine \in Machines
      /\ Expected(hop, branch, 12, machine)
  BY StageNames DEF RunInv, NextBlock, Built, PathFits, Last
<1>2. HasLeg(hop, branch)
  BY <1>1 DEF RunInv, HasLeg, Branches
<1>3. m \in Machines /\ m.held = machine.held /\ m.at = machine.at /\ m.exact = machine.exact
  BY <1>1 DEF Machines
<1>4. hop + 1 \in 1..(Last + 1)
  BY <1>1
<1>5. /\ stage' \in 1..12
      /\ stage' = 12 \/ Has(hop + 1, "primary", Stages[stage'])
      /\ Expected(hop + 1, "primary", stage', m)
      /\ hop + 1 <= Last => m.held = StartForm(hop + 1) /\ m.at = "executor" /\ m.exact
  <2>1. CASE hop < Last
    <3>1. m.held = StartForm(hop + 1) /\ m.at = "executor" /\ m.exact
      BY <1>1, <1>2, <1>3, <2>1, BlockEndsMidRoute
    <3>2. hop + 1 \in 1..Last /\ m \in Machines
      BY <1>1, <1>3, <2>1
    <3> HIDE DEF m
    <3>3. /\ stage' \in 1..6
          /\ Has(hop + 1, "primary", Stages[stage'])
          /\ Expected(hop + 1, "primary", stage', m)
      BY <1>1, <3>1, <3>2, BlockStarts
    <3> QED
      BY <3>1, <3>3
  <2>2. CASE hop = Last
    <3>1. InTrailer(1, machine)
      BY <1>1, <1>2, <2>2, LastBlockEnds
    <3>2. InTrailer(1, m)
      BY <1>3, <3>1 DEF InTrailer
    <3>3. Expected(hop + 1, "primary", 1, m)
      BY <1>1, <1>3, <2>2, <3>2 DEF Expected
    <3>4. IsFirst(hop + 1, "primary", 1, stage')
      BY <1>1, StepFromIsFirst
    <3>5. Expected(hop + 1, "primary", stage', m)
      BY <1>1, <1>4, <3>3, <3>4, SkippingKeepsExpected
    <3> QED
      BY <1>1, <2>2, <3>4, <3>5 DEF IsFirst
  <2> QED
    BY <1>1, <2>1, <2>2
<1>6. /\ Last' = Last /\ StartForm(hop)' = StartForm(hop + 1)
      /\ (stage = 12 \/ Has(hop, branch, Stages[stage]))'
      /\ Expected(hop, branch, stage, machine)'
  <2>1. /\ Last' = Last
        /\ \A h : StartForm(h)' = StartForm(h)
        /\ \A h, b : \A n \in 1..11 : Has(h, b, Stages[n])' <=> Has(h, b, Stages[n])
        /\ \A h, b, n, x : Expected(h, b, n, x)' <=> Expected(h, b, n, x)
    BY <1>1, BuiltStays
  <2>2. Expected(hop, branch, stage, machine)'
    BY <1>1, <1>5, <2>1
  <2>3. (stage = 12 \/ Has(hop, branch, Stages[stage]))'
    BY <1>1, <1>5, <2>1 DEF Stages
  <2>4. StartForm(hop)' = StartForm(hop + 1)
    BY <1>1, <2>1
  <2> QED
    BY <2>1, <2>2, <2>3, <2>4
<1>7. hop' <= Last' => saved'.held = StartForm(hop)' /\ saved'.at = "executor" /\ saved'.exact
  BY <1>1, <1>5, <1>6
<1> QED
  BY <1>1, <1>3, <1>4, <1>5, <1>6, <1>7 DEF RunInv, buildVars, Branches

\* A reverted group starts again from what it was given.
LEMMA RunReverts ==
    ASSUME Built, RunInv, Revert
    PROVE  RunInv'
<1>1. /\ hop \in 1..Last /\ Last \in Nat /\ UNCHANGED <<buildVars, hop, saved>>
      /\ saved \in Machines /\ saved.held = StartForm(hop) /\ saved.at = "executor" /\ saved.exact
  BY OnlyCallsRevert DEF RunInv, Built, PathFits, Revert
<1>2. Last' = Last /\ HasFallback(hop)' = HasFallback(hop) /\ StartForm(hop)' = StartForm(hop)
  BY <1>1, BuiltStays
<1>3. CASE HasFallback(hop) /\ branch = "primary"
  <2>1. branch' = "fallback" /\ machine' = saved /\ outcome' = outcome
        /\ stage' = StepFrom(hop, "fallback", 1)
    BY <1>1, <1>3 DEF Revert, Last
  <2>2. stage' \in 1..6 /\ Has(hop, "fallback", Stages[stage'])
        /\ Expected(hop, "fallback", stage', saved)
    BY <1>1, <2>1, BlockStarts
  <2>3. Has(hop, branch, Stages[stage])' /\ Expected(hop, branch, stage, machine)'
    BY <1>1, <2>1, <2>2, BuiltStays DEF Stages
  <2> QED
    BY <1>1, <1>2, <1>3, <2>1, <2>2, <2>3 DEF RunInv, Revert, Running, buildVars, Branches
<1>4. CASE ~(HasFallback(hop) /\ branch = "primary")
  <2>1. outcome' = "reverted" /\ UNCHANGED <<branch, machine, stage>>
    BY <1>1, <1>4 DEF Revert, Last
  <2> QED
    BY <1>1, <1>2, <2>1 DEF RunInv, Revert, Running, buildVars
<1> QED
  BY <1>3, <1>4

\* No step of the build or of the run leaves the invariant.
LEMMA RunInvStep ==
    ASSUME ReliedOn
    PROVE  BuildFacts /\ RunInv /\ [Next]_vars => RunInv'
<1> SUFFICES ASSUME BuildFacts, RunInv, [Next]_vars
             PROVE  RunInv'
  OBVIOUS
<1>1. TypeOK /\ PathFits
  BY PathIsFit DEF BuildFacts, TypeOK, ReliedOn
<1>2. phase = "built" /\ label = "Executor01" => Built
  BY BuildLeaves DEF BuildFacts
<1>3. CASE Build /\ UNCHANGED runVars
  <2>1. route' = route /\ outcome = "building"
    BY <1>3 DEF Build, Classify, ResolveLeg, ServiceFails, PlanWeth, PlanApprovals, RunInv
  <2>2. Last' = Last /\ StartForm(1) = SwapAt(1).src /\ StartForm(1)' = SwapAt(1).src
    BY <2>1 DEF Last, Hops, StartForm, PrevWraps, SwapAt
  <2>3. hop = 1 /\ branch = "primary" /\ UNCHANGED runVars
    BY <1>3, <2>1 DEF RunInv
  <2>4. StartForm(hop)' = StartForm(hop)
    BY <2>2, <2>3 DEF runVars
  <2> QED
    BY <2>1, <2>2, <2>3, <2>4 DEF RunInv, runVars
<1>4. CASE Start
  BY <1>2, <1>4, RunStarts DEF Start
<1>5. CASE Step
  BY <1>2, <1>5, RunSteps DEF Step, Running, RunInv
<1>6. CASE NextBlock
  BY <1>2, <1>6, RunEntersBlock DEF NextBlock, RunInv
<1>7. CASE Revert
  BY <1>2, <1>7, RunReverts DEF Revert, Running, RunInv
<1>8. CASE Finish
  <2>1. Built
    BY <1>2, <1>8 DEF Finish, RunInv
  <2>2. hop = Last + 1 /\ stage = 12 /\ Expected(hop, branch, 12, machine)
    BY <1>1, <1>8, StageNames DEF Finish, RunInv, Last, PathFits
  <2>3. machine.at = "augustus" /\ machine.held = route.dest
    BY <2>1, <2>2, TrailerEnds
  <2>4. Last' = Last
    BY <1>8, BuiltStays DEF Finish
  <2> QED
    BY <1>1, <1>8, <2>2, <2>3, <2>4 DEF Finish, RunInv, buildVars, PathFits
<1>9. CASE UNCHANGED vars
  <2>1. UNCHANGED buildVars /\ UNCHANGED runVars
    BY <1>9 DEF vars
  <2>2. Last' = Last /\ StartForm(hop)' = StartForm(hop) /\ HasFallback(hop)' = HasFallback(hop)
    BY <2>1, BuiltStays DEF runVars
  <2>3. outcome = "running" => /\ Expected(hop, branch, stage, machine)'
                              /\ (stage = 12 \/ Has(hop, branch, Stages[stage]))'
    BY <2>1, BuiltStays DEF RunInv, runVars, Stages
  <2> QED
    BY <2>1, <2>2, <2>3 DEF RunInv, runVars, buildVars
<1> QED
  BY <1>3, <1>4, <1>5, <1>6, <1>7, <1>8, <1>9 DEF Next, Run

\* What has been proved about builds holds while the bytecode runs.
LEMMA RunsAreBuilt ==
    ASSUME ReliedOn
    PROVE  SwapSpec => []BuildFacts
<1>1. RunInit => Init
  BY DEF RunInit
<1>2. [Next]_vars => [Build]_buildVars
  BY DEF Next, Run, Start, Step, NextBlock, Finish, Revert, vars
<1>3. SwapSpec => Spec
  BY <1>1, <1>2, PTL DEF SwapSpec, Spec
<1>4. \A r \in Routes : SinglePath(r)
  BY DEF ReliedOn, SoldAlongOnePath, SinglePath, Positions
<1>5. "midRoute" \in Assumed
  BY DEF ReliedOn
<1>6. Spec => []PlanCoversBranches
  BY <1>4, <1>5, PlanCovers
<1> QED
  BY <1>3, <1>6, TypeCorrect, LegsStandAsAnswered, PullsDecided, PTL DEF BuildFacts

\* At every stage of every block the funds are those that the stages before it,
\* each there or not, have left: the inductive invariant of the run.
THEOREM RunInvariant ==
    ASSUME ReliedOn
    PROVE  SwapSpec => [](BuildFacts /\ RunInv)
<1>1. RunInit => RunInv
  <2> SUFFICES ASSUME RunInit
               PROVE  RunInv
    OBVIOUS
  <2>1. PathFits
    BY InitTypes, PathIsFit DEF RunInit, TypeOK, ReliedOn
  <2>2. 1 \in 1..Last /\ route.src = SwapAt(1).src /\ SwapAt(1).src \in Tokens
    BY <2>1 DEF PathFits
  <2>3. StartForm(1) = SwapAt(1).src
    BY DEF StartForm, PrevWraps
  <2> QED
    BY <2>1, <2>2, <2>3 DEF RunInit, RunInv, Machines, Places, Branches, PathFits
<1>2. BuildFacts /\ RunInv /\ [Next]_vars => RunInv'
  BY RunInvStep
<1> QED
  BY <1>1, <1>2, RunsAreBuilt, PTL DEF SwapSpec

-----------------------------------------------------------------------------
(* The theorems. *)

\* Along a path of any length the hop, the branch and the machine keep their types,
\* and no block runs beyond the trailer.
THEOREM RunTypesCorrect ==
    ASSUME ReliedOn
    PROVE  SwapSpec => []RunTypeOK
<1>1. BuildFacts /\ RunInv => RunTypeOK
  BY StageNames DEF BuildFacts, RunInv, RunTypeOK, Last
<1> QED
  BY <1>1, RunInvariant, PTL

\* The step that runs finds its funds, its grant and its amount.
LEMMA AllIsThere ==
    ASSUME ReliedOn, BuildFacts, RunInv, Running
    PROVE  FindsFunds(machine, Current) /\ IsGranted(machine, Current) /\ IsExact(machine, Current)
<1>1. Built
  BY BuildLeaves DEF BuildFacts, RunInv, Running
<1> QED
  BY <1>1, RunningStepGoesOn DEF GoesOn, Current

\* For any path, any answers and any mix of reverts: each step finds the funds where
\* it takes them from and in the form it takes.
THEOREM StepsAlwaysFindFunds ==
    ASSUME ReliedOn
    PROVE  SwapSpec => []StepsFindFunds
<1>1. BuildFacts /\ RunInv => StepsFindFunds
  BY AllIsThere DEF StepsFindFunds
<1> QED
  BY <1>1, RunInvariant, PTL

\* No exchange, and no fallback, pulls what its own block has not granted.
THEOREM PullsAlwaysGranted ==
    ASSUME ReliedOn
    PROVE  SwapSpec => []PullsAreGranted
<1>1. BuildFacts /\ RunInv => PullsAreGranted
  BY AllIsThere DEF PullsAreGranted
<1> QED
  BY <1>1, RunInvariant, PTL

\* Every amount that is threaded has been measured in the form it came in.
THEOREM AmountsAlwaysThreaded ==
    ASSUME ReliedOn
    PROVE  SwapSpec => []AmountsAreThreaded
<1>1. BuildFacts /\ RunInv => AmountsAreThreaded
  BY AllIsThere DEF AmountsAreThreaded
<1> QED
  BY <1>1, RunInvariant, PTL

\* What has run to its end has delivered, in the form the user asked for, whichever
\* branches ran.
THEOREM FundsAlwaysDelivered ==
    ASSUME ReliedOn
    PROVE  SwapSpec => []FundsAreDelivered
<1>1. BuildFacts /\ RunInv => FundsAreDelivered
  BY DEF RunInv, FundsAreDelivered
<1> QED
  BY <1>1, RunInvariant, PTL

-----------------------------------------------------------------------------
(* The bytecode implements the flow along the route. *)

PlaceOf(m) == IF m.at = "pool" THEN "executor" ELSE m.at

\* How many swaps have been made, by block and stage.
LEMMA SwapsMadeIs ==
    ASSUME Last \in Nat, hop \in 1..(Last + 1), stage \in 1..12
    PROVE  /\ hop = Last + 1 => SwapsMade = Last
           /\ hop <= Last /\ stage > 6 => SwapsMade = hop
           /\ hop <= Last /\ stage <= 6 => SwapsMade = hop - 1
  BY StageNames DEF SwapsMade, Last

\* The call is never skipped: the count changes with the call and with nothing else.
LEMMA StepCounts ==
    ASSUME Built, RunInv, Step
    PROVE  /\ stage <= 6 => hop <= Last
           /\ stage < 6 => SwapsMade' = SwapsMade
           /\ stage = 6 => SwapsMade = hop - 1 /\ SwapsMade' = hop
           /\ stage > 6 => SwapsMade' = SwapsMade
<1>1. /\ stage \in 1..11 /\ hop \in 1..(Last + 1) /\ Last \in Nat
      /\ Has(hop, branch, Stages[stage])
      /\ hop' = hop /\ UNCHANGED buildVars /\ stage' = StepFrom(hop, branch, stage + 1)
  BY StageNames DEF RunInv, Step, Running, Built, PathFits
<1>2. IsFirst(hop, branch, stage + 1, stage')
  BY <1>1, StepFromIsFirst
<1>3. stage <= 6 => hop <= Last
  BY <1>1, TrailerStages
<1>4. stage' \in (stage + 1)..12
  BY <1>2 DEF IsFirst
<1>5. hop <= Last /\ stage < 6 => stage' <= 6
  <2> SUFFICES ASSUME hop <= Last, stage < 6
               PROVE  stage' <= 6
    OBVIOUS
  <2>1. Has(hop, branch, Stages[6])
    BY <1>1, StageNames, HasStages
  <2> QED
    BY <1>1, <1>2, <1>4, <2>1 DEF IsFirst
<1>6. Last' = Last
  BY <1>1, BuiltStays
<1>7. /\ hop' = Last' + 1 => SwapsMade' = Last'
      /\ hop' <= Last' /\ stage' > 6 => SwapsMade' = hop'
      /\ hop' <= Last' /\ stage' <= 6 => SwapsMade' = hop' - 1
  BY <1>1, <1>4, <1>6, StageNames DEF SwapsMade, Last, Stages, End, DexStage
<1>8. /\ hop = Last + 1 => SwapsMade = Last
      /\ hop <= Last /\ stage > 6 => SwapsMade = hop
      /\ hop <= Last /\ stage <= 6 => SwapsMade = hop - 1
  BY <1>1, SwapsMadeIs
<1> QED
  BY <1>1, <1>3, <1>4, <1>5, <1>6, <1>7, <1>8

\* Before its call a block holds its source token, in one of its forms.
LEMMA SourceIsHeld ==
    ASSUME NEW h, NEW b, NEW n, NEW m, BeforeCall(h, b, n, m)
    PROVE  WrappedForm(m.held) = WrappedForm(SwapAt(h).src) /\ PlaceOf(m) = "executor"
<1>1. WrappedForm(StartForm(h)) = WrappedForm(SwapAt(h).src)
  BY TokenAssumption DEF StartForm, WrappedForm
<1> QED
  BY <1>1, TokenAssumption DEF BeforeCall, WrappedForm, Deposits, UnwrapsSrc, PlaceOf

\* What a step does to the flow: the call makes the swap, a transfer to Augustus and
\* a native send deliver, wrapping and unwrapping convert, approving and paying a
\* pool in advance change nothing.
LEMMA StepFlows ==
    ASSUME ReliedOn, BuildFacts, Built, RunInv, Step
    PROVE  [Flow!FlowNext]_(Flow!flowVars)
<1> DEFINE m == machine
           s == Current
<1>1. /\ Running /\ outcome = "running" /\ outcome' = "running" /\ route' = route
      /\ stage \in 1..11 /\ hop \in 1..(Last + 1) /\ Last \in Nat /\ branch \in Branches
      /\ machine' = Apply(m, s) /\ m \in Machines
      /\ Expected(hop, branch, stage, m) /\ Has(hop, branch, Stages[stage])
      /\ s = StepAt(hop, branch, Stages[stage])
  BY StageNames DEF RunInv, Step, Running, Built, PathFits, Current, buildVars
<1>2. FindsFunds(m, s)
  BY DEF Step
<1>3. m = [held |-> m.held, at |-> m.at, exact |-> m.exact, granted |-> m.granted]
  BY <1>1 DEF Machines
<1>4. HasLeg(hop, branch) \/ hop = Last + 1
  BY <1>1 DEF RunInv, HasLeg, Branches
<1>5. CASE stage = 6
  <2> DEFINE c == Call(hop, branch)
             swap == SwapAt(hop)
  <2>1. hop \in 1..Last /\ HasLeg(hop, branch) /\ SwapsMade = hop - 1 /\ SwapsMade' = hop
    BY <1>1, <1>4, <1>5, StepCounts
  <2>2. s = c /\ c.op = "dex"
    BY <1>1, <1>5, StageNames, CallIs DEF StepAt, Call
  <2>3. machine'.held = c.out /\ machine'.at = c.to
    BY <1>1, <2>2 DEF Apply
  <2>4. BeforeCall(hop, branch, 6, m)
    BY <1>1, <1>5, <2>1 DEF Expected
  <2>5. WrappedForm(m.held) = WrappedForm(swap.src) /\ PlaceOf(m) = "executor"
    BY <2>4, SourceIsHeld
  <2>6. WrappedForm(c.out) = WrappedForm(swap.dest) /\ c.out \in Tokens
    BY <1>1, <2>1, CallReturns, TokenAssumption DEF WrappedForm, GivesNative
  <2>7. c.to \in {"executor", "augustus"}
    BY <1>1, <2>1, CallReturns
  <2>8. c.to = "augustus" => hop = Last /\ c.out = route.dest
    BY <1>1, <2>1, CallReturns, DeliversInForm
  <2>9. route.paths[1].swaps[(hop - 1) + 1] = swap /\ Len(route.paths[1].swaps) = Last
    <3>1. (hop - 1) + 1 = hop
      BY <2>1
    <3> QED
      BY <3>1 DEF SwapAt, Last, Hops
  <2>10. Flow!MakeSwap(c.out, c.to)
    <3>1. /\ outcome = "running" /\ PlaceOf(m) = "executor" /\ SwapsMade < Last
          /\ Flow!SameToken(m.held, swap.src) /\ Flow!SameToken(c.out, swap.dest)
          /\ c.to = "augustus" => SwapsMade + 1 = Last /\ c.out = route.dest
      BY <1>1, <2>1, <2>5, <2>6, <2>8 DEF Flow!SameToken, Flow!Form, WrappedForm
    <3>2. SwapsMade' = SwapsMade + 1 /\ PlaceOf(machine)' = c.to
      BY <2>1, <2>3, <2>7 DEF PlaceOf
    <3> QED
      BY <1>1, <2>1, <2>3, <2>9, <3>1, <3>2 DEF Flow!MakeSwap, PlaceOf
  <2> QED
    BY <2>6, <2>7, <2>10 DEF Flow!FlowNext
<1>6. CASE stage # 6
  <2>1. SwapsMade' = SwapsMade
    BY <1>1, <1>6, StepCounts
  <2>2. s \in {ApproveStep, WrapStep, UnwrapStep, SendNativeStep, TransferStep(route.dest, "augustus"),
               TransferSrcStep(SwapAt(hop))}
    BY <1>1, <1>6, StageNames DEF StepAt
  <2>3. CASE s = ApproveStep
    <3>1. machine'.held = m.held /\ machine'.at = m.at
      BY <1>1, <1>3, <2>3 DEF ApproveStep, Apply
    <3> QED
      BY <1>1, <2>1, <3>1 DEF Flow!flowVars
  <2>4. CASE s = TransferSrcStep(SwapAt(hop))
    <3>1. m.at = "executor" /\ machine'.held = m.held /\ machine'.at = "pool"
      BY <1>1, <1>2, <1>3, <2>4 DEF TransferSrcStep, TransferStep, FindsFunds, Apply
    <3> QED
      BY <1>1, <2>1, <3>1 DEF Flow!flowVars
  <2>5. CASE s = WrapStep
    <3>1. m.at = "executor" /\ m.held = ETH /\ machine'.held = WETH /\ machine'.at = "executor"
      BY <1>1, <1>2, <1>3, <2>5 DEF WrapStep, FindsFunds, Apply
    <3>2. Flow!Convert(WETH)
      BY <1>1, <2>1, <3>1 DEF Flow!Convert, Flow!SameToken, Flow!Form
    <3> QED
      BY <3>2, TokenAssumption DEF Flow!FlowNext
  <2>6. CASE s = UnwrapStep
    <3>1. m.at = "executor" /\ m.held = WETH /\ machine'.held = ETH /\ machine'.at = "executor"
      BY <1>1, <1>2, <1>3, <2>6 DEF UnwrapStep, FindsFunds, Apply
    <3>2. Flow!Convert(ETH)
      BY <1>1, <2>1, <3>1 DEF Flow!Convert, Flow!SameToken, Flow!Form
    <3> QED
      BY <3>2, TokenAssumption DEF Flow!FlowNext
  <2>7. CASE s = SendNativeStep \/ s = TransferStep(route.dest, "augustus")
    <3>1. m.at = "executor" /\ machine'.held = m.held /\ machine'.at = "augustus"
      BY <1>1, <1>2, <1>3, <2>7 DEF SendNativeStep, TransferStep, FindsFunds, Apply
    <3>2. stage \in {9, 10}
      <4> SUFFICES ASSUME stage \notin {9, 10}
                   PROVE  FALSE
        OBVIOUS
      <4>1. s.op = "sendNative" \/ (s.op = "transfer" /\ s.to = "augustus")
        BY <2>7 DEF SendNativeStep, TransferStep
      <4>2. s \in {ApproveStep, WrapStep, UnwrapStep, TransferSrcStep(SwapAt(hop))}
        BY <1>1, <1>6, StageNames DEF StepAt
      <4>3. s.op \in {"approve", "wrap", "unwrap"} \/ (s.op = "transfer" /\ s.to = "pool")
        BY <4>2 DEF ApproveStep, WrapStep, UnwrapStep, TransferSrcStep, TransferStep
      <4> QED
        BY <4>1, <4>3
    <3>3. hop <= Last => hop = Last /\ route.dest = SwapAt(hop).dest
      BY <1>1, <3>2, StageNames, HasStages, BlockHasLate DEF Built, PathFits
    <3>4. SwapsMade = Last
      BY <1>1, <3>2, <3>3, SwapsMadeIs
    <3>5. m.held = route.dest
      <4>1. CASE stage = 9
        <5>1. s = TransferStep(route.dest, "augustus")
          BY <1>1, <4>1, StageNames DEF StepAt
        <5> QED
          BY <1>2, <5>1 DEF TransferStep, FindsFunds
      <4>2. CASE stage = 10
        <5>1. s = SendNativeStep
          BY <1>1, <4>2, StageNames DEF StepAt
        <5>2. m.held = ETH
          BY <1>2, <5>1 DEF SendNativeStep, FindsFunds
        <5>3. route.dest = ETH
          BY <1>1, <3>3, <4>2, StageNames, HasStages, BlockHasLate, TrailerStages
        <5> QED
          BY <5>2, <5>3
      <4> QED
        BY <3>2, <4>1, <4>2
    <3>6. Flow!Deliver
      BY <1>1, <2>1, <3>1, <3>4, <3>5 DEF Flow!Deliver, Flow!AllSwapped, Last, Hops
    <3> QED
      BY <3>6 DEF Flow!FlowNext
  <2> QED
    BY <2>2, <2>3, <2>4, <2>5, <2>6, <2>7
<1> QED
  BY <1>5, <1>6

\* No block leaves its call out.
LEMMA StopsAtCall ==
    ASSUME NEW h, NEW b, NEW n, IsFirst(h, b, 1, n), Has(h, b, Stages[6])
    PROVE  n \in 1..6
  BY DEF IsFirst

\* Taking the next block makes no swap and moves nothing.
LEMMA NextBlockFlows ==
    ASSUME Built, RunInv, NextBlock
    PROVE  UNCHANGED Flow!flowVars
<1>1. /\ stage = 12 /\ outcome' = outcome /\ UNCHANGED buildVars /\ route' = route
      /\ hop \in 1..Last /\ Last \in Nat /\ hop' = hop + 1 /\ machine \in Machines
      /\ machine' = [machine EXCEPT !.granted = FALSE]
      /\ stage' = StepFrom(hop + 1, "primary", 1)
  BY StageNames DEF RunInv, NextBlock, Built, PathFits, Last, buildVars
<1>2. machine'.held = machine.held /\ machine'.at = machine.at
  BY <1>1 DEF Machines
<1>3. SwapsMade = hop
  BY <1>1, SwapsMadeIs
<1>4. Last' = Last
  BY <1>1, BuiltStays
<1>5. IsFirst(hop + 1, "primary", 1, stage')
  BY <1>1, StepFromIsFirst
<1>6. hop + 1 <= Last => stage' <= 6
  <2> SUFFICES ASSUME hop + 1 <= Last
               PROVE  stage' <= 6
    OBVIOUS
  <2>1. Has(hop + 1, "primary", Stages[6])
    BY <1>1, StageNames, HasStages
  <2> QED
    BY <1>5, <2>1, StopsAtCall
<1>7. SwapsMade' = hop
  <2>1. stage' \in 1..12
    BY <1>5 DEF IsFirst
  <2>2. DexStage' = 6 /\ Hops(route)' = Last
    BY <1>1, StageNames DEF DexStage, Stages, Last, Hops
  <2> QED
    BY <1>1, <1>6, <2>1, <2>2 DEF SwapsMade
<1> QED
  BY <1>1, <1>2, <1>3, <1>7 DEF Flow!flowVars

\* A group that gives way to its fallback takes its conversions back; nothing it did
\* was a swap.
LEMMA RevertFlows ==
    ASSUME Built, RunInv, Revert
    PROVE  Flow!FlowNext
<1>1. hop \in 1..Last /\ Last \in Nat /\ stage = 6 /\ outcome = "running" /\ route' = route
      /\ UNCHANGED <<buildVars, hop, saved>> /\ branch \in Branches
      /\ Expected(hop, branch, 6, machine) /\ saved \in Machines
      /\ saved.held = StartForm(hop) /\ saved.at = "executor"
  BY OnlyCallsRevert DEF RunInv, Revert, Running, Built, PathFits, buildVars
<1>2. SwapsMade = hop - 1
  BY <1>1, SwapsMadeIs
<1>3. WrappedForm(machine.held) = WrappedForm(SwapAt(hop).src) /\ PlaceOf(machine) = "executor"
  BY <1>1, SourceIsHeld DEF Expected
<1>4. DexStage' = 6 /\ Hops(route)' = Last
  BY <1>1, StageNames DEF DexStage, Stages, Last, Hops
<1>5. CASE HasFallback(hop) /\ branch = "primary"
  <2>1. machine' = saved /\ outcome' = outcome /\ stage' = StepFrom(hop, "fallback", 1)
    BY <1>1, <1>5 DEF Revert, Last
  <2>2. IsFirst(hop, "fallback", 1, stage') /\ Has(hop, "fallback", Stages[6])
    BY <1>1, <2>1, StepFromIsFirst, StageNames, HasStages
  <2>3. SwapsMade' = hop - 1
    <3>1. stage' \in 1..6
      BY <2>2, StopsAtCall
    <3> QED
      BY <1>1, <1>4, <3>1 DEF SwapsMade
  <2>4. WrappedForm(saved.held) = WrappedForm(SwapAt(hop).src)
    BY <1>1, TokenAssumption DEF StartForm, WrappedForm
  <2>5. Flow!Convert(saved.held)
    BY <1>1, <1>2, <1>3, <2>1, <2>3, <2>4
       DEF Flow!Convert, Flow!SameToken, Flow!Form, WrappedForm, PlaceOf
  <2> QED
    BY <1>1, <2>5 DEF Flow!FlowNext, Machines
<1>6. CASE ~(HasFallback(hop) /\ branch = "primary")
  <2>1. outcome' = "reverted" /\ UNCHANGED <<branch, machine, stage>>
    BY <1>1, <1>6 DEF Revert, Last
  <2>2. SwapsMade' = SwapsMade
    BY <1>1, <2>1 DEF SwapsMade, DexStage, Stages
  <2> QED
    BY <1>1, <2>1, <2>2 DEF Flow!FlowNext, Flow!RevertAll
<1> QED
  BY <1>5, <1>6

\* Every step of the build and of the run is a step of the flow, or none.
LEMMA NextFlows ==
    ASSUME ReliedOn
    PROVE  BuildFacts /\ RunInv /\ [Next]_vars => [Flow!FlowNext]_(Flow!flowVars)
<1> SUFFICES ASSUME BuildFacts, RunInv, [Next]_vars
             PROVE  [Flow!FlowNext]_(Flow!flowVars)
  OBVIOUS
<1>1. phase = "built" /\ label = "Executor01" => Built
  BY BuildLeaves DEF BuildFacts
<1>2. PathFits
  BY PathIsFit DEF BuildFacts, TypeOK, ReliedOn
<1>3. CASE Build /\ UNCHANGED runVars
  <2>1. route' = route
    BY <1>3 DEF Build, Classify, ResolveLeg, ServiceFails, PlanWeth, PlanApprovals
  <2>2. SwapsMade' = SwapsMade
    BY <1>3, <2>1 DEF SwapsMade, runVars, Hops, DexStage, Stages
  <2> QED
    BY <1>3, <2>1, <2>2 DEF Flow!flowVars, runVars
<1>4. CASE Start
  <2>1. Built /\ hop = 1 /\ stage = 1 /\ stage' = StepFrom(1, "primary", 1) /\ hop' = hop
        /\ outcome = "building" /\ outcome' = "running" /\ machine' = machine /\ route' = route
    BY <1>1, <1>4 DEF Start, RunInv, buildVars
  <2>2. Last \in Nat \ {0}
    BY <1>2 DEF PathFits
  <2>3. IsFirst(1, "primary", 1, stage') /\ Has(1, "primary", Stages[6])
    BY <2>1, <2>2, StepFromIsFirst, StageNames, HasStages
  <2>4. DexStage' = 6 /\ Hops(route)' = Last
    BY <2>1, StageNames DEF DexStage, Stages, Last, Hops
  <2>5. SwapsMade' = 0 /\ SwapsMade = 0
    BY <2>1, <2>2, <2>3, <2>4, SwapsMadeIs DEF SwapsMade, IsFirst
  <2>6. Flow!Submit
    BY <2>1, <2>5 DEF Flow!Submit
  <2> QED
    BY <2>6 DEF Flow!FlowNext
<1>5. CASE Step
  <2>1. Built
    BY <1>1, <1>5 DEF Step, Running, RunInv
  <2> QED
    BY <1>5, <2>1, StepFlows
<1>6. CASE NextBlock
  <2>1. Built
    BY <1>1, <1>6 DEF NextBlock, RunInv
  <2> QED
    BY <1>6, <2>1, NextBlockFlows
<1>7. CASE Revert
  <2>1. Built
    BY <1>1, <1>7 DEF Revert, Running, RunInv
  <2> QED
    BY <1>7, <2>1, RevertFlows
<1>8. CASE Finish
  <2>1. Built
    BY <1>1, <1>8 DEF Finish, RunInv
  <2>2. hop = Last + 1 /\ stage = 12 /\ Expected(hop, branch, 12, machine)
        /\ outcome = "running" /\ outcome' = "done"
        /\ UNCHANGED <<buildVars, hop, stage, machine>> /\ route' = route
    BY <1>2, <1>8, StageNames DEF Finish, RunInv, Last, PathFits, buildVars
  <2>3. machine.at = "augustus"
    BY <2>1, <2>2, TrailerEnds
  <2>4. SwapsMade = Last /\ SwapsMade' = SwapsMade
    BY <1>2, <2>2, SwapsMadeIs DEF PathFits, SwapsMade, DexStage, Stages
  <2>5. Flow!Settle
    BY <2>2, <2>3, <2>4 DEF Flow!Settle, Flow!AllSwapped, Last, Hops
  <2> QED
    BY <2>5 DEF Flow!FlowNext
<1>9. CASE UNCHANGED vars
  BY <1>9 DEF vars, runVars, buildVars, Flow!flowVars, SwapsMade, DexStage, Stages
<1> QED
  BY <1>3, <1>4, <1>5, <1>6, <1>7, <1>8, <1>9 DEF Next, Run

\* Running the bytecode is running the route: the builder, all encoders' answers, the
\* WETH plan, approvals, fallbacks and reverts together make each swap once, in
\* order, and deliver what has gone through all, or nothing.
THEOREM BytecodeImplementsFlow ==
    ASSUME ReliedOn
    PROVE  SwapSpec => ImplementsRouteFlow
<1>1. RunInit => Flow!FlowInit
  <2> SUFFICES ASSUME RunInit
               PROVE  Flow!FlowInit
    OBVIOUS
  <2>1. Last \in Nat \ {0}
    BY InitTypes, PathIsFit DEF RunInit, TypeOK, ReliedOn, PathFits
  <2>2. SwapsMade = 0
    BY <2>1, SwapsMadeIs DEF RunInit
  <2> QED
    BY <2>2 DEF RunInit, Init, Flow!FlowInit
<1>2. BuildFacts /\ RunInv /\ [Next]_vars => [Flow!FlowNext]_(Flow!flowVars)
  BY NextFlows
<1> QED
  BY <1>1, <1>2, RunInvariant, PTL DEF SwapSpec, ImplementsRouteFlow, Flow!FlowSpec
=============================================================================
