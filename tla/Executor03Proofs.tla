-------------------------- MODULE Executor03Proofs --------------------------
(***************************************************************************)
(* Executor03 for any split over any number of exchanges, whatever their    *)
(* encoders answer: each exchange runs once, every step finds its funds,    *)
(* and all that is bought ends on the executor in the form it sends on.     *)
(***************************************************************************)
EXTENDS Executor03, TxBuilderProofs, FiniteSetTheorems, FunctionTheorems

-----------------------------------------------------------------------------
(* The order of blocks. *)

\* What an exchange of the route is, for a route in one swap.
LEMMA SplitShape ==
    ASSUME BoughtInOneSwap(route)
    PROVE  /\ ExchangeIndexes = 1..Len(TheSwap.exchanges)
           /\ Len(TheSwap.exchanges) \in Nat \ {0}
  BY DEF BoughtInOneSwap, ExchangeIndexes, TheSwap

\* Ranks run from one to the number of exchanges, and no two exchanges have the same.
LEMMA RanksDiffer ==
    ASSUME BoughtInOneSwap(route)
    PROVE  /\ \A k \in ExchangeIndexes : Rank(k) \in ExchangeIndexes
           /\ \A j, k \in ExchangeIndexes : Rank(j) = Rank(k) => j = k
<1> DEFINE n == Len(TheSwap.exchanges)
           Earlier(k) == {j \in ExchangeIndexes : ComesBefore(j, k)}
<1>1. n \in Nat \ {0} /\ ExchangeIndexes = 1..n
  BY SplitShape
<1>2. IsFiniteSet(ExchangeIndexes) /\ Cardinality(ExchangeIndexes) = n
  BY <1>1, FS_Interval
<1>3. ASSUME NEW k \in ExchangeIndexes
      PROVE  /\ Earlier(k) \in SUBSET ExchangeIndexes /\ k \notin Earlier(k)
             /\ IsFiniteSet(Earlier(k)) /\ Cardinality(Earlier(k)) \in 0..(n - 1)
  <2>1. k \notin Earlier(k)
    BY <1>1 DEF ComesBefore
  <2>2. Earlier(k) \in SUBSET ExchangeIndexes
    OBVIOUS
  <2>3. IsFiniteSet(Earlier(k)) /\ Cardinality(Earlier(k)) \in Nat
    BY <1>2, <2>2, FS_Subset, FS_CardinalityType
  <2>4. Cardinality(Earlier(k)) <= n /\ (Cardinality(Earlier(k)) = n => Earlier(k) = ExchangeIndexes)
    BY <1>2, <2>2, FS_Subset
  <2> QED
    BY <1>1, <2>1, <2>2, <2>3, <2>4
<1>4. \A k \in ExchangeIndexes :
        Rank(k) = Cardinality(Earlier(k)) + 1 /\ Rank(k) \in ExchangeIndexes
  <2>1. \A k \in ExchangeIndexes : Rank(k) = Cardinality(Earlier(k)) + 1
    BY DEF Rank
  <2> HIDE DEF Earlier
  <2> QED
    BY <1>1, <1>3, <2>1
\* Of two exchanges one comes before the other, behind all that come before it.
<1>5. ASSUME NEW j \in ExchangeIndexes, NEW k \in ExchangeIndexes, ComesBefore(j, k)
      PROVE  Rank(j) # Rank(k)
  <2>1. Earlier(j) \subseteq Earlier(k)
    BY <1>1, <1>5 DEF ComesBefore
  <2>2. j \in Earlier(k) /\ j \notin Earlier(j)
    BY <1>3, <1>5
  <2>3. Cardinality(Earlier(j)) # Cardinality(Earlier(k))
    BY <1>3, <2>1, <2>2, FS_Subset
  <2> HIDE DEF Earlier
  <2> QED
    BY <1>3, <1>4, <2>3
<1>6. ASSUME NEW j \in ExchangeIndexes, NEW k \in ExchangeIndexes, j # k
      PROVE  ComesBefore(j, k) \/ ComesBefore(k, j)
  BY <1>1, <1>6 DEF ComesBefore
<1> QED
  BY <1>4, <1>5, <1>6

\* Reordering loses no exchange and repeats none: at each turn an exchange of the
\* route runs, and each exchange has its turn.
LEMMA OrderIsPermutation ==
    ASSUME BoughtInOneSwap(route)
    PROVE  /\ \A i \in ExchangeIndexes : Ordered[i] \in ExchangeIndexes /\ Rank(Ordered[i]) = i
           /\ \A k \in ExchangeIndexes : Ordered[Rank(k)] = k
<1> DEFINE f == [k \in ExchangeIndexes |-> Rank(k)]
<1>1. f \in Injection(ExchangeIndexes, ExchangeIndexes)
  BY RanksDiffer DEF Injection, IsInjective
<1>2. IsFiniteSet(ExchangeIndexes)
  BY SplitShape, FS_Interval
<1>3. f \in Surjection(ExchangeIndexes, ExchangeIndexes)
  BY <1>1, <1>2, FS_Injection
<1>4. \A i \in ExchangeIndexes : \E k \in ExchangeIndexes : Rank(k) = i
  BY <1>3 DEF Surjection
<1>5. \A i \in ExchangeIndexes : Ordered[i] \in ExchangeIndexes /\ Rank(Ordered[i]) = i
  BY <1>4 DEF Ordered
<1> QED
  BY <1>5, RanksDiffer

\* If any exchange works in WETH, the one that runs last does.
LEMMA LastWrapsIfAny ==
    ASSUME BoughtInOneSwap(route), NEW k \in ExchangeIndexes, Wraps(k)
    PROVE  Wraps(Ordered[Len(TheSwap.exchanges)])
<1> DEFINE n == Len(TheSwap.exchanges)
           last == Ordered[n]
           Earlier == {j \in ExchangeIndexes : ComesBefore(j, last)}
<1>1. n \in Nat \ {0} /\ ExchangeIndexes = 1..n
  BY SplitShape
<1>2. last \in ExchangeIndexes /\ Rank(last) = n
  BY <1>1, OrderIsPermutation
<1> SUFFICES ASSUME ~Wraps(last)
             PROVE  FALSE
  OBVIOUS
<1>3. k \notin Earlier /\ last \notin Earlier /\ k # last
  BY <1>1, <1>2 DEF ComesBefore
<1>4. IsFiniteSet(ExchangeIndexes) /\ Cardinality(ExchangeIndexes) = n
  BY <1>1, FS_Interval
<1>5. IsFiniteSet(ExchangeIndexes \ {last}) /\ Cardinality(ExchangeIndexes \ {last}) = n - 1
  BY <1>2, <1>4, FS_RemoveElement
<1>6. Earlier \in SUBSET (ExchangeIndexes \ {last})
  BY <1>3
<1>7. IsFiniteSet(Earlier) /\ Cardinality(Earlier) \in Nat /\ Cardinality(Earlier) = n - 1
  BY <1>1, <1>2, <1>5, <1>6, FS_Subset, FS_CardinalityType DEF Rank
<1>8. Earlier = ExchangeIndexes \ {last}
  BY <1>5, <1>6, <1>7, FS_Subset
<1> QED
  BY <1>3, <1>8

-----------------------------------------------------------------------------
(* What the build leaves to the bytecode. *)

\* The legs of such a route are its exchanges.
LEMMA SplitLegs ==
    ASSUME BoughtInOneSwap(route)
    PROVE  /\ Positions(route) = {<<1, 1, k>> : k \in ExchangeIndexes}
           /\ Legs(route) = {<<<<1, 1, k>>, "primary">> : k \in ExchangeIndexes}
<1>1. Positions(route) = {<<1, 1, k>> : k \in ExchangeIndexes}
  <2>1. DOMAIN route.paths = {1} /\ DOMAIN route.paths[1].swaps = {1}
    BY DEF BoughtInOneSwap
  <2>2. UNION {{<<1, j, k>> : k \in DOMAIN route.paths[1].swaps[j].exchanges} : j \in {1}}
          = {<<1, 1, k>> : k \in ExchangeIndexes}
    BY DEF ExchangeIndexes, TheSwap
  <2>3. Positions(route) =
          UNION {UNION {{<<i, j, k>> : k \in DOMAIN route.paths[i].swaps[j].exchanges}
                          : j \in DOMAIN route.paths[i].swaps} : i \in {1}}
    BY <2>1 DEF Positions
  <2>4. Positions(route) =
          UNION {{<<1, j, k>> : k \in DOMAIN route.paths[1].swaps[j].exchanges}
                   : j \in DOMAIN route.paths[1].swaps}
    BY <2>3
  <2> QED
    BY <2>1, <2>2, <2>4
<1>2. ASSUME NEW k \in ExchangeIndexes
      PROVE  DOMAIN Exchange(route, <<1, 1, k>>).quotes = {"primary"}
  BY DEF BoughtInOneSwap, ExchangeIndexes, TheSwap, Exchange, Swap
<1>3. \A pos \in Positions(route) :
        {<<pos, b>> : b \in DOMAIN Exchange(route, pos).quotes} = {<<pos, "primary">>}
  BY <1>1, <1>2
<1>4. Legs(route) = UNION {{<<pos, "primary">>} : pos \in Positions(route)}
  BY <1>3 DEF Legs
<1> QED
  BY <1>1, <1>4

\* An exchange as it was built: it has answered within the contract, it delivers
\* to the executor if it delivers at all, and a pull has been decided about.
BuiltExchange(k) ==
    /\ ParamOf(k) \in ParamType
    /\ Consistent(TheSwap, ParamOf(k).answer)
    /\ ParamOf(k).recipient = "executor"
    /\ Pulls(TheSwap, ParamOf(k).answer) => ParamOf(k).approve # "none"

SomeWraps == \E k \in ExchangeIndexes : Wraps(k)

\* The plan wraps if some exchange is paid in WETH for ETH, and unwraps if some
\* returns WETH for ETH: in one swap the two never meet.
BuiltPlan ==
    /\ TheSwap.src = ETH => TheSwap.dest # ETH
    /\ "deposit" \in plan <=> TheSwap.src = ETH /\ SomeWraps
    /\ TheSwap.dest = ETH => ("withdraw" \in plan <=> SomeWraps)

Built == BuiltPlan /\ \A k \in ExchangeIndexes : BuiltExchange(k)

\* What a finished build has established, leg by leg and as sums, is what the
\* blocks are encoded from.
LEMMA BuildLeaves ==
    ASSUME TypeOK, BuildInv, PullsAreDecided, phase = "built", BoughtInOneSwap(route)
    PROVE  Built
<1>0. route \in Routes /\ WellFormed(route)
  BY BuilderAssumption DEF TypeOK
<1>1. DOMAIN param = {<<<<1, 1, k>>, "primary">> : k \in ExchangeIndexes}
  BY SplitLegs DEF BuildInv, AllResolved
<1>2. \A k \in ExchangeIndexes :
        /\ Swap(route, <<1, 1, k>>) = TheSwap
        /\ IsLastSwap(route, <<1, 1, k>>)
  BY DEF Swap, TheSwap, IsLastSwap, BoughtInOneSwap
<1>3. ASSUME NEW k \in ExchangeIndexes
      PROVE  BuiltExchange(k)
  <2> DEFINE leg == <<<<1, 1, k>>, "primary">>
  <2>1. leg \in DOMAIN param /\ ParamOf(k) = param[leg] /\ Swap(route, leg[1]) = TheSwap
    BY <1>1, <1>2 DEF ParamOf
  <2>2. ParamOf(k) \in ParamType
    BY <2>1 DEF TypeOK
  <2>3. KeptAsAnswered(leg)
    BY <2>1 DEF BuildInv, LegsKept
  <2>4. Consistent(TheSwap, ParamOf(k).answer)
    BY <2>1, <2>3 DEF KeptAsAnswered
  <2>5. ParamOf(k).recipient = "executor"
    BY <2>1, <2>3 DEF KeptAsAnswered, Recipient, BoughtInOneSwap
  <2>6. Pulls(TheSwap, ParamOf(k).answer) => ParamOf(k).approve # "none"
    <3>1. Pulls(Swap(route, leg[1]), param[leg].answer) => param[leg].approve # "none"
      BY <2>1, Zenon DEF PullsAreDecided
    <3> QED
      BY <2>1, <3>1
  <2> QED
    BY <2>2, <2>4, <2>5, <2>6 DEF BuiltExchange
<1>4. TheSwap.src = ETH => TheSwap.dest # ETH
  <2>1. 1 \in ExchangeIndexes
    BY SplitShape
  <2>2. <<1, 1, 1>> \in Positions(route)
    BY <2>1, SplitLegs
  <2> QED
    BY <1>0, <1>2, <2>1, <2>2 DEF WellFormed
<1>5. \A leg \in DOMAIN param : Swap(route, leg[1]) = TheSwap /\ IsLastSwap(route, leg[1])
  BY <1>1, <1>2
<1>6. SomeWraps <=> \E leg \in DOMAIN param : param[leg].answer.wrap
  BY <1>1 DEF SomeWraps, Wraps, ParamOf
<1>7. Deposited <=> TheSwap.src = ETH /\ SomeWraps
  BY <1>5, <1>6 DEF Deposited, NeedsDeposit
<1>8. Withdrawn <=> TheSwap.dest = ETH /\ SomeWraps
  BY <1>5, <1>6 DEF Withdrawn, NeedsWithdraw
<1>9. plan = PlannedTemplates /\ SumsMatch
  BY DEF BuildInv, PlanAsSummed
<1>10. deposits = withdraws <=> deposits = 0 /\ withdraws = 0
  BY <1>4, <1>7, <1>8, <1>9 DEF SumsMatch
<1>11. BuiltPlan
  BY <1>4, <1>7, <1>8, <1>9, <1>10 DEF BuiltPlan, PlannedTemplates, SumsMatch
<1> QED
  BY <1>3, <1>11 DEF Built

-----------------------------------------------------------------------------
(* The steps of a block. *)

\* The eight stages of a block, by number.
LEMMA StageNames ==
    /\ End = 9
    /\ Stages[1] = "approveWeth" /\ Stages[2] = "deposit" /\ Stages[3] = "approve"
    /\ Stages[4] = "transferSrc" /\ Stages[5] = "unwrapSrc" /\ Stages[6] = "dex"
    /\ Stages[7] = "wrapDest" /\ Stages[8] = "withdraw"
  BY DEF Stages, End

IsFirst(i, j, n) ==
    /\ n \in j..9
    /\ n = 9 \/ Has(i, Stages[n])
    /\ \A m \in j..(n - 1) : ~Has(i, Stages[m])

\* There always is a first step from a stage on, at the latest the end of the
\* block: found from the end of the block backwards.
LEMMA StepFromIsFirst ==
    ASSUME NEW i, NEW j \in 1..9
    PROVE  IsFirst(i, j, StepFrom(i, j))
<1>1. \E n : IsFirst(i, 9, n)
  <2>1. IsFirst(i, 9, 9)
    BY DEF IsFirst
  <2> QED
    BY <2>1
<1>2. ASSUME NEW k \in 1..8, \E n : IsFirst(i, k + 1, n)
      PROVE  \E n : IsFirst(i, k, n)
  <2>1. CASE Has(i, Stages[k])
    <3>1. IsFirst(i, k, k)
      BY <2>1 DEF IsFirst
    <3> QED
      BY <3>1
  <2>2. CASE ~Has(i, Stages[k])
    <3>1. PICK n : IsFirst(i, k + 1, n)
      BY <1>2
    <3>2. \A m \in k..(n - 1) : m = k \/ m \in (k + 1)..(n - 1)
      BY <3>1 DEF IsFirst
    <3>3. IsFirst(i, k, n)
      BY <2>2, <3>1, <3>2 DEF IsFirst
    <3> QED
      BY <3>3
  <2> QED
    BY <2>1, <2>2
<1>3. \E n : IsFirst(i, 8, n)
  BY <1>1, <1>2
<1>4. \E n : IsFirst(i, 7, n)
  BY <1>2, <1>3
<1>5. \E n : IsFirst(i, 6, n)
  BY <1>2, <1>4
<1>6. \E n : IsFirst(i, 5, n)
  BY <1>2, <1>5
<1>7. \E n : IsFirst(i, 4, n)
  BY <1>2, <1>6
<1>8. \E n : IsFirst(i, 3, n)
  BY <1>2, <1>7
<1>9. \E n : IsFirst(i, 2, n)
  BY <1>2, <1>8
<1>10. \E n : IsFirst(i, 1, n)
  BY <1>2, <1>9
<1>11. \E n : IsFirst(i, j, n)
  BY <1>1, <1>3, <1>4, <1>5, <1>6, <1>7, <1>8, <1>9, <1>10
<1>12. \E n \in j..9 : IsFirst(i, j, n)
  BY <1>11 DEF IsFirst
<1>13. StepFrom(i, j) = CHOOSE n \in j..9 : /\ n = 9 \/ Has(i, Stages[n])
                                            /\ \A m \in j..(n - 1) : ~Has(i, Stages[m])
  BY StageNames DEF StepFrom
<1> QED
  BY <1>12, <1>13 DEF IsFirst

AnswerOf(k) == ParamOf(k).answer
Withdraws(i) == i = Len(TheSwap.exchanges) /\ TheSwap.dest = ETH /\ "withdraw" \in plan

\* What there is before stage n of the block of exchange k, up to its call ...
BeforeCall(k, n, m) ==
    /\ m.held = IF Deposits(k) /\ n > 2 THEN WETH
                ELSE IF UnwrapsSrc(TheSwap, AnswerOf(k)) /\ n > 5 THEN ETH
                ELSE TheSwap.src
    /\ m.at = IF AnswerOf(k).transferSrc /\ n > 4 THEN "pool" ELSE "executor"
    /\ m.exact
    /\ MayApprove(ParamOf(k)) /\ ((Deposits(k) /\ n > 1) \/ (ApprovesSource(k) /\ n > 3)) => m.granted

\* ... and behind it.
AfterCall(i, k, n, m) ==
    /\ m.held = IF Withdraws(i) /\ n > 8 THEN ETH
                ELSE IF WrapsDest(TheSwap, AnswerOf(k)) /\ n > 7 THEN WETH
                ELSE IF GivesNative(TheSwap, AnswerOf(k)) THEN ETH
                ELSE WrappedForm(TheSwap.dest)
    /\ m.at = "executor"
    /\ WrapsDest(TheSwap, AnswerOf(k)) \/ Withdraws(i) => m.exact

Expected(i, n, m) ==
    /\ m \in Machines
    /\ n <= 6 => BeforeCall(Ordered[i], n, m)
    /\ n > 6 => AfterCall(i, Ordered[i], n, m)

\* Which stages a block has, one condition each.
LEMMA HasStages ==
    ASSUME NEW i, NEW k, k = Ordered[i]
    PROVE  /\ Has(i, "approveWeth") <=> Deposits(k) /\ MayApprove(ParamOf(k))
           /\ Has(i, "deposit") <=> Deposits(k)
           /\ Has(i, "approve") <=> ApprovesSource(k)
           /\ Has(i, "transferSrc") <=> AnswerOf(k).transferSrc
           /\ Has(i, "unwrapSrc") <=> UnwrapsSrc(TheSwap, AnswerOf(k))
           /\ Has(i, "dex")
           /\ Has(i, "wrapDest") <=> WrapsDest(TheSwap, AnswerOf(k))
           /\ Has(i, "withdraw") <=> Withdraws(i)
  BY DEF Has, AnswerOf, Withdraws

\* Stages that are not there leave what is expected: the next step finds it.
LEMMA SkippingKeepsExpected ==
    ASSUME NEW i, NEW j \in 1..9, NEW n, NEW m, Expected(i, j, m), IsFirst(i, j, n)
    PROVE  Expected(i, n, m)
<1> DEFINE k == Ordered[i]
<1>1. n \in j..9
  BY DEF IsFirst
<1>2. \A l \in 1..8 : j <= l /\ n > l => ~Has(i, Stages[l])
  BY <1>1 DEF IsFirst
<1>3. /\ j <= 1 /\ n > 1 => ~(Deposits(k) /\ MayApprove(ParamOf(k)))
      /\ j <= 2 /\ n > 2 => ~Deposits(k)
      /\ j <= 3 /\ n > 3 => ~ApprovesSource(k)
      /\ j <= 4 /\ n > 4 => ~AnswerOf(k).transferSrc
      /\ j <= 5 /\ n > 5 => ~UnwrapsSrc(TheSwap, AnswerOf(k))
      /\ ~(j <= 6 /\ n > 6)
      /\ j <= 7 /\ n > 7 => ~WrapsDest(TheSwap, AnswerOf(k))
      /\ j <= 8 /\ n > 8 => ~Withdraws(i)
  <2>1. /\ j <= 1 /\ n > 1 => ~Has(i, "approveWeth")
        /\ j <= 2 /\ n > 2 => ~Has(i, "deposit")
        /\ j <= 3 /\ n > 3 => ~Has(i, "approve")
        /\ j <= 4 /\ n > 4 => ~Has(i, "transferSrc")
        /\ j <= 5 /\ n > 5 => ~Has(i, "unwrapSrc")
        /\ j <= 6 /\ n > 6 => ~Has(i, "dex")
        /\ j <= 7 /\ n > 7 => ~Has(i, "wrapDest")
        /\ j <= 8 /\ n > 8 => ~Has(i, "withdraw")
    BY <1>2, StageNames
  <2> QED
    BY <2>1, HasStages
<1>4. CASE j <= 6
  <2>1. n <= 6 /\ BeforeCall(k, j, m)
    BY <1>1, <1>3, <1>4 DEF Expected
  <2>2. BeforeCall(k, n, m)
    BY <1>1, <1>3, <2>1 DEF BeforeCall
  <2> QED
    BY <1>1, <2>1, <2>2 DEF Expected
<1>5. CASE j > 6
  <2>1. n > 6 /\ AfterCall(i, k, j, m)
    BY <1>1, <1>5 DEF Expected
  <2>2. AfterCall(i, k, n, m)
    BY <1>1, <1>3, <1>5, <2>1 DEF AfterCall
  <2> QED
    BY <1>1, <2>1, <2>2 DEF Expected
<1> QED
  BY <1>4, <1>5

Call(k) == CallOf(TheSwap, ParamOf(k), DexFlag(k))

\* The call of an exchange takes what the stages before it have prepared, and its
\* flag says whether that is ETH.
LEMMA CallTakes ==
    ASSUME Built, NEW k \in ExchangeIndexes
    PROVE  /\ Call(k).op = "dex"
           /\ Call(k).in = IF Deposits(k) THEN WETH
                           ELSE IF UnwrapsSrc(TheSwap, AnswerOf(k)) THEN ETH
                           ELSE TheSwap.src
           /\ Call(k).how = "pool" <=> AnswerOf(k).transferSrc
           /\ Call(k).flag.send <=> Call(k).in = ETH
<1> DEFINE a == AnswerOf(k)
<1>1. BuiltExchange(k) /\ BuiltPlan /\ ETH # WETH
  BY TokenAssumption DEF Built
<1>2. a \in AnswerType /\ Consistent(TheSwap, a)
  BY <1>1 DEF BuiltExchange, ParamType, AnswerOf
<1>3. Deposits(k) <=> a.wrap /\ TheSwap.src = ETH
  BY <1>1 DEF BuiltPlan, Deposits, Wraps, AnswerOf, SomeWraps
<1>4. a.wrap => ~a.unwrap
  BY <1>2 DEF Consistent
<1>5. /\ Call(k).op = "dex"
      /\ Call(k).in = IF TakesNative(TheSwap, a) THEN ETH ELSE WrappedForm(TheSwap.src)
      /\ Call(k).how = "pool" <=> a.transferSrc
      /\ Call(k).flag = DexFlag(k)
  BY DEF Call, CallOf, DexStep, AnswerOf
<1>6. Call(k).in = IF Deposits(k) THEN WETH
                   ELSE IF UnwrapsSrc(TheSwap, a) THEN ETH ELSE TheSwap.src
  BY <1>1, <1>3, <1>4, <1>5 DEF TakesNative, WrappedForm, UnwrapsSrc
<1>7. DexFlag(k).send <=> Call(k).in = ETH
  <2>1. CASE UnwrapsSrc(TheSwap, a)
    BY <1>1, <1>3, <1>4, <1>6, <2>1 DEF DexFlag, Flag, AnswerOf, UnwrapsSrc
  <2>2. CASE ~UnwrapsSrc(TheSwap, a) /\ WrapsDest(TheSwap, a)
    <3>1. TheSwap.src # ETH
      BY <1>2, <2>2 DEF Consistent, WrapsDest
    <3> QED
      BY <1>3, <1>6, <2>2, <3>1 DEF DexFlag, Flag, AnswerOf
  <2>3. CASE ~UnwrapsSrc(TheSwap, a) /\ ~WrapsDest(TheSwap, a) /\ TheSwap.src = ETH /\ ~a.wrap
    BY <1>3, <1>6, <2>3 DEF DexFlag, Flag, AnswerOf
  <2>4. CASE ~UnwrapsSrc(TheSwap, a) /\ ~WrapsDest(TheSwap, a) /\ TheSwap.src = ETH /\ a.wrap
    <3>1. "deposit" \in plan
      BY <1>3, <2>4 DEF Deposits
    <3> QED
      BY <1>1, <1>3, <1>6, <2>4, <3>1 DEF DexFlag, Flag, AnswerOf
  <2>5. CASE ~UnwrapsSrc(TheSwap, a) /\ ~WrapsDest(TheSwap, a) /\ TheSwap.src # ETH
    BY <1>3, <1>6, <2>5 DEF DexFlag, Flag, AnswerOf
  <2> QED
    BY <2>1, <2>2, <2>3, <2>4, <2>5
<1> QED
  BY <1>5, <1>6, <1>7

\* A call that needs an allowance has planned approve data, and a stage of its
\* own block that grants it: with the deposit if it is paid from ETH, else because
\* its flag is not that of a call that sends ETH.
LEMMA CallIsGranted ==
    ASSUME Built, NEW k \in ExchangeIndexes, Call(k).how = "needs"
    PROVE  MayApprove(ParamOf(k)) /\ (Deposits(k) \/ ApprovesSource(k))
<1> DEFINE a == AnswerOf(k)
<1>1. BuiltExchange(k) /\ BuiltPlan /\ ETH # WETH
  BY TokenAssumption DEF Built
<1>2. a \in AnswerType /\ Consistent(TheSwap, a) /\ ParamOf(k) \in ParamType
  BY <1>1 DEF BuiltExchange, ParamType, AnswerOf
<1>3. ~a.transferSrc /\ ~TakesNative(TheSwap, a) /\ ~a.skipApproval /\ ParamOf(k).approve # "already"
  BY DEF Call, CallOf, DexStep, AnswerOf
<1>4. ParamOf(k).approve = "data"
  BY <1>1, <1>2, <1>3 DEF BuiltExchange, Pulls, ParamType, AnswerOf
<1>5. MayApprove(ParamOf(k))
  BY <1>3, <1>4 DEF MayApprove, AnswerOf
<1>6. CASE TheSwap.src = ETH
  <2>1. Wraps(k)
    BY <1>3, <1>6 DEF TakesNative, Wraps, AnswerOf
  <2>2. "deposit" \in plan
    BY <1>1, <1>6, <2>1 DEF BuiltPlan, SomeWraps
  <2> QED
    BY <1>5, <1>6, <2>1, <2>2 DEF Deposits
<1>7. CASE TheSwap.src # ETH
  <2>1. ~SendsOnly(DexFlag(k))
    <3>1. ~Call(k).flag.send
      BY <1>3, <1>7, CallTakes DEF Call, CallOf, DexStep, AnswerOf, WrappedForm
    <3> QED
      BY <3>1 DEF SendsOnly, Call, CallOf, DexStep
  <2> QED
    BY <1>5, <1>7, <2>1 DEF ApprovesSource
<1> QED
  BY <1>5, <1>6, <1>7

\* What it returns stays on the executor; it is measured where a later stage of the
\* block converts it.
LEMMA CallReturns ==
    ASSUME BoughtInOneSwap(route), Built, NEW i \in ExchangeIndexes, NEW k, k = Ordered[i]
    PROVE  /\ Call(k).out = IF GivesNative(TheSwap, AnswerOf(k)) THEN ETH
                            ELSE WrappedForm(TheSwap.dest)
           /\ Call(k).out \in Tokens
           /\ Call(k).to = "executor"
           /\ WrapsDest(TheSwap, AnswerOf(k)) => Call(k).out = ETH /\ ~Withdraws(i)
           /\ Withdraws(i) => Call(k).out = WETH
           /\ WrapsDest(TheSwap, AnswerOf(k)) \/ Withdraws(i) => Measures(Call(k))
<1> DEFINE a == AnswerOf(k)
<1>0. k \in ExchangeIndexes
  BY OrderIsPermutation
<1>1. BuiltExchange(k) /\ BuiltPlan /\ ETH # WETH /\ {ETH, WETH} \subseteq Tokens
  BY <1>0, TokenAssumption DEF Built
<1>2. a \in AnswerType /\ Consistent(TheSwap, a)
  BY <1>1 DEF BuiltExchange, ParamType, AnswerOf
<1>3. /\ Call(k).op = "dex"
      /\ Call(k).out = IF GivesNative(TheSwap, a) THEN ETH ELSE WrappedForm(TheSwap.dest)
      /\ Call(k).to = IF a.hasRecipient THEN ParamOf(k).recipient ELSE "executor"
      /\ Call(k).flag = DexFlag(k)
      /\ Call(k).measured = WrappedForm(TheSwap.dest)
  BY DEF Call, CallOf, DexStep, AnswerOf
<1>4. Call(k).out \in Tokens
  BY <1>1, <1>3 DEF WrappedForm, BoughtInOneSwap, TheSwap
<1>5. Call(k).to = "executor"
  BY <1>1, <1>3 DEF BuiltExchange
<1>6. ASSUME WrapsDest(TheSwap, a)
      PROVE  Call(k).out = ETH /\ ~Withdraws(i) /\ Measures(Call(k))
  <2>1. Call(k).out = ETH
    BY <1>3, <1>6 DEF WrapsDest, GivesNative
  <2>2. ~Withdraws(i)
    BY <1>1, <1>6 DEF WrapsDest, Withdraws
  <2>3. ~UnwrapsSrc(TheSwap, a)
    BY <1>2, <1>6 DEF Consistent, WrapsDest, UnwrapsSrc
  <2>4. Call(k).flag.check = "eth"
    BY <1>3, <1>6, <2>3 DEF DexFlag, Flag, AnswerOf
  <2> QED
    BY <2>1, <2>2, <2>4 DEF Measures
<1>7. ASSUME Withdraws(i)
      PROVE  Call(k).out = WETH /\ Measures(Call(k))
  <2>1. a.wrap /\ TheSwap.dest = ETH /\ "withdraw" \in plan /\ TheSwap.src # ETH
    <3>1. SomeWraps /\ TheSwap.dest = ETH /\ "withdraw" \in plan
      BY <1>1, <1>7 DEF Withdraws, BuiltPlan
    <3>2. Wraps(k)
      BY <1>7, <3>1, LastWrapsIfAny DEF Withdraws, SomeWraps
    <3> QED
      BY <1>1, <3>1, <3>2 DEF Wraps, AnswerOf, BuiltPlan
  <2>2. ~UnwrapsSrc(TheSwap, a) /\ ~WrapsDest(TheSwap, a)
    BY <1>2, <2>1 DEF Consistent, UnwrapsSrc, WrapsDest
  <2>3. Call(k).flag.check = "token"
    BY <1>3, <2>1, <2>2 DEF DexFlag, Flag, AnswerOf
  <2>4. Call(k).out = WETH /\ Call(k).measured = WETH
    BY <1>1, <1>3, <2>1 DEF GivesNative, WrappedForm
  <2> QED
    BY <2>3, <2>4 DEF Measures
<1> QED
  BY <1>3, <1>4, <1>5, <1>6, <1>7

\* A step finds what is expected, and leaves what the next stage expects.
LEMMA StepsGoOn ==
    ASSUME BoughtInOneSwap(route), Built, NEW i \in ExchangeIndexes, NEW n \in 1..8,
           Has(i, Stages[n]), NEW m, Expected(i, n, m)
    PROVE  /\ FindsFunds(m, StepAt(i, Stages[n]))
           /\ IsGranted(m, StepAt(i, Stages[n]))
           /\ IsExact(m, StepAt(i, Stages[n]))
           /\ Expected(i, n + 1, Apply(m, StepAt(i, Stages[n])))
<1> DEFINE k == Ordered[i]
           a == AnswerOf(k)
           s == StepAt(i, Stages[n])
<1>1. k \in ExchangeIndexes
  BY OrderIsPermutation
<1>2. BuiltExchange(k) /\ BuiltPlan /\ ETH # WETH /\ {ETH, WETH} \subseteq Tokens
  BY <1>1, TokenAssumption DEF Built
<1>3. a \in AnswerType /\ Consistent(TheSwap, a)
  BY <1>2 DEF BuiltExchange, ParamType, AnswerOf
<1>4. Deposits(k) => a.wrap /\ TheSwap.src = ETH /\ ~UnwrapsSrc(TheSwap, a)
  BY <1>2 DEF Deposits, Wraps, AnswerOf, UnwrapsSrc
<1>5. m = [held |-> m.held, at |-> m.at, exact |-> m.exact, granted |-> m.granted]
      /\ m \in Machines
  BY DEF Expected, Machines
<1>6. CASE n \in {1, 3}
  <2>1. s = ApproveStep /\ (n = 1 => Deposits(k)) /\ (n = 3 => ApprovesSource(k))
    BY <1>6, StageNames, HasStages DEF StepAt
  <2>2. FindsFunds(m, s) /\ IsGranted(m, s) /\ IsExact(m, s) /\ Apply(m, s) = [m EXCEPT !.granted = TRUE]
    BY <2>1 DEF ApproveStep, FindsFunds, IsGranted, IsExact, Apply
  <2>3. BeforeCall(k, n, m)
    BY <1>6 DEF Expected
  <2>4. Apply(m, s) \in Machines /\ Apply(m, s).held = m.held /\ Apply(m, s).at = m.at
        /\ Apply(m, s).exact = m.exact /\ Apply(m, s).granted
    BY <1>5, <2>2 DEF Machines
  <2>5. CASE n = 1
    <3>1. BeforeCall(k, 2, Apply(m, s))
      BY <2>3, <2>4, <2>5 DEF BeforeCall
    <3> QED
      BY <2>2, <2>4, <2>5, <3>1 DEF Expected
  <2>6. CASE n = 3
    <3>1. BeforeCall(k, 4, Apply(m, s))
      BY <2>3, <2>4, <2>6 DEF BeforeCall
    <3> QED
      BY <2>2, <2>4, <2>6, <3>1 DEF Expected
  <2> QED
    BY <1>6, <2>5, <2>6
<1>7. CASE n = 2
  <2>1. s = WrapStep /\ Deposits(k)
    BY <1>7, StageNames, HasStages DEF StepAt
  <2>2. BeforeCall(k, 2, m)
    BY <1>7 DEF Expected
  <2>3. m.held = ETH /\ m.at = "executor" /\ m.exact
    BY <1>4, <2>1, <2>2 DEF BeforeCall
  <2>4. FindsFunds(m, s) /\ IsGranted(m, s) /\ IsExact(m, s) /\ Apply(m, s) = [m EXCEPT !.held = WETH]
    BY <2>1, <2>3 DEF WrapStep, FindsFunds, IsGranted, IsExact, Apply
  <2>5. BeforeCall(k, 3, Apply(m, s)) /\ Apply(m, s) \in Machines
    BY <1>2, <1>5, <2>1, <2>2, <2>4 DEF BeforeCall, Machines
  <2> QED
    BY <1>7, <2>4, <2>5 DEF Expected
<1>8. CASE n = 4
  <2>1. s = TransferStep(WrappedForm(TheSwap.src), "pool") /\ a.transferSrc
    BY <1>8, StageNames, HasStages DEF StepAt, TransferSrcStep
  <2>2. BeforeCall(k, 4, m)
    BY <1>8 DEF Expected
  <2>3. ~TakesNative(TheSwap, a)
    BY <1>3, <2>1 DEF Consistent
  <2>4. m.held = WrappedForm(TheSwap.src) /\ m.at = "executor" /\ m.exact
    <3>1. TheSwap.src = ETH => Deposits(k)
      BY <1>1, <1>2, <2>3 DEF TakesNative, BuiltPlan, SomeWraps, Wraps, Deposits, AnswerOf
    <3> QED
      BY <1>2, <1>4, <2>2, <3>1 DEF BeforeCall, WrappedForm
  <2>5. FindsFunds(m, s) /\ IsGranted(m, s) /\ IsExact(m, s) /\ Apply(m, s) = [m EXCEPT !.at = "pool"]
    BY <2>1, <2>4 DEF TransferStep, FindsFunds, IsGranted, IsExact, Apply
  <2>6. BeforeCall(k, 5, Apply(m, s)) /\ Apply(m, s) \in Machines
    BY <1>5, <2>1, <2>2, <2>5 DEF BeforeCall, Machines, Places
  <2> QED
    BY <1>8, <2>5, <2>6 DEF Expected
<1>9. CASE n = 5
  <2>1. s = UnwrapStep /\ UnwrapsSrc(TheSwap, a)
    BY <1>9, StageNames, HasStages DEF StepAt
  <2>2. BeforeCall(k, 5, m)
    BY <1>9 DEF Expected
  <2>3. ~a.transferSrc /\ TheSwap.src = WETH /\ ~Deposits(k)
    BY <1>3, <1>4, <2>1 DEF Consistent, UnwrapsSrc, TakesNative
  <2>4. m.held = WETH /\ m.at = "executor" /\ m.exact
    BY <2>2, <2>3 DEF BeforeCall
  <2>5. FindsFunds(m, s) /\ IsGranted(m, s) /\ IsExact(m, s) /\ Apply(m, s) = [m EXCEPT !.held = ETH]
    BY <2>1, <2>4 DEF UnwrapStep, FindsFunds, IsGranted, IsExact, Apply
  <2>6. BeforeCall(k, 6, Apply(m, s)) /\ Apply(m, s) \in Machines
    BY <1>2, <1>5, <2>1, <2>2, <2>3, <2>5 DEF BeforeCall, Machines
  <2> QED
    BY <1>9, <2>5, <2>6 DEF Expected
<1>10. CASE n = 6
  <2>1. s = Call(k)
    BY <1>10, StageNames DEF StepAt, Call
  <2>2. BeforeCall(k, 6, m)
    BY <1>10 DEF Expected
  <2>3. m.held = Call(k).in /\ (m.at = IF Call(k).how = "pool" THEN "pool" ELSE "executor") /\ m.exact
    BY <1>1, <2>2, CallTakes DEF BeforeCall
  <2>4. FindsFunds(m, s) /\ IsExact(m, s)
    BY <1>1, <2>1, <2>3, CallTakes DEF FindsFunds, IsExact
  <2>5. IsGranted(m, s)
    BY <1>1, <2>1, <2>2, CallIsGranted DEF IsGranted, BeforeCall
  <2>6. Apply(m, s) = [held |-> Call(k).out, at |-> Call(k).to, granted |-> FALSE,
                       exact |-> Call(k).to = "executor" /\ Measures(Call(k))]
    BY <1>1, <2>1, CallTakes DEF Apply
  <2>7. AfterCall(i, k, 7, Apply(m, s)) /\ Apply(m, s) \in Machines
    <3>1. Call(k).out \in Tokens /\ Call(k).to = "executor" /\ Measures(Call(k)) \in BOOLEAN
      BY CallReturns DEF Measures
    <3>2. Apply(m, s) \in Machines
      BY <2>6, <3>1 DEF Machines, Places
    <3>3. /\ Apply(m, s).held = Call(k).out /\ Apply(m, s).at = "executor"
          /\ Apply(m, s).exact <=> Measures(Call(k))
      BY <2>6, <3>1
    <3>4. AfterCall(i, k, 7, Apply(m, s))
      BY <3>3, CallReturns DEF AfterCall
    <3> QED
      BY <3>2, <3>4
  <2> QED
    BY <1>10, <2>4, <2>5, <2>7 DEF Expected
<1>11. CASE n = 7
  <2>1. s = WrapStep /\ WrapsDest(TheSwap, a)
    BY <1>11, StageNames, HasStages DEF StepAt
  <2>2. AfterCall(i, k, 7, m)
    BY <1>11 DEF Expected
  <2>3. m.held = ETH /\ m.at = "executor" /\ m.exact /\ ~Withdraws(i)
    BY <2>1, <2>2, CallReturns DEF AfterCall
  <2>4. FindsFunds(m, s) /\ IsGranted(m, s) /\ IsExact(m, s) /\ Apply(m, s) = [m EXCEPT !.held = WETH]
    BY <2>1, <2>3 DEF WrapStep, FindsFunds, IsGranted, IsExact, Apply
  <2>5. AfterCall(i, k, 8, Apply(m, s)) /\ Apply(m, s) \in Machines
    BY <1>2, <1>5, <2>1, <2>2, <2>3, <2>4 DEF AfterCall, Machines
  <2> QED
    BY <1>11, <2>4, <2>5 DEF Expected
<1>12. CASE n = 8
  <2>1. s = UnwrapStep /\ Withdraws(i)
    BY <1>12, StageNames, HasStages DEF StepAt
  <2>2. AfterCall(i, k, 8, m)
    BY <1>12 DEF Expected
  <2>3. m.held = WETH /\ m.at = "executor" /\ m.exact
    BY <2>1, <2>2, CallReturns DEF AfterCall
  <2>4. FindsFunds(m, s) /\ IsGranted(m, s) /\ IsExact(m, s) /\ Apply(m, s) = [m EXCEPT !.held = ETH]
    BY <2>1, <2>3 DEF UnwrapStep, FindsFunds, IsGranted, IsExact, Apply
  <2>5. AfterCall(i, k, 9, Apply(m, s)) /\ Apply(m, s) \in Machines
    BY <1>2, <1>5, <2>1, <2>2, <2>4 DEF AfterCall, Machines
  <2> QED
    BY <1>12, <2>4, <2>5 DEF Expected
<1> QED
  BY <1>6, <1>7, <1>8, <1>9, <1>10, <1>11, <1>12

\* While the bytecode runs, what has been built stays.
LEMMA BuiltStays ==
    ASSUME UNCHANGED buildVars
    PROVE  /\ TheSwap' = TheSwap /\ ExchangeIndexes' = ExchangeIndexes
           /\ Ordered' = Ordered
           /\ \A i : \A n \in 1..8 : Has(i, Stages[n])' <=> Has(i, Stages[n])
           /\ \A i, n, m : Expected(i, n, m)' <=> Expected(i, n, m)
           /\ \A i : Withdraws(i)' <=> Withdraws(i)
<1> USE DEF buildVars
<1>1. TheSwap' = TheSwap /\ ExchangeIndexes' = ExchangeIndexes
  BY DEF TheSwap, ExchangeIndexes
<1>2. \A k : ParamOf(k)' = ParamOf(k)
  BY DEF ParamOf
<1>3. \A k : /\ AnswerOf(k)' = AnswerOf(k)
             /\ Wraps(k)' = Wraps(k)
             /\ Deposits(k)' <=> Deposits(k)
             /\ DexFlag(k)' = DexFlag(k)
             /\ MayApprove(ParamOf(k))' <=> MayApprove(ParamOf(k))
  BY <1>1, <1>2 DEF AnswerOf, Wraps, Deposits, DexFlag, MayApprove, UnwrapsSrc, WrapsDest,
                    AnyWithoutRecipient, Flag
<1>4. Ordered' = Ordered
  <2>1. \A j, k : ComesBefore(j, k)' <=> ComesBefore(j, k)
    BY <1>3 DEF ComesBefore
  <2>2. \A k : Rank(k)' = Rank(k)
    BY <1>1, <2>1 DEF Rank
  <2> QED
    BY <1>1, <2>2 DEF Ordered
<1>5. \A i : Withdraws(i)' <=> Withdraws(i)
  BY <1>1 DEF Withdraws
<1>6. \A k : ApprovesSource(k)' <=> ApprovesSource(k)
  BY <1>1, <1>2, <1>3 DEF ApprovesSource, SendsOnly
<1>7. \A i : \A n \in 1..8 : Has(i, Stages[n])' <=> Has(i, Stages[n])
  <2> SUFFICES ASSUME NEW i, NEW s \in {"approveWeth", "deposit", "approve", "transferSrc",
                                        "unwrapSrc", "dex", "wrapDest", "withdraw"}
               PROVE  Has(i, s)' <=> Has(i, s)
    BY StageNames DEF Stages
  <2>1. /\ UnwrapsSrc(TheSwap, AnswerOf(Ordered[i]))' <=> UnwrapsSrc(TheSwap, AnswerOf(Ordered[i]))
        /\ WrapsDest(TheSwap, AnswerOf(Ordered[i]))' <=> WrapsDest(TheSwap, AnswerOf(Ordered[i]))
    BY <1>1, <1>3, <1>4 DEF UnwrapsSrc, WrapsDest
  <2> QED
    BY <1>1, <1>3, <1>4, <1>5, <1>6, <2>1 DEF Has, AnswerOf, Withdraws
<1>8. \A k, n, m : BeforeCall(k, n, m)' <=> BeforeCall(k, n, m)
  BY <1>1, <1>3, <1>6 DEF BeforeCall, UnwrapsSrc
<1>9. \A i, k, n, m : AfterCall(i, k, n, m)' <=> AfterCall(i, k, n, m)
  BY <1>1, <1>3, <1>5 DEF AfterCall, WrapsDest, GivesNative
<1>10. \A i, n, m : Expected(i, n, m)' <=> Expected(i, n, m)
  BY <1>4, <1>8, <1>9 DEF Expected
<1> QED
  BY <1>1, <1>4, <1>5, <1>7, <1>10

-----------------------------------------------------------------------------
(* Running the bytecode. *)

BuildFacts == TypeOK /\ BuildInv /\ PullsAreDecided

\* Outputs may be in either form until the withdrawal; with nothing to withdraw,
\* or behind it, they are in the form the route ends in.
InForm(outs) == outs \subseteq {[held |-> TheSwap.dest, at |-> "executor"]}

LastBlockDone == turn = Len(TheSwap.exchanges) /\ stage = 9

OutputsSoFar ==
    /\ returned \subseteq {[held |-> TheSwap.dest, at |-> "executor"],
                           [held |-> WrappedForm(TheSwap.dest), at |-> "executor"]}
    /\ "withdraw" \notin plan \/ LastBlockDone => InForm(returned)

RunInv ==
    /\ turn \in ExchangeIndexes
    /\ stage \in 1..9
    /\ machine \in Machines
    /\ returned \subseteq [held : Tokens, at : Places]
    /\ outcome \in {"building", "running", "done", "reverted"}
    /\ outcome = "building" => turn = 1 /\ machine = Share /\ returned = {}
    /\ outcome # "building" => phase = "built"
    /\ outcome = "running" => /\ Expected(turn, stage, machine)
                              /\ stage = 9 \/ Has(turn, Stages[stage])
                              /\ OutputsSoFar
    /\ outcome = "done" => returned = {[held |-> TheSwap.dest, at |-> "executor"]}

\* A share that the executor is given is what the first stage of a block expects.
LEMMA ShareIsExpected ==
    ASSUME TypeOK, BoughtInOneSwap(route), NEW i
    PROVE  Expected(i, 1, Share)
<1>1. Share \in Machines /\ Share.held = TheSwap.src
  BY DEF Share, Machines, Places, BoughtInOneSwap, TheSwap
<1> QED
  BY <1>1 DEF Expected, BeforeCall, Share

\* So is what follows it to the first stage that is there.
LEMMA BlockStarts ==
    ASSUME TypeOK, BoughtInOneSwap(route), NEW i
    PROVE  /\ StepFrom(i, 1) \in 1..6
           /\ Has(i, Stages[StepFrom(i, 1)])
           /\ Expected(i, StepFrom(i, 1), Share)
<1>1. IsFirst(i, 1, StepFrom(i, 1))
  BY StepFromIsFirst
<1>2. Has(i, Stages[6])
  BY StageNames, HasStages
<1>3. StepFrom(i, 1) \in 1..6 /\ Has(i, Stages[StepFrom(i, 1)])
  BY <1>1, <1>2 DEF IsFirst
<1> QED
  BY <1>1, <1>3, ShareIsExpected, SkippingKeepsExpected

\* What a block ends with is on the executor; in the form of the destination where
\* nothing is to be withdrawn, and where it has been.
LEMMA BlockEnds ==
    ASSUME BoughtInOneSwap(route), Built, NEW i \in ExchangeIndexes, NEW m, Expected(i, 9, m)
    PROVE  /\ m.at = "executor"
           /\ m.held \in {TheSwap.dest, WrappedForm(TheSwap.dest)}
           /\ "withdraw" \notin plan \/ i = Len(TheSwap.exchanges) => m.held = TheSwap.dest
<1> DEFINE k == Ordered[i]
           a == AnswerOf(k)
<1>1. k \in ExchangeIndexes /\ BuiltPlan /\ BuiltExchange(k)
  BY OrderIsPermutation DEF Built
<1>2. AfterCall(i, k, 9, m)
  BY DEF Expected
<1>3. CASE TheSwap.dest # ETH
  BY <1>2, <1>3 DEF AfterCall, Withdraws, WrapsDest, GivesNative, WrappedForm
<1>4. CASE TheSwap.dest = ETH
  <2>1. m.at = "executor" /\ m.held \in {ETH, WETH}
    BY <1>2, <1>4 DEF AfterCall, WrappedForm
  <2>2. ~WrapsDest(TheSwap, a)
    BY <1>4, TokenAssumption DEF WrapsDest
  <2>3. CASE Withdraws(i)
    BY <1>2, <1>4, <2>1, <2>3 DEF AfterCall, WrappedForm
  <2>4. CASE ~Withdraws(i) /\ a.wrap
    <3>1. "withdraw" \in plan
      BY <1>1, <1>4, <2>4 DEF BuiltPlan, SomeWraps, Wraps, AnswerOf
    <3> QED
      BY <1>4, <2>1, <2>4, <3>1 DEF Withdraws, WrappedForm
  <2>5. CASE ~Withdraws(i) /\ ~a.wrap
    BY <1>2, <1>4, <2>1, <2>2, <2>5 DEF AfterCall, GivesNative
  <2> QED
    BY <2>3, <2>4, <2>5
<1> QED
  BY <1>3, <1>4

\* The first block starts with what the executor is given.
LEMMA RunStarts ==
    ASSUME TypeOK, BoughtInOneSwap(route), RunInv, Start
    PROVE  RunInv'
<1>1. turn = 1 /\ machine = Share /\ returned = {} /\ UNCHANGED <<buildVars, turn, machine, returned>>
  BY DEF RunInv, Start
<1>2. stage' = StepFrom(1, 1)
  BY DEF Start
<1>3. /\ stage' \in 1..6
      /\ Has(turn, Stages[stage'])
      /\ Expected(turn, stage', machine)
  BY <1>1, <1>2, BlockStarts
<1>4. /\ TheSwap' = TheSwap /\ ExchangeIndexes' = ExchangeIndexes
      /\ Has(turn, Stages[stage])'
      /\ Expected(turn, stage, machine)'
  BY <1>1, <1>3, BuiltStays DEF Stages
<1>5. OutputsSoFar'
  BY <1>1 DEF OutputsSoFar, InForm
<1> QED
  BY <1>1, <1>3, <1>4, <1>5 DEF RunInv, Start, buildVars

\* A step leaves what the next stage that is there expects.
LEMMA RunSteps ==
    ASSUME BoughtInOneSwap(route), Built, RunInv, Step
    PROVE  RunInv'
<1> DEFINE n == stage
           m == Apply(machine, Current)
<1>1. /\ outcome = "running" /\ outcome' = "running" /\ n \in 1..8
      /\ UNCHANGED <<buildVars, turn>> /\ turn \in ExchangeIndexes
      /\ machine' = m /\ stage' = StepFrom(turn, n + 1)
      /\ Has(turn, Stages[n]) /\ Expected(turn, n, machine) /\ OutputsSoFar
  BY StageNames DEF RunInv, Step, Running
<1>2. Expected(turn, n + 1, m)
  BY <1>1, StepsGoOn DEF Current
<1>3. IsFirst(turn, n + 1, stage')
  BY <1>1, StepFromIsFirst
<1>4. Expected(turn, stage', m) /\ stage' \in (n + 1)..9 /\ (stage' = 9 \/ Has(turn, Stages[stage']))
  <2>1. n + 1 \in 1..9
    BY <1>1
  <2>2. Expected(turn, stage', m)
    BY <1>2, <1>3, <2>1, SkippingKeepsExpected
  <2> QED
    BY <1>3, <2>2 DEF IsFirst
<1>5. /\ TheSwap' = TheSwap /\ ExchangeIndexes' = ExchangeIndexes
      /\ (stage = 9 \/ Has(turn, Stages[stage]))'
      /\ Expected(turn, stage, machine)'
  BY <1>1, <1>4, BuiltStays DEF Stages
\* The withdrawal is the eighth stage of the last block: it brings all that has been
\* returned into one form, and the last block does not end without it.
<1>6. OutputsSoFar'
  <2>1. CASE n = 8
    <3>1. Withdraws(turn) /\ Stages[n] = "withdraw"
      BY <1>1, <2>1, StageNames, HasStages
    <3>2. returned' = {[out EXCEPT !.held = ETH] : out \in returned} /\ TheSwap.dest = ETH
      BY <3>1 DEF Step, Withdraws
    <3>3. \A out \in returned : [out EXCEPT !.held = ETH] = [held |-> ETH, at |-> "executor"]
      BY <1>1 DEF OutputsSoFar
    <3>4. InForm(returned')
      BY <3>2, <3>3 DEF InForm
    <3> QED
      BY <1>5, <3>4 DEF OutputsSoFar, InForm
  <2>2. CASE n # 8
    <3>1. returned' = returned
      BY <1>1, <2>2, StageNames DEF Step
    <3>2. CASE TheSwap.dest # ETH
      BY <1>1, <1>5, <3>1, <3>2 DEF OutputsSoFar, InForm, WrappedForm
    <3>3. CASE TheSwap.dest = ETH /\ "withdraw" \notin plan
      BY <1>1, <1>5, <3>1, <3>3 DEF OutputsSoFar, InForm, buildVars
    <3>4. CASE TheSwap.dest = ETH /\ "withdraw" \in plan
      <4>1. ASSUME turn = Len(TheSwap.exchanges), stage' = 9
            PROVE  FALSE
        <5>1. Withdraws(turn)
          BY <3>4, <4>1 DEF Withdraws
        <5>2. ~Has(turn, Stages[8])
          BY <1>1, <1>3, <2>2, <4>1 DEF IsFirst
        <5> QED
          BY <5>1, <5>2, StageNames, HasStages
      <4> QED
        BY <1>1, <1>5, <3>1, <3>4, <4>1 DEF OutputsSoFar, LastBlockDone, buildVars
    <3> QED
      BY <3>2, <3>3, <3>4
  <2> QED
    BY <2>1, <2>2
<1>7. machine' \in Machines /\ stage' \in 1..9
  BY <1>1, <1>4 DEF Expected
<1>8. returned' \subseteq [held : Tokens, at : Places]
  BY TokenAssumption DEF Step, RunInv
<1> QED
  BY <1>1, <1>5, <1>6, <1>7, <1>8 DEF RunInv, buildVars

\* A block hands its output to the executor; the next one starts from its share.
LEMMA RunEndsBlock ==
    ASSUME TypeOK, BoughtInOneSwap(route), Built, RunInv, EndBlock
    PROVE  RunInv'
<1> DEFINE out == [held |-> machine.held, at |-> machine.at]
           dest == [held |-> TheSwap.dest, at |-> "executor"]
<1>1. /\ stage = 9 /\ outcome = "running" /\ UNCHANGED buildVars
      /\ turn \in ExchangeIndexes /\ Expected(turn, 9, machine) /\ OutputsSoFar
      /\ returned' = returned \union {out} /\ phase = "built"
  BY StageNames DEF RunInv, EndBlock
<1>2. /\ machine.at = "executor"
      /\ machine.held \in {TheSwap.dest, WrappedForm(TheSwap.dest)}
      /\ "withdraw" \notin plan \/ turn = Len(TheSwap.exchanges) => machine.held = TheSwap.dest
  BY <1>1, BlockEnds
<1>3. TheSwap' = TheSwap /\ ExchangeIndexes' = ExchangeIndexes
  BY <1>1, BuiltStays
<1>4. ExchangeIndexes = 1..Len(TheSwap.exchanges) /\ Len(TheSwap.exchanges) \in Nat \ {0}
  BY SplitShape
<1>5. returned' \subseteq [held : Tokens, at : Places]
  BY <1>1 DEF RunInv, Machines
<1>6. CASE turn < Len(TheSwap.exchanges)
  <2>1. /\ turn' = turn + 1 /\ stage' = StepFrom(turn + 1, 1) /\ machine' = Share
        /\ outcome' = "running"
    BY <1>1, <1>6 DEF EndBlock
  <2>2. /\ stage' \in 1..6
        /\ Has(turn', Stages[stage'])
        /\ Expected(turn', stage', machine')
    BY <2>1, BlockStarts
  <2>3. /\ Has(turn, Stages[stage])'
        /\ Expected(turn, stage, machine)'
    BY <1>1, <2>2, BuiltStays DEF Stages
  <2>4. turn' \in ExchangeIndexes
    BY <1>1, <1>4, <1>6, <2>1
  <2>5. OutputsSoFar'
    <3>1. returned' \subseteq {dest, [held |-> WrappedForm(TheSwap.dest), at |-> "executor"]}
      BY <1>1, <1>2 DEF OutputsSoFar
    <3>2. "withdraw" \notin plan => InForm(returned')
      BY <1>1, <1>2 DEF OutputsSoFar, InForm
    <3>3. ~LastBlockDone'
      BY <2>2 DEF LastBlockDone
    <3> QED
      BY <1>1, <1>3, <3>1, <3>2, <3>3 DEF OutputsSoFar, InForm, buildVars
  <2>6. machine' \in Machines /\ stage' \in 1..9
    BY <2>2 DEF Expected
  <2> QED
    BY <1>1, <1>3, <1>5, <2>1, <2>3, <2>4, <2>5, <2>6 DEF RunInv, buildVars
<1>7. CASE ~(turn < Len(TheSwap.exchanges))
  <2>1. turn = Len(TheSwap.exchanges)
    BY <1>1, <1>4, <1>7
  <2>2. outcome' = "done" /\ UNCHANGED <<turn, stage, machine>>
    BY <1>7 DEF EndBlock
  <2>3. out = dest /\ returned \subseteq {dest}
    BY <1>1, <1>2, <2>1 DEF OutputsSoFar, LastBlockDone, InForm
  <2>4. returned' = {dest}
    BY <1>1, <2>3
  <2> QED
    BY <1>1, <1>3, <1>5, <2>2, <2>4 DEF RunInv, buildVars
<1> QED
  BY <1>6, <1>7

\* No step of the build or of the run leaves the invariant.
LEMMA RunInvStep ==
    ASSUME \A r \in Routes : BoughtInOneSwap(r)
    PROVE  BuildFacts /\ RunInv /\ [Next]_vars => RunInv'
<1> SUFFICES ASSUME BuildFacts, RunInv, [Next]_vars
             PROVE  RunInv'
  OBVIOUS
<1>1. TypeOK /\ BoughtInOneSwap(route)
  BY DEF BuildFacts, TypeOK
<1>2. phase = "built" => Built
  BY <1>1, BuildLeaves DEF BuildFacts
<1>3. CASE Build /\ UNCHANGED runVars
  <2>1. route' = route /\ outcome = "building"
    BY <1>3 DEF Build, Classify, ResolveLeg, ServiceFails, PlanWeth, PlanApprovals, RunInv
  <2>2. ExchangeIndexes' = ExchangeIndexes /\ Share' = Share
    BY <2>1 DEF ExchangeIndexes, TheSwap, Share
  <2> QED
    BY <1>3, <2>1, <2>2 DEF RunInv, runVars
<1>4. CASE Start
  BY <1>1, <1>4, RunStarts
<1>5. CASE Step
  <2>1. phase = "built"
    BY <1>5 DEF Step, Running, RunInv
  <2> QED
    BY <1>1, <1>2, <1>5, <2>1, RunSteps
<1>6. CASE EndBlock
  <2>1. phase = "built"
    BY <1>6 DEF EndBlock, RunInv
  <2> QED
    BY <1>1, <1>2, <1>6, <2>1, RunEndsBlock
<1>7. CASE Revert
  <2>1. TheSwap' = TheSwap /\ ExchangeIndexes' = ExchangeIndexes
    BY <1>7, BuiltStays DEF Revert
  <2> QED
    BY <1>7, <2>1 DEF Revert, Running, RunInv, buildVars
<1>8. CASE UNCHANGED vars
  <2>1. UNCHANGED buildVars /\ UNCHANGED runVars
    BY <1>8 DEF vars
  <2>2. TheSwap' = TheSwap /\ ExchangeIndexes' = ExchangeIndexes /\ Share' = Share
    BY <2>1, BuiltStays DEF Share, buildVars
  <2>3. outcome = "running" => Expected(turn, stage, machine)' /\ (stage = 9 \/ Has(turn, Stages[stage]))'
    BY <2>1, BuiltStays DEF RunInv, runVars, Stages
  <2>4. OutputsSoFar => OutputsSoFar'
    BY <2>1, <2>2 DEF OutputsSoFar, InForm, LastBlockDone, buildVars, runVars
  <2> QED
    BY <2>1, <2>2, <2>3, <2>4 DEF RunInv, runVars, buildVars
<1> QED
  BY <1>3, <1>4, <1>5, <1>6, <1>7, <1>8 DEF Next, Run

\* What has been proved about builds holds while the bytecode runs.
LEMMA RunsAreBuilt == SwapSpec => []BuildFacts
<1>1. RunInit => Init
  BY DEF RunInit
<1>2. [Next]_vars => [Build]_buildVars
  BY DEF Next, Run, Start, Step, EndBlock, Revert, vars
<1>3. SwapSpec => Spec
  BY <1>1, <1>2, PTL DEF SwapSpec, Spec
<1> QED
  BY <1>3, TypeCorrect, LegsStandAsAnswered, PullsDecided, PTL DEF BuildFacts

\* At every stage of every block the funds are those that the stages before it,
\* each there or not, have left: the inductive invariant of the run.
THEOREM RunInvariant ==
    ASSUME \A r \in Routes : BoughtInOneSwap(r)
    PROVE  SwapSpec => [](BuildFacts /\ RunInv)
<1>1. RunInit => RunInv
  <2> SUFFICES ASSUME RunInit
               PROVE  RunInv
    OBVIOUS
  <2>1. BoughtInOneSwap(route) /\ TypeOK
    BY InitTypes DEF RunInit, Init
  <2>2. 1 \in ExchangeIndexes
    BY <2>1, SplitShape
  <2>3. Share \in Machines
    BY <2>1, ShareIsExpected DEF Expected
  <2> QED
    BY <2>2, <2>3 DEF RunInit, RunInv
<1>2. BuildFacts /\ RunInv /\ [Next]_vars => RunInv'
  BY RunInvStep
<1> QED
  BY <1>1, <1>2, RunsAreBuilt, PTL DEF SwapSpec

-----------------------------------------------------------------------------
(* The theorems. *)

\* Whatever is split and answered, a turn is that of an exchange of the route and
\* every variable of the run keeps its type.
THEOREM RunTypesCorrect ==
    ASSUME \A r \in Routes : BoughtInOneSwap(r)
    PROVE  SwapSpec => []RunTypeOK
<1>1. BuildFacts /\ RunInv => RunTypeOK
  BY StageNames DEF BuildFacts, RunInv, RunTypeOK, ExchangeIndexes
<1> QED
  BY <1>1, RunInvariant, PTL

\* All that the next step needs is there.
LEMMA RunningStepsGoOn ==
    ASSUME \A r \in Routes : BoughtInOneSwap(r), BuildFacts, RunInv, Running
    PROVE  FindsFunds(machine, Current) /\ IsGranted(machine, Current) /\ IsExact(machine, Current)
<1>1. BoughtInOneSwap(route) /\ Built
  BY BuildLeaves DEF BuildFacts, RunInv, Running, TypeOK
<1>2. turn \in ExchangeIndexes /\ stage \in 1..8 /\ Has(turn, Stages[stage])
      /\ Expected(turn, stage, machine)
  BY StageNames DEF RunInv, Running
<1> QED
  BY <1>1, <1>2, StepsGoOn DEF Current

\* Every step of every block finds its share, in the form it takes, in particular
\* the one withdrawal: the order of blocks puts a block that returns WETH last.
THEOREM StepsAlwaysFindFunds ==
    ASSUME \A r \in Routes : BoughtInOneSwap(r)
    PROVE  SwapSpec => []StepsFindFunds
<1>1. BuildFacts /\ RunInv => StepsFindFunds
  BY RunningStepsGoOn DEF StepsFindFunds
<1> QED
  BY <1>1, RunInvariant, PTL

\* An exchange that pulls its share has been granted it in its own block, whichever
\* of the two approvals that takes.
THEOREM PullsAlwaysGranted ==
    ASSUME \A r \in Routes : BoughtInOneSwap(r)
    PROVE  SwapSpec => []PullsAreGranted
<1>1. BuildFacts /\ RunInv => PullsAreGranted
  BY RunningStepsGoOn DEF PullsAreGranted
<1> QED
  BY <1>1, RunInvariant, PTL

\* A step that works on the threaded amount works on what is there: what a block
\* wraps or unwraps has been measured in the form it came in.
THEOREM AmountsAlwaysThreaded ==
    ASSUME \A r \in Routes : BoughtInOneSwap(r)
    PROVE  SwapSpec => []AmountsAreThreaded
<1>1. BuildFacts /\ RunInv => AmountsAreThreaded
  BY RunningStepsGoOn DEF AmountsAreThreaded
<1> QED
  BY <1>1, RunInvariant, PTL

\* When the bytecode has run, all outputs are on the executor and are the token that
\* it sends on, for any number of exchanges and any mix of forms.
THEOREM OutputsEndInForm ==
    ASSUME \A r \in Routes : BoughtInOneSwap(r)
    PROVE  SwapSpec => []OutputsAreInForm
<1>1. BuildFacts /\ RunInv => OutputsAreInForm
  BY DEF BuildFacts, RunInv, OutputsAreInForm, TypeOK, BoughtInOneSwap, TheSwap
<1> QED
  BY <1>1, RunInvariant, PTL
=============================================================================
