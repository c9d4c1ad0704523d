# velora-dex-lib in TLA+

The library turns a *price route* (how an amount is split over paths, swaps and
exchanges) into a transaction for the Augustus V6 contract. Generic builds also
produce *bytecode* for an on-chain executor contract that makes the swaps. The
library keeps almost no state; what is hard about it is that a build takes many
small local decisions (a flag, a recipient, a wrap here, an approval there) in
different phases and files, and that the funds arrive only if all of them agree,
for every answer of external DEX encoders and for both branches of every
revertable fallback group. State is shared in two places: the cache of the
approval checker, and the request, when concurrent builds are given the same cached
route. Source paths below are relative to `src/txbuilder/`.

## 1. Inventory

| Component | State it keeps | Operations | Correct when |
|---|---|---|---|
| Price routes, classification (`builder/types.go`, `executor_detector.go`) | the request | `DetectExecutor`, fences | a route goes only to an executor that implements its shape and side |
| Build (`builder/build.go`, `orchestration.go`, `approval.go`, `weth_provider.go`) | resolved legs, sums to wrap and unwrap, WETH plan, approval decisions | `BuildGeneric`: classify, one encoder call per leg, plan WETH, plan approvals | every pull has a decision; every branch finds the wrap and unwrap templates it needs |
| Normalisation, RFQ context (`builder/normalize.go`, `preprocess.go`) | writes into the request, clones of its options | addresses to lower case, slippage factor, options of a leg | sharing of the request does no harm |
| Approval checker (`approvals/checker.go`, `reader.go`) | an external cache shared by all processes | `Check`: deduplicate, look up, read the chain, store, reply | approvals are never invented, never lost |
| Executor01 (`executor/executor01.go`, `base.go`) | none; its output runs on chain | one block per swap, groups with fallbacks, trailer | the funds are where each step expects them and end on Augustus |
| Executor02 (`executor/executor02.go`) | maps of wraps and unwraps while it encodes | splits over exchanges and paths, groups inside and around them, root wrap and unwrap | as Executor01, for every share |
| Executor03 (`executor/executor03.go`, `base.go`) | none | a block per exchange of a one-swap BUY, reordered | all outputs stay on the executor in the form it sends on |
| Calldata helpers (`executor/base.go`, `hex.go`) | a search position | search for the amount to overwrite | the first slot that holds the amount is found |
| WETH executor, factory (`executor/weth.go`, `factory.go`) | none | constant bytecode | chosen exactly for routes that only wrap |
| Resolved layer (`resolved/`) | none | validation, order of legs, fees, value, ABI packing | each leg meets its exchange; the contract may take what the exchanges were told to take; packed fields do not overlap |
| Direct builds (`builder/direct_build.go`, `resolved/direct_*.go`) | none | one encoder call, one ABI packing | the user is charged as by a generic build |
| DEX registry (`dex/registry`) | a map built once | lookup | exact keys, no duplicates |

**Interactions.** `BuildGeneric` normalises the request in place, then calls a DEX
encoder for each leg (and asks it first for `NeedWrapNative`), then the WETH
provider, then the approval checker; all are interfaces. An error of any fails the
build. The result goes to the resolved layer, which selects an executor builder,
encodes its bytecode and packs the transaction. A caller may also hand legs of his
own to the resolved layer, or ask for a direct build, which has no bytecode. The
chain runs the bytecode later: the executor threads one amount (`fromAmount`) from
step to step, and *flags* say which balance is measured for the next step. A
revertable group runs a first block and, should that revert, a second one from the
same state; everything after the group is shared by both.

**What is hard.** (a) *Both branches of a group* must reach the same end state
although the encoders of the two answer independently. (b) *The native token*
travels as ETH or WETH, mid-route in whichever form the neighbours take; a WETH
plan may be dropped because two sums balance. (c) *Measuring*: an output that is
used later must have been measured in the form it came in; behind a split it is
the sum of several. (d) *Concurrency*: the checker's cache, and the request's slices
and options, which are behind pointers. (e) *Numbers*: truncating division when a
BUY is scaled; packed fields; the negation of zero; occurrences of a number that
overlap. (f) *Rules written twice*: the match of legs with the route, and what a
user is charged, are each coded in two layers.

## 2. Modules

| Module | Models | State and actions |
|---|---|---|
| `PriceRoutes` | routes, positions, legs, classification, fences | operators only |
| `TxBuilder` | `BuildGeneric` up to the bytecode | `phase`, `label`, `param` (one `DexExchangeBuildParam` per resolved leg), `deposits`, `withdraws`, `plan`; `Classify`, `ResolveLeg`, `PlanWeth`, `PlanApprovals`, `ServiceFails` |
| `ExecutorVM` | the executor contract as the builders use it (external) | a machine: which token is held, where, whether `fromAmount` is exact, whether a pull is granted |
| `ExchangeCalls` | what the bytecode builders share | the call of a built exchange and its flags |
| `Executor01` | a SELL along one path, with fallback groups | `hop`, `branch`, `stage`, `machine`, `saved`, `outcome`; `Start`, `Step`, `NextBlock`, `Finish`, `Revert` |
| `RouteFlow` | abstract: funds go along the route, once per swap, and are delivered, or all reverts | refined by `Executor01` |
| `Executor02` | a SELL that is split, over exchanges or paths | `code`, `pc`, `machine`, `rest` and `aside` (what splits have returned), `frames` (splits that run), `group`, `outcome`; `Start`, `Step`, `Split`, `Member`, `Yield`, `Join`, `EnterGroup`, `LeaveGroup`, `Revert`, `Finish` |
| `Executor03` | a BUY in one swap, split over exchanges | `turn`, `stage`, `machine`, `returned`, `outcome`; `Start`, `Step`, `EndBlock`, `Revert` |
| `Transaction` | amounts, value and the fee word of the resolved layer | `fee`, `tx`; `Encode`, `Report`, above all of `TxBuilder` |
| `ResolvedLegs` | how legs are matched with the route plan, twice | operators only |
| `EntryPoints` | the three ways to a transaction, above `Transaction` and `ResolvedLegs` | `entry`, `method`, `legs`, `told`, `step`; `AskDirectEncoder`, `EncodeDirect`, `RefuseDirect`, `Validate`, `Order`, `EncodeResolved` |
| `SharedRequest` | concurrent builds of one request | `cell` (the shared fields), `context` (options), and of each build `at`, `next`, `copy`, `resolved`; `Start`, `Read`, `Write`, `Call`, `Answer`, `Fail` |
| `AmountSearch` | the search for an amount inside calldata | `data`, `amount`, `start`, `negated`, `outcome`, `pos`; `Skip`, `Find`, `Negate`, `Miss` |
| `AllowanceChain` | allowances on chain (external), with what a check may observe | `ChainStep` |
| `ApprovalChecker` | `Check` of several processes over one cache | `cache`, `pc`, locals of each call; `Begin`, `LookUp`, `ReadChain`, `Store`, `Reply`, `Fail`, `Evict` |
| `ApprovalOracle` | abstract: what a check promises | refined by `ApprovalChecker` |
| `TxBuilderProofs`, `SharedRequestProofs`, `Executor01Proofs`, `Executor03Proofs`, `EntryPointsProofs` | | proofs about the module of that name; those of the last three use the theorems of `TxBuilderProofs` about the build that comes first |
| `Executor02Places`, `Executor02Proofs` | | proofs about `Executor02`: first where each part of its bytecode lies, what is held there and how a unit runs, then the run of the whole |
| `StandAloneProofs` | | proofs about `ApprovalChecker` and `AmountSearch`, which meet no other component |

`Executor01`, `Executor02`, `Executor03` and `Transaction` extend `TxBuilder`, so that
every run of bytecode starts from a build of the modelled code, not from an
invented plan.

**From code to model.** A leg is `<<position, branch>>` in the order of
`WalkRoutePlan`, a fallback right after its primary. The encoder's answer is a
record of the booleans that the library reads (`NeedWrapNative`,
`NeedUnwrapNative`, `DexFuncHasRecipient`, ...); calldata, addresses and offsets
are left out. `noInsert` stands for the two reasons why an amount is not inserted
(not found in the calldata, or a special dex). `Report` and `ServiceFails` stand for
every early return with an error.

The bytecode of a block of Executor01 and Executor03 is the list of stages in
encoding order, each there or not by the conditions of the code; the machine skips
those that are not there. That of Executor02 nests, and is a sequence of steps
that `Bytecode` builds as `BuildByteCode` does, from `RoutesCode` over paths, swaps
and exchanges to the unit of one exchange. A `split` remembers what there was;
each `member` starts from a share of it and `yield`s what it returns; `join` goes on
with what was returned in the measured token. `rest` and `aside` hold what was
returned besides, so that a share that is forgotten stays visible until the end. The
maps `wrapToSwapMap` and `unwrapToSwapMap` are functions of the position in the route
(`AppendsWrap`, `Withdraws`, `UnwrapsBefore`), with an empty map where the code passes
one, for fallbacks.

In `AmountSearch` calldata is a sequence of digits of a base, words and bytes have any
width, and the loop of `findAmountPosInCalldata` is the action `Skip`. A
`SharedRequest` field is read and written in two steps, as the code does without a
lock; what is written has the length of what was read, so a reader that overlaps
sees one spelling or the other.

**Assumed of the environment** (named in the modules):

* `WellFormed`: the side is SELL or BUY, quotes move something, a swap trades one
  token for another, the swaps of a path follow each other, a BUY allows at least
  its quote (`minMax >= srcAmount`), and a route does not come back to ETH.
* `Consistent`: an encoder's flags do not contradict each other (a pool holds one
  form of the native token, and one that answers `NeedUnwrapNative` does not trade
  ETH for WETH; ETH is not paid by an ERC20 transfer; output that the executor must
  wrap is delivered to it).
* `Compatible`: what is relied on between a primary and its fallback, in four parts
  that each run switches on with the constant `Assumed`: `midRoute`, `rawFinal`,
  `measuredFinal`, `measuredSource`. The code checks none of them.
* `Relied` of `Executor02`: what is relied on besides, in the routes that it gets, in
  eight parts (section 5). The code checks none of them.
* Configuration is complete (executor addresses, ABI); the executor contract does
  what `ExecutorVM` says of each flag. A balance that is measured is all there is of
  the token, and a split inserts each member's share of it. In particular
  Executor03's one withdrawal is taken to start from the threaded output of the
  last block and to unwrap what all exchanges have returned.
* `TransactionAssumption`: paths, swaps and exchanges are lists (`IsRoutePlan`); the
  exchanges of the first swaps share what the route sells, and a fallback is quoted
  at the slice of its exchange (`SharesAddUp`); fees are at most 10000 basis points.

## 3. Runs

The runs say `CHECK_DEADLOCK FALSE` because what they model comes to its end: a build
in `built` or `failed`, bytecode in `done` or `reverted`, a search where it has
found or missed, a checker's process when it calls no more.

| Run | Bounds | Checks | Shows |
|---|---|---|---|
| `MCApprovalChecker` | 2 callers, 1 network, 3 allowances of which one of ETH, lists with duplicate spellings, allowances 0..1 | `TypeOK`, `NoLostApproval`, `ImplementsOracle` | an interleaving with another check, a moving chain, eviction and failing calls loses no approval; the checker refines the oracle |
| `MCApprovalCheckerNetworks` | 2 callers on 2 networks, 2 allowances of which one cannot be encoded | `NoInventedApproval`, `CallsReturn` | no answer from another network or from nothing; every call returns |
| `MCTxBuilder` | one-swap routes on both sides, two-swap routes split before or behind ETH/WETH, two paths, unsupported shapes; with and without fallbacks that pay more | `TypeOK`, `PullsAreDecided`, `PlanCoversBranches` | the plan of phases agrees with what legs need, also where the sums balance |
| `MCSharedRequest` | 3 builds (symmetric) of a route of two swaps through ETH, each with a fallback, every field in either spelling | `TypeOK`, `RouteIsNormalized`, `LegsAreOfTheRoute`, `EncodersSeeTheirLeg` | builds that normalise, copy and fail in any order work on the caller's route and on their own options |
| `MCExecutor01` | one swap with every consistent answer; two swaps with fallbacks that pay the same or more; three swaps with at most one fallback; the native token in either form at any point or nowhere | `RunTypeOK`, `StepsFindFunds`, `PullsAreGranted`, `AmountsAreThreaded`, `FundsAreDelivered`, `ImplementsRouteFlow` | whichever branches run, the bytecode implements the flow along the route and delivers |
| `MCExecutor02` | one swap split in halves or thirds; two swaps of which one or both are split; two paths, one of two swaps and one of one, in either order, or both of two swaps with a split between them; at most one fallback, at any point | `RunTypeOK`, `StepsFindFunds`, `PullsAreGranted`, `AmountsAreThreaded`, `FundsAreDelivered` | every share finds its funds and all outputs are delivered, for what is `Relied` on |
| `MCExecutor03` | BUYs over one or two exchanges of any mix of forms and flags, and over three where ETH is an end | `RunTypeOK`, `StepsFindFunds`, `PullsAreGranted`, `AmountsAreThreaded`, `OutputsAreInForm` | the order of blocks serves the one withdrawal |
| `MCEntryPoints` | 7 units over one to three exchanges of either side, scaled to 8 or 11; fees 0, 1, 8192 and 10000, partner address all ones; every direct method; lists of up to four legs, in any order, twice, missing, foreign, nested or malformed | `EntryTypeOK`, `SharesAreCovered`, `FeesReadBack`, `DirectIsChargedAlike`, `LegsMeetTheirExchange` | rounding never asks for more than the user allows; no field of the fee word spills; two entry points charge alike; legs meet their exchange or are refused |
| `MCAmountSearch` | base 2, bytes of 2 and words of 4 digits, all calldata of a selector and up to two words, all amounts and one that is too wide | `SearchTypeOK`, `FindsTheFirstSlot`, `MissesOnlyWhatIsNotThere`, `SearchEnds` | the loop computes its reference definition, whatever occurrences overlap |

Three more runs are expected to be violated: section 5.

Why these bounds are enough. Conditions of Executor01 look at an exchange, its own
fallback, the swap before and the one after, and whether it is first or last; three
swaps show every such neighbourhood. Those of Executor02 look also at the other
exchanges of the swap and at the other paths, by "some", "all" and "the last" of
them: two exchanges tell these apart, three where order matters, and a path beside
another has either all or a part of what the root asks. Two fallbacks in one
route are left out there: groups do not nest, and a group's summary reads only
primaries besides its own fallback. Three flags of an answer (`skipApproval`,
`ethInsert`, `noInsert`) concern one exchange at a time: `MCExecutor01` has them all
for one swap and `MCExecutor03` throughout; `FocusedSpec` leaves them out of longer
routes, together with `transferSrc`. Amounts matter to a build only through equality
of two sums, for which quotes of 1 and 2 suffice. The checker's calls meet only through
the cache, so that two show every interference; two builds suffice likewise
for the request, and the third shows that nothing depends on it. Digits of any base
overlap as those of base 2 do, and more often; two words show a slot behind a
slot, and an occurrence across them.

`MCInit` of `MCEntryPoints` brings legs for few of the routes and fees: they are
matched by position only.

**Fairness.** There are two liveness properties. `CallsReturn` assumes weak fairness of
each call's next step: `Check` is synchronous code in a goroutine that the Go
scheduler runs, and its context bounds the calls it makes, each of which may
fail. Nothing is assumed of the chain, of eviction, or that anyone calls.
`SearchEnds` assumes `WF_searchVars(SearchNext)`: the search is a loop that nothing interrupts,
and the property is that it makes progress. Builds and bytecode are straight-line
code, for which termination shows nothing.

## 4. Proofs

`tlapm` checks these for all values of the constants, under the named assumptions
of the modules (`TokenAssumption`, `BuilderAssumption`, `TransactionAssumption`,
`CheckerAssumption`, `SharedAssumption`, `SearchAssumption` and the one of
`AllowanceChain`). A theorem that needs more says so in its `ASSUME`: those of
`Executor01Proofs` take routes along one path and all four parts of `Compatible`
(`ReliedOn`, what `MCExecutor01` switches on), those of `Executor03Proofs` routes
bought in one swap without fallbacks (`BoughtInOneSwap`, the routes that Executor03
accepts and `MCExecutor03` runs), and those of `Executor02Proofs` routes whose paths
lead from the source to the destination (`SoldOverPaths`); of the latter, three also take
`midRoute` and all parts of `Relied` (`Parts`), which is what `MCExecutor02` switches
on. All three MC modules assert of the routes of their run that they are such.

| Theorem | States | Argument |
|---|---|---|
| `StandAloneProofs!TypeCorrect` | `Spec => []TypeOK` | inductive as it stands |
| `AnswersSound` | `[]NoInventedApproval` | `Sound`: everything in the cache, in `approvedBy` and in `fresh` has been granted on that network; the property alone says nothing of the cache, so it is not inductive |
| `AnswersComplete` | `[]NoLostApproval` | `Complete`: at "reply" and "store", each key owed an approval is in `approvedBy`; it needs that what is stable during a call is allowed now |
| `CheckerImplementsOracle` | `Spec => ImplementsOracle` | step simulation: `Reply` is the oracle's `Answer`, whose truthfulness the two invariants give; `LookUp` and `Store` stutter; `ReadChain` may be `ReadFails` |
| `TxBuilderProofs!TypeCorrect` | `Spec => []TypeOK` | a fallback finds its primary resolved, because it comes right after it in the order of legs |
| `PullsDecided` | `[]PullsAreDecided` | what pulls is requested, by `Consistent`; `PlanApprovals` decides on all that is requested |
| `PlanCovers` | `[]PlanCoversBranches` | `PlanInv`, below |
| `LegsStandAsAnswered` | `[]BuildInv` | what a build has done to each leg it has resolved, and to the plan: the link from builds to the bytecode encoded from them |
| `Executor01Proofs!RunTypesCorrect`, `StepsAlwaysFindFunds`, `PullsAlwaysGranted`, `AmountsAlwaysThreaded`, `FundsAlwaysDelivered` | `[]RunTypeOK`, `[]StepsFindFunds`, `[]PullsAreGranted`, `[]AmountsAreThreaded`, `[]FundsAreDelivered`, for any number of swaps, with or without fallbacks | `RunInv`, below |
| `BytecodeImplementsFlow` | `SwapSpec => ImplementsRouteFlow` | step simulation under `RunInv`: the call of a hop is the swap, a block's other steps convert or stutter, `Finish` settles, `Revert` of a lone exchange reverts all |
| `Executor02Proofs!RunInvariant` | `SwapSpec => [](BuildFacts /\ RunInv)`: a run is at a place of its bytecode, holding what is expected there | below |
| `RunTypesCorrect`, `PullsAlwaysGranted` | `[]RunTypeOK`, `[]PullsAreGranted`, for any number of paths, swaps and exchanges, whatever is relied on | the parts of `RunInv` that do not depend on `Relied` |
| `StepsAlwaysFindFunds`, `AmountsAlwaysThreaded`, `FundsAlwaysDelivered` | `[]StepsFindFunds`, `[]AmountsAreThreaded`, `[]FundsAreDelivered`, for what is `Relied` on | `RunInv` |
| `Executor03Proofs!RunTypesCorrect`, `StepsAlwaysFindFunds`, `PullsAlwaysGranted`, `AmountsAlwaysThreaded`, `OutputsEndInForm` | the same four, and `[]OutputsAreInForm`, for any number of exchanges | `RunInv`, below |
| `EntryPointsProofs!EntryTypesCorrect`, `SharesAlwaysCovered`, `FeesAlwaysReadBack`, `DirectChargedAlike`, `LegsAlwaysMeet` | `[]EntryTypeOK`, `[]SharesAreCovered`, `[]FeesReadBack`, `[]DirectIsChargedAlike`, `[]LegsMeetTheirExchange` | `EntryInv` and three facts about sums, bits and places, below |
| `SharedRequestProofs!BuildsAreTyped`, `RouteNormalized`, `LegsOfTheRoute`, `EncodersSeeTheirs` | `[]TypeOK`, `[]RouteIsNormalized`, `[]LegsAreOfTheRoute`, `[]EncodersSeeTheirLeg`, for any number of builds and any route | `IInv`, below |
| `StandAloneProofs!SearchIsTyped`, `SearchFindsTheFirstSlot`, `SearchMissesNothing` | `[]SearchTypeOK`, `[]FindsTheFirstSlot`, `[]MissesOnlyWhatIsNotThere`, for words of any width and calldata of any length | `NoneBehind`: no slot begins before `start`, nor anywhere once the negated amount is looked for; `Aligned` is the same as being an index of a slot, by arithmetic of remainders |
| `EntryPointsProofs!LayersAgree` | `Validates(r, legs) <=> CanBeOrdered(r, legs)` for well-formed legs | counting: legs without duplicates have as many keys as there are legs, and a subset of a finite set that is as large is all of it |
| `NoLegIsMissing` | the last check of `validateBuildInput` cannot fail | the same counting |

`PlanCoversBranches` speaks of the end of a build and is not inductive. `PlanInv`
says that the sums are positive exactly if some resolved leg needs a deposit
(withdrawal), that fallbacks take their primaries' form where a route passes
through ETH, and that a plan, once there, covers. A template can only be missing if
the plan was dropped with equal, positive sums; then both a deposit and a withdrawal
exist, the route is not mixed, and on a single path every exchange that touches
the native token works in WETH, so each hand-over is WETH to WETH. The theorem
assumes `"midRoute" \in Assumed` and routes of a single path (`SinglePath`).
Both are needed. Take two paths through ETH. On the first, 1 unit, both
primaries work in raw ETH and the fallback of the first swap returns WETH; on
the second, 2 units, every exchange works in WETH and the second swap has a
fallback. Mid-route every leg to ETH counts as a withdrawal, so 1 + 1 + 2 units are
to be unwrapped and 2 + 2 wrapped. The sums, which are route-wide, balance; no
path is mixed, which is tested path by path; the plan is dropped and the fallback
on the first path does not find its withdrawal.

The properties of `SharedRequest` speak of what encoders have been called with, and
do not say why. `IInv` has a part for what is shared (`CellsOK`: a field's spelling
may change, its token never does) and four for each build. `Passed`: all fields that
the build has been past are in lower case, which stays so because no build writes
anything else. `OnLeg` and `Answered`: the copy that a leg works on and the options
that its encoder reads are its own. `InOrder`: legs are resolved in their order.
The last one is what makes the others inductive, because a fallback does not copy
its swap again but takes the copy of the leg before: that is its primary's only
since the two follow each other. A lemma (`OneBuildSteps`) reduces each step to the
build that makes it; the cells that it lowers keep everybody else's parts.

**The bytecode of Executor01.** None of the run's properties is inductive: that a
step finds its funds says nothing of the step after it. `RunInv` says which funds are
where at *every* stage of every block. `Expected` gives them as a function of the
hop, the branch and the stage: before the call, the form is that of the hand-over,
changed by whichever of `deposit` and `unwrapSrc` lie behind; after it, the form the
pool returns, changed by `wrapDest` and `withdraw`; each step moves or measures as its
flag says. `BuildFacts` (types, `BuildInv`, decided pulls, covered branches, all
theorems about builds) is turned by `BuildLeaves` into local facts about the legs of a
hop and its neighbours; from then on nothing looks at a build again. Three groups of lemmas
then do the work: a stage that is there finds what `Expected` says and leaves what
`Expected` says of the next; a stage that is not there leaves `Expected` as it was;
and at the end of a block both branches leave what the next block starts from
(`StartForm`), or what the trailer takes. The last group is the agreement of the two
branches of a revertable group: its cases are where `midRoute`, `rawFinal`, `measuredFinal`
and `measuredSource` are used. What was saved at the start of a group is what its
fallback starts from. There is no induction over the path: a block refers to its
neighbours only, so a run steps from hop to hop.

**The bytecode of Executor02.** It is not a fixed list of stages but a sequence put together
from sequences: steps of a unit, a group around two units, wraps, members of a split of
exchanges, swaps, members of a split of paths, and what the root adds. The proof has two
halves.

`Executor02Places` describes the bytecode by positions. A flattened row of parts has
offsets (`IsOffsets`, `PrefixesOf`), each part lies behind those before it (`Lies`), and so down
from `RootAt` over `PathAt`, `SwapAt` and `ExAt` to `UnitAt` and the place of each stage that a
unit has (`StageAt`). Offsets are a `CHOOSE` over functions that add up lengths, and the first
lemmas show that there is one for every row. For each position it then says what is held
when the step there is next: `AtPath`, `BeforeSwap`, `BeforeExchange`, `BeforeInput`,
`BeforeStage`, `BeforeOutput`, `BehindExchange`, `AtJoin`, `BehindBare`, `BehindPath`,
`AtRootJoin`, `BeforeSend`, `AtEnd`. Besides the machine such a place names the frames
of the splits that run, what their earlier members have returned (`rest`, `aside`), what has been
left aside outside of them, and in a group what was saved. `Located` says that a run is at one of
them. The part after that is about forms: from
`BuildFacts` (theorems of `TxBuilderProofs` that hold for any number of paths, because they are
about legs and not about sums) and from what is relied on it shows that what one swap leaves is
what the next takes. The last part is about steps. Each kind of step is written as a
relation between two states (`Works`, `Splits`, `Takes`, `Yields`, `Joins`, `Enters`, `Leaves`, `Falls`);
a place is `Served` if the step there finds what it takes and every outcome of it leads to
a place again; and a unit is shown to run from stage to stage (`StageFunds`).

`Executor02Proofs` runs the whole bytecode. Places are shown to be served from the inside out: the
end of a unit (`BlockLeaves`), the steps that a group puts before and behind
a fallback (`InputLeads`, `OutputLeads`), then exchanges, swaps, paths and the root. The actions
are shown to be the steps above, and `RunInv` is `Located` of the state while it runs, with
everything delivered once it is done. The clauses about funds are there under `Sound`, that is
if all of `Relied` and `midRoute` hold; those about types, positions and grants are there always.
Hence two of the five theorems need no more than the shape of the routes.

None of the properties is inductive, as for Executor01. There is no induction over paths, swaps
or exchanges: a place refers to what came before it only through what `rest`
may hold there, so that a run steps from neighbour to neighbour. Where a whole row
matters (does any exchange before this one wrap?), the least or the last one is taken, which exists
by well-foundedness.

`RunInv` itself is not an invariant of a run here, because TLC cannot evaluate the choice of the
offsets, and a `.cfg` of this project replaces no definition. Before it was proved, TLC was given a
module that computes the places from the lengths of the parts, put in for `PathAt` to `StageOf` by
its `.cfg`: `Located` held in every state of the routes of `MCExecutor02`, for answers without
`transferSrc`. What it implies, the five properties, `MCExecutor02` checks.
Two attempts to prove a step failed for a good reason and are in section 5: `unwrapsOnce`, and
the routes that `SoldOverPaths` leaves out.

**The bytecode of Executor03.** Blocks run in an order of their own. `Ordered` is
given by ranks, a permutation because of two exchanges exactly one comes before the
other (`OrderIsPermutation`). If any exchange works in WETH the last one does
(`LastWrapsIfAny`), so the one withdrawal comes behind a block that has left WETH, and
that is all that `Expected` needs to know of the order. `RunInv` has the funds of the
running block, and what the blocks before it have returned: ETH from raw exchanges, WETH
from wrapping ones until the withdrawal, each measured.

**Entry points.** `SharesAreCovered` compares sums over sets of exchanges. A sum is a
function on the subsets of the exchanges (`AddsUp`) that unfolds at an element of its choice;
that any other element could be taken first (`SumTakesAny`), and that truncated
shares of a sum are within the truncated sum (`ScaledSum`), are shown on a least set for
which they fail, which well-foundedness of inclusion among finite sets gives
(`LeastSet`). This is how the proofs do induction: the library's theorems that take a
predicate cannot be used here. `FeesReadBack` reads a sum of powers of two over
the bits of a word. The fourteen bits of a percentage are unfolded one by one
(`BitsSum`), a number below 2^14 is the sum of its bits (`NumberOfBits`), and flags,
address and percentage lie at disjoint bits. `LegsMeetTheirExchange` needs that the places of
exchanges in the route plan are 1 to their number, each once (`PlacesAreFilled`): the
order is total, so places differ, and a set of as many numbers is all of them. With
`LayersAgree`, each place then has its leg. `EntryInv` ties these facts, each
about one step, to the phases of the three ways, and `DirectIsChargedAlike` to what
the encoder was told.

**Only model-checked.** The two liveness properties, `CallsReturn` and `SearchEnds`: liveness
under fairness is out of reach of TLAPS. Every other property of a passing run is stated
by a theorem. What the bytecode theorems assume of routes and of answers (`Consistent`,
`Compatible`, `Relied`, `SoldOverPaths`) is assumed in the runs too. The three runs of
section 5 are counterexamples and remain so.

## 5. Where the code disagrees with itself

Three runs are expected to be violated. Each turns one assumption off.

* `MCExecutor01RawFinal`: a route ends in ETH. Its primary returns raw ETH and
  delivers by itself; its fallback returns raw ETH and honours the recipient, which
  for fallbacks to ETH is always the executor (`builder/orchestration.go:163`).
  Only wrapping fallbacks send on inside the group, and the route-level send is
  absent: if the fallback runs, the ETH stays on the executor.
* `MCTxBuilderMixedForms`: without `midRoute`, the mixed-form test
  (`builder/orchestration.go:246`) sees primaries only while the sums count
  fallbacks, so that a plan is dropped that a wrapping fallback needs.
* `MCExecutor02SharedUnwrap`: one swap to ETH, split over two pools of WETH. The
  second unwraps for both, and has a raw fallback. If it reverts, the block of the
  fallback gets a native send for its own ETH (`executor/executor02.go:838`); the
  WETH of the first is never unwrapped and stays on the executor. The comment at
  `executor/executor02.go:45-47` asks that both blocks end in the same place.

**What else is relied on.** Parts of `Assumed` and `Relied` that no run turns off can
be turned off by hand: remove the part from the `.cfg`, and TLC shows why it is
there. An encoder may never answer so; nothing in the library says it cannot.

| Part | Line | Without it |
|---|---|---|
| `measuredSource` (`MCExecutor01`) | `executor/executor01.go:285` | one swap from ETH, the primary names no recipient, the fallback does and is redirected; the forward behind the group transfers an amount that was never measured (`AmountsAreThreaded`) |
| `measuredFinal` (`MCExecutor01`) | `executor/executor01.go:361` | on the last hop to ETH of a longer route, a raw fallback that names a recipient, which is the executor, is not measured behind a wrapping primary; the send behind the group is of the old amount (`AmountsAreThreaded`) |
| `keepsWeth` (`MCExecutor02`) | `executor/executor02.go:1181` | a swap unwraps mid-route although all exchanges of the next take WETH (`StepsFindFunds`) |
| `unwrapsOnce` | `executor/executor02.go:1181`, `1402` | a split swap on one of two paths unwraps for a next that takes ETH, and a wrap is appended behind it all the same; the next finds `unwrapToSwapMap` set, does not unwrap, and has WETH (`StepsFindFunds`) |
| `groupEth` | `executor/executor02.go:899` | the balance behind a group is checked in WETH, its unit has unwrapped (`AmountsAreThreaded`) |
| `rawFirst` | `executor/executor02.go:1186` | the last wrapping exchange sends all there is; one behind it that returns raw ETH is not sent on (`FundsAreDelivered`) |
| `sharedUnwrap` | `executor/executor02.go:838` | the run above |
| `seenUnwrap` | `executor/executor02.go:706` | a fallback is built with an empty map and unwraps again (`StepsFindFunds`) |
| `measuredFallback` | `executor/executor02.go:824` | steps added behind a fallback use an amount that it did not measure (`AmountsAreThreaded`) |

The eighth part, `rootUnwraps`, is cautious rather than a claim about the code: it
leaves out fallbacks on a last swap that unwrap or send for themselves where the
root does it for all.

`SoldOverPaths` leaves out routes to ETH on which a swap is sold WETH. With several
paths one exchange may leave its WETH for the root to unwrap; the balance of WETH that
a swap of another path checks (`executor/executor02.go:459`) is all the executor has of it, so
that this is carried along, and the root finds none. TLC shows it (`StepsFindFunds`) for a path
from USDC to ETH beside one over WETH and DAI.

Executor03 ignores fallbacks, but their contribution to the WETH plan stays: a BUY
to ETH with a raw primary and a wrapping fallback gets a withdrawal with no WETH to
withdraw (`executor/executor03.go:417`). The routes of `MCExecutor03` leave
fallbacks out; with them TLC violates `StepsFindFunds`.

`src/README.md:49-53` and `builder/types.go:128-132` say that fallbacks are ignored by
the builder. They are not: `MCExecutor01` and `MCExecutor02` run them. The approval
that is prepended to a fallback's block (`executor/executor02.go:743-760`) is
redundant: its comment says that the unit skips the approval of WETH, and the unit
makes it.

## 6. Not modelled, and why

* Byte-level work: ABI packing, hex, offsets, UUIDs, permits, selectors, metadata.
  Formats, not control. Of the format of a field in the resolved input the model
  knows whether it is right.
* `resolved/direct_calldata.go`, the coercion of JSON parameters to ABI types: it
  succeeds or not.
* The slippage factor that an RFQ encoder is given: decimal formatting of a quotient.
* The registry: a map that is built once, and refuses a key that is there twice.
* In `Executor02`: a WETH address other than the wrapped native token,
  `returnAmountPos`, and the dexes that are special by name. The percent of a
  partial wrap at the root is there in the code but nothing takes that branch.
* In `Executor03`: positions inside calldata; where the two amounts of an exchange
  are equal, both are found at the same place. What the arguments of a call mean is
  not known to `AmountSearch` either: an earlier argument that happens to be equal
  to the amount is taken for it.
* What DEX encoders compute: external, a free choice within `Consistent`.

Three oddities that the models keep as they are: a direct build compares its side
with the method's only after the encoder was called; one that fills several quotes
tells the encoder the amount of the first, while the value is the route's; the
fee bit that skips the blacklist can only be set through the resolved layer.

## 7. Plan

Done, in this order because the most fragile behaviour comes first: the approval
checker with oracle and proofs; `TxBuilder` with proofs; `Executor01` with
`RouteFlow`; `Executor03`; `Transaction`; `Executor02`; `ResolvedLegs` and
`EntryPoints`; `SharedRequest` with proofs; `AmountSearch` with proofs.

Then the proofs: the runs of `Executor03` and of `Executor01`, the refinement of `RouteFlow`,
all of `EntryPoints`, and the runs of `Executor02`.

What could come next:

1. Two fallbacks in one route in the runs of `Executor02`; its theorems have any number.
2. An abstract flow for split routes, as `RouteFlow` is for one path, implemented by
   `Executor02`.
3. The coercion of direct parameters, if a hazard is found there.
