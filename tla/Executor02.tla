----------------------------- MODULE Executor02 -----------------------------
(***************************************************************************)
(* Executor02: the bytecode of a SELL that is split, over the exchanges of *)
(* a swap or over paths, and what becomes of the funds when it runs.       *)
(*                                                                         *)
(* The bytecode is a sequence of steps.  The unit of an exchange is its    *)
(* call and the steps around it; the members of a split, units or paths,   *)
(* each take a share of what the split is given; a unit with a fallback is *)
(* a group of two blocks: the contract runs the first and, if it reverts,  *)
(* the second from the state before the group.                             *)
(***************************************************************************)
EXTENDS ExchangeCalls, SequencesExt, FiniteSets

CONSTANT Relied    \* what is relied on in the routes that it gets, see Holds

VARIABLES
    code,      \* the bytecode
    pc,        \* index of the step that runs
    machine,   \* the funds that the step works on
    rest,      \* what a split has returned besides them
    aside,     \* what earlier members of the split that runs have returned
    frames,    \* the splits that run, outermost first: what each was given
    group,     \* the group that runs
    outcome    \* "building", "running", "done" or "reverted"

runVars == <<code, pc, machine, rest, aside, frames, group, outcome>>
vars == <<buildVars, runVars>>

-----------------------------------------------------------------------------
\* The routes that Executor02 is for, as far as it serves them: every path leads from
\* the source to the destination, and on the way to ETH no swap is sold WETH.
SoldOverPaths(r) ==
    /\ IsRoutePlan(r) /\ Len(r.paths) > 0
    /\ \A i \in DOMAIN r.paths :
        LET swaps == r.paths[i].swaps IN
        /\ Len(swaps) > 0 /\ swaps[1].src = r.src /\ swaps[Len(swaps)].dest = r.dest
        /\ \A j \in DOMAIN swaps :
            /\ Len(swaps[j].exchanges) > 0 /\ {swaps[j].src, swaps[j].dest} \subseteq Tokens
            /\ r.dest = ETH => swaps[j].src # WETH

-----------------------------------------------------------------------------
(* What is asked of the exchanges of a swap, given all params P. *)

Primaries == [pos \in Positions(route) |-> param[<<pos, "primary">>]]
Substituted(pos) == [Primaries EXCEPT ![pos] = param[<<pos, "fallback">>]]
HasFallback(pos) == <<pos, "fallback">> \in DOMAIN param

OfSwap(i, j) == {pos \in Positions(route) : pos[1] = i /\ pos[2] = j}
LastSwap(i) == Len(route.paths[i].swaps)
Several == IsMultiSwap(route) \/ IsMegaSwap(route)
IsSplit(pos) == Cardinality(OfSwap(pos[1], pos[2])) > 1
VerticalBranching(pos) == Several /\ IsSplit(pos)

\* No exchange at all counts neither way.
AnyWraps(P, i, j) == \E pos \in OfSwap(i, j) : P[pos].answer.wrap
AnyRaw(P, i, j) == \E pos \in OfSwap(i, j) : ~P[pos].answer.wrap
EachWraps(P, i, j) == AnyWraps(P, i, j) /\ ~AnyRaw(P, i, j)
EachRaw(P, i, j) == AnyRaw(P, i, j) /\ ~AnyWraps(P, i, j)

LastWrapping(P, pos) ==
    /\ P[pos].answer.wrap
    /\ \A q \in OfSwap(pos[1], pos[2]) : q[3] > pos[3] => ~P[q].answer.wrap

RootWraps(P) ==
    route.src = ETH /\ \A i \in DOMAIN route.paths : EachWraps(P, i, 1)
RootUnwraps(P) ==
    route.dest = ETH /\ \E i \in DOMAIN route.paths : AnyWraps(P, i, LastSwap(i))

NeedWrapEth == "deposit" \in plan /\ route.src = ETH
NeedUnwrapEth == "withdraw" \in plan /\ route.dest = ETH

-----------------------------------------------------------------------------
(* Wrapping and unwrapping between swaps (wrapToSwapMap, unwrapToSwapMap). *)

\* What a swap returns in ETH is wrapped behind it.
AppendsWrap(i, j) ==
    /\ AnyRaw(Primaries, i, j) /\ "deposit" \in plan
    /\ j < LastSwap(i) /\ route.paths[i].swaps[j].dest = ETH

\* Mutant: the wrap that is added behind the swap before is not looked at.
DepositsBesideWrap(P, pos) ==
    LET prev == pos[2] - 1 IN
    /\ P[pos].answer.wrap /\ Swap(route, pos).src = ETH /\ "deposit" \in plan
    /\ ~RootWraps(P)
    /\ prev > 0 => AnyRaw(P, pos[1], prev)

\* An exchange wraps for itself what nobody has wrapped before it.
Deposits(P, pos) ==
    LET prev == pos[2] - 1 IN
    /\ P[pos].answer.wrap /\ Swap(route, pos).src = ETH /\ "deposit" \in plan
    /\ ~RootWraps(P)
    /\ ~AppendsWrap(pos[1], prev)
    /\ prev > 0 => AnyRaw(P, pos[1], prev)

\* The last wrapping exchange of a swap would unwrap for all of them.
UnwrapsForSwap(P, pos) ==
    /\ LastWrapping(P, pos) /\ Swap(route, pos).dest = ETH /\ "withdraw" \in plan
    /\ VerticalBranching(pos) => AnyRaw(P, pos[1], pos[2])

Withdraws(P, pos) ==
    LET next == pos[2] + 1 IN
    /\ UnwrapsForSwap(P, pos)
    /\ Several =>
        IF IsLastSwap(route, pos) THEN ~RootUnwraps(P)
        ELSE EachWraps(P, pos[1], next) \/ EachRaw(P, pos[1], next)

\* A fallback is built with maps of its own: it does not see that the swap before
\* it was unwrapped.
UnwrapsBefore(P, pos, b) ==
    LET prev == pos[2] - 1 IN
    /\ ~P[pos].answer.wrap /\ Swap(route, pos).src = ETH /\ "withdraw" \in plan
    /\ b = "fallback" \/ \A q \in OfSwap(pos[1], prev) : ~Withdraws(Primaries, q)
    /\ AppendsWrap(pos[1], prev) \/ EachWraps(P, pos[1], prev)

-----------------------------------------------------------------------------
(* The unit of an exchange. *)

If(condition, steps) == IF condition THEN steps ELSE <<>>

\* Outputs are measured where nothing around the unit does it.
Keeps(P, pos) ==
    \/ ~P[pos].answer.hasRecipient
    \/ UnwrapsForSwap(P, pos)
    \/ ~IsLastSwap(route, pos) /\ ~VerticalBranching(pos)

DexFlag(P, pos) ==
    LET swap == Swap(route, pos)
        a == P[pos].answer
    IN  IF Several THEN MultiFlag(swap, a, Keeps(P, pos))
        ELSE SingleFlag(swap, a, ~a.hasRecipient \/ swap.dest = ETH)

\* Mutant: WETH is approved by an exchange that wraps for itself only.
ApprovesWethWithDeposit(P, pos) ==
    P[pos].answer.wrap /\ Swap(route, pos).src = ETH /\ MayApprove(P[pos]) /\ Deposits(P, pos)

ApprovesWeth(P, pos) ==
    P[pos].answer.wrap /\ Swap(route, pos).src = ETH /\ MayApprove(P[pos])

Stages == <<"unwrapBefore", "approveWeth", "deposit", "approve", "transferSrc", "unwrapSrc",
            "dex", "wrapDest", "withdraw", "forward", "sendNative">>

UnitHas(P, pos, b, s) ==
    LET a == P[pos].answer
        swap == Swap(route, pos)
        keepsLast == IsLastSwap(route, pos) /\ ~a.hasRecipient
    IN
    CASE s = "unwrapBefore" -> UnwrapsBefore(P, pos, b)
      [] s = "approveWeth" -> ApprovesWeth(P, pos)
      [] s = "deposit" -> Deposits(P, pos)
      [] s = "approve" -> swap.src # ETH /\ MayApprove(P[pos])
      [] s = "transferSrc" -> a.transferSrc
      [] s = "unwrapSrc" -> UnwrapsSrc(swap, a)
      [] s = "dex" -> TRUE
      [] s = "wrapDest" -> WrapsDest(swap, a)
      [] s = "withdraw" -> Withdraws(P, pos)
      [] s = "forward" -> keepsLast /\ swap.dest # ETH /\ swap.dest = route.dest
      [] s = "sendNative" ->
            \/ ~Several /\ Withdraws(P, pos)
            \/ keepsLast /\ swap.dest = ETH /\ ~RootUnwraps(P)

UnitStep(P, pos, s) ==
    LET swap == Swap(route, pos) IN
    CASE s \in {"approveWeth", "approve"} -> ApproveStep
      [] s \in {"deposit", "wrapDest"} -> WrapStep
      [] s \in {"unwrapBefore", "unwrapSrc", "withdraw"} -> UnwrapStep
      [] s = "transferSrc" -> TransferSrcStep(swap)
      [] s = "dex" -> CallOf(swap, P[pos], DexFlag(P, pos))
      [] s = "forward" -> TransferStep(route.dest, "augustus")
      [] s = "sendNative" -> SendNativeStep

Unit(P, pos, b) ==
    FlattenSeq([n \in DOMAIN Stages |->
        If(UnitHas(P, pos, b, Stages[n]), <<UnitStep(P, pos, Stages[n])>>)])

-----------------------------------------------------------------------------
(* The group of an exchange and its fallback. *)

\* A wrap outside of the first block persists when that block reverts; an
\* exchange that takes ETH leaves none to a fallback that takes WETH.
InputSteps(pos) ==
    LET P == Primaries
        F == Substituted(pos)
        approve == If(F[pos].approve = "data" /\ ~F[pos].answer.skipApproval, <<ApproveStep>>)
        fromEth == Swap(route, pos).src = ETH
    IN
    If(fromEth /\ P[pos].answer.wrap /\ ~Deposits(P, pos),
       IF F[pos].answer.wrap THEN approve ELSE <<UnwrapStep>>)
    \o If(fromEth /\ ~P[pos].answer.wrap /\ F[pos].answer.wrap
              /\ "deposit" \in plan /\ ~Deposits(F, pos),
          approve \o <<WrapStep>>)

\* Mutant: a fallback that names a recipient is taken to deliver.
EthDestOutcomeOfAny(P, pos, b) ==
    CASE UnitHas(P, pos, b, "sendNative") -> "sent"
      [] OTHER -> IF P[pos].answer.wrap
                  THEN IF Withdraws(P, pos) THEN "eth" ELSE "weth"
                  ELSE IF P[pos].answer.hasRecipient THEN "sent" ELSE "eth"

\* Where a unit leaves the output of a last swap to ETH (branchEthDestOutcome);
\* only a primary is built to deliver.
EthDestOutcome(P, pos, b) ==
    CASE UnitHas(P, pos, b, "sendNative") -> "sent"
      [] OTHER -> IF P[pos].answer.wrap
                  THEN IF Withdraws(P, pos) THEN "eth" ELSE "weth"
                  ELSE IF b = "primary" /\ P[pos].answer.hasRecipient THEN "sent" ELSE "eth"

\* The fallback block ends where the first block would have.
OutputSteps(pos) ==
    LET try == EthDestOutcome(Primaries, pos, "primary")
        other == EthDestOutcome(Substituted(pos), pos, "fallback")
    IN
    If(/\ Swap(route, pos).dest = ETH /\ IsLastSwap(route, pos)
       /\ other \notin {try, "sent"},
       IF try = "weth" THEN <<WrapStep>>
       ELSE If(other = "weth", <<UnwrapStep>>) \o If(try = "sent", <<SendNativeStep>>))

\* Mutant: ETH is always measured as WETH.
MeasuredAsWeth(pos) ==
    LET swap == Swap(route, pos) IN
    IF IsLastSwap(route, pos)
    THEN IF route.dest = ETH /\ AnyWraps(Primaries, pos[1], pos[2]) THEN {WETH} ELSE {}
    ELSE {WrappedForm(swap.dest)}

\* The balance that is checked behind a split swap: of ETH as WETH unless some
\* exchange returned ETH; behind the last swap only to unwrap.
Measured(pos) ==
    LET swap == Swap(route, pos) IN
    IF IsLastSwap(route, pos)
    THEN IF route.dest = ETH /\ AnyWraps(Primaries, pos[1], pos[2]) THEN {WETH} ELSE {}
    ELSE IF swap.dest = ETH /\ AnyRaw(Primaries, pos[1], pos[2]) THEN {ETH}
    ELSE {WrappedForm(swap.dest)}

\* Mid-route, forms are not normalized: the fallback is left out.
IsGrouped(pos) ==
    /\ HasFallback(pos)
    /\ Swap(route, pos).dest = ETH /\ ~IsLastSwap(route, pos) =>
        Primaries[pos].answer.wrap = Substituted(pos)[pos].answer.wrap

GroupStep(try, other, measured) ==
    [op |-> "group", try |-> try, other |-> other, measured |-> measured]

\* Within a split, the split measures.
ExchangeCode(pos) ==
    LET try == Unit(Primaries, pos, "primary")
        other == InputSteps(pos) \o Unit(Substituted(pos), pos, "fallback") \o OutputSteps(pos)
    IN  IF ~IsGrouped(pos) THEN try
        ELSE <<GroupStep(Len(try), Len(other), IF IsSplit(pos) THEN {} ELSE Measured(pos))>>
             \o try \o other

-----------------------------------------------------------------------------
(* The bytecode. *)

\* A split, the share of a member in the token its metadata names, the end of a
\* member, and of the split.
SplitStep(inserts) == [op |-> "split", inserts |-> inserts]
MemberStep(token) == [op |-> "member", token |-> token]
YieldStep == [op |-> "yield"]
JoinStep(measured) == [op |-> "join", measured |-> measured]
MeasuredWrapStep == [op |-> "wrap", measured |-> {WETH}]

SplitOver(inserts, members, measured) ==
    <<SplitStep(inserts)>>
    \o FlattenSeq([n \in DOMAIN members |->
            <<MemberStep(members[n].token)>> \o members[n].code \o <<YieldStep>>])
    \o <<JoinStep(measured)>>

ShareToken(pos) ==
    IF /\ Swap(route, pos).src = ETH
       /\ Primaries[pos].answer.wrap \/ UnwrapsBefore(Primaries, pos, "primary")
       /\ ~Deposits(Primaries, pos)
    THEN WETH ELSE Swap(route, pos).src

PathToken(i) ==
    LET src == route.paths[i].swaps[1].src IN
    IF /\ src = ETH /\ AnyWraps(Primaries, i, 1)
       /\ \A pos \in Positions(route) :
            pos[1] = i => ~Deposits(Primaries, pos) /\ ~AppendsWrap(i, pos[2])
    THEN WETH ELSE src

SwapCode(i, j) ==
    LET first == <<i, j, 1>>
        exchanges == route.paths[i].swaps[j].exchanges
        members == [k \in DOMAIN exchanges |->
                        [token |-> ShareToken(<<i, j, k>>), code |-> ExchangeCode(<<i, j, k>>)]]
    IN  (IF IsSplit(first)
         THEN SplitOver(Several, members, IF Several THEN Measured(first) ELSE {})
         ELSE members[1].code)
        \o If(AppendsWrap(i, j), <<IF IsSplit(first) THEN MeasuredWrapStep ELSE WrapStep>>)

PathCode(i) == FlattenSeq([j \in DOMAIN route.paths[i].swaps |-> SwapCode(i, j)])

\* The root's wrapper inserts no amount; it checks one only for the root to unwrap.
RoutesCode ==
    IF IsMegaSwap(route)
    THEN SplitOver(FALSE,
                   [i \in DOMAIN route.paths |-> [token |-> PathToken(i), code |-> PathCode(i)]],
                   IF NeedUnwrapEth /\ RootUnwraps(Primaries) THEN {WETH} ELSE {})
    ELSE PathCode(1)

Bytecode ==
    If(NeedWrapEth /\ RootWraps(Primaries), <<WrapStep>>)
    \o RoutesCode
    \o If(NeedUnwrapEth /\ RootUnwraps(Primaries) /\ Several, <<UnwrapStep>>)
    \o If(RootUnwraps(Primaries) /\ Several, <<SendNativeStep>>)

-----------------------------------------------------------------------------
(* What is relied on besides Compatible.  The code checks none of it.       *)

\* A swap that unwraps mid-route for itself leaves no ETH to one that takes WETH.
KeepsWethForNext(pos) ==
    Withdraws(Primaries, pos) /\ ~VerticalBranching(pos) =>
        ~EachWraps(Primaries, pos[1], pos[2] + 1)

\* What a swap unwraps for a next that takes ETH is not wrapped again behind it.
StaysUnwrapped(pos) ==
    Withdraws(Primaries, pos) /\ AppendsWrap(pos[1], pos[2]) =>
        ~EachRaw(Primaries, pos[1], pos[2] + 1)

\* A group measures WETH behind a unit that unwraps mid-route.
NoGroupReturnsEth(pos) ==
    Withdraws(Primaries, pos) /\ ~IsLastSwap(route, pos) /\ ~IsSplit(pos) => ~IsGrouped(pos)

\* Behind the exchange that unwraps for a single swap, nothing is left to send.
RawComesFirst(pos) ==
    ~Several /\ Withdraws(Primaries, pos) =>
        \A q \in Positions(route) : q[3] > pos[3] => Primaries[q].answer.hasRecipient

\* The exchange that unwraps for others has a fallback that does too.
UnwrapIsShared(pos) ==
    ~Several /\ Withdraws(Primaries, pos) /\ HasFallback(pos)
        /\ (\E q \in Positions(route) \ {pos} : Primaries[q].answer.wrap)
    => Substituted(pos)[pos].answer.wrap

\* A fallback sees the unwrapping before its swap.
UnwrapIsSeen(pos) ==
    HasFallback(pos) =>
        (UnwrapsBefore(Substituted(pos), pos, "fallback") =>
         UnwrapsBefore(Substituted(pos), pos, "primary"))

\* What is added behind a fallback works on an amount that it has measured.
FallbackIsMeasured(pos) ==
    HasFallback(pos) /\ OutputSteps(pos) # <<>> =>
        DexFlag(Substituted(pos), pos).check # "none"

\* The root finds WETH to unwrap: no fallback unwraps it, or sends what there is,
\* by itself.
RootUnwrapsIt(pos) ==
    Several /\ HasFallback(pos) /\ IsLastSwap(route, pos) /\ RootUnwraps(Primaries) =>
        /\ ~UnitHas(Substituted(pos), pos, "fallback", "sendNative")
        /\ ~Contains(OutputSteps(pos), UnwrapStep)

Holds(part, pos) ==
    CASE part = "keepsWeth" -> KeepsWethForNext(pos)
      [] part = "unwrapsOnce" -> StaysUnwrapped(pos)
      [] part = "groupEth" -> NoGroupReturnsEth(pos)
      [] part = "rawFirst" -> RawComesFirst(pos)
      [] part = "sharedUnwrap" -> UnwrapIsShared(pos)
      [] part = "seenUnwrap" -> UnwrapIsSeen(pos)
      [] part = "measuredFallback" -> FallbackIsMeasured(pos)
      [] part = "rootUnwraps" -> RootUnwrapsIt(pos)

-----------------------------------------------------------------------------
(* Running the bytecode. *)

Current == code[pc]
Piece(m) == [held |-> m.held, at |-> m.at]
OnExecutor(token) == [held |-> token, at |-> "executor"]
Given(token, exact) == [held |-> token, at |-> "executor", exact |-> exact, granted |-> FALSE]
NoGroup == [branch |-> "none"]

\* The end of the block that runs.
AtBlockEnd ==
    \/ group.branch = "primary" /\ pc = group.other
    \/ group.branch = "fallback" /\ pc = group.end

Running == outcome = "running" /\ pc <= Len(code) /\ ~AtBlockEnd
IsFundsStep(s) == s.op \notin {"split", "member", "yield", "join", "group"}

\* Besides where and what a step takes: a swap takes all there is.
FindsAllFunds(s) ==
    CASE s.op = "split" -> machine.at = "executor" /\ rest = {}
      [] s.op = "member" -> Piece(Last(frames).whole) = OnExecutor(s.token)
      [] s.op = "dex" -> FindsFunds(machine, s) /\ rest = {}
      [] s.op \in {"yield", "join", "group"} -> TRUE
      [] OTHER -> FindsFunds(machine, s)

\* A step that measures a balance: its amount is all of it.
MeasuresBalance(s) ==
    \/ s = MeasuredWrapStep \/ s.op = "unwrap"
    \/ s.op = "dex" /\ s.to = "executor" /\ Measures(s)

RunInit ==
    /\ Init
    /\ code = <<>>
    /\ pc = 1
    /\ machine = Given(route.src, TRUE)
    /\ rest = {}
    /\ aside = {}
    /\ frames = <<>>
    /\ group = NoGroup
    /\ outcome = "building"

Start ==
    /\ outcome = "building" /\ phase = "built" /\ label = "Executor02"
    /\ \A part \in Relied, pos \in Positions(route) : Holds(part, pos)
    /\ outcome' = "running"
    /\ code' = Bytecode
    /\ UNCHANGED <<buildVars, pc, machine, rest, aside, frames, group>>

Step ==
    /\ Running /\ IsFundsStep(Current)
    /\ FindsAllFunds(Current) /\ IsGranted(machine, Current)
    /\ LET after == Apply(machine, Current)
           all == MeasuresBalance(Current)
       IN  /\ machine' = [after EXCEPT !.exact = @ \/ all]
           /\ rest' = IF all THEN rest \ {Piece(after)} ELSE rest
           /\ aside' = IF all THEN aside \ {Piece(after)} ELSE aside
    /\ pc' = pc + 1
    /\ UNCHANGED <<buildVars, code, frames, group, outcome>>

Split ==
    /\ Running /\ Current.op = "split"
    /\ FindsAllFunds(Current)
    /\ frames' = Append(frames, [whole |-> machine, aside |-> aside])
    /\ aside' = {}
    /\ pc' = pc + 1
    /\ UNCHANGED <<buildVars, code, machine, rest, group, outcome>>

Member ==
    /\ Running /\ Current.op = "member"
    /\ FindsAllFunds(Current)
    /\ machine' = Given(Current.token, TRUE)
    /\ pc' = pc + 1
    /\ UNCHANGED <<buildVars, code, rest, aside, frames, group, outcome>>

Yield ==
    /\ Running /\ Current.op = "yield"
    /\ aside' = aside \union rest \union {Piece(machine)}
    /\ rest' = {}
    /\ pc' = pc + 1
    /\ UNCHANGED <<buildVars, code, machine, frames, group, outcome>>

\* What has been returned in the measured token is worked on next.
Join ==
    /\ Running /\ Current.op = "join"
    /\ LET found == {p \in aside : p.at = "executor" /\ p.held \in Current.measured}
           kept == {p \in aside : p.at = "executor"}
           next == CHOOSE p \in aside :
                        /\ found # {} => p \in found
                        /\ kept # {} => p \in kept
       IN  /\ machine' = [held |-> next.held, at |-> next.at,
                          exact |-> found # {}, granted |-> FALSE]
           /\ rest' = aside \ {next}
    /\ aside' = Last(frames).aside
    /\ frames' = Front(frames)
    /\ pc' = pc + 1
    /\ UNCHANGED <<buildVars, code, group, outcome>>

EnterGroup ==
    /\ Running /\ Current.op = "group"
    /\ group' = [branch |-> "primary", other |-> pc + 1 + Current.try,
                 end |-> pc + 1 + Current.try + Current.other, measured |-> Current.measured,
                 machine |-> machine, rest |-> rest, aside |-> aside]
    /\ pc' = pc + 1
    /\ UNCHANGED <<buildVars, code, machine, rest, aside, frames, outcome>>

LeaveGroup ==
    /\ outcome = "running" /\ AtBlockEnd
    /\ LET found == machine.at = "executor" /\ machine.held \in group.measured IN
        /\ machine' = [machine EXCEPT !.exact = found]
        /\ rest' = IF found THEN rest \ {Piece(machine)} ELSE rest
        /\ aside' = IF found THEN aside \ {Piece(machine)} ELSE aside
    /\ pc' = group.end
    /\ group' = NoGroup
    /\ UNCHANGED <<buildVars, code, frames, outcome>>

\* An exchange may revert for the market's reasons; any step reverts that does
\* not find what it needs.  The first block of a group gives way to the second.
Revert ==
    /\ Running
    /\ \/ Current.op = "dex"
       \/ ~FindsAllFunds(Current)
       \/ ~IsGranted(machine, Current)
    /\ IF group.branch = "primary"
       THEN /\ group' = [group EXCEPT !.branch = "fallback"]
            /\ pc' = group.other
            /\ machine' = group.machine
            /\ rest' = group.rest
            /\ aside' = group.aside
            /\ UNCHANGED outcome
       ELSE /\ outcome' = "reverted"
            /\ UNCHANGED <<pc, machine, rest, aside, group>>
    /\ UNCHANGED <<buildVars, code, frames>>

Finish ==
    /\ outcome = "running" /\ pc > Len(code) /\ ~AtBlockEnd
    /\ outcome' = "done"
    /\ UNCHANGED <<buildVars, code, pc, machine, rest, aside, frames, group>>

Run ==
    \/ Start \/ Step \/ Split \/ Member \/ Yield \/ Join
    \/ EnterGroup \/ LeaveGroup \/ Revert \/ Finish

Next == (Build /\ UNCHANGED runVars) \/ Run

SwapSpec == RunInit /\ [][Next]_vars

-----------------------------------------------------------------------------
(* Properties. *)

Pieces == [held : Tokens, at : Places]

\* Types; recipients, the builder's own state, are set leg by leg as for Executor01.
RunTypeOK ==
    /\ TypeOK
    /\ pc \in 1..(Len(code) + 1)
    /\ machine \in Machines
    /\ rest \subseteq Pieces /\ aside \subseteq Pieces
    /\ \A n \in DOMAIN frames : frames[n].whole \in Machines /\ frames[n].aside \subseteq Pieces
    /\ group.branch \in Branches \union {"none"}
    /\ outcome \in {"building", "running", "done", "reverted"}

\* Every step finds the funds where it takes them from and in the form it takes:
\* the maps of wraps and unwraps that the builder threads through the exchanges
\* of a path (buildSingleRouteCallData), the root's wrap and unwrap, and what a
\* group puts around a fallback agree on who wraps what.
StepsFindFunds == Running => FindsAllFunds(Current)

\* An exchange that pulls its source has been granted it in the block that runs:
\* an approval of the first block is undone with it, and the fallback's own was
\* left out of its unit or takes the other form (wrapInRevertableGroup).
PullsAreGranted == Running => IsGranted(machine, Current)

\* A step that works on the threaded amount works on what is there: the balance
\* checked behind an exchange, a group or a split (buildMultiMegaSwapFlags,
\* buildVerticalBranchingFlag) is of the token that the next step takes.
AmountsAreThreaded ==
    Running =>
        /\ Current.op = "split" /\ Current.inserts => machine.exact
        /\ IsFundsStep(Current) => IsExact(machine, Current)

\* When the bytecode has run, Augustus has everything in the form asked for: no
\* member of a split, whichever blocks ran, leaves its output on the executor or
\* in the other form (branchEthDestOutcome, the trailers, the root's unwrap).
FundsAreDelivered ==
    outcome = "done" =>
        rest \union aside \union {Piece(machine)} = {[held |-> route.dest, at |-> "augustus"]}
=============================================================================
