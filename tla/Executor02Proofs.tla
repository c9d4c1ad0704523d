--------------------------- MODULE Executor02Proofs ---------------------------
(***************************************************************************)
(* For every route over several swaps, every answer and every block that   *)
(* reverts: the steps of Executor02's bytecode find their funds in the form*)
(* they take, pulls have been granted, what is inserted as the amount is   *)
(* there, and in the end all has been delivered.                           *)
(*                                                                         *)
(* The inductive invariant says that a run is at one of the places of its  *)
(* bytecode, see Executor02Places, holding what is expected there. A place *)
(* serves the run if the step that is there finds what it takes and leads, *)
(* by whatever outcome, to a place again; that each of them does is shown  *)
(* from the stages of a unit outwards, to groups, swaps, paths and the     *)
(* root.                                                                   *)
(***************************************************************************)
EXTENDS Executor02Places

-----------------------------------------------------------------------------
(* From the end of a part to the next step. *)

\* Each of the places is a place.
LEMMA LocatedIf ==
    ASSUME NEW s
    PROVE  /\ AtRoot(s) => Located(s)
           /\ \A i \in 1..NPaths : IsMegaSwap(route) /\ (AtPath(s, i) \/ BehindPath(s, i)) => Located(s)
           /\ \A i \in 1..NPaths : \A j \in 1..LastSwap(i) : OnSwap(s, i, j) => Located(s)
           /\ \A pos \in Positions(route) :
                IsSplit(pos) /\ (AtMember(s, pos) \/ BehindExchange(s, pos)) => Located(s)
           /\ \A pos \in Positions(route) : AtStep(s, pos) \/ AtBlockEndOf(s, pos) => Located(s)
BY DEF Located

\* Before the send a step is next: the send, or none.
LEMMA LocatedBeforeSend ==
    ASSUME Built, NEW s, BeforeSend(s)
    PROVE  Located(s)
<1>1. CASE SendsAtRoot
  BY <1>1, LocatedIf DEF AtRoot
<1>2. CASE ~SendsAtRoot
  <2>1. EndAt = SendAt
    <3>1. EndAt = SendAt + 0 /\ SendAt \in Nat
      <4>1. RoutesEnd \in Nat
        BY RootLies, BuiltShape
      <4> QED
        BY <1>2, <4>1 DEF EndAt, SendAt
    <3> QED
      BY <3>1
  <2>2. AtEnd(s)
    BY <1>2, <2>1 DEF BeforeSend, AtEnd, Everything
  <2> QED
    BY <2>2, LocatedIf DEF AtRoot
<1> QED
  BY <1>1, <1>2

\* The root sends only what it unwraps.
LEMMA SentIsUnwrapped ==
    ASSUME Built
    PROVE  UnwrapsAtRoot <=> SendsAtRoot
<1>1. ASSUME RootUnwraps(Primaries) PROVE NeedUnwrapEth
  <2>1. route.dest = ETH
    BY <1>1 DEF RootUnwraps
  <2>2. PICK i \in DOMAIN route.paths : AnyWraps(Primaries, i, LastSwap(i))
    BY <1>1 DEF RootUnwraps
  <2>3. PICK pos \in OfSwap(i, LastSwap(i)) : Primaries[pos].answer.wrap
    BY <2>2 DEF AnyWraps
  <2>4. pos \in Positions(route) /\ pos[1] = i /\ pos[2] = LastSwap(i)
    BY DEF OfSwap
  <2>5. i \in 1..NPaths /\ Swap(route, pos) = SwapOf(i, LastSwap(i))
    BY <2>4, OfSwapHas
  <2>6. Swap(route, pos).dest = ETH
    BY <2>1, <2>5, SwapsFollow
  <2>7. LegOf(pos, "primary").answer.wrap /\ Resolved(pos, "primary")
    BY <2>3, <2>4, PrimaryIs
  <2> QED
    BY <2>1, <2>4, <2>6, <2>7, BoughtInEth DEF NeedUnwrapEth
<1> QED
  BY <1>1 DEF UnwrapsAtRoot, SendsAtRoot

\* Behind the routes a step is next: the unwrap, or what comes behind it.
LEMMA LocatedBehindRoutes ==
    ASSUME Built, NEW s, BehindRoutes(s)
    PROVE  Located(s)
<1>1. CASE UnwrapsAtRoot
  BY <1>1, LocatedIf DEF AtRoot
<1>2. CASE ~UnwrapsAtRoot
  <2>1. SendAt = RoutesEnd
    <3>1. SendAt = RoutesEnd + 0 /\ RoutesEnd \in Nat
      BY <1>2, RootLies, BuiltShape DEF SendAt
    <3> QED
      BY <3>1
  <2>2. ~SendsAtRoot /\ ~(Several /\ RootUnwraps(Primaries))
    BY <1>2, SentIsUnwrapped DEF SendsAtRoot
  <2>3. BeforeSend(s)
    BY <2>1, <2>2 DEF BeforeSend, BehindRoutes, AllLeft
  <2> QED
    BY <2>3, LocatedBeforeSend
<1> QED
  BY <1>1, <1>2

\* Outside of all splits there are no frames.
LEMMA NoFrames ==
    ASSUME NEW fr \in Seq(FrameType), Len(fr) = 0
    PROVE  fr = <<>>
  BY EmptySeq

\* Behind a path a step is next: its yield, or what comes behind the routes.
LEMMA LocatedBehindPath ==
    ASSUME Built, NEW i \in 1..NPaths, NEW s, TypedState(s), BehindPath(s, i)
    PROVE  Located(s)
<1>1. CASE IsMegaSwap(route)
  BY <1>1, LocatedIf
<1>2. CASE ~IsMegaSwap(route)
  <2>1. NPaths = 1 /\ i = 1 /\ PathEnd(1) = RoutesEnd
    BY <1>2, PathsLie, BuiltShape
  <2>2. s.frames = <<>>
    <3>1. Len(s.frames) = 0 /\ s.frames \in Seq(FrameType)
      BY <1>2 DEF BehindPath, OnPath, RootDepth, TypedState
    <3> QED
      BY <3>1, NoFrames
  <2>3. BehindRoutes(s)
    BY <1>2, <2>1, <2>2 DEF BehindPath, BehindRoutes, PathLeft
  <2> QED
    BY <2>3, LocatedBehindRoutes
<1> QED
  BY <1>1, <1>2

\* Before an exchange a step is next: its group's, or a stage of its unit.
LEMMA LocatedBeforeExchange ==
    ASSUME Built, NEW pos \in Positions(route), NEW s, BeforeExchange(s, pos)
    PROVE  Located(s)
<1>1. CASE IsGrouped(pos)
  BY <1>1, LocatedIf DEF AtStep
<1>2. CASE ~IsGrouped(pos)
  <2>1. BlockOf(pos, "primary")
    BY DEF BlockOf, Branches
  <2>2. StageOf(pos, "primary", 1) = ExAt(pos)
    BY <1>2, <2>1, StagesLie, BuiltShape
  <2>3. InBlock(s, pos, "primary")
    BY <1>2 DEF InBlock, BeforeExchange
  <2>4. ~Granted(pos, "primary", 1)
    BY DEF Granted
  <2>5. Sound => StageFunds(s, pos, "primary", 1)
    <3>1. SUFFICES ASSUME Sound PROVE StageFunds(s, pos, "primary", 1)
      OBVIOUS
    <3>2. HoldsToken(s.machine, ShareToken(pos)) /\ s.rest = {} /\ HoldBefore(pos, s.aside)
      BY <3>1 DEF BeforeExchange
    <3>3. EntryToken(pos, "primary") = ShareToken(pos)
      BY <3>1, SharesMeet
    <3>4. Paid(pos, "primary", 1, s.machine)
      BY <3>2, <3>3, PaidIs DEF HoldsToken, PaidToken
    <3>5. Gone(pos, "primary", 1) = {} /\ 1 < 8
      BY GoneIs
    <3> QED
      BY <3>2, <3>4, <3>5, NothingGone DEF StageFunds
  <2>6. BeforeStage(s, pos, "primary", 1)
    BY <2>2, <2>3, <2>4, <2>5, StageIs DEF BeforeExchange
  <2>7. \E n \in 1..11 : Has(pos, "primary", n) /\ BeforeStage(s, pos, "primary", n)
    BY <2>1, <2>6, StageFound
  <2>8. AtStep(s, pos)
    BY <2>1, <2>7 DEF AtStep, BlockOf
  <2> QED
    BY <2>8, LocatedIf
<1> QED
  BY <1>1, <1>2

\* Before a fallback a step is next: one that is put before it, or a stage of its unit.
LEMMA LocatedBeforeInput ==
    ASSUME Built, NEW pos \in Positions(route), IsGrouped(pos), NEW s,
           NEW m \in 1..(Len(InputSteps(pos)) + 1), BeforeInput(s, pos, m)
    PROVE  Located(s)
<1>0. Len(InputSteps(pos)) \in Nat
  BY AroundIsSeq
<1>1. CASE m \in 1..Len(InputSteps(pos))
  BY <1>1, LocatedIf DEF AtStep
<1>2. CASE m = Len(InputSteps(pos)) + 1
  <2>1. BlockOf(pos, "fallback")
    BY DEF BlockOf, Branches
  <2>2. StageOf(pos, "fallback", 1) = InputAt(pos) + Len(InputSteps(pos)) /\ InputAt(pos) \in Nat
    BY <2>1, StagesLie, BuiltShape, GroupPartsLie
  <2>3. s.pc = StageOf(pos, "fallback", 1) + 1 /\ InBlock(s, pos, "fallback")
    <3>1. s.pc = InputAt(pos) + m /\ InBlock(s, pos, "fallback")
      BY DEF BeforeInput
    <3> QED
      BY <1>0, <1>2, <2>2, <3>1
  <2>4. ~Granted(pos, "fallback", 1)
    BY DEF Granted
  <2>5. Sound => StageFunds(s, pos, "fallback", 1)
    <3>1. SUFFICES ASSUME Sound PROVE StageFunds(s, pos, "fallback", 1)
      OBVIOUS
    <3>2. InputToken(pos, m) = EntryToken(pos, "fallback")
      BY <1>0, <1>2 DEF InputToken
    <3>3. HoldsToken(s.machine, EntryToken(pos, "fallback")) /\ s.rest = {} /\ HoldBefore(pos, s.aside)
      BY <3>1, <3>2 DEF BeforeInput
    <3>4. Paid(pos, "fallback", 1, s.machine)
      BY <3>3, PaidIs DEF HoldsToken, PaidToken
    <3>5. Gone(pos, "fallback", 1) = {} /\ 1 < 8
      BY GoneIs
    <3> QED
      BY <3>3, <3>4, <3>5, NothingGone DEF StageFunds
  <2>6. BeforeStage(s, pos, "fallback", 1)
    BY <2>3, <2>4, <2>5, StageIs
  <2>7. \E n \in 1..11 : Has(pos, "fallback", n) /\ BeforeStage(s, pos, "fallback", n)
    BY <2>1, <2>6, StageFound
  <2>8. AtStep(s, pos)
    BY <2>1, <2>7 DEF AtStep, BlockOf
  <2> QED
    BY <2>8, LocatedIf
<1> QED
  BY <1>0, <1>1, <1>2

\* What a lone exchange works on is all there is of its path.
LEMMA LoneIs ==
    ASSUME Built, NEW pos \in Positions(route), ~IsSplit(pos)
    PROVE  /\ pos = <<pos[1], pos[2], 1>> /\ ExAt(pos) = SwapAt(pos[1], pos[2])
           /\ ExEnd(pos) = BareEnd(pos[1], pos[2])
<1>1. pos[1] \in 1..NPaths /\ pos[2] \in 1..LastSwap(pos[1]) /\ pos = <<pos[1], pos[2], pos[3]>>
      /\ InRoute(pos[1], pos[2], pos[3])
  BY OfSwapHas DEF InRoute
<1>2. pos = <<pos[1], pos[2], 1>>
  BY <1>1, SplitIs, BuiltShape
<1>3. ~IsSplit(<<pos[1], pos[2], 1>>)
  BY <1>2
<1>4. /\ ExAt(<<pos[1], pos[2], 1>>) = SwapAt(pos[1], pos[2])
      /\ ExEnd(<<pos[1], pos[2], 1>>) = BareEnd(pos[1], pos[2])
  BY <1>1, <1>3, LoneExchangeLies, BuiltShape
<1> QED
  BY <1>2, <1>4

\* Before a swap a step is next: its split's, or its exchange's.
LEMMA LocatedBeforeSwap ==
    ASSUME Built, NEW i \in 1..NPaths, NEW j \in 1..LastSwap(i), NEW s, BeforeSwap(s, i, j)
    PROVE  Located(s)
<1>1. CASE IsSplit(<<i, j, 1>>)
  BY <1>1, LocatedIf DEF OnSwap
<1>2. CASE ~IsSplit(<<i, j, 1>>)
  <2> DEFINE pos == <<i, j, 1>>
  <2>1. pos \in Positions(route) /\ pos[1] = i /\ pos[2] = j
    BY InSwapHas
  <2>2. ~IsSplit(pos)
    BY <1>2
  <2> HIDE DEF pos
  <2>3. ExAt(pos) = SwapAt(i, j)
    BY <2>1, <2>2, LoneIs
  <2>4. BeforeExchange(s, pos)
    <3>1. s.pc = ExAt(pos) + 1 /\ Idle(s) /\ InExchange(s.frames, pos)
      BY <2>2, <2>3 DEF BeforeSwap, InExchange
    <3>2. Sound => ShareToken(pos) = FormBefore(i, j)
      BY <2>1, SharesMeet
    <3> QED
      BY <2>1, <2>2, <3>1, <3>2 DEF BeforeSwap, BeforeExchange, HoldBefore
  <2> QED
    BY <2>1, <2>4, LocatedBeforeExchange
<1> QED
  BY <1>1, <1>2

\* Before the routes a step is next: the root's split, or the first swap's.
LEMMA LocatedBeforeRoutes ==
    ASSUME Built, NEW s, BeforeRoutes(s)
    PROVE  Located(s)
<1>1. CASE IsMegaSwap(route)
  BY <1>1, LocatedIf DEF AtRoot
<1>2. CASE ~IsMegaSwap(route)
  <2>1. NPaths = 1 /\ PathAt(1) = RootAt /\ SoldOverPaths(route)
    BY <1>2, PathsLie, BuiltShape
  <2>2. 1 \in 1..NPaths /\ 1 \in 1..LastSwap(1)
    <3>1. 1 \in 1..NPaths
      BY <2>1
    <3> QED
      BY <2>1, <3>1, RouteShape
  <2>3. SwapAt(1, 1) = RootAt
    BY <2>1, <2>2, SwapsLie
  <2>4. OnPath(s.frames)
    <3>1. s.frames = <<>> /\ RootDepth = 0
      BY <1>2 DEF BeforeRoutes, RootDepth
    <3> QED
      BY <1>2, <3>1 DEF OnPath, RootGiven
  <2>5. BeforeSwap(s, 1, 1)
    BY <1>2, <2>3, <2>4 DEF BeforeRoutes, BeforeSwap, FormBefore, OuterHold
  <2> QED
    BY <2>2, <2>5, LocatedBeforeSwap
<1> QED
  BY <1>1, <1>2

\* Behind a swap a step is next: its wrap, the next swap's, or what comes behind the
\* path.
LEMMA LocatedBehindBare ==
    ASSUME Built, NEW i \in 1..NPaths, NEW j \in 1..LastSwap(i), NEW s, TypedState(s),
           BehindBare(s, i, j)
    PROVE  Located(s)
<1>1. CASE AppendsWrap(i, j)
  BY <1>1, LocatedIf DEF OnSwap
<1>2. CASE ~AppendsWrap(i, j)
  <2>1. SwapEnd(i, j) = BareEnd(i, j)
    <3>1. SwapEnd(i, j) = BareEnd(i, j) + 0 /\ BareEnd(i, j) \in Nat
      BY <1>2, SwapPartsLie, BuiltShape
    <3> QED
      BY <3>1
  <2>2. LastSwap(i) \in Nat /\ j \in Nat
    BY InSwapHas
  <2>3. CASE j = LastSwap(i)
    <3>1. PathEnd(i) = BareEnd(i, j)
      BY <2>1, <2>3, SwapsLie, BuiltShape
    <3>2. BehindPath(s, i)
      BY <2>3, <3>1 DEF BehindPath, BehindBare
    <3> QED
      BY <3>2, LocatedBehindPath
  <2>4. CASE j # LastSwap(i)
    <3>1. j < LastSwap(i) /\ j + 1 \in 1..LastSwap(i)
      BY <2>2, <2>4
    <3>2. SwapAt(i, j + 1) = BareEnd(i, j)
      BY <2>1, <3>1, SwapsLie, BuiltShape
    <3>3. BeforeSwap(s, i, j + 1)
      BY <1>2, <2>4, <3>2 DEF BeforeSwap, BehindBare, BareLeft, SwapLeft
    <3> QED
      BY <3>1, <3>3, LocatedBeforeSwap
  <2> QED
    BY <2>3, <2>4
<1> QED
  BY <1>1, <1>2

\* Behind an exchange a step is next: its yield, or what comes behind its swap.
LEMMA LocatedBehindExchange ==
    ASSUME Built, NEW pos \in Positions(route), NEW s, TypedState(s), BehindExchange(s, pos)
    PROVE  Located(s)
<1>1. CASE IsSplit(pos)
  BY <1>1, LocatedIf
<1>2. CASE ~IsSplit(pos)
  <2>1. ExEnd(pos) = BareEnd(pos[1], pos[2])
    BY <1>2, LoneIs
  <2>2. pos[1] \in 1..NPaths /\ pos[2] \in 1..LastSwap(pos[1])
    BY OfSwapHas
  <2>3. BehindBare(s, pos[1], pos[2])
    BY <1>2, <2>1 DEF BehindExchange, BehindBare, InExchange, ExchangeLeft
  <2> QED
    BY <2>2, <2>3, LocatedBehindBare
<1> QED
  BY <1>1, <1>2

-----------------------------------------------------------------------------
(* Types. *)

\* The innermost split, and those around it.
LEMMA PoppedFrame ==
    ASSUME NEW fr \in Seq(FrameType), fr # <<>>
    PROVE  /\ Len(fr) \in Nat \ {0}
           /\ Front(fr) \in Seq(FrameType) /\ Len(Front(fr)) = Len(fr) - 1
           /\ \A d \in 1..(Len(fr) - 1) : Front(fr)[d] = fr[d]
           /\ Last(fr) = fr[Len(fr)] /\ Last(fr) \in FrameType
<1> DEFINE n == Len(fr)
<1>1. n \in Nat \ {0}
  BY EmptySeq
<1>2. \A d \in 1..n : fr[d] \in FrameType
  BY ElementOfSeq
<1>3. 1 \in Int /\ n - 1 \in Int /\ \A d \in 1..(n - 1) : fr[d] \in FrameType
  BY <1>1, <1>2
<1> HIDE DEF n
<1>4. /\ SubSeq(fr, 1, n - 1) \in Seq(FrameType)
      /\ Len(SubSeq(fr, 1, n - 1)) = IF 1 <= n - 1 THEN (n - 1) - 1 + 1 ELSE 0
      /\ \A d \in 1..((n - 1) - 1 + 1) : SubSeq(fr, 1, n - 1)[d] = fr[1 + d - 1]
  BY <1>3, SubSeqProperties
<1>5. Len(SubSeq(fr, 1, n - 1)) = n - 1
  <2> DEFINE l == Len(SubSeq(fr, 1, n - 1))
  <2>1. l = IF 1 <= n - 1 THEN (n - 1) - 1 + 1 ELSE 0
    BY <1>4
  <2> HIDE DEF l
  <2>2. l = n - 1
    BY <1>1, <2>1
  <2> QED
    BY <2>2 DEF l
<1>6. \A d \in 1..(n - 1) : SubSeq(fr, 1, n - 1)[d] = fr[d]
  <2> TAKE d \in 1..(n - 1)
  <2>1. d \in 1..((n - 1) - 1 + 1) /\ 1 + d - 1 = d
    BY <1>1
  <2> QED
    BY <1>4, <2>1
<1>7. Last(fr) = fr[n] /\ fr[n] \in FrameType
  <2>1. n \in 1..n
    BY <1>1
  <2> QED
    BY <1>2, <2>1 DEF Last, n
<1> QED
  BY <1>1, <1>4, <1>5, <1>6, <1>7 DEF Front, n

\* A split's frame is put in front of those around it.
LEMMA PushedFrame ==
    ASSUME NEW fr \in Seq(FrameType), NEW f \in FrameType
    PROVE  /\ Append(fr, f) \in Seq(FrameType) /\ Append(fr, f) # <<>>
           /\ Len(fr) \in Nat /\ Len(Append(fr, f)) = Len(fr) + 1
           /\ \A d \in 1..Len(fr) : Append(fr, f)[d] = fr[d]
           /\ Append(fr, f)[Len(fr) + 1] = f
  BY AppendProperties, LenProperties

\* What a join works on next.
NextOf(A, measured) ==
    LET found == {p \in A : p.at = "executor" /\ p.held \in measured}
        kept == {p \in A : p.at = "executor"}
    IN  CHOOSE p \in A : (found # {} => p \in found) /\ (kept # {} => p \in kept)

\* Of what is measured, or else of what is kept, a join works on one next.
LEMMA NextIs ==
    ASSUME NEW A, A # {}, NEW measured
    PROVE  LET next == NextOf(A, measured)
               found == {p \in A : p.at = "executor" /\ p.held \in measured}
               kept == {p \in A : p.at = "executor"}
           IN  next \in A /\ (found # {} => next \in found) /\ (kept # {} => next \in kept)
<1> DEFINE found == {p \in A : p.at = "executor" /\ p.held \in measured}
           kept == {p \in A : p.at = "executor"}
<1>1. \E p \in A : (found # {} => p \in found) /\ (kept # {} => p \in kept)
  <2>1. CASE found # {}
    <3>1. PICK p \in found : TRUE
      BY <2>1
    <3> QED
      BY <3>1
  <2>2. CASE found = {} /\ kept # {}
    <3>1. PICK p \in kept : TRUE
      BY <2>2
    <3> QED
      BY <2>2, <3>1
  <2>3. CASE found = {} /\ kept = {}
    BY <2>3
  <2> QED
    BY <2>1, <2>2, <2>3
<1> HIDE DEF found, kept
<1>2. NextOf(A, measured) = CHOOSE p \in A : (found # {} => p \in found) /\ (kept # {} => p \in kept)
  BY DEF NextOf, found, kept
<1>3. NextOf(A, measured) \in A /\ (found # {} => NextOf(A, measured) \in found)
      /\ (kept # {} => NextOf(A, measured) \in kept)
  BY <1>1, <1>2
<1> QED
  BY <1>3 DEF found, kept

\* A join, taken apart.
LEMMA JoinsIs ==
    ASSUME NEW s, NEW t, NEW measured, Joins(s, t, measured)
    PROVE  LET next == NextOf(s.aside, measured)
               found == {p \in s.aside : p.at = "executor" /\ p.held \in measured}
           IN
           /\ t.machine = [held |-> next.held, at |-> next.at, exact |-> found # {}, granted |-> FALSE]
           /\ t.rest = s.aside \ {next}
           /\ t.aside = Last(s.frames).aside /\ t.frames = Front(s.frames)
           /\ t.pc = s.pc + 1 /\ t.group = s.group
BY DEF Joins, NextOf

\* What a machine works on is a piece.
LEMMA PieceTyped ==
    ASSUME NEW m \in Machines
    PROVE  Piece(m) \in Pieces
BY MachineIs DEF Piece, Pieces

\* A step keeps the types of a run.
LEMMA DoesTyped ==
    ASSUME NEW s, NEW t, NEW step, TypedState(s), StepTyped(s, step), Does(s, t, step)
    PROVE  TypedState(t)
<1>1. /\ s.pc \in Nat \ {0} /\ s.machine \in Machines
      /\ s.rest \subseteq Pieces /\ s.aside \subseteq Pieces
      /\ s.frames \in Seq(FrameType)
  BY DEF TypedState
<1>2. s.pc + 1 \in Nat \ {0}
  BY <1>1
<1>3. ASSUME step.op = "split" PROVE TypedState(t)
  <2>1. Splits(s, t)
    BY <1>3 DEF Does
  <2>2. [whole |-> s.machine, aside |-> s.aside] \in FrameType
    BY <1>1 DEF FrameType
  <2>3. t.frames \in Seq(FrameType)
    BY <1>1, <2>1, <2>2, PushedFrame DEF Splits
  <2> QED
    BY <1>1, <1>2, <2>1, <2>3 DEF Splits, TypedState
<1>4. ASSUME step.op = "member" PROVE TypedState(t)
  <2>1. Takes(s, t, step.token) /\ step.token \in Tokens
    BY <1>4 DEF Does, StepTyped
  <2>2. Given(step.token, TRUE) \in Machines
    BY <2>1 DEF Given, Machines, Places
  <2> QED
    BY <1>1, <1>2, <2>1, <2>2 DEF Takes, TypedState
<1>5. ASSUME step.op = "yield" PROVE TypedState(t)
  <2>1. Yields(s, t)
    BY <1>5 DEF Does
  <2>2. t.aside \subseteq Pieces /\ t.rest \subseteq Pieces
    BY <1>1, <2>1, PieceTyped DEF Yields
  <2> QED
    BY <1>1, <1>2, <2>1, <2>2 DEF Yields, TypedState
<1>6. ASSUME step.op = "join" PROVE TypedState(t)
  <2>1. Joins(s, t, step.measured) /\ s.frames # <<>> /\ s.aside # {}
    BY <1>6 DEF Does, StepTyped
  <2> DEFINE next == NextOf(s.aside, step.measured)
             e == {p \in s.aside : p.at = "executor" /\ p.held \in step.measured} # {}
             g == FALSE
  <2>2. next \in Pieces
    <3>1. next \in s.aside
      BY <2>1, NextIs
    <3> QED
      BY <1>1, <3>1
  <2>3. next.held \in Tokens /\ next.at \in Places
    <3> HIDE DEF next
    <3> QED
      BY <2>2 DEF Pieces
  <2>4. /\ t.machine = [held |-> next.held, at |-> next.at, exact |-> e, granted |-> g]
        /\ t.rest = s.aside \ {next}
        /\ t.aside = Last(s.frames).aside /\ t.frames = Front(s.frames) /\ t.pc = s.pc + 1
    BY <2>1, JoinsIs
  <2>5. e \in BOOLEAN /\ g \in BOOLEAN
    OBVIOUS
  <2> HIDE DEF next, e, g
  <2>6. t.machine \in Machines
    BY <2>3, <2>4, <2>5 DEF Machines
  <2>7. Front(s.frames) \in Seq(FrameType) /\ Last(s.frames).aside \subseteq Pieces
    <3>1. Front(s.frames) \in Seq(FrameType) /\ Last(s.frames) \in FrameType
      BY <1>1, <2>1, PoppedFrame
    <3> QED
      BY <3>1 DEF FrameType
  <2> QED
    BY <1>1, <1>2, <2>4, <2>6, <2>7 DEF TypedState
<1>7. ASSUME step.op = "group" PROVE TypedState(t)
  <2>1. Enters(s, t, step)
    BY <1>7 DEF Does
  <2> QED
    BY <1>1, <1>2, <2>1 DEF Enters, TypedState
<1>8. ASSUME IsFundsStep(step) PROVE TypedState(t)
  <2>1. Works(s, t, step)
    BY <1>8 DEF Does
  <2>2. t.machine \in Machines
    <3> DEFINE after == Apply(s.machine, step)
               all == MeasuresBalance(step)
    <3>1. step.op \in {"wrap", "unwrap", "approve", "sendNative", "transfer", "dex"}
      BY <1>8 DEF IsFundsStep, StepTyped
    <3> DEFINE T == TRUE
    <3>2. after \in Machines
      <4>1. T \in BOOLEAN /\ ETH \in Tokens /\ WETH \in Tokens /\ "augustus" \in Places
        BY TokenAssumption DEF Places
      <4>2. step.op = "transfer" => step.to \in Places
        BY DEF StepTyped
      <4>3. step.op = "dex" => step.out \in Tokens /\ step.to \in Places
        BY DEF StepTyped
      <4>4. CASE step.op = "dex"
        <5> DEFINE e == step.to = "executor" /\ Measures(step)
                   g == FALSE
        <5>1. after = [held |-> step.out, at |-> step.to, exact |-> e, granted |-> g]
          BY <4>4 DEF Apply
        <5>2. e \in BOOLEAN /\ g \in BOOLEAN
          OBVIOUS
        <5> HIDE DEF e, g, after
        <5> QED
          BY <4>3, <4>4, <5>1, <5>2 DEF Machines
      <4>5. CASE step.op = "approve"
        <5>1. after = [s.machine EXCEPT !.granted = T]
          BY <4>5 DEF Apply
        <5> HIDE DEF after, T
        <5> QED
          BY <1>1, <4>1, <5>1 DEF Machines
      <4>6. CASE step.op \in {"wrap", "unwrap", "sendNative", "transfer"}
        <5>1. /\ step.op = "wrap" => after = [s.machine EXCEPT !.held = WETH]
              /\ step.op = "unwrap" => after = [s.machine EXCEPT !.held = ETH]
              /\ step.op = "sendNative" => after = [s.machine EXCEPT !.at = "augustus"]
              /\ step.op = "transfer" => after = [s.machine EXCEPT !.at = step.to]
          BY DEF Apply
        <5> HIDE DEF after
        <5> QED
          BY <1>1, <4>1, <4>2, <4>6, <5>1 DEF Machines
      <4> QED
        BY <3>1, <4>4, <4>5, <4>6
    <3>3. t.machine = [after EXCEPT !.exact = @ \/ all]
      BY <2>1 DEF Works
    <3>4. after.exact \in BOOLEAN
      BY <3>2 DEF Machines
    <3> DEFINE x == after.exact \/ all
    <3>5. x \in BOOLEAN /\ t.machine = [after EXCEPT !.exact = x]
      BY <3>3
    <3> HIDE DEF after, all, x
    <3> QED
      BY <3>2, <3>5 DEF Machines
  <2>3. t.rest \subseteq Pieces /\ t.aside \subseteq Pieces /\ t.pc = s.pc + 1 /\ t.frames = s.frames
    BY <1>1, <2>1 DEF Works
  <2> QED
    BY <1>1, <1>2, <2>2, <2>3 DEF TypedState
<1>9. step.op \in {"split", "member", "yield", "join", "group"} \/ IsFundsStep(step)
  BY DEF IsFundsStep
<1> QED
  BY <1>3, <1>4, <1>5, <1>6, <1>7, <1>8, <1>9

-----------------------------------------------------------------------------
(* What splits return. *)

\* ETH, WETH and what has been delivered are three pieces.
LEMMA PiecesDiffer ==
    /\ Eth1 # Weth1 /\ Delivered # Eth1 /\ Delivered # Weth1
    /\ Eth1.held = ETH /\ Eth1.at = "executor" /\ Weth1.held = WETH /\ Weth1.at = "executor"
    /\ Delivered.held = route.dest /\ Delivered.at = "augustus"
    /\ \A token : OnExecutor(token).held = token /\ OnExecutor(token).at = "executor"
    /\ Eth1 = OnExecutor(ETH) /\ Weth1 = OnExecutor(WETH)
<1>1. /\ Eth1.held = ETH /\ Eth1.at = "executor" /\ Weth1.held = WETH /\ Weth1.at = "executor"
      /\ Delivered.held = route.dest /\ Delivered.at = "augustus"
      /\ \A token : OnExecutor(token).held = token /\ OnExecutor(token).at = "executor"
      /\ Eth1 = OnExecutor(ETH) /\ Weth1 = OnExecutor(WETH)
  BY DEF Eth1, Weth1, OnExecutor, Delivered
<1>2. Eth1.held # Weth1.held /\ Delivered.at # Eth1.at /\ Delivered.at # Weth1.at
  BY <1>1, TokenAssumption
<1> QED
  BY <1>1, <1>2

\* A machine that holds a token works on it.
LEMMA HeldIs ==
    ASSUME NEW m
    PROVE  /\ \A token : HoldsToken(m, token) => Piece(m) = OnExecutor(token)
           /\ Piece(m).held = m.held /\ Piece(m).at = m.at
BY DEF HoldsToken, Piece, OnExecutor

\* Of the exchanges that wrap there is a last one.
LEMMA LastWrappingExists ==
    ASSUME Built, NEW i \in 1..NPaths, NEW j \in 1..LastSwap(i), NEW P, AnyWraps(P, i, j)
    PROVE  \E q \in OfSwap(i, j) : LastWrapping(P, q)
<1> DEFINE N == ExchangeCount(i, j)
           Bad == {n \in Nat : \E q \in OfSwap(i, j) : P[q].answer.wrap /\ n = N - q[3]}
<1>1. \A q \in OfSwap(i, j) : q \in Positions(route) /\ q[1] = i /\ q[2] = j
  BY InSwapHas
<1>2. N \in Nat /\ \A q \in OfSwap(i, j) : q[3] \in Nat /\ q[3] \in 1..N
  <2>1. ASSUME NEW q \in OfSwap(i, j)
        PROVE  N \in Nat /\ q[3] \in Nat /\ q[3] \in 1..N
    <3>1. q \in Positions(route) /\ q[1] = i /\ q[2] = j
      BY <1>1
    <3> QED
      BY <3>1, OfSwapHas
  <2>2. \E q \in OfSwap(i, j) : TRUE
    BY DEF AnyWraps
  <2> QED
    BY <2>1, <2>2
<1> HIDE DEF N
<1>3. Bad # {} /\ Bad \subseteq Nat
  <2>1. PICK q \in OfSwap(i, j) : P[q].answer.wrap
    BY DEF AnyWraps
  <2>2. N - q[3] \in Nat
    BY <1>2
  <2>3. N - q[3] \in Bad
    BY <2>1, <2>2
  <2> QED
    BY <2>3
<1>4. PICK n \in Bad : \A m \in Bad : ~(m < n)
  <2> HIDE DEF Bad
  <2> QED
    BY <1>3, LeastNumber
<1>5. PICK q \in OfSwap(i, j) : P[q].answer.wrap /\ n = N - q[3]
  BY <1>4
<1>6. ASSUME NEW r \in OfSwap(i, j), r[3] > q[3], P[r].answer.wrap PROVE FALSE
  <2>1. N - r[3] \in Nat /\ N - r[3] < N - q[3]
    BY <1>2, <1>6
  <2>2. N - r[3] \in Bad
    BY <1>6, <2>1
  <2> QED
    BY <1>4, <1>5, <2>1, <2>2
<1>7. q[1] = i /\ q[2] = j
  BY <1>1
<1> QED
  BY <1>5, <1>6, <1>7 DEF LastWrapping

\* All members of a split have returned.
LEMMA AllMembers ==
    ASSUME Built, NEW i \in 1..NPaths, NEW j \in 1..LastSwap(i)
    PROVE  {q \in OfSwap(i, j) : q[3] <= ExchangeCount(i, j)} = OfSwap(i, j)
<1>1. ASSUME NEW q \in OfSwap(i, j) PROVE q[3] <= ExchangeCount(i, j)
  <2>1. q \in Positions(route) /\ q[1] = i /\ q[2] = j
    BY InSwapHas
  <2>2. q[3] \in 1..ExchangeCount(i, j) /\ ExchangeCount(i, j) \in Nat
    BY <2>1, OfSwapHas
  <2> QED
    BY <2>2
<1> QED
  BY <1>1

\* The machine behind a join of what the members have left, A, with what was aside
\* around it, B.
JoinedFrom(t, A, B, measured) ==
    LET next == NextOf(A, measured)
        found == {p \in A : p.at = "executor" /\ p.held \in measured}
    IN
    /\ t.machine = [held |-> next.held, at |-> next.at, exact |-> found # {}, granted |-> FALSE]
    /\ t.rest = A \ {next} /\ t.aside = B

\* What is measured is found; all is still there.
LEMMA JoinFinds ==
    ASSUME NEW A, A \subseteq Pieces, A # {}, NEW measured,
           NEW B, NEW t, JoinedFrom(t, A, B, measured)
    PROVE  /\ Piece(t.machine) \in A /\ t.rest = A \ {Piece(t.machine)}
           /\ t.rest \union {Piece(t.machine)} = A /\ t.aside = B
           /\ \A token : measured = {token} /\ OnExecutor(token) \in A => HoldsToken(t.machine, token)
<1> DEFINE next == NextOf(A, measured)
           found == {p \in A : p.at = "executor" /\ p.held \in measured}
<1>1. next \in A /\ (found # {} => next \in found)
  BY NextIs
<1> DEFINE e == found # {}
           g == FALSE
<1>2. t.machine = [held |-> next.held, at |-> next.at, exact |-> e, granted |-> g]
      /\ t.rest = A \ {next} /\ t.aside = B
  BY DEF JoinedFrom
<1>3. t.machine.held = next.held /\ t.machine.at = next.at /\ (t.machine.exact <=> e)
  <2> HIDE DEF next, e, g
  <2> QED
    BY <1>2
<1>4. Piece(t.machine) = next
  <2>1. next \in Pieces
    BY <1>1
  <2>2. next = [held |-> next.held, at |-> next.at]
    <3> HIDE DEF next
    <3> QED
      BY <2>1 DEF Pieces
  <2> QED
    BY <1>3, <2>2 DEF Piece
<1>5. ASSUME NEW token, measured = {token}, OnExecutor(token) \in A
      PROVE  HoldsToken(t.machine, token)
  <2>1. OnExecutor(token) \in found
    BY <1>5, PiecesDiffer
  <2>2. next.at = "executor" /\ next.held = token /\ e
    BY <1>1, <1>5, <2>1
  <2> QED
    BY <1>3, <2>2 DEF HoldsToken
<1> HIDE DEF next, found, e, g
<1>6. (A \ {next}) \union {next} = A
  BY <1>1
<1> QED
  BY <1>1, <1>2, <1>4, <1>5, <1>6

\* What the exchanges of a swap leave together.
AllHold(i, j, A) ==
    LET token == SwapOf(i, j).dest IN
    IF j < LastSwap(i)
    THEN IF token # ETH THEN A \subseteq {OnExecutor(token)}
         ELSE /\ A \subseteq {Eth1, Weth1}
              /\ Weth1 \in A => AnyWraps(Primaries, i, j) /\ ~AnyWithdraws(i, j)
              /\ Eth1 \in A <=> AnyRaw(Primaries, i, j)
    ELSE IF route.dest # ETH THEN A \subseteq {Delivered}
    ELSE /\ A \subseteq {Eth1, Weth1, Delivered}
         /\ IF Several
            THEN /\ ~RootUnwraps(Primaries) => A \subseteq {Delivered}
                 /\ AnyWraps(Primaries, i, j) => Weth1 \in A
            ELSE A \subseteq {Delivered}

\* Once all exchanges have returned, what they leave together is there.
LEMMA AllHeld ==
    ASSUME Built, NEW i \in 1..NPaths, NEW j \in 1..LastSwap(i), NEW A,
           MembersHold(i, j, ExchangeCount(i, j), A)
    PROVE  AllHold(i, j, A)
<1> DEFINE first == {q \in OfSwap(i, j) : q[3] <= ExchangeCount(i, j)}
           token == SwapOf(i, j).dest
<1>1. first = OfSwap(i, j)
  BY AllMembers
<1>2. /\ \A q \in OfSwap(i, j) : Wraps(q) <=> Primaries[q].answer.wrap
      /\ AnyWraps(Primaries, i, j) <=> \E q \in OfSwap(i, j) : Wraps(q)
      /\ AnyRaw(Primaries, i, j) <=> \E q \in OfSwap(i, j) : ~Wraps(q)
      /\ AnyWithdraws(i, j) <=> \E q \in OfSwap(i, j) : Withdraws(Primaries, q)
  BY DEF Wraps, AnyWraps, AnyRaw, AnyWithdraws
<1>3. AnyWraps(Primaries, i, j) => \E q \in OfSwap(i, j) : LastWrapping(Primaries, q)
  BY LastWrappingExists
<1>4. IF j < LastSwap(i)
       THEN IF token # ETH THEN A \subseteq {OnExecutor(token)}
            ELSE /\ A \subseteq {Eth1, Weth1}
                 /\ Weth1 \in A => /\ \E q \in first : Wraps(q)
                                   /\ \A q \in first : ~Withdraws(Primaries, q)
                 /\ Eth1 \in A => AnyRaw(Primaries, i, j)
                 /\ (\E q \in first : ~Wraps(q)) => Eth1 \in A
       ELSE IF route.dest # ETH THEN A \subseteq {Delivered}
       ELSE /\ A \subseteq {Eth1, Weth1, Delivered}
            /\ IF Several
               THEN /\ ~RootUnwraps(Primaries) => A \subseteq {Delivered}
                    /\ (\E q \in first : Wraps(q)) => Weth1 \in A
               ELSE /\ ~AnyWraps(Primaries, i, j) \/ (\E q \in first : LastWrapping(Primaries, q))
                        => A \subseteq {Delivered}
                    /\ Weth1 \in A => \E q \in first : Wraps(q)
  BY DEF MembersHold
<1> HIDE DEF first, token
<1>5. CASE j < LastSwap(i)
  BY <1>1, <1>2, <1>4, <1>5 DEF AllHold, token
<1>6. CASE ~(j < LastSwap(i))
  BY <1>1, <1>2, <1>3, <1>4, <1>6 DEF AllHold, token
<1> QED
  BY <1>5, <1>6

\* The exchange that unwraps for its swap where some take what the next takes raw.
LEMMA UnwrapsForNext ==
    ASSUME Built, NEW i \in 1..NPaths, NEW j \in 1..LastSwap(i), j < LastSwap(i),
           SwapOf(i, j).dest = ETH, AnyWraps(Primaries, i, j), AnyRaw(Primaries, i, j),
           ~AppendsWrap(i, j)
    PROVE  AnyWithdraws(i, j)
<1>1. "deposit" \notin plan
  BY DEF AppendsWrap, SwapOf
<1>2. EachRaw(Primaries, i, j + 1) /\ "withdraw" \in plan
  BY <1>1, MidEth
<1>3. PICK q \in OfSwap(i, j) : LastWrapping(Primaries, q)
  BY LastWrappingExists
<1>4. q \in Positions(route) /\ q[1] = i /\ q[2] = j
  BY InSwapHas
<1>5. Swap(route, q).dest = ETH /\ ~IsLastSwap(route, q)
  <2>1. j \in Nat /\ LastSwap(i) \in Nat
    BY InSwapHas
  <2> QED
    BY <1>4, <2>1, OfSwapHas
<1>6. UnwrapsForSwap(Primaries, q)
  BY <1>2, <1>3, <1>4, <1>5 DEF UnwrapsForSwap
<1>7. Withdraws(Primaries, q)
  BY <1>2, <1>4, <1>5, <1>6 DEF Withdraws
<1> QED
  BY <1>7 DEF AnyWithdraws

\* What the split of a swap, and a group, measures: the form that the next swap, or the
\* root's unwrap, takes.
LEMMA MeasuredIs ==
    ASSUME Built, NEW i \in 1..NPaths, NEW j \in 1..LastSwap(i), NEW pos \in OfSwap(i, j)
    PROVE  Measured(pos) =
             IF j = LastSwap(i)
             THEN IF route.dest = ETH /\ AnyWraps(Primaries, i, j) THEN {WETH} ELSE {}
             ELSE IF SwapOf(i, j).dest = ETH /\ AnyRaw(Primaries, i, j) THEN {ETH}
             ELSE {WrappedForm(SwapOf(i, j).dest)}
<1>1. pos \in Positions(route) /\ pos[1] = i /\ pos[2] = j
  BY InSwapHas
<1>2. Swap(route, pos) = SwapOf(i, j) /\ (IsLastSwap(route, pos) <=> j = LastSwap(i))
  BY <1>1, OfSwapHas
<1> QED
  BY <1>1, <1>2 DEF Measured

\* The join of a swap works on the form that comes next: the one that is taken by the
\* wrap behind it, by the next swap or by the root.
LEMMA SwapJoins ==
    ASSUME Built, Sound, NEW i \in 1..NPaths, NEW j \in 1..LastSwap(i), IsSplit(<<i, j, 1>>),
           NEW A, A # {}, A \subseteq Pieces, MembersHold(i, j, ExchangeCount(i, j), A),
           NEW B, OuterHold(i, B),
           NEW t, JoinedFrom(t, A, B, IF Several THEN Measured(<<i, j, 1>>) ELSE {})
    PROVE  IF j = LastSwap(i) THEN PathLeft(t, i) ELSE BareLeft(t, i, j)
<1> DEFINE m == IF Several THEN Measured(<<i, j, 1>>) ELSE {}
           token == SwapOf(i, j).dest
<1>1. AllHold(i, j, A)
  BY AllHeld
<1>2. <<i, j, 1>> \in OfSwap(i, j) /\ j \in Nat /\ LastSwap(i) \in Nat
  BY InSwapHas
<1>3. Measured(<<i, j, 1>>) =
             IF j = LastSwap(i)
             THEN IF route.dest = ETH /\ AnyWraps(Primaries, i, j) THEN {WETH} ELSE {}
             ELSE IF SwapOf(i, j).dest = ETH /\ AnyRaw(Primaries, i, j) THEN {ETH}
             ELSE {WrappedForm(SwapOf(i, j).dest)}
  BY <1>2, MeasuredIs
<1>4. /\ Piece(t.machine) \in A /\ t.rest = A \ {Piece(t.machine)}
      /\ t.rest \union {Piece(t.machine)} = A /\ t.aside = B
      /\ \A tk : m = {tk} /\ OnExecutor(tk) \in A => HoldsToken(t.machine, tk)
  <2> HIDE DEF m
  <2>1. JoinedFrom(t, A, B, m)
    BY DEF m
  <2> QED
    BY <2>1, JoinFinds
<1>5. AnyWraps(Primaries, i, j) \/ AnyRaw(Primaries, i, j)
  BY InSwapHas
<1>6. ASSUME j < LastSwap(i) PROVE BareLeft(t, i, j)
  <2>1. Several
    <3>1. ~Several => LastSwap(1) = 1 /\ NPaths = 1
      BY BuiltShape
    <3>2. NPaths = 1 => i = 1
      OBVIOUS
    <3> QED
      BY <1>2, <1>6, <3>1, <3>2
  <2>2. j + 1 \in 1..LastSwap(i) /\ SwapOf(i, j + 1).src = token
    BY <1>2, <1>6, SwapsFollow
  <2>3. (j + 1) - 1 = j /\ j + 1 # 1
    BY <1>2
  <2>4. AppendsWrap(i, j) => token = ETH /\ AnyRaw(Primaries, i, j)
    BY DEF AppendsWrap, SwapOf
  <2>5. m = IF token = ETH /\ AnyRaw(Primaries, i, j) THEN {ETH} ELSE {WrappedForm(token)}
    BY <1>2, <1>3, <1>6, <2>1
  <2>6. FormBefore(i, j + 1) =
            IF token = ETH /\ (AppendsWrap(i, j) \/ (EachWraps(Primaries, i, j) /\ ~AnyWithdraws(i, j)))
            THEN WETH ELSE token
    BY <2>2, <2>3 DEF FormBefore
  <2>7. CASE token # ETH
    <3>1. A = {OnExecutor(token)}
      BY <1>1, <1>6, <2>7 DEF AllHold
    <3>2. m = {token}
      BY <2>5, <2>7 DEF WrappedForm
    <3>3. HoldsToken(t.machine, token) /\ t.rest = {}
      <4>1. OnExecutor(token) \in A
        BY <3>1
      <4> HIDE DEF m
      <4>2. HoldsToken(t.machine, token)
        BY <1>4, <3>2, <4>1
      <4> QED
        BY <1>4, <3>1, <4>2
    <3> QED
      BY <1>4, <2>4, <2>6, <2>7, <3>3 DEF BareLeft, SwapLeft
  <2>8. CASE token = ETH /\ AnyRaw(Primaries, i, j)
    <3>1. A \subseteq {Eth1, Weth1} /\ Eth1 \in A
          /\ (Weth1 \in A => AnyWraps(Primaries, i, j) /\ ~AnyWithdraws(i, j))
      BY <1>1, <1>6, <2>8 DEF AllHold
    <3>2. m = {ETH}
      BY <2>5, <2>8
    <3>3. HoldsToken(t.machine, ETH)
      <4>1. OnExecutor(ETH) \in A
        BY <3>1, PiecesDiffer
      <4> HIDE DEF m
      <4> QED
        BY <1>4, <3>2, <4>1
    <3>4. t.rest \subseteq {Weth1} /\ (t.rest # {} => Weth1 \in A)
      <4>1. Piece(t.machine) = Eth1
        BY <3>3, HeldIs, PiecesDiffer
      <4> QED
        BY <1>4, <3>1, <4>1
    <3>5. CASE AppendsWrap(i, j)
      BY <1>4, <3>3, <3>4, <3>5 DEF BareLeft
    <3>6. CASE ~AppendsWrap(i, j)
      <4>1. t.rest = {}
        BY <1>6, <2>8, <3>1, <3>4, <3>6, UnwrapsForNext
      <4>2. FormBefore(i, j + 1) = ETH
        BY <2>6, <2>8, <3>6 DEF EachWraps
      <4> QED
        BY <1>4, <3>3, <3>6, <4>1, <4>2 DEF BareLeft, SwapLeft
    <3> QED
      BY <3>5, <3>6
  <2>9. CASE token = ETH /\ ~AnyRaw(Primaries, i, j)
    <3>1. A = {Weth1} /\ ~AnyWithdraws(i, j)
      <4>1. A \subseteq {Eth1, Weth1} /\ Eth1 \notin A /\ (Weth1 \in A => ~AnyWithdraws(i, j))
        BY <1>1, <1>6, <2>9 DEF AllHold
      <4> QED
        BY <4>1
    <3>2. m = {WETH}
      BY <2>5, <2>9 DEF WrappedForm
    <3>3. HoldsToken(t.machine, WETH) /\ t.rest = {}
      <4>1. OnExecutor(WETH) \in A
        BY <3>1, PiecesDiffer
      <4> HIDE DEF m
      <4>2. HoldsToken(t.machine, WETH)
        BY <1>4, <3>2, <4>1
      <4> QED
        BY <1>4, <3>1, <4>2
    <3>4. EachWraps(Primaries, i, j) /\ ~AppendsWrap(i, j)
      BY <1>5, <2>4, <2>9 DEF EachWraps
    <3> QED
      BY <1>4, <2>6, <2>9, <3>1, <3>3, <3>4 DEF BareLeft, SwapLeft
  <2> QED
    BY <2>7, <2>8, <2>9
<1>7. ASSUME j = LastSwap(i) PROVE PathLeft(t, i)
  <2>0. ~(j < LastSwap(i))
    BY <1>2, <1>7
  <2>1. CASE IsMegaSwap(route)
    <3>1. Several
      BY <2>1 DEF Several
    <3>2. Everything(t) = B \union A
      BY <1>4 DEF Everything
    <3>3. PathsHold(i - 1, B)
      BY <2>1 DEF OuterHold
    <3>4. PathsHold(i, B \union A)
      <4>1. CASE route.dest # ETH
        BY <1>1, <2>0, <3>3, <4>1 DEF PathsHold, AllHold
      <4>2. CASE route.dest = ETH
        <5>1. A \subseteq {Eth1, Weth1, Delivered}
              /\ (~RootUnwraps(Primaries) => A \subseteq {Delivered})
              /\ (AnyWraps(Primaries, i, j) => Weth1 \in A)
          BY <1>1, <2>0, <3>1, <4>2 DEF AllHold
        <5>2. B \subseteq {Eth1, Weth1, Delivered}
              /\ (~RootUnwraps(Primaries) => B \subseteq {Delivered})
              /\ ((\E n \in 1..(i - 1) : AnyWraps(Primaries, n, LastSwap(n))) => Weth1 \in B)
          BY <3>3, <4>2 DEF PathsHold
        <5>3. ASSUME NEW n \in 1..i, AnyWraps(Primaries, n, LastSwap(n)) PROVE Weth1 \in B \union A
          <6>1. i \in Nat
            BY InSwapHas
          <6>2. n = i \/ n \in 1..(i - 1)
            BY <6>1
          <6> QED
            BY <1>7, <5>1, <5>2, <5>3, <6>2
        <5> QED
          BY <4>2, <5>1, <5>2, <5>3 DEF PathsHold
      <4> QED
        BY <4>1, <4>2
    <3> QED
      BY <2>1, <3>2, <3>4 DEF PathLeft
  <2>2. CASE ~IsMegaSwap(route)
    <3>1. t.aside = {} /\ NPaths = 1 /\ i = 1
      BY <1>4, <2>2, PathsLie, BuiltShape DEF OuterHold
    <3>2. CASE Several /\ RootUnwraps(Primaries)
      <4>1. route.dest = ETH /\ AnyWraps(Primaries, i, j)
        <5>1. DOMAIN route.paths = 1..NPaths
          BY BuiltShape, RouteShape
        <5>2. PICK n \in 1..NPaths : AnyWraps(Primaries, n, LastSwap(n)) /\ route.dest = ETH
          BY <3>2, <5>1 DEF RootUnwraps
        <5>3. n = i
          BY <3>1
        <5> QED
          BY <1>7, <5>2, <5>3
      <4>2. m = {WETH} /\ Weth1 \in A /\ A \subseteq {Eth1, Weth1, Delivered}
        BY <1>1, <1>3, <1>7, <2>0, <3>2, <4>1 DEF AllHold
      <4>3. HoldsToken(t.machine, WETH)
        <5>1. OnExecutor(WETH) \in A
          BY <4>2, PiecesDiffer
        <5> HIDE DEF m
        <5> QED
          BY <1>4, <4>2, <5>1
      <4>4. t.rest \subseteq {Eth1, Delivered}
        <5>1. Piece(t.machine) = Weth1
          BY <4>3, HeldIs, PiecesDiffer
        <5> QED
          BY <1>4, <4>2, <5>1
      <4> QED
        BY <2>2, <3>1, <3>2, <4>3, <4>4 DEF PathLeft, AllLeft
    <3>3. CASE ~(Several /\ RootUnwraps(Primaries))
      <4>1. A \subseteq {Delivered}
        BY <1>1, <2>0, <3>3 DEF AllHold
      <4>2. Piece(t.machine) = Delivered /\ t.rest = {}
        BY <1>4, <4>1
      <4> QED
        BY <2>2, <3>1, <3>3, <4>2 DEF PathLeft, AllLeft
    <3> QED
      BY <3>2, <3>3
  <2> QED
    BY <2>1, <2>2
<1>8. j < LastSwap(i) \/ j = LastSwap(i)
  BY <1>2
<1> QED
  BY <1>2, <1>6, <1>7, <1>8

\* The join of the root works on WETH where that is to be unwrapped, and on what has
\* been delivered otherwise.
LEMMA RootJoins ==
    ASSUME Built, IsMegaSwap(route), NEW A, A # {}, A \subseteq Pieces, PathsHold(NPaths, A),
           NEW t, JoinedFrom(t, A, {}, RootMeasured)
    PROVE  AllLeft(t)
<1>1. /\ Piece(t.machine) \in A /\ t.rest = A \ {Piece(t.machine)} /\ t.aside = {}
      /\ \A token : RootMeasured = {token} /\ OnExecutor(token) \in A => HoldsToken(t.machine, token)
  <2> DEFINE none == {}
             m == RootMeasured
  <2>1. JoinedFrom(t, A, none, m)
    OBVIOUS
  <2> HIDE DEF none, m
  <2>2. /\ Piece(t.machine) \in A /\ t.rest = A \ {Piece(t.machine)} /\ t.aside = none
        /\ \A token : m = {token} /\ OnExecutor(token) \in A => HoldsToken(t.machine, token)
    BY <2>1, JoinFinds
  <2> QED
    BY <2>2 DEF none, m
<1>2. Several
  BY DEF Several
<1>3. CASE RootUnwraps(Primaries)
  <2>1. NeedUnwrapEth
    BY <1>2, <1>3, SentIsUnwrapped DEF SendsAtRoot, UnwrapsAtRoot
  <2>2. RootMeasured = {WETH}
    BY <1>3, <2>1 DEF RootMeasured
  <2>3. route.dest = ETH /\ \E n \in 1..NPaths : AnyWraps(Primaries, n, LastSwap(n))
    <3>1. DOMAIN route.paths = 1..NPaths
      BY BuiltShape, RouteShape
    <3> QED
      BY <1>3, <3>1 DEF RootUnwraps
  <2>4. Weth1 \in A /\ A \subseteq {Eth1, Weth1, Delivered}
    BY <2>3 DEF PathsHold
  <2>5. HoldsToken(t.machine, WETH)
    BY <1>1, <2>2, <2>4, PiecesDiffer
  <2>6. Piece(t.machine) = Weth1
    BY <2>5, HeldIs, PiecesDiffer
  <2>7. t.rest \subseteq {Eth1, Delivered}
    BY <1>1, <2>4, <2>6
  <2> QED
    BY <1>1, <1>2, <1>3, <2>5, <2>7 DEF AllLeft
<1>4. CASE ~RootUnwraps(Primaries)
  <2>1. A \subseteq {Delivered}
    BY <1>4 DEF PathsHold
  <2>2. Piece(t.machine) = Delivered /\ t.rest = {}
    BY <1>1, <2>1
  <2> QED
    BY <1>1, <1>4, <2>2 DEF AllLeft
<1> QED
  BY <1>3, <1>4

-----------------------------------------------------------------------------
(* Outside of exchanges: every step finds what it needs and leads on. *)

\* Outside of groups: a step that is there, is granted, finds what it needs and leads to
\* a place serves.
LEMMA IdleServed ==
    ASSUME NEW s, TypedState(s), Idle(s), NEW step, CodeHas(s.pc, step), StepTyped(s, step),
           IsGranted(s.machine, step), Sound => Finds(s, step) /\ Threads(s, step),
           \A t : Does(s, t, step) /\ TypedState(t) => Located(t)
    PROVE  Served(s)
<1>1. s.group.branch = "none"
  BY DEF Idle, NoGroup
<1>2. ~Ends(s) /\ \A t : ~Falls(s, t)
  BY <1>1 DEF Ends, Falls
<1>3. \A t : Does(s, t, step) => Located(t)
  BY DoesTyped
<1>4. ServedBy(s, step)
  BY <1>2, <1>3 DEF ServedBy
<1> QED
  BY <1>4 DEF Served

\* The steps of splits need no funds of their own.
LEMMA SplitStepsNeed ==
    ASSUME NEW s
    PROVE  /\ \A inserts : LET step == SplitStep(inserts) IN
                /\ IsGranted(s.machine, step) /\ StepTyped(s, step)
                /\ Finds(s, step) <=> s.machine.at = "executor" /\ s.rest = {}
                /\ Threads(s, step) <=> (inserts => s.machine.exact)
                /\ \A t : Does(s, t, step) => Splits(s, t)
           /\ \A token \in Tokens : LET step == MemberStep(token) IN
                /\ IsGranted(s.machine, step) /\ StepTyped(s, step)
                /\ Finds(s, step) <=> Piece(Last(s.frames).whole) = OnExecutor(token)
                /\ Threads(s, step)
                /\ \A t : Does(s, t, step) => Takes(s, t, token)
           /\ /\ IsGranted(s.machine, YieldStep) /\ StepTyped(s, YieldStep)
              /\ Finds(s, YieldStep) /\ Threads(s, YieldStep)
              /\ \A t : Does(s, t, YieldStep) => Yields(s, t)
           /\ \A measured : LET step == JoinStep(measured) IN
                /\ IsGranted(s.machine, step)
                /\ s.frames # <<>> /\ s.aside # {} => StepTyped(s, step)
                /\ Finds(s, step) /\ Threads(s, step)
                /\ \A t : Does(s, t, step) => Joins(s, t, measured)
<1>1. ASSUME NEW inserts
      PROVE  LET step == SplitStep(inserts) IN
                /\ IsGranted(s.machine, step) /\ StepTyped(s, step)
                /\ Finds(s, step) <=> s.machine.at = "executor" /\ s.rest = {}
                /\ Threads(s, step) <=> (inserts => s.machine.exact)
                /\ \A t : Does(s, t, step) => Splits(s, t)
  <2> DEFINE step == SplitStep(inserts)
  <2>1. step.op = "split" /\ step.inserts = inserts
    BY StepsAre
  <2> HIDE DEF step
  <2>2. /\ IsGranted(s.machine, step) /\ StepTyped(s, step)
        /\ Finds(s, step) <=> s.machine.at = "executor" /\ s.rest = {}
        /\ Threads(s, step) <=> (inserts => s.machine.exact)
        /\ \A t : Does(s, t, step) => Splits(s, t)
    BY <2>1 DEF IsGranted, StepTyped, Finds, Threads, Does, IsFundsStep
  <2> QED
    BY <2>2 DEF step
<1>2. ASSUME NEW token \in Tokens
      PROVE  LET step == MemberStep(token) IN
                /\ IsGranted(s.machine, step) /\ StepTyped(s, step)
                /\ Finds(s, step) <=> Piece(Last(s.frames).whole) = OnExecutor(token)
                /\ Threads(s, step)
                /\ \A t : Does(s, t, step) => Takes(s, t, token)
  <2> DEFINE step == MemberStep(token)
  <2>1. step.op = "member" /\ step.token = token
    BY StepsAre
  <2> HIDE DEF step
  <2>2. /\ IsGranted(s.machine, step) /\ StepTyped(s, step)
        /\ Finds(s, step) <=> Piece(Last(s.frames).whole) = OnExecutor(token)
        /\ Threads(s, step)
        /\ \A t : Does(s, t, step) => Takes(s, t, token)
    BY <2>1 DEF IsGranted, StepTyped, Finds, Threads, Does, IsFundsStep
  <2> QED
    BY <2>2 DEF step
<1>3. /\ IsGranted(s.machine, YieldStep) /\ StepTyped(s, YieldStep)
      /\ Finds(s, YieldStep) /\ Threads(s, YieldStep)
      /\ \A t : Does(s, t, YieldStep) => Yields(s, t)
  BY StepsAre DEF IsGranted, StepTyped, Finds, Threads, Does, IsFundsStep
<1>4. ASSUME NEW measured
      PROVE  LET step == JoinStep(measured) IN
                /\ IsGranted(s.machine, step)
                /\ s.frames # <<>> /\ s.aside # {} => StepTyped(s, step)
                /\ Finds(s, step) /\ Threads(s, step)
                /\ \A t : Does(s, t, step) => Joins(s, t, measured)
  <2> DEFINE step == JoinStep(measured)
  <2>1. step.op = "join" /\ step.measured = measured
    BY StepsAre
  <2> HIDE DEF step
  <2>2. /\ IsGranted(s.machine, step)
        /\ s.frames # <<>> /\ s.aside # {} => StepTyped(s, step)
        /\ Finds(s, step) /\ Threads(s, step)
        /\ \A t : Does(s, t, step) => Joins(s, t, measured)
    BY <2>1 DEF IsGranted, StepTyped, Finds, Threads, Does, IsFundsStep
  <2> QED
    BY <2>2 DEF step
<1> QED
  BY <1>1, <1>2, <1>3, <1>4

\* A step on funds does its work.
LEMMA WorkIsDone ==
    ASSUME NEW s, NEW t, NEW step, IsFundsStep(step), Does(s, t, step)
    PROVE  Works(s, t, step)
  BY DEF Does

\* A wrap of what is held.
LEMMA PlainWrapWorks ==
    ASSUME NEW s, NEW t, s.machine \in Machines, Works(s, t, WrapStep)
    PROVE  Becomes(s, t, WETH, s.machine.at, s.machine.granted, s.machine.exact, {})
<1> DEFINE all == WrapStep = MeasuredWrapStep
<1>1. WrapStep.op = "wrap" /\ ~all
  BY StepsAre
<1>2. Becomes(s, t, WETH, s.machine.at, s.machine.granted, s.machine.exact \/ all,
              IF all THEN {[held |-> WETH, at |-> s.machine.at]} ELSE {})
  BY <1>1, WrapWorks
<1> HIDE DEF all
<1> QED
  BY <1>1, <1>2 DEF Becomes

\* A wrap that looks at the balance.
LEMMA MeasuredWrapWorks ==
    ASSUME NEW s, NEW t, s.machine \in Machines, Works(s, t, MeasuredWrapStep)
    PROVE  Becomes(s, t, WETH, s.machine.at, s.machine.granted, TRUE,
                   {[held |-> WETH, at |-> s.machine.at]})
<1> DEFINE all == MeasuredWrapStep = MeasuredWrapStep
<1>1. MeasuredWrapStep.op = "wrap" /\ all
  BY StepsAre
<1>2. Becomes(s, t, WETH, s.machine.at, s.machine.granted, s.machine.exact \/ all,
              IF all THEN {[held |-> WETH, at |-> s.machine.at]} ELSE {})
  BY <1>1, WrapWorks
<1> HIDE DEF all
<1> QED
  BY <1>1, <1>2 DEF Becomes

-----------------------------------------------------------------------------
(* At the root. *)

\* The root's wrap finds the ETH that is sold, and leads to the routes.
LEMMA RootWrapServed ==
    ASSUME Built, NEW s, TypedState(s), AtRootWrap(s)
    PROVE  Served(s)
<1>1. /\ RootAt = 1 /\ s.pc = 1 /\ Idle(s) /\ s.frames = <<>>
      /\ Sound => HoldsToken(s.machine, route.src) /\ s.rest = {} /\ s.aside = {}
  BY DEF AtRootWrap
<1>2. CodeHas(1, WrapStep) /\ NeedWrapEth /\ RootWraps(Primaries)
  BY <1>1, RootLies, BuiltShape
<1>3. route.src = ETH /\ RootToken = WETH
  BY <1>2 DEF NeedWrapEth, RootToken
<1>4. WrapStep.op = "wrap" /\ WrapStep # MeasuredWrapStep
  BY StepsAre
<1>5. /\ Finds(s, WrapStep) <=> s.machine.at = "executor" /\ s.machine.held = ETH
      /\ Threads(s, WrapStep) <=> s.machine.exact
      /\ IsGranted(s.machine, WrapStep) /\ StepTyped(s, WrapStep) /\ IsFundsStep(WrapStep)
  BY <1>4, StepsNeed
<1>6. ASSUME NEW t, Does(s, t, WrapStep)
      PROVE  Located(t)
  <2>1. Works(s, t, WrapStep)
    BY <1>5, <1>6, WorkIsDone
  <2>2. Becomes(s, t, WETH, s.machine.at, s.machine.granted, s.machine.exact, {})
    BY <2>1, <1>4, PlainWrapWorks DEF TypedState
  <2>3. /\ t.pc = 1 + 1 /\ Idle(t) /\ t.frames = <<>>
        /\ t.rest = s.rest \ {} /\ t.aside = s.aside \ {}
        /\ t.machine.held = WETH /\ t.machine.at = s.machine.at
        /\ t.machine.exact <=> s.machine.exact
    BY <2>2, <1>1 DEF Becomes, Idle
  <2>4. BeforeRoutes(t)
    BY <2>3, <1>1, <1>3 DEF BeforeRoutes, HoldsToken
  <2> QED
    BY <2>4, LocatedBeforeRoutes
<1>7. Sound => Finds(s, WrapStep) /\ Threads(s, WrapStep)
  BY <1>1, <1>3, <1>5 DEF HoldsToken
<1> QED
  BY <1>1, <1>2, <1>5, <1>6, <1>7, IdleServed

\* The share of a path is a place.
LEMMA LocatedAtPath ==
    ASSUME NEW i \in 1..NPaths, IsMegaSwap(route), NEW s, AtPath(s, i)
    PROVE  Located(s)
  BY LocatedIf

\* The root's split finds what is sold, or its wrapped form, and leads to its first
\* path.
LEMMA RoutesServed ==
    ASSUME Built, NEW s, TypedState(s), BeforeRoutes(s), IsMegaSwap(route)
    PROVE  Served(s)
<1>1. /\ s.pc = RootAt + 1 /\ Idle(s) /\ s.frames = <<>>
      /\ Sound => HoldsToken(s.machine, RootToken) /\ s.rest = {} /\ s.aside = {}
  BY DEF BeforeRoutes
<1>2. /\ CodeHas(RootAt + 1, SplitStep(FALSE)) /\ PathAt(1) = RootAt + 2
      /\ RootAt \in Nat
  BY PathsLie, RootLies, BuiltShape
<1>3. /\ IsGranted(s.machine, SplitStep(FALSE)) /\ StepTyped(s, SplitStep(FALSE))
      /\ Finds(s, SplitStep(FALSE)) <=> s.machine.at = "executor" /\ s.rest = {}
      /\ Threads(s, SplitStep(FALSE))
      /\ \A t : Does(s, t, SplitStep(FALSE)) => Splits(s, t)
  BY SplitStepsNeed
<1>4. 1 \in 1..NPaths
  BY RouteShape, BuiltShape
<1>5. ASSUME NEW t, Does(s, t, SplitStep(FALSE))
      PROVE  Located(t)
  <2> DEFINE f == [whole |-> s.machine, aside |-> s.aside]
  <2>1. /\ t.frames = Append(<<>>, f) /\ t.aside = {} /\ t.rest = s.rest
        /\ t.pc = RootAt + 1 + 1 /\ Idle(t)
    BY <1>1, <1>3, <1>5 DEF Splits, Idle
  <2>2. f \in FrameType /\ <<>> \in Seq(FrameType)
    BY EmptySeq DEF FrameType, TypedState
  <2>3. Len(t.frames) = 1 /\ t.frames[1] = f
    BY <2>1, <2>2
  <2>4. OnPath(t.frames)
    BY <2>3, <1>1, HeldIs DEF OnPath, RootDepth, RootGiven
  <2>5. t.pc = PathAt(1)
    BY <2>1, <1>2
  <2>6. Sound => t.rest = {} /\ PathsHold(1 - 1, t.aside)
    BY <1>1, <2>1 DEF PathsHold
  <2>7. AtPath(t, 1)
    BY <2>1, <2>4, <2>5, <2>6 DEF AtPath
  <2> QED
    BY <2>7, <1>4, LocatedAtPath
<1>6. Sound => Finds(s, SplitStep(FALSE)) /\ Threads(s, SplitStep(FALSE))
  BY <1>1, <1>3 DEF HoldsToken
<1> QED
  BY <1>1, <1>2, <1>3, <1>5, <1>6, IdleServed

\* A path's share is what the root split, and leads to its first swap.
LEMMA PathServed ==
    ASSUME Built, NEW s, TypedState(s), NEW i \in 1..NPaths, AtPath(s, i), IsMegaSwap(route)
    PROVE  Served(s)
<1> DEFINE step == MemberStep(PathToken(i))
<1>1. /\ s.pc = PathAt(i) /\ Idle(s) /\ OnPath(s.frames)
      /\ Sound => s.rest = {} /\ PathsHold(i - 1, s.aside)
  BY DEF AtPath
<1>2. CodeHas(PathAt(i), step) /\ PathAt(i) = SwapAt(i, 1) /\ SwapAt(i, 1) \in Nat
  <2>1. 1 \in 1..LastSwap(i)
    BY RouteShape, BuiltShape
  <2> QED
    BY <2>1, PathsLie, SwapsLie, BuiltShape
<1>3. PathToken(i) = RootToken /\ RootToken \in Tokens
  BY PathsMeetRoot, TokenAssumption, SwapsFollow, RouteShape, BuiltShape DEF RootToken
<1>4. /\ IsGranted(s.machine, step) /\ StepTyped(s, step)
      /\ Finds(s, step) <=> Piece(Last(s.frames).whole) = OnExecutor(RootToken)
      /\ Threads(s, step)
      /\ \A t : Does(s, t, step) => Takes(s, t, RootToken)
  BY <1>3, SplitStepsNeed
<1>5. Sound => Piece(Last(s.frames).whole) = OnExecutor(RootToken)
  <2>1. Len(s.frames) = 1 /\ Last(s.frames) = s.frames[1]
    BY <1>1 DEF OnPath, RootDepth, Last
  <2> QED
    BY <1>1, <2>1 DEF OnPath, RootGiven
<1> HIDE DEF step
<1>6. ASSUME NEW t, Does(s, t, step)
      PROVE  Located(t)
  <2>1. /\ t.machine = Given(RootToken, TRUE) /\ t.rest = s.rest /\ t.aside = s.aside
        /\ t.pc = s.pc + 1 /\ t.frames = s.frames /\ Idle(t)
    BY <1>1, <1>4, <1>6 DEF Takes, Idle
  <2>2. HoldsToken(t.machine, FormBefore(i, 1))
    BY <2>1 DEF HoldsToken, Given, FormBefore
  <2>3. Sound => OuterHold(i, t.aside)
    BY <1>1, <2>1 DEF OuterHold
  <2>4. BeforeSwap(t, i, 1)
    BY <1>1, <1>2, <2>1, <2>2, <2>3 DEF BeforeSwap
  <2>5. 1 \in 1..LastSwap(i)
    BY RouteShape, BuiltShape
  <2> QED
    BY <2>4, <2>5, LocatedBeforeSwap
<1> QED
  BY <1>1, <1>2, <1>4, <1>5, <1>6, IdleServed

\* A path's yield leads to the next path, or to the join.
LEMMA BehindPathServed ==
    ASSUME Built, NEW s, TypedState(s), NEW i \in 1..NPaths, BehindPath(s, i), IsMegaSwap(route)
    PROVE  Served(s)
<1>1. /\ s.pc = PathEnd(i) + 1 /\ Idle(s) /\ OnPath(s.frames)
      /\ Sound => PathsHold(i, Everything(s))
  BY DEF BehindPath, PathLeft
<1>2. CodeHas(PathEnd(i) + 1, YieldStep) /\ PathEnd(i) \in Nat
  BY PathsLie, BuiltShape
<1>3. /\ IsGranted(s.machine, YieldStep) /\ StepTyped(s, YieldStep)
      /\ Finds(s, YieldStep) /\ Threads(s, YieldStep)
      /\ \A t : Does(s, t, YieldStep) => Yields(s, t)
  BY SplitStepsNeed
<1>4. ASSUME NEW t, Does(s, t, YieldStep)
      PROVE  Located(t)
  <2>1. /\ t.aside = Everything(s) /\ t.rest = {} /\ t.pc = PathEnd(i) + 1 + 1
        /\ t.frames = s.frames /\ Idle(t)
    BY <1>1, <1>3, <1>4 DEF Yields, Idle, Everything
  <2>2. t.pc = PathEnd(i) + 2
    BY <2>1, <1>2
  <2>3. i \in Nat /\ NPaths \in Nat
    BY RouteShape, BuiltShape
  <2>4. CASE i < NPaths
    <3>1. PathAt(i + 1) = PathEnd(i) + 2
      BY <2>4, PathsLie, BuiltShape
    <3>2. i + 1 \in 1..NPaths /\ (i + 1) - 1 = i
      BY <2>3, <2>4
    <3>3. AtPath(t, i + 1)
      BY <1>1, <2>1, <2>2, <3>1, <3>2 DEF AtPath
    <3> QED
      BY <3>2, <3>3, LocatedAtPath
  <2>5. CASE ~(i < NPaths)
    <3>1. i = NPaths
      BY <2>3, <2>5
    <3>2. t.pc = RoutesEnd
      BY <2>2, <3>1, PathsLie, BuiltShape
    <3>3. t.aside # {}
      BY <2>1 DEF Everything
    <3>4. AtRootJoin(t)
      BY <1>1, <2>1, <3>1, <3>2, <3>3 DEF AtRootJoin
    <3> QED
      BY <3>4, LocatedIf DEF AtRoot
  <2> QED
    BY <2>4, <2>5
<1> QED
  BY <1>1, <1>2, <1>3, <1>4, IdleServed

\* The join of the root leads behind the routes.
LEMMA RootJoinServed ==
    ASSUME Built, NEW s, TypedState(s), AtRootJoin(s), IsMegaSwap(route)
    PROVE  Served(s)
<1> DEFINE step == JoinStep(RootMeasured)
<1>1. /\ s.pc = RoutesEnd /\ Idle(s) /\ OnPath(s.frames) /\ s.aside # {}
      /\ Sound => s.rest = {} /\ PathsHold(NPaths, s.aside)
  BY DEF AtRootJoin
<1>2. CodeHas(RoutesEnd, step) /\ RoutesEnd \in Nat
  BY PathsLie, RootLies, BuiltShape
<1>3. Len(s.frames) = 1 /\ s.frames # <<>> /\ s.frames \in Seq(FrameType)
  <2>1. Len(s.frames) = 1
    BY <1>1 DEF OnPath, RootDepth
  <2>2. s.frames # <<>>
    <3>1. Len(<<>>) = 0
      BY EmptyIsSeq
    <3> QED
      BY <2>1, <3>1
  <2>3. s.frames \in Seq(FrameType)
    BY DEF TypedState
  <2> QED
    BY <2>1, <2>2, <2>3
<1>4. /\ IsGranted(s.machine, step) /\ StepTyped(s, step)
      /\ Finds(s, step) /\ Threads(s, step)
      /\ \A t : Does(s, t, step) => Joins(s, t, RootMeasured)
  BY <1>1, <1>3, SplitStepsNeed
<1> HIDE DEF step
<1>5. ASSUME NEW t, TypedState(t), Does(s, t, step)
      PROVE  Located(t)
  <2> DEFINE next == NextOf(s.aside, RootMeasured)
             found == {p \in s.aside : p.at = "executor" /\ p.held \in RootMeasured}
  <2>1. /\ t.machine = [held |-> next.held, at |-> next.at, exact |-> found # {}, granted |-> FALSE]
        /\ t.rest = s.aside \ {next}
        /\ t.aside = Last(s.frames).aside /\ t.frames = Front(s.frames)
        /\ t.pc = s.pc + 1 /\ t.group = s.group
    BY <1>4, <1>5, JoinsIs
  <2>2. Last(s.frames) = s.frames[1] /\ Front(s.frames) \in Seq(FrameType) /\ Len(Front(s.frames)) = 0
    <3>1. Len(Front(s.frames)) = 1 - 1
      BY <1>3, PoppedFrame
    <3> QED
      BY <3>1, <1>3, PoppedFrame
  <2>3. t.frames = <<>>
    BY <2>1, <2>2, NoFrames
  <2>4. Sound => s.frames[1].aside = {}
    BY <1>1 DEF OnPath, RootGiven
  <2>5. JoinedFrom(t, s.aside, Last(s.frames).aside, RootMeasured)
    BY <2>1 DEF JoinedFrom
  <2>6. ASSUME Sound PROVE AllLeft(t)
    <3>1. JoinedFrom(t, s.aside, {}, RootMeasured) /\ s.aside \subseteq Pieces
      BY <2>2, <2>4, <2>5, <2>6 DEF TypedState
    <3> QED
      BY <1>1, <2>6, <3>1, RootJoins
  <2>7. BehindRoutes(t)
    BY <1>1, <2>1, <2>3, <2>6 DEF BehindRoutes, Idle
  <2> QED
    BY <2>7, LocatedBehindRoutes
<1> QED
  BY <1>1, <1>2, <1>4, <1>5, IdleServed

\* The root's unwrap finds WETH, and leads to the send.
LEMMA RootUnwrapServed ==
    ASSUME Built, NEW s, TypedState(s), BehindRoutes(s), UnwrapsAtRoot
    PROVE  Served(s)
<1>1. /\ s.pc = RoutesEnd + 1 /\ Idle(s) /\ s.frames = <<>>
      /\ Sound => AllLeft(s)
  BY DEF BehindRoutes
<1>2. CodeHas(RoutesEnd + 1, UnwrapStep) /\ RoutesEnd \in Nat /\ SendAt = RoutesEnd + 1
  BY RootLies, BuiltShape DEF SendAt
<1>3. Several /\ RootUnwraps(Primaries) /\ SendsAtRoot
  BY DEF UnwrapsAtRoot, SendsAtRoot
<1>4. Sound => /\ s.aside = {} /\ HoldsToken(s.machine, WETH) /\ s.rest \subseteq {Eth1, Delivered}
  BY <1>1, <1>3 DEF AllLeft
<1>5. /\ Finds(s, UnwrapStep) <=> s.machine.at = "executor" /\ s.machine.held = WETH
      /\ Threads(s, UnwrapStep) <=> s.machine.exact
      /\ IsGranted(s.machine, UnwrapStep) /\ StepTyped(s, UnwrapStep) /\ IsFundsStep(UnwrapStep)
  BY StepsNeed
<1>6. ASSUME NEW t, Does(s, t, UnwrapStep)
      PROVE  Located(t)
  <2>1. Works(s, t, UnwrapStep)
    BY <1>5, <1>6, WorkIsDone
  <2>2. Becomes(s, t, ETH, s.machine.at, s.machine.granted, TRUE, {[held |-> ETH, at |-> s.machine.at]})
    BY <2>1, UnwrapWorks DEF TypedState
  <2>3. /\ t.machine.held = ETH /\ t.machine.at = s.machine.at /\ t.machine.exact
        /\ t.rest = s.rest \ {[held |-> ETH, at |-> s.machine.at]}
        /\ t.aside = s.aside \ {[held |-> ETH, at |-> s.machine.at]}
        /\ t.pc = s.pc + 1 /\ t.frames = s.frames /\ t.group = s.group
    BY <2>2 DEF Becomes
  <2>4. ASSUME Sound
        PROVE  t.aside = {} /\ t.rest \subseteq {Delivered} /\ HoldsToken(t.machine, ETH)
    <3>1. s.machine.at = "executor" /\ Eth1 = [held |-> ETH, at |-> s.machine.at]
      BY <1>4, <2>4 DEF HoldsToken, Eth1, OnExecutor
    <3> QED
      BY <1>4, <2>3, <2>4, <3>1 DEF HoldsToken
  <2>5. BeforeSend(t)
    BY <1>1, <1>2, <1>3, <2>3, <2>4 DEF BeforeSend, Idle
  <2> QED
    BY <2>5, LocatedBeforeSend
<1>7. Sound => Finds(s, UnwrapStep) /\ Threads(s, UnwrapStep)
  BY <1>4, <1>5 DEF HoldsToken
<1> QED
  BY <1>1, <1>2, <1>5, <1>6, <1>7, IdleServed

\* The send finds ETH, and leads to the end.
LEMMA SendServed ==
    ASSUME Built, NEW s, TypedState(s), BeforeSend(s), SendsAtRoot
    PROVE  Served(s)
<1>1. /\ s.pc = SendAt + 1 /\ Idle(s) /\ s.frames = <<>>
      /\ Sound => /\ s.aside = {} /\ s.rest \subseteq {Delivered} /\ HoldsToken(s.machine, ETH)
  BY DEF BeforeSend
<1>2. CodeHas(SendAt + 1, SendNativeStep) /\ EndAt = SendAt + 1
  BY RootLies, BuiltShape DEF EndAt
<1>3. route.dest = ETH
  BY DEF SendsAtRoot, RootUnwraps
<1>4. /\ Finds(s, SendNativeStep) <=> s.machine.at = "executor" /\ s.machine.held = ETH
      /\ Threads(s, SendNativeStep) <=> s.machine.exact
      /\ IsGranted(s.machine, SendNativeStep) /\ StepTyped(s, SendNativeStep)
      /\ IsFundsStep(SendNativeStep) /\ SendNativeStep.op = "sendNative"
  BY StepsNeed, StepsAre
<1>5. ASSUME NEW t, Does(s, t, SendNativeStep)
      PROVE  Located(t)
  <2>1. Works(s, t, SendNativeStep)
    BY <1>4, <1>5, WorkIsDone
  <2>2. Becomes(s, t, s.machine.held, "augustus", s.machine.granted, s.machine.exact, {})
    <3>1. "augustus" \in Places
      BY DEF Places
    <3> QED
      BY <2>1, <3>1, <1>4, MoveWorks DEF TypedState
  <2>3. /\ t.machine.held = s.machine.held /\ t.machine.at = "augustus"
        /\ t.rest = s.rest \ {} /\ t.aside = s.aside \ {}
        /\ t.pc = s.pc + 1 /\ t.frames = s.frames /\ t.group = s.group
    BY <2>2 DEF Becomes
  <2>4. Sound => Everything(t) = {Delivered}
    <3>1. Sound => Piece(t.machine) = Delivered
      BY <1>1, <1>3, <2>3 DEF HoldsToken, Piece, Delivered
    <3> QED
      BY <1>1, <2>3, <3>1 DEF Everything
  <2>5. AtEnd(t)
    BY <1>1, <1>2, <2>3, <2>4 DEF AtEnd, Idle
  <2> QED
    BY <2>5, LocatedIf DEF AtRoot
<1>6. Sound => Finds(s, SendNativeStep) /\ Threads(s, SendNativeStep)
  BY <1>1, <1>4 DEF HoldsToken
<1> QED
  BY <1>1, <1>2, <1>4, <1>5, <1>6, IdleServed

-----------------------------------------------------------------------------
(* On a path. *)

\* When a split starts its members have left nothing.
LEMMA NoMemberYet ==
    ASSUME Built, NEW i \in 1..NPaths, NEW j \in 1..LastSwap(i)
    PROVE  MembersHold(i, j, 0, {})
<1>1. \A q \in OfSwap(i, j) : ~(q[3] <= 0)
  <2> TAKE q \in OfSwap(i, j)
  <2>1. q \in Positions(route)
    BY InSwapHas
  <2>2. q[3] \in Nat \ {0}
    BY <2>1, OfSwapHas
  <2> QED
    BY <2>2
<1>2. {q \in OfSwap(i, j) : q[3] <= 0} = {}
  BY <1>1
<1> QED
  BY <1>2 DEF MembersHold

\* The share of an exchange is a place.
LEMMA LocatedAtMember ==
    ASSUME NEW pos \in Positions(route), IsSplit(pos), NEW s, AtMember(s, pos)
    PROVE  Located(s)
  BY LocatedIf

\* The split of a swap finds all of what the swap works on, and leads to its first
\* exchange.
LEMMA SwapSplitServed ==
    ASSUME Built, NEW s, TypedState(s), NEW i \in 1..NPaths, NEW j \in 1..LastSwap(i),
           BeforeSwap(s, i, j), IsSplit(<<i, j, 1>>)
    PROVE  Served(s)
<1> DEFINE step == SplitStep(Several)
           inserts == Several
<1>1. /\ s.pc = SwapAt(i, j) + 1 /\ Idle(s) /\ OnPath(s.frames)
      /\ Sound => HoldsToken(s.machine, FormBefore(i, j)) /\ s.rest = {} /\ OuterHold(i, s.aside)
  BY DEF BeforeSwap
<1>2. /\ CodeHas(SwapAt(i, j) + 1, step) /\ ExAt(<<i, j, 1>>) = SwapAt(i, j) + 2
      /\ SwapAt(i, j) \in Nat
  BY SplitSwapLies, SwapsLie, BuiltShape
<1>3. /\ IsGranted(s.machine, step) /\ StepTyped(s, step)
      /\ Finds(s, step) <=> s.machine.at = "executor" /\ s.rest = {}
      /\ Threads(s, step) <=> (inserts => s.machine.exact)
      /\ \A t : Does(s, t, step) => Splits(s, t)
  <2> HIDE DEF inserts
  <2>1. step = SplitStep(inserts)
    BY DEF inserts
  <2> HIDE DEF step
  <2> QED
    BY <2>1, SplitStepsNeed
<1>4. <<i, j, 1>> \in Positions(route)
  BY InSwapHas
<1> HIDE DEF step, inserts
<1>5. ASSUME NEW t, Does(s, t, step)
      PROVE  Located(t)
  <2> DEFINE f == [whole |-> s.machine, aside |-> s.aside]
  <2>1. /\ t.frames = Append(s.frames, f) /\ t.aside = {} /\ t.rest = s.rest
        /\ t.pc = SwapAt(i, j) + 1 + 1 /\ Idle(t)
    BY <1>1, <1>3, <1>5 DEF Splits, Idle
  <2>2. f \in FrameType /\ s.frames \in Seq(FrameType) /\ f.whole = s.machine /\ f.aside = s.aside
    BY DEF FrameType, TypedState
  <2> HIDE DEF f
  <2>3. /\ Len(t.frames) = RootDepth + 1 /\ t.frames[RootDepth + 1] = f
        /\ \A d \in 1..RootDepth : t.frames[d] = s.frames[d]
    <3>1. Len(s.frames) = RootDepth
      BY <1>1 DEF OnPath
    <3> QED
      BY <3>1, <2>1, <2>2, PushedFrame
  <2>4. RootGiven(s.frames) => RootGiven(t.frames)
    BY <2>3 DEF RootGiven, RootDepth
  <2>5. ASSUME Sound PROVE SwapGiven(t.frames, i, j)
    <3>1. Piece(f.whole) = OnExecutor(FormBefore(i, j)) /\ OuterHold(i, f.aside)
      BY <1>1, <2>2, <2>5, HeldIs
    <3> QED
      BY <1>1, <2>3, <2>4, <2>5, <3>1 DEF SwapGiven, OnPath
  <2>6. InSwap(t.frames, i, j)
    BY <2>3, <2>5 DEF InSwap
  <2>7. t.pc = ExAt(<<i, j, 1>>)
    BY <2>1, <1>2
  <2>8. Sound => t.rest = {} /\ MembersHold(i, j, 0, t.aside)
    BY <1>1, <2>1, NoMemberYet
  <2>9. AtMember(t, <<i, j, 1>>)
    BY <2>1, <2>6, <2>7, <2>8 DEF AtMember
  <2> QED
    BY <2>9, <1>4, LocatedAtMember
<1>6. Sound => Finds(s, step) /\ Threads(s, step)
  BY <1>1, <1>3 DEF HoldsToken
<1> QED
  BY <1>1, <1>2, <1>3, <1>5, <1>6, IdleServed

\* A position is one of its swap, which is split if it is; its share is of a token.
LEMMA InItsSwap ==
    ASSUME Built, NEW pos \in Positions(route)
    PROVE  /\ InRoute(pos[1], pos[2], pos[3]) /\ pos = <<pos[1], pos[2], pos[3]>>
           /\ IsSplit(pos) <=> IsSplit(<<pos[1], pos[2], 1>>)
           /\ ShareToken(pos) \in Tokens
<1>1. /\ pos[1] \in 1..NPaths /\ pos[2] \in 1..LastSwap(pos[1]) /\ pos[3] \in 1..ExchangeCount(pos[1], pos[2])
      /\ pos = <<pos[1], pos[2], pos[3]>> /\ Swap(route, pos) = SwapOf(pos[1], pos[2])
  BY OfSwapHas
<1>2. IsSplit(pos) <=> IsSplit(<<pos[1], pos[2], 1>>)
  BY DEF IsSplit
<1>3. SwapOf(pos[1], pos[2]).src \in Tokens
  BY <1>1, SwapsFollow
<1>4. ShareToken(pos) \in {WETH, Swap(route, pos).src}
  BY DEF ShareToken
<1> QED
  BY <1>1, <1>2, <1>3, <1>4, TokenAssumption DEF InRoute

\* An exchange's share is what its swap split, and leads to the exchange.
LEMMA MemberServed ==
    ASSUME Built, NEW s, TypedState(s), NEW pos \in Positions(route), IsSplit(pos), AtMember(s, pos)
    PROVE  Served(s)
<1> DEFINE step == MemberStep(ShareToken(pos))
           i == pos[1]
           j == pos[2]
<1>1. /\ s.pc = ExAt(pos) /\ Idle(s) /\ InSwap(s.frames, i, j)
      /\ Sound => s.rest = {} /\ MembersHold(i, j, pos[3] - 1, s.aside)
  BY DEF AtMember
<1>2. CodeHas(ExAt(pos), step) /\ ExAt(pos) \in Nat
  <2>1. /\ pos = <<i, j, pos[3]>> /\ i \in 1..NPaths /\ j \in 1..LastSwap(i)
        /\ pos[3] \in 1..ExchangeCount(i, j) /\ IsSplit(<<i, j, 1>>)
    BY InItsSwap DEF InRoute
  <2>2. CodeHas(ExAt(<<i, j, pos[3]>>), MemberStep(ShareToken(<<i, j, pos[3]>>))) /\ ExAt(<<i, j, pos[3]>>) \in Nat
    BY <2>1, SplitSwapLies, BuiltShape
  <2> QED
    BY <2>1, <2>2
<1>3. ShareToken(pos) \in Tokens
  BY InItsSwap
<1>4. /\ IsGranted(s.machine, step) /\ StepTyped(s, step)
      /\ Finds(s, step) <=> Piece(Last(s.frames).whole) = OnExecutor(ShareToken(pos))
      /\ Threads(s, step)
      /\ \A t : Does(s, t, step) => Takes(s, t, ShareToken(pos))
  BY <1>3, SplitStepsNeed
<1>5. Sound => Piece(Last(s.frames).whole) = OnExecutor(ShareToken(pos))
  <2>1. Last(s.frames) = s.frames[RootDepth + 1]
    BY <1>1 DEF InSwap, Last
  <2> QED
    BY <1>1, <2>1, SharesMeet DEF InSwap, SwapGiven
<1> HIDE DEF step
<1>6. ASSUME NEW t, Does(s, t, step)
      PROVE  Located(t)
  <2>1. /\ t.machine = Given(ShareToken(pos), TRUE) /\ t.rest = s.rest /\ t.aside = s.aside
        /\ t.pc = s.pc + 1 /\ t.frames = s.frames /\ Idle(t)
    BY <1>1, <1>4, <1>6 DEF Takes, Idle
  <2>2. HoldsToken(t.machine, ShareToken(pos))
    BY <2>1 DEF HoldsToken, Given
  <2>3. InExchange(t.frames, pos)
    BY <1>1, <2>1 DEF InExchange
  <2>4. Sound => HoldBefore(pos, t.aside)
    BY <1>1, <2>1 DEF HoldBefore
  <2>5. BeforeExchange(t, pos)
    BY <1>1, <2>1, <2>2, <2>3, <2>4 DEF BeforeExchange
  <2> QED
    BY <2>5, LocatedBeforeExchange
<1>7. Sound => Finds(s, step) /\ Threads(s, step)
  BY <1>4, <1>5
<1> QED
  BY <1>1, <1>2, <1>4, <1>6, <1>7, IdleServed

\* An exchange's yield leads to the next exchange, or to the join.
LEMMA YieldServed ==
    ASSUME Built, NEW s, TypedState(s), NEW pos \in Positions(route), IsSplit(pos),
           BehindExchange(s, pos)
    PROVE  Served(s)
<1> DEFINE i == pos[1]
           j == pos[2]
           k == pos[3]
<1>1. /\ s.pc = ExEnd(pos) + 1 /\ Idle(s) /\ InSwap(s.frames, i, j)
      /\ Sound => MembersHold(i, j, k, Everything(s))
  BY DEF BehindExchange, InExchange, ExchangeLeft
<1>2. /\ pos = <<i, j, k>> /\ i \in 1..NPaths /\ j \in 1..LastSwap(i)
      /\ k \in 1..ExchangeCount(i, j) /\ IsSplit(<<i, j, 1>>)
  BY InItsSwap DEF InRoute
<1>3. /\ CodeHas(ExEnd(pos) + 1, YieldStep) /\ ExEnd(pos) \in Nat
      /\ k < ExchangeCount(i, j) => ExAt(<<i, j, k + 1>>) = ExEnd(pos) + 2
      /\ ExEnd(<<i, j, ExchangeCount(i, j)>>) + 2 = BareEnd(i, j)
  <2>1. /\ CodeHas(ExEnd(<<i, j, k>>) + 1, YieldStep) /\ ExEnd(<<i, j, k>>) \in Nat
        /\ k < ExchangeCount(i, j) => ExAt(<<i, j, k + 1>>) = ExEnd(<<i, j, k>>) + 2
        /\ ExEnd(<<i, j, ExchangeCount(i, j)>>) + 2 = BareEnd(i, j)
    BY <1>2, SplitSwapLies, BuiltShape
  <2> QED
    BY <1>2, <2>1
<1>4. /\ IsGranted(s.machine, YieldStep) /\ StepTyped(s, YieldStep)
      /\ Finds(s, YieldStep) /\ Threads(s, YieldStep)
      /\ \A t : Does(s, t, YieldStep) => Yields(s, t)
  BY SplitStepsNeed
<1>5. ASSUME NEW t, Does(s, t, YieldStep)
      PROVE  Located(t)
  <2>1. /\ t.aside = Everything(s) /\ t.rest = {} /\ t.pc = ExEnd(pos) + 1 + 1
        /\ t.frames = s.frames /\ Idle(t)
    BY <1>1, <1>4, <1>5 DEF Yields, Idle, Everything
  <2>2. t.pc = ExEnd(pos) + 2
    BY <2>1, <1>3
  <2>3. k \in Nat /\ ExchangeCount(i, j) \in Nat
    BY OfSwapHas
  <2>4. CASE k < ExchangeCount(i, j)
    <3> DEFINE q == <<i, j, k + 1>>
    <3>1. k + 1 \in 1..ExchangeCount(i, j) /\ (k + 1) - 1 = k
      BY <2>3, <2>4
    <3>2. q[1] = i /\ q[2] = j /\ q[3] = k + 1
      OBVIOUS
    <3>3. q \in Positions(route) /\ IsSplit(q)
      <4>1. q \in Positions(route)
        BY <1>2, <3>1, PositionIs, BuiltShape DEF InRoute
      <4> QED
        BY <4>1, <1>2, <3>2 DEF IsSplit
    <3>4. t.pc = ExAt(q)
      BY <1>3, <2>2, <2>4
    <3> HIDE DEF q
    <3>5. q[3] - 1 = k
      BY <3>1, <3>2
    <3>6. AtMember(t, q)
      BY <1>1, <2>1, <3>2, <3>4, <3>5 DEF AtMember
    <3> QED
      BY <3>3, <3>6, LocatedAtMember
  <2>5. CASE ~(k < ExchangeCount(i, j))
    <3>1. k = ExchangeCount(i, j)
      BY <1>2, <2>3, <2>5
    <3>2. t.pc = BareEnd(i, j)
      BY <1>2, <1>3, <2>2, <3>1
    <3>3. t.aside # {}
      BY <2>1 DEF Everything
    <3>4. AtJoin(t, i, j)
      BY <1>1, <2>1, <3>1, <3>2, <3>3 DEF AtJoin
    <3> QED
      BY <1>2, <3>4, LocatedIf DEF OnSwap
  <2> QED
    BY <2>4, <2>5
<1> QED
  BY <1>1, <1>3, <1>4, <1>5, IdleServed

\* The join of a swap leads behind the swap.
LEMMA JoinServed ==
    ASSUME Built, NEW s, TypedState(s), NEW i \in 1..NPaths, NEW j \in 1..LastSwap(i),
           AtJoin(s, i, j), IsSplit(<<i, j, 1>>)
    PROVE  Served(s)
<1> DEFINE measured == IF Several THEN Measured(<<i, j, 1>>) ELSE {}
           step == JoinStep(measured)
<1>1. /\ s.pc = BareEnd(i, j) /\ Idle(s) /\ InSwap(s.frames, i, j) /\ s.aside # {}
      /\ Sound => s.rest = {} /\ MembersHold(i, j, ExchangeCount(i, j), s.aside)
  BY DEF AtJoin
<1>2. CodeHas(BareEnd(i, j), step) /\ BareEnd(i, j) \in Nat
  BY SplitSwapLies, SwapPartsLie, BuiltShape
<1>3. s.frames # <<>> /\ s.frames \in Seq(FrameType) /\ Len(s.frames) = RootDepth + 1
      /\ RootDepth \in {0, 1}
  <2>1. Len(s.frames) = RootDepth + 1 /\ RootDepth \in {0, 1}
    BY <1>1 DEF InSwap, RootDepth
  <2>2. s.frames # <<>>
    <3>1. Len(<<>>) = 0
      BY EmptyIsSeq
    <3> QED
      BY <2>1, <3>1
  <2> QED
    BY <2>1, <2>2 DEF TypedState
<1> HIDE DEF measured
<1>4. /\ IsGranted(s.machine, step) /\ StepTyped(s, step)
      /\ Finds(s, step) /\ Threads(s, step)
      /\ \A t : Does(s, t, step) => Joins(s, t, measured)
  BY <1>1, <1>3, SplitStepsNeed
<1> HIDE DEF step
<1>5. ASSUME NEW t, TypedState(t), Does(s, t, step)
      PROVE  Located(t)
  <2> DEFINE next == NextOf(s.aside, measured)
             found == {p \in s.aside : p.at = "executor" /\ p.held \in measured}
             outer == Last(s.frames).aside
  <2>1. /\ t.machine = [held |-> next.held, at |-> next.at, exact |-> found # {}, granted |-> FALSE]
        /\ t.rest = s.aside \ {next}
        /\ t.aside = outer /\ t.frames = Front(s.frames)
        /\ t.pc = s.pc + 1 /\ t.group = s.group
    BY <1>4, <1>5, JoinsIs
  <2>2. Last(s.frames) = s.frames[RootDepth + 1]
    BY <1>3 DEF Last
  <2>3. Len(t.frames) = RootDepth /\ \A d \in 1..RootDepth : t.frames[d] = s.frames[d]
    <3>1. Len(Front(s.frames)) = Len(s.frames) - 1 /\ \A d \in 1..(Len(s.frames) - 1) : Front(s.frames)[d] = s.frames[d]
      BY <1>3, PoppedFrame
    <3>2. Len(s.frames) - 1 = RootDepth
      BY <1>3
    <3> QED
      BY <2>1, <3>1, <3>2
  <2>4. RootGiven(s.frames) => RootGiven(t.frames)
    BY <2>3 DEF RootGiven, RootDepth
  <2>5. OnPath(t.frames)
    BY <1>1, <2>3, <2>4 DEF OnPath, InSwap, SwapGiven
  <2>6. Sound => OuterHold(i, outer)
    BY <1>1, <2>2 DEF InSwap, SwapGiven
  <2>7. JoinedFrom(t, s.aside, outer, measured)
    BY <2>1 DEF JoinedFrom
  <2> HIDE DEF outer
  <2>8. ASSUME Sound
        PROVE  IF j = LastSwap(i) THEN PathLeft(t, i) ELSE BareLeft(t, i, j)
    <3>1. s.aside \subseteq Pieces
      BY DEF TypedState
    <3> QED
      BY <1>1, <2>6, <2>7, <2>8, <3>1, SwapJoins DEF measured
  <2>9. BehindBare(t, i, j)
    BY <1>1, <2>1, <2>5, <2>8 DEF BehindBare, Idle
  <2> QED
    BY <1>5, <2>9, LocatedBehindBare
<1> QED
  BY <1>1, <1>2, <1>4, <1>5, IdleServed

\* The wrap behind a swap finds ETH, and leads to the next swap.
LEMMA AppendedWrapServed ==
    ASSUME Built, NEW s, TypedState(s), NEW i \in 1..NPaths, NEW j \in 1..LastSwap(i),
           BehindBare(s, i, j), AppendsWrap(i, j)
    PROVE  Served(s)
<1> DEFINE step == AppendedWrap(i, j)
           split == IsSplit(<<i, j, 1>>)
<1>1. j < LastSwap(i) /\ SwapOf(i, j).dest = ETH
  BY DEF AppendsWrap, SwapOf
<1>2. /\ s.pc = BareEnd(i, j) + 1 /\ Idle(s) /\ OnPath(s.frames)
      /\ Sound => /\ HoldsToken(s.machine, ETH) /\ OuterHold(i, s.aside)
                  /\ s.rest \subseteq IF split THEN {Weth1} ELSE {}
  <2>1. LastSwap(i) \in Nat /\ j \in Nat
    BY InSwapHas
  <2>2. j # LastSwap(i)
    BY <1>1, <2>1
  <2> QED
    BY <2>2 DEF BehindBare, BareLeft
<1>3. /\ CodeHas(BareEnd(i, j) + 1, step) /\ BareEnd(i, j) \in Nat
      /\ SwapAt(i, j + 1) = BareEnd(i, j) + 1
  <2>1. /\ CodeHas(BareEnd(i, j) + 1, step) /\ BareEnd(i, j) \in Nat
        /\ SwapEnd(i, j) = BareEnd(i, j) + 1
    BY SwapPartsLie, BuiltShape
  <2>2. SwapAt(i, j + 1) = SwapEnd(i, j)
    BY <1>1, SwapsLie, BuiltShape
  <2> QED
    BY <2>1, <2>2
<1>4. step.op = "wrap" /\ step = IF split THEN MeasuredWrapStep ELSE WrapStep
  BY StepsAre DEF AppendedWrap
<1>5. /\ j + 1 \in 1..LastSwap(i) /\ SwapOf(i, j + 1).src = ETH /\ route.dest # ETH
      /\ j + 1 # 1 /\ (j + 1) - 1 = j
  <2>1. j \in Nat \ {0}
    BY InSwapHas
  <2> QED
    BY <1>1, <2>1, MidEth
<1>6. FormBefore(i, j + 1) = WETH
  BY <1>5 DEF FormBefore
<1> HIDE DEF step, split
<1>7. /\ Finds(s, step) <=> s.machine.at = "executor" /\ s.machine.held = ETH
      /\ Threads(s, step) <=> s.machine.exact
      /\ IsGranted(s.machine, step) /\ StepTyped(s, step) /\ IsFundsStep(step)
  BY <1>4, StepsNeed
<1>8. ASSUME NEW A, OuterHold(i, A)
      PROVE  OuterHold(i, A \ {Weth1})
  <2>1. CASE IsMegaSwap(route)
    <3>1. PathsHold(i - 1, A) /\ A \subseteq {Delivered}
      BY <1>5, <1>8, <2>1 DEF OuterHold, PathsHold
    <3>2. A \ {Weth1} = A
      BY <3>1, PiecesDiffer
    <3> QED
      BY <1>8, <3>2
  <2>2. CASE ~IsMegaSwap(route)
    BY <1>8, <2>2 DEF OuterHold
  <2> QED
    BY <2>1, <2>2
<1>9. ASSUME NEW t, Does(s, t, step)
      PROVE  Located(t)
  <2>1. Works(s, t, step)
    BY <1>7, <1>9, WorkIsDone
  <2>2. /\ t.pc = s.pc + 1 /\ t.frames = s.frames /\ t.group = s.group
        /\ Sound => HoldsToken(t.machine, WETH) /\ t.rest = {} /\ OuterHold(i, t.aside)
    <3>1. CASE split
      <4>1. Works(s, t, MeasuredWrapStep)
        BY <1>4, <2>1, <3>1
      <4>2. Becomes(s, t, WETH, s.machine.at, s.machine.granted, TRUE,
                    {[held |-> WETH, at |-> s.machine.at]})
        BY <4>1, MeasuredWrapWorks DEF TypedState
      <4>3. /\ t.pc = s.pc + 1 /\ t.frames = s.frames /\ t.group = s.group
            /\ t.machine.held = WETH /\ t.machine.at = s.machine.at /\ t.machine.exact
            /\ t.rest = s.rest \ {[held |-> WETH, at |-> s.machine.at]}
            /\ t.aside = s.aside \ {[held |-> WETH, at |-> s.machine.at]}
        BY <4>2 DEF Becomes
      <4>4. ASSUME Sound
            PROVE  HoldsToken(t.machine, WETH) /\ t.rest = {} /\ OuterHold(i, t.aside)
        <5>1. s.machine.at = "executor" /\ Weth1 = [held |-> WETH, at |-> s.machine.at]
          BY <1>2, <4>4 DEF HoldsToken, Weth1, OnExecutor
        <5>2. HoldsToken(t.machine, WETH) /\ t.rest = {}
          BY <1>2, <3>1, <4>3, <4>4, <5>1 DEF HoldsToken
        <5>3. OuterHold(i, t.aside)
          BY <1>2, <1>8, <4>3, <4>4, <5>1
        <5> QED
          BY <5>2, <5>3
      <4> QED
        BY <4>3, <4>4
    <3>2. CASE ~split
      <4>1. Works(s, t, WrapStep)
        BY <1>4, <2>1, <3>2
      <4>2. Becomes(s, t, WETH, s.machine.at, s.machine.granted, s.machine.exact, {})
        BY <4>1, PlainWrapWorks DEF TypedState
      <4>3. /\ t.pc = s.pc + 1 /\ t.frames = s.frames /\ t.group = s.group
            /\ t.machine.held = WETH /\ t.machine.at = s.machine.at
            /\ t.machine.exact <=> s.machine.exact
            /\ t.rest = s.rest \ {} /\ t.aside = s.aside \ {}
        BY <4>2 DEF Becomes
      <4>4. t.rest = s.rest /\ t.aside = s.aside
        BY <4>3
      <4> QED
        BY <1>2, <3>2, <4>3, <4>4 DEF HoldsToken
    <3> QED
      BY <3>1, <3>2
  <2>3. BeforeSwap(t, i, j + 1)
    BY <1>2, <1>3, <1>6, <2>2 DEF BeforeSwap, Idle
  <2> QED
    BY <1>5, <2>3, LocatedBeforeSwap
<1>10. Sound => Finds(s, step) /\ Threads(s, step)
  BY <1>2, <1>7 DEF HoldsToken
<1> QED
  BY <1>2, <1>3, <1>7, <1>9, <1>10, IdleServed

-----------------------------------------------------------------------------
(* What the block of an exchange leaves behind. *)

\* The piece p that a block returns, of a swap mid-route and of the last one, given
\* what it has taken of what others have left.
ReturnsMidRoute(pos, p, gone) ==
    LET token == Swap(route, pos).dest IN
    IF token # ETH
    THEN p = OnExecutor(token) /\ (token # WETH => Eth1 \notin gone /\ Weth1 \notin gone)
    ELSE /\ p = IF Wraps(pos) /\ ~Withdraws(Primaries, pos) THEN Weth1 ELSE Eth1
         /\ Withdraws(Primaries, pos) => Weth1 \in gone
         /\ Eth1 \in gone => p = Eth1

\* Of the last swap to ETH: where the root unwraps for several swaps, and where an
\* exchange does for a single one.
ReturnsForRoot(pos, p, gone) ==
    /\ Wraps(pos) => p = Weth1
    /\ Weth1 \in gone /\ RootUnwraps(Primaries) => p = Weth1
ReturnsForSwap(pos, p, gone) ==
    LET others == OfSwap(pos[1], pos[2]) \ {pos} IN
    /\ p = Weth1 => Wraps(pos)
    /\ LastWrapping(Primaries, pos) =>
            p = Delivered /\ Eth1 \in gone /\ (Weth1 \in gone \/ \A q \in others : ~Wraps(q))
    /\ (\E q \in others : q[3] < pos[3] /\ LastWrapping(Primaries, q)) => p = Delivered
ReturnsLast(pos, p, gone) ==
    IF route.dest # ETH THEN p = Delivered
    ELSE /\ p \in {Eth1, Weth1, Delivered}
         /\ ~RootUnwraps(Primaries) => p = Delivered
         /\ IF Several THEN ReturnsForRoot(pos, p, gone) ELSE ReturnsForSwap(pos, p, gone)
Returns(pos, p, gone) ==
    /\ Delivered \notin gone
    /\ IF IsLastSwap(route, pos) THEN ReturnsLast(pos, p, gone) ELSE ReturnsMidRoute(pos, p, gone)

\* The exchanges of a swap up to this one are those before it and itself.
LEMMA UpToThis ==
    ASSUME Built, NEW pos \in Positions(route)
    PROVE  LET own == OfSwap(pos[1], pos[2])
               before == {q \in own : q[3] <= pos[3] - 1}
           IN  /\ {q \in own : q[3] <= pos[3]} = before \union {pos}
               /\ \A q \in before : q # pos /\ q[3] < pos[3] /\ q \in own
               /\ \A q \in own : q[3] < pos[3] => q \in before
<1> DEFINE own == OfSwap(pos[1], pos[2])
           before == {q \in own : q[3] <= pos[3] - 1}
<1>1. pos \in own /\ pos[3] \in Nat
  BY OfSwapHas
<1>2. ASSUME NEW q \in own
      PROVE  q[3] \in Nat /\ (q[3] = pos[3] => q = pos)
  <2>1. q \in Positions(route) /\ q[1] = pos[1] /\ q[2] = pos[2]
    BY DEF OfSwap
  <2>2. q = <<q[1], q[2], q[3]>> /\ q[3] \in Nat /\ pos = <<pos[1], pos[2], pos[3]>>
    BY <2>1, OfSwapHas
  <2> QED
    BY <2>1, <2>2
<1> HIDE DEF own
<1>3. \A q \in own : /\ q[3] <= pos[3] <=> q[3] <= pos[3] - 1 \/ q = pos
                     /\ q[3] <= pos[3] - 1 <=> q[3] < pos[3]
  BY <1>1, <1>2
<1>4. {q \in own : q[3] <= pos[3]} = before \union {pos}
  BY <1>1, <1>3
<1>5. \A q \in before : q # pos /\ q[3] < pos[3] /\ q \in own
  BY <1>1, <1>2, <1>3
<1>6. \A q \in own : q[3] < pos[3] => q \in before
  BY <1>3
<1> QED
  BY <1>4, <1>5, <1>6 DEF own

\* In a split, what an exchange returns makes up what the first exchanges have left,
\* together with what it has not taken in.
LEMMA SplitReturns ==
    ASSUME Built, NEW pos \in Positions(route), IsSplit(pos), NEW p, NEW gone, Returns(pos, p, gone),
           NEW A, LeftAside(pos, gone, A)
    PROVE  MembersHold(pos[1], pos[2], pos[3], A \union {p})
<1> DEFINE i == pos[1]
           j == pos[2]
           own == OfSwap(i, j)
           before == {q \in own : q[3] <= pos[3] - 1}
           upto == {q \in own : q[3] <= pos[3]}
           token == Swap(route, pos).dest
<1>1. /\ upto = before \union {pos} /\ pos \in own
      /\ \A q \in before : q # pos /\ q[3] < pos[3] /\ q \in own
      /\ token = SwapOf(i, j).dest
      /\ IsLastSwap(route, pos) <=> j = LastSwap(i)
      /\ j \in 1..LastSwap(i) /\ LastSwap(i) \in Nat
  BY UpToThis, OfSwapHas
<1>2. IsLastSwap(route, pos) <=> ~(j < LastSwap(i))
  BY <1>1
<1>3. PICK back \in SUBSET gone : MembersHold(i, j, pos[3] - 1, A \union back)
  BY DEF LeftAside, HoldBefore
<1>4. A \intersect gone = {}
  BY DEF LeftAside
<1>5. Eth1 # Weth1 /\ Delivered # Eth1 /\ Delivered # Weth1
  BY PiecesDiffer
<1>6. Delivered \notin gone
  BY DEF Returns
<1> DEFINE B == A \union back
           C == A \union {p}
<1>7. C # {} /\ \A x : x \in A => x \in B /\ x \notin gone
  BY <1>4
<1>8. \A x : x \in B => x \in A \/ x \in gone
  OBVIOUS
<1>9. \A q \in own : Wraps(q) <=> Primaries[q].answer.wrap
  BY DEF Wraps
<1>10. CASE j < LastSwap(i) /\ token # ETH
  <2>1. A \subseteq {OnExecutor(token)}
    BY <1>1, <1>3, <1>7, <1>10 DEF MembersHold
  <2>2. p = OnExecutor(token)
    BY <1>2, <1>10 DEF Returns, ReturnsMidRoute
  <2> QED
    BY <1>1, <1>7, <1>10, <2>1, <2>2 DEF MembersHold
<1>11. CASE j < LastSwap(i) /\ token = ETH
  <2>1. /\ B \subseteq {Eth1, Weth1}
        /\ Weth1 \in B => /\ \E q \in before : Wraps(q)
                          /\ \A q \in before : ~Withdraws(Primaries, q)
        /\ Eth1 \in B => AnyRaw(Primaries, i, j)
        /\ (\E q \in before : ~Wraps(q)) => Eth1 \in B
    BY <1>1, <1>3, <1>11 DEF MembersHold
  <2>2. /\ p = IF Wraps(pos) /\ ~Withdraws(Primaries, pos) THEN Weth1 ELSE Eth1
        /\ Withdraws(Primaries, pos) => Weth1 \in gone
        /\ Eth1 \in gone => p = Eth1
    BY <1>2, <1>11 DEF Returns, ReturnsMidRoute
  <2>3. \A q \in before : Withdraws(Primaries, q) => LastWrapping(Primaries, q)
    BY DEF Withdraws, UnwrapsForSwap
  <2>4. \A q \in before : Withdraws(Primaries, q) => ~Wraps(pos)
    <3> SUFFICES ASSUME NEW q \in before, Withdraws(Primaries, q) PROVE ~Wraps(pos)
      OBVIOUS
    <3>1. q[1] = i /\ q[2] = j /\ q[3] < pos[3]
      BY <1>1 DEF OfSwap
    <3> QED
      BY <1>1, <2>3, <3>1 DEF LastWrapping, Wraps
  <2>5. Withdraws(Primaries, pos) => AnyRaw(Primaries, i, j)
    <3>1. Several
      BY <1>1, <1>11, MidEth, OfSwapHas
    <3> QED
      BY <3>1 DEF Withdraws, UnwrapsForSwap, VerticalBranching
  <2>6. ~Wraps(pos) => AnyRaw(Primaries, i, j)
    BY <1>1 DEF Wraps, AnyRaw
  <2> HIDE DEF B, C, own, before, upto, i, j, token
  <2>7. C \subseteq {Eth1, Weth1}
    BY <1>7, <2>1, <2>2 DEF C
  <2>8. Weth1 \in C => \E q \in upto : Wraps(q)
    BY <1>1, <1>5, <1>7, <2>1, <2>2 DEF C
  <2>9. Weth1 \in C => \A q \in upto : ~Withdraws(Primaries, q)
    BY <1>1, <1>5, <1>7, <2>1, <2>2, <2>4 DEF C
  <2>10. Eth1 \in C => AnyRaw(Primaries, i, j)
    BY <1>5, <1>7, <2>1, <2>2, <2>5, <2>6 DEF C
  <2>11. (\E q \in upto : ~Wraps(q)) => Eth1 \in C
    BY <1>1, <1>5, <1>8, <2>1, <2>2 DEF C
  <2> QED
    BY <1>1, <1>7, <1>11, <2>7, <2>8, <2>9, <2>10, <2>11 DEF MembersHold, i, j, own, upto, C, token
<1>12. CASE ~(j < LastSwap(i)) /\ route.dest # ETH
  <2>1. A \subseteq {Delivered}
    BY <1>3, <1>7, <1>12 DEF MembersHold
  <2>2. p = Delivered
    BY <1>2, <1>12 DEF Returns, ReturnsLast
  <2> QED
    BY <1>7, <1>12, <2>1, <2>2 DEF MembersHold
<1>13. CASE ~(j < LastSwap(i)) /\ route.dest = ETH /\ Several
  <2>1. /\ B \subseteq {Eth1, Weth1, Delivered}
        /\ ~RootUnwraps(Primaries) => B \subseteq {Delivered}
        /\ (\E q \in before : Wraps(q)) => Weth1 \in B
    BY <1>3, <1>13 DEF MembersHold
  <2>2. /\ p \in {Eth1, Weth1, Delivered} /\ (~RootUnwraps(Primaries) => p = Delivered)
        /\ Wraps(pos) => p = Weth1
        /\ Weth1 \in gone /\ RootUnwraps(Primaries) => p = Weth1
    BY <1>2, <1>13 DEF Returns, ReturnsLast, ReturnsForRoot
  <2>3. (\E q \in before : Wraps(q)) => RootUnwraps(Primaries)
    <3>1. i \in DOMAIN route.paths /\ j = LastSwap(i)
      <4>1. i \in 1..NPaths
        BY OfSwapHas
      <4> QED
        BY <1>2, <1>13, <1>1, <4>1, RouteShape, BuiltShape
    <3> QED
      BY <1>1, <1>13, <3>1 DEF RootUnwraps, AnyWraps, Wraps
  <2> HIDE DEF B, C, own, before, upto, i, j
  <2>4. C \subseteq {Eth1, Weth1, Delivered} /\ (~RootUnwraps(Primaries) => C \subseteq {Delivered})
    BY <1>7, <2>1, <2>2 DEF C
  <2>5. (\E q \in upto : Wraps(q)) => Weth1 \in C
    BY <1>1, <1>8, <2>1, <2>2, <2>3 DEF C
  <2> QED
    BY <1>7, <1>13, <2>4, <2>5 DEF MembersHold, i, j, own, upto, C
<1>14. CASE ~(j < LastSwap(i)) /\ route.dest = ETH /\ ~Several
  <2>1. /\ B \subseteq {Eth1, Weth1, Delivered}
        /\ ~AnyWraps(Primaries, i, j) \/ (\E q \in before : LastWrapping(Primaries, q))
               => B \subseteq {Delivered}
        /\ Weth1 \in B => \E q \in before : Wraps(q)
    BY <1>3, <1>14 DEF MembersHold
  <2>2. /\ p \in {Eth1, Weth1, Delivered} /\ (~RootUnwraps(Primaries) => p = Delivered)
        /\ ReturnsForSwap(pos, p, gone)
    BY <1>2, <1>14 DEF Returns, ReturnsLast
  <2>3. /\ p = Weth1 => Wraps(pos)
        /\ LastWrapping(Primaries, pos) =>
            p = Delivered /\ Eth1 \in gone /\ (Weth1 \in gone \/ \A q \in own \ {pos} : ~Wraps(q))
        /\ (\E q \in own \ {pos} : q[3] < pos[3] /\ LastWrapping(Primaries, q)) => p = Delivered
    BY <2>2 DEF ReturnsForSwap
  <2>4. (~AnyWraps(Primaries, i, j)) => ~RootUnwraps(Primaries)
    <3>1. i = 1 /\ j = 1 /\ LastSwap(1) = 1 /\ DOMAIN route.paths = {1}
      <4>1. i = 1 /\ j = 1 /\ LastSwap(1) = 1 /\ NPaths = 1
        BY <1>14, SingleIsSplit, BuiltShape
      <4>2. DOMAIN route.paths = 1..NPaths
        BY RouteShape, BuiltShape
      <4> QED
        BY <4>1, <4>2
    <3> QED
      BY <3>1 DEF RootUnwraps
  <2> HIDE DEF B, C, own, before, upto, i, j
  <2>5. C \subseteq {Eth1, Weth1, Delivered}
    BY <1>7, <2>1, <2>2 DEF C
  <2>6. (~AnyWraps(Primaries, i, j)) => C \subseteq {Delivered}
    BY <1>7, <2>1, <2>2, <2>4 DEF C
  <2>7. (\E q \in upto : LastWrapping(Primaries, q)) => C \subseteq {Delivered}
    <3>1. CASE LastWrapping(Primaries, pos)
      <4>1. p = Delivered /\ Eth1 \notin A
        BY <1>7, <2>3, <3>1
      <4>2. Weth1 \notin A
        BY <1>1, <1>7, <2>1, <2>3, <3>1
      <4> QED
        BY <1>7, <2>1, <4>1, <4>2 DEF C
    <3>2. CASE \E q \in before : LastWrapping(Primaries, q)
      <4>1. p = Delivered
        BY <1>1, <2>3, <3>2
      <4> QED
        BY <1>7, <2>1, <3>2, <4>1 DEF C
    <3> QED
      BY <1>1, <3>1, <3>2
  <2>8. Weth1 \in C => \E q \in upto : Wraps(q)
    BY <1>1, <1>7, <2>1, <2>3 DEF C
  <2> QED
    BY <1>7, <1>14, <2>5, <2>6, <2>7, <2>8 DEF MembersHold, i, j, own, upto, C
<1> QED
  BY <1>10, <1>11, <1>12, <1>13, <1>14

\* The lone exchange of a swap wraps if any does.
LEMMA LoneForms ==
    ASSUME Built, NEW pos \in Positions(route), ~IsSplit(pos)
    PROVE  /\ OfSwap(pos[1], pos[2]) = {pos} /\ Several
           /\ AnyWraps(Primaries, pos[1], pos[2]) <=> Wraps(pos)
           /\ AnyRaw(Primaries, pos[1], pos[2]) <=> ~Wraps(pos)
           /\ EachWraps(Primaries, pos[1], pos[2]) <=> Wraps(pos)
           /\ AnyWithdraws(pos[1], pos[2]) <=> Withdraws(Primaries, pos)
<1>1. OfSwap(pos[1], pos[2]) = {pos}
  <2>1. /\ pos[1] \in 1..NPaths /\ pos[2] \in 1..LastSwap(pos[1]) /\ pos = <<pos[1], pos[2], 1>>
        /\ InRoute(pos[1], pos[2], 1)
    BY LoneIs, InItsSwap DEF InRoute
  <2>2. ExchangeCount(pos[1], pos[2]) = 1
    BY <2>1, SplitIs, BuiltShape
  <2>3. OfSwap(pos[1], pos[2]) = {<<pos[1], pos[2], k>> : k \in 1..1}
    BY <2>1, <2>2, SwapHas, BuiltShape
  <2>4. \A k : k \in 1..1 <=> k = 1
    OBVIOUS
  <2>5. OfSwap(pos[1], pos[2]) = {<<pos[1], pos[2], 1>>}
    BY <2>3, <2>4
  <2> QED
    BY <2>1, <2>5
<1>2. Several
  BY SingleIsSplit
<1> QED
  BY <1>1, <1>2 DEF AnyWraps, AnyRaw, EachWraps, AnyWithdraws, Wraps

\* Alone, what an exchange returns is all there is of its path.
LEMMA LoneReturns ==
    ASSUME Built, NEW pos \in Positions(route), ~IsSplit(pos), NEW p, NEW gone, Returns(pos, p, gone),
           NEW A, LeftAside(pos, gone, A)
    PROVE  /\ ~IsLastSwap(route, pos) => OuterHold(pos[1], A) /\ p \notin A
           /\ IsLastSwap(route, pos) /\ IsMegaSwap(route) => PathsHold(pos[1], A \union {p})
           /\ ~IsMegaSwap(route) => A = {}
<1> DEFINE i == pos[1]
           j == pos[2]
           token == Swap(route, pos).dest
<1>1. PICK back \in SUBSET gone : OuterHold(i, A \union back)
  BY DEF LeftAside, HoldBefore
<1> DEFINE B == A \union back
           C == A \union {p}
<1>2. /\ A \intersect gone = {} /\ Delivered \notin gone
      /\ \A x : x \in A => x \in B /\ x \notin gone
      /\ \A x : x \in B => x \in A \/ x \in gone
  BY DEF LeftAside, Returns
<1>3. Eth1 # Weth1 /\ Delivered # Eth1 /\ Delivered # Weth1
  BY PiecesDiffer
<1>4. /\ i \in 1..NPaths /\ j \in 1..LastSwap(i) /\ token = SwapOf(i, j).dest
      /\ IsLastSwap(route, pos) <=> j = LastSwap(i)
      /\ i \in Nat /\ LastSwap(i) \in Nat
  BY OfSwapHas
<1>5. ~IsMegaSwap(route) => A = {}
  BY <1>1 DEF OuterHold
<1>6. IsMegaSwap(route) => PathsHold(i - 1, B)
  BY <1>1 DEF OuterHold
<1>7. ASSUME ~IsLastSwap(route, pos) PROVE OuterHold(i, A) /\ p \notin A
  <2>1. j < LastSwap(i)
    BY <1>4, <1>7
  <2>2. ReturnsMidRoute(pos, p, gone)
    BY <1>7 DEF Returns
  <2>3. CASE ~IsMegaSwap(route)
    BY <1>5, <2>3 DEF OuterHold
  <2>4. CASE IsMegaSwap(route) /\ route.dest # ETH
    <3>1. B \subseteq {Delivered}
      BY <1>6, <2>4 DEF PathsHold
    <3>2. A = B
      BY <1>2, <3>1
    <3>3. p # Delivered
      <4>1. p = OnExecutor(token) \/ p \in {Eth1, Weth1}
        BY <2>2 DEF ReturnsMidRoute
      <4>2. OnExecutor(token).at # Delivered.at
        BY PiecesDiffer
      <4> QED
        BY <4>1, <4>2, <1>3
    <3> QED
      BY <1>1, <3>1, <3>2, <3>3
  <2>5. CASE IsMegaSwap(route) /\ route.dest = ETH
    <3>1. B \subseteq {Eth1, Weth1, Delivered}
      BY <1>6, <2>5 DEF PathsHold
    <3>2. token \notin {ETH, WETH}
      <4>1. j + 1 \in 1..LastSwap(i)
        BY <1>4, <2>1
      <4> QED
        BY <1>4, <2>1, <2>5, <4>1, SwapsFollow
    <3>3. p = OnExecutor(token) /\ Eth1 \notin gone /\ Weth1 \notin gone
      BY <2>2, <3>2 DEF ReturnsMidRoute
    <3>4. A = B
      BY <1>2, <3>1, <3>3
    <3>5. p \notin {Eth1, Weth1, Delivered}
      <4>1. p.held = token /\ Eth1.held = ETH /\ Weth1.held = WETH /\ Delivered.held = ETH
        BY <2>5, <3>3, PiecesDiffer
      <4> QED
        BY <3>2, <4>1
    <3> QED
      BY <1>1, <3>1, <3>4, <3>5
  <2> QED
    BY <2>3, <2>4, <2>5
<1>8. ASSUME IsLastSwap(route, pos), IsMegaSwap(route) PROVE PathsHold(i, C)
  <2>1. ReturnsLast(pos, p, gone) /\ Several
    BY <1>8 DEF Returns, Several
  <2>2. C # {}
    OBVIOUS
  <2>3. CASE route.dest # ETH
    <3>1. B \subseteq {Delivered} /\ p = Delivered
      BY <1>6, <1>8, <2>1, <2>3 DEF PathsHold, ReturnsLast
    <3> QED
      BY <1>2, <2>2, <2>3, <3>1 DEF PathsHold
  <2>4. CASE route.dest = ETH
    <3> DEFINE WrapsUpTo(n) == \E m \in 1..n : AnyWraps(Primaries, m, LastSwap(m))
    <3>1. /\ B \subseteq {Eth1, Weth1, Delivered}
          /\ ~RootUnwraps(Primaries) => B \subseteq {Delivered}
          /\ WrapsUpTo(i - 1) => Weth1 \in B
      BY <1>6, <1>8, <2>4 DEF PathsHold
    <3>2. /\ p \in {Eth1, Weth1, Delivered} /\ (~RootUnwraps(Primaries) => p = Delivered)
          /\ Wraps(pos) => p = Weth1
          /\ Weth1 \in gone /\ RootUnwraps(Primaries) => p = Weth1
      BY <2>1, <2>4 DEF ReturnsLast, ReturnsForRoot
    <3>3. WrapsUpTo(i) => WrapsUpTo(i - 1) \/ Wraps(pos)
      <4>1. AnyWraps(Primaries, i, LastSwap(i)) => Wraps(pos)
        BY <1>4, <1>8, LoneForms
      <4>2. \A m \in 1..i : m \in 1..(i - 1) \/ m = i
        BY <1>4
      <4> QED
        BY <4>1, <4>2
    <3>4. WrapsUpTo(i - 1) => RootUnwraps(Primaries)
      <4>1. \A m \in 1..(i - 1) : m \in DOMAIN route.paths
        <5>1. DOMAIN route.paths = 1..NPaths /\ NPaths \in Nat
          BY RouteShape, BuiltShape
        <5> QED
          BY <1>4, <5>1
      <4> QED
        BY <2>4, <4>1 DEF RootUnwraps
    <3> HIDE DEF B, C, i, j
    <3>5. C \subseteq {Eth1, Weth1, Delivered} /\ (~RootUnwraps(Primaries) => C \subseteq {Delivered})
      BY <1>2, <3>1, <3>2 DEF C
    <3>6. WrapsUpTo(i) => Weth1 \in C
      <4>1. WrapsUpTo(i - 1) => Weth1 \in C
        BY <1>2, <3>1, <3>2, <3>4 DEF C
      <4>2. Wraps(pos) => Weth1 \in C
        BY <3>2 DEF C
      <4> QED
        BY <3>3, <4>1, <4>2
    <3>7. PathsHold(i, C)
      BY <2>2, <2>4, <3>5, <3>6 DEF PathsHold
    <3> QED
      BY <3>7 DEF C, i
  <2> QED
    BY <2>3, <2>4
<1> QED
  BY <1>5, <1>7, <1>8

\* Piece by piece: what a block returns makes up what the exchange leaves.
LEMMA LeavesFor ==
    ASSUME Built, NEW pos \in Positions(route), NEW p, NEW gone, Returns(pos, p, gone),
           NEW A, LeftAside(pos, gone, A),
           NEW s, Piece(s.machine) = p, s.rest = {},
           s.aside = A \/ (~IsSplit(pos) /\ s.aside = A \ {p}),
           ~IsSplit(pos) /\ (IsLastSwap(route, pos) => route.dest = ETH /\ Wraps(pos)) =>
                s.machine.exact
    PROVE  ExchangeLeft(s, pos)
<1> DEFINE i == pos[1]
           j == pos[2]
<1>1. Everything(s) = A \union {p}
  BY DEF Everything
<1>2. IsLastSwap(route, pos) <=> j = LastSwap(i)
  BY OfSwapHas
<1>3. CASE IsSplit(pos)
  BY <1>1, <1>3, SplitReturns DEF ExchangeLeft
<1>4. CASE ~IsSplit(pos) /\ IsLastSwap(route, pos) /\ IsMegaSwap(route)
  <2>1. PathsHold(i, A \union {p})
    BY <1>4, LoneReturns
  <2> QED
    BY <1>1, <1>2, <1>4, <2>1 DEF ExchangeLeft, PathLeft
<1>5. CASE ~IsSplit(pos) /\ IsLastSwap(route, pos) /\ ~IsMegaSwap(route)
  <2>1. s.aside = {}
    <3>1. A = {}
      BY <1>5, LoneReturns
    <3> QED
      BY <3>1
  <2>2. ReturnsLast(pos, p, gone) /\ Several
    BY <1>5, LoneForms DEF Returns
  <2>3. RootUnwraps(Primaries) => route.dest = ETH /\ Wraps(pos)
    <3> SUFFICES ASSUME RootUnwraps(Primaries) PROVE route.dest = ETH /\ Wraps(pos)
      OBVIOUS
    <3>1. route.dest = ETH
      BY DEF RootUnwraps
    <3>2. DOMAIN route.paths = {1}
      <4>1. NPaths = 1 /\ DOMAIN route.paths = 1..NPaths
        BY <1>5, PathsLie, RouteShape, BuiltShape
      <4> QED
        BY <4>1
    <3>3. i = 1 /\ AnyWraps(Primaries, 1, LastSwap(1))
      <4>1. i \in DOMAIN route.paths
        BY OfSwapHas, RouteShape, BuiltShape
      <4> QED
        BY <3>2, <4>1 DEF RootUnwraps
    <3> QED
      BY <1>2, <1>5, <3>1, <3>3, LoneForms
  <2>4. RootUnwraps(Primaries) => p = Weth1
    BY <2>2, <2>3 DEF ReturnsLast, ReturnsForRoot
  <2>5. RootUnwraps(Primaries) => HoldsToken(s.machine, WETH)
    BY <1>5, <2>3, <2>4 DEF HoldsToken, Piece, Weth1, OnExecutor
  <2>6. ~RootUnwraps(Primaries) => p = Delivered
    BY <2>2 DEF ReturnsLast
  <2>7. AllLeft(s)
    BY <2>1, <2>2, <2>5, <2>6 DEF AllLeft
  <2> QED
    BY <1>2, <1>5, <2>7 DEF ExchangeLeft, PathLeft
<1>6. CASE ~IsSplit(pos) /\ ~IsLastSwap(route, pos)
  <2>1. OuterHold(i, A) /\ p \notin A
    BY <1>6, LoneReturns
  <2>2. s.aside = A
    BY <2>1
  <2>3. ReturnsMidRoute(pos, p, gone) /\ s.machine.exact
    BY <1>6 DEF Returns
  <2>4. /\ i \in 1..NPaths /\ j \in 1..LastSwap(i) /\ Swap(route, pos) = SwapOf(i, j)
        /\ j < LastSwap(i) /\ j + 1 \in 1..LastSwap(i) /\ j + 1 # 1 /\ (j + 1) - 1 = j
        /\ SwapOf(i, j + 1).src = SwapOf(i, j).dest
    <3>1. /\ i \in 1..NPaths /\ j \in 1..LastSwap(i) /\ Swap(route, pos) = SwapOf(i, j)
          /\ j \in Nat \ {0} /\ LastSwap(i) \in Nat
      BY OfSwapHas
    <3>2. j < LastSwap(i)
      BY <1>2, <1>6, <3>1
    <3> QED
      BY <3>1, <3>2, SwapsFollow
  <2> DEFINE token == Swap(route, pos).dest
  <2>5. \A x : p = OnExecutor(x) => HoldsToken(s.machine, x)
    BY <2>3 DEF HoldsToken, Piece, OnExecutor
  <2>6. CASE token # ETH
    <3>1. HoldsToken(s.machine, token)
      BY <2>3, <2>5, <2>6 DEF ReturnsMidRoute
    <3>2. ~AppendsWrap(i, j) /\ FormBefore(i, j + 1) = token
      BY <2>4, <2>6, FormsAre DEF AppendsWrap, SwapOf
    <3> QED
      BY <1>2, <1>6, <2>1, <2>2, <3>1, <3>2 DEF ExchangeLeft, BareLeft, SwapLeft
  <2>7. CASE token = ETH
    <3>1. p = IF Wraps(pos) /\ ~Withdraws(Primaries, pos) THEN Weth1 ELSE Eth1
      BY <2>3, <2>7 DEF ReturnsMidRoute
    <3>2. /\ p = Weth1 => HoldsToken(s.machine, WETH)
          /\ p = Eth1 => HoldsToken(s.machine, ETH)
      BY <2>5 DEF Weth1, Eth1
    <3>3. CASE AppendsWrap(i, j)
      <4>1. ~Wraps(pos)
        BY <1>6, <3>3, LoneForms DEF AppendsWrap
      <4> QED
        BY <1>2, <1>6, <2>1, <2>2, <3>1, <3>2, <3>3, <4>1 DEF ExchangeLeft, BareLeft
    <3>4. CASE ~AppendsWrap(i, j)
      <4>1. FormBefore(i, j + 1) = IF EachWraps(Primaries, i, j) /\ ~AnyWithdraws(i, j) THEN WETH ELSE ETH
        BY <2>4, <2>7, <3>4 DEF FormBefore
      <4>2. FormBefore(i, j + 1) = IF Wraps(pos) /\ ~Withdraws(Primaries, pos) THEN WETH ELSE ETH
        BY <1>6, <4>1, LoneForms
      <4>3. HoldsToken(s.machine, FormBefore(i, j + 1))
        BY <3>1, <3>2, <4>2
      <4> QED
        BY <1>2, <1>6, <2>1, <2>2, <3>4, <4>3 DEF ExchangeLeft, BareLeft, SwapLeft
    <3> QED
      BY <3>3, <3>4
  <2> QED
    BY <2>6, <2>7
<1> QED
  BY <1>3, <1>4, <1>5, <1>6

\* In the middle of a route through ETH, a fallback that is not left out takes the
\* form of its exchange.
LEMMA SameMidRoute ==
    ASSUME Built, NEW pos \in Positions(route), NEW b, BlockOf(pos, b),
           ~IsLastSwap(route, pos), Swap(route, pos).dest = ETH
    PROVE  /\ AnswerOf(pos, b).wrap <=> Wraps(pos)
           /\ Has(pos, b, 9) <=> Withdraws(Primaries, pos)
<1>1. Has(pos, b, 9) <=> Withdraws(ParamsFor(pos, b), pos)
  BY HasIs
<1>2. CASE b = "primary"
  BY <1>1, <1>2, PrimaryIs DEF ParamsFor, AnswerOf, Wraps
<1>3. CASE b # "primary"
  <2> DEFINE P == Primaries
             F == Substituted(pos)
  <2>1. b = "fallback" /\ IsGrouped(pos) /\ HasFallback(pos) /\ ParamsFor(pos, b) = F
    BY <1>3 DEF BlockOf, Branches, IsGrouped, ParamsFor
  <2>2. P[pos].answer.wrap = F[pos].answer.wrap
    BY <2>1 DEF IsGrouped
  <2>3. P[pos] = LegOf(pos, "primary") /\ F[pos] = LegOf(pos, "fallback")
    BY <2>1, PrimaryIs
  <2>4. \A i, j : /\ AnyRaw(F, i, j) <=> AnyRaw(P, i, j)
                  /\ EachWraps(F, i, j) <=> EachWraps(P, i, j)
    BY <2>1, <2>2, <2>3, SameFormSame
  <2>5. \A i, j : EachRaw(F, i, j) <=> EachRaw(P, i, j)
    <3>1. \A i, j : AnyWraps(F, i, j) <=> AnyWraps(P, i, j)
      BY <2>1, <2>2, <2>3, SameFormSame
    <3> QED
      BY <2>4, <3>1 DEF EachRaw
  <2>6. \A q : q # pos => F[q] = P[q] \/ q \notin Positions(route)
    BY DEF Substituted, Primaries
  <2>7. \A q \in OfSwap(pos[1], pos[2]) : F[q].answer.wrap <=> P[q].answer.wrap
    BY <2>2, <2>6 DEF OfSwap
  <2>8. LastWrapping(F, pos) <=> LastWrapping(P, pos)
    BY <2>2, <2>7 DEF LastWrapping
  <2>9. UnwrapsForSwap(F, pos) <=> UnwrapsForSwap(P, pos)
    BY <2>4, <2>8 DEF UnwrapsForSwap
  <2>10. Withdraws(F, pos) <=> Withdraws(P, pos)
    BY <2>4, <2>5, <2>9 DEF Withdraws
  <2>11. AnswerOf(pos, b).wrap <=> Wraps(pos)
    BY <2>1, <2>2, <2>3 DEF AnswerOf, Wraps
  <2> QED
    BY <1>1, <2>1, <2>10, <2>11
<1> QED
  BY <1>2, <1>3

\* What the call has measured, by the token it returns.
LEMMA GoneHas ==
    ASSUME NEW pos, NEW b
    PROVE  LET gone == Gone(pos, b, 12) IN
           /\ Delivered \notin gone
           /\ Weth1 \in gone => CallIn(pos, b).out = WETH
           /\ Eth1 \in gone => CallIn(pos, b).out = ETH \/ Has(pos, b, 9)
           /\ Has(pos, b, 9) => Eth1 \in gone
           /\ MeasuredByCall(pos, b) # {} => OnExecutor(CallIn(pos, b).out) \in gone
<1>1. Gone(pos, b, 12) = MeasuredByCall(pos, b) \union IF Has(pos, b, 9) THEN {Eth1} ELSE {}
  BY GoneIs
<1>2. /\ MeasuredByCall(pos, b) \subseteq {OnExecutor(CallIn(pos, b).out)}
  BY DEF MeasuredByCall
<1>3. /\ \A x : OnExecutor(x).held = x /\ OnExecutor(x).at = "executor"
      /\ Delivered.at = "augustus" /\ Eth1 = OnExecutor(ETH) /\ Weth1 = OnExecutor(WETH)
      /\ ETH # WETH
  BY PiecesDiffer, TokenAssumption
<1> HIDE DEF Gone
<1> QED
  BY <1>1, <1>2, <1>3

\* What a block returns at its end: the token, where it is, whether all of it is known,
\* and what has been taken in.
LEMMA BlockReturns ==
    ASSUME Built, NEW pos \in Positions(route), NEW b, BlockOf(pos, b), NEW m, Returned(pos, b, 12, m)
    PROVE  LET swap == Swap(route, pos)
               a == AnswerOf(pos, b)
           IN
           /\ m.held = IF swap.dest = ETH /\ a.wrap /\ ~Has(pos, b, 9) THEN WETH ELSE swap.dest
           /\ m.at = IF Has(pos, b, 10) \/ Has(pos, b, 11) THEN "augustus" ELSE CallIn(pos, b).to
           /\ m.exact <=> MeasuredByCall(pos, b) # {} \/ Has(pos, b, 9)
           /\ CallIn(pos, b).to = IF a.hasRecipient THEN LegOf(pos, b).recipient ELSE "executor"
           /\ LegOf(pos, b).recipient =
                IF \/ swap.dest = ETH /\ a.wrap
                   \/ ~IsLastSwap(route, pos)
                   \/ b = "fallback" /\ swap.dest = ETH
                THEN "executor" ELSE "augustus"
<1>1. Resolved(pos, b)
  BY BlockIsResolved
<1>2. CallIn(pos, b).to = IF AnswerOf(pos, b).hasRecipient THEN LegOf(pos, b).recipient ELSE "executor"
  BY CallIs
<1>3. LegOf(pos, b).recipient =
                IF \/ Swap(route, pos).dest = ETH /\ AnswerOf(pos, b).wrap
                   \/ ~IsLastSwap(route, pos)
                   \/ b = "fallback" /\ Swap(route, pos).dest = ETH
                THEN "executor" ELSE "augustus"
  BY <1>1, LegIs DEF AnswerOf
<1>4. Returned(pos, b, 12, m) <=>
                /\ m.held = IF 12 = 8 THEN CallIn(pos, b).out
                            ELSE IF Swap(route, pos).dest = ETH /\ AnswerOf(pos, b).wrap /\ ~(12 > 9 /\ Has(pos, b, 9))
                            THEN WETH ELSE Swap(route, pos).dest
                /\ m.at = IF \/ 12 > 10 /\ Has(pos, b, 10)
                             \/ 12 > 11 /\ Has(pos, b, 11)
                          THEN "augustus" ELSE CallIn(pos, b).to
                /\ m.exact <=> MeasuredByCall(pos, b) # {} \/ (12 > 9 /\ Has(pos, b, 9))
  BY ReturnedIs
<1> QED
  BY <1>2, <1>3, <1>4

\* Mid-route, a block returns what its swap buys, with what it has taken in.
LEMMA MidRouteReturns ==
    ASSUME Built, NEW pos \in Positions(route), NEW b, BlockOf(pos, b), ~IsLastSwap(route, pos),
           NEW m, Returned(pos, b, 12, m)
    PROVE  Returns(pos, Piece(m), Gone(pos, b, 12))
<1> DEFINE swap == Swap(route, pos)
           a == AnswerOf(pos, b)
           gone == Gone(pos, b, 12)
<1>1. Resolved(pos, b)
  BY BlockIsResolved
<1>2. Several
  <2>1. pos[1] \in 1..NPaths /\ pos[2] \in 1..LastSwap(pos[1]) /\ pos[2] # LastSwap(pos[1])
    BY OfSwapHas
  <2>2. Several \/ (NPaths = 1 /\ LastSwap(1) = 1)
    BY BuiltShape
  <2> QED
    BY <2>1, <2>2
<1>3. ~Has(pos, b, 10) /\ ~Has(pos, b, 11)
  BY <1>2, HasIs
<1>4. m.at = "executor"
  BY <1>3, BlockReturns
<1>5. m.held = IF swap.dest = ETH /\ a.wrap /\ ~Has(pos, b, 9) THEN WETH ELSE swap.dest
  BY BlockReturns
<1>6. /\ Has(pos, b, 8) => CallIn(pos, b).out = ETH /\ swap.dest = WETH
      /\ ~Has(pos, b, 8) => CallIn(pos, b).out = IF swap.dest = ETH /\ a.wrap THEN WETH ELSE swap.dest
  BY <1>1, OutIs
<1>7. /\ Delivered \notin gone
      /\ Weth1 \in gone => CallIn(pos, b).out = WETH
      /\ Eth1 \in gone => CallIn(pos, b).out = ETH \/ Has(pos, b, 9)
      /\ MeasuredByCall(pos, b) # {} => OnExecutor(CallIn(pos, b).out) \in gone
  BY GoneHas
<1>8. Has(pos, b, 9) => swap.dest = ETH /\ a.wrap /\ MeasuredByCall(pos, b) # {}
  BY <1>1, KeptOnExecutor
<1>9. Piece(m) = OnExecutor(m.held)
  BY <1>4 DEF Piece, OnExecutor
<1> HIDE DEF gone, swap, a
<1>10. CASE swap.dest # ETH
  <2>1. Piece(m) = OnExecutor(swap.dest)
    BY <1>5, <1>9, <1>10
  <2>2. swap.dest # WETH => Eth1 \notin gone /\ Weth1 \notin gone
    BY <1>6, <1>7, <1>8, <1>10
  <2>3. ReturnsMidRoute(pos, Piece(m), gone)
    BY <1>10, <2>1, <2>2 DEF ReturnsMidRoute, swap
  <2> QED
    BY <1>7, <2>3 DEF Returns, gone
<1>11. CASE swap.dest = ETH
  <2>1. /\ a.wrap <=> Wraps(pos)
        /\ Has(pos, b, 9) <=> Withdraws(Primaries, pos)
    BY <1>11, SameMidRoute DEF swap, a
  <2>2. ~Has(pos, b, 8)
    BY <1>6, <1>11, TokenAssumption
  <2>3. Piece(m) = IF Wraps(pos) /\ ~Withdraws(Primaries, pos) THEN Weth1 ELSE Eth1
    BY <1>5, <1>9, <1>11, <2>1 DEF Weth1, Eth1
  <2>4. Withdraws(Primaries, pos) => Weth1 \in gone
    BY <1>6, <1>7, <1>8, <1>11, <2>1, <2>2 DEF Weth1
  <2>5. Eth1 \in gone => Piece(m) = Eth1
    <3>1. Eth1 \in gone => ~Wraps(pos) \/ Withdraws(Primaries, pos)
      BY <1>6, <1>7, <1>11, <2>1, <2>2, TokenAssumption
    <3> QED
      BY <2>3, <3>1
  <2>6. ReturnsMidRoute(pos, Piece(m), gone)
    BY <1>11, <2>3, <2>4, <2>5 DEF ReturnsMidRoute, swap
  <2> QED
    BY <1>7, <2>6 DEF Returns, gone
<1> QED
  BY <1>10, <1>11

\* The last swap of a route that does not end in ETH.
LEMMA TokenReturns ==
    ASSUME Built, NEW pos \in Positions(route), NEW b, BlockOf(pos, b), IsLastSwap(route, pos),
           route.dest # ETH, NEW m, Returned(pos, b, 12, m)
    PROVE  Returns(pos, Piece(m), Gone(pos, b, 12))
<1> DEFINE swap == Swap(route, pos)
           a == AnswerOf(pos, b)
<1>1. swap.dest = route.dest
  BY OfSwapHas, SwapsFollow
<1>2. Has(pos, b, 10) <=> ~a.hasRecipient
  BY <1>1, HasIs
<1>3. m.held = route.dest /\ m.at = "augustus"
  BY <1>1, <1>2, BlockReturns
<1>4. Piece(m) = Delivered
  BY <1>3 DEF Piece, Delivered
<1>5. Delivered \notin Gone(pos, b, 12)
  BY GoneHas
<1> QED
  BY <1>4, <1>5 DEF Returns, ReturnsLast

\* Where a block leaves ETH that the route buys.
OutcomeOf(pos, b) == EthDestOutcome(ParamsFor(pos, b), pos, b)

\* A unit sends it, unwraps it, leaves it wrapped or has it sent by its exchange.
LEMMA UnitOutcome ==
    ASSUME NEW pos, NEW b
    PROVE  LET a == AnswerOf(pos, b) IN
           OutcomeOf(pos, b) =
             IF Has(pos, b, 11) THEN "sent"
             ELSE IF a.wrap THEN IF Has(pos, b, 9) THEN "eth" ELSE "weth"
             ELSE IF b = "primary" /\ a.hasRecipient THEN "sent" ELSE "eth"
<1> DEFINE P == ParamsFor(pos, b)
<1>1. OutcomeOf(pos, b) =
        IF UnitHas(P, pos, b, "sendNative") THEN "sent"
        ELSE IF P[pos].answer.wrap THEN IF Withdraws(P, pos) THEN "eth" ELSE "weth"
        ELSE IF b = "primary" /\ P[pos].answer.hasRecipient THEN "sent" ELSE "eth"
  BY DEF OutcomeOf, EthDestOutcome
<1>2. Has(pos, b, 11) <=> UnitHas(P, pos, b, "sendNative")
  BY StageNames DEF Has
<1>3. Has(pos, b, 9) <=> Withdraws(P, pos)
  BY HasIs
<1>4. AnswerOf(pos, b) = P[pos].answer
  BY DEF AnswerOf, LegOf
<1> HIDE DEF P
<1> QED
  BY <1>1, <1>2, <1>3, <1>4

\* Where an exchange of the last swap to ETH leaves its output, and by whom it is
\* unwrapped and sent.
LEMMA OutcomeIs ==
    ASSUME Built, NEW pos \in Positions(route), NEW b, BlockOf(pos, b), IsLastSwap(route, pos),
           route.dest = ETH
    PROVE  LET a == AnswerOf(pos, b)
               P == ParamsFor(pos, b)
               out == OutcomeOf(pos, b)
           IN
           /\ Swap(route, pos).dest = ETH
           /\ out \in {"sent", "eth", "weth"}
           /\ out = "weth" => a.wrap
           /\ Has(pos, b, 11) => out = "sent"
           /\ a.wrap => RootUnwraps(P)
           /\ Several => ~Has(pos, b, 9) /\ (a.wrap => out = "weth")
           /\ ~Several /\ Has(pos, b, 9) => Has(pos, b, 11)
           /\ ~a.wrap /\ b = "primary" /\ a.hasRecipient => out = "sent"
           /\ ~RootUnwraps(P) /\ b = "primary" => out = "sent"
           /\ ~a.wrap /\ a.hasRecipient => ~Has(pos, b, 11)
           /\ ~a.wrap /\ ~Has(pos, b, 11) /\ b = "fallback" => out = "eth"
<1> DEFINE a == AnswerOf(pos, b)
           P == ParamsFor(pos, b)
           out == OutcomeOf(pos, b)
<1>1. Resolved(pos, b)
  BY BlockIsResolved
<1>2. Swap(route, pos).dest = ETH /\ IsLastSwap(route, pos)
  BY OfSwapHas, SwapsFollow
<1>3. P[pos].answer = a
  BY DEF AnswerOf, LegOf
<1>4. a.wrap => RootUnwraps(P)
  <2> SUFFICES ASSUME a.wrap PROVE RootUnwraps(P)
    OBVIOUS
  <2>1. pos \in OfSwap(pos[1], pos[2]) /\ pos[2] = LastSwap(pos[1]) /\ pos[1] \in DOMAIN route.paths
    BY <1>2, OfSwapHas, RouteShape, BuiltShape
  <2>2. AnyWraps(P, pos[1], LastSwap(pos[1]))
    BY <1>3, <2>1 DEF AnyWraps
  <2> QED
    BY <2>1, <2>2 DEF RootUnwraps
<1>5. Has(pos, b, 9) => a.wrap /\ (Several => ~RootUnwraps(P))
  BY <1>2, <1>3, HasIs DEF Withdraws, UnwrapsForSwap, LastWrapping
<1>6. Has(pos, b, 11) <=> (~Several /\ Has(pos, b, 9)) \/ (~a.hasRecipient /\ ~RootUnwraps(P))
  BY <1>2, HasIs
<1>7. Has(pos, b, 11) /\ a.wrap => Has(pos, b, 9)
  BY <1>4, <1>6
<1>8. out = IF Has(pos, b, 11) THEN "sent"
            ELSE IF a.wrap THEN IF Has(pos, b, 9) THEN "eth" ELSE "weth"
            ELSE IF b = "primary" /\ a.hasRecipient THEN "sent" ELSE "eth"
  BY UnitOutcome
<1> HIDE DEF out, a, P
<1>9. /\ out \in {"sent", "eth", "weth"} /\ (out = "weth" => a.wrap)
      /\ Has(pos, b, 11) => out = "sent"
      /\ ~a.wrap /\ ~Has(pos, b, 11) /\ b = "fallback" => out = "eth"
  BY <1>8
<1>10. Several => ~Has(pos, b, 9) /\ (a.wrap => out = "weth")
  BY <1>4, <1>5, <1>7, <1>8
<1>11. ~Several /\ Has(pos, b, 9) => Has(pos, b, 11)
  BY <1>6
<1>12. ~a.wrap /\ b = "primary" /\ a.hasRecipient => out = "sent"
  BY <1>8
<1>13. ~RootUnwraps(P) /\ b = "primary" => out = "sent"
  BY <1>4, <1>6, <1>8
<1>14. ~a.wrap /\ a.hasRecipient => ~Has(pos, b, 11)
  BY <1>5, <1>6
<1> QED
  BY <1>2, <1>4, <1>9, <1>10, <1>11, <1>12, <1>13, <1>14 DEF out, a, P

\* Each outcome is a piece.
LEMMA OutcomePieces ==
    /\ OutcomePiece("sent") = Delivered /\ OutcomePiece("weth") = Weth1
    /\ OutcomePiece("eth") = Eth1
  BY DEF OutcomePiece

\* And that piece is what a block holds at its end.
LEMMA OutcomeReturned ==
    ASSUME Built, NEW pos \in Positions(route), NEW b, BlockOf(pos, b), IsLastSwap(route, pos),
           route.dest = ETH, NEW m, Returned(pos, b, 12, m)
    PROVE  Piece(m) = OutcomePiece(OutcomeOf(pos, b))
<1> DEFINE a == AnswerOf(pos, b)
           out == OutcomeOf(pos, b)
<1>1. Swap(route, pos).dest = ETH
  BY OutcomeIs
<1>2. ~Has(pos, b, 10)
  BY <1>1, HasIs
<1>3. /\ m.held = IF a.wrap /\ ~Has(pos, b, 9) THEN WETH ELSE ETH
      /\ m.at = IF Has(pos, b, 11) THEN "augustus"
                ELSE IF a.hasRecipient /\ ~a.wrap /\ b # "fallback" THEN "augustus" ELSE "executor"
  <2>1. m.held = IF a.wrap /\ ~Has(pos, b, 9) THEN WETH ELSE ETH
    BY <1>1, BlockReturns
  <2>2. LegOf(pos, b).recipient = IF a.wrap \/ b = "fallback" THEN "executor" ELSE "augustus"
    BY <1>1, BlockReturns
  <2>3. CallIn(pos, b).to = IF a.hasRecipient THEN LegOf(pos, b).recipient ELSE "executor"
    BY BlockReturns
  <2>4. m.at = IF Has(pos, b, 11) THEN "augustus" ELSE CallIn(pos, b).to
    BY <1>2, BlockReturns
  <2> QED
    BY <2>1, <2>2, <2>3, <2>4
<1>4. Has(pos, b, 11) /\ a.wrap => Has(pos, b, 9)
  BY SentIsEth, BlockIsResolved
<1>5. out = IF Has(pos, b, 11) THEN "sent"
            ELSE IF a.wrap THEN IF Has(pos, b, 9) THEN "eth" ELSE "weth"
            ELSE IF b = "primary" /\ a.hasRecipient THEN "sent" ELSE "eth"
  BY UnitOutcome
<1>6. b = "primary" \/ b = "fallback"
  BY DEF BlockOf, Branches
<1>7. /\ \A x : m.held = x /\ m.at = "executor" => Piece(m) = OnExecutor(x)
      /\ m.held = ETH /\ m.at = "augustus" => Piece(m) = Delivered
  BY DEF Piece, OnExecutor, Delivered
<1> HIDE DEF a, out
<1>8. CASE Has(pos, b, 11)
  BY <1>3, <1>4, <1>5, <1>7, <1>8, OutcomePieces DEF out
<1>9. CASE ~Has(pos, b, 11) /\ a.wrap
  <2>1. m.at = "executor"
    BY <1>3, <1>9
  <2>2. CASE Has(pos, b, 9)
    BY <1>3, <1>5, <1>7, <1>9, <2>1, <2>2, OutcomePieces DEF out, Eth1
  <2>3. CASE ~Has(pos, b, 9)
    BY <1>3, <1>5, <1>7, <1>9, <2>1, <2>3, OutcomePieces DEF out, Weth1
  <2> QED
    BY <2>2, <2>3
<1>10. CASE ~Has(pos, b, 11) /\ ~a.wrap
  <2>1. m.held = ETH
    BY <1>3, <1>10
  <2>2. CASE b = "primary" /\ a.hasRecipient
    BY <1>3, <1>5, <1>7, <1>10, <2>1, <2>2, OutcomePieces DEF out
  <2>3. CASE ~(b = "primary" /\ a.hasRecipient)
    <3>1. m.at = "executor"
      BY <1>3, <1>6, <1>10, <2>3
    <3> QED
      BY <1>5, <1>7, <1>10, <2>1, <2>3, <3>1, OutcomePieces DEF out, Eth1
  <2> QED
    BY <2>2, <2>3
<1> QED
  BY <1>8, <1>9, <1>10

\* What the call has measured behind the last swap to ETH.
LEMMA GoneForEth ==
    ASSUME Built, NEW pos \in Positions(route), NEW b, BlockOf(pos, b), Swap(route, pos).dest = ETH
    PROVE  LET gone == Gone(pos, b, 12)
               a == AnswerOf(pos, b)
           IN
           /\ Delivered \notin gone
           /\ Weth1 \in gone => a.wrap
           /\ Has(pos, b, 9) => Eth1 \in gone /\ Weth1 \in gone /\ a.wrap
           /\ ~a.wrap /\ MeasuredByCall(pos, b) # {} => Eth1 \in gone
<1>1. Resolved(pos, b)
  BY BlockIsResolved
<1>2. ~Has(pos, b, 8) /\ CallIn(pos, b).out = IF AnswerOf(pos, b).wrap THEN WETH ELSE ETH
  <2>1. ~Has(pos, b, 8)
    BY <1>1, OutIs, TokenAssumption
  <2> QED
    BY <1>1, <2>1, OutIs
<1>3. /\ Delivered \notin Gone(pos, b, 12)
      /\ Weth1 \in Gone(pos, b, 12) => CallIn(pos, b).out = WETH
      /\ Has(pos, b, 9) => Eth1 \in Gone(pos, b, 12)
      /\ MeasuredByCall(pos, b) # {} => OnExecutor(CallIn(pos, b).out) \in Gone(pos, b, 12)
  BY GoneHas
<1>4. Has(pos, b, 9) => AnswerOf(pos, b).wrap /\ MeasuredByCall(pos, b) # {}
  BY <1>1, KeptOnExecutor
<1>5. ETH # WETH /\ Eth1 = OnExecutor(ETH) /\ Weth1 = OnExecutor(WETH)
  BY TokenAssumption, PiecesDiffer
<1> QED
  BY <1>2, <1>3, <1>4, <1>5

\* The exchange that would unwrap for all of a single swap does.
LEMMA LastUnwraps ==
    ASSUME Built, ~Several, route.dest = ETH, NEW pos \in Positions(route), NEW b, Resolved(pos, b),
           LastWrapping(ParamsFor(pos, b), pos)
    PROVE  Has(pos, b, 9)
<1>1. LegOf(pos, b).answer.wrap
  BY DEF LastWrapping, LegOf
<1>2. Swap(route, pos).dest = ETH
  BY AnswerFits DEF Resolved
<1>3. "withdraw" \in plan
  BY <1>1, <1>2, BoughtInEth
<1>4. UnwrapsForSwap(ParamsFor(pos, b), pos)
  BY <1>2, <1>3 DEF UnwrapsForSwap, VerticalBranching
<1> QED
  BY <1>4, HasIs DEF Withdraws

\* In a single swap, an exchange behind the one that unwraps delivers by itself.
LEMMA DeliversBehind ==
    ASSUME Built, Sound, ~Several, route.dest = ETH, NEW pos \in Positions(route),
           NEW q \in OfSwap(pos[1], pos[2]), q[3] < pos[3], LastWrapping(Primaries, q)
    PROVE  ~Wraps(pos) /\ Primaries[pos].answer.hasRecipient
<1>1. q \in Positions(route) /\ q[1] = pos[1] /\ q[2] = pos[2]
  BY DEF OfSwap
<1>2. pos \in OfSwap(q[1], q[2]) /\ pos[3] > q[3]
  <2>1. pos \in OfSwap(pos[1], pos[2]) /\ pos[3] \in Nat /\ q[3] \in Nat
    BY <1>1, OfSwapHas
  <2> QED
    BY <1>1, <2>1
<1>3. ~Wraps(pos)
  BY <1>2 DEF LastWrapping, Wraps
<1>4. Withdraws(Primaries, q)
  <2>1. Resolved(q, "primary") /\ ParamsFor(q, "primary") = Primaries
    BY <1>1, PrimaryIs DEF ParamsFor
  <2>2. Has(q, "primary", 9)
    BY <1>1, <2>1, LastUnwraps
  <2> QED
    BY <2>1, <2>2, HasIs
<1>5. RawComesFirst(q)
  BY <1>1 DEF Sound, Parts, Holds
<1> QED
  BY <1>2, <1>3, <1>4, <1>5 DEF RawComesFirst

\* The primary block returns what its exchange is to leave.
LEMMA PrimaryReturns ==
    ASSUME Built, Sound, NEW pos \in Positions(route), NEW m, Returned(pos, "primary", 12, m)
    PROVE  Returns(pos, Piece(m), Gone(pos, "primary", 12))
<1> DEFINE b == "primary"
           gone == Gone(pos, b, 12)
           p == Piece(m)
           a == AnswerOf(pos, b)
           out == OutcomeOf(pos, b)
           own == OfSwap(pos[1], pos[2])
<1>1. BlockOf(pos, b) /\ ParamsFor(pos, b) = Primaries /\ (a.wrap <=> Wraps(pos)) /\ Resolved(pos, b)
      /\ a = Primaries[pos].answer
  BY PrimaryIs DEF BlockOf, Branches, ParamsFor, AnswerOf, Wraps
<1>2. CASE ~IsLastSwap(route, pos)
  BY <1>1, <1>2, MidRouteReturns
<1>3. CASE IsLastSwap(route, pos) /\ route.dest # ETH
  BY <1>1, <1>3, TokenReturns
<1>4. CASE IsLastSwap(route, pos) /\ route.dest = ETH
  <2>1. /\ Swap(route, pos).dest = ETH
        /\ out \in {"sent", "eth", "weth"} /\ (out = "weth" => a.wrap)
        /\ Has(pos, b, 11) => out = "sent"
        /\ Several => ~Has(pos, b, 9) /\ (a.wrap => out = "weth")
        /\ ~Several /\ Has(pos, b, 9) => Has(pos, b, 11)
        /\ ~a.wrap /\ a.hasRecipient => out = "sent"
        /\ ~RootUnwraps(Primaries) => out = "sent"
    BY <1>1, <1>4, OutcomeIs
  <2>2. p = OutcomePiece(out)
    BY <1>1, <1>4, OutcomeReturned
  <2>3. /\ out = "sent" => p = Delivered
        /\ out = "weth" => p = Weth1
        /\ p \in {Eth1, Weth1, Delivered}
        /\ p = Weth1 => out = "weth"
    BY <2>1, <2>2, OutcomePieces, PiecesDiffer
  <2>4. /\ Delivered \notin gone
        /\ Weth1 \in gone => a.wrap
        /\ Has(pos, b, 9) => Eth1 \in gone /\ Weth1 \in gone /\ a.wrap
    BY <1>1, <2>1, GoneForEth
  <2>5. ASSUME Several PROVE ReturnsForRoot(pos, p, gone)
    <3> HIDE DEF gone, p, a, out, b
    <3> QED
      BY <1>1, <2>1, <2>3, <2>4, <2>5 DEF ReturnsForRoot
  <2>6. ASSUME ~Several PROVE ReturnsForSwap(pos, p, gone)
    <3>1. p = Weth1 => Wraps(pos)
      BY <1>1, <2>1, <2>3
    <3>2. LastWrapping(Primaries, pos) => Has(pos, b, 9)
      BY <1>1, <1>4, <2>6, LastUnwraps
    <3>3. ASSUME NEW q \in own \ {pos}, q[3] < pos[3], LastWrapping(Primaries, q)
          PROVE  p = Delivered
      <4>1. ~Wraps(pos) /\ Primaries[pos].answer.hasRecipient
        BY <1>4, <2>6, <3>3, DeliversBehind
      <4> QED
        BY <1>1, <2>1, <2>3, <4>1
    <3> HIDE DEF gone, p, a, out, b
    <3> QED
      BY <2>1, <2>3, <2>4, <2>6, <3>1, <3>2, <3>3 DEF ReturnsForSwap, own
  <2> HIDE DEF gone, p, a, out, b
  <2>7. ReturnsLast(pos, p, gone)
    BY <1>4, <2>1, <2>3, <2>5, <2>6 DEF ReturnsLast
  <2>8. Returns(pos, p, gone)
    BY <1>4, <2>4, <2>7 DEF Returns
  <2> QED
    BY <2>8 DEF gone, p, b
<1> QED
  BY <1>2, <1>3, <1>4

\* The steps behind a fallback, by the two outcomes.
LEMMA OutputIs ==
    ASSUME NEW pos, IsLastSwap(route, pos), Swap(route, pos).dest = ETH
    PROVE  LET try == OutcomeOf(pos, "primary")
               other == OutcomeOf(pos, "fallback")
           IN
           OutputSteps(pos) =
             IF other \in {try, "sent"} THEN <<>>
             ELSE IF try = "weth" THEN <<WrapStep>>
             ELSE IF other = "weth" THEN IF try = "sent" THEN <<UnwrapStep, SendNativeStep>>
                                         ELSE <<UnwrapStep>>
             ELSE IF try = "sent" THEN <<SendNativeStep>> ELSE <<>>
<1> DEFINE try == OutcomeOf(pos, "primary")
           other == OutcomeOf(pos, "fallback")
<1>1. /\ try = EthDestOutcome(Primaries, pos, "primary")
      /\ other = EthDestOutcome(Substituted(pos), pos, "fallback")
  BY DEF OutcomeOf, ParamsFor
<1>2. OutputSteps(pos) =
        If(other \notin {try, "sent"},
           IF try = "weth" THEN <<WrapStep>>
           ELSE If(other = "weth", <<UnwrapStep>>) \o If(try = "sent", <<SendNativeStep>>))
  <2> HIDE DEF try, other
  <2> QED
    BY <1>1 DEF OutputSteps
<1> HIDE DEF try, other
<1>3. If(other = "weth", <<UnwrapStep>>) \o If(try = "sent", <<SendNativeStep>>) =
        IF other = "weth" THEN IF try = "sent" THEN <<UnwrapStep, SendNativeStep>> ELSE <<UnwrapStep>>
        ELSE IF try = "sent" THEN <<SendNativeStep>> ELSE <<>>
  BY ShortRows DEF If
<1>4. OutputSteps(pos) =
             IF other \in {try, "sent"} THEN <<>>
             ELSE IF try = "weth" THEN <<WrapStep>>
             ELSE If(other = "weth", <<UnwrapStep>>) \o If(try = "sent", <<SendNativeStep>>)
  BY <1>2 DEF If
<1> QED
  BY <1>3, <1>4 DEF try, other

\* Mid-route, and to another token, there are none.
LEMMA NoOutput ==
    ASSUME Built, NEW pos \in Positions(route), ~(IsLastSwap(route, pos) /\ route.dest = ETH)
    PROVE  OutputSteps(pos) = <<>>
<1>1. ~(Swap(route, pos).dest = ETH /\ IsLastSwap(route, pos))
  BY OfSwapHas, SwapsFollow
<1> QED
  BY <1>1 DEF OutputSteps, If

\* What the steps behind a fallback take in is ETH.
LEMMA GoneAroundFallback ==
    ASSUME NEW pos, NEW m
    PROVE  /\ Gone(pos, "fallback", 12) \subseteq OutputGone(pos, m)
           /\ OutputGone(pos, m) \subseteq Gone(pos, "fallback", 12) \union {Eth1}
  BY DEF OutputGone

\* Without such steps nothing more is taken in.
LEMMA NoneGoneAround ==
    ASSUME NEW pos, OutputSteps(pos) = <<>>
    PROVE  OutputGone(pos, 1) = Gone(pos, "fallback", 12)
<1>1. 1..(1 - 1) = {}
  OBVIOUS
<1> QED
  BY <1>1 DEF OutputGone

\* A fallback to ETH and what is put behind it end as the exchange would have.
LEMMA FinalPiece ==
    ASSUME Built, NEW pos \in Positions(route), IsGrouped(pos), IsLastSwap(route, pos),
           route.dest = ETH, NEW m, OutputLeft(pos, Len(OutputSteps(pos)) + 1, m)
    PROVE  Piece(m) = OutcomePiece(FinalOutcome(pos))
<1> DEFINE try == OutcomeOf(pos, "primary")
           other == OutcomeOf(pos, "fallback")
<1>1. BlockOf(pos, "primary") /\ BlockOf(pos, "fallback")
  BY DEF BlockOf, Branches
<1>2. /\ Swap(route, pos).dest = ETH
      /\ try \in {"sent", "eth", "weth"} /\ other \in {"sent", "eth", "weth"}
  BY <1>1, OutcomeIs
<1>3. FinalOutcome(pos) = IF other = "sent" THEN "sent" ELSE try
  BY DEF FinalOutcome, OutcomeOf, ParamsFor
<1>4. Len(OutputSteps(pos)) \in Nat
  BY AroundIsSeq
<1>5. IF OutputSteps(pos) = <<>> THEN Returned(pos, "fallback", 12, m)
      ELSE Piece(m) = OutcomePiece(FinalOutcome(pos))
  <2>1. ~(Len(OutputSteps(pos)) + 1 <= Len(OutputSteps(pos)))
    BY <1>4
  <2> QED
    BY <2>1 DEF OutputLeft
<1>6. CASE OutputSteps(pos) = <<>>
  <2>1. Piece(m) = OutcomePiece(other)
    BY <1>1, <1>5, <1>6, OutcomeReturned
  <2>2. other \in {try, "sent"}
    <3>1. /\ <<>> # <<WrapStep>> /\ <<>> # <<UnwrapStep>> /\ <<>> # <<SendNativeStep>>
          /\ <<>> # <<UnwrapStep, SendNativeStep>>
      BY RowsDiffer
    <3>2. OutputSteps(pos) =
             IF other \in {try, "sent"} THEN <<>>
             ELSE IF try = "weth" THEN <<WrapStep>>
             ELSE IF other = "weth" THEN IF try = "sent" THEN <<UnwrapStep, SendNativeStep>>
                                         ELSE <<UnwrapStep>>
             ELSE IF try = "sent" THEN <<SendNativeStep>> ELSE <<>>
      BY <1>2, OutputIs
    <3> HIDE DEF try, other
    <3> QED
      BY <1>2, <1>6, <3>1, <3>2
  <2>3. FinalOutcome(pos) = other
    BY <1>3, <2>2
  <2> QED
    BY <2>1, <2>3
<1>7. CASE OutputSteps(pos) # <<>>
  BY <1>5, <1>7
<1> QED
  BY <1>6, <1>7

\* And so do a fallback and what is put behind it.
LEMMA FallbackReturns ==
    ASSUME Built, Sound, NEW pos \in Positions(route), IsGrouped(pos), NEW m,
           OutputLeft(pos, Len(OutputSteps(pos)) + 1, m)
    PROVE  Returns(pos, Piece(m), OutputGone(pos, Len(OutputSteps(pos)) + 1))
<1> DEFINE n == Len(OutputSteps(pos)) + 1
           gone == OutputGone(pos, n)
           inner == Gone(pos, "fallback", 12)
           p == Piece(m)
           P == Primaries
           F == Substituted(pos)
           a == AnswerOf(pos, "primary")
           f == AnswerOf(pos, "fallback")
           own == OfSwap(pos[1], pos[2])
           try == OutcomeOf(pos, "primary")
           other == OutcomeOf(pos, "fallback")
<1>1. /\ BlockOf(pos, "primary") /\ BlockOf(pos, "fallback") /\ HasFallback(pos)
      /\ ParamsFor(pos, "primary") = P /\ ParamsFor(pos, "fallback") = F
      /\ a.wrap <=> Wraps(pos)
      /\ a = P[pos].answer /\ f = F[pos].answer
      /\ Resolved(pos, "primary") /\ Resolved(pos, "fallback")
  BY PrimaryIs DEF BlockOf, Branches, ParamsFor, AnswerOf, Wraps, IsGrouped
<1>2. CASE ~(IsLastSwap(route, pos) /\ route.dest = ETH)
  <2>1. OutputSteps(pos) = <<>>
    BY <1>2, NoOutput
  <2>2. n = 1
    BY <2>1, EmptyIsSeq
  <2>3. gone = inner
    BY <2>1, <2>2, NoneGoneAround
  <2>4. Returned(pos, "fallback", 12, m)
    <3>1. Len(OutputSteps(pos)) = 0
      BY <2>1, EmptyIsSeq
    <3>2. ~(Len(OutputSteps(pos)) + 1 <= Len(OutputSteps(pos)))
      BY <3>1
    <3> QED
      BY <2>1, <3>2 DEF OutputLeft
  <2>5. Returns(pos, p, inner)
    <3>1. CASE ~IsLastSwap(route, pos)
      BY <1>1, <2>4, <3>1, MidRouteReturns
    <3>2. CASE IsLastSwap(route, pos)
      BY <1>1, <1>2, <2>4, <3>2, TokenReturns
    <3> QED
      BY <3>1, <3>2
  <2> QED
    BY <2>3, <2>5
<1>3. CASE IsLastSwap(route, pos) /\ route.dest = ETH
  <2>1. /\ Swap(route, pos).dest = ETH
        /\ try \in {"sent", "eth", "weth"} /\ (try = "weth" => a.wrap)
        /\ Has(pos, "primary", 11) => try = "sent"
        /\ Several => (a.wrap => try = "weth")
        /\ ~Several /\ Has(pos, "primary", 9) => Has(pos, "primary", 11)
        /\ ~a.wrap /\ a.hasRecipient => try = "sent"
        /\ ~RootUnwraps(P) => try = "sent"
    BY <1>1, <1>3, OutcomeIs
  <2>2. /\ other \in {"sent", "eth", "weth"} /\ (other = "weth" => f.wrap)
        /\ Has(pos, "fallback", 11) => other = "sent"
        /\ Several => (f.wrap => other = "weth")
        /\ ~f.wrap /\ ~Has(pos, "fallback", 11) => other = "eth"
        /\ ~Has(pos, "fallback", 11) => other # "sent"
    <3>1. /\ other \in {"sent", "eth", "weth"} /\ (other = "weth" => f.wrap)
          /\ Has(pos, "fallback", 11) => other = "sent"
          /\ Several => (f.wrap => other = "weth")
          /\ ~f.wrap /\ ~Has(pos, "fallback", 11) => other = "eth"
      BY <1>1, <1>3, OutcomeIs
    <3>2. other = IF Has(pos, "fallback", 11) THEN "sent"
             ELSE IF f.wrap THEN IF Has(pos, "fallback", 9) THEN "eth" ELSE "weth"
             ELSE IF "fallback" = "primary" /\ f.hasRecipient THEN "sent" ELSE "eth"
      BY UnitOutcome
    <3> HIDE DEF other, f
    <3> QED
      BY <3>1, <3>2
  <2>3. p = OutcomePiece(IF other = "sent" THEN "sent" ELSE try)
    <3>1. FinalOutcome(pos) = IF other = "sent" THEN "sent" ELSE try
      BY DEF FinalOutcome, OutcomeOf, ParamsFor
    <3> QED
      BY <1>3, <3>1, FinalPiece
  <2>4. /\ other = "sent" \/ try = "sent" => p = Delivered
        /\ other # "sent" /\ try = "weth" => p = Weth1
        /\ p \in {Eth1, Weth1, Delivered}
        /\ p = Weth1 => try = "weth"
    BY <2>1, <2>2, <2>3, OutcomePieces, PiecesDiffer
  <2>5. /\ Delivered \notin gone /\ inner \subseteq gone
        /\ Weth1 \in gone => f.wrap
        /\ Has(pos, "fallback", 9) => Eth1 \in inner /\ Weth1 \in inner
        /\ ~f.wrap /\ MeasuredByCall(pos, "fallback") # {} => Eth1 \in inner
    <3>1. inner \subseteq gone /\ gone \subseteq inner \union {Eth1}
      BY GoneAroundFallback
    <3>2. /\ Delivered \notin inner /\ (Weth1 \in inner => f.wrap)
          /\ Has(pos, "fallback", 9) => Eth1 \in inner /\ Weth1 \in inner
          /\ ~f.wrap /\ MeasuredByCall(pos, "fallback") # {} => Eth1 \in inner
      BY <1>1, <2>1, GoneForEth
    <3> QED
      BY <3>1, <3>2, PiecesDiffer
  <2>6. ASSUME Several PROVE ReturnsForRoot(pos, p, gone)
    <3>1. RootUnwraps(P) => ~Has(pos, "fallback", 11) /\ ~Contains(OutputSteps(pos), UnwrapStep)
      <4>1. RootUnwrapsIt(pos)
        BY DEF Sound, Parts, Holds
      <4>2. Has(pos, "fallback", 11) <=> UnitHas(F, pos, "fallback", "sendNative")
        BY <1>1, StageNames DEF Has
      <4> QED
        BY <1>1, <1>3, <2>6, <4>1, <4>2 DEF RootUnwrapsIt
    <3>2. Wraps(pos) => RootUnwraps(P)
      BY <1>1, <1>3, OutcomeIs
    <3>3. Wraps(pos) => p = Weth1
      BY <1>1, <2>1, <2>2, <2>4, <2>6, <3>1, <3>2
    <3>4. ASSUME Weth1 \in gone, RootUnwraps(P) PROVE p = Weth1
      <4>1. other = "weth"
        BY <2>2, <2>5, <2>6, <3>4
      <4>2. try = "weth"
        <5> SUFFICES ASSUME try # "weth" PROVE FALSE
          BY <2>1
        <5>1. OutputSteps(pos) \in {<<UnwrapStep, SendNativeStep>>, <<UnwrapStep>>}
          <6>1. OutputSteps(pos) =
                   IF other \in {try, "sent"} THEN <<>>
                   ELSE IF try = "weth" THEN <<WrapStep>>
                   ELSE IF other = "weth" THEN IF try = "sent" THEN <<UnwrapStep, SendNativeStep>>
                                               ELSE <<UnwrapStep>>
                   ELSE IF try = "sent" THEN <<SendNativeStep>> ELSE <<>>
            BY <1>3, <2>1, OutputIs
          <6> HIDE DEF try, other
          <6> QED
            BY <4>1, <6>1
        <5>2. Contains(OutputSteps(pos), UnwrapStep)
          <6>1. \A s, t : Contains(<<s>>, s) /\ Contains(<<s, t>>, s)
            BY DEF Contains
          <6> QED
            BY <5>1, <6>1
        <5> QED
          BY <3>1, <3>4, <5>2
      <4> QED
        BY <2>2, <2>4, <3>1, <3>4, <4>1, <4>2
    <3> QED
      BY <3>3, <3>4 DEF ReturnsForRoot
  <2>7. ASSUME ~Several PROVE ReturnsForSwap(pos, p, gone)
    <3>1. p = Weth1 => Wraps(pos)
      BY <1>1, <2>1, <2>4
    <3>2. ASSUME LastWrapping(P, pos)
          PROVE  p = Delivered /\ Eth1 \in gone /\ (Weth1 \in gone \/ \A q \in own \ {pos} : ~Wraps(q))
      <4>1. Has(pos, "primary", 9)
        BY <1>1, <1>3, <2>7, <3>2, LastUnwraps
      <4>2. p = Delivered
        BY <2>1, <2>4, <2>7, <4>1
      <4>3. CASE f.wrap
        <5>1. LastWrapping(F, pos)
          <6>1. \A q \in own : q # pos => F[q] = P[q]
            BY DEF Substituted, Primaries, OfSwap
          <6>2. \A q \in own : q[3] > pos[3] => q # pos
            BY OfSwapHas
          <6> QED
            BY <1>1, <3>2, <4>3, <6>1, <6>2 DEF LastWrapping
        <5>2. Has(pos, "fallback", 9)
          BY <1>1, <1>3, <2>7, <5>1, LastUnwraps
        <5> QED
          BY <2>5, <4>2, <5>2
      <4>4. CASE ~f.wrap
        <5>1. \A q \in own \ {pos} : ~Wraps(q)
          <6>1. UnwrapIsShared(pos)
            BY DEF Sound, Parts, Holds
          <6>2. Withdraws(P, pos)
            BY <1>1, <4>1, HasIs
          <6>3. ~\E q \in Positions(route) \ {pos} : P[q].answer.wrap
            BY <1>1, <2>7, <4>4, <6>1, <6>2 DEF UnwrapIsShared
          <6> QED
            BY <6>3 DEF OfSwap, Wraps
        <5>2. Eth1 \in gone
          <6>1. KeepsOutput(pos, "fallback")
            BY <2>1, <2>7 DEF KeepsOutput
          <6>2. CallIn(pos, "fallback").to = "executor"
            <7>1. LegOf(pos, "fallback").recipient = "executor"
              BY <1>1, <2>1, LegIs
            <7> QED
              BY <7>1, CallIs
          <6>3. MeasuredByCall(pos, "fallback") # {}
            BY <1>1, <6>1, <6>2, KeptOnExecutor
          <6> QED
            BY <2>5, <4>4, <6>3
        <5> QED
          BY <4>2, <5>1, <5>2
      <4> QED
        BY <4>3, <4>4
    <3>3. ASSUME NEW q \in own \ {pos}, q[3] < pos[3], LastWrapping(P, q)
          PROVE  p = Delivered
      <4>1. ~Wraps(pos) /\ P[pos].answer.hasRecipient
        BY <1>3, <2>7, <3>3, DeliversBehind
      <4> QED
        BY <1>1, <2>1, <2>4, <4>1
    <3> HIDE DEF gone, p, a, f, try, other, own
    <3> QED
      BY <3>1, <3>2, <3>3 DEF ReturnsForSwap, own
  <2> HIDE DEF gone, p, a, f, try, other, n
  <2>8. ReturnsLast(pos, p, gone)
    BY <1>3, <2>1, <2>4, <2>6, <2>7 DEF ReturnsLast
  <2>9. Returns(pos, p, gone)
    BY <1>3, <2>5, <2>8 DEF Returns
  <2> QED
    BY <2>9 DEF gone, p, n
<1> QED
  BY <1>2, <1>3

-----------------------------------------------------------------------------
(* Where a block ends. *)

\* The group of an exchange that is not split measures the form that is there.
LEMMA GroupMeasures ==
    ASSUME Built, Sound, NEW pos \in Positions(route), IsGrouped(pos), ~IsSplit(pos),
           NEW p, NEW gone, Returns(pos, p, gone),
           IsLastSwap(route, pos) => route.dest = ETH /\ Wraps(pos)
    PROVE  p.at = "executor" /\ p.held \in Measured(pos)
<1> DEFINE i == pos[1]
           j == pos[2]
           raw == AnyRaw(Primaries, i, j)
           wraps == AnyWraps(Primaries, i, j)
           token == Swap(route, pos).dest
           isLast == IsLastSwap(route, pos)
<1>1. /\ pos \in OfSwap(i, j) /\ i \in 1..NPaths /\ j \in 1..LastSwap(i)
      /\ SwapOf(i, j).dest = token /\ (isLast <=> j = LastSwap(i))
  BY OfSwapHas
<1>2. Measured(pos) =
         IF j = LastSwap(i) THEN IF route.dest = ETH /\ wraps THEN {WETH} ELSE {}
         ELSE IF SwapOf(i, j).dest = ETH /\ raw THEN {ETH}
         ELSE {WrappedForm(SwapOf(i, j).dest)}
  BY <1>1, MeasuredIs
<1>3. Several /\ (wraps <=> Wraps(pos)) /\ (raw <=> ~Wraps(pos))
  BY LoneForms
<1>4. CASE isLast
  <2>1. p = Weth1
    BY <1>3, <1>4 DEF Returns, ReturnsLast, ReturnsForRoot
  <2>2. Measured(pos) = {WETH}
    BY <1>1, <1>2, <1>3, <1>4
  <2> QED
    BY <2>1, <2>2, PiecesDiffer
<1>5. CASE ~isLast
  <2> DEFINE keeps == Wraps(pos) /\ ~Withdraws(Primaries, pos)
  <2>1. /\ token # ETH => p = OnExecutor(token)
        /\ token = ETH => p = IF keeps THEN Weth1 ELSE Eth1
    BY <1>5 DEF Returns, ReturnsMidRoute
  <2>2. ~Withdraws(Primaries, pos)
    <3>1. Holds("groupEth", pos)
      BY DEF Sound, Parts
    <3> QED
      BY <1>5, <3>1 DEF Holds, NoGroupReturnsEth
  <2>3. Measured(pos) = IF token = ETH /\ ~Wraps(pos) THEN {ETH} ELSE {WrappedForm(token)}
    BY <1>1, <1>2, <1>3, <1>5
  <2>4. keeps <=> Wraps(pos)
    BY <2>2
  <2> HIDE DEF keeps, token
  <2>5. CASE token # ETH
    BY <2>1, <2>3, <2>5, PiecesDiffer DEF WrappedForm
  <2>6. CASE token = ETH
    BY <2>1, <2>3, <2>4, <2>6, PiecesDiffer DEF WrappedForm
  <2> QED
    BY <2>5, <2>6
<1> QED
  BY <1>4, <1>5

\* What a block leaves at its end.
BlockLeaves(s, pos, p, gone) ==
    /\ Piece(s.machine) = p /\ s.rest = {}
    /\ Returns(pos, p, gone) /\ LeftAside(pos, gone, s.aside)

\* At the end of a block what it returns is what its exchange is to leave.
LEMMA BlockEndHas ==
    ASSUME Built, Sound, NEW pos \in Positions(route), NEW s, AtBlockEndOf(s, pos)
    PROVE  \E gone : BlockLeaves(s, pos, Piece(s.machine), gone)
<1>1. IsGrouped(pos)
  BY DEF AtBlockEndOf
<1>2. CASE BeforeStage(s, pos, "primary", 12)
  <2>1. StageFunds(s, pos, "primary", 12)
    BY <1>2, StageIs
  <2>2. Returned(pos, "primary", 12, s.machine) /\ s.rest = {}
        /\ LeftAside(pos, Gone(pos, "primary", 12), s.aside)
    <3>1. ~(12 < 8)
      OBVIOUS
    <3> QED
      BY <2>1, <3>1 DEF StageFunds
  <2>3. Returns(pos, Piece(s.machine), Gone(pos, "primary", 12))
    BY <2>2, PrimaryReturns
  <2> QED
    BY <2>2, <2>3 DEF BlockLeaves
<1>3. CASE BeforeOutput(s, pos, Len(OutputSteps(pos)) + 1)
  <2> DEFINE m == Len(OutputSteps(pos)) + 1
  <2>1. s.rest = {} /\ OutputLeft(pos, m, s.machine) /\ LeftAside(pos, OutputGone(pos, m), s.aside)
    BY <1>3 DEF BeforeOutput
  <2>2. Returns(pos, Piece(s.machine), OutputGone(pos, m))
    BY <1>1, <2>1, FallbackReturns
  <2> QED
    BY <2>1, <2>2 DEF BlockLeaves
<1> QED
  BY <1>2, <1>3 DEF AtBlockEndOf

\* It is where its group ends, which measures what the group was built to.
LEMMA BlockEndLies ==
    ASSUME Built, NEW pos \in Positions(route), NEW s, AtBlockEndOf(s, pos)
    PROVE  /\ Ends(s) /\ s.group.end = ExEnd(pos) + 1 /\ s.group.measured = GroupOf(pos).measured
           /\ InExchange(s.frames, pos)
<1>1. IsGrouped(pos)
  BY DEF AtBlockEndOf
<1>2. CASE BeforeStage(s, pos, "primary", 12)
  <2>1. s.pc = StageOf(pos, "primary", 12) + 1 /\ InBlock(s, pos, "primary")
    BY <1>2, StageIs
  <2>2. StageOf(pos, "primary", 12) = UnitEnd(pos, "primary")
    <3>1. BlockOf(pos, "primary")
      BY DEF BlockOf, Branches
    <3> QED
      BY <3>1, StagesLie, BuiltShape
  <2>3. UnitEnd(pos, "primary") = InputAt(pos)
    BY <1>1, GroupPartsLie, BuiltShape
  <2> QED
    BY <1>1, <2>1, <2>2, <2>3 DEF InBlock, Ends
<1>3. CASE BeforeOutput(s, pos, Len(OutputSteps(pos)) + 1)
  <2>1. s.pc = UnitEnd(pos, "fallback") + (Len(OutputSteps(pos)) + 1) /\ InBlock(s, pos, "fallback")
    BY <1>3 DEF BeforeOutput
  <2>2. UnitEnd(pos, "fallback") + Len(OutputSteps(pos)) = ExEnd(pos) /\ UnitEnd(pos, "fallback") \in Nat
    BY <1>1, GroupPartsLie, BuiltShape
  <2>3. Len(OutputSteps(pos)) \in Nat
    BY AroundIsSeq
  <2>4. s.pc = ExEnd(pos) + 1
    BY <2>1, <2>2, <2>3
  <2> QED
    BY <1>1, <2>1, <2>4 DEF InBlock, Ends
<1> QED
  BY <1>2, <1>3 DEF AtBlockEndOf

\* The end of a block takes in what there is of the measured form, and takes nothing
\* else away.
LEMMA LeavesIs ==
    ASSUME NEW s, NEW t, TypedState(s), Leaves(s, t)
    PROVE  LET found == s.machine.at = "executor" /\ s.machine.held \in s.group.measured
               p == Piece(s.machine)
           IN
           /\ Piece(t.machine) = p /\ (t.machine.exact <=> found) /\ t.machine \in Machines
           /\ t.rest = (IF found THEN s.rest \ {p} ELSE s.rest)
           /\ t.aside = (IF found THEN s.aside \ {p} ELSE s.aside)
           /\ t.pc = s.group.end /\ Idle(t) /\ t.frames = s.frames
           /\ t.rest \subseteq s.rest /\ t.aside \subseteq s.aside
<1> DEFINE found == s.machine.at = "executor" /\ s.machine.held \in s.group.measured
           p == Piece(s.machine)
<1>1. found \in BOOLEAN
  OBVIOUS
<1>2. s.machine \in Machines
  BY DEF TypedState
<1>3. /\ t.machine = [s.machine EXCEPT !.exact = found]
      /\ t.rest = (IF found THEN s.rest \ {p} ELSE s.rest)
      /\ t.aside = (IF found THEN s.aside \ {p} ELSE s.aside)
      /\ t.pc = s.group.end /\ Idle(t) /\ t.frames = s.frames
  BY DEF Leaves, Idle
<1> HIDE DEF found
<1>4. Piece(t.machine) = p /\ (t.machine.exact <=> found) /\ t.machine \in Machines
  BY <1>1, <1>2, <1>3 DEF Machines, Piece
<1>5. t.rest \subseteq s.rest /\ t.aside \subseteq s.aside
  BY <1>3
<1> QED
  BY <1>3, <1>4, <1>5 DEF found

\* Where a block ends its group leads behind its exchange.
LEMMA GroupLeaves ==
    ASSUME Built, NEW pos \in Positions(route), NEW s, TypedState(s), AtBlockEndOf(s, pos),
           NEW t, Leaves(s, t)
    PROVE  Located(t) /\ TypedState(t)
<1> DEFINE found == s.machine.at = "executor" /\ s.machine.held \in s.group.measured
           p == Piece(s.machine)
<1>1. IsGrouped(pos)
  BY DEF AtBlockEndOf
<1>2. /\ s.group.end = ExEnd(pos) + 1 /\ s.group.measured = GroupOf(pos).measured
      /\ InExchange(s.frames, pos)
  BY BlockEndLies
<1>3. /\ Piece(t.machine) = p /\ (t.machine.exact <=> found) /\ t.machine \in Machines
      /\ t.rest = (IF found THEN s.rest \ {p} ELSE s.rest)
      /\ t.aside = (IF found THEN s.aside \ {p} ELSE s.aside)
      /\ t.pc = s.group.end /\ Idle(t) /\ t.frames = s.frames
      /\ t.rest \subseteq s.rest /\ t.aside \subseteq s.aside
  BY LeavesIs
<1>4. ExEnd(pos) \in Nat
  BY ExchangeLies, BuiltShape
<1>5. TypedState(t)
  BY <1>2, <1>3, <1>4 DEF TypedState
<1>6. Sound => ExchangeLeft(t, pos)
  <2> SUFFICES ASSUME Sound PROVE ExchangeLeft(t, pos)
    OBVIOUS
  <2>1. PICK gone : BlockLeaves(s, pos, p, gone)
    BY BlockEndHas
  <2>2. s.rest = {} /\ Returns(pos, p, gone) /\ LeftAside(pos, gone, s.aside)
    BY <2>1 DEF BlockLeaves
  <2>3. GroupOf(pos).measured = IF IsSplit(pos) THEN {} ELSE Measured(pos)
    BY StepsAre DEF GroupOf
  <2>4. IsSplit(pos) => ~found
    BY <1>2, <2>3
  <2>5. p.held = s.machine.held /\ p.at = s.machine.at
    BY HeldIs
  <2>6. ~IsSplit(pos) /\ (IsLastSwap(route, pos) => route.dest = ETH /\ Wraps(pos)) => found
    BY <1>1, <1>2, <2>2, <2>3, <2>5, GroupMeasures
  <2> HIDE DEF found, p
  <2>7. t.aside = s.aside \/ (~IsSplit(pos) /\ t.aside = s.aside \ {p})
    BY <1>3, <2>4
  <2>8. t.rest = {}
    BY <1>3, <2>2
  <2>9. ~IsSplit(pos) /\ (IsLastSwap(route, pos) => route.dest = ETH /\ Wraps(pos))
           => t.machine.exact
    BY <1>3, <2>6
  <2> QED
    BY <1>3, <2>2, <2>7, <2>8, <2>9, LeavesFor
<1>7. BehindExchange(t, pos)
  BY <1>2, <1>3, <1>6 DEF BehindExchange
<1> QED
  BY <1>5, <1>7, LocatedBehindExchange

\* An exchange that is not split measures what is worked on behind it.
LEMMA LoneIsMeasured ==
    ASSUME Built, NEW pos \in Positions(route), ~IsSplit(pos),
           IsLastSwap(route, pos) => route.dest = ETH /\ Wraps(pos),
           NEW m, Returned(pos, "primary", 12, m)
    PROVE  m.exact
<1> DEFINE i == pos[1]
           j == pos[2]
           a == AnswerOf(pos, "primary")
           swap == Swap(route, pos)
<1>1. Resolved(pos, "primary") /\ BlockOf(pos, "primary")
  BY DEF Resolved, BlockOf, Branches
<1>2. Several /\ OfSwap(i, j) = {pos} /\ pos[3] \in Nat
  BY LoneForms, OfSwapHas
<1>3. Primaries[pos].answer = a /\ ParamsFor(pos, "primary") = Primaries
  BY PrimaryIs DEF AnswerOf, ParamsFor
<1>4. KeepsOutput(pos, "primary")
  <2>1. CASE ~IsLastSwap(route, pos)
    BY <1>2, <1>3, <2>1 DEF KeepsOutput, Keeps, VerticalBranching
  <2>2. CASE IsLastSwap(route, pos)
    <3>1. a.wrap /\ route.dest = ETH
      BY <1>3, <2>2 DEF Wraps
    <3>2. swap.dest = ETH
      BY <2>2, <3>1, OfSwapHas, SwapsFollow
    <3>3. "withdraw" \in plan
      BY <1>1, <3>1, <3>2, BoughtInEth DEF AnswerOf
    <3>4. LastWrapping(Primaries, pos)
      BY <1>2, <1>3, <3>1 DEF LastWrapping
    <3>5. UnwrapsForSwap(Primaries, pos)
      BY <3>2, <3>3, <3>4 DEF UnwrapsForSwap, VerticalBranching
    <3> QED
      BY <1>2, <1>3, <3>5 DEF KeepsOutput, Keeps
  <2> QED
    BY <2>1, <2>2
<1>5. CallIn(pos, "primary").to = "executor"
  <2>1. /\ CallIn(pos, "primary").to = IF a.hasRecipient THEN LegOf(pos, "primary").recipient ELSE "executor"
        /\ LegOf(pos, "primary").recipient =
                IF \/ swap.dest = ETH /\ a.wrap
                   \/ ~IsLastSwap(route, pos)
                   \/ "primary" = "fallback" /\ swap.dest = ETH
                THEN "executor" ELSE "augustus"
    BY <1>1, BlockReturns
  <2>2. IsLastSwap(route, pos) => swap.dest = ETH /\ a.wrap
    BY <1>3, OfSwapHas, SwapsFollow DEF Wraps
  <2> QED
    BY <2>1, <2>2
<1>6. MeasuredByCall(pos, "primary") # {}
  BY <1>1, <1>4, <1>5, KeptOnExecutor
<1> QED
  BY <1>1, <1>6, BlockReturns

\* Without a group the end of the unit is behind the exchange.
LEMMA UngroupedLeaves ==
    ASSUME Built, NEW pos \in Positions(route), ~IsGrouped(pos),
           NEW s, BeforeStage(s, pos, "primary", 12)
    PROVE  BehindExchange(s, pos)
<1>1. s.pc = StageOf(pos, "primary", 12) + 1 /\ InBlock(s, pos, "primary")
  BY StageIs
<1>2. StageOf(pos, "primary", 12) = ExEnd(pos)
  <2>1. BlockOf(pos, "primary")
    BY DEF BlockOf, Branches
  <2> QED
    BY <2>1, StagesLie, BuiltShape
<1>3. Sound => ExchangeLeft(s, pos)
  <2> SUFFICES ASSUME Sound PROVE ExchangeLeft(s, pos)
    OBVIOUS
  <2> DEFINE p == Piece(s.machine)
             gone == Gone(pos, "primary", 12)
  <2>1. ~(12 < 8)
    OBVIOUS
  <2>2. Returned(pos, "primary", 12, s.machine) /\ s.rest = {} /\ LeftAside(pos, gone, s.aside)
    BY <2>1, StageIs DEF StageFunds
  <2>3. Returns(pos, p, gone)
    BY <2>2, PrimaryReturns
  <2>4. ~IsSplit(pos) /\ (IsLastSwap(route, pos) => route.dest = ETH /\ Wraps(pos))
           => s.machine.exact
    BY <2>2, LoneIsMeasured
  <2> QED
    BY <2>2, <2>3, <2>4, LeavesFor
<1> QED
  BY <1>1, <1>2, <1>3 DEF BehindExchange, InBlock

\* A fallback behind which something is put has measured what it returned.
LEMMA MeasuredFallback ==
    ASSUME Built, Sound, NEW pos \in Positions(route), IsGrouped(pos), OutputSteps(pos) # <<>>
    PROVE  MeasuredByCall(pos, "fallback") # {}
<1> DEFINE swap == Swap(route, pos)
           P == Substituted(pos)
           a == AnswerOf(pos, "fallback")
           call == CallIn(pos, "fallback")
<1>1. Resolved(pos, "fallback") /\ HasFallback(pos)
  BY DEF IsGrouped, Resolved, Branches
<1>2. ParamsFor(pos, "fallback") = P /\ P[pos].answer = a
  BY DEF ParamsFor, AnswerOf, LegOf
<1>3. IsLastSwap(route, pos) /\ route.dest = ETH
  BY NoOutput
<1>4. swap.dest = ETH
  BY <1>3, OfSwapHas, SwapsFollow
<1>5. call.to = "executor"
  <2>1. LegOf(pos, "fallback").recipient = "executor"
    BY <1>1, <1>4, LegIs
  <2>2. call.to = IF a.hasRecipient THEN LegOf(pos, "fallback").recipient ELSE "executor"
    BY CallIs
  <2> QED
    BY <2>1, <2>2
<1>6. DexFlag(P, pos).check # "none"
  <2>1. Holds("measuredFallback", pos)
    BY DEF Sound, Parts
  <2> QED
    BY <1>1, <2>1 DEF Holds, FallbackIsMeasured
<1>7. KeepsOutput(pos, "fallback")
  <2>1. CASE Several
    <3>1. Consistent(swap, a)
      BY <1>1, AnswerFits
    <3>2. ~UnwrapsSrc(swap, a) /\ ~WrapsDest(swap, a)
      BY <1>4, <3>1, ConsistentIs, TokenAssumption DEF WrapsDest
    <3>3. DexFlag(P, pos) = MultiFlag(swap, a, Keeps(P, pos))
      BY <1>2, <2>1 DEF DexFlag
    <3>4. Keeps(P, pos)
      BY <1>6, <3>2, <3>3, ChecksAre
    <3> QED
      BY <1>2, <2>1, <3>4 DEF KeepsOutput
  <2>2. CASE ~Several
    BY <1>4, <2>2 DEF KeepsOutput
  <2> QED
    BY <2>1, <2>2
<1> QED
  BY <1>1, <1>5, <1>7, KeptOnExecutor

\* The first step behind a fallback is given the form that the fallback left.
LEMMA FirstOutput ==
    ASSUME Built, Sound, NEW pos \in Positions(route), IsGrouped(pos),
           NEW m, Returned(pos, "fallback", 12, m)
    PROVE  OutputLeft(pos, 1, m)
<1> DEFINE try == OutcomeOf(pos, "primary")
           other == OutcomeOf(pos, "fallback")
           steps == OutputSteps(pos)
<1>1. Len(steps) \in Nat
  BY AroundIsSeq
<1>2. CASE steps = <<>>
  <2>1. ~(1 <= Len(steps))
    BY <1>2, EmptyIsSeq
  <2> QED
    BY <1>2, <2>1 DEF OutputLeft
<1>3. CASE steps # <<>>
  <2>1. IsLastSwap(route, pos) /\ route.dest = ETH
    BY <1>3, NoOutput
  <2>2. BlockOf(pos, "primary") /\ BlockOf(pos, "fallback")
    BY DEF BlockOf, Branches
  <2>3. /\ Swap(route, pos).dest = ETH
        /\ try \in {"sent", "eth", "weth"} /\ other \in {"sent", "eth", "weth"}
    BY <2>1, <2>2, OutcomeIs
  <2>4. Piece(m) = OutcomePiece(other)
    BY <2>1, <2>2, OutcomeReturned
  <2>5. m.exact
    BY <1>3, <2>2, MeasuredFallback, BlockReturns
  <2>6. steps =
             IF other \in {try, "sent"} THEN <<>>
             ELSE IF try = "weth" THEN <<WrapStep>>
             ELSE IF other = "weth" THEN IF try = "sent" THEN <<UnwrapStep, SendNativeStep>>
                                         ELSE <<UnwrapStep>>
             ELSE IF try = "sent" THEN <<SendNativeStep>> ELSE <<>>
    BY <2>1, <2>3, OutputIs
  <2> HIDE DEF try, other, steps
  <2>7. /\ steps[1] = UnwrapStep => other = "weth"
        /\ steps[1] # UnwrapStep => other = "eth"
    BY <1>3, <2>3, <2>6, RowsDiffer
  <2>8. 1 <= Len(steps)
    <3>1. Len(steps) = 1 \/ Len(steps) = 2
      BY <1>3, <2>3, <2>6
    <3> QED
      BY <3>1
  <2>9. /\ other = "weth" => m.held = WETH /\ m.at = "executor"
        /\ other = "eth" => m.held = ETH /\ m.at = "executor"
    BY <2>4, OutcomePieces, HeldIs, PiecesDiffer
  <2>10. HoldsToken(m, IF steps[1] = UnwrapStep THEN WETH ELSE ETH)
    BY <2>5, <2>7, <2>9 DEF HoldsToken
  <2> QED
    BY <2>8, <2>10 DEF OutputLeft, steps
<1> QED
  BY <1>2, <1>3

\* Before the first step behind a fallback, what its unit has taken in is gone.
LEMMA FirstGone ==
    ASSUME NEW pos
    PROVE  OutputGone(pos, 1) = Gone(pos, "fallback", 12)
<1>1. 1..(1 - 1) = {}
  OBVIOUS
<1> QED
  BY <1>1 DEF OutputGone

\* Behind a fallback a step is next: one that is put there, or the end of the block.
LEMMA LocatedBeforeOutput ==
    ASSUME Built, NEW pos \in Positions(route), IsGrouped(pos), NEW s,
           NEW m \in 1..(Len(OutputSteps(pos)) + 1), BeforeOutput(s, pos, m)
    PROVE  Located(s)
<1>1. Len(OutputSteps(pos)) \in Nat
  BY AroundIsSeq
<1>2. m \in 1..Len(OutputSteps(pos)) \/ m = Len(OutputSteps(pos)) + 1
  BY <1>1
<1>3. AtStep(s, pos) \/ AtBlockEndOf(s, pos)
  BY <1>2 DEF AtStep, AtBlockEndOf
<1> QED
  BY <1>3, LocatedIf

\* Behind the steps of a unit.
LEMMA StageLeaves ==
    ASSUME Built, NEW pos \in Positions(route), NEW b, BlockOf(pos, b),
           NEW s, TypedState(s), BeforeStage(s, pos, b, 12)
    PROVE  Located(s)
<1>1. CASE b = "primary" /\ IsGrouped(pos)
  <2>1. AtBlockEndOf(s, pos)
    BY <1>1 DEF AtBlockEndOf
  <2> QED
    BY <2>1, LocatedIf
<1>2. CASE b = "primary" /\ ~IsGrouped(pos)
  BY <1>2, UngroupedLeaves, LocatedBehindExchange
<1>3. CASE b = "fallback"
  <2>1. IsGrouped(pos)
    BY <1>3 DEF BlockOf
  <2>2. s.pc = StageOf(pos, "fallback", 12) + 1 /\ InBlock(s, pos, "fallback")
    BY <1>3, StageIs
  <2>3. StageOf(pos, "fallback", 12) = UnitEnd(pos, "fallback")
    BY <1>3, StagesLie, BuiltShape
  <2>4. Sound => s.rest = {} /\ OutputLeft(pos, 1, s.machine) /\ LeftAside(pos, OutputGone(pos, 1), s.aside)
    <3> SUFFICES ASSUME Sound
                 PROVE  s.rest = {} /\ OutputLeft(pos, 1, s.machine)
                        /\ LeftAside(pos, OutputGone(pos, 1), s.aside)
      OBVIOUS
    <3>1. ~(12 < 8)
      OBVIOUS
    <3>2. Returned(pos, "fallback", 12, s.machine) /\ s.rest = {}
          /\ LeftAside(pos, Gone(pos, "fallback", 12), s.aside)
      BY <1>3, <3>1, StageIs DEF StageFunds
    <3> QED
      BY <2>1, <3>2, FirstOutput, FirstGone
  <2>5. BeforeOutput(s, pos, 1)
    BY <2>2, <2>3, <2>4 DEF BeforeOutput
  <2>6. 1 \in 1..(Len(OutputSteps(pos)) + 1)
    BY AroundIsSeq
  <2> QED
    BY <2>1, <2>5, <2>6, LocatedBeforeOutput
<1> QED
  BY <1>1, <1>2, <1>3 DEF BlockOf, Branches

-----------------------------------------------------------------------------
(* Inside of an exchange. *)

\* A first block that reverts leaves what the group was given to the second.
LEMMA BlockFalls ==
    ASSUME Built, NEW pos \in Positions(route), NEW b, BlockOf(pos, b), NEW s, TypedState(s),
           InBlock(s, pos, b), NEW t, Falls(s, t)
    PROVE  Located(t) /\ TypedState(t)
<1>1. s.group.branch = "primary"
  BY DEF Falls
<1>2. IsGrouped(pos)
  <2>1. Idle(s) => s.group.branch = "none"
    BY DEF Idle, NoGroup
  <2> QED
    BY <1>1, <2>1 DEF InBlock
<1>3. b = "primary"
  BY <1>1, <1>2 DEF InBlock
<1>4. /\ InExchange(s.frames, pos) /\ s.group.other = InputAt(pos) + 1
      /\ s.group.end = ExEnd(pos) + 1 /\ s.group.measured = GroupOf(pos).measured
      /\ SavedTyped(s.group)
      /\ Sound => /\ HoldsToken(s.group.machine, ShareToken(pos))
                  /\ s.group.rest = {} /\ HoldBefore(pos, s.group.aside)
  BY <1>2 DEF InBlock
<1>5. /\ t.group = [s.group EXCEPT !.branch = "fallback"]
      /\ t.pc = s.group.other /\ t.machine = s.group.machine
      /\ t.rest = s.group.rest /\ t.aside = s.group.aside /\ t.frames = s.frames
  BY DEF Falls
<1>6. DOMAIN s.group = {"branch", "other", "end", "measured", "machine", "rest", "aside"}
  BY <1>4 DEF SavedTyped
<1>7. /\ DOMAIN t.group = DOMAIN s.group /\ t.group.branch = "fallback"
      /\ t.group.other = s.group.other /\ t.group.end = s.group.end
      /\ t.group.measured = s.group.measured /\ t.group.machine = s.group.machine
      /\ t.group.rest = s.group.rest /\ t.group.aside = s.group.aside
  BY <1>5, <1>6
<1>8. SavedTyped(t.group)
  BY <1>4, <1>6, <1>7 DEF SavedTyped
<1>9. InBlock(t, pos, "fallback")
  BY <1>2, <1>4, <1>5, <1>7, <1>8 DEF InBlock
<1>10. Sound => HoldsToken(t.machine, InputToken(pos, 1))
  <2>1. Sound => HoldsToken(t.machine, ShareToken(pos))
    BY <1>4, <1>5
  <2>2. Sound => InputToken(pos, 1) = ShareToken(pos)
    <3>1. CASE InputSteps(pos) = <<>>
      <4>1. HasFallback(pos)
        BY <1>2 DEF IsGrouped
      <4>2. Sound => EntryToken(pos, "fallback") = ShareToken(pos)
        BY <3>1, <4>1, InputsMeet DEF InputMeets
      <4> QED
        BY <4>2 DEF InputToken
    <3>2. CASE InputSteps(pos) # <<>>
      <4>1. Len(InputSteps(pos)) \in Nat /\ IsSeq(InputSteps(pos))
        BY AroundIsSeq
      <4>2. Len(InputSteps(pos)) # 0
        BY <3>2, <4>1, EmptyIsSeq, SeqShape
      <4>3. ~(1 > Len(InputSteps(pos)))
        BY <4>1, <4>2
      <4> QED
        BY <4>3 DEF InputToken
    <3> QED
      BY <3>1, <3>2
  <2> QED
    BY <2>1, <2>2
<1>11. BeforeInput(t, pos, 1)
  BY <1>4, <1>5, <1>9, <1>10 DEF BeforeInput
<1>12. 1 \in 1..(Len(InputSteps(pos)) + 1)
  BY AroundIsSeq
<1>13. TypedState(t)
  <2>1. t.pc = InputAt(pos) + 1 /\ InputAt(pos) \in Nat
    BY <1>2, <1>4, <1>5, GroupPartsLie, BuiltShape
  <2> QED
    BY <1>4, <1>5, <2>1 DEF SavedTyped, TypedState
<1> QED
  BY <1>2, <1>11, <1>12, <1>13, LocatedBeforeInput

\* A step of a block that is served.
LEMMA BlockServed ==
    ASSUME Built, NEW pos \in Positions(route), NEW b, BlockOf(pos, b), NEW s, TypedState(s),
           InBlock(s, pos, b),
           IsGrouped(pos) => s.pc <= IF b = "primary" THEN InputAt(pos) ELSE ExEnd(pos),
           NEW step, CodeHas(s.pc, step), IsFundsStep(step), StepTyped(s, step),
           IsGranted(s.machine, step), Sound => Finds(s, step) /\ Threads(s, step),
           \A t : Works(s, t, step) /\ TypedState(t) => Located(t)
    PROVE  Served(s)
<1>1. ~Ends(s)
  <2>1. CASE IsGrouped(pos)
    <3>1. InputAt(pos) \in Nat /\ ExEnd(pos) \in Nat /\ s.pc \in Nat
      BY <2>1, GroupPartsLie, ExchangeLies, BuiltShape DEF TypedState
    <3>2. s.group.branch = b /\ s.group.other = InputAt(pos) + 1 /\ s.group.end = ExEnd(pos) + 1
      BY <2>1 DEF InBlock
    <3>3. b = "primary" => s.pc # InputAt(pos) + 1
      BY <2>1, <3>1
    <3>4. b = "fallback" => s.pc # ExEnd(pos) + 1
      BY <2>1, <3>1
    <3> QED
      BY <3>2, <3>3, <3>4 DEF Ends
  <2>2. CASE ~IsGrouped(pos)
    <3>1. s.group.branch = "none"
      BY <2>2 DEF InBlock, Idle, NoGroup
    <3> QED
      BY <3>1 DEF Ends
  <2> QED
    BY <2>1, <2>2
<1>2. \A t : Does(s, t, step) => Located(t)
  <2> SUFFICES ASSUME NEW t, Does(s, t, step) PROVE Located(t)
    OBVIOUS
  <2>1. Works(s, t, step)
    BY WorkIsDone
  <2>2. TypedState(t)
    BY DoesTyped
  <2> QED
    BY <2>1, <2>2
<1>3. \A t : Falls(s, t) => Located(t) /\ TypedState(t)
  BY BlockFalls
<1>4. ServedBy(s, step)
  BY <1>1, <1>2, <1>3 DEF ServedBy
<1> QED
  BY <1>4 DEF Served

\* Each stage of a unit finds what it takes, and leads to the next one.
LEMMA StageServed ==
    ASSUME Built, NEW pos \in Positions(route), NEW b, BlockOf(pos, b), NEW s, TypedState(s),
           NEW n \in 1..11, Has(pos, b, n), BeforeStage(s, pos, b, n)
    PROVE  Served(s)
<1> DEFINE step == StepOf(pos, b, n)
<1>1. InBlock(s, pos, b) /\ s.pc = StageOf(pos, b, n) + 1
  BY StageIs
<1>2. /\ CodeHas(s.pc, step) /\ s.pc <= UnitEnd(pos, b) /\ UnitEnd(pos, b) \in Nat
      /\ StageOf(pos, b, n) \in Nat
  BY <1>1, StagesLie, BuiltShape
<1>3. IsGrouped(pos) => s.pc <= IF b = "primary" THEN InputAt(pos) ELSE ExEnd(pos)
  <2> SUFFICES ASSUME IsGrouped(pos)
               PROVE  s.pc <= IF b = "primary" THEN InputAt(pos) ELSE ExEnd(pos)
    OBVIOUS
  <2>1. UnitEnd(pos, "primary") = InputAt(pos)
        /\ UnitEnd(pos, "fallback") + Len(OutputSteps(pos)) = ExEnd(pos)
    BY GroupPartsLie, BuiltShape
  <2>2. Len(OutputSteps(pos)) \in Nat /\ s.pc \in Nat
    BY AroundIsSeq DEF TypedState
  <2>3. CASE b = "primary"
    BY <1>2, <2>1, <2>3
  <2>4. CASE b = "fallback"
    BY <1>2, <2>1, <2>2, <2>4
  <2> QED
    BY <2>3, <2>4 DEF BlockOf, Branches
<1>4. /\ IsFundsStep(step) /\ StepTyped(s, step) /\ IsGranted(s.machine, step)
      /\ Sound => Finds(s, step) /\ Threads(s, step)
  BY StageNeeds
<1>5. \A t : Works(s, t, step) /\ TypedState(t) => Located(t)
  <2> SUFFICES ASSUME NEW t, Works(s, t, step), TypedState(t) PROVE Located(t)
    OBVIOUS
  <2>1. s.machine \in Machines
    BY DEF TypedState
  <2>2. BeforeStage(t, pos, b, n + 1)
    BY <2>1, StageDoes
  <2>3. n + 1 \in 1..12
    OBVIOUS
  <2>4. CASE \E k \in 1..11 : Has(pos, b, k) /\ BeforeStage(t, pos, b, k)
    <3>1. AtStep(t, pos)
      BY <2>4 DEF AtStep, BlockOf
    <3> QED
      BY <3>1, LocatedIf
  <2>5. CASE BeforeStage(t, pos, b, 12)
    BY <2>5, StageLeaves
  <2> QED
    BY <2>2, <2>3, <2>4, <2>5, StageFound
<1> HIDE DEF step
<1> QED
  BY <1>1, <1>2, <1>3, <1>4, <1>5, BlockServed

\* The group of an exchange and its fallback is entered.
LEMMA GroupServed ==
    ASSUME Built, NEW pos \in Positions(route), IsGrouped(pos), NEW s, TypedState(s),
           BeforeExchange(s, pos)
    PROVE  Served(s)
<1> DEFINE step == GroupOf(pos)
<1>1. /\ s.pc = ExAt(pos) + 1 /\ Idle(s) /\ InExchange(s.frames, pos)
      /\ Sound => HoldsToken(s.machine, ShareToken(pos)) /\ s.rest = {} /\ HoldBefore(pos, s.aside)
  BY DEF BeforeExchange
<1>2. /\ CodeHas(s.pc, step)
      /\ InputAt(pos) \in Nat /\ InputAt(pos) = ExAt(pos) + 1 + step.try
      /\ ExEnd(pos) = InputAt(pos) + step.other /\ UnitAt(pos, "primary") = ExAt(pos) + 1
  BY <1>1, GroupPartsLie, BuiltShape
<1>3. step.op = "group"
  BY StepsAre DEF GroupOf
<1>4. ExAt(pos) \in Nat /\ ExEnd(pos) \in Nat
  BY ExchangeLies, BuiltShape
<1>5. step.try \in Nat /\ step.other \in Nat
  <2>1. step.try = Len(TryOf(pos)) /\ step.other = Len(FallbackOf(pos))
    BY StepsAre DEF GroupOf
  <2>2. Len(TryOf(pos)) \in Nat
    BY UnitIsSeq DEF TryOf
  <2>3. Len(FallbackOf(pos)) \in Nat
    BY AroundIsSeq, UnitIsSeq, JoinedShape DEF FallbackOf, OtherOf
  <2> QED
    BY <2>1, <2>2, <2>3
<1>6. StepTyped(s, step) /\ IsGranted(s.machine, step) /\ Finds(s, step) /\ Threads(s, step)
  BY <1>3 DEF StepTyped, IsGranted, Finds, Threads, IsFundsStep
<1>7. BlockOf(pos, "primary")
  BY DEF BlockOf, Branches
<1>8. \A t : Does(s, t, step) /\ TypedState(t) => Located(t)
  <2> SUFFICES ASSUME NEW t, Does(s, t, step), TypedState(t) PROVE Located(t)
    OBVIOUS
  <2>1. Enters(s, t, step)
    BY <1>3 DEF Does
  <2> HIDE DEF step
  <2>2. /\ t.group = [branch |-> "primary", other |-> s.pc + 1 + step.try,
                      end |-> s.pc + 1 + step.try + step.other, measured |-> step.measured,
                      machine |-> s.machine, rest |-> s.rest, aside |-> s.aside]
        /\ t.pc = s.pc + 1 /\ t.machine = s.machine /\ t.rest = s.rest /\ t.aside = s.aside
        /\ t.frames = s.frames
    BY <2>1 DEF Enters
  <2>3. /\ t.group.branch = "primary" /\ t.group.other = s.pc + 1 + step.try
        /\ t.group.end = s.pc + 1 + step.try + step.other /\ t.group.measured = step.measured
        /\ t.group.machine = s.machine /\ t.group.rest = s.rest /\ t.group.aside = s.aside
        /\ DOMAIN t.group = {"branch", "other", "end", "measured", "machine", "rest", "aside"}
    BY <2>2
  <2>4. t.group.other = InputAt(pos) + 1 /\ t.group.end = ExEnd(pos) + 1
    BY <1>1, <1>2, <1>4, <1>5, <2>3
  <2>5. SavedTyped(t.group)
    BY <2>3 DEF SavedTyped, TypedState
  <2>6. InBlock(t, pos, "primary")
    BY <1>1, <2>2, <2>3, <2>4, <2>5 DEF InBlock, step
  <2>7. t.pc = StageOf(pos, "primary", 1) + 1
    <3>1. StageOf(pos, "primary", 1) = UnitAt(pos, "primary")
      BY <1>7, StagesLie, BuiltShape
    <3> QED
      BY <1>1, <1>2, <1>4, <2>2, <3>1
  <2>8. ~Granted(pos, "primary", 1)
    BY DEF Granted
  <2>9. Sound => StageFunds(t, pos, "primary", 1)
    <3> SUFFICES ASSUME Sound PROVE StageFunds(t, pos, "primary", 1)
      OBVIOUS
    <3>1. t.rest = {} /\ HoldBefore(pos, t.aside) /\ HoldsToken(t.machine, ShareToken(pos))
      BY <1>1, <2>2
    <3>2. EntryToken(pos, "primary") = ShareToken(pos)
      BY SharesMeet
    <3>3. PaidToken(pos, "primary", 1) = EntryToken(pos, "primary")
      BY DEF PaidToken
    <3>4. ~(1 > 5) /\ 1 < 8
      OBVIOUS
    <3>5. Paid(pos, "primary", 1, t.machine)
      BY <3>1, <3>2, <3>3, <3>4, PaidIs DEF HoldsToken
    <3>6. Gone(pos, "primary", 1) = {}
      BY <3>4, GoneIs
    <3>7. LeftAside(pos, Gone(pos, "primary", 1), t.aside)
      BY <3>1, <3>6, NothingGone
    <3> QED
      BY <3>1, <3>4, <3>5, <3>7 DEF StageFunds
  <2>10. BeforeStage(t, pos, "primary", 1)
    BY <2>6, <2>7, <2>8, <2>9, StageIs
  <2>11. \E n \in 1..11 : Has(pos, "primary", n) /\ BeforeStage(t, pos, "primary", n)
    BY <1>7, <2>10, StageFound
  <2>12. AtStep(t, pos)
    BY <1>7, <2>11 DEF AtStep, BlockOf
  <2> QED
    BY <2>12, LocatedIf
<1> HIDE DEF step
<1> QED
  BY <1>1, <1>2, <1>6, <1>8, IdleServed

-----------------------------------------------------------------------------
(* Before the unit of a fallback. *)

\* Each step there gives the next, and the last the unit, what it takes.
InputLeads(pos, m) ==
    LET step == InputSteps(pos)[m] IN
    /\ step \in {ApproveStep, WrapStep, UnwrapStep}
    /\ step = ApproveStep => InputToken(pos, m + 1) = InputToken(pos, m)
    /\ step = WrapStep => InputToken(pos, m) = ETH /\ InputToken(pos, m + 1) = WETH
    /\ step = UnwrapStep => InputToken(pos, m) = WETH /\ InputToken(pos, m + 1) = ETH

\* Each step put before a fallback gives the next, and the last the unit, what it takes.
LEMMA InputsLead ==
    ASSUME Built, NEW pos \in Positions(route), HasFallback(pos), NEW m \in 1..Len(InputSteps(pos))
    PROVE  /\ InputSteps(pos)[m] \in {ApproveStep, WrapStep, UnwrapStep}
           /\ InputSteps(pos)[m] = UnwrapStep => Swap(route, pos).src = ETH
           /\ Sound => InputLeads(pos, m)
<1> DEFINE steps == InputSteps(pos)
           share == ShareToken(pos)
           entry == EntryToken(pos, "fallback")
           fromEth == Swap(route, pos).src = ETH
<1>1. steps \in {<<>>, <<ApproveStep>>, <<UnwrapStep>>, <<WrapStep>>, <<ApproveStep, WrapStep>>}
      /\ (steps = <<UnwrapStep>> => fromEth)
  <2> DEFINE first == fromEth /\ Primaries[pos].answer.wrap /\ ~Deposits(Primaries, pos)
             other == Substituted(pos)[pos].answer.wrap
             second == fromEth /\ ~Primaries[pos].answer.wrap /\ other /\ "deposit" \in plan
                            /\ ~Deposits(Substituted(pos), pos)
  <2>1. steps \in IF first THEN IF other THEN {<<>>, <<ApproveStep>>} ELSE {<<UnwrapStep>>}
                  ELSE IF second THEN {<<WrapStep>>, <<ApproveStep, WrapStep>>}
                  ELSE {<<>>}
    BY InputIs
  <2>2. first => fromEth
    OBVIOUS
  <2> HIDE DEF first, second, other, fromEth, steps
  <2> QED
    BY <2>1, <2>2, RowsDiffer
<1>2. Sound => /\ steps \in {<<>>, <<ApproveStep>>} => entry = share
               /\ steps = <<UnwrapStep>> => share = WETH /\ entry = ETH
               /\ steps \in {<<WrapStep>>, <<ApproveStep, WrapStep>>} => share = ETH /\ entry = WETH
  BY InputsMeet DEF InputMeets
<1>3. \A k : InputToken(pos, k) = IF k > Len(steps) THEN entry ELSE share
  BY DEF InputToken
<1>4. m \in 1..Len(steps)
  OBVIOUS
<1> HIDE DEF steps, share, entry, fromEth
<1>5. CASE steps = <<>>
  <2>1. Len(steps) = 0
    BY <1>5
  <2> QED
    BY <1>4, <2>1
<1>6. CASE steps \in {<<ApproveStep>>, <<UnwrapStep>>, <<WrapStep>>}
  <2>1. Len(steps) = 1 /\ m = 1 /\ \A step : steps = <<step>> => steps[m] = step
    <3>1. Len(steps) = 1
      BY <1>6
    <3>2. m = 1
      BY <1>4, <3>1
    <3> QED
      BY <3>1, <3>2
  <2>2. InputToken(pos, m) = share /\ InputToken(pos, m + 1) = entry
    <3>1. ~(m > Len(steps)) /\ m + 1 > Len(steps)
      BY <2>1
    <3> QED
      BY <1>3, <3>1
  <2>3. steps[m] \in {ApproveStep, WrapStep, UnwrapStep} /\ steps = <<steps[m]>>
    BY <1>6, <2>1
  <2>4. Sound => InputLeads(pos, m)
    BY <1>2, <2>2, <2>3, RowsDiffer DEF InputLeads, steps
  <2> QED
    BY <1>1, <2>3, <2>4 DEF steps, fromEth
<1>7. CASE steps = <<ApproveStep, WrapStep>>
  <2>1. Len(steps) = 2 /\ (m = 1 \/ m = 2)
    BY <1>4, <1>7
  <2>2. m = 1 => steps[m] = ApproveStep
    BY <1>7
  <2>3. m = 2 => steps[m] = WrapStep
    BY <1>7
  <2>4. Sound => share = ETH /\ entry = WETH
    BY <1>2, <1>7
  <2>5. /\ InputToken(pos, m) = share
        /\ InputToken(pos, m + 1) = IF m = 1 THEN share ELSE entry
    <3>1. ~(m > Len(steps)) /\ (m + 1 > Len(steps) <=> m # 1)
      BY <2>1
    <3> QED
      BY <1>3, <3>1
  <2>6. Sound => InputLeads(pos, m)
    BY <2>1, <2>2, <2>3, <2>4, <2>5, RowsDiffer DEF InputLeads, steps
  <2> QED
    BY <2>1, <2>2, <2>3, <2>6, RowsDiffer DEF steps
<1> QED
  BY <1>1, <1>5, <1>6, <1>7

\* So each of those steps is served.
LEMMA InputServed ==
    ASSUME Built, NEW pos \in Positions(route), IsGrouped(pos), NEW s, TypedState(s),
           NEW m \in 1..Len(InputSteps(pos)), BeforeInput(s, pos, m)
    PROVE  Served(s)
<1> DEFINE step == InputSteps(pos)[m]
<1>1. /\ s.pc = InputAt(pos) + m /\ InBlock(s, pos, "fallback")
      /\ Sound => HoldsToken(s.machine, InputToken(pos, m)) /\ s.rest = {} /\ HoldBefore(pos, s.aside)
  BY DEF BeforeInput
<1>2. HasFallback(pos) /\ BlockOf(pos, "fallback")
  BY DEF IsGrouped, BlockOf, Branches
<1>3. /\ step \in {ApproveStep, WrapStep, UnwrapStep}
      /\ step = UnwrapStep => Swap(route, pos).src = ETH
      /\ Sound => InputLeads(pos, m)
  BY <1>2, InputsLead
<1>4. CodeHas(s.pc, step)
  BY <1>1, GroupPartsLie, BuiltShape
<1>5. /\ Len(InputSteps(pos)) \in Nat /\ InputAt(pos) \in Nat
      /\ UnitAt(pos, "fallback") = InputAt(pos) + Len(InputSteps(pos))
  BY AroundIsSeq, GroupPartsLie, BuiltShape
<1>6. s.pc <= ExEnd(pos)
  <2>1. /\ UnitEnd(pos, "fallback") = UnitAt(pos, "fallback") + Len(UnitOf(pos, "fallback"))
        /\ Len(UnitOf(pos, "fallback")) \in Nat
    BY UnitIsSeq DEF UnitEnd, UnitOf
  <2>2. UnitEnd(pos, "fallback") + Len(OutputSteps(pos)) = ExEnd(pos)
        /\ Len(OutputSteps(pos)) \in Nat
    BY AroundIsSeq, GroupPartsLie, BuiltShape
  <2> QED
    BY <1>1, <1>5, <2>1, <2>2
<1>7. /\ IsFundsStep(step) /\ StepTyped(s, step) /\ IsGranted(s.machine, step)
      /\ Sound => Finds(s, step) /\ Threads(s, step)
  <2> HIDE DEF step
  <2>1. CASE step = ApproveStep
    BY <2>1, StepsNeed
  <2>2. CASE step = WrapStep
    <3>1. Sound => HoldsToken(s.machine, ETH)
      BY <1>1, <1>3, <2>2 DEF InputLeads, step
    <3> QED
      BY <2>2, <3>1, StepsAre, StepsNeed DEF HoldsToken
  <2>3. CASE step = UnwrapStep
    <3>1. Sound => HoldsToken(s.machine, WETH)
      BY <1>1, <1>3, <2>3 DEF InputLeads, step
    <3> QED
      BY <2>3, <3>1, StepsNeed DEF HoldsToken
  <2> QED
    BY <1>3, <2>1, <2>2, <2>3
<1>8. \A t : Works(s, t, step) /\ TypedState(t) => Located(t)
  <2> SUFFICES ASSUME NEW t, Works(s, t, step), TypedState(t) PROVE Located(t)
    OBVIOUS
  <2>1. s.machine \in Machines
    BY DEF TypedState
  <2>2. t.pc = s.pc + 1 /\ t.frames = s.frames /\ t.group = s.group
    BY DEF Works
  <2>3. InBlock(t, pos, "fallback")
    BY <1>1, <2>2, BlockKept
  <2>4. t.pc = InputAt(pos) + (m + 1) /\ m + 1 \in 1..(Len(InputSteps(pos)) + 1)
    BY <1>1, <1>5, <2>2
  <2> HIDE DEF step
  <2>5. Sound => /\ HoldsToken(t.machine, InputToken(pos, m + 1)) /\ t.rest = {}
                 /\ HoldBefore(pos, t.aside)
    <3> SUFFICES ASSUME Sound
                 PROVE  /\ HoldsToken(t.machine, InputToken(pos, m + 1)) /\ t.rest = {}
                        /\ HoldBefore(pos, t.aside)
      OBVIOUS
    <3>1. InputLeads(pos, m) /\ HoldsToken(s.machine, InputToken(pos, m)) /\ s.rest = {}
          /\ HoldBefore(pos, s.aside)
      BY <1>1, <1>3
    <3>2. CASE step = ApproveStep
      <4>1. Becomes(s, t, s.machine.held, s.machine.at, TRUE, s.machine.exact, {})
        BY <2>1, <3>2, ApproveWorks
      <4>2. InputToken(pos, m + 1) = InputToken(pos, m)
        BY <3>1, <3>2 DEF InputLeads, step
      <4>3. t.rest = s.rest /\ t.aside = s.aside
        BY <4>1 DEF Becomes
      <4> QED
        BY <3>1, <4>1, <4>2, <4>3 DEF Becomes, HoldsToken
    <3>3. CASE step = WrapStep
      <4>1. Becomes(s, t, WETH, s.machine.at, s.machine.granted, s.machine.exact, {})
        BY <2>1, <3>3, PlainWrapWorks
      <4>2. InputToken(pos, m + 1) = WETH
        BY <3>1, <3>3 DEF InputLeads, step
      <4>3. t.rest = s.rest /\ t.aside = s.aside
        BY <4>1 DEF Becomes
      <4> QED
        BY <3>1, <4>1, <4>2, <4>3 DEF Becomes, HoldsToken
    <3>4. CASE step = UnwrapStep
      <4>1. InputToken(pos, m) = WETH /\ InputToken(pos, m + 1) = ETH
        BY <3>1, <3>4 DEF InputLeads, step
      <4>2. s.machine.at = "executor"
        BY <3>1 DEF HoldsToken
      <4>3. Becomes(s, t, ETH, s.machine.at, s.machine.granted, TRUE,
                    {[held |-> ETH, at |-> s.machine.at]})
        BY <2>1, <3>4, UnwrapWorks
      <4>4. [held |-> ETH, at |-> s.machine.at] = Eth1
        BY <4>2 DEF Eth1, OnExecutor
      <4>5. Eth1 \notin s.aside
        <5>1. Swap(route, pos).src = ETH
          BY <1>3, <3>4 DEF step
        <5>2. Swap(route, pos).dest # ETH
          BY <5>1, OfSwapHas, SwapsFollow
        <5> QED
          BY <3>1, <5>1, <5>2, NoEthAside
      <4>6. t.rest = {} /\ t.aside = s.aside
        BY <3>1, <4>3, <4>4, <4>5 DEF Becomes
      <4>7. HoldsToken(t.machine, ETH)
        BY <4>2, <4>3 DEF Becomes, HoldsToken
      <4> QED
        BY <3>1, <4>1, <4>6, <4>7
    <3> QED
      BY <1>3, <3>2, <3>3, <3>4
  <2>6. BeforeInput(t, pos, m + 1)
    BY <2>3, <2>4, <2>5 DEF BeforeInput
  <2> QED
    BY <2>4, <2>6, LocatedBeforeInput
<1> HIDE DEF step
<1> QED
  BY <1>1, <1>2, <1>4, <1>6, <1>7, <1>8, BlockServed

-----------------------------------------------------------------------------
(* Behind the unit of a fallback. *)

\* What a step behind a fallback leads to: the last of them to what the first block
\* would have left.
OutputLeads(pos, m) ==
    LET steps == OutputSteps(pos)
        final == FinalOutcome(pos)
    IN
    /\ steps[m] \in {WrapStep, UnwrapStep, SendNativeStep}
    /\ steps[m] = WrapStep => m = Len(steps) /\ final = "weth"
    /\ steps[m] = SendNativeStep => m = Len(steps) /\ final = "sent"
    /\ steps[m] = UnwrapStep =>
            IF m = Len(steps) THEN final = "eth" ELSE steps[m + 1] = SendNativeStep

\* Each step put behind a fallback gives the next what it takes, on a route to ETH.
LEMMA OutputsLead ==
    ASSUME Built, NEW pos \in Positions(route), IsGrouped(pos), NEW m \in 1..Len(OutputSteps(pos))
    PROVE  OutputLeads(pos, m) /\ route.dest = ETH
<1> DEFINE try == OutcomeOf(pos, "primary")
           other == OutcomeOf(pos, "fallback")
           steps == OutputSteps(pos)
           final == FinalOutcome(pos)
<1>1. Len(steps) \in Nat /\ m \in 1..Len(steps)
  BY AroundIsSeq
<1>2. steps # <<>>
  <2>1. steps = <<>> => Len(steps) = 0
    BY EmptyIsSeq
  <2> QED
    BY <1>1, <2>1
<1>3. IsLastSwap(route, pos) /\ route.dest = ETH
  BY <1>2, NoOutput
<1>4. BlockOf(pos, "primary") /\ BlockOf(pos, "fallback")
  BY DEF BlockOf, Branches
<1>5. /\ Swap(route, pos).dest = ETH
      /\ try \in {"sent", "eth", "weth"} /\ other \in {"sent", "eth", "weth"}
  BY <1>3, <1>4, OutcomeIs
<1>6. steps =
         IF other \in {try, "sent"} THEN <<>>
         ELSE IF try = "weth" THEN <<WrapStep>>
         ELSE IF other = "weth" THEN IF try = "sent" THEN <<UnwrapStep, SendNativeStep>>
                                     ELSE <<UnwrapStep>>
         ELSE IF try = "sent" THEN <<SendNativeStep>> ELSE <<>>
  BY <1>3, <1>5, OutputIs
<1>7. final = IF other = "sent" THEN "sent" ELSE try
  BY DEF FinalOutcome, OutcomeOf, ParamsFor
<1>8. OutputLeads(pos, m) <=>
        /\ steps[m] \in {WrapStep, UnwrapStep, SendNativeStep}
        /\ steps[m] = WrapStep => m = Len(steps) /\ final = "weth"
        /\ steps[m] = SendNativeStep => m = Len(steps) /\ final = "sent"
        /\ steps[m] = UnwrapStep =>
                IF m = Len(steps) THEN final = "eth" ELSE steps[m + 1] = SendNativeStep
  BY DEF OutputLeads
<1> HIDE DEF try, other, steps, final
<1>9. other \notin {try, "sent"} /\ final = try
  BY <1>2, <1>6, <1>7
<1>10. CASE try = "weth"
  <2>1. steps = <<WrapStep>>
    BY <1>6, <1>9, <1>10
  <2>2. Len(steps) = 1 /\ m = 1 /\ steps[m] = WrapStep
    BY <1>1, <2>1
  <2> QED
    BY <1>3, <1>8, <1>9, <1>10, <2>2, RowsDiffer
<1>11. CASE try # "weth" /\ other = "weth" /\ try = "sent"
  <2>1. steps = <<UnwrapStep, SendNativeStep>>
    BY <1>6, <1>9, <1>11
  <2>2. Len(steps) = 2 /\ steps[1] = UnwrapStep /\ steps[2] = SendNativeStep
    BY <2>1
  <2>3. m = 1 \/ m = 2
    BY <1>1, <2>2
  <2> QED
    BY <1>3, <1>8, <1>9, <1>11, <2>2, <2>3, RowsDiffer
<1>12. CASE try # "weth" /\ other = "weth" /\ try # "sent"
  <2>1. steps = <<UnwrapStep>> /\ try = "eth"
    BY <1>5, <1>6, <1>9, <1>12
  <2>2. Len(steps) = 1 /\ m = 1 /\ steps[m] = UnwrapStep
    BY <1>1, <2>1
  <2> QED
    BY <1>3, <1>8, <1>9, <2>1, <2>2, RowsDiffer
<1>13. CASE try # "weth" /\ other # "weth"
  <2>1. steps = <<SendNativeStep>> /\ try = "sent"
    BY <1>2, <1>6, <1>9, <1>13
  <2>2. Len(steps) = 1 /\ m = 1 /\ steps[m] = SendNativeStep
    BY <1>1, <2>1
  <2> QED
    BY <1>3, <1>8, <1>9, <2>1, <2>2, RowsDiffer
<1> QED
  BY <1>10, <1>11, <1>12, <1>13

\* An unwrap behind a fallback takes in the ETH there is.
LEMMA GoneBehind ==
    ASSUME NEW pos, NEW m \in Nat \ {0}
    PROVE  OutputGone(pos, m + 1) =
             OutputGone(pos, m) \union IF OutputSteps(pos)[m] = UnwrapStep THEN {Eth1} ELSE {}
<1> DEFINE U(k) == {n \in 1..(k - 1) : OutputSteps(pos)[n] = UnwrapStep}
<1>1. \A k : OutputGone(pos, k) = Gone(pos, "fallback", 12) \union {Eth1 : n \in U(k)}
  BY DEF OutputGone
<1>2. 1..((m + 1) - 1) = 1..(m - 1) \union {m}
  OBVIOUS
<1>3. U(m + 1) = U(m) \union IF OutputSteps(pos)[m] = UnwrapStep THEN {m} ELSE {}
  BY <1>2
<1> HIDE DEF U
<1>4. {Eth1 : n \in U(m + 1)} =
        {Eth1 : n \in U(m)} \union IF OutputSteps(pos)[m] = UnwrapStep THEN {Eth1} ELSE {}
  BY <1>3
<1> QED
  BY <1>1, <1>4

\* Each step put behind a fallback is served.
LEMMA OutputServed ==
    ASSUME Built, NEW pos \in Positions(route), IsGrouped(pos), NEW s, TypedState(s),
           NEW m \in 1..Len(OutputSteps(pos)), BeforeOutput(s, pos, m)
    PROVE  Served(s)
<1> DEFINE step == OutputSteps(pos)[m]
           token == IF step = UnwrapStep THEN WETH ELSE ETH
<1>1. /\ s.pc = UnitEnd(pos, "fallback") + m /\ InBlock(s, pos, "fallback")
      /\ Sound => /\ s.rest = {} /\ OutputLeft(pos, m, s.machine)
                  /\ LeftAside(pos, OutputGone(pos, m), s.aside)
  BY DEF BeforeOutput
<1>2. BlockOf(pos, "fallback")
  BY DEF BlockOf, Branches
<1>3. OutputLeads(pos, m) /\ route.dest = ETH
  BY OutputsLead
<1>4. CodeHas(s.pc, step)
  BY <1>1, GroupPartsLie, BuiltShape
<1>5. /\ Len(OutputSteps(pos)) \in Nat /\ UnitEnd(pos, "fallback") \in Nat
      /\ UnitEnd(pos, "fallback") + Len(OutputSteps(pos)) = ExEnd(pos)
  BY AroundIsSeq, GroupPartsLie, BuiltShape
<1>6. s.pc <= ExEnd(pos) /\ m <= Len(OutputSteps(pos))
  BY <1>1, <1>5
<1>7. Sound => HoldsToken(s.machine, token)
  BY <1>1, <1>6 DEF OutputLeft
<1>8. step \in {WrapStep, UnwrapStep, SendNativeStep}
  BY <1>3 DEF OutputLeads
<1>9. /\ step = WrapStep => token = ETH
      /\ step = SendNativeStep => token = ETH
      /\ step = UnwrapStep => token = WETH
  BY RowsDiffer
<1>10. /\ IsFundsStep(step) /\ StepTyped(s, step) /\ IsGranted(s.machine, step)
       /\ Sound => Finds(s, step) /\ Threads(s, step)
  <2> HIDE DEF step, token
  <2>1. CASE step = WrapStep
    BY <1>7, <1>9, <2>1, StepsAre, StepsNeed DEF HoldsToken
  <2>2. CASE step = UnwrapStep
    BY <1>7, <1>9, <2>2, StepsNeed DEF HoldsToken
  <2>3. CASE step = SendNativeStep
    BY <1>7, <1>9, <2>3, StepsNeed DEF HoldsToken
  <2> QED
    BY <1>8, <2>1, <2>2, <2>3
<1>11. \A t : Works(s, t, step) /\ TypedState(t) => Located(t)
  <2> SUFFICES ASSUME NEW t, Works(s, t, step), TypedState(t) PROVE Located(t)
    OBVIOUS
  <2>1. s.machine \in Machines
    BY DEF TypedState
  <2>2. t.pc = s.pc + 1 /\ t.frames = s.frames /\ t.group = s.group
    BY DEF Works
  <2>3. InBlock(t, pos, "fallback")
    BY <1>1, <2>2, BlockKept
  <2>4. t.pc = UnitEnd(pos, "fallback") + (m + 1) /\ m + 1 \in 1..(Len(OutputSteps(pos)) + 1)
    BY <1>1, <1>5, <2>2
  <2>5. OutputGone(pos, m + 1) =
             OutputGone(pos, m) \union IF step = UnwrapStep THEN {Eth1} ELSE {}
    <3>1. m \in Nat \ {0}
      OBVIOUS
    <3> QED
      BY <3>1, GoneBehind
  <2>6. m < Len(OutputSteps(pos)) \/ m = Len(OutputSteps(pos))
    BY <1>5
  <2>7. m = Len(OutputSteps(pos)) => ~(m + 1 <= Len(OutputSteps(pos)))
    BY <1>5
  <2>8. m < Len(OutputSteps(pos)) => m + 1 <= Len(OutputSteps(pos))
    BY <1>5
  <2>9. OutputSteps(pos) # <<>>
    BY <1>5, <1>6, EmptyIsSeq
  <2> DEFINE leads == OutputLeft(pos, m + 1, t.machine)
  <2>10. /\ m = Len(OutputSteps(pos)) =>
                (leads <=> Piece(t.machine) = OutcomePiece(FinalOutcome(pos)))
         /\ m < Len(OutputSteps(pos)) =>
                (leads <=> HoldsToken(t.machine, IF OutputSteps(pos)[m + 1] = UnwrapStep THEN WETH ELSE ETH))
    BY <2>7, <2>8, <2>9 DEF OutputLeft
  <2> HIDE DEF leads
  <2>11. Sound => t.rest = {} /\ leads /\ LeftAside(pos, OutputGone(pos, m + 1), t.aside)
    <3> SUFFICES ASSUME Sound
                 PROVE  t.rest = {} /\ leads /\ LeftAside(pos, OutputGone(pos, m + 1), t.aside)
      OBVIOUS
    <3>1. /\ s.rest = {} /\ LeftAside(pos, OutputGone(pos, m), s.aside)
          /\ s.machine.held = token /\ s.machine.at = "executor" /\ s.machine.exact
      BY <1>1, <1>7 DEF HoldsToken
    <3>2. CASE step = WrapStep
      <4>1. m = Len(OutputSteps(pos)) /\ FinalOutcome(pos) = "weth" /\ step # UnwrapStep
        BY <1>3, <3>2, RowsDiffer DEF OutputLeads
      <4> HIDE DEF step, token
      <4>2. Becomes(s, t, WETH, s.machine.at, s.machine.granted, s.machine.exact, {})
        BY <2>1, <3>2, PlainWrapWorks
      <4>3. t.rest = s.rest /\ t.aside = s.aside /\ Piece(t.machine) = Weth1
        BY <3>1, <4>2 DEF Becomes, Piece, Weth1, OnExecutor
      <4>4. OutputGone(pos, m + 1) = OutputGone(pos, m)
        BY <2>5, <4>1
      <4> QED
        BY <2>10, <3>1, <4>1, <4>3, <4>4, OutcomePieces
    <3>3. CASE step = UnwrapStep
      <4> HIDE DEF step, token
      <4>1. Becomes(s, t, ETH, s.machine.at, s.machine.granted, TRUE,
                    {[held |-> ETH, at |-> s.machine.at]})
        BY <2>1, <3>3, UnwrapWorks
      <4>2. [held |-> ETH, at |-> s.machine.at] = Eth1
        BY <3>1 DEF Eth1, OnExecutor
      <4>3. t.rest = {} /\ t.aside = s.aside \ {Eth1}
        BY <3>1, <4>1, <4>2 DEF Becomes
      <4>4. HoldsToken(t.machine, ETH) /\ Piece(t.machine) = Eth1
        BY <3>1, <4>1 DEF Becomes, HoldsToken, Piece, Eth1, OnExecutor
      <4>5. LeftAside(pos, OutputGone(pos, m + 1), t.aside)
        <5>1. OutputGone(pos, m + 1) = OutputGone(pos, m) \union {Eth1}
          BY <2>5, <3>3
        <5>2. LeftAside(pos, OutputGone(pos, m) \union {Eth1}, s.aside \ {Eth1})
          BY <3>1, LeftWithout
        <5> QED
          BY <4>3, <5>1, <5>2
      <4>6. leads
        <5>1. CASE m = Len(OutputSteps(pos))
          <6>1. FinalOutcome(pos) = "eth"
            BY <1>3, <3>3, <5>1 DEF OutputLeads, step
          <6> QED
            BY <2>10, <4>4, <5>1, <6>1, OutcomePieces
        <5>2. CASE m < Len(OutputSteps(pos))
          <6>1. OutputSteps(pos)[m + 1] = SendNativeStep
            <7>1. m # Len(OutputSteps(pos))
              BY <1>5, <5>2
            <7> QED
              BY <1>3, <3>3, <7>1 DEF OutputLeads, step
          <6> QED
            BY <2>10, <4>4, <5>2, <6>1, RowsDiffer
        <5> QED
          BY <2>6, <5>1, <5>2
      <4> QED
        BY <4>3, <4>5, <4>6
    <3>4. CASE step = SendNativeStep
      <4>1. m = Len(OutputSteps(pos)) /\ FinalOutcome(pos) = "sent" /\ step # UnwrapStep
            /\ token = ETH
        BY <1>3, <3>4, RowsDiffer DEF OutputLeads
      <4> HIDE DEF step, token
      <4>2. Becomes(s, t, s.machine.held, "augustus", s.machine.granted, s.machine.exact, {})
        <5>1. "augustus" \in Places /\ step.op = "sendNative"
          BY <3>4, StepsAre DEF Places
        <5> QED
          BY <2>1, <5>1, MoveWorks
      <4>3. t.rest = s.rest /\ t.aside = s.aside /\ Piece(t.machine) = Delivered
        BY <1>3, <3>1, <4>1, <4>2 DEF Becomes, Piece, Delivered
      <4>4. OutputGone(pos, m + 1) = OutputGone(pos, m)
        BY <2>5, <4>1
      <4> QED
        BY <2>10, <3>1, <4>1, <4>3, <4>4, OutcomePieces
    <3> QED
      BY <1>8, <3>2, <3>3, <3>4
  <2>12. BeforeOutput(t, pos, m + 1)
    BY <2>3, <2>4, <2>11 DEF BeforeOutput, leads
  <2> QED
    BY <2>4, <2>12, LocatedBeforeOutput
<1> HIDE DEF step, token
<1> QED
  BY <1>1, <1>2, <1>4, <1>6, <1>10, <1>11, BlockServed

-----------------------------------------------------------------------------
(* Wherever a run is, it goes on. *)

\* At every place the next step is served, or a block has ended, or the bytecode has.
LEMMA LocatedGoesOn ==
    ASSUME Built, NEW s, TypedState(s), Located(s)
    PROVE  \/ Served(s)
           \/ \E pos \in Positions(route) : AtBlockEndOf(s, pos)
           \/ AtEnd(s)
<1>1. CASE AtRoot(s)
  BY <1>1, RootWrapServed, RoutesServed, RootJoinServed, RootUnwrapServed, SendServed DEF AtRoot
<1>2. ASSUME NEW i \in 1..NPaths, IsMegaSwap(route), AtPath(s, i) \/ BehindPath(s, i)
      PROVE  Served(s)
  BY <1>2, PathServed, BehindPathServed
<1>3. ASSUME NEW i \in 1..NPaths, NEW j \in 1..LastSwap(i), OnSwap(s, i, j)
      PROVE  Served(s)
  BY <1>3, SwapSplitServed, JoinServed, AppendedWrapServed DEF OnSwap
<1>4. ASSUME NEW pos \in Positions(route), IsSplit(pos), AtMember(s, pos) \/ BehindExchange(s, pos)
      PROVE  Served(s)
  BY <1>4, MemberServed, YieldServed
<1>5. ASSUME NEW pos \in Positions(route), AtStep(s, pos)
      PROVE  Served(s)
  <2>1. CASE BeforeExchange(s, pos) /\ IsGrouped(pos)
    BY <2>1, GroupServed
  <2>2. CASE IsGrouped(pos) /\ \E m \in 1..Len(InputSteps(pos)) : BeforeInput(s, pos, m)
    BY <2>2, InputServed
  <2>3. CASE \E b \in Branches, n \in 1..11 :
            (b = "fallback" => IsGrouped(pos)) /\ Has(pos, b, n) /\ BeforeStage(s, pos, b, n)
    BY <2>3, StageServed DEF BlockOf
  <2>4. CASE IsGrouped(pos) /\ \E m \in 1..Len(OutputSteps(pos)) : BeforeOutput(s, pos, m)
    BY <2>4, OutputServed
  <2> QED
    BY <1>5, <2>1, <2>2, <2>3, <2>4 DEF AtStep
<1> QED
  BY <1>1, <1>2, <1>3, <1>4, <1>5 DEF Located

\* No place is outside of the bytecode, and what is at the end of a block is past it.
LEMMA LocatedLies ==
    ASSUME Built, NEW s, TypedState(s), Located(s)
    PROVE  /\ s.pc <= Len(Bytecode) + 1 /\ Len(Bytecode) \in Nat
           /\ s.pc > Len(Bytecode) /\ ~Ends(s) => AtEnd(s)
           /\ s.pc <= Len(Bytecode) /\ ~Ends(s) => Served(s)
           /\ Ends(s) => \E pos \in Positions(route) : AtBlockEndOf(s, pos)
<1>1. Len(Bytecode) \in Nat /\ Len(Bytecode) = EndAt
  BY BuiltShape, BytecodeIs, RootLies
<1>2. CASE Served(s)
  <2>1. s.pc <= Len(Bytecode) /\ ~Ends(s) /\ s.pc \in Nat
    BY <1>2 DEF Served, ServedBy, CodeHas
  <2> QED
    BY <1>1, <1>2, <2>1
<1>3. ASSUME NEW pos \in Positions(route), AtBlockEndOf(s, pos)
      PROVE  s.pc <= Len(Bytecode) + 1 /\ Ends(s)
  <2>1. Ends(s)
    BY <1>3, BlockEndLies
  <2>2. IsGrouped(pos)
    BY <1>3 DEF AtBlockEndOf
  <2>3. ExEnd(pos) \in Nat /\ ExEnd(pos) <= Len(Bytecode)
    BY BuiltShape, ExchangeLies
  <2>4. s.group.end = ExEnd(pos) + 1
    BY <1>3, BlockEndLies
  <2>5. s.pc <= ExEnd(pos) + 1
    <3>1. CASE BeforeStage(s, pos, "primary", 12)
      <4>1. s.pc = StageOf(pos, "primary", 12) + 1
        BY <3>1, StageIs
      <4>2. BlockOf(pos, "primary")
        BY DEF BlockOf, Branches
      <4>3. StageOf(pos, "primary", 12) = InputAt(pos) /\ InputAt(pos) \in Nat
        BY <2>2, <4>2, StagesLie, GroupPartsLie, BuiltShape
      <4>4. UnitAt(pos, "fallback") = InputAt(pos) + Len(InputSteps(pos))
            /\ UnitEnd(pos, "fallback") + Len(OutputSteps(pos)) = ExEnd(pos)
        BY <2>2, GroupPartsLie, BuiltShape
      <4>5. /\ UnitEnd(pos, "fallback") = UnitAt(pos, "fallback") + Len(UnitOf(pos, "fallback"))
            /\ Len(UnitOf(pos, "fallback")) \in Nat
        BY UnitIsSeq DEF UnitEnd, UnitOf
      <4>6. Len(InputSteps(pos)) \in Nat /\ Len(OutputSteps(pos)) \in Nat
        BY AroundIsSeq
      <4> QED
        BY <4>1, <4>3, <4>4, <4>5, <4>6
    <3>2. CASE BeforeOutput(s, pos, Len(OutputSteps(pos)) + 1)
      <4>1. s.pc = UnitEnd(pos, "fallback") + (Len(OutputSteps(pos)) + 1)
        BY <3>2 DEF BeforeOutput
      <4>2. UnitEnd(pos, "fallback") + Len(OutputSteps(pos)) = ExEnd(pos)
            /\ UnitEnd(pos, "fallback") \in Nat /\ Len(OutputSteps(pos)) \in Nat
        BY <2>2, AroundIsSeq, GroupPartsLie, BuiltShape
      <4> QED
        BY <4>1, <4>2
    <3> QED
      BY <1>3, <3>1, <3>2 DEF AtBlockEndOf
  <2>6. s.pc \in Nat
    BY DEF TypedState
  <2> QED
    BY <1>1, <2>1, <2>3, <2>5, <2>6
<1>4. CASE AtEnd(s)
  <2>1. s.pc = EndAt + 1 /\ s.group.branch = "none"
    BY <1>4 DEF AtEnd, Idle, NoGroup
  <2>2. ~Ends(s)
    BY <2>1 DEF Ends
  <2> QED
    BY <1>1, <1>4, <2>1, <2>2
<1>5. s.pc \in Nat
  BY DEF TypedState
<1>6. CASE \E pos \in Positions(route) : AtBlockEndOf(s, pos)
  <2>1. s.pc <= Len(Bytecode) + 1 /\ Ends(s)
    BY <1>3, <1>6
  <2> QED
    BY <1>1, <1>6, <2>1
<1> QED
  BY <1>2, <1>4, <1>6, LocatedGoesOn

-----------------------------------------------------------------------------
(* The inductive invariant. *)

\* The configuration relies on every part, so that it only runs builds that are Sound.
ReliedHolds == "midRoute" \in Assumed /\ Parts \subseteq Relied

\* The inductive invariant: a run is of a build that is there, at a place of its
\* bytecode with the funds expected there, and at the end it has delivered.
RunInv ==
    /\ TypedState(State)
    /\ Len(code) \in Nat /\ pc <= Len(code) + 1
    /\ "branch" \in DOMAIN group /\ group.branch \in Branches \union {"none"}
    /\ outcome \in {"building", "running", "done", "reverted"}
    /\ outcome = "building" =>
        /\ code = <<>> /\ pc = 1 /\ machine = Given(route.src, TRUE)
        /\ rest = {} /\ aside = {} /\ frames = <<>> /\ group = NoGroup
    /\ outcome # "building" => phase = "built" /\ label = "Executor02"
    /\ outcome \in {"running", "done"} => (ReliedHolds => Sound)
    /\ outcome = "running" => code = Bytecode /\ \A s : s = State => Located(s)
    /\ outcome = "done" => (Sound => Everything(State) = {Delivered})

\* The state is its variables.
LEMMA StateIs ==
    /\ State.pc = pc /\ State.machine = machine /\ State.rest = rest /\ State.aside = aside
    /\ State.frames = frames /\ State.group = group
BY DEF State

\* And so is the next.
LEMMA NextStateIs ==
    /\ State'.pc = pc' /\ State'.machine = machine' /\ State'.rest = rest' /\ State'.aside = aside'
    /\ State'.frames = frames' /\ State'.group = group'
BY DEF State

\* What the actions of a run do to its state.
LEMMA StepDoes ==
    ASSUME Step
    PROVE  /\ Running /\ IsFundsStep(Current)
           /\ Does(State, State', Current)
           /\ UNCHANGED <<buildVars, code, outcome, frames, group>> /\ pc' = pc + 1
<1>1. IsFundsStep(Current) /\ Running
  BY DEF Step
<1>2. /\ machine' = [Apply(machine, Current) EXCEPT !.exact = @ \/ MeasuresBalance(Current)]
      /\ rest' = IF MeasuresBalance(Current) THEN rest \ {Piece(Apply(machine, Current))} ELSE rest
      /\ aside' = IF MeasuresBalance(Current) THEN aside \ {Piece(Apply(machine, Current))} ELSE aside
      /\ pc' = pc + 1 /\ frames' = frames /\ group' = group
      /\ UNCHANGED <<buildVars, code, outcome>>
  BY DEF Step
<1>3. Works(State, State', Current)
  BY <1>2, StateIs, NextStateIs DEF Works
<1>4. Current.op \notin {"split", "member", "yield", "join", "group"}
  BY <1>1 DEF IsFundsStep
<1>5. Does(State, State', Current)
  BY <1>3, <1>4 DEF Does
<1> QED
  BY <1>1, <1>2, <1>5

\* Split does what a split's step is for.
LEMMA SplitDoes ==
    ASSUME Split
    PROVE  Running /\ Does(State, State', Current)
           /\ UNCHANGED <<buildVars, code, outcome, group>> /\ pc' = pc + 1
<1>1. Current.op = "split" /\ Running
  BY DEF Split
<1>2. Splits(State, State')
  BY StateIs, NextStateIs DEF Split, Splits
<1>3. Does(State, State', Current)
  BY <1>1, <1>2 DEF Does, IsFundsStep
<1> QED
  BY <1>1, <1>3 DEF Split

\* Member does what a member's step is for.
LEMMA MemberDoes ==
    ASSUME Member
    PROVE  Running /\ Does(State, State', Current)
           /\ UNCHANGED <<buildVars, code, outcome, group>> /\ pc' = pc + 1
<1>1. Current.op = "member" /\ Running
  BY DEF Member
<1>2. Takes(State, State', Current.token)
  BY StateIs, NextStateIs DEF Member, Takes
<1>3. Does(State, State', Current)
  BY <1>1, <1>2 DEF Does, IsFundsStep
<1> QED
  BY <1>1, <1>3 DEF Member

\* Yield does what a yield is for.
LEMMA YieldDoes ==
    ASSUME Yield
    PROVE  Running /\ Does(State, State', Current)
           /\ UNCHANGED <<buildVars, code, outcome, group>> /\ pc' = pc + 1
<1>1. Current.op = "yield" /\ Running
  BY DEF Yield
<1>2. Yields(State, State')
  BY StateIs, NextStateIs DEF Yield, Yields
<1>3. Does(State, State', Current)
  BY <1>1, <1>2 DEF Does, IsFundsStep
<1> QED
  BY <1>1, <1>3 DEF Yield

\* Join does what a join is for.
LEMMA JoinDoes ==
    ASSUME Join
    PROVE  Running /\ Does(State, State', Current)
           /\ UNCHANGED <<buildVars, code, outcome, group>> /\ pc' = pc + 1
<1>1. Current.op = "join" /\ Running
  BY DEF Join
<1> DEFINE next == NextOf(aside, Current.measured)
           found == {p \in aside : p.at = "executor" /\ p.held \in Current.measured}
<1>2. /\ machine' = [held |-> next.held, at |-> next.at, exact |-> found # {}, granted |-> FALSE]
      /\ rest' = aside \ {next} /\ aside' = Last(frames).aside /\ frames' = Front(frames)
      /\ pc' = pc + 1 /\ group' = group
  BY DEF Join, NextOf
<1>3. Joins(State, State', Current.measured)
  BY <1>2, StateIs, NextStateIs DEF Joins, NextOf
<1>4. Does(State, State', Current)
  BY <1>1, <1>3 DEF Does, IsFundsStep
<1> QED
  BY <1>1, <1>4 DEF Join

\* EnterGroup does what a group's step is for.
LEMMA EnterDoes ==
    ASSUME EnterGroup
    PROVE  Running /\ Does(State, State', Current) /\ group'.branch = "primary"
           /\ UNCHANGED <<buildVars, code, outcome>> /\ pc' = pc + 1
<1>1. Current.op = "group" /\ Running
  BY DEF EnterGroup
<1>2. Enters(State, State', Current)
  BY StateIs, NextStateIs DEF EnterGroup, Enters
<1>3. Does(State, State', Current)
  BY <1>1, <1>2 DEF Does, IsFundsStep
<1>4. group'.branch = "primary"
  BY DEF EnterGroup
<1> QED
  BY <1>1, <1>3, <1>4 DEF EnterGroup

\* LeaveGroup ends a block.
LEMMA LeaveDoes ==
    ASSUME LeaveGroup
    PROVE  /\ outcome = "running" /\ Ends(State) /\ Leaves(State, State')
           /\ group' = NoGroup /\ UNCHANGED <<buildVars, code, outcome>>
<1>1. Ends(State)
  BY StateIs DEF LeaveGroup, AtBlockEnd, Ends
<1>2. Leaves(State, State')
  BY StateIs, NextStateIs DEF LeaveGroup, Leaves
<1> QED
  BY <1>1, <1>2 DEF LeaveGroup

\* Revert hands over to the fallback, or ends the run.
LEMMA RevertDoes ==
    ASSUME Revert
    PROVE  /\ Running /\ UNCHANGED <<buildVars, code, frames>>
           /\ IF group.branch = "primary"
              THEN Falls(State, State') /\ UNCHANGED outcome
                   /\ group' = [group EXCEPT !.branch = "fallback"]
              ELSE outcome' = "reverted" /\ UNCHANGED <<pc, machine, rest, aside, group>>
<1>1. /\ Running /\ UNCHANGED <<buildVars, code, frames>>
      /\ IF group.branch = "primary"
         THEN /\ group' = [group EXCEPT !.branch = "fallback"]
              /\ pc' = group.other /\ machine' = group.machine
              /\ rest' = group.rest /\ aside' = group.aside /\ UNCHANGED outcome
         ELSE outcome' = "reverted" /\ UNCHANGED <<pc, machine, rest, aside, group>>
  BY DEF Revert
<1>2. group.branch = "primary" => Falls(State, State')
  BY <1>1, StateIs, NextStateIs DEF Falls
<1> QED
  BY <1>1, <1>2

\* Whatever runs, has run or has reverted is a build for Executor02.
LEMMA BuiltIs ==
    ASSUME \A r \in Routes : SoldOverPaths(r), BuildFacts, RunInv, outcome # "building"
    PROVE  Built
<1>1. route \in Routes
  BY DEF BuildFacts, TypeOK
<1> QED
  BY <1>1 DEF Built, RunInv

\* The step that is current is the one that the place serves.
LEMMA RunningServed ==
    ASSUME Built, RunInv, Running
    PROVE  ServedBy(State, Current) /\ outcome = "running" /\ Located(State) /\ TypedState(State)
<1>1. outcome = "running" /\ pc <= Len(code) /\ ~AtBlockEnd
  BY DEF Running
<1>2. code = Bytecode /\ Located(State) /\ TypedState(State)
  BY <1>1 DEF RunInv
<1>3. ~Ends(State)
  BY <1>1, StateIs DEF AtBlockEnd, Ends
<1>4. Served(State)
  BY <1>1, <1>2, <1>3, LocatedLies, StateIs
<1>5. PICK step : ServedBy(State, step)
  BY <1>4 DEF Served
<1>6. Current = step
  BY <1>2, <1>5, StateIs DEF ServedBy, CodeHas, Current
<1> QED
  BY <1>1, <1>2, <1>5, <1>6

\* A run that goes on to a place keeps the invariant.
LEMMA RunGoesOn ==
    ASSUME Built, RunInv, outcome = "running", UNCHANGED <<buildVars, code, outcome>>,
           TypedState(State'), Located(State'),
           "branch" \in DOMAIN group', group'.branch \in Branches \union {"none"}
    PROVE  RunInv'
<1>1. (TypedState(State))'
  BY DEF TypedState
<1>2. UNCHANGED buildVars
  OBVIOUS
<1>3. Bytecode' = Bytecode /\ (Sound)' = Sound /\ \A s : Located(s)' = Located(s)
  BY <1>2, PlacesStay
<1>4. (\A s : s = State => Located(s))'
  BY <1>3
<1>5. code = Bytecode /\ (ReliedHolds => Sound) /\ phase = "built" /\ label = "Executor02"
  BY DEF RunInv
<1>6. pc' <= Len(code') + 1 /\ Len(code') \in Nat
  <2>1. State'.pc <= Len(Bytecode) + 1 /\ Len(Bytecode) \in Nat
    BY LocatedLies
  <2> QED
    BY <1>5, <2>1, NextStateIs
<1>7. (ReliedHolds)' = ReliedHolds
  BY DEF ReliedHolds, Parts
<1>8. phase' = "built" /\ label' = "Executor02" /\ code' = Bytecode' /\ outcome' = "running"
  BY <1>3, <1>5 DEF buildVars
<1> QED
  BY <1>1, <1>3, <1>4, <1>5, <1>6, <1>7, <1>8 DEF RunInv

\* A run starts at the first place.
LEMMA StartKeeps ==
    ASSUME \A r \in Routes : SoldOverPaths(r), BuildFacts, RunInv, Start
    PROVE  RunInv'
<1>1. /\ outcome = "building" /\ phase = "built" /\ label = "Executor02"
      /\ \A part \in Relied, pos \in Positions(route) : Holds(part, pos)
      /\ outcome' = "running" /\ code' = Bytecode
      /\ UNCHANGED <<buildVars, pc, machine, rest, aside, frames, group>>
  BY DEF Start
<1>2. Built
  <2>1. route \in Routes
    BY DEF BuildFacts, TypeOK
  <2> QED
    BY <1>1, <2>1 DEF Built
<1>3. /\ pc = 1 /\ machine = Given(route.src, TRUE) /\ rest = {} /\ aside = {}
      /\ frames = <<>> /\ group = NoGroup /\ TypedState(State)
  BY <1>1 DEF RunInv
<1>4. State' = State
  BY <1>1 DEF State
<1>5. Idle(State) /\ HoldsToken(State.machine, route.src)
  BY <1>3, StateIs DEF Idle, HoldsToken, Given
<1>6. RootAt = IF NeedWrapEth /\ RootWraps(Primaries) THEN 1 ELSE 0
  BY <1>2, BuiltShape, RootLies
<1>7. Located(State)
  <2>1. CASE RootAt = 1
    <3>1. AtRootWrap(State)
      BY <1>3, <1>5, <2>1, StateIs DEF AtRootWrap
    <3>2. AtRoot(State)
      BY <3>1 DEF AtRoot
    <3> QED
      BY <3>2, LocatedIf
  <2>2. CASE RootAt = 0
    <3>1. RootToken = route.src
      BY <1>6, <2>2 DEF RootToken
    <3>2. State.pc = RootAt + 1
      BY <1>3, <2>2, StateIs
    <3>3. BeforeRoutes(State)
      BY <1>3, <1>5, <3>1, <3>2, StateIs DEF BeforeRoutes
    <3> QED
      BY <1>2, <3>3, LocatedBeforeRoutes
  <2> QED
    BY <1>6, <2>1, <2>2
<1>8. ReliedHolds => Sound
  BY <1>1 DEF ReliedHolds, Sound
<1>9. UNCHANGED buildVars
  BY <1>1
<1>10. Bytecode' = Bytecode /\ (Sound)' = Sound /\ \A s : Located(s)' = Located(s)
  BY <1>9, PlacesStay
<1>11. (\A s : s = State => Located(s))'
  BY <1>4, <1>7, <1>10
<1>12. (TypedState(State))'
  BY <1>3, <1>4 DEF TypedState
<1>13. pc' <= Len(code') + 1 /\ Len(code') \in Nat
  BY <1>1, <1>2, <1>7, <1>3, LocatedLies, StateIs
<1>14. "branch" \in DOMAIN group' /\ group'.branch = "none"
  BY <1>1, <1>3 DEF NoGroup
<1>15. (ReliedHolds)' = ReliedHolds
  BY DEF ReliedHolds, Parts
<1>16. phase' = "built" /\ label' = "Executor02" /\ code' = Bytecode'
  BY <1>1, <1>10 DEF buildVars
<1> QED
  BY <1>1, <1>8, <1>10, <1>11, <1>12, <1>13, <1>14, <1>15, <1>16 DEF RunInv

\* Any step of the bytecode.
LEMMA DoingKeeps ==
    ASSUME Built, RunInv, Running, Does(State, State', Current),
           UNCHANGED <<buildVars, code, outcome>>,
           group' = group \/ ("branch" \in DOMAIN group' /\ group'.branch = "primary")
    PROVE  RunInv'
<1>1. ServedBy(State, Current) /\ outcome = "running" /\ TypedState(State)
  BY RunningServed
<1>2. Located(State')
  BY <1>1 DEF ServedBy
<1>3. StepTyped(State, Current)
  BY <1>1 DEF ServedBy
<1>4. TypedState(State')
  BY <1>1, <1>3, DoesTyped
<1>5. "branch" \in DOMAIN group' /\ group'.branch \in Branches \union {"none"}
  BY DEF RunInv, Branches
<1> QED
  BY <1>1, <1>2, <1>4, <1>5, RunGoesOn

\* The end of a block keeps the invariant.
LEMMA LeavingKeeps ==
    ASSUME Built, RunInv, LeaveGroup
    PROVE  RunInv'
<1>1. /\ outcome = "running" /\ Ends(State) /\ Leaves(State, State')
      /\ group' = NoGroup /\ UNCHANGED <<buildVars, code, outcome>>
  BY LeaveDoes
<1>2. Located(State) /\ TypedState(State)
  BY <1>1 DEF RunInv
<1>3. PICK pos \in Positions(route) : AtBlockEndOf(State, pos)
  BY <1>1, <1>2, LocatedLies
<1>4. Located(State') /\ TypedState(State')
  BY <1>1, <1>2, <1>3, GroupLeaves
<1>5. "branch" \in DOMAIN group' /\ group'.branch \in Branches \union {"none"}
  BY <1>1 DEF NoGroup
<1> QED
  BY <1>1, <1>4, <1>5, RunGoesOn

\* A revert keeps it: the first block leaves what the group saved, and the second ends
\* the run.
LEMMA RevertKeeps ==
    ASSUME Built, RunInv, Revert
    PROVE  RunInv'
<1>1. /\ Running /\ UNCHANGED <<buildVars, code, frames>>
      /\ IF group.branch = "primary"
         THEN Falls(State, State') /\ UNCHANGED outcome
              /\ group' = [group EXCEPT !.branch = "fallback"]
         ELSE outcome' = "reverted" /\ UNCHANGED <<pc, machine, rest, aside, group>>
  BY RevertDoes
<1>2. CASE group.branch = "primary"
  <2>1. ServedBy(State, Current) /\ outcome = "running"
    BY <1>1, RunningServed
  <2>2. Located(State') /\ TypedState(State')
    BY <1>1, <1>2, <2>1 DEF ServedBy
  <2>3. "branch" \in DOMAIN group
    BY DEF RunInv
  <2>4. "branch" \in DOMAIN group' /\ group'.branch = "fallback"
    BY <1>1, <1>2, <2>3
  <2> QED
    BY <1>1, <1>2, <2>1, <2>2, <2>4, RunGoesOn DEF Branches
<1>3. CASE group.branch # "primary"
  <2>1. outcome' = "reverted" /\ State' = State
    BY <1>1, <1>3 DEF State
  <2>2. (TypedState(State))'
    BY <2>1 DEF TypedState, RunInv
  <2>3. UNCHANGED <<pc, code, group, phase, label>>
    BY <1>1, <1>3 DEF buildVars
  <2>4. phase = "built" /\ label = "Executor02"
    BY <1>1 DEF RunInv, Running
  <2> QED
    BY <2>1, <2>2, <2>3, <2>4 DEF RunInv
<1> QED
  BY <1>2, <1>3

\* A run that ends is behind the last step.
LEMMA FinishKeeps ==
    ASSUME Built, RunInv, Finish
    PROVE  RunInv'
<1>1. /\ outcome = "running" /\ pc > Len(code) /\ ~AtBlockEnd /\ outcome' = "done"
      /\ UNCHANGED <<buildVars, code, pc, machine, rest, aside, frames, group>>
  BY DEF Finish
<1>2. code = Bytecode /\ Located(State) /\ TypedState(State) /\ phase = "built" /\ label = "Executor02"
      /\ (ReliedHolds => Sound)
  BY <1>1 DEF RunInv
<1>3. ~Ends(State)
  BY <1>1, StateIs DEF AtBlockEnd, Ends
<1>4. AtEnd(State)
  BY <1>1, <1>2, <1>3, LocatedLies, StateIs
<1>5. Sound => Everything(State) = {Delivered}
  BY <1>4 DEF AtEnd
<1>6. State' = State
  BY <1>1 DEF State
<1>7. (TypedState(State))'
  BY <1>2, <1>6 DEF TypedState
<1>8. UNCHANGED buildVars
  BY <1>1
<1>9. (Sound)' = Sound /\ (ReliedHolds)' = ReliedHolds
  BY <1>8, PlacesStay DEF ReliedHolds, Parts
<1>10. (Everything(State))' = Everything(State) /\ Delivered' = Delivered
  BY <1>6, <1>8 DEF Everything, Delivered, buildVars, Piece
<1>11. UNCHANGED <<pc, code, group, phase, label>>
  BY <1>1 DEF buildVars
<1> QED
  BY <1>1, <1>2, <1>5, <1>7, <1>9, <1>10, <1>11 DEF RunInv

\* Nothing changes.
LEMMA StayKeeps ==
    ASSUME BuildFacts, RunInv, UNCHANGED vars
    PROVE  RunInv'
<1>1. UNCHANGED buildVars /\ UNCHANGED runVars
  BY DEF vars
<1>2. State' = State
  BY <1>1 DEF State, runVars
<1>3. (TypedState(State))'
  BY <1>2 DEF RunInv, TypedState
<1>4. Bytecode' = Bytecode /\ (Sound)' = Sound /\ (\A s : Located(s)' = Located(s))
      /\ (ReliedHolds)' = ReliedHolds
  BY <1>1, PlacesStay DEF ReliedHolds, Parts
<1>5. outcome = "running" => (\A s : s = State => Located(s))'
  BY <1>2, <1>4 DEF RunInv
<1>6. (Everything(State))' = Everything(State) /\ Delivered' = Delivered
  BY <1>1, <1>2 DEF Everything, Delivered, buildVars, Piece
<1>7. Given(route.src, TRUE)' = Given(route.src, TRUE) /\ NoGroup' = NoGroup
      /\ UNCHANGED <<pc, code, machine, rest, aside, frames, group, outcome, phase, label>>
  BY <1>1 DEF Given, NoGroup, buildVars, runVars
<1> QED
  BY <1>3, <1>4, <1>5, <1>6, <1>7 DEF RunInv

\* While a build is made nothing runs.
LEMMA BuildKeeps ==
    ASSUME BuildFacts, RunInv, Build, UNCHANGED runVars
    PROVE  RunInv'
<1>1. route' = route /\ outcome = "building"
  BY DEF Build, Classify, ResolveLeg, ServiceFails, PlanWeth, PlanApprovals, RunInv
<1>2. State' = State
  BY DEF State, runVars
<1>3. (TypedState(State))'
  BY <1>2 DEF RunInv, TypedState
<1>4. UNCHANGED <<pc, code, machine, rest, aside, frames, group, outcome>>
  BY DEF runVars
<1> QED
  BY <1>1, <1>3, <1>4 DEF RunInv, Given

\* Every action keeps the inductive invariant.
LEMMA RunInvStep ==
    ASSUME \A r \in Routes : SoldOverPaths(r)
    PROVE  BuildFacts /\ RunInv /\ [Next]_vars => RunInv'
<1> SUFFICES ASSUME BuildFacts, RunInv, [Next]_vars
             PROVE  RunInv'
  OBVIOUS
<1>1. outcome = "running" => Built
  BY BuiltIs
<1>2. CASE Build /\ UNCHANGED runVars
  BY <1>2, BuildKeeps
<1>3. CASE Start
  BY <1>3, StartKeeps
<1>4. CASE Step
  <2>1. /\ Running /\ Does(State, State', Current) /\ group' = group
        /\ UNCHANGED <<buildVars, code, outcome>>
    BY <1>4, StepDoes
  <2> QED
    BY <1>1, <2>1, DoingKeeps DEF Running
<1>5. CASE Split \/ Member \/ Yield \/ Join
  <2>1. /\ Running /\ Does(State, State', Current) /\ group' = group
        /\ UNCHANGED <<buildVars, code, outcome>>
    BY <1>5, SplitDoes, MemberDoes, YieldDoes, JoinDoes
  <2> QED
    BY <1>1, <2>1, DoingKeeps DEF Running
<1>6. CASE EnterGroup
  <2>1. /\ Running /\ Does(State, State', Current) /\ group'.branch = "primary"
        /\ UNCHANGED <<buildVars, code, outcome>>
    BY <1>6, EnterDoes
  <2>2. "branch" \in DOMAIN group'
    BY <1>6 DEF EnterGroup
  <2> QED
    BY <1>1, <2>1, <2>2, DoingKeeps DEF Running
<1>7. CASE LeaveGroup
  BY <1>1, <1>7, LeavingKeeps DEF LeaveGroup
<1>8. CASE Revert
  BY <1>1, <1>8, RevertKeeps DEF Revert, Running
<1>9. CASE Finish
  BY <1>1, <1>9, FinishKeeps DEF Finish
<1>10. CASE UNCHANGED vars
  BY <1>10, StayKeeps
<1> QED
  BY <1>2, <1>3, <1>4, <1>5, <1>6, <1>7, <1>8, <1>9, <1>10 DEF Next, Run

-----------------------------------------------------------------------------
(* The theorems. *)

\* What has been proved about builds holds while the bytecode runs.
LEMMA RunsAreBuilt == SwapSpec => []BuildFacts
<1>1. RunInit => Init
  BY DEF RunInit
<1>2. [Next]_vars => [Build]_buildVars
  BY DEF Next, Run, Start, Step, Split, Member, Yield, Join, EnterGroup, LeaveGroup, Revert,
         Finish, vars
<1>3. SwapSpec => Spec
  BY <1>1, <1>2, PTL DEF SwapSpec, Spec
<1> QED
  BY <1>3, TypeCorrect, LegsStandAsAnswered, PullsDecided, PTL DEF BuildFacts

\* A run is at one of the places of its bytecode, with the funds expected there: the
\* inductive invariant.
THEOREM RunInvariant ==
    ASSUME \A r \in Routes : SoldOverPaths(r)
    PROVE  SwapSpec => [](BuildFacts /\ RunInv)
<1>1. RunInit => RunInv
  <2> SUFFICES ASSUME RunInit
               PROVE  RunInv
    OBVIOUS
  <2>1. SoldOverPaths(route)
    BY InitTypes DEF RunInit, Init, TypeOK
  <2>2. route.src \in Tokens
    <3>1. NPaths \in Nat \ {0}
      BY <2>1, RouteShape
    <3>2. 1 \in DOMAIN route.paths
      BY <2>1, <3>1, RouteShape DEF NPaths
    <3>3. LET swaps == route.paths[1].swaps IN
          /\ Len(swaps) > 0 /\ swaps[1].src = route.src
          /\ 1 \in DOMAIN swaps => swaps[1].src \in Tokens
      BY <2>1, <3>2 DEF SoldOverPaths
    <3>4. 1 \in DOMAIN route.paths[1].swaps
      BY <2>1, <3>1, RouteShape DEF LastSwap
    <3> QED
      BY <3>3, <3>4
  <2>3. Given(route.src, TRUE) \in Machines
    BY <2>2 DEF Given, Machines, Places
  <2>4. <<>> \in Seq(FrameType) /\ Len(<<>>) = 0
    OBVIOUS
  <2>5. TypedState(State)
    <3>1. State.pc = 1 /\ State.machine = Given(route.src, TRUE) /\ State.rest = {} /\ State.aside = {}
          /\ State.frames = <<>>
      BY StateIs DEF RunInit
    <3>2. State.frames \in Seq(FrameType)
      BY <2>4, <3>1
    <3>3. State.pc \in Nat \ {0}
      BY <3>1
    <3>4. State.machine \in Machines
      BY <2>3, <3>1
    <3>5. State.rest \subseteq Pieces /\ State.aside \subseteq Pieces
      BY <3>1
    <3> QED
      BY <3>2, <3>3, <3>4, <3>5 DEF TypedState
  <2>6. "branch" \in DOMAIN group /\ group.branch = "none"
    BY DEF RunInit, NoGroup
  <2>7. pc <= Len(code) + 1
    BY <2>4 DEF RunInit
  <2> QED
    BY <2>5, <2>6, <2>7 DEF RunInit, RunInv
<1>2. BuildFacts /\ RunInv /\ [Next]_vars => RunInv'
  BY RunInvStep
<1> QED
  BY <1>1, <1>2, RunsAreBuilt, PTL DEF SwapSpec

\* Whatever is split and answered, every variable of the run keeps its type, and the
\* run does not leave the bytecode.
THEOREM RunTypesCorrect ==
    ASSUME \A r \in Routes : SoldOverPaths(r)
    PROVE  SwapSpec => []RunTypeOK
<1>1. BuildFacts /\ RunInv => RunTypeOK
  <2> SUFFICES ASSUME BuildFacts, RunInv
               PROVE  RunTypeOK
    OBVIOUS
  <2>1. TypedState(State) /\ TypeOK /\ pc <= Len(code) + 1
    BY DEF RunInv, BuildFacts
  <2>2. pc \in Nat \ {0} /\ machine \in Machines /\ rest \subseteq Pieces /\ aside \subseteq Pieces
        /\ frames \in Seq(FrameType)
    BY <2>1, StateIs DEF TypedState
  <2>3. \A n \in DOMAIN frames : frames[n].whole \in Machines /\ frames[n].aside \subseteq Pieces
    <3>1. \A n \in DOMAIN frames : frames[n] \in FrameType
      BY <2>2
    <3> QED
      BY <3>1 DEF FrameType
  <2>4. pc \in 1..(Len(code) + 1)
    BY <2>1, <2>2 DEF RunInv
  <2> QED
    BY <2>1, <2>2, <2>3, <2>4 DEF RunTypeOK, RunInv
<1> QED
  BY <1>1, RunInvariant, PTL

\* What a step that runs finds.
LEMMA RunningIsServed ==
    ASSUME \A r \in Routes : SoldOverPaths(r), BuildFacts, RunInv, Running
    PROVE  /\ IsGranted(machine, Current)
           /\ ReliedHolds =>
                /\ FindsAllFunds(Current)
                /\ Current.op = "split" /\ Current.inserts => machine.exact
                /\ IsFundsStep(Current) => IsExact(machine, Current)
<1>1. Built
  BY BuiltIs DEF Running
<1>2. ServedBy(State, Current) /\ outcome = "running"
  BY <1>1, RunningServed
<1>3. IsGranted(machine, Current)
  BY <1>2, StateIs DEF ServedBy
<1>4. ReliedHolds => Finds(State, Current) /\ Threads(State, Current)
  BY <1>2 DEF ServedBy, RunInv
<1>5. Finds(State, Current) <=> FindsAllFunds(Current)
  BY StateIs DEF Finds, FindsAllFunds
<1>6. Threads(State, Current) <=>
        /\ Current.op = "split" /\ Current.inserts => machine.exact
        /\ IsFundsStep(Current) => IsExact(machine, Current)
  BY StateIs DEF Threads
<1> QED
  BY <1>3, <1>4, <1>5, <1>6

\* An exchange that pulls its source has been granted it in the block that runs,
\* first block or fallback, on whatever is relied.
THEOREM PullsAlwaysGranted ==
    ASSUME \A r \in Routes : SoldOverPaths(r)
    PROVE  SwapSpec => []PullsAreGranted
<1>1. BuildFacts /\ RunInv => PullsAreGranted
  BY RunningIsServed DEF PullsAreGranted
<1> QED
  BY <1>1, RunInvariant, PTL

\* Every step of the bytecode finds the funds where it takes them from, in the form it
\* takes, whichever blocks have run before it.
THEOREM StepsAlwaysFindFunds ==
    ASSUME \A r \in Routes : SoldOverPaths(r), "midRoute" \in Assumed, Parts \subseteq Relied
    PROVE  SwapSpec => []StepsFindFunds
<1>1. BuildFacts /\ RunInv => StepsFindFunds
  BY RunningIsServed DEF StepsFindFunds, ReliedHolds
<1> QED
  BY <1>1, RunInvariant, PTL

\* A step that works on the threaded amount works on what is there.
THEOREM AmountsAlwaysThreaded ==
    ASSUME \A r \in Routes : SoldOverPaths(r), "midRoute" \in Assumed, Parts \subseteq Relied
    PROVE  SwapSpec => []AmountsAreThreaded
<1>1. BuildFacts /\ RunInv => AmountsAreThreaded
  BY RunningIsServed DEF AmountsAreThreaded, ReliedHolds
<1> QED
  BY <1>1, RunInvariant, PTL

\* When the bytecode has run, everything is with Augustus in the form asked for.
THEOREM FundsAlwaysDelivered ==
    ASSUME \A r \in Routes : SoldOverPaths(r), "midRoute" \in Assumed, Parts \subseteq Relied
    PROVE  SwapSpec => []FundsAreDelivered
<1>1. BuildFacts /\ RunInv => FundsAreDelivered
  <2> SUFFICES ASSUME RunInv, outcome = "done"
               PROVE  rest \union aside \union {Piece(machine)}
                          = {[held |-> route.dest, at |-> "augustus"]}
    BY DEF FundsAreDelivered
  <2>1. Everything(State) = {Delivered}
    BY DEF RunInv, ReliedHolds
  <2>2. Everything(State) = aside \union rest \union {Piece(machine)}
    BY StateIs DEF Everything
  <2> QED
    BY <2>1, <2>2 DEF Delivered
<1> QED
  BY <1>1, RunInvariant, PTL
=============================================================================
