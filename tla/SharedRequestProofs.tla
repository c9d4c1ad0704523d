------------------------ MODULE SharedRequestProofs ------------------------
(***************************************************************************)
(* For any number of concurrent builds of any route: no encoder is called  *)
(* for another token, or reads the context of another leg or build, and a  *)
(* build that resolves legs has a route in lower case.                     *)
(*                                                                         *)
(* The invariant follows each build: what it has passed is in lower case,  *)
(* for good; its legs are resolved in their order, so that the swap that a *)
(* fallback takes from its primary is still that of its own.               *)
(***************************************************************************)
EXTENDS SharedRequest, TLAPS

Resolved(b) == {r.leg : r \in resolved[b]}
Named(address) == [asset |-> address.asset, spelled |-> "lower"]
TokenOf(i, end) == [asset |-> Route[i][end], spelled |-> "lower"]

\* Spelling changes, and only to lower case; assets never do.
CellsOK ==
    /\ cell \in [Fields -> Address]
    /\ \A f \in Fields : cell[f].asset = Route[f[1]][f[2]]

AllLower == \A f \in Fields : cell[f].spelled = "lower"

\* What build b has normalised, and the field that it has read.
Passed(b) ==
    /\ at[b] = "waiting" => next[b] = 1
    /\ at[b] \in {"read", "write"} =>
        /\ next[b] \in 1..LastField
        /\ \A n \in 1..(next[b] - 1) : cell[FieldAt(n)].spelled = "lower"
    /\ at[b] = "write" =>
        /\ copy[b] \in Address
        /\ copy[b].asset = cell[FieldAt(next[b])].asset
    /\ at[b] \in {"resolve", "answer", "done", "failed"} => AllLower

\* A swap as the route names it, once in lower case.
IsSwap(swap, i) == swap = [src |-> TokenOf(i, "src"), dest |-> TokenOf(i, "dest")]

\* A copy for a leg of swap i, as Call makes it.
IsCopy(c, leg) ==
    /\ leg \in Legs
    /\ c.leg = leg
    /\ IsSwap(c.swap, leg[1])
    /\ c.src = CalledWith(TokenOf(leg[1], "src"), c.wraps)
    /\ c.dest = CalledWith(TokenOf(leg[1], "dest"), c.wraps)

ContextOf(b, leg) ==
    [build |-> b, leg |-> leg, src |-> TokenOf(leg[1], "src"), dest |-> TokenOf(leg[1], "dest")]

\* The leg that build b works on.
OnLeg(b) ==
    at[b] = "answer" =>
        /\ IsCopy(copy[b], copy[b].leg)
        /\ copy[b].leg \in Unresolved(b)
        /\ \A other \in Unresolved(b) \ {copy[b].leg} : IsBefore(copy[b].leg, other)
        /\ context[b] = ContextOf(b, copy[b].leg)

\* Legs are resolved in their order; a fallback right behind its primary.
InOrder(b) ==
    /\ at[b] \in {"waiting", "read", "write"} => resolved[b] = {}
    /\ \A leg \in Resolved(b), other \in Unresolved(b) : IsBefore(leg, other)
    /\ at[b] = "resolve" =>
        \A i \in Fallbacks :
            <<i, "fallback">> \in Unresolved(b) /\ <<i, "primary">> \in Resolved(b) =>
                IsCopy(copy[b], <<i, "primary">>)

Answered(b) ==
    \A r \in resolved[b] : IsCopy(r.call, r.leg) /\ r.seen = ContextOf(b, r.leg)

Domains ==
    /\ DOMAIN copy = Builds /\ DOMAIN resolved = Builds
    /\ DOMAIN context = Builds \union {"shared"}
    /\ at \in [Builds -> {"waiting", "read", "write", "resolve", "answer", "done", "failed"}]
    /\ next \in [Builds -> 1..(LastField + 1)]

BuildOK(b) == Passed(b) /\ OnLeg(b) /\ InOrder(b) /\ Answered(b)
IInv == CellsOK /\ Domains /\ \A b \in Builds : BuildOK(b)

-----------------------------------------------------------------------------

(* The places of the route, and those of them with a fallback.             *)
LEMMA Constants ==
    /\ Swaps = 1..Len(Route) /\ Len(Route) \in Nat \ {0} /\ LastField \in Nat \ {0}
    /\ \A i \in Swaps : Route[i].src \in Assets /\ Route[i].dest \in Assets
    /\ ETH \in Assets /\ WETH \in Assets
    /\ Fallbacks \subseteq Swaps /\ "shared" \notin Builds
<1> DEFINE Hops == [src : Assets, dest : Assets]
<1>1. Route \in Seq(Hops) /\ Route # <<>>
  BY SharedAssumption
<1> HIDE DEF Hops
<1>2. Len(Route) \in Nat /\ DOMAIN Route = 1..Len(Route) /\ Len(Route) # 0
  BY <1>1
<1>3. \A i \in 1..Len(Route) : Route[i] \in Hops
  BY <1>1
<1> USE DEF Hops
<1>. QED BY <1>2, <1>3, SharedAssumption DEF Swaps, LastField

(* The visit of the fields comes past all of them.                         *)
LEMMA FieldsAreVisited ==
    /\ \A n \in 1..LastField : FieldAt(n) \in Fields
    /\ \A f \in Fields : \E n \in 1..LastField : FieldAt(n) = f
<1>1. ASSUME NEW n \in 1..LastField PROVE FieldAt(n) \in Fields
  <2>1. (n + 1) \div 2 \in 1..Len(Route)
    BY Constants DEF LastField
  <2>. QED BY <2>1, Constants DEF FieldAt, Fields
<1>2. ASSUME NEW f \in Fields PROVE \E n \in 1..LastField : FieldAt(n) = f
  <2>1. PICK i \in 1..Len(Route), end \in {"src", "dest"} : f = <<i, end>>
    BY Constants DEF Fields
  <2>2. CASE end = "src"
    <3>1. 2 * i - 1 \in 1..LastField
      BY Constants DEF LastField
    <3>2. ((2 * i - 1) + 1) \div 2 = i /\ (2 * i - 1) % 2 = 1
      BY SMTT(30)
    <3>. QED BY <2>1, <2>2, <3>1, <3>2 DEF FieldAt
  <2>3. CASE end = "dest"
    <3>1. 2 * i \in 1..LastField
      BY Constants DEF LastField
    <3>2. (2 * i + 1) \div 2 = i /\ (2 * i) % 2 # 1
      BY SMTT(30)
    <3>. QED BY <2>1, <2>3, <3>1, <3>2 DEF FieldAt
  <2>. QED BY <2>2, <2>3
<1>. QED BY <1>1, <1>2

(* Lowering a name again leaves it as it is (strings.ToLower).             *)
LEMMA LowerNames ==
    ASSUME NEW a \in Address
    PROVE  Lower(a) = Named(a) /\ Named(a) \in Address
BY DEF Lower, Named, Address

(* The tokens of the route are addresses, which are not lowered twice.     *)
LEMMA TokensAreLower ==
    ASSUME NEW i \in Swaps, NEW end \in {"src", "dest"}
    PROVE  TokenOf(i, end) \in Address /\ Lower(TokenOf(i, end)) = TokenOf(i, end)
<1>1. TokenOf(i, end) \in Address
  BY Constants DEF TokenOf, Address
<1>. QED BY <1>1, LowerNames DEF TokenOf, Named

(* What another build does leaves a build's own state as it is, and may    *)
(* only lower the cells.                                                   *)
LEMMA OthersKeep ==
    ASSUME NEW b \in Builds, BuildOK(b), CellsOK, CellsOK',
           \A f \in Fields : cell[f].spelled = "lower" => cell'[f].spelled = "lower",
           at'[b] = at[b], next'[b] = next[b], copy'[b] = copy[b],
           resolved'[b] = resolved[b], context'[b] = context[b]
    PROVE  BuildOK(b)'
<1>1. \A f \in Fields : cell'[f].asset = cell[f].asset
  BY DEF CellsOK
<1>2. Passed(b)'
  BY <1>1, FieldsAreVisited, Constants DEF BuildOK, Passed, AllLower
<1>3. OnLeg(b)'
  BY DEF BuildOK, OnLeg, Unresolved
<1>4. InOrder(b)'
  BY DEF BuildOK, InOrder, Unresolved, Resolved
<1>5. Answered(b)'
  BY DEF BuildOK, Answered
<1>. QED BY <1>2, <1>3, <1>4, <1>5 DEF BuildOK

(* A step of one build keeps the others.                                   *)
LEMMA OneBuildSteps ==
    ASSUME IInv, CellsOK', Domains', NEW b \in Builds,
           \A f \in Fields : cell[f].spelled = "lower" => cell'[f].spelled = "lower",
           \A c \in Builds \ {b} :
                /\ at'[c] = at[c] /\ next'[c] = next[c] /\ copy'[c] = copy[c]
                /\ resolved'[c] = resolved[c] /\ context'[c] = context[c],
           BuildOK(b)'
    PROVE  IInv'
BY OthersKeep DEF IInv

(* Before any build starts, IInv holds.                                    *)
LEMMA Starts == Init => IInv
<1>. SUFFICES ASSUME Init PROVE IInv
  OBVIOUS
<1>1. CellsOK
  BY DEF Init, CellsOK
<1>2. Domains
  BY Constants DEF Init, Domains
<1>3. ASSUME NEW b \in Builds PROVE BuildOK(b)
  BY <1>3 DEF Init, BuildOK, Passed, OnLeg, InOrder, Answered, Resolved
<1>. QED BY <1>1, <1>2, <1>3 DEF IInv

(* A build that starts has resolved nothing and has all fields before it.  *)
LEMMA StartKeeps == ASSUME IInv, NEW b \in Builds, Start(b) PROVE IInv'
<1>1. CellsOK' /\ cell' = cell
  BY DEF IInv, Start, CellsOK
<1>2. Domains'
  BY Constants DEF IInv, Start, Domains, FirstField
<1>3. BuildOK(b)'
  <2>1. at'[b] = "read" /\ next'[b] = 1 /\ resolved'[b] = resolved[b]
    BY DEF IInv, Start, Domains, FirstField
  <2>2. Passed(b)'
    BY <2>1, Constants DEF Passed
  <2>3. resolved[b] = {}
    BY DEF IInv, BuildOK, InOrder, Start
  <2>. QED BY <2>1, <2>2, <2>3 DEF BuildOK, OnLeg, InOrder, Answered, Resolved
<1>4. \A c \in Builds \ {b} :
        /\ at'[c] = at[c] /\ next'[c] = next[c] /\ copy'[c] = copy[c]
        /\ resolved'[c] = resolved[c] /\ context'[c] = context[c]
  BY DEF IInv, Start, Domains
<1>. QED BY <1>1, <1>2, <1>3, <1>4, OneBuildSteps

(* Reading a field leaves what is shared as it is.                         *)
LEMMA ReadKeeps == ASSUME IInv, NEW b \in Builds, Read(b) PROVE IInv'
<1>1. CellsOK' /\ cell' = cell
  BY DEF IInv, Read, CellsOK
<1>2. Domains'
  BY DEF IInv, Read, Domains
<1>3. BuildOK(b)'
  <2>1. /\ at'[b] = "write" /\ next'[b] = next[b] /\ resolved'[b] = resolved[b]
        /\ copy'[b] = cell[FieldAt(next[b])]
    BY DEF IInv, Read, Domains
  <2>2. next[b] \in 1..LastField /\ resolved[b] = {}
    BY DEF IInv, BuildOK, Passed, InOrder, Read
  <2>3. copy'[b] \in Address
    BY <2>1, <2>2, FieldsAreVisited DEF IInv, CellsOK
  <2>4. Passed(b)'
    BY <1>1, <2>1, <2>2, <2>3 DEF Passed, IInv, BuildOK, Read
  <2>. QED BY <2>1, <2>2, <2>4 DEF BuildOK, OnLeg, InOrder, Answered, Resolved
<1>4. \A c \in Builds \ {b} :
        /\ at'[c] = at[c] /\ next'[c] = next[c] /\ copy'[c] = copy[c]
        /\ resolved'[c] = resolved[c] /\ context'[c] = context[c]
  BY DEF IInv, Read, Domains
<1>. QED BY <1>1, <1>2, <1>3, <1>4, OneBuildSteps

(* What is written is the field that was read, in lower case.              *)
LEMMA WriteKeeps == ASSUME IInv, NEW b \in Builds, Write(b) PROVE IInv'
<1> DEFINE F == FieldAt(next[b])
<1>1. /\ next[b] \in 1..LastField /\ F \in Fields /\ resolved[b] = {}
      /\ copy[b] \in Address /\ copy[b].asset = cell[F].asset
  BY FieldsAreVisited DEF IInv, BuildOK, Passed, InOrder, Write
<1>2. /\ cell' = [cell EXCEPT ![F] = Named(copy[b])] /\ Named(copy[b]) \in Address
      /\ Named(copy[b]).asset = cell[F].asset /\ Named(copy[b]).spelled = "lower"
  BY <1>1, LowerNames DEF Write, Named
<1>3. CellsOK'
  BY <1>1, <1>2 DEF IInv, CellsOK
<1>4. /\ \A f \in Fields : cell[f].spelled = "lower" => cell'[f].spelled = "lower"
      /\ cell'[F].spelled = "lower"
  BY <1>1, <1>2 DEF IInv, CellsOK
<1>5. Domains'
  <2>1. next[b] + 1 \in 1..(LastField + 1)
    BY <1>1, Constants
  <2>. QED BY <2>1 DEF IInv, Write, Domains
<1>6. BuildOK(b)'
  <2>1. /\ at'[b] = IF next[b] = LastField THEN "resolve" ELSE "read"
        /\ next'[b] = next[b] + 1 /\ resolved'[b] = resolved[b]
    BY DEF IInv, Write, Domains
  <2>2. \A n \in 1..next[b] : cell'[FieldAt(n)].spelled = "lower"
    <3>1. ASSUME NEW n \in 1..next[b], n # next[b] PROVE cell'[FieldAt(n)].spelled = "lower"
      <4>1. n \in 1..(next[b] - 1) /\ FieldAt(n) \in Fields
        BY <1>1, <3>1, Constants, FieldsAreVisited
      <4>2. cell[FieldAt(n)].spelled = "lower"
        BY <4>1 DEF IInv, BuildOK, Passed, Write
      <4>. QED BY <1>4, <4>1, <4>2
    <3>. QED BY <1>4, <3>1
  <2>3. next[b] = LastField => AllLower'
    BY <2>2, FieldsAreVisited DEF AllLower
  <2>4. Passed(b)'
    <3>1. next[b] # LastField =>
            next'[b] \in 1..LastField /\ 1..(next'[b] - 1) = 1..next[b]
      BY <1>1, <2>1, Constants
    <3>. QED BY <2>1, <2>2, <2>3, <3>1 DEF Passed
  <2>. QED BY <1>1, <2>1, <2>4 DEF BuildOK, OnLeg, InOrder, Answered, Resolved
<1>7. \A c \in Builds \ {b} :
        /\ at'[c] = at[c] /\ next'[c] = next[c] /\ copy'[c] = copy[c]
        /\ resolved'[c] = resolved[c] /\ context'[c] = context[c]
  BY DEF IInv, Write, Domains
<1>. QED BY <1>3, <1>4, <1>5, <1>6, <1>7, OneBuildSteps

(* The swap that a leg works on is its own: a fallback's primary has been  *)
(* resolved right before it.                                               *)
LEMMA SwapIsOwn ==
    ASSUME IInv, NEW b \in Builds, at[b] = "resolve", NEW leg \in Unresolved(b),
           \A other \in Unresolved(b) \ {leg} : IsBefore(leg, other)
    PROVE  IsSwap(SwapOf(b, leg), leg[1])
<1>1. CASE leg[2] = "fallback"
  <2>1. PICK i \in Fallbacks : leg = <<i, "fallback">>
    BY <1>1 DEF Unresolved, Legs
  <2>2. <<i, "primary">> \in Legs /\ <<i, "primary">> # leg /\ i \in Nat
    BY <2>1, Constants DEF Legs
  <2>3. ~IsBefore(leg, <<i, "primary">>)
    BY <2>1, <2>2 DEF IsBefore
  <2>4. <<i, "primary">> \in Resolved(b)
    BY <2>2, <2>3 DEF Unresolved, Resolved
  <2>5. IsCopy(copy[b], <<i, "primary">>)
    BY <2>1, <2>4 DEF IInv, BuildOK, InOrder
  <2>. QED BY <1>1, <2>1, <2>5 DEF IsCopy, SwapOf
<1>2. CASE leg[2] # "fallback"
  <2>1. leg[1] \in Swaps
    BY Constants DEF Unresolved, Legs
  <2>2. <<leg[1], "src">> \in Fields /\ <<leg[1], "dest">> \in Fields
    BY <2>1 DEF Fields
  <2>3. \A f \in Fields : cell[f] = [asset |-> Route[f[1]][f[2]], spelled |-> "lower"]
    <3>1. ASSUME NEW f \in Fields
          PROVE  cell[f] = [asset |-> Route[f[1]][f[2]], spelled |-> "lower"]
      <4>1. /\ cell[f] \in [asset : Assets, spelled : {"mixed", "lower"}]
            /\ cell[f].asset = Route[f[1]][f[2]] /\ cell[f].spelled = "lower"
        BY DEF IInv, CellsOK, BuildOK, Passed, AllLower, Address
      <4>. QED BY <4>1
    <3>. QED BY <3>1
  <2>4. /\ cell[<<leg[1], "src">>] = TokenOf(leg[1], "src")
        /\ cell[<<leg[1], "dest">>] = TokenOf(leg[1], "dest")
    BY <2>2, <2>3 DEF TokenOf
  <2>. QED BY <1>2, <2>4 DEF SwapOf, IsSwap
<1>. QED BY <1>1, <1>2

(* A call takes the first leg that is left, with its own tokens.           *)
LEMMA CallKeeps ==
    ASSUME IInv, NEW b \in Builds, NEW leg \in Legs, NEW wraps \in BOOLEAN, Call(b, leg, wraps)
    PROVE  IInv'
<1> DEFINE swap == SwapOf(b, leg)
<1>1. /\ at[b] = "resolve" /\ leg \in Unresolved(b)
      /\ \A other \in Unresolved(b) \ {leg} : IsBefore(leg, other)
      /\ cell' = cell /\ next' = next /\ resolved' = resolved
      /\ at' = [at EXCEPT ![b] = "answer"]
  BY DEF Call, CellsOnceReplaced
<1>2. IsSwap(swap, leg[1]) /\ leg[1] \in Swaps
  BY <1>1, SwapIsOwn, Constants DEF Legs
<1>3. /\ swap.src = TokenOf(leg[1], "src") /\ swap.dest = TokenOf(leg[1], "dest")
      /\ Lower(swap.src) = swap.src /\ Lower(swap.dest) = swap.dest
  BY <1>2, TokensAreLower DEF IsSwap
<1> DEFINE own == [swap |-> swap, leg |-> leg, wraps |-> wraps,
                   src |-> CalledWith(swap.src, wraps), dest |-> CalledWith(swap.dest, wraps)]
<1>4. copy' = [copy EXCEPT ![b] = own]
  BY DEF Call
<1>5. context' = [context EXCEPT ![b] = [build |-> b, leg |-> leg,
                                         src |-> Lower(swap.src), dest |-> Lower(swap.dest)]]
  BY DEF Call, OptionsFor
<1>6. CellsOK' /\ Domains'
  BY <1>1, <1>4, <1>5 DEF IInv, CellsOK, Domains
<1>7. BuildOK(b)'
  <2>1. /\ at'[b] = "answer" /\ copy'[b] = own
        /\ context'[b] = ContextOf(b, leg)
    BY <1>1, <1>3, <1>4, <1>5 DEF IInv, Domains, ContextOf
  <2>2. IsCopy(own, leg)
    BY <1>2, <1>3 DEF IsCopy
  <2>3. Unresolved(b)' = Unresolved(b)
    BY <1>1 DEF Unresolved
  <2>4. OnLeg(b)'
    <3>1. copy'[b].leg = leg
      BY <2>1
    <3>. QED BY <1>1, <2>1, <2>2, <2>3, <3>1 DEF OnLeg
  <2>5. Passed(b)'
    BY <1>1, <2>1 DEF IInv, BuildOK, Passed, AllLower
  <2>6. InOrder(b)'
    BY <1>1, <2>1, <2>3 DEF IInv, BuildOK, InOrder, Resolved
  <2>7. Answered(b)'
    BY <1>1 DEF IInv, BuildOK, Answered
  <2>. QED BY <2>4, <2>5, <2>6, <2>7 DEF BuildOK
<1>8. \A c \in Builds \ {b} :
        /\ at'[c] = at[c] /\ next'[c] = next[c] /\ copy'[c] = copy[c]
        /\ resolved'[c] = resolved[c] /\ context'[c] = context[c]
  BY <1>1, <1>4, <1>5 DEF IInv, Domains
<1>. QED BY <1>1, <1>6, <1>7, <1>8, OneBuildSteps

(* A leg is the primary or the fallback of a place of the route.           *)
LEMMA FormOfLegs ==
    ASSUME NEW leg \in Legs
    PROVE  \E k \in Swaps : leg = <<k, "primary">> \/ leg = <<k, "fallback">>
<1>1. CASE leg \in Swaps \X {"primary"}
  BY <1>1
<1>2. CASE leg \in Fallbacks \X {"fallback"}
  <2>1. PICK k \in Fallbacks : leg = <<k, "fallback">>
    BY <1>2
  <2>2. k \in Swaps
    BY Constants
  <2>. QED BY <2>1, <2>2
<1>. QED BY <1>1, <1>2 DEF Legs

(* The leg that is answered comes after those answered before it.          *)
LEMMA AnswerKeeps == ASSUME IInv, NEW b \in Builds, Answer(b) PROVE IInv'
<1> DEFINE leg == copy[b].leg
<1> DEFINE new == [leg |-> leg, call |-> copy[b], seen |-> context[b]]
<1>1. /\ at[b] = "answer" /\ cell' = cell /\ context' = context
      /\ next' = next /\ copy' = copy
      /\ resolved' = [resolved EXCEPT ![b] = @ \union {new}]
      /\ at' = [at EXCEPT ![b] = IF Unresolved(b) = {leg} THEN "done" ELSE "resolve"]
  BY DEF Answer, OptionsFor
<1>2. /\ IsCopy(copy[b], leg) /\ leg \in Unresolved(b) /\ leg \in Legs
      /\ \A other \in Unresolved(b) \ {leg} : IsBefore(leg, other)
      /\ context[b] = ContextOf(b, leg)
  BY <1>1 DEF IInv, BuildOK, OnLeg, IsCopy
<1>3. CellsOK' /\ Domains'
  BY <1>1 DEF IInv, CellsOK, Domains
<1>4. BuildOK(b)'
  <2>1. /\ resolved'[b] = resolved[b] \union {new} /\ copy'[b] = copy[b]
        /\ at'[b] \in {"done", "resolve"}
    BY <1>1 DEF IInv, Domains
  <2>2. Resolved(b)' = Resolved(b) \union {leg} /\ Unresolved(b)' = Unresolved(b) \ {leg}
    <3>1. new.leg = leg
      OBVIOUS
    <3> HIDE DEF new, leg
    <3>2. {r.leg : r \in resolved'[b]} = {r.leg : r \in resolved[b]} \union {leg}
      BY <2>1, <3>1
    <3>. QED BY <3>2 DEF Resolved, Unresolved
  <2>3. Passed(b)'
    BY <1>1, <2>1 DEF IInv, BuildOK, Passed, AllLower
  <2>4. Answered(b)'
    <3>1. IsCopy(new.call, new.leg) /\ new.seen = ContextOf(b, new.leg)
      BY <1>2
    <3>. QED BY <2>1, <3>1 DEF IInv, BuildOK, Answered
  <2>5. \A l \in Resolved(b)', other \in Unresolved(b)' : IsBefore(l, other)
    BY <1>2, <2>2 DEF IInv, BuildOK, InOrder
  <2>6. ASSUME NEW i \in Fallbacks,
               <<i, "fallback">> \in Unresolved(b)', <<i, "primary">> \in Resolved(b)'
        PROVE  leg = <<i, "primary">>
    <3>1. SUFFICES ASSUME <<i, "primary">> \in Resolved(b) PROVE leg = <<i, "primary">>
      BY <2>2, <2>6
    <3>2. IsBefore(<<i, "primary">>, leg) /\ IsBefore(leg, <<i, "fallback">>)
      BY <1>2, <2>2, <2>6, <3>1 DEF IInv, BuildOK, InOrder
    <3>3. PICK k \in Swaps : leg = <<k, "primary">> \/ leg = <<k, "fallback">>
      BY <1>2, FormOfLegs
    <3>4. k \in Int /\ i \in Int
      BY <3>3, Constants
    <3>5. (i < k \/ i = k) /\ (k < i \/ (k = i /\ leg = <<k, "primary">>))
      BY <3>2, <3>3 DEF IsBefore
    <3>. QED BY <3>3, <3>4, <3>5
  <2>7. InOrder(b)'
    <3>1. \A i \in Fallbacks :
            <<i, "fallback">> \in Unresolved(b)' /\ <<i, "primary">> \in Resolved(b)' =>
                IsCopy(copy'[b], <<i, "primary">>)
      BY <1>2, <2>1, <2>6
    <3>. QED BY <2>1, <2>5, <3>1 DEF InOrder
  <2>. QED BY <2>1, <2>3, <2>4, <2>7 DEF BuildOK, OnLeg
<1>5. \A c \in Builds \ {b} :
        /\ at'[c] = at[c] /\ next'[c] = next[c] /\ copy'[c] = copy[c]
        /\ resolved'[c] = resolved[c] /\ context'[c] = context[c]
  BY <1>1 DEF IInv, Domains
<1>. QED BY <1>1, <1>3, <1>4, <1>5, OneBuildSteps

(* A failed call ends its build and changes nothing else.                  *)
LEMMA FailKeeps == ASSUME IInv, NEW b \in Builds, Fail(b) PROVE IInv'
<1>1. CellsOK' /\ Domains'
  BY DEF IInv, Fail, CellsOK, Domains
<1>2. BuildOK(b)'
  <2>1. /\ at'[b] = "failed" /\ cell' = cell /\ next' = next /\ copy' = copy
        /\ resolved' = resolved
    BY DEF IInv, Fail, Domains
  <2>. QED BY <2>1 DEF IInv, Fail, BuildOK, Passed, AllLower, OnLeg, InOrder, Answered,
                       Resolved, Unresolved
<1>3. \A c \in Builds \ {b} :
        /\ at'[c] = at[c] /\ next'[c] = next[c] /\ copy'[c] = copy[c]
        /\ resolved'[c] = resolved[c] /\ context'[c] = context[c]
  BY DEF IInv, Fail, Domains
<1>4. cell' = cell
  BY DEF Fail
<1>. QED BY <1>1, <1>2, <1>3, <1>4, OneBuildSteps

(* IInv speaks of the variables only.                                      *)
LEMMA StutterKeeps == IInv /\ UNCHANGED vars => IInv'
<1>. SUFFICES ASSUME IInv, UNCHANGED vars PROVE IInv'
  OBVIOUS
<1>1. CellsOK' /\ Domains'
  BY DEF IInv, vars, CellsOK, Domains
<1>2. ASSUME NEW b \in Builds PROVE BuildOK(b)'
  BY <1>1, OthersKeep DEF IInv, vars
<1>. QED BY <1>1, <1>2 DEF IInv

-----------------------------------------------------------------------------

(* The invariant holds in every state that concurrent builds can reach.    *)
THEOREM Invariance == Spec => []IInv
<1>1. IInv /\ [Next]_vars => IInv'
  BY StartKeeps, ReadKeeps, WriteKeeps, CallKeeps, AnswerKeeps, FailKeeps, StutterKeeps DEF Next
<1>. QED BY Starts, <1>1, PTL DEF Spec

(* Concurrent builds keep the types of what they share (BuildGeneric).     *)
THEOREM BuildsAreTyped == Spec => []TypeOK
<1>1. IInv => TypeOK
  <2>. SUFFICES ASSUME IInv PROVE TypeOK
    OBVIOUS
  <2>1. \A b \in Builds : at[b] = "write" => copy[b] \in Address
    BY DEF IInv, BuildOK, Passed
  <2>2. \A b \in Builds : \A r \in resolved[b] : r.leg \in Legs
    BY DEF IInv, BuildOK, Answered, IsCopy
  <2>. QED BY <2>1, <2>2 DEF IInv, CellsOK, Domains, TypeOK
<1>. QED BY Invariance, <1>1, PTL

(* Whoever resolves legs has a route in lower case (normalizeBuildRequest). *)
THEOREM RouteNormalized == Spec => []RouteIsNormalized
<1>1. IInv => RouteIsNormalized
  BY DEF IInv, BuildOK, Passed, AllLower, RouteIsNormalized
<1>. QED BY Invariance, <1>1, PTL

(* What an encoder is called with does not depend on the caller's spelling. *)
LEMMA SpellingIsNoMatter ==
    ASSUME NEW i \in Swaps, NEW end \in {"src", "dest"}, NEW wraps
    PROVE  CalledWith([asset |-> Route[i][end], spelled |-> "mixed"], wraps)
                = CalledWith(TokenOf(i, end), wraps)
BY DEF CalledWith, TokenOf, Lower

(* No build replaces a token for another one (buildSingleExchangeParam).   *)
THEOREM LegsOfTheRoute == Spec => []LegsAreOfTheRoute
<1>1. IInv => LegsAreOfTheRoute
  <2>. SUFFICES ASSUME IInv, NEW b \in Builds, NEW r \in resolved[b]
       PROVE  LET swap == Route[r.leg[1]] IN
              /\ r.call.src = CalledWith([asset |-> swap.src, spelled |-> "mixed"], r.call.wraps)
              /\ r.call.dest = CalledWith([asset |-> swap.dest, spelled |-> "mixed"], r.call.wraps)
    BY DEF LegsAreOfTheRoute
  <2>1. IsCopy(r.call, r.leg)
    BY DEF IInv, BuildOK, Answered
  <2>2. r.leg[1] \in Swaps
    BY <2>1, Constants DEF IsCopy, Legs
  <2>. QED BY <2>1, <2>2, SpellingIsNoMatter DEF IsCopy
<1>. QED BY Invariance, <1>1, PTL

(* Every encoder reads the context of its own leg (withPreProcess).        *)
THEOREM EncodersSeeTheirs == Spec => []EncodersSeeTheirLeg
<1>1. IInv => EncodersSeeTheirLeg
  BY DEF IInv, BuildOK, Answered, ContextOf, TokenOf, EncodersSeeTheirLeg
<1>. QED BY Invariance, <1>1, PTL
=============================================================================
