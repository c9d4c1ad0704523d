--------------------------- MODULE SharedRequest ---------------------------
(***************************************************************************)
(* Concurrent builds of one cached price route.  BuildGeneric is given the *)
(* request by value, but the swaps of its route and its options are behind *)
(* a slice and a pointer: all builds share them.  Every build lower-cases  *)
(* the addresses of the swaps in place, field by field and without a lock, *)
(* then resolves leg after leg with the DEX encoders, which read what the  *)
(* options point to whenever they want.                                    *)
(***************************************************************************)
EXTENDS Integers, Sequences

CONSTANTS
    Builds,     \* the concurrent builds
    Assets,     \* the tokens
    ETH, WETH,
    Route,      \* the tokens of the swaps, one behind the other
    Fallbacks   \* the swaps whose exchange has a fallback

Swaps == DOMAIN Route
Address == [asset : Assets, spelled : {"mixed", "lower"}]
Fields == Swaps \X {"src", "dest"}
Legs == (Swaps \X {"primary"}) \union (Fallbacks \X {"fallback"})

\* The fields in the order in which they are visited.
LastField == 2 * Len(Route)
FieldAt(n) == <<(n + 1) \div 2, IF n % 2 = 1 THEN "src" ELSE "dest">>

ASSUME SharedAssumption ==
    /\ {ETH, WETH} \subseteq Assets
    /\ Route \in Seq([src : Assets, dest : Assets]) \ {<<>>}
    /\ Fallbacks \subseteq Swaps
    /\ "shared" \notin Builds

VARIABLES
    cell,      \* cell[f]: a field of the shared swaps
    context,   \* context[o]: what options o hold, the shared ones or a build's own
    at,        \* at[b]: "read", "write", "resolve", "answer", "done" or "failed"
    next,      \* next[b]: the field that build b visits
    copy,      \* copy[b]: what it has read: an address, or a swap with its leg
    resolved   \* resolved[b]: the legs that its encoders have answered

vars == <<cell, context, at, next, copy, resolved>>

-----------------------------------------------------------------------------
(* Normalising the request. *)

\* Mutant: the other case.
Upper(address) == [address EXCEPT !.spelled = "upper"]

Lower(address) == [address EXCEPT !.spelled = "lower"]

\* Mutant: a route that begins in lower case is taken for a normalised one.
FirstFieldUnlessLower == IF cell[FieldAt(1)].spelled = "lower" THEN LastField ELSE 1

FirstField == 1

Init ==
    /\ cell \in [Fields -> Address]
    /\ \A f \in Fields : cell[f].asset = Route[f[1]][f[2]]
    /\ context = [o \in Builds \union {"shared"} |-> <<>>]
    /\ at = [b \in Builds |-> "waiting"]
    /\ next = [b \in Builds |-> 1]
    /\ copy = [b \in Builds |-> <<>>]
    /\ resolved = [b \in Builds |-> {}]

Start(b) ==
    /\ at[b] = "waiting"
    /\ at' = [at EXCEPT ![b] = "read"]
    /\ next' = [next EXCEPT ![b] = FirstField]
    /\ UNCHANGED <<cell, context, copy, resolved>>

\* What a build writes has the length of what it has read: who reads meanwhile
\* sees one spelling or the other.
Read(b) ==
    /\ at[b] = "read"
    /\ copy' = [copy EXCEPT ![b] = cell[FieldAt(next[b])]]
    /\ at' = [at EXCEPT ![b] = "write"]
    /\ UNCHANGED <<cell, context, next, resolved>>

Write(b) ==
    /\ at[b] = "write"
    /\ cell' = [cell EXCEPT ![FieldAt(next[b])] = Lower(copy[b])]
    /\ at' = [at EXCEPT ![b] = IF next[b] = LastField THEN "resolve" ELSE "read"]
    /\ next' = [next EXCEPT ![b] = @ + 1]
    /\ UNCHANGED <<context, copy, resolved>>

-----------------------------------------------------------------------------
(* Resolving the legs. *)

IsBefore(leg, other) ==
    leg[1] < other[1] \/ (leg[1] = other[1] /\ leg[2] = "primary")
Unresolved(b) == Legs \ {r.leg : r \in resolved[b]}

\* Mutant: the context of a leg is written into the options of the request.
IntoShared(b) == "shared"

\* A clone of the options carries the context of a leg (withPreProcess).
OptionsFor(b) == b

\* Mutant: a token is replaced in the shared swap.
ReplacedInPlace(i, wraps) ==
    [f \in Fields |->
        IF f[1] = i /\ wraps /\ cell[f].asset = ETH THEN [cell[f] EXCEPT !.asset = WETH]
        ELSE cell[f]]

\* A token is replaced in the copy that the leg works on.
CellsOnceReplaced(i, wraps) == cell

\* The token that an encoder is called with: lower-case, and WETH where its pool
\* takes or returns that for ETH.
CalledWith(address, wraps) ==
    IF address.asset = ETH /\ wraps THEN [asset |-> WETH, spelled |-> "lower"]
    ELSE Lower(address)

\* The swap is copied once for a primary and its fallback.
SwapOf(b, leg) ==
    IF leg[2] = "fallback" THEN copy[b].swap
    ELSE [src |-> cell[<<leg[1], "src">>], dest |-> cell[<<leg[1], "dest">>]]

Call(b, leg, wraps) ==
    LET swap == SwapOf(b, leg) IN
    /\ at[b] = "resolve"
    /\ leg \in Unresolved(b)
    /\ \A other \in Unresolved(b) \ {leg} : IsBefore(leg, other)
    /\ wraps => ETH \in {swap.src.asset, swap.dest.asset}
    /\ context' = [context EXCEPT ![OptionsFor(b)] =
                        [build |-> b, leg |-> leg, src |-> Lower(swap.src), dest |-> Lower(swap.dest)]]
    /\ copy' = [copy EXCEPT ![b] =
                    [swap |-> swap, leg |-> leg, wraps |-> wraps,
                     src |-> CalledWith(swap.src, wraps), dest |-> CalledWith(swap.dest, wraps)]]
    /\ cell' = CellsOnceReplaced(leg[1], wraps)
    /\ at' = [at EXCEPT ![b] = "answer"]
    /\ UNCHANGED <<next, resolved>>

\* The encoder reads the context that its options hold by then.
Answer(b) ==
    /\ at[b] = "answer"
    /\ resolved' = [resolved EXCEPT ![b] =
                        @ \union {[leg |-> copy[b].leg, call |-> copy[b],
                                   seen |-> context[OptionsFor(b)]]}]
    /\ at' = [at EXCEPT ![b] = IF Unresolved(b) = {copy[b].leg} THEN "done" ELSE "resolve"]
    /\ UNCHANGED <<cell, context, next, copy>>

\* There is no encoder, decimals are missing, or the encoder fails.
Fail(b) ==
    /\ at[b] \in {"resolve", "answer"}
    /\ at' = [at EXCEPT ![b] = "failed"]
    /\ UNCHANGED <<cell, context, next, copy, resolved>>

Next ==
    \E b \in Builds :
        \/ Start(b) \/ Read(b) \/ Write(b)
        \/ \E leg \in Legs, wraps \in BOOLEAN : Call(b, leg, wraps)
        \/ Answer(b) \/ Fail(b)

Spec == Init /\ [][Next]_vars

-----------------------------------------------------------------------------
(* Properties. *)

TypeOK ==
    /\ cell \in [Fields -> Address]
    /\ DOMAIN context = Builds \union {"shared"}
    /\ at \in [Builds -> {"waiting", "read", "write", "resolve", "answer", "done", "failed"}]
    /\ next \in [Builds -> 1..(LastField + 1)]
    /\ \A b \in Builds : at[b] = "write" => copy[b] \in Address
    /\ \A b \in Builds : \A r \in resolved[b] : r.leg \in Legs

\* A build that resolves legs has a route in lower case, whatever other builds of
\* it are still writing (normalizeBuildRequest).
RouteIsNormalized ==
    (\E b \in Builds : at[b] \in {"resolve", "answer", "done"}) =>
        \A f \in Fields : cell[f].spelled = "lower"

\* Every encoder is called for the tokens of the route as the caller gave it: what
\* is replaced for one leg is not replaced for its fallback, for another build, or
\* in the caller's cache (buildSingleExchangeParam).
LegsAreOfTheRoute ==
    \A b \in Builds : \A r \in resolved[b] :
        LET swap == Route[r.leg[1]] IN
        /\ r.call.src = CalledWith([asset |-> swap.src, spelled |-> "mixed"], r.call.wraps)
        /\ r.call.dest = CalledWith([asset |-> swap.dest, spelled |-> "mixed"], r.call.wraps)

\* An encoder reads the context of its own leg and build, with the tokens that the
\* caller named, however late it reads ("writing into it would leave every leg
\* with the last leg's context", withPreProcess).
EncodersSeeTheirLeg ==
    \A b \in Builds : \A r \in resolved[b] :
        r.seen = [build |-> b, leg |-> r.leg,
                  src |-> [asset |-> Route[r.leg[1]].src, spelled |-> "lower"],
                  dest |-> [asset |-> Route[r.leg[1]].dest, spelled |-> "lower"]]
=============================================================================
