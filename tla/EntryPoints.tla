---------------------------- MODULE EntryPoints ----------------------------
(***************************************************************************)
(* The three ways to a transaction: BuildGeneric, BuildDirect, for a route *)
(* of one exchange that Augustus makes by itself, and the resolved layer   *)
(* (BuildTransactionFromResolved), for a caller that brings his own legs.  *)
(***************************************************************************)
EXTENDS Transaction, ResolvedLegs

CONSTANTS
    Entries,    \* the ways that are taken
    Methods,    \* the direct methods, by what they are for, see DirectMethod
    LegLists    \* what a caller may bring to the resolved layer

\* The side of a direct method; "either" has both, and so has "batch", which
\* fills several quotes.
DirectMethod == {"SELL", "BUY", "either", "batch"}

Position == (Nat \ {0}) \X (Nat \ {0}) \X (Nat \ {0})
Leg == [pos : Position, params : Seq(BOOLEAN) \ {<<>>}]

ASSUME EntryAssumption ==
    /\ Entries \subseteq {"generic", "direct", "resolved"}
    /\ Methods \subseteq DirectMethod
    /\ LegLists \subseteq Seq(Leg)

VARIABLES
    entry,   \* "generic", "direct" or "resolved"
    method,  \* the direct method
    legs,    \* the legs that the caller has brought
    told,    \* what a direct encoder was told to take, and to pay in fees
    step     \* "begin", "answer" (a direct encoder's), "order", "encode" or "refused"

entryVars == <<txVars, entry, method, legs, told, step>>
request == <<entry, method, legs>>
NotTold == [src |-> 0, fees |-> {}]

-----------------------------------------------------------------------------
(* Direct builds. *)

\* One exchange, or several quotes of one.
HasDirectShape(r, m) ==
    LET path == r.paths[1]
        exchanges == path.swaps[1].exchanges
    IN  /\ Len(r.paths) = 1 /\ path.percent = 100 /\ Len(path.swaps) = 1
        /\ Len(exchanges) > 0
        /\ m # "batch" => Len(exchanges) = 1 /\ exchanges[1].percent = 100

\* The builder takes the amount from the first exchange,
DirectSrcAmount(r) ==
    IF r.side = "BUY" THEN r.minMax ELSE Quote(r, <<<<1, 1, 1>>, "primary">>).src

\* Mutant: the value of a BUY is its quote.
DirectValueAsQuoted(r) == IF r.src # ETH THEN 0 ELSE r.srcAmount

\* the resolved layer below it from the route.
DirectValue(r) ==
    IF r.src # ETH THEN 0 ELSE IF r.side = "SELL" THEN r.srcAmount ELSE r.minMax

AskDirectEncoder ==
    /\ entry = "direct" /\ step = "begin"
    /\ HasDirectShape(route, method)
    /\ told' = [src |-> DirectSrcAmount(route), fees |-> FeeWord(fee)]
    /\ step' = "answer"
    /\ UNCHANGED <<txVars, request>>

\* Only now the side is compared with that of the method.
EncodeDirect ==
    /\ step = "answer"
    /\ method \in {"either", "batch", route.side}
    /\ tx' = [status |-> "encoded", from |-> told.src, value |-> DirectValue(route),
              fees |-> told.fees]
    /\ step' = "encode"
    /\ UNCHANGED <<buildVars, fee, request, told>>

\* The shape or the side does not fit; there is no encoder, it fails, or answers
\* with parameters that do not encode.
RefuseDirect ==
    /\ entry = "direct" /\ step \in {"begin", "answer"}
    /\ tx' = Error
    /\ step' = "refused"
    /\ UNCHANGED <<buildVars, fee, request, told>>

-----------------------------------------------------------------------------
(* Legs that a caller brings. *)

Validate ==
    /\ entry = "resolved" /\ step = "begin"
    /\ step' = IF Validates(route, legs) THEN "order" ELSE "refused"
    /\ tx' = IF step' = "refused" THEN Error ELSE tx
    /\ UNCHANGED <<buildVars, fee, request, told>>

\* Mutant: the executor takes the legs as they come.
LegsAsGiven(r, given) == given

\* The place of an exchange in the walk over the route plan.
Precedes(p, q) == Before(<<p, "primary">>, <<q, "primary">>)
Place(r, pos) == Cardinality({other \in Positions(r) : Precedes(other, pos)}) + 1

OrderedLegs(r, given) ==
    [n \in 1..Len(given) |->
        LegAt(given, CHOOSE pos \in Positions(r) : Place(r, pos) = n)]

Order ==
    /\ step = "order"
    /\ step' = IF CanBeOrdered(route, legs) THEN "encode" ELSE "refused"
    /\ legs' = IF step' = "encode" THEN OrderedLegs(route, legs) ELSE legs
    /\ tx' = IF step' = "refused" THEN Error ELSE tx
    /\ UNCHANGED <<buildVars, fee, entry, method, told>>

\* Unless there is no bytecode for them.
EncodeResolved ==
    /\ entry = "resolved" /\ step = "encode" /\ tx = Nothing
    /\ tx' \in {Error, [status |-> "encoded", from |-> FromAmount(route),
                        value |-> TxValue(route), fees |-> FeeWord(fee)]}
    /\ UNCHANGED <<buildVars, fee, request, told, step>>

-----------------------------------------------------------------------------

EntryInit ==
    /\ TxInit
    /\ entry \in Entries
    /\ entry # "resolved" => ~fee.skipBlacklist
    /\ method \in IF entry = "direct" THEN Methods ELSE {"none"}
    /\ legs \in IF entry = "resolved" THEN LegLists ELSE {<<>>}
    /\ told = NotTold
    /\ step = "begin"

GenericStep == entry = "generic" /\ TxNext /\ UNCHANGED <<request, told, step>>

EntryNext ==
    \/ GenericStep
    \/ AskDirectEncoder \/ EncodeDirect \/ RefuseDirect
    \/ Validate \/ Order \/ EncodeResolved

EntrySpec == EntryInit /\ [][EntryNext]_entryVars

-----------------------------------------------------------------------------
(* Properties. *)

EntryTypeOK ==
    /\ TxTypeOK
    /\ method \in Methods \union {"none"}
    /\ legs \in Seq(Leg)
    /\ told.src \in Nat /\ told.fees \subseteq 0..255
    /\ step \in {"begin", "answer", "order", "encode", "refused"}

\* However a route is built, its user is charged the same: what a direct encoder
\* is told to take, by the exchange, is what the bytecode of the same route is
\* given, by the route (DirectParamInput, directTxValue, buildGenericSwapDataABI);
\* what fills several quotes gets no less ETH than it is told to take.
DirectIsChargedAlike ==
    Encoded /\ entry = "direct" =>
        /\ route.src = ETH => tx.from <= tx.value
        /\ method # "batch" => tx.from = FromAmount(route) /\ tx.value = TxValue(route)

\* Each exchange of the route plan, in its order, gets the one leg that was
\* brought for it.  Legs are refused only if they are not one per exchange or not
\* well formed: what has been validated, the executor can put in order.
IsOneEach(given) ==
    /\ \A pos \in Positions(route) :
        Cardinality({n \in DOMAIN given : given[n].pos = pos}) = 1
    /\ \A n \in DOMAIN given : given[n].pos \in Positions(route)

LegsMeetTheirExchange ==
    entry = "resolved" =>
        /\ step = "encode" =>
            /\ IsOneEach(legs)
            /\ \A n \in 1..(Len(legs) - 1) : Precedes(legs[n].pos, legs[n + 1].pos)
        /\ step = "refused" => ~(IsOneEach(legs) /\ \A n \in DOMAIN legs : IsValid(legs[n]))
=============================================================================
