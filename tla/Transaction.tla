---------------------------- MODULE Transaction ----------------------------
(***************************************************************************)
(* From a built route to the transaction: the amounts the contract is told *)
(* to take, the ETH that is sent along, and the word that packs who is paid *)
(* a fee and how (BuildTransactionFromResolved, BuildFeesV6).              *)
(*                                                                         *)
(* Numbers that are packed are sets of the positions of their bits.        *)
(***************************************************************************)
EXTENDS TxBuilder, Integers, FiniteSetsExt

CONSTANT Fees   \* the fees that users ask for

AddressBits == 0..159
HighestPercent == 10000   \* basis points

FeeType == [partner : SUBSET AddressBits, percent : Nat,
            hasReferrer : BOOLEAN, referrer : SUBSET AddressBits,
            takeSurplus : BOOLEAN, capSurplus : BOOLEAN,
            surplusToUser : BOOLEAN, directTransfer : BOOLEAN,
            skipBlacklist : BOOLEAN]   \* not asked for through BuildGeneric

FirstPositions(r) == {pos \in Positions(r) : pos[2] = 1}

\* The exchanges of a first swap share what the route sells; a fallback is quoted
\* at the slice of its exchange.
SharesAddUp(r) ==
    /\ r.srcAmount = MapThenSumSet(LAMBDA pos : Quote(r, <<pos, "primary">>).src,
                                   FirstPositions(r))
    /\ \A leg \in Legs(r) : Quote(r, leg).src = Quote(r, PrimaryOf(leg)).src

ASSUME TransactionAssumption ==
    /\ \A r \in Routes : IsRoutePlan(r) /\ SharesAddUp(r)
    /\ Fees \subseteq FeeType
    /\ \A f \in Fees : f.percent <= HighestPercent

VARIABLES
    fee,   \* the fee asked for
    tx     \* what has been sent to the user: a transaction, an error, or nothing yet

txVars == <<buildVars, fee, tx>>

Nothing == [status |-> "none"]
Error == [status |-> "error"]

-----------------------------------------------------------------------------
(* The fee word. *)

Bits(n) == {b \in 0..19 : (n \div 2^b) % 2 = 1}
If(condition, bit) == IF condition THEN {bit} ELSE {}

PercentOf(f) == IF f.hasReferrer THEN 0 ELSE f.percent

\* Mutant: the mask is a bit too short.
PercentBitsOf13(f) == Bits(PercentOf(f)) \intersect 0..12

PercentBits(f) == Bits(PercentOf(f)) \intersect 0..13

\* A partner who is owed nothing is not named.
Payee(f) ==
    IF f.hasReferrer THEN f.referrer
    ELSE IF PercentOf(f) = 0 /\ ~f.takeSurplus THEN {} ELSE f.partner

FeeWord(f) ==
    {96 + b : b \in Payee(f)}
    \union (IF PercentOf(f) # 0 THEN PercentBits(f)
            ELSE IF f.takeSurplus THEN {95}
            ELSE If(f.hasReferrer, 94))
    \union If(f.skipBlacklist, 93)
    \union If(f.capSurplus, 92)
    \union If(f.directTransfer, 91)
    \union If(f.surplusToUser, 90)

-----------------------------------------------------------------------------

FromAmount(r) == IF r.side = "SELL" THEN r.srcAmount ELSE r.minMax
TxValue(r) == IF r.src = ETH THEN FromAmount(r) ELSE 0

TxInit ==
    /\ Init
    /\ fee \in Fees
    /\ tx = Nothing

\* The executor's bytecode is in Executor01, Executor02 and Executor03.
Encode ==
    /\ phase = "built" /\ tx = Nothing
    /\ PassesFences(route, label)
    /\ tx' = [status |-> "encoded", from |-> FromAmount(route), value |-> TxValue(route),
              fees |-> FeeWord(fee)]
    /\ UNCHANGED <<buildVars, fee>>

\* The build has failed, or its result does not encode.
Report ==
    /\ phase \in {"built", "failed"} /\ tx = Nothing
    /\ tx' = Error
    /\ UNCHANGED <<buildVars, fee>>

TxNext == (Build /\ UNCHANGED <<fee, tx>>) \/ Encode \/ Report

TxSpec == TxInit /\ [][TxNext]_txVars

-----------------------------------------------------------------------------
(* Properties. *)

TxTypeOK ==
    /\ TypeOK
    /\ fee \in Fees
    /\ \/ tx \in {Nothing, Error}
       \/ /\ tx.status = "encoded"
          /\ tx.from \in Nat /\ tx.value \in Nat
          /\ tx.fees \subseteq 0..255

Encoded == tx.status = "encoded"

\* What the encoders of a route's first swaps were told to take, in either branch,
\* does not come to more than the contract takes from the user, however the scaling of
\* a BUY rounds; of ETH, that much is sent along.
Taken(pos) == Max({SrcAmount(route, <<pos, b>>) : b \in DOMAIN Exchange(route, pos).quotes})

SharesAreCovered ==
    Encoded /\ phase = "built" =>
        LET taken == MapThenSumSet(Taken, FirstPositions(route)) IN
        /\ taken <= tx.from
        /\ route.src = ETH => taken <= tx.value

\* Read field by field, the packed word says what the user asked for: no field
\* spills into another or is cut, and nobody is named who is owed nothing.
PercentRead == MapThenSumSet(LAMBDA b : 2^b, tx.fees \intersect 0..13)
PayeeRead == {b - 96 : b \in tx.fees \ 0..95}

FeesReadBack ==
    Encoded =>
        LET owed == fee.hasReferrer \/ fee.percent > 0 \/ fee.takeSurplus IN
        /\ PercentRead = IF fee.hasReferrer THEN 0 ELSE fee.percent
        /\ PayeeRead = IF ~owed THEN {}
                       ELSE IF fee.hasReferrer THEN fee.referrer ELSE fee.partner
        /\ 95 \in tx.fees <=> fee.takeSurplus /\ PercentRead = 0
        /\ 94 \in tx.fees => fee.hasReferrer
        /\ <<93 \in tx.fees, 92 \in tx.fees, 91 \in tx.fees, 90 \in tx.fees>>
                = <<fee.skipBlacklist, fee.capSurplus, fee.directTransfer, fee.surplusToUser>>
=============================================================================
