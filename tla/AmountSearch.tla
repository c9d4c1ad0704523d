---------------------------- MODULE AmountSearch ----------------------------
(***************************************************************************)
(* Where an executor finds, in the calldata of an exchange, the amount that *)
(* it overwrites with the one that is really there (findAmountPosWith-      *)
(* Fallback): as a word of the ABI, or packed into half a word; as it is,   *)
(* or negated where the exchange takes signed amounts.                      *)
(*                                                                         *)
(* Calldata is a sequence of digits, found by their indexes from 0: a       *)
(* selector, then what should be words.                                     *)
(***************************************************************************)
EXTENDS Integers

CONSTANTS
    Base, Byte, Word,   \* values of a digit, digits of a byte and of a word
    WordValues, HalfValues,   \* values of a word, 2^256 in the code, and of half a word
    Selector,           \* digits of the selector
    Lengths,            \* how many digits the calldata may have
    Amounts             \* the quoted amounts

ASSUME SearchAssumption ==
    /\ Base \in Nat /\ Base > 1
    /\ Byte \in Nat \ {0} /\ Selector \in Nat
    /\ Word \in Nat \ {0} /\ Selector < Word
    /\ Word % (2 * Byte) = 0
    /\ WordValues \in Nat \ {0} /\ WordValues = Base^Word
    /\ HalfValues \in Nat \ {0} /\ HalfValues = Base^(Word \div 2)
    /\ Lengths \subseteq Nat
    /\ Amounts \subseteq Nat

VARIABLES
    data,      \* the digits of the calldata
    length,    \* and how many there are
    amount,    \* the quoted amount
    packed,    \* AmountsPacked128
    negated,   \* whether the negated amount is looked for
    start,     \* searchStart
    outcome,   \* "searching", "found", "absent" or "failed"
    pos        \* the position, in bytes, that the executor is told

searchVars == <<data, length, amount, packed, negated, start, outcome, pos>>
inputs == <<data, length, amount, packed>>

-----------------------------------------------------------------------------
(* Numbers of a fixed width. *)

Width == IF packed THEN Word \div 2 ELSE Word
Values == IF packed THEN HalfValues ELSE WordValues

\* The number that is looked for; of zero, the negated one is too wide.
Sought(neg) == IF neg THEN Values - amount ELSE amount
Encodes(neg) == Sought(neg) \in 0..(Values - 1)
DigitOf(neg, k) == (Sought(neg) \div Base^(Width - 1 - k)) % Base

Occurs(neg, i) ==
    /\ i + Width <= length
    /\ \A k \in 0..(Width - 1) : data[i + k] = DigitOf(neg, k)

\* Mutant: a word may begin at any byte.
AlignedToBytes(i) == i % Byte = 0

\* Words are aligned behind the selector, halves of them to bytes only.
Aligned(i) ==
    IF packed THEN i % Byte = 0 ELSE i >= Selector /\ (i - Selector) % Word = 0

\* Mutants: the search goes on behind what it has found, or where it was found.
RestartBehind(i) == i + Width
RestartAt(i) == i

\* What is found may overlap the amount that is looked for.
Restart(i) == i + 1

\* Mutant: a packed amount is taken to have a slot wherever it was found.
HasSlotAnywhere(i) == TRUE

\* A packed amount is the lower half of its slot.
HasSlot(i) == packed => i >= Width
SlotPos(i) == IF packed THEN (i \div Byte) - (Width \div Byte) ELSE i \div Byte

\* Right behind the calldata and its prefix "0x".
PosAbsent == (length + 2) \div Byte

-----------------------------------------------------------------------------

SearchInit ==
    /\ length \in Lengths
    /\ data \in [0..(length - 1) -> 0..(Base - 1)]
    /\ amount \in Amounts
    /\ packed \in BOOLEAN
    /\ negated = FALSE
    /\ start = 0
    /\ outcome = IF Encodes(FALSE) THEN "searching" ELSE "failed"
    /\ pos = 0

\* The first occurrence from start on.
IsNext(i) == start <= i /\ Occurs(negated, i) /\ \A j \in start..(i - 1) : ~Occurs(negated, j)

Searching == outcome = "searching"

Skip ==
    /\ Searching
    /\ \E i \in 0..length : IsNext(i) /\ ~Aligned(i) /\ start' = Restart(i)
    /\ UNCHANGED <<inputs, negated, outcome, pos>>

\* An amount that has no slot around it is not looked for any further.
Find ==
    /\ Searching
    /\ \E i \in 0..length :
        /\ IsNext(i) /\ Aligned(i)
        /\ outcome' = IF HasSlot(i) THEN "found" ELSE "absent"
        /\ pos' = IF HasSlot(i) THEN SlotPos(i) ELSE PosAbsent
    /\ UNCHANGED <<inputs, negated, start>>

NoneLeft == Searching /\ \A i \in start..length : ~Occurs(negated, i)

Negate ==
    /\ NoneLeft /\ ~negated
    /\ negated' = TRUE
    /\ start' = 0
    /\ outcome' = IF Encodes(TRUE) THEN "searching" ELSE "failed"
    /\ UNCHANGED <<inputs, pos>>

Miss ==
    /\ NoneLeft /\ negated
    /\ outcome' = "absent"
    /\ pos' = PosAbsent
    /\ UNCHANGED <<inputs, negated, start>>

SearchNext == Skip \/ Find \/ Negate \/ Miss

\* The search is a loop that nothing interrupts.
SearchSpec == SearchInit /\ [][SearchNext]_searchVars /\ WF_searchVars(SearchNext)

-----------------------------------------------------------------------------
(* Properties. *)

SearchTypeOK ==
    /\ length \in Lengths
    /\ data \in [0..(length - 1) -> 0..(Base - 1)]
    /\ amount \in Amounts
    /\ packed \in BOOLEAN /\ negated \in BOOLEAN
    /\ start \in 0..(length + 1)
    /\ outcome \in {"searching", "found", "absent", "failed"}
    /\ pos \in Nat

SlotIndexes ==
    IF packed THEN {n * Byte : n \in 0..length} ELSE {Selector + n * Word : n \in 0..length}
IsSlotOf(neg, i) == i \in SlotIndexes /\ Occurs(neg, i)

\* The position is that of the first aligned occurrence, of the negated amount
\* only where the amount itself is nowhere: however occurrences overlap each
\* other, one that is not aligned hides none that is (findAmountPosInCalldata).
FindsTheFirstSlot ==
    outcome = "found" =>
        \E i \in 0..length :
            /\ IsSlotOf(negated, i) /\ pos = SlotPos(i)
            /\ \A j \in 0..(i - 1) : ~IsSlotOf(negated, j)
            /\ negated => \A j \in 0..length : ~IsSlotOf(FALSE, j)

\* A search ends without a slot only if there is none in either form, or the first
\* one reaches back before the calldata; it fails only for an amount that is
\* too wide, or for zero that is nowhere, whose negation is too wide.
MissesOnlyWhatIsNotThere ==
    /\ outcome = "absent" =>
        \/ \A i \in 0..length : ~IsSlotOf(FALSE, i) /\ ~IsSlotOf(TRUE, i)
        \/ packed /\ \E i \in 0..(Width - 1) : IsSlotOf(negated, i)
    /\ outcome = "failed" =>
        \/ amount >= Values
        \/ amount = 0 /\ \A i \in 0..length : ~IsSlotOf(FALSE, i)

\* The loop comes to its end.
SearchEnds == <>(outcome # "searching")
=============================================================================
