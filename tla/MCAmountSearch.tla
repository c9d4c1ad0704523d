---------------------------- MODULE MCAmountSearch ----------------------------
(* Every calldata of a selector and two words of four digits, every amount of *)
(* a word and one that is too wide.                                           *)
EXTENDS AmountSearch

TwoWords == {Selector, Selector + 2 * Word}
UpToTooWide == 0..WordValues
=============================================================================
