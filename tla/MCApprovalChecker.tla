------------------------- MODULE MCApprovalChecker -------------------------
(* Two concurrent calls on two networks or on one, three allowances (one of *)
(* the native token, one malformed in a variant), and two spellings of one  *)
(* request.                                                                 *)
EXTENDS ApprovalChecker, TLC

CONSTANTS p1, p2, n1, n2, eth, usdc, dai

SameNetwork == [p \in {p1, p2} |-> n1]
TwoNetworks == (p1 :> n1) @@ (p2 :> n2)
\* "usdc" and "USDC" are two spellings of one address.
Spelled == ("eth" :> eth) @@ ("usdc" :> usdc) @@ ("USDC" :> usdc) @@ ("dai" :> dai)

\* Lists with a duplicate, with a native token, and with all of them.
Lists == {<<"usdc", "USDC">>, <<"eth", "dai">>, <<"dai", "USDC">>}

\* Without the native token: a list that can be read, and one that cannot.
SpelledShort == ("usdc" :> usdc) @@ ("USDC" :> usdc) @@ ("dai" :> dai)
ShortLists == {<<"usdc">>, <<"dai", "USDC">>}
=============================================================================
