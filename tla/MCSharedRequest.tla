--------------------------- MODULE MCSharedRequest ---------------------------
(* Three builds of a route through ETH, in two swaps with a fallback each. *)
EXTENDS SharedRequest, TLC

CONSTANTS Usdc, Dai, b1, b2, b3

ThroughEth == <<[src |-> Usdc, dest |-> ETH], [src |-> ETH, dest |-> Dai]>>
Symmetric == Permutations(Builds)
=============================================================================
