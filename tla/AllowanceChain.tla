--------------------------- MODULE AllowanceChain ---------------------------
(***************************************************************************)
(* The allowances that approval checks are about, as they live on the      *)
(* chains: token holders grant, spend and revoke them at any time.         *)
(* External to the library, which only ever reads them.                    *)
(***************************************************************************)
EXTENDS Naturals

CONSTANTS
    Callers,      \* concurrent calls of Check
    Networks,
    NetworkOf,    \* the network of the checker that each caller uses
    Keys,         \* identities of an allowance: (spender, token, target, kind)
    NativeKeys,   \* those whose token is the chain's native token
    MaxAllowance  \* bound: size of an on-chain allowance

ASSUME ChainAssumption ==
    /\ NetworkOf \in [Callers -> Networks]
    /\ NativeKeys \subseteq Keys
    /\ MaxAllowance \in Nat \ {0}

VARIABLES
    allowance,    \* allowance[n][k]: the amount on chain n
    everAllowed,  \* everAllowed[n]: allowances that were non-zero at some time
    stable        \* stable[p]: allowances non-zero ever since p's call began

chainVars == <<allowance, everAllowed, stable>>

Allowed(n) == {k \in Keys : allowance[n][k] # 0}
NetOf(p) == NetworkOf[p]

ChainInit ==
    /\ allowance = [n \in Networks |-> [k \in Keys |-> 0]]
    /\ everAllowed = [n \in Networks |-> {}]
    /\ stable = [p \in Callers |-> {}]

ChainTypeOK ==
    /\ allowance \in [Networks -> [Keys -> 0..MaxAllowance]]
    /\ everAllowed \in [Networks -> SUBSET Keys]
    /\ stable \in [Callers -> SUBSET Keys]

SetAllowance(n, k, amount) ==
    /\ allowance' = [allowance EXCEPT ![n][k] = amount]
    /\ everAllowed' = [everAllowed EXCEPT ![n] = IF amount = 0 THEN @ ELSE @ \union {k}]
    /\ stable' = [p \in Callers |->
                    IF amount = 0 /\ NetOf(p) = n THEN stable[p] \ {k} ELSE stable[p]]

ChainStep ==
    \E n \in Networks, k \in Keys \ NativeKeys, amount \in 0..MaxAllowance :
        SetAllowance(n, k, amount)

\* p's call begins: from now on "stable" is about this call.
Observe(p) ==
    /\ stable' = [stable EXCEPT ![p] = Allowed(NetOf(p))]
    /\ UNCHANGED <<allowance, everAllowed>>
=============================================================================
