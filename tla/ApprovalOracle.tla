--------------------------- MODULE ApprovalOracle ---------------------------
(***************************************************************************)
(* What an approval check promises the transaction builder, whatever       *)
(* cache or RPC client stands behind it (builder.ApprovalChecker).         *)
(*                                                                         *)
(* An answer need not be current, because approvals are remembered without *)
(* expiry, but it is never invented: TRUE is said only of a native token   *)
(* or of an allowance that was once non-zero on that network, and FALSE is *)
(* never said of an allowance that was non-zero during the whole call,     *)
(* unless the read of that one allowance failed.                           *)
(***************************************************************************)
EXTENDS AllowanceChain, Sequences

CONSTANTS
    Requests,     \* approval requests as callers spell them
    KeyOf,        \* the allowance a request is about
    RequestLists  \* the lists of requests that callers may pass

VARIABLES
    flaky,        \* flaky[p]: allowances whose read failed during p's call
    reqs,         \* reqs[p]: the requests of p's call
    status,       \* status[p]: "idle", "pending", "done" or "failed"
    out           \* out[p]: one answer per request, once "done"

oracleVars == <<allowance, everAllowed, stable, flaky, reqs, status, out>>

OracleInit ==
    /\ ChainInit
    /\ flaky = [p \in Callers |-> {}]
    /\ reqs = [p \in Callers |-> <<>>]
    /\ status = [p \in Callers |-> "idle"]
    /\ out = [p \in Callers |-> <<>>]

Ask(p, list) ==
    /\ status[p] # "pending"
    /\ reqs' = [reqs EXCEPT ![p] = list]
    /\ status' = [status EXCEPT ![p] = "pending"]
    /\ out' = [out EXCEPT ![p] = <<>>]
    /\ flaky' = [flaky EXCEPT ![p] = {}]
    /\ Observe(p)

ReadFails(p, keys) ==
    /\ status[p] = "pending"
    /\ flaky' = [flaky EXCEPT ![p] = keys]
    /\ UNCHANGED <<chainVars, reqs, status, out>>

Answers(p) == [DOMAIN reqs[p] -> BOOLEAN]

Truthful(p, answer) ==
    \A i \in DOMAIN reqs[p] :
        LET k == KeyOf[reqs[p][i]] IN
        /\ answer[i] => k \in NativeKeys \union everAllowed[NetOf(p)]
        /\ k \in NativeKeys \union (stable[p] \ flaky[p]) => answer[i]

Answer(p, answer) ==
    /\ status[p] = "pending"
    /\ Truthful(p, answer)
    /\ out' = [out EXCEPT ![p] = answer]
    /\ status' = [status EXCEPT ![p] = "done"]
    /\ UNCHANGED <<chainVars, flaky, reqs>>

Refuse(p) ==
    /\ status[p] = "pending"
    /\ status' = [status EXCEPT ![p] = "failed"]
    /\ UNCHANGED <<chainVars, flaky, reqs, out>>

OracleNext ==
    \/ ChainStep /\ UNCHANGED <<flaky, reqs, status, out>>
    \/ \E p \in Callers :
        \/ \E list \in RequestLists : Ask(p, list)
        \/ \E keys \in SUBSET Keys : ReadFails(p, keys)
        \/ \E answer \in Answers(p) : Answer(p, answer)
        \/ Refuse(p)

OracleSpec == OracleInit /\ [][OracleNext]_oracleVars
=============================================================================
