--------------------------- MODULE ApprovalChecker ---------------------------
(***************************************************************************)
(* approvals.Checker: the checker that remembers positive answers in a     *)
(* cache shared by every process that builds transactions, and reads the   *)
(* chain (one Multicall3 aggregate) for the rest.                          *)
(*                                                                         *)
(* A call of Check is a sequence of steps, between which other calls and   *)
(* the chain move: Begin (deduplicate), LookUp (cache), ReadChain, Store   *)
(* (cache) and Reply.  The cache and the RPC client are external: each may *)
(* fail at its step, a failed write may have been applied, and an entry    *)
(* may be evicted.                                                         *)
(***************************************************************************)
EXTENDS AllowanceChain, Sequences, FiniteSets

CONSTANTS
    Requests,     \* approval requests as callers spell them
    KeyOf,        \* CacheFieldKey of a request: its lower-cased allowance
    RequestLists, \* the lists of requests that callers may pass
    Malformed     \* allowances one of whose addresses is no hex address

ASSUME CheckerAssumption ==
    /\ KeyOf \in [Requests -> Keys]
    /\ RequestLists \subseteq Seq(Requests)
    /\ Malformed \subseteq Keys

VARIABLES
    cache,        \* cache[n]: fields present in the hash of network n
    pc,           \* pc[p]: the step p's call is at
    reqs,         \* reqs[p]: its requests
    approvedBy,   \* approvedBy[p]: the keys that approvedByKey maps to true
    fresh,        \* fresh[p]: approvedKeys, what the chain has just confirmed
    flaky,        \* flaky[p]: allowances whose read failed during the call
    out           \* out[p]: the answer, once "done"

callVars == <<reqs, approvedBy, fresh, flaky, out>>
vars == <<chainVars, cache, pc, callVars>>

\* The keys of a call without duplicates, and those not yet known approved.
UniqueKeys(p) == {KeyOf[reqs[p][i]] : i \in DOMAIN reqs[p]}
Unapproved(p) == UniqueKeys(p) \ approvedBy[p]

Init ==
    /\ ChainInit
    /\ cache = [n \in Networks |-> {}]
    /\ pc = [p \in Callers |-> "idle"]
    /\ reqs = [p \in Callers |-> <<>>]
    /\ approvedBy = [p \in Callers |-> {}]
    /\ fresh = [p \in Callers |-> {}]
    /\ flaky = [p \in Callers |-> {}]
    /\ out = [p \in Callers |-> <<>>]

GoTo(p, step) == pc' = [pc EXCEPT ![p] = step]

\* Native tokens are approved without a lookup; with nothing left the cache
\* and the reader are not called at all.
Begin(p, list) ==
    LET keys == {KeyOf[list[i]] : i \in DOMAIN list} IN
    /\ pc[p] \in {"idle", "done", "failed"}
    /\ GoTo(p, IF keys \subseteq NativeKeys THEN "reply" ELSE "lookup")
    /\ reqs' = [reqs EXCEPT ![p] = list]
    /\ approvedBy' = [approvedBy EXCEPT ![p] = keys \intersect NativeKeys]
    /\ fresh' = [fresh EXCEPT ![p] = {}]
    /\ flaky' = [flaky EXCEPT ![p] = {}]
    /\ out' = [out EXCEPT ![p] = <<>>]
    /\ Observe(p)
    /\ UNCHANGED cache

\* Mutant: a hit on some key is taken for a hit on all.
LookUpAnyHit(p) ==
    LET hits == Unapproved(p) \intersect cache[NetOf(p)] IN
    /\ pc[p] = "lookup"
    /\ GoTo(p, IF hits # {} THEN "reply" ELSE "read")
    /\ approvedBy' = [approvedBy EXCEPT ![p] = @ \union hits]
    /\ UNCHANGED <<chainVars, cache, reqs, fresh, flaky, out>>

\* Mutant: the hash key of the cache does not name the network.
LookUpAnyNetwork(p) ==
    LET hits == Unapproved(p) \intersect UNION {cache[n] : n \in Networks} IN
    /\ pc[p] = "lookup"
    /\ GoTo(p, IF Unapproved(p) \subseteq hits THEN "reply" ELSE "read")
    /\ approvedBy' = [approvedBy EXCEPT ![p] = @ \union hits]
    /\ UNCHANGED <<chainVars, cache, reqs, fresh, flaky, out>>

\* Every key the cache returns counts, whatever value is stored under it.
LookUp(p) ==
    LET hits == Unapproved(p) \intersect cache[NetOf(p)] IN
    /\ pc[p] = "lookup"
    /\ GoTo(p, IF Unapproved(p) \subseteq hits THEN "reply" ELSE "read")
    /\ approvedBy' = [approvedBy EXCEPT ![p] = @ \union hits]
    /\ UNCHANGED <<chainVars, cache, reqs, fresh, flaky, out>>

\* Mutant: every key that was read is cached, the denied ones too.
ReadChainCacheAll(p, failing) ==
    LET granted == {k \in Unapproved(p) \ failing : allowance[NetOf(p)][k] # 0} IN
    /\ pc[p] = "read"
    /\ Unapproved(p) \intersect Malformed = {}
    /\ GoTo(p, "store")
    /\ approvedBy' = [approvedBy EXCEPT ![p] = @ \union granted]
    /\ fresh' = [fresh EXCEPT ![p] = Unapproved(p)]
    /\ flaky' = [flaky EXCEPT ![p] = failing]
    /\ UNCHANGED <<chainVars, cache, reqs, out>>

\* One eth_call, so one block: a call inside the aggregate may fail alone
\* (AllowFailure) and then reads as "not approved"; any non-zero amount is an
\* approval.  Only approvals go on to the cache.
ReadChain(p, failing) ==
    LET granted == {k \in Unapproved(p) \ failing : allowance[NetOf(p)][k] # 0} IN
    /\ pc[p] = "read"
    /\ Unapproved(p) \intersect Malformed = {}
    /\ GoTo(p, IF granted = {} THEN "reply" ELSE "store")
    /\ approvedBy' = [approvedBy EXCEPT ![p] = @ \union granted]
    /\ fresh' = [fresh EXCEPT ![p] = granted]
    /\ flaky' = [flaky EXCEPT ![p] = failing]
    /\ UNCHANGED <<chainVars, cache, reqs, out>>

Store(p) ==
    /\ pc[p] = "store"
    /\ GoTo(p, "reply")
    /\ cache' = [cache EXCEPT ![NetOf(p)] = @ \union fresh[p]]
    /\ UNCHANGED <<chainVars, callVars>>

\* Mutant: one answer per distinct key instead of one per request.
ReplyPerKey(p) ==
    /\ pc[p] = "reply"
    /\ GoTo(p, "done")
    /\ out' = [out EXCEPT ![p] =
                 [i \in 1..Cardinality(UniqueKeys(p)) |-> KeyOf[reqs[p][i]] \in approvedBy[p]]]
    /\ approvedBy' = [approvedBy EXCEPT ![p] = {}]
    /\ fresh' = [fresh EXCEPT ![p] = {}]
    /\ UNCHANGED <<chainVars, cache, reqs, flaky>>

Reply(p) ==
    /\ pc[p] = "reply"
    /\ GoTo(p, "done")
    /\ out' = [out EXCEPT ![p] =
                 [i \in DOMAIN reqs[p] |-> KeyOf[reqs[p][i]] \in approvedBy[p]]]
    /\ approvedBy' = [approvedBy EXCEPT ![p] = {}]
    /\ fresh' = [fresh EXCEPT ![p] = {}]
    /\ UNCHANGED <<chainVars, cache, reqs, flaky>>

\* Mutant: a request that cannot be encoded is retried, not reported.
FailNotOnRead(p) ==
    /\ pc[p] \in {"lookup", "store"}
    /\ GoTo(p, "failed")
    /\ approvedBy' = [approvedBy EXCEPT ![p] = {}]
    /\ fresh' = [fresh EXCEPT ![p] = {}]
    /\ UNCHANGED <<chainVars, cache, reqs, flaky, out>>

\* An error of the cache or the reader, a malformed address, or a result that
\* does not decode or has the wrong length refuses the whole check.  A write
\* that reports an error may have been applied.
Fail(p) ==
    /\ pc[p] \in {"lookup", "read", "store"}
    /\ GoTo(p, "failed")
    /\ \/ UNCHANGED cache
       \/ pc[p] = "store" /\ cache' = [cache EXCEPT ![NetOf(p)] = @ \union fresh[p]]
    /\ approvedBy' = [approvedBy EXCEPT ![p] = {}]
    /\ fresh' = [fresh EXCEPT ![p] = {}]
    /\ UNCHANGED <<chainVars, reqs, flaky, out>>

\* External: entries of the shared cache may disappear.
Evict(n, k) ==
    /\ cache' = [cache EXCEPT ![n] = @ \ {k}]
    /\ UNCHANGED <<chainVars, pc, callVars>>

CallStep(p) ==
    \/ LookUp(p)
    \/ \E failing \in SUBSET Unapproved(p) : ReadChain(p, failing)
    \/ Store(p)
    \/ Reply(p)
    \/ Fail(p)

Next ==
    \/ ChainStep /\ UNCHANGED <<cache, pc, callVars>>
    \/ \E n \in Networks, k \in Keys : Evict(n, k)
    \/ \E p \in Callers, list \in RequestLists : Begin(p, list)
    \/ \E p \in Callers : CallStep(p)

Spec == Init /\ [][Next]_vars

\* Check is synchronous code, and its context bounds the calls it makes.
FairSpec == Spec /\ \A p \in Callers : WF_vars(CallStep(p))

-----------------------------------------------------------------------------
(* Properties. *)

TypeOK ==
    /\ ChainTypeOK
    /\ cache \in [Networks -> SUBSET Keys]
    /\ pc \in [Callers -> {"idle", "lookup", "read", "store", "reply", "done", "failed"}]
    /\ reqs \in [Callers -> Seq(Requests)]
    /\ approvedBy \in [Callers -> SUBSET Keys]
    /\ fresh \in [Callers -> SUBSET Keys]
    /\ flaky \in [Callers -> SUBSET Keys]
    /\ out \in [Callers -> Seq(BOOLEAN)]
    /\ \A p \in Callers : pc[p] = "done" => DOMAIN out[p] = DOMAIN reqs[p]

\* No approval is invented: whatever was cached by whichever call, on whichever
\* network, whatever failed in between, "approved" is only ever said of a
\* native token or of an allowance the chain of that very network has granted.
\* (Check: cache hits are trusted without a look at the chain.)
NoInventedApproval ==
    \A p \in Callers : pc[p] = "done" =>
        \A i \in DOMAIN reqs[p] :
            out[p][i] => KeyOf[reqs[p][i]] \in NativeKeys \union everAllowed[NetOf(p)]

\* No approval is lost: an allowance that was there during the whole call and
\* whose own read did not fail is reported, so no needless approve calldata is
\* inserted, whichever of the cache and the chain answered.
NoLostApproval ==
    \A p \in Callers : pc[p] = "done" =>
        \A i \in DOMAIN reqs[p] :
            KeyOf[reqs[p][i]] \in NativeKeys \union (stable[p] \ flaky[p]) => out[p][i]

\* The two together, and the order of events around them: the checker
\* implements the promise of ApprovalOracle.
Oracle == INSTANCE ApprovalOracle WITH
    status <- [p \in Callers |->
                 IF pc[p] \in {"lookup", "read", "store", "reply"} THEN "pending" ELSE pc[p]]

ImplementsOracle == Oracle!OracleSpec

\* Every call comes to an answer or an error, however the chain and the other
\* calls interleave with it.
CallsReturn == \A p \in Callers : pc[p] = "lookup" ~> pc[p] \in {"done", "failed"}
=============================================================================
