------------------------- MODULE StandAloneProofs -------------------------
(***************************************************************************)
(* Theorems of the two components that stand on their own: the approval    *)
(* checker and the search for an amount.                                   *)
(*                                                                         *)
(* What ApprovalChecker's runs show on two calls and three allowances is   *)
(* proved for any number of calls, networks, allowances and requests.      *)
(*                                                                         *)
(* For every width of words, every calldata and every amount, a search     *)
(* finds the first slot of the amount, and misses only what is not there.  *)
(* Its inductive invariant says what a search that goes on has behind it:  *)
(* no slot before start holds what is looked for, and none at all holds    *)
(* the amount once its negation is.                                        *)
(***************************************************************************)
EXTENDS ApprovalChecker, AmountSearch, SequenceTheorems, TLAPS

-----------------------------------------------------------------------------
(* The approval checker. *)

Requested(p) == UniqueKeys(p)

\* An allowance the chain holds now has been seen by the history.
HistoryComplete ==
    \A n \in Networks, k \in Keys : allowance[n][k] # 0 => k \in everAllowed[n]

\* What the call still owes an answer TRUE.
Owed(p) == Requested(p) \intersect (NativeKeys \union (stable[p] \ flaky[p]))

\* The strengthening of NoInventedApproval: the cache and what the calls have
\* collected so far are as sound as the answers.
Sound ==
    /\ HistoryComplete
    /\ \A n \in Networks : cache[n] \subseteq everAllowed[n]
    /\ \A p \in Callers : approvedBy[p] \subseteq NativeKeys \union everAllowed[NetOf(p)]
    /\ \A p \in Callers : fresh[p] \subseteq everAllowed[NetOf(p)]
    /\ NoInventedApproval

\* The strengthening of NoLostApproval: native tokens are known from Begin on,
\* and everything owed is known once the chain has been read.
Complete ==
    /\ \A p \in Callers : \A k \in stable[p] : allowance[NetOf(p)][k] # 0
    /\ \A p \in Callers : pc[p] \in {"lookup", "read"} =>
            Requested(p) \intersect NativeKeys \subseteq approvedBy[p]
    /\ \A p \in Callers : pc[p] \in {"store", "reply"} => Owed(p) \subseteq approvedBy[p]
    /\ NoLostApproval

-----------------------------------------------------------------------------

LEMMA TypeInit == Init => TypeOK
  BY ChainAssumption, CheckerAssumption
     DEF ChainAssumption, CheckerAssumption, Init, TypeOK, ChainInit, ChainTypeOK

\* What a call asks about is well-formed.
LEMMA RequestTypes ==
  ASSUME TypeOK, NEW p \in Callers
  PROVE  /\ reqs[p] \in Seq(Requests)
         /\ \A i \in DOMAIN reqs[p] : KeyOf[reqs[p][i]] \in Keys
         /\ UniqueKeys(p) \subseteq Keys
         /\ Unapproved(p) \subseteq UniqueKeys(p)
<1>1. reqs[p] \in Seq(Requests)
  BY DEF TypeOK
<1>2. ASSUME NEW i \in DOMAIN reqs[p] PROVE KeyOf[reqs[p][i]] \in Keys
  BY <1>1, CheckerAssumption DEF CheckerAssumption
<1> QED
  BY <1>1, <1>2 DEF UniqueKeys, Unapproved

\* Each step of a call, of the chain and of the cache keeps the types.
LEMMA TypeNext == TypeOK /\ [Next]_vars => TypeOK'
<1> SUFFICES ASSUME TypeOK, [Next]_vars PROVE TypeOK'
  OBVIOUS
<1> USE ChainAssumption, CheckerAssumption DEF ChainAssumption, CheckerAssumption
<1>1. ASSUME ChainStep, UNCHANGED <<cache, pc, callVars>> PROVE TypeOK'
  BY <1>1 DEF TypeOK, ChainTypeOK, ChainStep, SetAllowance, callVars
<1>2. ASSUME NEW n \in Networks, NEW k \in Keys, Evict(n, k) PROVE TypeOK'
  BY <1>2 DEF TypeOK, ChainTypeOK, Evict, chainVars, callVars
<1>3. ASSUME NEW p \in Callers, NEW list \in RequestLists, Begin(p, list) PROVE TypeOK'
  <2>1. {KeyOf[list[i]] : i \in DOMAIN list} \subseteq Keys
    OBVIOUS
  <2>2. Allowed(NetOf(p)) \subseteq Keys
    BY DEF Allowed
  <2>3. <<>> \in Seq(BOOLEAN)
    OBVIOUS
  <2> QED
    BY <1>3, <2>1, <2>2, <2>3 DEF TypeOK, ChainTypeOK, Begin, GoTo, Observe
<1>4. ASSUME NEW p \in Callers, LookUp(p) PROVE TypeOK'
  <2>1. Unapproved(p) \subseteq Keys
    BY RequestTypes
  <2> QED
    BY <1>4, <2>1 DEF TypeOK, ChainTypeOK, LookUp, GoTo, chainVars
<1>5. ASSUME NEW p \in Callers, NEW failing \in SUBSET Unapproved(p), ReadChain(p, failing)
      PROVE TypeOK'
  <2>1. Unapproved(p) \subseteq Keys
    BY RequestTypes
  <2> QED
    BY <1>5, <2>1 DEF TypeOK, ChainTypeOK, ReadChain, GoTo, chainVars
<1>6. ASSUME NEW p \in Callers, Store(p) PROVE TypeOK'
  BY <1>6 DEF TypeOK, ChainTypeOK, Store, GoTo, chainVars, callVars, NetOf
<1>7. ASSUME NEW p \in Callers, Reply(p) PROVE TypeOK'
  <2> DEFINE answer == [i \in DOMAIN reqs[p] |-> KeyOf[reqs[p][i]] \in approvedBy[p]]
  <2>1. answer \in Seq(BOOLEAN)
    <3>1. reqs[p] \in Seq(Requests)
      BY DEF TypeOK
    <3>2. DOMAIN reqs[p] = 1..Len(reqs[p]) /\ Len(reqs[p]) \in Nat
      BY <3>1
    <3>3. answer \in [1..Len(reqs[p]) -> BOOLEAN]
      BY <3>2
    <3> QED
      BY <3>2, <3>3, SeqDef
  <2>2. DOMAIN answer = DOMAIN reqs[p]
    OBVIOUS
  <2>3. out' = [out EXCEPT ![p] = answer]
    BY <1>7 DEF Reply
  <2> HIDE DEF answer
  <2>4. out' \in [Callers -> Seq(BOOLEAN)]
    BY <2>1, <2>3 DEF TypeOK
  <2>5. \A q \in Callers : pc'[q] = "done" => DOMAIN out'[q] = DOMAIN reqs'[q]
    BY <1>7, <2>2, <2>3 DEF TypeOK, Reply, GoTo
  <2> QED
    BY <1>7, <2>4, <2>5 DEF TypeOK, ChainTypeOK, Reply, GoTo, chainVars
<1>8. ASSUME NEW p \in Callers, Fail(p) PROVE TypeOK'
  <2>1. cache' \in [Networks -> SUBSET Keys]
    BY <1>8 DEF Fail, TypeOK, NetOf
  <2> QED
    BY <1>8, <2>1 DEF TypeOK, ChainTypeOK, Fail, GoTo, chainVars
<1>9. ASSUME UNCHANGED vars PROVE TypeOK'
  BY <1>9 DEF TypeOK, ChainTypeOK, vars, chainVars, callVars
<1> QED
  BY <1>1, <1>2, <1>3, <1>4, <1>5, <1>6, <1>7, <1>8, <1>9 DEF Next, CallStep

\* Types, for any number of calls, networks and allowances.
THEOREM TypeCorrect == Spec => []TypeOK
  BY TypeInit, TypeNext, PTL DEF Spec

-----------------------------------------------------------------------------

LEMMA SoundInit == Init => Sound
  BY DEF Init, ChainInit, Sound, HistoryComplete, NoInventedApproval

\* The chain only adds to the history; a call moves keys from the cache or the
\* chain of its network into approvedBy and fresh, from fresh into the cache,
\* and from approvedBy into its answer.
LEMMA SoundNext == TypeOK /\ Sound /\ [Next]_vars => Sound'
<1> SUFFICES ASSUME TypeOK, Sound, [Next]_vars PROVE Sound'
  OBVIOUS
<1> USE ChainAssumption, CheckerAssumption DEF ChainAssumption, CheckerAssumption
<1>1. ASSUME ChainStep, UNCHANGED <<cache, pc, callVars>> PROVE Sound'
  <2>1. PICK n \in Networks, k \in Keys \ NativeKeys, granted \in 0..MaxAllowance :
            SetAllowance(n, k, granted)
    BY <1>1 DEF ChainStep
  <2>2. \A m \in Networks : everAllowed[m] \subseteq everAllowed'[m]
    BY <2>1 DEF SetAllowance, TypeOK, ChainTypeOK
  <2>3. HistoryComplete'
    BY <2>1, <2>2 DEF SetAllowance, TypeOK, ChainTypeOK, Sound, HistoryComplete
  <2>4. \A p \in Callers : NetOf(p) \in Networks
    BY DEF NetOf
  <2>5. NoInventedApproval'
    <3>1. UNCHANGED <<pc, reqs, out>>
      BY <1>1 DEF callVars
    <3> QED
      BY <2>2, <2>4, <3>1 DEF Sound, NoInventedApproval
  <2>6. UNCHANGED <<cache, approvedBy, fresh>>
    BY <1>1 DEF callVars
  <2> QED
    BY <2>2, <2>3, <2>4, <2>5, <2>6 DEF Sound
<1>2. ASSUME NEW n \in Networks, NEW k \in Keys, Evict(n, k) PROVE Sound'
  BY <1>2 DEF Evict, TypeOK, Sound, HistoryComplete, NoInventedApproval, chainVars, callVars
<1>3. ASSUME NEW p \in Callers, NEW list \in RequestLists, Begin(p, list) PROVE Sound'
  <2>1. pc' = [pc EXCEPT ![p] = pc'[p]] /\ pc'[p] # "done"
    BY <1>3 DEF Begin, GoTo, TypeOK
  <2>2. NoInventedApproval'
    BY <1>3, <2>1 DEF Begin, Observe, TypeOK, Sound, NoInventedApproval
  <2> QED
    BY <1>3, <2>2 DEF Begin, Observe, TypeOK, Sound, HistoryComplete
<1>4. ASSUME NEW p \in Callers, LookUp(p) PROVE Sound'
  <2>1. pc' = [pc EXCEPT ![p] = pc'[p]] /\ pc'[p] # "done"
    BY <1>4 DEF LookUp, GoTo, TypeOK
  <2>2. NoInventedApproval'
    BY <1>4, <2>1 DEF LookUp, TypeOK, Sound, NoInventedApproval, chainVars
  <2>3. NetOf(p) \in Networks
    BY DEF NetOf
  <2> QED
    BY <1>4, <2>2, <2>3 DEF LookUp, TypeOK, Sound, HistoryComplete, chainVars
<1>5. ASSUME NEW p \in Callers, NEW failing \in SUBSET Unapproved(p), ReadChain(p, failing)
      PROVE Sound'
  <2>1. pc' = [pc EXCEPT ![p] = pc'[p]] /\ pc'[p] # "done"
    BY <1>5 DEF ReadChain, GoTo, TypeOK
  <2>2. NoInventedApproval'
    BY <1>5, <2>1 DEF ReadChain, TypeOK, Sound, NoInventedApproval, chainVars
  <2> DEFINE granted == {k \in Unapproved(p) \ failing : allowance[NetOf(p)][k] # 0}
  <2>3. granted \subseteq everAllowed[NetOf(p)]
    BY RequestTypes DEF Sound, HistoryComplete, NetOf
  <2>4. approvedBy' = [approvedBy EXCEPT ![p] = @ \union granted]
        /\ fresh' = [fresh EXCEPT ![p] = granted]
    BY <1>5 DEF ReadChain
  <2>5. UNCHANGED <<allowance, everAllowed, cache>>
    BY <1>5 DEF ReadChain, chainVars
  <2> HIDE DEF granted
  <2> QED
    BY <2>2, <2>3, <2>4, <2>5 DEF TypeOK, Sound, HistoryComplete
<1>6. ASSUME NEW p \in Callers, Store(p) PROVE Sound'
  <2>1. pc' = [pc EXCEPT ![p] = "reply"]
    BY <1>6 DEF Store, GoTo
  <2>2. NoInventedApproval'
    BY <1>6, <2>1 DEF Store, TypeOK, Sound, NoInventedApproval, chainVars, callVars
  <2> QED
    BY <1>6, <2>2 DEF Store, TypeOK, Sound, HistoryComplete, chainVars, callVars
<1>7. ASSUME NEW p \in Callers, Reply(p) PROVE Sound'
  <2>1. \A i \in DOMAIN reqs[p] : out'[p][i] => KeyOf[reqs[p][i]] \in approvedBy[p]
    BY <1>7 DEF Reply, TypeOK
  <2>2. \A q \in Callers \ {p} : out'[q] = out[q] /\ pc'[q] = pc[q]
    BY <1>7 DEF Reply, GoTo, TypeOK
  <2>3. UNCHANGED <<reqs, everAllowed, allowance, cache>>
    BY <1>7 DEF Reply, chainVars
  <2>4. approvedBy[p] \subseteq NativeKeys \union everAllowed[NetOf(p)]
    BY DEF Sound
  <2>5. NoInventedApproval'
    BY <2>1, <2>2, <2>3, <2>4 DEF Sound, NoInventedApproval
  <2> QED
    BY <1>7, <2>3, <2>5 DEF Reply, TypeOK, Sound, HistoryComplete
<1>8. ASSUME NEW p \in Callers, Fail(p) PROVE Sound'
  <2>1. pc' = [pc EXCEPT ![p] = "failed"]
    BY <1>8 DEF Fail, GoTo
  <2>2. NoInventedApproval'
    BY <1>8, <2>1 DEF Fail, TypeOK, Sound, NoInventedApproval, chainVars
  <2>3. \A n \in Networks : cache'[n] \subseteq everAllowed[n]
    <3>1. CASE UNCHANGED cache
      BY <3>1 DEF Sound
    <3>2. CASE cache' = [cache EXCEPT ![NetOf(p)] = @ \union fresh[p]]
      BY <1>8, <3>2 DEF Fail, chainVars, TypeOK, Sound
    <3> QED
      BY <1>8, <3>1, <3>2 DEF Fail
  <2> QED
    BY <1>8, <2>2, <2>3 DEF Fail, TypeOK, Sound, HistoryComplete, chainVars
<1>9. ASSUME UNCHANGED vars PROVE Sound'
  BY <1>9 DEF vars, chainVars, callVars, Sound, HistoryComplete, NoInventedApproval
<1> QED
  BY <1>1, <1>2, <1>3, <1>4, <1>5, <1>6, <1>7, <1>8, <1>9 DEF Next, CallStep

\* No call, on any network, ever answers "approved" for an allowance the chain
\* of that network never granted, whatever other calls cached.
THEOREM AnswersSound == Spec => []NoInventedApproval
<1>1. Sound => NoInventedApproval
  BY DEF Sound
<1> QED
  BY TypeInit, TypeNext, SoundInit, SoundNext, <1>1, PTL DEF Spec

-----------------------------------------------------------------------------

LEMMA CompleteInit == Init => Complete
  BY DEF Init, ChainInit, Complete, NoLostApproval

\* A key leaves "owed" when the chain revokes it or its read fails; it is known
\* once it was read, because the read saw the allowance the whole call saw.
LEMMA CompleteNext == TypeOK /\ Complete /\ [Next]_vars => Complete'
<1> SUFFICES ASSUME TypeOK, Complete, [Next]_vars PROVE Complete'
  OBVIOUS
<1> USE ChainAssumption, CheckerAssumption DEF ChainAssumption, CheckerAssumption
<1> USE DEF Requested, UniqueKeys, Owed
<1>1. ASSUME ChainStep, UNCHANGED <<cache, pc, callVars>> PROVE Complete'
  <2>1. PICK n \in Networks, k \in Keys \ NativeKeys, granted \in 0..MaxAllowance :
            SetAllowance(n, k, granted)
    BY <1>1 DEF ChainStep
  <2>2. UNCHANGED <<pc, reqs, approvedBy, flaky, out>>
    BY <1>1 DEF callVars
  <2>3. \A p \in Callers : stable'[p] \subseteq stable[p]
    BY <2>1 DEF SetAllowance, TypeOK, ChainTypeOK
  <2>4. \A p \in Callers : \A j \in stable'[p] : allowance'[NetOf(p)][j] # 0
    BY <2>1, <2>3 DEF SetAllowance, TypeOK, ChainTypeOK, Complete, NetOf
  <2>5. NoLostApproval'
    BY <2>2, <2>3 DEF Complete, NoLostApproval
  <2> QED
    BY <2>2, <2>3, <2>4, <2>5 DEF Complete
<1>2. ASSUME NEW n \in Networks, NEW k \in Keys, Evict(n, k) PROVE Complete'
  BY <1>2 DEF Evict, Complete, NoLostApproval, chainVars, callVars
<1>3. ASSUME NEW p \in Callers, NEW list \in RequestLists, Begin(p, list) PROVE Complete'
  <2> DEFINE keys == {KeyOf[list[i]] : i \in DOMAIN list}
  <2>1. pc'[p] = (IF keys \subseteq NativeKeys THEN "reply" ELSE "lookup")
    BY <1>3 DEF Begin, GoTo, TypeOK
  <2>2. reqs'[p] = list /\ flaky'[p] = {} /\ approvedBy'[p] = keys \intersect NativeKeys
        /\ stable'[p] = Allowed(NetOf(p))
    BY <1>3 DEF Begin, Observe, TypeOK, ChainTypeOK
  <2>3. \A q \in Callers \ {p} : /\ pc'[q] = pc[q] /\ reqs'[q] = reqs[q]
                                 /\ flaky'[q] = flaky[q] /\ out'[q] = out[q]
                                 /\ approvedBy'[q] = approvedBy[q]
                                 /\ stable'[q] = stable[q]
    BY <1>3 DEF Begin, GoTo, Observe, TypeOK, ChainTypeOK
  <2>4. UNCHANGED allowance
    BY <1>3 DEF Begin, Observe
  <2>5. \A q \in Callers : \A j \in stable'[q] : allowance'[NetOf(q)][j] # 0
    BY <2>2, <2>3, <2>4 DEF Complete, Allowed
  <2>6. NoLostApproval'
    BY <2>1, <2>3 DEF Complete, NoLostApproval
  <2>7. \A q \in Callers : pc'[q] \in {"lookup", "read"} =>
            Requested(q)' \intersect NativeKeys \subseteq approvedBy'[q]
    BY <2>2, <2>3 DEF Complete
  <2>8. \A q \in Callers : pc'[q] \in {"store", "reply"} => Owed(q)' \subseteq approvedBy'[q]
    BY <2>1, <2>2, <2>3 DEF Complete
  <2> QED
    BY <2>5, <2>6, <2>7, <2>8 DEF Complete
<1>4. ASSUME NEW p \in Callers, LookUp(p) PROVE Complete'
  <2> DEFINE hits == Unapproved(p) \intersect cache[NetOf(p)]
  <2>1. pc[p] = "lookup" /\ pc'[p] = (IF Unapproved(p) \subseteq hits THEN "reply" ELSE "read")
    BY <1>4 DEF LookUp, GoTo, TypeOK
  <2>2. approvedBy'[p] = approvedBy[p] \union hits
    BY <1>4 DEF LookUp, TypeOK
  <2>3. \A q \in Callers \ {p} : pc'[q] = pc[q] /\ approvedBy'[q] = approvedBy[q]
    BY <1>4 DEF LookUp, GoTo, TypeOK
  <2>4. UNCHANGED <<allowance, stable, reqs, flaky, out>>
    BY <1>4 DEF LookUp, chainVars
  <2>5. NoLostApproval'
    BY <2>1, <2>3, <2>4 DEF Complete, NoLostApproval
  <2>6. Unapproved(p) \subseteq hits => Requested(p) \subseteq approvedBy'[p]
    BY <2>2 DEF Unapproved
  <2> HIDE DEF hits
  <2> QED
    BY <2>1, <2>2, <2>3, <2>4, <2>5, <2>6 DEF Complete
<1>5. ASSUME NEW p \in Callers, NEW failing \in SUBSET Unapproved(p), ReadChain(p, failing)
      PROVE Complete'
  <2> DEFINE granted == {k \in Unapproved(p) \ failing : allowance[NetOf(p)][k] # 0}
  <2>1. pc[p] = "read" /\ pc'[p] \in {"reply", "store"}
    BY <1>5 DEF ReadChain, GoTo, TypeOK
  <2>2. approvedBy'[p] = approvedBy[p] \union granted /\ flaky'[p] = failing
    BY <1>5 DEF ReadChain, TypeOK
  <2>3. \A q \in Callers \ {p} : /\ pc'[q] = pc[q] /\ approvedBy'[q] = approvedBy[q]
                                 /\ flaky'[q] = flaky[q]
    BY <1>5 DEF ReadChain, GoTo, TypeOK
  <2>4. UNCHANGED <<allowance, stable, reqs, out>>
    BY <1>5 DEF ReadChain, chainVars
  <2>5. NoLostApproval'
    BY <2>1, <2>3, <2>4 DEF Complete, NoLostApproval
  <2>6. Owed(p)' \subseteq approvedBy'[p]
    <3>1. \A k \in Owed(p)' : k \in NativeKeys \/ (k \in stable[p] /\ k \notin failing)
      BY <2>2, <2>4
    <3>2. \A k \in Requested(p) : k \in approvedBy[p] \/ k \in Unapproved(p)
      BY DEF Unapproved
    <3>3. Requested(p) \intersect NativeKeys \subseteq approvedBy[p]
      BY <2>1 DEF Complete
    <3>4. \A k \in stable[p] : allowance[NetOf(p)][k] # 0
      BY DEF Complete
    <3> QED
      BY <2>2, <2>4, <3>1, <3>2, <3>3, <3>4
  <2>7. \A q \in Callers \ {p} : Owed(q)' = Owed(q) /\ Requested(q)' = Requested(q)
    BY <2>3, <2>4
  <2> HIDE DEF granted, Owed
  <2> QED
    BY <2>1, <2>3, <2>4, <2>5, <2>6, <2>7 DEF Complete
<1>6. ASSUME NEW p \in Callers, Store(p) PROVE Complete'
  <2>1. pc[p] = "store" /\ pc' = [pc EXCEPT ![p] = "reply"]
    BY <1>6 DEF Store, GoTo
  <2>2. UNCHANGED <<allowance, stable, reqs, approvedBy, flaky, out>>
    BY <1>6 DEF Store, chainVars, callVars
  <2> QED
    BY <2>1, <2>2 DEF TypeOK, Complete, NoLostApproval
<1>7. ASSUME NEW p \in Callers, Reply(p) PROVE Complete'
  <2>1. pc[p] = "reply" /\ pc' = [pc EXCEPT ![p] = "done"]
    BY <1>7 DEF Reply, GoTo
  <2>2. \A i \in DOMAIN reqs[p] : KeyOf[reqs[p][i]] \in approvedBy[p] => out'[p][i]
    BY <1>7 DEF Reply, TypeOK
  <2>3. \A q \in Callers \ {p} : out'[q] = out[q] /\ approvedBy'[q] = approvedBy[q]
    BY <1>7 DEF Reply, TypeOK
  <2>4. UNCHANGED <<allowance, stable, reqs, flaky>>
    BY <1>7 DEF Reply, chainVars
  <2>5. Owed(p) \subseteq approvedBy[p]
    BY <2>1 DEF Complete
  <2>6. NoLostApproval'
    BY <2>1, <2>2, <2>3, <2>4, <2>5 DEF TypeOK, Complete, NoLostApproval
  <2> QED
    BY <2>1, <2>3, <2>4, <2>6 DEF TypeOK, Complete
<1>8. ASSUME NEW p \in Callers, Fail(p) PROVE Complete'
  <2>1. pc' = [pc EXCEPT ![p] = "failed"]
    BY <1>8 DEF Fail, GoTo
  <2>2. \A q \in Callers \ {p} : approvedBy'[q] = approvedBy[q]
    BY <1>8 DEF Fail, TypeOK
  <2>3. UNCHANGED <<allowance, stable, reqs, flaky, out>>
    BY <1>8 DEF Fail, chainVars
  <2> QED
    BY <2>1, <2>2, <2>3 DEF TypeOK, Complete, NoLostApproval
<1>9. ASSUME UNCHANGED vars PROVE Complete'
  BY <1>9 DEF vars, chainVars, callVars, Complete, NoLostApproval
<1> QED
  BY <1>1, <1>2, <1>3, <1>4, <1>5, <1>6, <1>7, <1>8, <1>9 DEF Next, CallStep

\* An allowance that is there during a whole call and can be read is never
\* reported missing, whichever of the cache and the chain answered for it.
THEOREM AnswersComplete == Spec => []NoLostApproval
<1>1. Complete => NoLostApproval
  BY DEF Complete
<1> QED
  BY TypeInit, TypeNext, CompleteInit, CompleteNext, <1>1, PTL DEF Spec

-----------------------------------------------------------------------------

\* status, as the refinement maps it.
Status == [p \in Callers |->
             IF pc[p] \in {"lookup", "read", "store", "reply"} THEN "pending" ELSE pc[p]]

LEMMA RefineInit == Init => Oracle!OracleInit
  BY DEF Init, ChainInit, Oracle!OracleInit, Oracle!ChainInit

\* A step of the checker is the step of the oracle it is named after below, or
\* none: looking up and storing are invisible.
LEMMA RefineNext ==
  TypeOK /\ Sound /\ Complete /\ [Next]_vars => [Oracle!OracleNext]_(Oracle!oracleVars)
<1> SUFFICES ASSUME TypeOK, Sound, Complete, [Next]_vars
             PROVE  Oracle!OracleNext \/ UNCHANGED Oracle!oracleVars
  OBVIOUS
<1> USE DEF Oracle!oracleVars, Oracle!chainVars
<1>1. ASSUME ChainStep, UNCHANGED <<cache, pc, callVars>> PROVE Oracle!OracleNext
  BY <1>1 DEF ChainStep, SetAllowance, NetOf, callVars,
     Oracle!OracleNext, Oracle!ChainStep, Oracle!SetAllowance, Oracle!NetOf
<1>2. ASSUME NEW n \in Networks, NEW k \in Keys, Evict(n, k)
      PROVE  UNCHANGED Oracle!oracleVars
  BY <1>2 DEF Evict, chainVars, callVars
<1>3. ASSUME NEW p \in Callers, NEW list \in RequestLists, Begin(p, list)
      PROVE  Oracle!OracleNext
  <2>1. pc[p] \in {"idle", "done", "failed"} /\ pc'[p] \in {"reply", "lookup"}
        /\ \A q \in Callers \ {p} : pc'[q] = pc[q]
    BY <1>3 DEF Begin, GoTo, TypeOK
  <2>2. Status' = [Status EXCEPT ![p] = "pending"] /\ Status[p] # "pending"
    BY <2>1 DEF Status
  <2>3. Oracle!Ask(p, list)
    BY <1>3, <2>2 DEF Begin, Observe, Allowed, NetOf, Status,
       Oracle!Ask, Oracle!Observe, Oracle!Allowed, Oracle!NetOf
  <2> QED
    BY <2>3 DEF Oracle!OracleNext
<1>4. ASSUME NEW p \in Callers, LookUp(p) PROVE UNCHANGED Oracle!oracleVars
  <2>1. Status' = Status
    BY <1>4 DEF LookUp, GoTo, TypeOK, Status
  <2> QED
    BY <1>4, <2>1 DEF LookUp, chainVars, Status
<1>5. ASSUME NEW p \in Callers, NEW failing \in SUBSET Unapproved(p), ReadChain(p, failing)
      PROVE  Oracle!OracleNext
  <2>1. Status' = Status /\ Status[p] = "pending"
    BY <1>5 DEF ReadChain, GoTo, TypeOK, Status
  <2>2. failing \in SUBSET Keys
    BY RequestTypes
  <2>3. Oracle!ReadFails(p, failing)
    BY <1>5, <2>1 DEF ReadChain, chainVars, Status, Oracle!ReadFails
  <2> QED
    BY <2>2, <2>3 DEF Oracle!OracleNext
<1>6. ASSUME NEW p \in Callers, Store(p) PROVE UNCHANGED Oracle!oracleVars
  <2>1. Status' = Status
    BY <1>6 DEF Store, GoTo, TypeOK, Status
  <2> QED
    BY <1>6, <2>1 DEF Store, chainVars, callVars, Status
<1>7. ASSUME NEW p \in Callers, Reply(p) PROVE Oracle!OracleNext
  <2>1. Status' = [Status EXCEPT ![p] = "done"] /\ Status[p] = "pending"
    BY <1>7 DEF Reply, GoTo, TypeOK, Status
  <2>2. PICK answer \in Oracle!Answers(p) :
            answer = [i \in DOMAIN reqs[p] |-> KeyOf[reqs[p][i]] \in approvedBy[p]]
    <3>1. [i \in DOMAIN reqs[p] |-> KeyOf[reqs[p][i]] \in approvedBy[p]] \in Oracle!Answers(p)
      BY DEF Oracle!Answers
    <3> QED
      BY <3>1
  <2>3. approvedBy[p] \subseteq NativeKeys \union everAllowed[NetOf(p)]
    BY DEF Sound
  <2>4. Owed(p) \subseteq approvedBy[p]
    BY <1>7 DEF Reply, Complete
  <2>5. Oracle!Truthful(p, answer)
    BY <2>2, <2>3, <2>4 DEF Owed, Requested, UniqueKeys, NetOf, Oracle!Truthful, Oracle!NetOf
  <2>6. Oracle!Answer(p, answer)
    BY <1>7, <2>1, <2>2, <2>5 DEF Reply, chainVars, Status, Oracle!Answer
  <2> QED
    BY <2>6 DEF Oracle!OracleNext
<1>8. ASSUME NEW p \in Callers, Fail(p) PROVE Oracle!OracleNext
  <2>1. Status' = [Status EXCEPT ![p] = "failed"] /\ Status[p] = "pending"
    BY <1>8 DEF Fail, GoTo, TypeOK, Status
  <2>2. Oracle!Refuse(p)
    BY <1>8, <2>1 DEF Fail, chainVars, Status, Oracle!Refuse
  <2> QED
    BY <2>2 DEF Oracle!OracleNext
<1>9. ASSUME UNCHANGED vars PROVE UNCHANGED Oracle!oracleVars
  BY <1>9 DEF vars, chainVars, callVars
<1> QED
  BY <1>1, <1>2, <1>3, <1>4, <1>5, <1>6, <1>7, <1>8, <1>9 DEF Next, CallStep

\* The checker, with its cache, its concurrent calls and its failing reads,
\* keeps the promise the transaction builder relies on.
THEOREM CheckerImplementsOracle == Spec => ImplementsOracle
  BY TypeInit, TypeNext, SoundInit, SoundNext, CompleteInit, CompleteNext,
     RefineInit, RefineNext, PTL DEF Spec, ImplementsOracle, Oracle!OracleSpec

-----------------------------------------------------------------------------
(* The search for an amount. *)

\* What has been searched.
NoneBehind ==
    /\ outcome = "searching" => \A j \in 0..(start - 1) : ~IsSlotOf(negated, j)
    /\ negated => \A j \in 0..length : ~IsSlotOf(FALSE, j)
    /\ outcome = "searching" => Encodes(FALSE)

SearchInv == SearchTypeOK /\ NoneBehind /\ FindsTheFirstSlot /\ MissesOnlyWhatIsNotThere

-----------------------------------------------------------------------------

(* A multiple leaves no remainder, and what leaves none is a multiple, by   *)
(* a factor up to any bound that it is up to itself.                       *)
LEMMA Multiples ==
    ASSUME NEW w \in Nat \ {0}, NEW x \in Nat, NEW m \in Nat, x <= m
    PROVE  x % w = 0 <=> \E n \in 0..m : x = n * w
<1>1. ASSUME x % w = 0 PROVE \E n \in 0..m : x = n * w
  <2>1. x = w * (x \div w) + (x % w)
    BY SMTT(30)
  <2>2. x \div w \in 0..m
    BY SMTT(30)
  <2>3. x = (x \div w) * w
    BY <1>1, <2>1, <2>2, SMTT(30)
  <2>. QED BY <2>2, <2>3
<1>2. ASSUME NEW n \in 0..m, x = n * w PROVE x % w = 0
  BY <1>2, SMTT(30)
<1>. QED BY <1>1, <1>2

(* Half a word is a whole number of bytes, at least one.                   *)
LEMMA HalfWord == Word \div 2 \in Nat \ {0}
  BY SearchAssumption, SMTT(30)

(* What the search takes for aligned is where slots are.                   *)
LEMMA AlignedIsSlot ==
    ASSUME length \in Nat, NEW i \in 0..length
    PROVE  Aligned(i) <=> i \in SlotIndexes
<1>1. CASE packed
  <2>1. i \in Nat /\ i <= length
    OBVIOUS
  <2>2. i % Byte = 0 <=> \E n \in 0..length : i = n * Byte
    BY <2>1, Multiples, SearchAssumption
  <2>. QED BY <1>1, <2>2 DEF Aligned, SlotIndexes
<1>2. CASE ~packed
  <2>1. CASE i >= Selector
    <3>1. i - Selector \in Nat /\ i - Selector <= length
      BY <2>1, SearchAssumption
    <3>2. (i - Selector) % Word = 0 <=> \E n \in 0..length : i - Selector = n * Word
      BY <3>1, Multiples, SearchAssumption
    <3>3. ASSUME NEW n \in 0..length
          PROVE  i - Selector = n * Word <=> i = Selector + n * Word
      BY <3>1, SearchAssumption, SMTT(30)
    <3>4. i \in SlotIndexes <=> \E n \in 0..length : i = Selector + n * Word
      BY <1>2 DEF SlotIndexes
    <3>. QED BY <1>2, <2>1, <3>2, <3>3, <3>4 DEF Aligned
  <2>2. CASE ~(i >= Selector)
    <3>1. ASSUME NEW n \in 0..length PROVE i # Selector + n * Word
      <4>1. n * Word \in Nat
        BY SearchAssumption, SMTT(30)
      <4>. QED BY <2>2, <4>1, SearchAssumption, SMTT(30)
    <3>. QED BY <1>2, <2>2, <3>1 DEF Aligned, SlotIndexes
  <2>. QED BY <2>1, <2>2
<1>. QED BY <1>1, <1>2

(* A search begins with nothing behind it.                                 *)
LEMMA SearchStarts == SearchInit => SearchInv
<1>. SUFFICES ASSUME SearchInit PROVE SearchInv
  OBVIOUS
<1>1. SearchTypeOK
  <2>1. length \in Nat
    BY SearchAssumption DEF SearchInit
  <2>2. start = 0 /\ pos = 0 /\ negated = FALSE
    BY DEF SearchInit
  <2>3. outcome \in {"searching", "failed"}
    BY DEF SearchInit
  <2>4. start \in 0..(length + 1) /\ pos \in Nat
    BY <2>1, <2>2
  <2>5. negated \in BOOLEAN
    BY <2>2
  <2>. QED BY <2>3, <2>4, <2>5 DEF SearchInit, SearchTypeOK
<1>2. NoneBehind
  <2>1. start = 0 /\ negated = FALSE
    BY DEF SearchInit
  <2>2. 0..(start - 1) = {}
    BY <2>1
  <2>3. outcome = "searching" => Encodes(FALSE)
    BY DEF SearchInit
  <2>. QED BY <2>1, <2>2, <2>3, Zenon DEF NoneBehind
<1>3. FindsTheFirstSlot
  BY DEF SearchInit, FindsTheFirstSlot
<1>4. outcome = "failed" => amount >= Values
  BY SearchAssumption DEF SearchInit, Encodes, Sought, Values
<1>5. MissesOnlyWhatIsNotThere
  BY <1>4 DEF SearchInit, MissesOnlyWhatIsNotThere
<1>. QED BY <1>1, <1>2, <1>3, <1>5 DEF SearchInv

(* What a step does not touch.                                             *)
LEMMA SameInputs ==
    ASSUME UNCHANGED inputs
    PROVE  /\ Width' = Width /\ Values' = Values
           /\ SlotIndexes' = SlotIndexes
           /\ \A neg, i : Occurs(neg, i)' = Occurs(neg, i)
           /\ \A neg, i : IsSlotOf(neg, i)' = IsSlotOf(neg, i)
           /\ \A i : SlotPos(i)' = SlotPos(i)
           /\ \A neg : Encodes(neg)' = Encodes(neg)
<1>1. Width' = Width /\ Values' = Values /\ SlotIndexes' = SlotIndexes
  BY DEF inputs, Width, Values, SlotIndexes
<1>2. ASSUME NEW neg PROVE Sought(neg)' = Sought(neg)
  BY <1>1 DEF inputs, Sought
<1>3. ASSUME NEW neg PROVE Encodes(neg)' = Encodes(neg)
  BY <1>1, <1>2 DEF Encodes
<1>4. ASSUME NEW neg, NEW i PROVE Occurs(neg, i)' = Occurs(neg, i)
  BY <1>1, <1>2 DEF inputs, Occurs, DigitOf
<1>5. ASSUME NEW neg, NEW i PROVE IsSlotOf(neg, i)' = IsSlotOf(neg, i)
  BY <1>1, <1>4 DEF IsSlotOf
<1>6. ASSUME NEW i PROVE SlotPos(i)' = SlotPos(i)
  BY <1>1 DEF inputs, SlotPos
<1>. QED BY <1>1, <1>3, <1>4, <1>5, <1>6

-----------------------------------------------------------------------------
(* One lemma per step.                                                     *)

(* What the steps have in common: the inputs, and what they say.           *)
LEMMA SearchIsOfType ==
    ASSUME SearchInv
    PROVE  /\ length \in Nat /\ start \in 0..(length + 1)
           /\ negated \in BOOLEAN /\ packed \in BOOLEAN
           /\ Width \in Nat \ {0} /\ Values \in Nat \ {0}
           /\ amount \in Nat
<1>1. length \in Nat /\ amount \in Nat
  BY SearchAssumption DEF SearchInv, SearchTypeOK
<1>2. start \in 0..(length + 1) /\ negated \in BOOLEAN /\ packed \in BOOLEAN
  BY DEF SearchInv, SearchTypeOK
<1>3. Width \in Nat \ {0} /\ Values \in Nat \ {0}
  BY HalfWord, SearchAssumption DEF Width, Values
<1>. QED BY <1>1, <1>2, <1>3

(* An occurrence that is skipped is no slot, nor is there one before it.   *)
LEMMA SkipKeeps == SearchInv /\ Skip => SearchInv'
<1>. SUFFICES ASSUME SearchInv, Skip PROVE SearchInv'
  OBVIOUS
<1>1. UNCHANGED inputs /\ negated' = negated /\ outcome' = outcome /\ pos' = pos
  BY DEF Skip
<1>2. PICK i \in 0..length : IsNext(i) /\ ~Aligned(i) /\ start' = i + 1
  BY DEF Skip, Restart
<1>3. outcome = "searching"
  BY DEF Skip, Searching
<1>4. SearchTypeOK'
  <2>1. start' \in 0..(length + 1)
    BY <1>2, SearchIsOfType
  <2>. QED BY <1>1, <2>1 DEF SearchInv, SearchTypeOK, inputs
<1>5. \A j \in 0..i : ~IsSlotOf(negated, j)
  <2>1. ASSUME NEW j \in 0..(start - 1) PROVE ~IsSlotOf(negated, j)
    BY <1>3, <2>1 DEF SearchInv, NoneBehind
  <2>2. ASSUME NEW j \in start..(i - 1) PROVE ~IsSlotOf(negated, j)
    BY <1>2, <2>2 DEF IsNext, IsSlotOf
  <2>3. ~IsSlotOf(negated, i)
    BY <1>2, AlignedIsSlot, SearchIsOfType DEF IsSlotOf
  <2>4. ASSUME NEW j \in 0..i PROVE j \in 0..(start - 1) \/ j \in start..(i - 1) \/ j = i
    BY SearchIsOfType
  <2>. QED BY <2>1, <2>2, <2>3, <2>4
<1>6. NoneBehind'
  <2>1. 0..(start' - 1) = 0..i
    BY <1>2
  <2>2. length' = length
    BY <1>1 DEF inputs
  <2>. QED BY <1>1, <1>5, <2>1, <2>2, SameInputs DEF SearchInv, NoneBehind
<1>7. FindsTheFirstSlot' /\ MissesOnlyWhatIsNotThere'
  BY <1>1, <1>3 DEF FindsTheFirstSlot, MissesOnlyWhatIsNotThere
<1>. QED BY <1>4, <1>6, <1>7 DEF SearchInv

(* PositionsOfSlots are natural numbers.                                          *)
LEMMA PositionsOfSlots ==
    ASSUME SearchInv, NEW i \in 0..length
    PROVE  PosAbsent \in Nat /\ (HasSlot(i) => SlotPos(i) \in Nat)
<1>1. PosAbsent \in Nat
  <2>1. length + 2 \in Nat
    BY SearchIsOfType
  <2>. QED BY <2>1, SearchAssumption, SMTT(30) DEF PosAbsent
<1>2. ASSUME NEW m \in Nat, NEW n \in Nat, m >= n
      PROVE  (m \div Byte) \in Nat /\ (m \div Byte) - (n \div Byte) \in Nat
  BY <1>2, SearchAssumption, SMTT(30)
<1>3. i \in Nat /\ Width \in Nat
  BY SearchIsOfType
<1>4. HasSlot(i) => SlotPos(i) \in Nat
  BY <1>2, <1>3 DEF HasSlot, SlotPos
<1>. QED BY <1>1, <1>4

(* What is found is the first slot, or reaches back before the calldata.   *)
LEMMA FindKeeps == SearchInv /\ Find => SearchInv'
<1>. SUFFICES ASSUME SearchInv, Find PROVE SearchInv'
  OBVIOUS
<1>1. UNCHANGED inputs /\ negated' = negated /\ start' = start
  BY DEF Find
<1>2. PICK i \in 0..length :
        /\ IsNext(i) /\ Aligned(i)
        /\ outcome' = IF HasSlot(i) THEN "found" ELSE "absent"
        /\ pos' = IF HasSlot(i) THEN SlotPos(i) ELSE PosAbsent
  BY DEF Find
<1>3. outcome = "searching" /\ length' = length /\ packed' = packed
  BY <1>1 DEF Find, Searching, inputs
<1>4. IsSlotOf(negated, i)
  BY <1>2, AlignedIsSlot, SearchIsOfType DEF IsSlotOf, IsNext
<1>5. \A j \in 0..(i - 1) : ~IsSlotOf(negated, j)
  <2>1. ASSUME NEW j \in 0..(start - 1) PROVE ~IsSlotOf(negated, j)
    BY <1>3, <2>1 DEF SearchInv, NoneBehind
  <2>2. ASSUME NEW j \in start..(i - 1) PROVE ~IsSlotOf(negated, j)
    BY <1>2, <2>2 DEF IsNext, IsSlotOf
  <2>3. ASSUME NEW j \in 0..(i - 1) PROVE j \in 0..(start - 1) \/ j \in start..(i - 1)
    BY SearchIsOfType
  <2>. QED BY <2>1, <2>2, <2>3
<1>6. SearchTypeOK'
  <2>1. pos' \in Nat
    BY <1>2, PositionsOfSlots
  <2>2. outcome' \in {"found", "absent"}
    BY <1>2
  <2>. QED BY <1>1, <2>1, <2>2 DEF SearchInv, SearchTypeOK, inputs
<1>7. NoneBehind'
  <2>1. outcome' # "searching"
    BY <1>2
  <2>. QED BY <1>1, <1>3, <2>1, SameInputs DEF SearchInv, NoneBehind
<1>8. FindsTheFirstSlot'
  <2>1. outcome' = "found" => pos' = SlotPos(i)
    BY <1>2
  <2>2. negated => \A j \in 0..length : ~IsSlotOf(FALSE, j)
    BY DEF SearchInv, NoneBehind
  <2>. QED BY <1>1, <1>3, <1>4, <1>5, <2>1, <2>2, SameInputs DEF FindsTheFirstSlot
<1>9. MissesOnlyWhatIsNotThere'
  <2>1. outcome' # "failed"
    BY <1>2
  <2>2. outcome' = "absent" => packed /\ i \in 0..(Width - 1)
    BY <1>2, SearchIsOfType DEF HasSlot
  <2>. QED BY <1>1, <1>3, <1>4, <2>1, <2>2, SameInputs DEF MissesOnlyWhatIsNotThere
<1>. QED BY <1>6, <1>7, <1>8, <1>9 DEF SearchInv

(* Where no occurrence is left, there is no slot.                          *)
LEMMA NoSlotLeft ==
    ASSUME SearchInv, NoneLeft
    PROVE  \A j \in 0..length : ~IsSlotOf(negated, j)
<1>1. ASSUME NEW j \in 0..(start - 1) PROVE ~IsSlotOf(negated, j)
  BY <1>1 DEF SearchInv, NoneBehind, NoneLeft, Searching
<1>2. ASSUME NEW j \in start..length PROVE ~IsSlotOf(negated, j)
  BY <1>2 DEF NoneLeft, IsSlotOf
<1>3. ASSUME NEW j \in 0..length PROVE j \in 0..(start - 1) \/ j \in start..length
  BY SearchIsOfType
<1>. QED BY <1>1, <1>2, <1>3

(* The negation of an amount that fits is too wide only for zero.          *)
LEMMA NegateKeeps == SearchInv /\ Negate => SearchInv'
<1>. SUFFICES ASSUME SearchInv, Negate PROVE SearchInv'
  OBVIOUS
<1>1. UNCHANGED inputs /\ pos' = pos /\ negated' = TRUE /\ start' = 0 /\ negated = FALSE
  BY SearchIsOfType DEF Negate
<1>2. outcome' = IF Encodes(TRUE) THEN "searching" ELSE "failed"
  BY DEF Negate
<1>3. \A j \in 0..length : ~IsSlotOf(FALSE, j)
  BY <1>1, NoSlotLeft DEF Negate
<1>4. Encodes(FALSE) /\ length' = length /\ amount' = amount
  BY <1>1 DEF Negate, NoneLeft, Searching, SearchInv, NoneBehind, inputs
<1>5. SearchTypeOK'
  <2>1. start' \in 0..(length + 1)
    BY <1>1, SearchIsOfType
  <2>2. outcome' \in {"searching", "failed"}
    BY <1>2
  <2>3. negated' \in BOOLEAN
    BY <1>1
  <2>. QED BY <1>1, <2>1, <2>2, <2>3 DEF SearchInv, SearchTypeOK, inputs
<1>6. NoneBehind'
  <2>1. 0..(start' - 1) = {}
    BY <1>1
  <2>. QED BY <1>3, <1>4, <2>1, <1>1, SameInputs, Zenon DEF NoneBehind
<1>7. FindsTheFirstSlot'
  BY <1>2 DEF FindsTheFirstSlot
<1>8. MissesOnlyWhatIsNotThere'
  <2>1. ~Encodes(TRUE) => amount = 0
    BY <1>4, SearchIsOfType DEF Encodes, Sought
  <2>2. outcome' = "failed" => amount = 0
    BY <1>2, <2>1
  <2>3. outcome' # "absent"
    BY <1>2
  <2>. QED BY <1>1, <1>3, <1>4, <2>2, <2>3, SameInputs DEF MissesOnlyWhatIsNotThere
<1>. QED BY <1>5, <1>6, <1>7, <1>8 DEF SearchInv

(* A search for the negation that ends has searched for both.              *)
LEMMA MissKeeps == SearchInv /\ Miss => SearchInv'
<1>. SUFFICES ASSUME SearchInv, Miss PROVE SearchInv'
  OBVIOUS
<1>1. UNCHANGED inputs /\ negated' = negated /\ start' = start /\ negated = TRUE
  BY SearchIsOfType DEF Miss
<1>2. outcome' = "absent" /\ pos' = PosAbsent /\ length' = length
  BY <1>1 DEF Miss, inputs
<1>3. \A j \in 0..length : ~IsSlotOf(TRUE, j)
  BY <1>1, NoSlotLeft DEF Miss
<1>4. \A j \in 0..length : ~IsSlotOf(FALSE, j)
  BY <1>1 DEF SearchInv, NoneBehind
<1>5. SearchTypeOK'
  <2>1. 0 \in 0..length
    BY SearchIsOfType
  <2>2. pos' \in Nat
    BY <1>2, <2>1, PositionsOfSlots
  <2>. QED BY <1>1, <1>2, <2>2 DEF SearchInv, SearchTypeOK, inputs
<1>6. NoneBehind'
  BY <1>1, <1>2, <1>4, SameInputs DEF NoneBehind
<1>7. FindsTheFirstSlot' /\ MissesOnlyWhatIsNotThere'
  BY <1>1, <1>2, <1>3, <1>4, SameInputs DEF FindsTheFirstSlot, MissesOnlyWhatIsNotThere
<1>. QED BY <1>5, <1>6, <1>7 DEF SearchInv

(* A step that changes nothing.                                            *)
LEMMA RestKeeps == SearchInv /\ UNCHANGED searchVars => SearchInv'
<1>. SUFFICES ASSUME SearchInv, UNCHANGED searchVars PROVE SearchInv'
  OBVIOUS
<1>1. UNCHANGED inputs /\ negated' = negated /\ start' = start /\ outcome' = outcome /\ pos' = pos
  BY DEF searchVars, inputs
<1>2. length' = length /\ packed' = packed /\ amount' = amount
  BY <1>1 DEF inputs
<1>3. SearchTypeOK'
  BY <1>1 DEF SearchInv, SearchTypeOK, inputs
<1>4. NoneBehind'
  BY <1>1, <1>2, SameInputs DEF SearchInv, NoneBehind
<1>5. FindsTheFirstSlot'
  BY <1>1, <1>2, SameInputs DEF SearchInv, FindsTheFirstSlot
<1>6. MissesOnlyWhatIsNotThere'
  BY <1>1, <1>2, SameInputs DEF SearchInv, MissesOnlyWhatIsNotThere
<1>. QED BY <1>3, <1>4, <1>5, <1>6 DEF SearchInv

(* The invariant holds throughout a search.                                *)
THEOREM SearchInvariance == SearchSpec => []SearchInv
<1>1. SearchInv /\ [SearchNext]_searchVars => SearchInv'
  BY SkipKeeps, FindKeeps, NegateKeeps, MissKeeps, RestKeeps DEF SearchNext
<1>. QED BY SearchStarts, <1>1, PTL DEF SearchSpec

-----------------------------------------------------------------------------

(* Searches keep their types: positions that executors are told are        *)
(* numbers, never one before the calldata.                                 *)
THEOREM SearchIsTyped == SearchSpec => []SearchTypeOK
<1>1. SearchInv => SearchTypeOK
  BY DEF SearchInv
<1>. QED BY SearchInvariance, <1>1, PTL

(* The position found is that of the first slot with the amount, or of the *)
(* first one with its negation where the amount is nowhere.                *)
THEOREM SearchFindsTheFirstSlot == SearchSpec => []FindsTheFirstSlot
<1>1. SearchInv => FindsTheFirstSlot
  BY DEF SearchInv
<1>. QED BY SearchInvariance, <1>1, PTL

(* A search that finds nothing had nothing to find; it fails only for an   *)
(* amount that is too wide, or zero that is nowhere.                       *)
THEOREM SearchMissesNothing == SearchSpec => []MissesOnlyWhatIsNotThere
<1>1. SearchInv => MissesOnlyWhatIsNotThere
  BY DEF SearchInv
<1>. QED BY SearchInvariance, <1>1, PTL
=============================================================================
