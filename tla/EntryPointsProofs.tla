------------------------- MODULE EntryPointsProofs -------------------------
(***************************************************************************)
(* The ways to a transaction for every set of routes, fees and legs: what  *)
(* the encoders are told to take is covered, however it is shared out and  *)
(* however the shares are rounded; a direct build charges like another;    *)
(* the fee word reads back; and the legs that a caller brings meet their   *)
(* exchanges.                                                              *)
(*                                                                         *)
(* Sums over sets are functions that are defined by recursion over what is *)
(* left of the set; what holds of them is shown for a smallest             *)
(* counterexample, by well-founded induction (WFMin).                      *)
(***************************************************************************)
EXTENDS EntryPoints, TxBuilderProofs, FiniteSetTheorems, WellFoundedInduction

-----------------------------------------------------------------------------
(* Smallest counterexamples. *)

\* Of numbers there is a least one.
LEMMA LeastNumber ==
    ASSUME NEW Bad, Bad \subseteq Nat, Bad # {}
    PROVE  \E n \in Bad : \A m \in Bad : ~(m < n)
<1> DEFINE R == {ss \in Nat \X Nat : ss[1] < ss[2]}
<1>1. IsWellFoundedOn(R, Nat)
  BY NatLessThanWellFounded DEF OpToRel
<1> HIDE DEF R
<1>2. PICK n \in Bad : \A m \in Bad : ~(<<m, n>> \in R)
  BY <1>1, WFMin, Zenon
<1> QED
  BY <1>2 DEF R

\* Of subsets of a finite set there is one that contains no other.
LEMMA LeastSet ==
    ASSUME NEW S, IsFiniteSet(S), NEW Bad, Bad \subseteq SUBSET S, Bad # {}
    PROVE  \E T \in Bad : \A U \in Bad : U \subseteq T => U = T
<1> DEFINE Sizes == {Cardinality(T) : T \in Bad}
<1>1. \A T \in Bad : IsFiniteSet(T) /\ Cardinality(T) \in Nat
  BY FS_Subset, FS_CardinalityType
<1>2. PICK n \in Sizes : \A m \in Sizes : ~(m < n)
  <2>1. Sizes \subseteq Nat /\ Sizes # {}
    BY <1>1
  <2> HIDE DEF Sizes
  <2> QED
    BY <2>1, LeastNumber
<1>3. PICK T \in Bad : n = Cardinality(T)
  BY <1>2
<1>4. ASSUME NEW U \in Bad, U \subseteq T
      PROVE  U = T
  <2>1. Cardinality(U) <= Cardinality(T) /\ (Cardinality(T) = Cardinality(U) => T = U)
    BY <1>1, <1>4, FS_Subset
  <2>2. ~(Cardinality(U) < Cardinality(T))
    BY <1>2, <1>3
  <2> QED
    BY <1>1, <2>1, <2>2
<1> QED
  BY <1>3, <1>4

-----------------------------------------------------------------------------
(* Sums over finite sets. *)

PickOf(s) == CHOOSE x \in s : TRUE

\* What MapThenSumSet computes with, for a function.
AddsUp(sum, f, S) ==
    sum = [s \in SUBSET S |-> IF s = {} THEN 0 ELSE f[PickOf(s)] + sum[s \ {PickOf(s)}]]

\* There is such a function: there is one for sets of up to any size.
LEMMA SumExists ==
    ASSUME NEW S, IsFiniteSet(S), NEW f
    PROVE  \E sum : AddsUp(sum, f, S)
<1> DEFINE UpTo(n) == {s \in SUBSET S : Cardinality(s) <= n}
           Defines(sum, n) ==
              sum = [s \in UpTo(n) |->
                        IF s = {} THEN 0 ELSE f[PickOf(s)] + sum[s \ {PickOf(s)}]]
           Bad == {n \in Nat : ~ \E sum : Defines(sum, n)}
<1>1. \A s \in SUBSET S : IsFiniteSet(s) /\ Cardinality(s) \in Nat
  BY FS_Subset, FS_CardinalityType
<1>2. \A s \in SUBSET S : s # {} => /\ s \ {PickOf(s)} \in SUBSET S
                                    /\ Cardinality(s \ {PickOf(s)}) = Cardinality(s) - 1
  <2> TAKE s \in SUBSET S
  <2> HAVE s # {}
  <2>1. PickOf(s) \in s
    BY DEF PickOf
  <2> QED
    BY <1>1, <2>1, FS_RemoveElement
<1>3. Bad = {}
  <2> SUFFICES ASSUME Bad # {}
               PROVE  FALSE
    OBVIOUS
  <2>1. PICK n \in Bad : \A m \in Bad : ~(m < n)
    <3>1. Bad \subseteq Nat
      OBVIOUS
    <3> HIDE DEF Bad
    <3> QED
      BY <3>1, LeastNumber
  <2>2. CASE n = 0
    <3>1. \A s \in UpTo(0) : s = {}
      BY <1>1, FS_EmptySet
    <3>2. Defines([s \in UpTo(0) |-> 0], 0)
      BY <3>1
    <3> QED
      BY <2>2, <3>2
  <2>3. CASE n # 0
    <3>1. n - 1 \in Nat /\ n - 1 < n
      BY <2>3
    <3>2. PICK sum : Defines(sum, n - 1)
      BY <2>1, <3>1
    <3> DEFINE more == [s \in UpTo(n) |->
                          IF s = {} THEN 0 ELSE f[PickOf(s)] + sum[s \ {PickOf(s)}]]
    <3>3. \A s \in UpTo(n - 1) : sum[s] = more[s]
      <4>1. UpTo(n - 1) \subseteq UpTo(n)
        BY <1>1, <3>1
      <4>2. \A s \in UpTo(n - 1) :
              sum[s] = IF s = {} THEN 0 ELSE f[PickOf(s)] + sum[s \ {PickOf(s)}]
        <5> HIDE DEF UpTo
        <5> QED
          BY <3>2, Zenon
      <4> HIDE DEF UpTo
      <4> QED
        BY <4>1, <4>2
    <3>4. \A s \in UpTo(n) : s # {} => s \ {PickOf(s)} \in UpTo(n - 1)
      BY <1>1, <1>2
    <3>5. \A s \in UpTo(n) :
            more[s] = IF s = {} THEN 0 ELSE f[PickOf(s)] + more[s \ {PickOf(s)}]
      BY <3>3, <3>4
    <3>6. DOMAIN more = UpTo(n) /\ more = [s \in DOMAIN more |-> more[s]]
      OBVIOUS
    <3> HIDE DEF more, UpTo
    <3>7. Defines(more, n)
      BY <3>5, <3>6, Zenon
    <3> QED
      BY <2>1, <3>7, Zenon
  <2> QED
    BY <2>2, <2>3
<1>4. Cardinality(S) \in Nat /\ UpTo(Cardinality(S)) = SUBSET S
  BY FS_CardinalityType, FS_Subset
<1>5. PICK sum : Defines(sum, Cardinality(S))
  BY <1>3, <1>4
<1>6. AddsUp(sum, f, S)
  BY <1>4, <1>5 DEF AddsUp
<1> QED
  BY <1>6

\* One step of the recursion.
Unfolds(sum, f, S) ==
    \A s \in SUBSET S :
        /\ s = {} => sum[s] = 0
        /\ s # {} => /\ PickOf(s) \in s
                     /\ s \ {PickOf(s)} \in SUBSET S
                     /\ sum[s] = f[PickOf(s)] + sum[s \ {PickOf(s)}]

\* A function that adds up unfolds at every subset.
LEMMA SumStep ==
    ASSUME NEW S, NEW f, NEW sum, AddsUp(sum, f, S)
    PROVE  Unfolds(sum, f, S)
<1> SUFFICES ASSUME NEW s \in SUBSET S
             PROVE  /\ s = {} => sum[s] = 0
                    /\ s # {} => /\ PickOf(s) \in s
                                 /\ s \ {PickOf(s)} \in SUBSET S
                                 /\ sum[s] = f[PickOf(s)] + sum[s \ {PickOf(s)}]
  BY DEF Unfolds
<1>1. sum[s] = IF s = {} THEN 0 ELSE f[PickOf(s)] + sum[s \ {PickOf(s)}]
  BY Zenon DEF AddsUp
<1>2. s # {} => PickOf(s) \in s
  BY DEF PickOf
<1> QED
  BY <1>1, <1>2

\* A sum of naturals is a natural, no less than any of them.
LEMMA SumIsNat ==
    ASSUME NEW S, IsFiniteSet(S), NEW f, \A x \in S : f[x] \in Nat,
           NEW sum, AddsUp(sum, f, S)
    PROVE  \A s \in SUBSET S : sum[s] \in Nat /\ \A x \in s : f[x] <= sum[s]
<1> DEFINE Good(s) == sum[s] \in Nat /\ \A x \in s : f[x] <= sum[s]
           Bad == {s \in SUBSET S : ~Good(s)}
<1> SUFFICES ASSUME Bad # {}
             PROVE  FALSE
  OBVIOUS
<1>0. Unfolds(sum, f, S)
  BY SumStep, Zenon
<1>1. PICK s \in Bad : \A u \in Bad : u \subseteq s => u = s
  <2>1. Bad \subseteq SUBSET S
    OBVIOUS
  <2> HIDE DEF Bad
  <2> QED
    BY <2>1, LeastSet
<1>2. CASE s = {}
  <2>1. sum[s] = 0
    BY <1>2, <1>0 DEF Unfolds
  <2> QED
    BY <1>2, <2>1
<1>3. CASE s # {}
  <2> DEFINE rest == s \ {PickOf(s)}
  <2>1. PickOf(s) \in s /\ rest \in SUBSET S /\ sum[s] = f[PickOf(s)] + sum[rest]
    BY <1>3, <1>0 DEF Unfolds
  <2>2. Good(rest)
    BY <1>1, <2>1
  <2>3. f[PickOf(s)] \in Nat
    BY <2>1
  <2>4. \A x \in s : x = PickOf(s) \/ x \in rest
    OBVIOUS
  <2> HIDE DEF rest
  <2>5. \A x \in s : f[x] \in Nat
    OBVIOUS
  <2>6. Good(s)
    BY <2>1, <2>2, <2>3, <2>4, <2>5
  <2> QED
    BY <2>6
<1> QED
  BY <1>2, <1>3

\* Whichever is taken first, the sum is the same.
TakesAny(sum, f, S) == \A s \in SUBSET S : \A x \in s : sum[s] = f[x] + sum[s \ {x}]

\* The sum does not depend on the element taken first: were there a set for which
\* it did, a smallest one would contradict itself.
LEMMA SumTakesAny ==
    ASSUME NEW S, IsFiniteSet(S), NEW f, \A x \in S : f[x] \in Nat,
           NEW sum, AddsUp(sum, f, S)
    PROVE  TakesAny(sum, f, S)
<1> DEFINE Good(s) == \A x \in s : sum[s] = f[x] + sum[s \ {x}]
           Bad == {s \in SUBSET S : ~Good(s)}
<1> SUFFICES ASSUME Bad # {}
             PROVE  FALSE
  BY DEF TakesAny
<1>0. Unfolds(sum, f, S)
  BY SumStep, Zenon
<1>1. PICK s \in Bad : \A u \in Bad : u \subseteq s => u = s
  <2>1. Bad \subseteq SUBSET S
    OBVIOUS
  <2> HIDE DEF Bad
  <2> QED
    BY <2>1, LeastSet
<1>2. PICK x \in s : sum[s] # f[x] + sum[s \ {x}]
  BY <1>1
<1> DEFINE c == PickOf(s)
<1>3. c \in s /\ sum[s] = f[c] + sum[s \ {c}]
  BY <1>2, <1>0 DEF Unfolds
<1>4. x # c
  BY <1>2, <1>3
<1>5. \A y \in s : s \ {y} \in SUBSET S /\ Good(s \ {y})
  BY <1>1
<1>6. sum[s \ {c}] = f[x] + sum[(s \ {c}) \ {x}]
  BY <1>3, <1>4, <1>5
<1>7. sum[s \ {x}] = f[c] + sum[(s \ {x}) \ {c}]
  BY <1>3, <1>4, <1>5
<1>8. (s \ {c}) \ {x} = (s \ {x}) \ {c}
  OBVIOUS
<1>9. sum[(s \ {c}) \ {x}] \in Nat /\ f[x] \in Nat /\ f[c] \in Nat
  <2>1. (s \ {c}) \ {x} \in SUBSET S
    OBVIOUS
  <2> QED
    BY <2>1, <1>3, SumIsNat
<1> DEFINE rest == sum[(s \ {c}) \ {x}]
<1>10. sum[s] = f[c] + (f[x] + rest)
  BY <1>3, <1>6
<1>11. sum[s \ {x}] = f[c] + rest
  BY <1>7, <1>8
<1> HIDE DEF c, rest
<1>12. rest \in Nat /\ f[x] \in Nat /\ f[c] \in Nat
  BY <1>9 DEF rest
<1>13. f[c] + (f[x] + rest) = f[x] + (f[c] + rest)
  BY <1>12
<1> QED
  BY <1>2, <1>10, <1>11, <1>13

\* Parts that are scaled by m over d and rounded down do not come to more than their
\* sum that is scaled so.
LEMMA ScaledSum ==
    ASSUME NEW S, IsFiniteSet(S), NEW f, NEW g,
           \A x \in S : f[x] \in Nat /\ g[x] \in Nat,
           NEW m \in Nat, NEW d \in Nat, \A x \in S : g[x] * d <= f[x] * m,
           NEW sumF, AddsUp(sumF, f, S), NEW sumG, AddsUp(sumG, g, S)
    PROVE  sumG[S] * d <= sumF[S] * m
<1> DEFINE Good(s) == sumG[s] * d <= sumF[s] * m
           Bad == {s \in SUBSET S : ~Good(s)}
<1> SUFFICES ASSUME Bad # {}
             PROVE  FALSE
  OBVIOUS
<1>0. Unfolds(sumF, f, S) /\ Unfolds(sumG, g, S)
  BY SumStep, Zenon
<1>1. PICK s \in Bad : \A u \in Bad : u \subseteq s => u = s
  <2>1. Bad \subseteq SUBSET S
    OBVIOUS
  <2> HIDE DEF Bad
  <2> QED
    BY <2>1, LeastSet
<1>2. CASE s = {}
  <2>1. sumF[s] = 0
    BY <1>2, <1>0 DEF Unfolds
  <2>2. sumG[s] = 0
    BY <1>2, <1>0 DEF Unfolds
  <2> QED
    BY <2>1, <2>2
<1>3. CASE s # {}
  <2> DEFINE x == PickOf(s)
             rest == s \ {x}
  <2>0. s \in SUBSET S
    OBVIOUS
  <2>1. x \in s /\ rest \in SUBSET S
    BY <1>3, <1>0 DEF Unfolds
  <2>2. sumF[s] = f[x] + sumF[rest] /\ sumG[s] = g[x] + sumG[rest]
    BY <1>3, <2>0, <1>0 DEF Unfolds
  <2>3. sumG[rest] * d <= sumF[rest] * m
    BY <1>1, <2>1
  <2>4. sumF[rest] \in Nat /\ sumG[rest] \in Nat
    BY <2>1, SumIsNat
  <2>5. f[x] \in Nat /\ g[x] \in Nat /\ g[x] * d <= f[x] * m
    BY <2>1
  <2> HIDE DEF x, rest
  <2>6. \A p, q, a, b \in Nat :
           q * d <= p * m /\ b * d <= a * m => (b + q) * d <= (a + p) * m
    BY SMT
  <2>7. Good(s)
    BY <2>2, <2>3, <2>4, <2>5, <2>6
  <2> QED
    BY <2>7
<1> QED
  BY <1>2, <1>3

-----------------------------------------------------------------------------
(* What the first swaps share. *)

\* A list has finitely many members.
LEMMA ListIsFinite ==
    ASSUME NEW n \in Nat, NEW f
    PROVE  IsFiniteSet({f[k] : k \in 1..n})
<1> DEFINE g == [k \in 1..n |-> f[k]]
           T == {f[k] : k \in 1..n}
<1>1. g \in Surjection(1..n, T)
  BY DEF Surjection
<1>2. IsFiniteSet(1..n)
  BY FS_Interval
<1> HIDE DEF g, T
<1>3. IsFiniteSet(T)
  BY <1>1, <1>2, FS_Surjection
<1> QED
  BY <1>3 DEF T

\* So has a route plan.
LEMMA PositionsAreFinite ==
    ASSUME NEW r, IsRoutePlan(r)
    PROVE  IsFiniteSet(Positions(r)) /\ IsFiniteSet(FirstPositions(r))
<1> DEFINE OfSwap(i, j) == {<<i, j, k>> : k \in DOMAIN r.paths[i].swaps[j].exchanges}
           OfPath(i) == UNION {OfSwap(i, j) : j \in DOMAIN r.paths[i].swaps}
<1>1. ASSUME NEW i \in DOMAIN r.paths, NEW j \in DOMAIN r.paths[i].swaps
      PROVE  IsFiniteSet(OfSwap(i, j))
  <2> DEFINE es == r.paths[i].swaps[j].exchanges
             f == [k \in 1..Len(es) |-> <<i, j, k>>]
  <2>1. Len(es) \in Nat /\ DOMAIN es = 1..Len(es)
    BY DEF IsRoutePlan, IsList
  <2>2. OfSwap(i, j) = {f[k] : k \in 1..Len(es)}
    BY <2>1
  <2> HIDE DEF OfSwap, f, es
  <2> QED
    BY <2>1, <2>2, ListIsFinite
<1>2. ASSUME NEW i \in DOMAIN r.paths
      PROVE  IsFiniteSet(OfPath(i))
  <2> DEFINE ss == r.paths[i].swaps
             f == [j \in 1..Len(ss) |-> OfSwap(i, j)]
             sets == {f[j] : j \in 1..Len(ss)}
  <2>1. Len(ss) \in Nat /\ DOMAIN ss = 1..Len(ss)
    BY DEF IsRoutePlan, IsList
  <2>2. IsFiniteSet(sets)
    <3> HIDE DEF f, ss
    <3> QED
      BY <2>1, ListIsFinite
  <2>3. \A T \in sets : IsFiniteSet(T)
    <3> HIDE DEF OfSwap
    <3> QED
      BY <1>1, <2>1
  <2>4. OfPath(i) = UNION sets
    <3> HIDE DEF OfSwap
    <3> QED
      BY <2>1
  <2> HIDE DEF OfPath, sets
  <2> QED
    BY <2>2, <2>3, <2>4, FS_UNION
<1>3. IsFiniteSet(Positions(r))
  <2> DEFINE ps == r.paths
             f == [i \in 1..Len(ps) |-> OfPath(i)]
             sets == {f[i] : i \in 1..Len(ps)}
  <2>1. Len(ps) \in Nat /\ DOMAIN ps = 1..Len(ps)
    BY DEF IsRoutePlan, IsList
  <2>2. IsFiniteSet(sets)
    <3> HIDE DEF f, ps
    <3> QED
      BY <2>1, ListIsFinite
  <2>3. \A T \in sets : IsFiniteSet(T)
    <3> HIDE DEF OfPath
    <3> QED
      BY <1>2, <2>1
  <2>4. Positions(r) = UNION {OfPath(i) : i \in DOMAIN ps}
    BY Zenon DEF Positions
  <2>5. Positions(r) = UNION sets
    <3> HIDE DEF OfPath
    <3> QED
      BY <2>1, <2>4
  <2> HIDE DEF sets
  <2> QED
    BY <2>2, <2>3, <2>5, FS_UNION
<1> QED
  BY <1>3, FS_Subset DEF FirstPositions

\* The share of an exchange, and what all sell.
Share(r) == [pos \in FirstPositions(r) |-> Quote(r, <<pos, "primary">>).src]

\* The first positions of a route together sell what the route sells.
LEMMA SharesSum ==
    ASSUME NEW r \in Routes
    PROVE  \E sum : /\ AddsUp(sum, Share(r), FirstPositions(r))
                    /\ sum[FirstPositions(r)] = r.srcAmount
<1> DEFINE S == FirstPositions(r)
           q(pos) == Quote(r, <<pos, "primary">>).src
           Fits(sum) == sum = [s \in SUBSET S |->
                                IF s = {} THEN 0
                                ELSE q(CHOOSE x \in s : TRUE) + sum[s \ {CHOOSE x \in s : TRUE}]]
           it == CHOOSE sum : Fits(sum)
<1>1. IsFiniteSet(S)
  BY PositionsAreFinite, TransactionAssumption
<1>2. r.srcAmount = it[S]
  BY TransactionAssumption DEF SharesAddUp, MapThenSumSet, MapThenFoldSet
<1>3. \A x \in S : q(x) = Share(r)[x]
  BY DEF Share
<1> HIDE DEF q, S
<1>4. ASSUME NEW sum
      PROVE  Fits(sum) <=> AddsUp(sum, Share(r), S)
  <2>1. \A s \in SUBSET S : s # {} => q(CHOOSE x \in s : TRUE) = Share(r)[PickOf(s)]
    BY <1>3 DEF PickOf
  <2>2. [s \in SUBSET S |->
            IF s = {} THEN 0
            ELSE q(CHOOSE x \in s : TRUE) + sum[s \ {CHOOSE x \in s : TRUE}]]
        = [s \in SUBSET S |->
            IF s = {} THEN 0 ELSE Share(r)[PickOf(s)] + sum[s \ {PickOf(s)}]]
    BY <2>1 DEF PickOf
  <2> QED
    BY <2>2 DEF AddsUp
<1> HIDE DEF Fits
<1>5. \E sum : Fits(sum)
  BY <1>1, <1>4, SumExists, Zenon
<1>6. Fits(it)
  BY <1>5
<1> QED
  BY <1>2, <1>4, <1>6 DEF S

\* A first position's share is positive and at most what the route sells.
LEMMA ShareFacts ==
    ASSUME NEW r \in Routes, NEW pos \in FirstPositions(r)
    PROVE  /\ pos \in Positions(r) /\ pos[2] = 1
           /\ <<pos, "primary">> \in Legs(r)
           /\ Share(r)[pos] = Quote(r, <<pos, "primary">>).src
           /\ Share(r)[pos] \in Nat \ {0}
           /\ Share(r)[pos] <= r.srcAmount
<1>1. pos \in Positions(r) /\ pos[2] = 1
  BY DEF FirstPositions
<1>2. <<pos, "primary">> \in Legs(r)
  BY <1>1, BuilderAssumption DEF WellFormed
<1>3. \A p \in FirstPositions(r) : Share(r)[p] \in Nat
  <2> SUFFICES ASSUME NEW p \in FirstPositions(r)
               PROVE  Quote(r, <<p, "primary">>).src \in Nat
    BY DEF Share
  <2>1. <<p, "primary">> \in Legs(r)
    BY BuilderAssumption DEF WellFormed, FirstPositions
  <2> QED
    BY <2>1, LegShape
<1>4. Share(r)[pos] = Quote(r, <<pos, "primary">>).src
  BY DEF Share
<1>5. Share(r)[pos] \in Nat \ {0}
  BY <1>2, <1>4, LegShape
<1>6. IsFiniteSet(FirstPositions(r))
  BY PositionsAreFinite, TransactionAssumption
<1>7. PICK sum : /\ AddsUp(sum, Share(r), FirstPositions(r))
                 /\ sum[FirstPositions(r)] = r.srcAmount
  BY SharesSum
<1>8. Share(r)[pos] <= sum[FirstPositions(r)]
  <2>1. \A s \in SUBSET FirstPositions(r) :
            sum[s] \in Nat /\ \A x \in s : Share(r)[x] <= sum[s]
    BY <1>3, <1>6, <1>7, SumIsNat, Zenon
  <2> QED
    BY <2>1
<1> QED
  BY <1>1, <1>2, <1>4, <1>5, <1>7, <1>8

\* An exchange and its fallback are told to take the same.
LEMMA TakenByEither ==
    ASSUME route \in Routes, NEW pos \in FirstPositions(route),
           SrcAmount(route, <<pos, "primary">>) \in Nat
    PROVE  Taken(pos) = SrcAmount(route, <<pos, "primary">>)
<1> DEFINE v == SrcAmount(route, <<pos, "primary">>)
           amounts == {SrcAmount(route, <<pos, b>>) : b \in DOMAIN Exchange(route, pos).quotes}
<1>1. pos \in Positions(route) /\ <<pos, "primary">> \in Legs(route)
  BY ShareFacts
<1>2. "primary" \in DOMAIN Exchange(route, pos).quotes
  <2>1. PICK p \in Positions(route) :
          <<pos, "primary">> \in {<<p, b>> : b \in DOMAIN Exchange(route, p).quotes}
    BY <1>1 DEF Legs
  <2> QED
    BY <2>1
<1>3. ASSUME NEW b \in DOMAIN Exchange(route, pos).quotes
      PROVE  SrcAmount(route, <<pos, b>>) = v
  <2>1. <<pos, b>> \in Legs(route)
    BY <1>1 DEF Legs
  <2>2. Quote(route, <<pos, b>>).src = Quote(route, <<pos, "primary">>).src
    BY <2>1, TransactionAssumption DEF SharesAddUp, PrimaryOf
  <2> QED
    BY <2>2 DEF SrcAmount
<1>4. amounts = {v}
  <2> HIDE DEF v
  <2>1. \A x \in amounts : x = v
    BY <1>3
  <2>2. v \in amounts
    BY <1>2 DEF v
  <2> QED
    BY <2>1, <2>2
<1>5. Taken(pos) = Max({v})
  BY <1>4 DEF Taken
<1>6. v \in Nat
  OBVIOUS
<1> HIDE DEF v
<1>7. Max({v}) = v
  BY <1>6 DEF Max
<1> QED
  BY <1>5, <1>7 DEF v

\* What the encoders of the first swaps are told to take, in all.
TakenShare == [pos \in FirstPositions(route) |-> Taken(pos)]

\* The sum that SharesAreCovered takes is one that adds up.
LEMMA TakenSum ==
    ASSUME route \in Routes
    PROVE  \E sum : /\ AddsUp(sum, TakenShare, FirstPositions(route))
                    /\ sum[FirstPositions(route)] = MapThenSumSet(Taken, FirstPositions(route))
<1> DEFINE S == FirstPositions(route)
           Fits(sum) == sum = [s \in SUBSET S |->
                                IF s = {} THEN 0
                                ELSE Taken(CHOOSE x \in s : TRUE)
                                     + sum[s \ {CHOOSE x \in s : TRUE}]]
           it == CHOOSE sum : Fits(sum)
<1>1. IsFiniteSet(S)
  BY PositionsAreFinite, TransactionAssumption
<1>2. MapThenSumSet(Taken, S) = it[S]
  BY DEF MapThenSumSet, MapThenFoldSet
<1>3. \A x \in S : Taken(x) = TakenShare[x]
  BY DEF TakenShare
<1> HIDE DEF S
<1>4. ASSUME NEW sum
      PROVE  Fits(sum) <=> AddsUp(sum, TakenShare, S)
  <2>1. \A s \in SUBSET S : s # {} => Taken(CHOOSE x \in s : TRUE) = TakenShare[PickOf(s)]
    BY <1>3 DEF PickOf
  <2>2. [s \in SUBSET S |->
            IF s = {} THEN 0
            ELSE Taken(CHOOSE x \in s : TRUE) + sum[s \ {CHOOSE x \in s : TRUE}]]
        = [s \in SUBSET S |->
            IF s = {} THEN 0 ELSE TakenShare[PickOf(s)] + sum[s \ {PickOf(s)}]]
    BY <2>1 DEF PickOf
  <2> QED
    BY <2>2 DEF AddsUp
<1> HIDE DEF Fits
<1>5. \E sum : Fits(sum)
  BY <1>1, <1>4, SumExists, Zenon
<1>6. Fits(it)
  BY <1>5
<1> QED
  BY <1>2, <1>4, <1>6 DEF S

\* However the shares of a BUY round when they are scaled, they do not come to more
\* than the most that the user allows.
LEMMA TakenIsCovered ==
    ASSUME route \in Routes
    PROVE  MapThenSumSet(Taken, FirstPositions(route)) <= FromAmount(route)
<1> DEFINE S == FirstPositions(route)
           d == IF route.side = "BUY" THEN route.srcAmount ELSE 1
           m == IF route.side = "BUY" THEN route.minMax ELSE 1
<1>1. IsFiniteSet(S)
  BY PositionsAreFinite, TransactionAssumption
<1>2. route.srcAmount \in Nat /\ route.minMax \in Nat /\ route.side \in {"SELL", "BUY"}
  BY BuilderAssumption DEF WellFormed
<1>3. PICK sumF : AddsUp(sumF, Share(route), S) /\ sumF[S] = route.srcAmount
  BY SharesSum
<1>4. PICK sumG : AddsUp(sumG, TakenShare, S) /\ sumG[S] = MapThenSumSet(Taken, S)
  BY TakenSum
<1>5. ASSUME NEW pos \in S
      PROVE  /\ Share(route)[pos] \in Nat /\ TakenShare[pos] \in Nat
             /\ TakenShare[pos] * d <= Share(route)[pos] * m
             /\ route.srcAmount > 0
  <2> DEFINE a == Share(route)[pos]
  <2>1. a \in Nat \ {0} /\ a <= route.srcAmount /\ pos[2] = 1
        /\ a = Quote(route, <<pos, "primary">>).src
    BY ShareFacts
  <2>2. SrcAmount(route, <<pos, "primary">>) =
            IF route.side = "BUY" THEN (a * route.minMax) \div route.srcAmount ELSE a
    BY <2>1 DEF SrcAmount
  <2> HIDE DEF a
  <2>3. route.srcAmount > 0
    BY <1>2, <2>1
  <2>4. \A x \in Nat, y \in Nat \ {0} : x \div y \in Nat /\ (x \div y) * y <= x
    BY SMT
  <2>5. a * route.minMax \in Nat
    BY <1>2, <2>1, SMT
  <2>6. SrcAmount(route, <<pos, "primary">>) \in Nat
    BY <1>2, <2>1, <2>2, <2>3, <2>4, <2>5
  <2>7. TakenShare[pos] = SrcAmount(route, <<pos, "primary">>)
    BY <2>6, TakenByEither DEF TakenShare
  <2>8. TakenShare[pos] * d <= a * m
    <3>1. CASE route.side = "BUY"
      BY <1>2, <2>2, <2>3, <2>4, <2>5, <2>7, <3>1
    <3>2. CASE route.side # "BUY"
      BY <2>1, <2>2, <2>7, <3>2
    <3> QED
      BY <3>1, <3>2
  <2> QED
    BY <2>1, <2>3, <2>6, <2>7, <2>8 DEF a
<1>6. d \in Nat /\ m \in Nat
  BY <1>2
<1> HIDE DEF d, m
<1>7. sumG[S] * d <= sumF[S] * m
  <2> HIDE DEF S
  <2> QED
    BY <1>1, <1>3, <1>4, <1>5, <1>6, ScaledSum, Zenon
<1>8. sumG[S] \in Nat
  BY <1>1, <1>4, <1>5, SumIsNat, Zenon
<1>9. CASE S = {}
  <2>1. sumG[S] = 0
    BY <1>4, <1>9, SumStep DEF Unfolds
  <2> QED
    BY <1>2, <1>4, <2>1 DEF FromAmount
<1>10. CASE S # {}
  <2>1. route.srcAmount > 0
    BY <1>5, <1>10
  <2>2. CASE route.side = "BUY"
    <3>1. d = route.srcAmount /\ m = route.minMax /\ FromAmount(route) = route.minMax
      BY <2>2 DEF d, m, FromAmount
    <3>2. \A x, y, z \in Nat : z > 0 /\ x * z <= z * y => x <= y
      BY SMT
    <3> QED
      BY <1>2, <1>3, <1>4, <1>7, <1>8, <2>1, <3>1, <3>2
  <2>3. CASE route.side = "SELL"
    <3>1. d = 1 /\ m = 1 /\ FromAmount(route) = route.srcAmount
      BY <2>3 DEF d, m, FromAmount
    <3> QED
      BY <1>2, <1>3, <1>4, <1>7, <1>8, <3>1
  <2> QED
    BY <1>2, <2>2, <2>3
<1> QED
  BY <1>9, <1>10

-----------------------------------------------------------------------------
(* The fee word. *)

\* The bits that a percentage may have.
Weight == [b \in 0..13 |-> 2^b]

\* The weights are the powers of two.
LEMMA Weights ==
    /\ \A b \in 0..13 : Weight[b] = 2^b /\ Weight[b] \in Nat \ {0}
    /\ Weight[0] = 1
    /\ Weight[1] = 2
    /\ Weight[2] = 4
    /\ Weight[3] = 8
    /\ Weight[4] = 16
    /\ Weight[5] = 32
    /\ Weight[6] = 64
    /\ Weight[7] = 128
    /\ Weight[8] = 256
    /\ Weight[9] = 512
    /\ Weight[10] = 1024
    /\ Weight[11] = 2048
    /\ Weight[12] = 4096
    /\ Weight[13] = 8192
<1>1. /\ 2^0 = 1 /\ 2^1 = 2 /\ 2^2 = 4 /\ 2^3 = 8 /\ 2^4 = 16
      /\ 2^5 = 32 /\ 2^6 = 64 /\ 2^7 = 128 /\ 2^8 = 256 /\ 2^9 = 512
      /\ 2^10 = 1024 /\ 2^11 = 2048 /\ 2^12 = 4096 /\ 2^13 = 8192
  BY SMT
<1>2. \A b \in 0..13 : b \in {0, 1, 2, 3, 4, 5, 6, 7, 8, 9, 10, 11, 12, 13}
  BY SMT
<1>3. \A b \in 0..13 : Weight[b] = 2^b
  BY DEF Weight
<1> QED
  BY <1>1, <1>2, <1>3

\* Any set of such bits is finite.
LEMMA BitsAreFinite ==
    ASSUME NEW B, B \subseteq 0..13
    PROVE  IsFiniteSet(B)
<1>1. 0 \in Int /\ 13 \in Int
  OBVIOUS
<1>2. IsFiniteSet(0..13)
  BY <1>1, FS_Interval, Zenon
<1> QED
  BY <1>2, FS_Subset

\* What MapThenSumSet reads.
LEMMA BitsSum ==
    ASSUME NEW B, B \subseteq 0..13
    PROVE  \E sum : AddsUp(sum, Weight, B) /\ sum[B] = MapThenSumSet(LAMBDA b : 2^b, B)
<1> DEFINE Fits(sum) == sum = [s \in SUBSET B |->
                                IF s = {} THEN 0
                                ELSE 2^(CHOOSE x \in s : TRUE) + sum[s \ {CHOOSE x \in s : TRUE}]]
           it == CHOOSE sum : Fits(sum)
<1>1. IsFiniteSet(B)
  BY BitsAreFinite
<1>2. MapThenSumSet(LAMBDA b : 2^b, B) = it[B]
  BY DEF MapThenSumSet, MapThenFoldSet
<1>3. \A x \in B : 2^x = Weight[x]
  BY DEF Weight
<1>4. ASSUME NEW sum
      PROVE  Fits(sum) <=> AddsUp(sum, Weight, B)
  <2>1. \A s \in SUBSET B : s # {} => 2^(CHOOSE x \in s : TRUE) = Weight[PickOf(s)]
    BY <1>3 DEF PickOf
  <2>2. [s \in SUBSET B |->
            IF s = {} THEN 0
            ELSE 2^(CHOOSE x \in s : TRUE) + sum[s \ {CHOOSE x \in s : TRUE}]]
        = [s \in SUBSET B |->
            IF s = {} THEN 0 ELSE Weight[PickOf(s)] + sum[s \ {PickOf(s)}]]
    BY <2>1 DEF PickOf
  <2> QED
    BY <2>2 DEF AddsUp
<1> HIDE DEF Fits
<1>5. \E sum : Fits(sum)
  BY <1>1, <1>4, SumExists, Zenon
<1>6. Fits(it)
  BY <1>5
<1> QED
  BY <1>2, <1>4, <1>6

Bit(B, b) == IF b \in B THEN Weight[b] ELSE 0

\* Bit by bit, from the highest.
LEMMA SumBitByBit ==
    ASSUME NEW B, B \subseteq 0..13, NEW sum, AddsUp(sum, Weight, B), NEW k \in 0..13
    PROVE  /\ sum[B \intersect (0..k)] = Bit(B, k) + sum[B \intersect (0..(k - 1))]
           /\ sum[B \intersect (0..(k - 1))] \in Nat
<1> DEFINE upTo == B \intersect (0..k)
           below == B \intersect (0..(k - 1))
<1>1. IsFiniteSet(B)
  BY BitsAreFinite
<1>2. \A x \in B : Weight[x] \in Nat
  BY Weights
<1>3. upTo \in SUBSET B /\ below \in SUBSET B
  OBVIOUS
<1>4. \A s \in SUBSET B : sum[s] \in Nat
  BY <1>1, <1>2, SumIsNat, Zenon
<1>5. CASE k \in B
  <2>1. k \in upTo /\ upTo \ {k} = below
    BY <1>5
  <2>2. TakesAny(sum, Weight, B)
    BY <1>1, <1>2, SumTakesAny, Zenon
  <2> HIDE DEF upTo, below
  <2>3. sum[upTo] = Weight[k] + sum[below]
    BY <1>3, <2>1, <2>2 DEF TakesAny
  <2> QED
    BY <1>3, <1>4, <1>5, <2>3 DEF Bit, upTo, below
<1>6. CASE k \notin B
  <2>1. upTo = below
    BY <1>6
  <2> HIDE DEF upTo, below
  <2>2. sum[upTo] = 0 + sum[below] /\ sum[below] \in Nat
    BY <1>3, <1>4, <2>1
  <2>3. Bit(B, k) = 0
    BY <1>6 DEF Bit
  <2> QED
    BY <2>2, <2>3 DEF upTo, below
<1> QED
  BY <1>5, <1>6

\* All together.
LEMMA BitsRead ==
    ASSUME NEW B, B \subseteq 0..13
    PROVE  MapThenSumSet(LAMBDA b : 2^b, B) =
             (Bit(B, 0) + Bit(B, 1) + Bit(B, 2) + Bit(B, 3) + Bit(B, 4))
             + (Bit(B, 5) + Bit(B, 6) + Bit(B, 7) + Bit(B, 8) + Bit(B, 9))
             + (Bit(B, 10) + Bit(B, 11) + Bit(B, 12) + Bit(B, 13))
<1>1. PICK sum : AddsUp(sum, Weight, B) /\ sum[B] = MapThenSumSet(LAMBDA b : 2^b, B)
  BY BitsSum
<1> DEFINE Upto(k) == sum[B \intersect (0..k)]
<1>2. \A k \in 0..13 : Upto(k) = Bit(B, k) + Upto(k - 1) /\ Upto(k - 1) \in Nat
  BY <1>1, SumBitByBit
<1>3. Upto(13) = sum[B] /\ Upto(0 - 1) = 0
  <2>1. B \intersect (0..13) = B
    OBVIOUS
  <2>2. B \intersect (0..(0 - 1)) = {}
    BY SMT
  <2>3. Unfolds(sum, Weight, B)
    BY <1>1, SumStep, Zenon
  <2>4. sum[{}] = 0
    BY <2>3 DEF Unfolds
  <2> QED
    BY <2>1, <2>2, <2>4
<1> HIDE DEF Upto
<1>4. \A k \in 0..13 : Bit(B, k) \in Nat
  BY Weights DEF Bit
<1>5. Upto(0) = Bit(B, 0) + Upto(0 - 1) /\ Upto(0 - 1) \in Nat /\ Bit(B, 0) \in Nat
  BY <1>2, <1>4
<1>6. Upto(1) = Bit(B, 1) + Upto(1 - 1) /\ Upto(1 - 1) \in Nat /\ Bit(B, 1) \in Nat
  BY <1>2, <1>4
<1>7. Upto(2) = Bit(B, 2) + Upto(2 - 1) /\ Upto(2 - 1) \in Nat /\ Bit(B, 2) \in Nat
  BY <1>2, <1>4
<1>8. Upto(3) = Bit(B, 3) + Upto(3 - 1) /\ Upto(3 - 1) \in Nat /\ Bit(B, 3) \in Nat
  BY <1>2, <1>4
<1>9. Upto(4) = Bit(B, 4) + Upto(4 - 1) /\ Upto(4 - 1) \in Nat /\ Bit(B, 4) \in Nat
  BY <1>2, <1>4
<1>10. Upto(5) = Bit(B, 5) + Upto(5 - 1) /\ Upto(5 - 1) \in Nat /\ Bit(B, 5) \in Nat
  BY <1>2, <1>4
<1>11. Upto(6) = Bit(B, 6) + Upto(6 - 1) /\ Upto(6 - 1) \in Nat /\ Bit(B, 6) \in Nat
  BY <1>2, <1>4
<1>12. Upto(7) = Bit(B, 7) + Upto(7 - 1) /\ Upto(7 - 1) \in Nat /\ Bit(B, 7) \in Nat
  BY <1>2, <1>4
<1>13. Upto(8) = Bit(B, 8) + Upto(8 - 1) /\ Upto(8 - 1) \in Nat /\ Bit(B, 8) \in Nat
  BY <1>2, <1>4
<1>14. Upto(9) = Bit(B, 9) + Upto(9 - 1) /\ Upto(9 - 1) \in Nat /\ Bit(B, 9) \in Nat
  BY <1>2, <1>4
<1>15. Upto(10) = Bit(B, 10) + Upto(10 - 1) /\ Upto(10 - 1) \in Nat /\ Bit(B, 10) \in Nat
  BY <1>2, <1>4
<1>16. Upto(11) = Bit(B, 11) + Upto(11 - 1) /\ Upto(11 - 1) \in Nat /\ Bit(B, 11) \in Nat
  BY <1>2, <1>4
<1>17. Upto(12) = Bit(B, 12) + Upto(12 - 1) /\ Upto(12 - 1) \in Nat /\ Bit(B, 12) \in Nat
  BY <1>2, <1>4
<1>18. Upto(13) = Bit(B, 13) + Upto(13 - 1) /\ Upto(13 - 1) \in Nat /\ Bit(B, 13) \in Nat
  BY <1>2, <1>4
<1>19. sum[B] =
             (Bit(B, 0) + Bit(B, 1) + Bit(B, 2) + Bit(B, 3) + Bit(B, 4))
             + (Bit(B, 5) + Bit(B, 6) + Bit(B, 7) + Bit(B, 8) + Bit(B, 9))
             + (Bit(B, 10) + Bit(B, 11) + Bit(B, 12) + Bit(B, 13))
  BY <1>3, <1>5, <1>6, <1>7, <1>8, <1>9, <1>10, <1>11, <1>12, <1>13, <1>14, <1>15, <1>16,
     <1>17, <1>18
<1> QED
  BY <1>1, <1>19

\* The bit of weight d.
BitAt(p, d) == (p \div d) % 2

\* A number below 2^14 is made of its bits.
LEMMA NumberOfBits ==
    ASSUME NEW p \in Nat, p < 16384
    PROVE  p = (BitAt(p, 1) + 2 * BitAt(p, 2) + 4 * BitAt(p, 4)
                + 8 * BitAt(p, 8) + 16 * BitAt(p, 16))
               + 32 * (BitAt(p, 32) + 2 * BitAt(p, 64) + 4 * BitAt(p, 128)
                      + 8 * BitAt(p, 256) + 16 * BitAt(p, 512))
               + 1024 * (BitAt(p, 1024) + 2 * BitAt(p, 2048)
                        + 4 * BitAt(p, 4096) + 8 * BitAt(p, 8192))
<1> DEFINE q(d) == p \div d
<1>1. /\ q(1) = 2 * q(2) + BitAt(p, 1)
      /\ q(1) \in Nat /\ BitAt(p, 1) \in Nat
  BY SMT DEF BitAt
<1>2. /\ q(2) = 2 * q(4) + BitAt(p, 2)
      /\ q(2) \in Nat /\ BitAt(p, 2) \in Nat
  BY SMT DEF BitAt
<1>3. /\ q(4) = 2 * q(8) + BitAt(p, 4)
      /\ q(4) \in Nat /\ BitAt(p, 4) \in Nat
  BY SMT DEF BitAt
<1>4. /\ q(8) = 2 * q(16) + BitAt(p, 8)
      /\ q(8) \in Nat /\ BitAt(p, 8) \in Nat
  BY SMT DEF BitAt
<1>5. /\ q(16) = 2 * q(32) + BitAt(p, 16)
      /\ q(16) \in Nat /\ BitAt(p, 16) \in Nat
  BY SMT DEF BitAt
<1>6. /\ q(32) = 2 * q(64) + BitAt(p, 32)
      /\ q(32) \in Nat /\ BitAt(p, 32) \in Nat
  BY SMT DEF BitAt
<1>7. /\ q(64) = 2 * q(128) + BitAt(p, 64)
      /\ q(64) \in Nat /\ BitAt(p, 64) \in Nat
  BY SMT DEF BitAt
<1>8. /\ q(128) = 2 * q(256) + BitAt(p, 128)
      /\ q(128) \in Nat /\ BitAt(p, 128) \in Nat
  BY SMT DEF BitAt
<1>9. /\ q(256) = 2 * q(512) + BitAt(p, 256)
      /\ q(256) \in Nat /\ BitAt(p, 256) \in Nat
  BY SMT DEF BitAt
<1>10. /\ q(512) = 2 * q(1024) + BitAt(p, 512)
       /\ q(512) \in Nat /\ BitAt(p, 512) \in Nat
  BY SMT DEF BitAt
<1>11. /\ q(1024) = 2 * q(2048) + BitAt(p, 1024)
       /\ q(1024) \in Nat /\ BitAt(p, 1024) \in Nat
  BY SMT DEF BitAt
<1>12. /\ q(2048) = 2 * q(4096) + BitAt(p, 2048)
       /\ q(2048) \in Nat /\ BitAt(p, 2048) \in Nat
  BY SMT DEF BitAt
<1>13. /\ q(4096) = 2 * q(8192) + BitAt(p, 4096)
       /\ q(4096) \in Nat /\ BitAt(p, 4096) \in Nat
  BY SMT DEF BitAt
<1>14. /\ q(8192) = 2 * q(16384) + BitAt(p, 8192)
       /\ q(8192) \in Nat /\ BitAt(p, 8192) \in Nat
  BY SMT DEF BitAt
<1>15. q(1) = p /\ q(16384) = 0
  BY SMT
<1> HIDE DEF q
<1> DEFINE low == (BitAt(p, 1) + 2 * BitAt(p, 2) + 4 * BitAt(p, 4)
                     + 8 * BitAt(p, 8) + 16 * BitAt(p, 16))
           middle == (BitAt(p, 32) + 2 * BitAt(p, 64) + 4 * BitAt(p, 128)
                     + 8 * BitAt(p, 256) + 16 * BitAt(p, 512))
           high == (BitAt(p, 1024) + 2 * BitAt(p, 2048)
                     + 4 * BitAt(p, 4096) + 8 * BitAt(p, 8192))
<1>16. q(1) = low + 32 * q(32) /\ low \in Nat
  <2>1. low \in Nat
    <3>1. BitAt(p, 1) \in Nat /\ BitAt(p, 2) \in Nat /\ BitAt(p, 4) \in Nat
          /\ BitAt(p, 8) \in Nat /\ BitAt(p, 16) \in Nat
      BY <1>1, <1>2, <1>3, <1>4, <1>5
    <3> QED
      BY <3>1
  <2>2. q(1) = low + 32 * q(32)
    BY <1>1, <1>2, <1>3, <1>4, <1>5, <1>6
  <2> QED
    BY <2>1, <2>2
<1>17. q(32) = middle + 32 * q(1024) /\ middle \in Nat
  <2>1. middle \in Nat
    <3>1. BitAt(p, 32) \in Nat /\ BitAt(p, 64) \in Nat /\ BitAt(p, 128) \in Nat
          /\ BitAt(p, 256) \in Nat /\ BitAt(p, 512) \in Nat
      BY <1>6, <1>7, <1>8, <1>9, <1>10
    <3> QED
      BY <3>1
  <2>2. q(32) = middle + 32 * q(1024)
    BY <1>6, <1>7, <1>8, <1>9, <1>10, <1>11
  <2> QED
    BY <2>1, <2>2
<1>18. q(1024) = high + 16 * q(16384) /\ high \in Nat
  <2>1. high \in Nat
    <3>1. BitAt(p, 1024) \in Nat /\ BitAt(p, 2048) \in Nat /\ BitAt(p, 4096) \in Nat
          /\ BitAt(p, 8192) \in Nat
      BY <1>11, <1>12, <1>13, <1>14
    <3> QED
      BY <3>1
  <2>2. q(1024) = high + 16 * q(16384)
    BY <1>11, <1>12, <1>13, <1>14, <1>15
  <2> QED
    BY <2>1, <2>2
<1> HIDE DEF low, middle, high
<1>19. p = low + 32 * middle + 1024 * high
  BY <1>6, <1>11, <1>15, <1>16, <1>17, <1>18
<1> QED
  BY <1>19 DEF low, middle, high

\* The fields of a fee that is asked for.
LEMMA FeeFields ==
    ASSUME NEW f \in Fees
    PROVE  /\ f.partner \subseteq 0..159 /\ f.referrer \subseteq 0..159
           /\ f.percent \in Nat /\ f.percent <= 10000
           /\ f.hasReferrer \in BOOLEAN /\ f.takeSurplus \in BOOLEAN
           /\ f.capSurplus \in BOOLEAN /\ f.surplusToUser \in BOOLEAN
           /\ f.directTransfer \in BOOLEAN /\ f.skipBlacklist \in BOOLEAN
           /\ PercentOf(f) \in Nat /\ PercentOf(f) <= 10000
           /\ Payee(f) \subseteq 0..159
           /\ PercentBits(f) \subseteq 0..13
<1>1. f \in FeeType /\ f.percent <= 10000
  BY TransactionAssumption DEF HighestPercent
<1>2. /\ f.partner \subseteq 0..159 /\ f.referrer \subseteq 0..159
      /\ f.percent \in Nat
      /\ f.hasReferrer \in BOOLEAN /\ f.takeSurplus \in BOOLEAN
      /\ f.capSurplus \in BOOLEAN /\ f.surplusToUser \in BOOLEAN
      /\ f.directTransfer \in BOOLEAN /\ f.skipBlacklist \in BOOLEAN
  BY <1>1 DEF FeeType, AddressBits
<1>3. PercentOf(f) \in Nat /\ PercentOf(f) <= 10000
  BY <1>1, <1>2 DEF PercentOf
<1>4. Payee(f) \subseteq 0..159
  BY <1>2 DEF Payee
<1>5. PercentBits(f) \subseteq 0..13
  BY DEF PercentBits
<1> QED
  BY <1>1, <1>2, <1>3, <1>4, <1>5

\* The low bits of the word are those of the percentage.
LEMMA WordHoldsPercent ==
    ASSUME NEW f \in Fees, NEW k \in 0..13
    PROVE  k \in FeeWord(f) <=> (PercentOf(f) \div 2^k) % 2 = 1
<1> DEFINE p == PercentOf(f)
<1>1. k \in PercentBits(f) <=> (p \div 2^k) % 2 = 1
  BY DEF PercentBits, Bits
<1>2. k \notin {96 + b : b \in Payee(f)}
  BY FeeFields
<1>3. CASE p # 0
  BY <1>1, <1>2, <1>3 DEF FeeWord, If
<1>4. CASE p = 0
  <2>1. k \notin FeeWord(f)
    BY <1>2, <1>4 DEF FeeWord, If
  <2>2. 2^k \in Nat \ {0}
    <3>1. Weight[k] = 2^k
      BY Zenon DEF Weight
    <3>2. Weight[k] \in Nat \ {0}
      BY Weights
    <3> QED
      BY <3>1, <3>2, Zenon
  <2>3. \A d \in Nat \ {0} : (0 \div d) % 2 = 0
    BY SMT
  <2> QED
    BY <1>4, <2>1, <2>2, <2>3
<1> QED
  BY <1>3, <1>4

\* So that read as a number they are the percentage.
LEMMA PercentReadsBack ==
    ASSUME NEW f \in Fees
    PROVE  MapThenSumSet(LAMBDA b : 2^b, FeeWord(f) \intersect 0..13) = PercentOf(f)
<1> DEFINE B == FeeWord(f) \intersect 0..13
           p == PercentOf(f)
<1>0. p \in Nat /\ p < 16384
  BY FeeFields
<1> HIDE DEF p
<1>1. Bit(B, 0) = 1 * BitAt(p, 1) /\ BitAt(p, 1) \in Nat
  <2>1. 0 \in FeeWord(f) <=> (p \div 2^0) % 2 = 1
    BY WordHoldsPercent DEF p
  <2>2. 2^0 = 1 /\ 0 \in 0..13
    BY SMT
  <2>3. BitAt(p, 1) \in {0, 1}
    BY <1>0, SMT DEF BitAt
  <2> QED
    BY <2>1, <2>2, <2>3, Weights DEF Bit, BitAt
<1>2. Bit(B, 1) = 2 * BitAt(p, 2) /\ BitAt(p, 2) \in Nat
  <2>1. 1 \in FeeWord(f) <=> (p \div 2^1) % 2 = 1
    BY WordHoldsPercent DEF p
  <2>2. 2^1 = 2 /\ 1 \in 0..13
    BY SMT
  <2>3. BitAt(p, 2) \in {0, 1}
    BY <1>0, SMT DEF BitAt
  <2> QED
    BY <2>1, <2>2, <2>3, Weights DEF Bit, BitAt
<1>3. Bit(B, 2) = 4 * BitAt(p, 4) /\ BitAt(p, 4) \in Nat
  <2>1. 2 \in FeeWord(f) <=> (p \div 2^2) % 2 = 1
    BY WordHoldsPercent DEF p
  <2>2. 2^2 = 4 /\ 2 \in 0..13
    BY SMT
  <2>3. BitAt(p, 4) \in {0, 1}
    BY <1>0, SMT DEF BitAt
  <2> QED
    BY <2>1, <2>2, <2>3, Weights DEF Bit, BitAt
<1>4. Bit(B, 3) = 8 * BitAt(p, 8) /\ BitAt(p, 8) \in Nat
  <2>1. 3 \in FeeWord(f) <=> (p \div 2^3) % 2 = 1
    BY WordHoldsPercent DEF p
  <2>2. 2^3 = 8 /\ 3 \in 0..13
    BY SMT
  <2>3. BitAt(p, 8) \in {0, 1}
    BY <1>0, SMT DEF BitAt
  <2> QED
    BY <2>1, <2>2, <2>3, Weights DEF Bit, BitAt
<1>5. Bit(B, 4) = 16 * BitAt(p, 16) /\ BitAt(p, 16) \in Nat
  <2>1. 4 \in FeeWord(f) <=> (p \div 2^4) % 2 = 1
    BY WordHoldsPercent DEF p
  <2>2. 2^4 = 16 /\ 4 \in 0..13
    BY SMT
  <2>3. BitAt(p, 16) \in {0, 1}
    BY <1>0, SMT DEF BitAt
  <2> QED
    BY <2>1, <2>2, <2>3, Weights DEF Bit, BitAt
<1>6. Bit(B, 5) = 32 * BitAt(p, 32) /\ BitAt(p, 32) \in Nat
  <2>1. 5 \in FeeWord(f) <=> (p \div 2^5) % 2 = 1
    BY WordHoldsPercent DEF p
  <2>2. 2^5 = 32 /\ 5 \in 0..13
    BY SMT
  <2>3. BitAt(p, 32) \in {0, 1}
    BY <1>0, SMT DEF BitAt
  <2> QED
    BY <2>1, <2>2, <2>3, Weights DEF Bit, BitAt
<1>7. Bit(B, 6) = 64 * BitAt(p, 64) /\ BitAt(p, 64) \in Nat
  <2>1. 6 \in FeeWord(f) <=> (p \div 2^6) % 2 = 1
    BY WordHoldsPercent DEF p
  <2>2. 2^6 = 64 /\ 6 \in 0..13
    BY SMT
  <2>3. BitAt(p, 64) \in {0, 1}
    BY <1>0, SMT DEF BitAt
  <2> QED
    BY <2>1, <2>2, <2>3, Weights DEF Bit, BitAt
<1>8. Bit(B, 7) = 128 * BitAt(p, 128) /\ BitAt(p, 128) \in Nat
  <2>1. 7 \in FeeWord(f) <=> (p \div 2^7) % 2 = 1
    BY WordHoldsPercent DEF p
  <2>2. 2^7 = 128 /\ 7 \in 0..13
    BY SMT
  <2>3. BitAt(p, 128) \in {0, 1}
    BY <1>0, SMT DEF BitAt
  <2> QED
    BY <2>1, <2>2, <2>3, Weights DEF Bit, BitAt
<1>9. Bit(B, 8) = 256 * BitAt(p, 256) /\ BitAt(p, 256) \in Nat
  <2>1. 8 \in FeeWord(f) <=> (p \div 2^8) % 2 = 1
    BY WordHoldsPercent DEF p
  <2>2. 2^8 = 256 /\ 8 \in 0..13
    BY SMT
  <2>3. BitAt(p, 256) \in {0, 1}
    BY <1>0, SMT DEF BitAt
  <2> QED
    BY <2>1, <2>2, <2>3, Weights DEF Bit, BitAt
<1>10. Bit(B, 9) = 512 * BitAt(p, 512) /\ BitAt(p, 512) \in Nat
  <2>1. 9 \in FeeWord(f) <=> (p \div 2^9) % 2 = 1
    BY WordHoldsPercent DEF p
  <2>2. 2^9 = 512 /\ 9 \in 0..13
    BY SMT
  <2>3. BitAt(p, 512) \in {0, 1}
    BY <1>0, SMT DEF BitAt
  <2> QED
    BY <2>1, <2>2, <2>3, Weights DEF Bit, BitAt
<1>11. Bit(B, 10) = 1024 * BitAt(p, 1024) /\ BitAt(p, 1024) \in Nat
  <2>1. 10 \in FeeWord(f) <=> (p \div 2^10) % 2 = 1
    BY WordHoldsPercent DEF p
  <2>2. 2^10 = 1024 /\ 10 \in 0..13
    BY SMT
  <2>3. BitAt(p, 1024) \in {0, 1}
    BY <1>0, SMT DEF BitAt
  <2> QED
    BY <2>1, <2>2, <2>3, Weights DEF Bit, BitAt
<1>12. Bit(B, 11) = 2048 * BitAt(p, 2048) /\ BitAt(p, 2048) \in Nat
  <2>1. 11 \in FeeWord(f) <=> (p \div 2^11) % 2 = 1
    BY WordHoldsPercent DEF p
  <2>2. 2^11 = 2048 /\ 11 \in 0..13
    BY SMT
  <2>3. BitAt(p, 2048) \in {0, 1}
    BY <1>0, SMT DEF BitAt
  <2> QED
    BY <2>1, <2>2, <2>3, Weights DEF Bit, BitAt
<1>13. Bit(B, 12) = 4096 * BitAt(p, 4096) /\ BitAt(p, 4096) \in Nat
  <2>1. 12 \in FeeWord(f) <=> (p \div 2^12) % 2 = 1
    BY WordHoldsPercent DEF p
  <2>2. 2^12 = 4096 /\ 12 \in 0..13
    BY SMT
  <2>3. BitAt(p, 4096) \in {0, 1}
    BY <1>0, SMT DEF BitAt
  <2> QED
    BY <2>1, <2>2, <2>3, Weights DEF Bit, BitAt
<1>14. Bit(B, 13) = 8192 * BitAt(p, 8192) /\ BitAt(p, 8192) \in Nat
  <2>1. 13 \in FeeWord(f) <=> (p \div 2^13) % 2 = 1
    BY WordHoldsPercent DEF p
  <2>2. 2^13 = 8192 /\ 13 \in 0..13
    BY SMT
  <2>3. BitAt(p, 8192) \in {0, 1}
    BY <1>0, SMT DEF BitAt
  <2> QED
    BY <2>1, <2>2, <2>3, Weights DEF Bit, BitAt
<1> HIDE DEF B
<1>15. MapThenSumSet(LAMBDA b : 2^b, B) =
             (Bit(B, 0) + Bit(B, 1) + Bit(B, 2) + Bit(B, 3) + Bit(B, 4))
             + (Bit(B, 5) + Bit(B, 6) + Bit(B, 7) + Bit(B, 8) + Bit(B, 9))
             + (Bit(B, 10) + Bit(B, 11) + Bit(B, 12) + Bit(B, 13))
  <2>1. B \subseteq 0..13
    BY DEF B
  <2> QED
    BY <2>1, BitsRead, Zenon
<1> DEFINE low == (BitAt(p, 1) + 2 * BitAt(p, 2) + 4 * BitAt(p, 4)
                     + 8 * BitAt(p, 8) + 16 * BitAt(p, 16))
           middle == (BitAt(p, 32) + 2 * BitAt(p, 64) + 4 * BitAt(p, 128)
                     + 8 * BitAt(p, 256) + 16 * BitAt(p, 512))
           high == (BitAt(p, 1024) + 2 * BitAt(p, 2048)
                     + 4 * BitAt(p, 4096) + 8 * BitAt(p, 8192))
<1>16. p = low + 32 * middle + 1024 * high
  BY <1>0, NumberOfBits
<1>17. Bit(B, 0) + Bit(B, 1) + Bit(B, 2) + Bit(B, 3) + Bit(B, 4) = 1 * low
  BY <1>1, <1>2, <1>3, <1>4, <1>5
<1>18. Bit(B, 5) + Bit(B, 6) + Bit(B, 7) + Bit(B, 8) + Bit(B, 9) = 32 * middle
  BY <1>6, <1>7, <1>8, <1>9, <1>10
<1>19. Bit(B, 10) + Bit(B, 11) + Bit(B, 12) + Bit(B, 13) = 1024 * high
  BY <1>11, <1>12, <1>13, <1>14
<1>20. low \in Nat /\ middle \in Nat /\ high \in Nat
  <2>1. low \in Nat
    BY <1>1, <1>2, <1>3, <1>4, <1>5
  <2>2. middle \in Nat
    BY <1>6, <1>7, <1>8, <1>9, <1>10
  <2>3. high \in Nat
    BY <1>11, <1>12, <1>13, <1>14
  <2> QED
    BY <2>1, <2>2, <2>3
<1> HIDE DEF low, middle, high
<1>21. p =
             (Bit(B, 0) + Bit(B, 1) + Bit(B, 2) + Bit(B, 3) + Bit(B, 4))
             + (Bit(B, 5) + Bit(B, 6) + Bit(B, 7) + Bit(B, 8) + Bit(B, 9))
             + (Bit(B, 10) + Bit(B, 11) + Bit(B, 12) + Bit(B, 13))
  BY <1>16, <1>17, <1>18, <1>19, <1>20
<1> QED
  BY <1>15, <1>21, Zenon DEF B, p

\* The payee is what stands above the flags.
LEMMA PayeeReadsBack ==
    ASSUME NEW f \in Fees
    PROVE  {b - 96 : b \in FeeWord(f) \ 0..95} = Payee(f)
<1>1. Payee(f) \subseteq 0..159 /\ PercentBits(f) \subseteq 0..13
  BY FeeFields
<1>2. FeeWord(f) \ 0..95 = {96 + b : b \in Payee(f)}
  BY <1>1 DEF FeeWord, If
<1>3. \A b \in Payee(f) : (96 + b) - 96 = b
  BY <1>1
<1> QED
  BY <1>2, <1>3

\* Each flag has a bit of its own.
LEMMA FlagsReadBack ==
    ASSUME NEW f \in Fees
    PROVE  /\ 95 \in FeeWord(f) <=> (f.takeSurplus /\ PercentOf(f) = 0)
           /\ 94 \in FeeWord(f) => f.hasReferrer
           /\ 93 \in FeeWord(f) <=> f.skipBlacklist
           /\ 92 \in FeeWord(f) <=> f.capSurplus
           /\ 91 \in FeeWord(f) <=> f.directTransfer
           /\ 90 \in FeeWord(f) <=> f.surplusToUser
<1>1. Payee(f) \subseteq 0..159 /\ PercentBits(f) \subseteq 0..13
  BY FeeFields
<1>2. \A b \in {90, 91, 92, 93, 94, 95} :
         b \notin {96 + c : c \in Payee(f)} /\ b \notin PercentBits(f)
  BY <1>1
<1> QED
  BY <1>2, FeeFields DEF FeeWord, If

\* A fee word that the code packed reads back as the fee it was packed from.
LEMMA WordReadsBack ==
    ASSUME fee \in Fees, Encoded => tx.fees = FeeWord(fee)
    PROVE  FeesReadBack
<1> SUFFICES ASSUME Encoded
             PROVE  LET owed == fee.hasReferrer \/ fee.percent > 0 \/ fee.takeSurplus IN
        /\ PercentRead = IF fee.hasReferrer THEN 0 ELSE fee.percent
        /\ PayeeRead = IF ~owed THEN {}
                       ELSE IF fee.hasReferrer THEN fee.referrer ELSE fee.partner
        /\ 95 \in tx.fees <=> fee.takeSurplus /\ PercentRead = 0
        /\ 94 \in tx.fees => fee.hasReferrer
        /\ <<93 \in tx.fees, 92 \in tx.fees, 91 \in tx.fees, 90 \in tx.fees>>
                = <<fee.skipBlacklist, fee.capSurplus, fee.directTransfer, fee.surplusToUser>>
  BY DEF FeesReadBack
<1>1. PercentRead = PercentOf(fee)
  <2>1. PercentRead = MapThenSumSet(LAMBDA b : 2^b, FeeWord(fee) \intersect 0..13)
    BY Zenon DEF PercentRead
  <2> QED
    BY <2>1, PercentReadsBack
<1>2. PayeeRead = Payee(fee)
  BY PayeeReadsBack DEF PayeeRead
<1>3. /\ 95 \in tx.fees <=> (fee.takeSurplus /\ PercentRead = 0)
      /\ 94 \in tx.fees => fee.hasReferrer
  BY <1>1, FlagsReadBack
<1>4. /\ (93 \in tx.fees) = fee.skipBlacklist /\ (92 \in tx.fees) = fee.capSurplus
      /\ (91 \in tx.fees) = fee.directTransfer /\ (90 \in tx.fees) = fee.surplusToUser
  BY FlagsReadBack, FeeFields
<1> QED
  BY <1>1, <1>2, <1>3, <1>4, FeeFields DEF PercentOf, Payee

-----------------------------------------------------------------------------
(* Legs that a caller brings: the two layers that match them with exchanges *)
(* agree, for all route plans and lists.                                    *)

\* A list without duplicates has as many legs as it has keys.
LEMMA LegsAreCounted ==
    ASSUME NEW S, NEW brought \in Seq(S), ~HasDuplicates(brought)
    PROVE  IsFiniteSet(KeysOf(brought)) /\ Cardinality(KeysOf(brought)) = Len(brought)
<1> DEFINE f == [n \in 1..Len(brought) |-> brought[n].pos]
<1>1. DOMAIN brought = 1..Len(brought) /\ Len(brought) \in Nat
  OBVIOUS
<1>2. f \in Bijection(1..Len(brought), KeysOf(brought))
  <2>1. f \in [1..Len(brought) -> KeysOf(brought)]
    BY <1>1 DEF KeysOf
  <2>2. \A n, m \in 1..Len(brought) : f[n] = f[m] => n = m
    BY <1>1 DEF HasDuplicates
  <2>3. \A k \in KeysOf(brought) : \E n \in 1..Len(brought) : f[n] = k
    BY <1>1 DEF KeysOf
  <2> QED
    BY <2>1, <2>2, <2>3 DEF Bijection, Injection, Surjection, IsInjective
<1>3. IsFiniteSet(1..Len(brought)) /\ Cardinality(1..Len(brought)) = Len(brought)
  BY <1>1, FS_Interval
<1> QED
  BY <1>2, <1>3, FS_Bijection DEF ExistsBijection

\* What the resolved layer validates, the executor can order, and what the
\* executor can order the resolved layer validates, if its fields are well formed:
\* the two checks that were written twice refuse the same lists (validateBuildInput,
\* getOrderedLegs).
THEOREM LayersAgree ==
    ASSUME NEW r, IsFiniteSet(Positions(r)), NEW S, NEW brought \in Seq(S),
           \A n \in DOMAIN brought : IsValid(brought[n])
    PROVE  Validates(r, brought) <=> CanBeOrdered(r, brought)
<1>1. ASSUME Validates(r, brought)  PROVE CanBeOrdered(r, brought)
  BY <1>1 DEF Validates, CanBeOrdered, KeysOf
<1>2. ASSUME CanBeOrdered(r, brought)  PROVE Validates(r, brought)
  <2>1. KeysOf(brought) = Positions(r)
    BY <1>2 DEF CanBeOrdered
  <2>2. Len(brought) = LegCount(r)
    BY <1>2, <2>1, LegsAreCounted DEF CanBeOrdered, LegCount
  <2>3. \A n \in DOMAIN brought : brought[n].pos \in Positions(r)
    BY <2>1 DEF KeysOf
  <2> QED
    BY <1>2, <2>2, <2>3 DEF Validates, CanBeOrdered
<1> QED
  BY <1>1, <1>2

\* Legs that are distinct, as many as there are exchanges, and all of the route
\* miss no exchange: the last check of validateBuildInput never refuses anything.
THEOREM NoLegIsMissing ==
    ASSUME NEW r, IsFiniteSet(Positions(r)), NEW S, NEW brought \in Seq(S),
           ~HasDuplicates(brought), Len(brought) = LegCount(r),
           \A n \in DOMAIN brought : brought[n].pos \in Positions(r)
    PROVE  Positions(r) \subseteq KeysOf(brought)
<1>1. KeysOf(brought) \in SUBSET Positions(r)
  BY DEF KeysOf
<1>2. Cardinality(KeysOf(brought)) = Cardinality(Positions(r))
  BY LegsAreCounted DEF LegCount
<1> QED
  BY <1>1, <1>2, FS_Subset

\* The order of a route plan is total.
LEMMA PlanIsOrdered ==
    ASSUME NEW r \in Routes
    PROVE  /\ \A p \in Positions(r) : ~Precedes(p, p)
           /\ \A p, q \in Positions(r) : p = q \/ Precedes(p, q) \/ Precedes(q, p)
           /\ \A p, q, s \in Positions(r) :
                 Precedes(p, q) /\ Precedes(q, s) => Precedes(p, s)
<1>1. \A p \in Positions(r) :
         /\ p[1] \in Nat /\ p[2] \in Nat /\ p[3] \in Nat
         /\ p = <<p[1], p[2], p[3]>>
  <2> TAKE p \in Positions(r)
  <2>1. p \in (Nat \ {0}) \X (Nat \ {0}) \X (Nat \ {0})
    BY BuilderAssumption DEF WellFormed
  <2> QED
    BY <2>1
<1>2. \A p, q \in Positions(r) :
         Precedes(p, q) <=> \/ p[1] < q[1]
                            \/ p[1] = q[1] /\ p[2] < q[2]
                            \/ p[1] = q[1] /\ p[2] = q[2] /\ p[3] < q[3]
  BY DEF Precedes, Before
<1>3. \A p \in Positions(r) : ~Precedes(p, p)
  BY <1>1, <1>2
<1>4. ASSUME NEW p \in Positions(r), NEW q \in Positions(r), p # q
      PROVE  Precedes(p, q) \/ Precedes(q, p)
  <2>1. p[1] # q[1] \/ p[2] # q[2] \/ p[3] # q[3]
    BY <1>1, <1>4
  <2> QED
    BY <1>1, <1>2, <2>1
<1>5. ASSUME NEW p \in Positions(r), NEW q \in Positions(r), NEW s \in Positions(r),
             Precedes(p, q), Precedes(q, s)
      PROVE  Precedes(p, s)
  BY <1>1, <1>2, <1>5
<1> QED
  BY <1>3, <1>4, <1>5

\* Each exchange has a place of its own, and each place has its exchange.
LEMMA PlacesAreFilled ==
    ASSUME NEW r \in Routes
    PROVE  /\ \A p \in Positions(r) : Place(r, p) \in 1..LegCount(r)
           /\ \A p, q \in Positions(r) : Place(r, p) < Place(r, q) <=> Precedes(p, q)
           /\ \A n \in 1..LegCount(r) : \E p \in Positions(r) : Place(r, p) = n
           /\ \A p, q \in Positions(r) : Place(r, p) = Place(r, q) => p = q
           /\ LegCount(r) \in Nat
<1> DEFINE P == Positions(r)
           Earlier(p) == {other \in P : Precedes(other, p)}
<1>1. IsFiniteSet(P) /\ LegCount(r) \in Nat
  BY PositionsAreFinite, TransactionAssumption, FS_CardinalityType DEF LegCount
<1>2. \A p \in P : IsFiniteSet(Earlier(p)) /\ Cardinality(Earlier(p)) \in Nat
  BY <1>1, FS_Subset, FS_CardinalityType
<1>3. \A p \in P : Place(r, p) = Cardinality(Earlier(p)) + 1
  BY DEF Place
<1>4. ASSUME NEW p \in P
      PROVE  Place(r, p) \in 1..LegCount(r)
  <2>1. Earlier(p) \in SUBSET P /\ p \notin Earlier(p)
    BY PlanIsOrdered
  <2>2. Cardinality(Earlier(p)) <= LegCount(r)
        /\ (LegCount(r) = Cardinality(Earlier(p)) => P = Earlier(p))
    BY <1>1, <2>1, FS_Subset DEF LegCount
  <2> QED
    BY <1>1, <1>2, <1>3, <2>1, <2>2
<1>5. ASSUME NEW p \in P, NEW q \in P, Precedes(p, q)
      PROVE  Place(r, p) < Place(r, q)
  <2>1. Earlier(p) \in SUBSET Earlier(q)
    BY <1>5, PlanIsOrdered
  <2>2. p \in Earlier(q) /\ p \notin Earlier(p)
    BY <1>5, PlanIsOrdered
  <2>3. Cardinality(Earlier(p)) <= Cardinality(Earlier(q))
        /\ (Cardinality(Earlier(q)) = Cardinality(Earlier(p)) => Earlier(q) = Earlier(p))
    BY <1>2, <2>1, FS_Subset
  <2> HIDE DEF Earlier
  <2> QED
    BY <1>2, <1>3, <2>2, <2>3
<1>6. \A p \in P : Place(r, p) \in Nat
  BY <1>1, <1>4
<1>7. \A p, q \in P : Place(r, p) < Place(r, q) <=> Precedes(p, q)
  BY <1>5, <1>6, PlanIsOrdered
<1>8. \A p, q \in P : Place(r, p) = Place(r, q) => p = q
  BY <1>5, <1>6, PlanIsOrdered
<1>9. \A n \in 1..LegCount(r) : \E p \in P : Place(r, p) = n
  <2> DEFINE f == [p \in P |-> Place(r, p)]
             places == 1..LegCount(r)
  <2>1. f \in Injection(P, places)
    BY <1>4, <1>8 DEF Injection, IsInjective
  <2>2. 1 \in Int /\ LegCount(r) \in Int
    BY <1>1
  <2>3. IsFiniteSet(places) /\ Cardinality(places) = LegCount(r)
    BY <1>1, <2>2, FS_Interval
  <2>4. f \in Surjection(P, places)
    BY <2>1, <2>3, FS_Injection, Zenon DEF LegCount
  <2> QED
    BY <2>4 DEF Surjection
<1> QED
  BY <1>1, <1>4, <1>7, <1>8, <1>9

\* What the executor encodes is one leg for each exchange, in their order.
LEMMA OrderedLegsMeet ==
    ASSUME route \in Routes, NEW given \in Seq(Leg), Validates(route, given)
    PROVE  LET o == OrderedLegs(route, given) IN
           /\ o \in Seq(Leg)
           /\ IsOneEach(o)
           /\ \A n \in 1..(Len(o) - 1) : Precedes(o[n].pos, o[n + 1].pos)
<1> DEFINE o == OrderedLegs(route, given)
           At(n) == CHOOSE pos \in Positions(route) : Place(route, pos) = n
<1>1. /\ Len(given) = LegCount(route) /\ Len(given) \in Nat
      /\ DOMAIN given = 1..Len(given)
      /\ Positions(route) \subseteq KeysOf(given)
  BY DEF Validates
<1>2. \A n \in 1..Len(given) : At(n) \in Positions(route) /\ Place(route, At(n)) = n
  BY <1>1, PlacesAreFilled
<1>3. \A pos \in Positions(route) : LegAt(given, pos) \in Leg /\ LegAt(given, pos).pos = pos
  <2> TAKE pos \in Positions(route)
  <2>1. \E n \in DOMAIN given : given[n].pos = pos
    BY <1>1 DEF KeysOf
  <2> QED
    BY <2>1 DEF LegAt
<1>4. o = [n \in 1..Len(given) |-> LegAt(given, At(n))]
  BY Zenon DEF OrderedLegs
<1> HIDE DEF o, At
<1>5. o \in Seq(Leg) /\ Len(o) = Len(given) /\ DOMAIN o = 1..Len(given)
  BY <1>1, <1>2, <1>3, <1>4
<1>6. \A n \in 1..Len(given) : o[n].pos = At(n)
  BY <1>2, <1>3, <1>4
<1>7. IsOneEach(o)
  <2>1. ASSUME NEW pos \in Positions(route)
        PROVE  Cardinality({n \in DOMAIN o : o[n].pos = pos}) = 1
    <3>1. Place(route, pos) \in 1..Len(given)
      BY <1>1, PlacesAreFilled
    <3>2. At(Place(route, pos)) = pos
      BY <1>2, <3>1, PlacesAreFilled
    <3>3. {n \in DOMAIN o : o[n].pos = pos} = {Place(route, pos)}
      BY <1>2, <1>5, <1>6, <3>1, <3>2
    <3> QED
      BY <3>3, FS_Singleton
  <2>2. \A n \in DOMAIN o : o[n].pos \in Positions(route)
    BY <1>2, <1>5, <1>6
  <2> QED
    BY <2>1, <2>2 DEF IsOneEach
<1>8. ASSUME NEW n \in 1..(Len(o) - 1)
      PROVE  Precedes(o[n].pos, o[n + 1].pos)
  <2>1. n \in 1..Len(given) /\ n + 1 \in 1..Len(given) /\ n < n + 1
    BY <1>1, <1>5
  <2> QED
    BY <1>2, <1>6, <2>1, PlacesAreFilled
<1> QED
  BY <1>5, <1>7, <1>8 DEF o

\* What is one leg for each exchange, and well formed, is validated.
LEMMA OneEachIsValidated ==
    ASSUME route \in Routes, NEW given \in Seq(Leg), IsOneEach(given),
           \A n \in DOMAIN given : IsValid(given[n])
    PROVE  Validates(route, given)
<1>1. Len(given) \in Nat /\ DOMAIN given = 1..Len(given) /\ IsFiniteSet(DOMAIN given)
  <2>1. Len(given) \in Nat /\ DOMAIN given = 1..Len(given) /\ 1 \in Int /\ Len(given) \in Int
    OBVIOUS
  <2> QED
    BY <2>1, FS_Interval
<1>2. \A pos \in Positions(route) : \E n : {m \in DOMAIN given : given[m].pos = pos} = {n}
  <2> TAKE pos \in Positions(route)
  <2> DEFINE its == {m \in DOMAIN given : given[m].pos = pos}
  <2>1. IsFiniteSet(its) /\ Cardinality(its) = 1
    BY <1>1, FS_Subset DEF IsOneEach
  <2> HIDE DEF its
  <2>2. \E n : its = {n}
    BY <2>1, FS_Singleton
  <2> QED
    BY <2>2 DEF its
<1>3. \A n \in DOMAIN given : given[n].pos \in Positions(route)
  BY DEF IsOneEach
<1>4. ~HasDuplicates(given)
  <2> SUFFICES ASSUME NEW n \in DOMAIN given, NEW m \in DOMAIN given, n # m,
                      given[n].pos = given[m].pos
               PROVE  FALSE
    BY DEF HasDuplicates
  <2>1. PICK x : {k \in DOMAIN given : given[k].pos = given[n].pos} = {x}
    BY <1>2, <1>3
  <2> QED
    BY <2>1
<1>5. Positions(route) \subseteq KeysOf(given)
  <2> SUFFICES ASSUME NEW pos \in Positions(route)
               PROVE  \E n \in DOMAIN given : given[n].pos = pos
    BY DEF KeysOf
  <2>1. PICK x : {k \in DOMAIN given : given[k].pos = pos} = {x}
    BY <1>2
  <2> QED
    BY <2>1
<1>6. KeysOf(given) = Positions(route)
  BY <1>3, <1>5 DEF KeysOf
<1>7. Len(given) = LegCount(route)
  BY <1>4, <1>6, LegsAreCounted DEF LegCount
<1> QED
  BY <1>3, <1>4, <1>5, <1>7 DEF Validates

-----------------------------------------------------------------------------
(* Direct builds. *)

\* The first exchange of a route that Augustus makes by itself.
LEMMA DirectPositions ==
    ASSUME NEW r \in Routes, NEW m, HasDirectShape(r, m)
    PROVE  /\ <<1, 1, 1>> \in FirstPositions(r)
           /\ m # "batch" => FirstPositions(r) = {<<1, 1, 1>>}
<1> DEFINE es == r.paths[1].swaps[1].exchanges
<1>1. IsRoutePlan(r)
  BY TransactionAssumption
<1>2. DOMAIN r.paths = {1}
  BY <1>1 DEF IsRoutePlan, IsList, HasDirectShape
<1>3. DOMAIN r.paths[1].swaps = {1}
  BY <1>1, <1>2 DEF IsRoutePlan, IsList, HasDirectShape
<1>4. DOMAIN es = 1..Len(es) /\ Len(es) \in Nat
  BY <1>1, <1>2, <1>3 DEF IsRoutePlan, IsList
<1>5. Len(es) > 0 /\ (m # "batch" => Len(es) = 1)
  BY DEF HasDirectShape
<1>6. Positions(r) = {<<1, 1, k>> : k \in DOMAIN es}
  <2>1. UNION {{<<1, j, k>> : k \in DOMAIN r.paths[1].swaps[j].exchanges}
                  : j \in DOMAIN r.paths[1].swaps} = {<<1, 1, k>> : k \in DOMAIN es}
    BY <1>3
  <2>2. Positions(r) = UNION {{<<1, j, k>> : k \in DOMAIN r.paths[1].swaps[j].exchanges}
                                 : j \in DOMAIN r.paths[1].swaps}
    BY <1>2 DEF Positions
  <2> QED
    BY <2>1, <2>2
<1> HIDE DEF es
<1>7. FirstPositions(r) = {<<1, 1, k>> : k \in DOMAIN es}
  BY <1>6 DEF FirstPositions
<1>8. 1 \in DOMAIN es /\ (m # "batch" => DOMAIN es = {1})
  BY <1>4, <1>5
<1> QED
  BY <1>7, <1>8

\* What its encoder is told to take is what the bytecode of the route is given, or
\* if it fills several quotes no more than that.
LEMMA DirectFacts ==
    ASSUME NEW r \in Routes, NEW m, HasDirectShape(r, m)
    PROVE  /\ DirectSrcAmount(r) \in Nat /\ DirectValue(r) \in Nat
           /\ r.src = ETH => DirectSrcAmount(r) <= DirectValue(r)
           /\ m # "batch" => DirectSrcAmount(r) = FromAmount(r) /\ DirectValue(r) = TxValue(r)
<1> DEFINE S == FirstPositions(r)
           p == <<1, 1, 1>>
<1>1. r.srcAmount \in Nat /\ r.minMax \in Nat /\ r.side \in {"SELL", "BUY"}
  BY BuilderAssumption DEF WellFormed
<1>2. p \in S /\ (m # "batch" => S = {p})
  BY DirectPositions
<1>3. /\ Share(r)[p] = Quote(r, <<p, "primary">>).src
      /\ Share(r)[p] \in Nat /\ Share(r)[p] <= r.srcAmount
  BY <1>2, ShareFacts
<1>4. m # "batch" => Share(r)[p] = r.srcAmount
  <2> SUFFICES ASSUME m # "batch"
               PROVE  Share(r)[p] = r.srcAmount
    OBVIOUS
  <2>1. PICK sum : AddsUp(sum, Share(r), S) /\ sum[S] = r.srcAmount
    BY SharesSum
  <2>2. Unfolds(sum, Share(r), S)
    BY <2>1, SumStep, Zenon
  <2>3. S = {p}
    BY <1>2
  <2> HIDE DEF S, p
  <2>4. PickOf({p}) = p
    BY DEF PickOf
  <2>5. sum[{p}] = Share(r)[p] + sum[{p} \ {p}]
    BY <2>2, <2>3, <2>4 DEF Unfolds
  <2>6. {p} \ {p} = {} /\ sum[{}] = 0
    BY <2>2 DEF Unfolds
  <2> QED
    BY <1>3, <2>1, <2>3, <2>5, <2>6
<1> HIDE DEF S
<1>5. DirectSrcAmount(r) = IF r.side = "BUY" THEN r.minMax ELSE Share(r)[p]
  BY <1>3 DEF DirectSrcAmount
<1> HIDE DEF p
<1> QED
  BY <1>1, <1>3, <1>4, <1>5 DEF DirectValue, FromAmount, TxValue

-----------------------------------------------------------------------------
(* Every way to a transaction. *)

ToldFor == [src |-> DirectSrcAmount(route), fees |-> FeeWord(fee)]

Charged ==
    [status |-> "encoded",
     from |-> IF entry = "direct" THEN DirectSrcAmount(route) ELSE FromAmount(route),
     value |-> IF entry = "direct" THEN DirectValue(route) ELSE TxValue(route),
     fees |-> FeeWord(fee)]

EntryInv ==
    /\ TypeOK
    /\ fee \in Fees
    /\ entry \in {"generic", "direct", "resolved"}
    /\ method \in Methods \union {"none"}
    /\ legs \in Seq(Leg)
    /\ step \in {"begin", "answer", "order", "encode", "refused"}
    /\ entry # "generic" => phase = "classify"
    /\ told = NotTold \/ (entry = "direct" /\ told = ToldFor)
    /\ step = "answer" => told = ToldFor
    /\ told # NotTold \/ step = "answer" => entry = "direct" /\ HasDirectShape(route, method)
    /\ tx \in {Nothing, Error} \/ tx = Charged
    /\ Encoded /\ entry = "direct" => HasDirectShape(route, method)
    /\ step = "order" => entry = "resolved" /\ Validates(route, legs)
    /\ LegsMeetTheirExchange

\* A build starts in a state of the invariant.
LEMMA EntryInitially == EntryInit => EntryInv
<1> SUFFICES ASSUME EntryInit
             PROVE  EntryInv
  OBVIOUS
<1>1. TypeOK /\ phase = "classify"
  BY InitTypes DEF EntryInit, TxInit, Init
<1>2. /\ fee \in Fees /\ entry \in {"generic", "direct", "resolved"}
      /\ method \in Methods \union {"none"}
      /\ told = NotTold /\ step = "begin" /\ tx = Nothing
  BY EntryAssumption DEF EntryInit, TxInit
<1>3. legs \in Seq(Leg)
  <2>1. <<>> \in Seq(Leg) /\ LegLists \subseteq Seq(Leg)
    BY EntryAssumption
  <2>2. legs \in LegLists \/ legs = <<>>
    BY DEF EntryInit
  <2> QED
    BY <2>1, <2>2
<1>4. ~Encoded
  BY <1>2 DEF Encoded, Nothing
<1> QED
  BY <1>1, <1>2, <1>3, <1>4 DEF EntryInv, LegsMeetTheirExchange

\* A step of BuildGeneric.
LEMMA GenericKeeps ==
    ASSUME EntryInv, GenericStep
    PROVE  EntryInv'
<1>1. /\ entry = "generic" /\ TxNext
      /\ entry' = entry /\ method' = method /\ legs' = legs /\ told' = told /\ step' = step
  BY DEF GenericStep, request
<1>2. step # "answer" /\ step # "order"
  BY <1>1 DEF EntryInv
<1>3. TypeOK' /\ fee' = fee /\ told = NotTold
      /\ (tx' = tx \/ tx' = Error
          \/ tx' = [status |-> "encoded", from |-> FromAmount(route), value |-> TxValue(route),
                    fees |-> FeeWord(fee)])
  <2>1. CASE Build /\ UNCHANGED <<fee, tx>>
    BY <1>1, <2>1, StepTypes DEF EntryInv
  <2>2. CASE Encode
    BY <1>1, <2>2, StepTypes DEF EntryInv, Encode
  <2>3. CASE Report
    BY <1>1, <2>3, StepTypes DEF EntryInv, Report
  <2> QED
    BY <1>1, <2>1, <2>2, <2>3 DEF TxNext
<1>4. route' = route
  BY <1>1 DEF TxNext, Encode, Report, buildVars, Build, Classify, ResolveLeg, PlanWeth,
              PlanApprovals, ServiceFails
<1>5. tx' \in {Nothing, Error} \/ tx' = Charged'
  BY <1>1, <1>3, <1>4 DEF EntryInv, Charged
<1> QED
  BY <1>1, <1>2, <1>3, <1>4, <1>5 DEF EntryInv, LegsMeetTheirExchange

\* The steps of a direct build,
LEMMA DirectKeeps ==
    ASSUME EntryInv, AskDirectEncoder \/ EncodeDirect \/ RefuseDirect
    PROVE  EntryInv'
<1> USE DEF EntryInv
<1>1. CASE AskDirectEncoder
  <2>1. /\ entry = "direct" /\ HasDirectShape(route, method)
        /\ told' = ToldFor /\ step' = "answer"
        /\ UNCHANGED <<txVars, request>>
    BY <1>1 DEF AskDirectEncoder, ToldFor
  <2> QED
    BY <2>1 DEF txVars, buildVars, request, TypeOK, ToldFor, Charged, Encoded,
                LegsMeetTheirExchange
<1>2. CASE EncodeDirect
  <2>1. /\ entry = "direct" /\ HasDirectShape(route, method) /\ told = ToldFor
        /\ tx' = Charged /\ step' = "encode"
        /\ UNCHANGED <<buildVars, fee, request, told>>
    BY <1>2 DEF EncodeDirect, ToldFor, Charged
  <2> QED
    BY <2>1 DEF buildVars, request, TypeOK, ToldFor, Charged, Encoded, LegsMeetTheirExchange
<1>3. CASE RefuseDirect
  <2>1. /\ entry = "direct" /\ tx' = Error /\ step' = "refused"
        /\ UNCHANGED <<buildVars, fee, request, told>>
    BY <1>3 DEF RefuseDirect
  <2> QED
    BY <2>1 DEF buildVars, request, TypeOK, ToldFor, Charged, Encoded, Error,
                LegsMeetTheirExchange
<1> QED
  BY <1>1, <1>2, <1>3

\* and those of a caller who brings his legs.
LEMMA ResolvedKeeps ==
    ASSUME EntryInv, Validate \/ Order \/ EncodeResolved
    PROVE  EntryInv'
<1> USE DEF EntryInv
<1>1. CASE Validate
  <2>1. /\ entry = "resolved" /\ UNCHANGED <<buildVars, fee, request, told>>
        /\ step' = (IF Validates(route, legs) THEN "order" ELSE "refused")
        /\ tx' = tx \/ tx' = Error
    BY <1>1 DEF Validate
  <2>2. step' = "refused" => ~(IsOneEach(legs) /\ \A n \in DOMAIN legs : IsValid(legs[n]))
    BY <2>1, OneEachIsValidated DEF TypeOK
  <2>3. LegsMeetTheirExchange'
    BY <2>1, <2>2 DEF LegsMeetTheirExchange, IsOneEach, buildVars, request
  <2> QED
    BY <2>1, <2>3 DEF buildVars, request, TypeOK, ToldFor, Charged, Encoded, Error
<1>2. CASE Order
  <2>1. /\ entry = "resolved" /\ Validates(route, legs)
        /\ UNCHANGED <<buildVars, fee, entry, method, told>>
    BY <1>2 DEF Order
  <2>2. CanBeOrdered(route, legs)
    BY <2>1 DEF Validates, CanBeOrdered, KeysOf
  <2>3. step' = "encode" /\ legs' = OrderedLegs(route, legs) /\ tx' = tx
    BY <1>2, <2>2 DEF Order
  <2>4. /\ legs' \in Seq(Leg)
        /\ IsOneEach(legs')
        /\ \A n \in 1..(Len(legs') - 1) : Precedes(legs'[n].pos, legs'[n + 1].pos)
    BY <2>1, <2>3, OrderedLegsMeet DEF TypeOK
  <2>5. LegsMeetTheirExchange'
    BY <2>1, <2>3, <2>4 DEF LegsMeetTheirExchange, IsOneEach, buildVars
  <2> QED
    BY <2>1, <2>3, <2>4, <2>5 DEF buildVars, TypeOK, ToldFor, Charged, Encoded
<1>3. CASE EncodeResolved
  <2>1. /\ entry = "resolved" /\ (tx' = Error \/ tx' = Charged)
        /\ UNCHANGED <<buildVars, fee, request, told, step>>
    BY <1>3 DEF EncodeResolved, Charged
  <2>2. LegsMeetTheirExchange'
    BY <2>1 DEF LegsMeetTheirExchange, IsOneEach, buildVars, request
  <2> QED
    BY <2>1, <2>2 DEF buildVars, request, TypeOK, ToldFor, Charged, Encoded, Error
<1> QED
  BY <1>1, <1>2, <1>3

\* However a transaction comes about, it is for the amounts and fees of its route,
\* and its legs are those of its exchanges: the inductive invariant behind the
\* theorems below.
THEOREM EntryInvariant == EntrySpec => []EntryInv
<1>1. EntryInv /\ [EntryNext]_entryVars => EntryInv'
  <2> SUFFICES ASSUME EntryInv, [EntryNext]_entryVars
               PROVE  EntryInv'
    OBVIOUS
  <2>1. CASE EntryNext
    BY <2>1, GenericKeeps, DirectKeeps, ResolvedKeeps DEF EntryNext
  <2>2. CASE UNCHANGED entryVars
    BY <2>2 DEF entryVars, txVars, buildVars, EntryInv, TypeOK, ToldFor, Charged, Encoded,
                LegsMeetTheirExchange, IsOneEach
  <2> QED
    BY <2>1, <2>2
<1> QED
  BY <1>1, EntryInitially, PTL DEF EntrySpec

\* The type invariant: amounts are naturals and the word has 256 bits, for any
\* routes, fees and legs.
THEOREM EntryTypesCorrect == EntrySpec => []EntryTypeOK
<1>1. EntryInv => EntryTypeOK
  <2> SUFFICES ASSUME EntryInv
               PROVE  EntryTypeOK
    OBVIOUS
  <2>1. /\ FromAmount(route) \in Nat /\ TxValue(route) \in Nat
    BY BuilderAssumption DEF EntryInv, TypeOK, WellFormed, FromAmount, TxValue
  <2>2. FeeWord(fee) \subseteq 0..255
    <3>0. fee \in Fees
      BY DEF EntryInv
    <3>1. Payee(fee) \subseteq 0..159 /\ PercentBits(fee) \subseteq 0..13
      BY <3>0, FeeFields
    <3>2. {96 + b : b \in Payee(fee)} \subseteq 0..255
      BY <3>1
    <3> QED
      BY <3>1, <3>2 DEF FeeWord, If
  <2>3. told.src \in Nat /\ told.fees \subseteq 0..255
    <3>1. CASE told = NotTold
      BY <3>1 DEF NotTold
    <3>2. CASE told # NotTold
      <4>1. route \in Routes /\ HasDirectShape(route, method) /\ told = ToldFor
        BY <3>2 DEF EntryInv, TypeOK
      <4>2. DirectSrcAmount(route) \in Nat
        BY <4>1, DirectFacts
      <4> QED
        BY <2>2, <4>1, <4>2 DEF ToldFor
    <3> QED
      BY <3>1, <3>2
  <2>4. TxTypeOK
    <3>1. CASE tx = Charged
      <4>1. Encoded
        BY <3>1 DEF Encoded, Charged
      <4>2. tx.from \in Nat /\ tx.value \in Nat
        BY <2>1, <3>1, <4>1, DirectFacts DEF EntryInv, TypeOK, Charged
      <4> QED
        BY <2>2, <3>1, <4>1, <4>2 DEF EntryInv, TxTypeOK, Charged, Encoded
    <3>2. CASE tx # Charged
      BY <3>2 DEF EntryInv, TxTypeOK
    <3> QED
      BY <3>1, <3>2
  <2> QED
    BY <2>3, <2>4 DEF EntryInv, EntryTypeOK
<1> QED
  BY <1>1, EntryInvariant, PTL

\* What the encoders of the first swaps are told to take never comes to more than the
\* contract takes from the user, and of ETH than is sent along: for any number of
\* exchanges and any amounts, whichever of each exchange and its fallback runs, and
\* however the scaling of a BUY rounds (SrcAmount in getDexCallParams, the fromAmount
\* of buildGenericSwapDataABI).
THEOREM SharesAlwaysCovered == EntrySpec => []SharesAreCovered
<1>1. EntryInv => SharesAreCovered
  <2> SUFFICES ASSUME EntryInv, Encoded, phase = "built"
               PROVE  LET taken == MapThenSumSet(Taken, FirstPositions(route)) IN
                      /\ taken <= tx.from
                      /\ route.src = ETH => taken <= tx.value
    BY DEF SharesAreCovered
  <2>1. tx = Charged /\ entry # "direct"
    BY DEF EntryInv, Encoded, Nothing, Error
  <2>2. tx.from = FromAmount(route) /\ tx.value = TxValue(route)
    BY <2>1 DEF Charged
  <2>3. MapThenSumSet(Taken, FirstPositions(route)) <= FromAmount(route)
    BY TakenIsCovered DEF EntryInv, TypeOK
  <2> QED
    BY <2>2, <2>3 DEF TxValue
<1> QED
  BY <1>1, EntryInvariant, PTL

\* The packed fee word gives back every field that the user asked for, for any
\* partner and any percentage up to the highest (BuildFeesV6).
THEOREM FeesAlwaysReadBack == EntrySpec => []FeesReadBack
<1>1. EntryInv => FeesReadBack
  <2> SUFFICES ASSUME EntryInv
               PROVE  FeesReadBack
    OBVIOUS
  <2>1. Encoded => tx.fees = FeeWord(fee)
    BY DEF EntryInv, Encoded, Nothing, Error, Charged
  <2> QED
    BY <2>1, WordReadsBack DEF EntryInv
<1> QED
  BY <1>1, EntryInvariant, PTL

\* A direct build charges the user what the bytecode of the same route would, for
\* any route that has its shape (DirectParamInput, directTxValue).
THEOREM DirectChargedAlike == EntrySpec => []DirectIsChargedAlike
<1>1. EntryInv => DirectIsChargedAlike
  <2> SUFFICES ASSUME EntryInv, Encoded, entry = "direct"
               PROVE  /\ route.src = ETH => tx.from <= tx.value
                      /\ method # "batch" => tx.from = FromAmount(route)
                                             /\ tx.value = TxValue(route)
    BY DEF DirectIsChargedAlike
  <2>1. tx = Charged /\ HasDirectShape(route, method)
    BY DEF EntryInv, Encoded, Nothing, Error
  <2>2. tx.from = DirectSrcAmount(route) /\ tx.value = DirectValue(route)
    BY <2>1 DEF Charged
  <2> QED
    BY <2>1, <2>2, DirectFacts DEF EntryInv, TypeOK
<1> QED
  BY <1>1, EntryInvariant, PTL

\* Each exchange gets the one leg that was brought for it, in the order of the route
\* plan, and legs are refused only if they are wrong, for plans of any shape and
\* lists of any length (validateBuildInput, getOrderedLegs).
THEOREM LegsAlwaysMeet == EntrySpec => []LegsMeetTheirExchange
<1>1. EntryInv => LegsMeetTheirExchange
  BY DEF EntryInv
<1> QED
  BY <1>1, EntryInvariant, PTL
=============================================================================
