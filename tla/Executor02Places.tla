--------------------------- MODULE Executor02Places ---------------------------
(***************************************************************************)
(* The places of Executor02's bytecode: where each part that the builder   *)
(* appends lies in the whole, the funds that a run holds wherever one of   *)
(* its steps is next, and why the funds that a part leaves behind are in   *)
(* the form that the next one takes.                                       *)
(*                                                                         *)
(* First what a flattened row of parts is, then where paths, swaps, splits,*)
(* exchanges, groups and the stages of units lie; the places of a run, from*)
(* AtRootWrap to Located; what the build that Executor02 is chosen for has *)
(* planned, so that forms meet; and last what a step does to the funds, and*)
(* how a unit runs from stage to stage. Executor02Proofs runs the whole    *)
(* bytecode from place to place.                                           *)
(***************************************************************************)
EXTENDS Executor02, TxBuilderProofs, FiniteSetTheorems, SequenceTheorems, WellFoundedInduction

-----------------------------------------------------------------------------
(* Sequences, and where the parts of one that is put together lie in it. *)

\* p is a sequence, of whatever.
IsSeq(p) == \E S : p \in Seq(S)

\* The steps of p are those of c behind index at.
Lies(c, at, p) ==
    /\ at \in Nat /\ at + Len(p) <= Len(c)
    /\ \A n \in 1..Len(p) : c[at + n] = p[n]

\* Of numbers there is a least one.
LEMMA LeastNumber ==
    ASSUME NEW Bad, Bad \subseteq Nat, Bad # {}
    PROVE  \E n \in Bad : \A m \in Bad : ~(m < n)
<1> DEFINE R == {ss \in Nat \X Nat : ss[1] < ss[2]}
<1>1. IsWellFoundedOn(R, Nat)
  BY NatLessThanWellFounded DEF OpToRel
<1> HIDE DEF R
<1>2. PICK n \in Bad : \A m \in Bad : ~(<<m, n>> \in R)
  BY <1>1, WFMin, Zenon
<1> QED
  BY <1>2 DEF R

\* The length of a sequence is a number.
LEMMA SeqShape ==
    ASSUME NEW p, IsSeq(p)
    PROVE  Len(p) \in Nat /\ DOMAIN p = 1..Len(p)
BY LenProperties DEF IsSeq

\* A function on the numbers up to one is a sequence.
LEMMA ListIsSeq ==
    ASSUME NEW n \in Nat, NEW p, p = [k \in 1..n |-> p[k]]
    PROVE  IsSeq(p) /\ Len(p) = n
<1> DEFINE S == {p[k] : k \in 1..n}
<1>1. p \in [1..n -> S]
  OBVIOUS
<1>2. p \in Seq(S)
  BY <1>1
<1>3. Len(p) = n
  BY <1>1
<1> QED
  BY <1>2, <1>3 DEF IsSeq

\* No steps at all are a sequence.
LEMMA EmptyIsSeq == IsSeq(<<>>) /\ Len(<<>>) = 0
<1>1. <<>> \in Seq({})
  OBVIOUS
<1> QED
  BY <1>1 DEF IsSeq

\* A single step is a sequence.
LEMMA SingleIsSeq ==
    ASSUME NEW s
    PROVE  IsSeq(<<s>>) /\ Len(<<s>>) = 1 /\ <<s>>[1] = s
<1>1. <<s>> \in Seq({s})
  OBVIOUS
<1> QED
  BY <1>1 DEF IsSeq

\* A part that is there on a condition is a sequence, and takes no room where the
\* condition fails.
LEMMA IfIsSeq ==
    ASSUME NEW c, NEW p, IsSeq(p)
    PROVE  IsSeq(If(c, p)) /\ Len(If(c, p)) = IF c THEN Len(p) ELSE 0
BY EmptyIsSeq DEF If

\* Two sequences in a row.
LEMMA Joined ==
    ASSUME NEW p, NEW q, IsSeq(p), IsSeq(q)
    PROVE  /\ IsSeq(p \o q)
           /\ Len(p \o q) = Len(p) + Len(q)
           /\ \A n \in 1..Len(p) : (p \o q)[n] = p[n]
           /\ \A n \in 1..Len(q) : (p \o q)[Len(p) + n] = q[n]
<1>1. PICK S : p \in Seq(S)
  BY DEF IsSeq
<1>2. PICK T : q \in Seq(T)
  BY DEF IsSeq
<1> DEFINE U == S \union T
<1>3. p \in Seq(U) /\ q \in Seq(U)
  BY <1>1, <1>2, SeqMonotonic, Zenon
<1>4. Len(p) \in Nat /\ Len(q) \in Nat
  BY <1>3, LenProperties
<1> HIDE DEF U
<1>5. /\ p \o q \in Seq(U)
      /\ Len(p \o q) = Len(p) + Len(q)
      /\ \A i \in 1..(Len(p) + Len(q)) :
            (p \o q)[i] = IF i <= Len(p) THEN p[i] ELSE q[i - Len(p)]
  BY <1>3, ConcatProperties
<1>6. IsSeq(p \o q)
  BY <1>5 DEF IsSeq
<1>7. \A n \in 1..Len(p) : (p \o q)[n] = p[n]
  BY <1>4, <1>5
<1>8. ASSUME NEW n \in 1..Len(q)
      PROVE  (p \o q)[Len(p) + n] = q[n]
  BY <1>4, <1>5
<1> QED
  BY <1>5, <1>6, <1>7, <1>8

\* Two sequences in a row are a sequence, as long as both.
LEMMA JoinedShape ==
    ASSUME NEW p, NEW q, IsSeq(p), IsSeq(q)
    PROVE  IsSeq(p \o q) /\ Len(p \o q) = Len(p) + Len(q) /\ Len(p) \in Nat /\ Len(q) \in Nat
<1>1. IsSeq(p \o q) /\ Len(p \o q) = Len(p) + Len(q)
  BY Joined, Zenon
<1> QED
  BY <1>1, SeqShape

\* The parts of what lies in a sequence lie in it, one behind the other.
LEMMA PartsLie ==
    ASSUME NEW c, IsSeq(c), NEW at, NEW p, NEW q, IsSeq(p), IsSeq(q), Lies(c, at, p \o q)
    PROVE  Lies(c, at, p) /\ Lies(c, at + Len(p), q)
<1>1. Len(p) \in Nat /\ Len(q) \in Nat /\ Len(c) \in Nat /\ at \in Nat
  BY SeqShape DEF Lies
<1>2. Len(p \o q) = Len(p) + Len(q) /\ at + Len(p \o q) <= Len(c)
  BY Joined DEF Lies
<1>3. \A n \in 1..(Len(p) + Len(q)) : c[at + n] = (p \o q)[n]
  BY <1>2 DEF Lies
<1>4. Lies(c, at, p)
  <2>1. \A n \in 1..Len(p) : (p \o q)[n] = p[n]
    BY Joined
  <2>2. \A n \in 1..Len(p) : c[at + n] = p[n]
    BY <1>1, <1>3, <2>1
  <2> QED
    BY <1>1, <1>2, <2>2 DEF Lies
<1>5. Lies(c, at + Len(p), q)
  <2>1. \A n \in 1..Len(q) : (p \o q)[Len(p) + n] = q[n]
    BY Joined
  <2>2. ASSUME NEW n \in 1..Len(q)
        PROVE  c[at + Len(p) + n] = q[n]
    <3>1. Len(p) + n \in 1..(Len(p) + Len(q)) /\ at + Len(p) + n = at + (Len(p) + n)
      BY <1>1
    <3> QED
      BY <1>3, <2>1, <3>1
  <2> QED
    BY <1>1, <1>2, <2>2 DEF Lies
<1> QED
  BY <1>4, <1>5

\* A single step that lies there.
LEMMA StepLies ==
    ASSUME NEW c, NEW at, NEW s, Lies(c, at, <<s>>)
    PROVE  at \in Nat /\ at + 1 <= Len(c) /\ c[at + 1] = s
<1>1. Len(<<s>>) = 1 /\ <<s>>[1] = s
  BY SingleIsSeq
<1> QED
  BY <1>1 DEF Lies

-----------------------------------------------------------------------------
(* Flattening. *)

\* flat[i] is the first i of the sequences in a row.
PrefixesOf(flat, seqs) ==
    flat = [i \in 1..Len(seqs) |-> IF i = 1 THEN seqs[i] ELSE flat[i - 1] \o seqs[i]]

\* The function that flattening is defined by exists: the prefixes grow by one sequence
\* each.
LEMMA PrefixesExist ==
    ASSUME NEW seqs, Len(seqs) \in Nat
    PROVE  \E flat : PrefixesOf(flat, seqs)
<1> DEFINE Upto(flat, n) ==
              flat = [i \in 1..n |-> IF i = 1 THEN seqs[i] ELSE flat[i - 1] \o seqs[i]]
           Bad == {n \in Nat : ~ \E flat : Upto(flat, n)}
<1>1. Bad = {}
  <2> SUFFICES ASSUME Bad # {}
               PROVE  FALSE
    OBVIOUS
  <2>1. PICK n \in Bad : \A m \in Bad : ~(m < n)
    <3>1. Bad \subseteq Nat
      OBVIOUS
    <3> HIDE DEF Bad
    <3> QED
      BY <3>1, LeastNumber
  <2>2. CASE n = 0
    <3>1. Upto([i \in 1..0 |-> 0], 0)
      OBVIOUS
    <3> QED
      BY <2>2, <3>1
  <2>3. CASE n # 0
    <3>1. n - 1 \in Nat /\ n - 1 < n
      BY <2>3
    <3>2. PICK flat : Upto(flat, n - 1)
      BY <2>1, <3>1
    <3> DEFINE more == [i \in 1..n |-> IF i = 1 THEN seqs[i] ELSE flat[i - 1] \o seqs[i]]
    <3>3. \A i \in 1..(n - 1) : flat[i] = IF i = 1 THEN seqs[i] ELSE flat[i - 1] \o seqs[i]
      BY <3>2, Zenon
    <3>4. \A i \in 1..(n - 1) : flat[i] = more[i]
      BY <3>1, <3>3
    <3>5. \A i \in 1..n : i # 1 => i - 1 \in 1..(n - 1)
      BY <3>1
    <3>6. \A i \in 1..n : more[i] = IF i = 1 THEN seqs[i] ELSE more[i - 1] \o seqs[i]
      BY <3>4, <3>5
    <3>7. DOMAIN more = 1..n /\ more = [i \in DOMAIN more |-> more[i]]
      OBVIOUS
    <3> HIDE DEF more
    <3>8. Upto(more, n)
      BY <3>6, <3>7, Zenon
    <3> QED
      BY <3>8
  <2> QED
    BY <2>2, <2>3
<1>2. \E flat : Upto(flat, Len(seqs))
  BY <1>1
<1> QED
  BY <1>2 DEF PrefixesOf

\* off[i] is the length of the first i of the sequences.
IsOffsets(off, seqs) ==
    /\ off \in [0..Len(seqs) -> Nat]
    /\ off[0] = 0
    /\ off[Len(seqs)] = Len(FlattenSeq(seqs))
    /\ \A n \in 1..Len(seqs) : off[n] = off[n - 1] + Len(seqs[n]) /\ off[n] <= off[Len(seqs)]

\* Where each of the sequences starts in what flattening yields.
Off(seqs) == CHOOSE off : IsOffsets(off, seqs)

\* What flattening yields is the last of the prefixes; nothing, for no sequences.
LEMMA FlattenIsPrefix ==
    ASSUME NEW seqs, Len(seqs) \in Nat
    PROVE  \E flat : /\ PrefixesOf(flat, seqs)
                     /\ Len(seqs) # 0 => FlattenSeq(seqs) = flat[Len(seqs)]
<1>1. PICK flat : PrefixesOf(flat, seqs)
  BY PrefixesExist
<1> DEFINE it == CHOOSE f : PrefixesOf(f, seqs)
<1>2. PrefixesOf(it, seqs)
  BY <1>1
<1>3. Len(seqs) # 0 => FlattenSeq(seqs) = it[Len(seqs)]
  BY DEF FlattenSeq, PrefixesOf
<1> QED
  BY <1>2, <1>3

\* The sequences lie in what flattening yields, each at its offset.
LEMMA Flattened ==
    ASSUME NEW seqs, IsSeq(seqs), \A n \in 1..Len(seqs) : IsSeq(seqs[n])
    PROVE  /\ IsSeq(FlattenSeq(seqs))
           /\ IsOffsets(Off(seqs), seqs)
           /\ \A n \in 1..Len(seqs) : Lies(FlattenSeq(seqs), Off(seqs)[n - 1], seqs[n])
<1> DEFINE N == Len(seqs)
<1>0. N \in Nat
  BY SeqShape
<1>1. PICK flat : PrefixesOf(flat, seqs) /\ (N # 0 => FlattenSeq(seqs) = flat[N])
  BY <1>0, FlattenIsPrefix
<1>2. \A i \in 1..N : flat[i] = IF i = 1 THEN seqs[i] ELSE flat[i - 1] \o seqs[i]
  BY <1>1 DEF PrefixesOf
\* Each prefix is a sequence and each sequence lies in all prefixes from its own on.
<1> DEFINE At(k) == IF k = 1 THEN 0 ELSE Len(flat[k - 1])
           Good(i) == /\ IsSeq(flat[i])
                      /\ Len(flat[i]) = At(i) + Len(seqs[i])
                      /\ \A k \in 1..i : /\ Lies(flat[i], At(k), seqs[k])
                                         /\ Len(flat[k]) <= Len(flat[i])
           Bad == {i \in 1..N : ~Good(i)}
<1> HIDE DEF Good
<1>3. Bad = {}
  <2> SUFFICES ASSUME Bad # {}
               PROVE  FALSE
    OBVIOUS
  <2>1. PICK i \in Bad : \A m \in Bad : ~(m < i)
    <3>1. Bad \subseteq Nat
      BY <1>0
    <3> HIDE DEF Bad
    <3> QED
      BY <3>1, LeastNumber
  <2>2. CASE i = 1
    <3>1. flat[1] = seqs[1] /\ IsSeq(seqs[1]) /\ Len(seqs[1]) \in Nat
      BY <1>0, <1>2, <2>1, <2>2, SeqShape
    <3>2. Lies(flat[1], 0, seqs[1])
      BY <3>1 DEF Lies
    <3>3. \A k \in 1..1 : k = 1
      OBVIOUS
    <3>4. Good(1)
      BY <3>1, <3>2, <3>3 DEF Good
    <3> QED
      BY <2>1, <2>2, <3>4
  <2>3. CASE i # 1
    <3>1. i - 1 \in 1..N /\ i \in 1..N /\ i - 1 < i
      BY <1>0, <2>1, <2>3
    <3>2. Good(i - 1)
      BY <2>1, <3>1
    <3> DEFINE f == flat[i - 1]
               t == seqs[i]
               g == flat[i]
    <3>3. g = f \o t /\ IsSeq(t) /\ At(i) = Len(f)
      BY <1>2, <2>3, <3>1
    <3>4. IsSeq(f) /\ Len(f) \in Nat /\ Len(t) \in Nat
      BY <3>2, <3>3, SeqShape DEF Good
    <3>5. /\ IsSeq(g)
          /\ Len(g) = Len(f) + Len(t)
          /\ \A n \in 1..Len(f) : g[n] = f[n]
          /\ \A n \in 1..Len(t) : g[Len(f) + n] = t[n]
      <4> HIDE DEF f, g, t
      <4> QED
        BY <3>3, <3>4, Joined
    <3>6. Lies(g, Len(f), t)
      <4> HIDE DEF f, g, t
      <4> QED
        BY <3>4, <3>5 DEF Lies
    <3>7. ASSUME NEW k \in 1..(i - 1)
          PROVE  Lies(g, At(k), seqs[k]) /\ Len(flat[k]) <= Len(g)
      <4>1. Lies(f, At(k), seqs[k]) /\ Len(flat[k]) <= Len(f)
        BY <3>2 DEF Good
      <4>2. k \in 1..N /\ k < i /\ Len(seqs[k]) \in Nat
        BY <1>0, <3>1, SeqShape
      <4> DEFINE a == At(k)
                 u == seqs[k]
                 h == flat[k]
      <4>3. Lies(f, a, u) /\ Len(h) <= Len(f) /\ Len(u) \in Nat
        BY <4>1, <4>2
      <4>4. Good(k)
        BY <2>1, <4>2
      <4>5. IsSeq(h)
        BY <4>4 DEF Good
      <4> HIDE DEF a, u, h, f, g, t
      <4>6. Len(h) \in Nat
        BY <4>5, SeqShape
      <4>7. Len(h) <= Len(g)
        BY <3>4, <3>5, <4>3, <4>6
      <4>8. Lies(g, a, u)
        <5>1. a \in Nat /\ a + Len(u) <= Len(f) /\ \A n \in 1..Len(u) : f[a + n] = u[n]
          BY <4>3 DEF Lies
        <5>2. \A n \in 1..Len(u) : a + n \in 1..Len(f)
          BY <3>4, <4>3, <5>1
        <5>3. \A n \in 1..Len(u) : g[a + n] = u[n]
          BY <3>5, <5>1, <5>2
        <5>4. a + Len(u) <= Len(g)
          BY <3>4, <3>5, <4>3, <5>1
        <5> QED
          BY <5>1, <5>3, <5>4 DEF Lies
      <4> QED
        BY <4>7, <4>8 DEF a, u, h, g
    <3>8. \A k \in 1..i : k \in 1..(i - 1) \/ k = i
      BY <3>1
    <3>9. Len(g) = At(i) + Len(t) /\ Len(g) <= Len(g)
      <4> HIDE DEF At, f, g, t
      <4> QED
        BY <3>3, <3>4, <3>5
    <3>10. \A k \in 1..i : Lies(g, At(k), seqs[k]) /\ Len(flat[k]) <= Len(g)
      BY <3>3, <3>6, <3>7, <3>8, <3>9
    <3>11. Good(i)
      BY <3>5, <3>9, <3>10 DEF Good
    <3> QED
      BY <2>1, <3>11
  <2> QED
    BY <2>2, <2>3
<1>4. \A i \in 1..N : Good(i)
  BY <1>3
<1> HIDE DEF Bad
<1> DEFINE off == [n \in 0..N |-> IF n = 0 THEN 0 ELSE Len(flat[n])]
<1>5. \A i \in 1..N : Len(flat[i]) \in Nat /\ Len(seqs[i]) \in Nat
  <2>1. \A i \in 1..N : IsSeq(flat[i])
    BY <1>4 DEF Good
  <2> QED
    BY <2>1, SeqShape
<1>6. CASE N = 0
  <2>1. FlattenSeq(seqs) = seqs
    BY <1>6 DEF FlattenSeq
  <2>2. IsOffsets(off, seqs)
    BY <1>6, <2>1 DEF IsOffsets
  <2>3. IsOffsets(Off(seqs), seqs)
    BY <2>2 DEF Off
  <2> QED
    BY <1>6, <2>1, <2>3
<1>7. CASE N # 0
  <2>1. N \in 1..N /\ FlattenSeq(seqs) = flat[N]
    BY <1>0, <1>1, <1>7
  <2>2. IsSeq(FlattenSeq(seqs))
    BY <1>4, <2>1 DEF Good
  <2>3. off \in [0..N -> Nat] /\ off[0] = 0 /\ off[N] = Len(FlattenSeq(seqs))
    BY <1>0, <1>5, <1>7, <2>1
  <2>4. ASSUME NEW n \in 1..N
        PROVE  off[n - 1] = At(n) /\ off[n] = off[n - 1] + Len(seqs[n]) /\ off[n] <= off[N]
    <3>1. n - 1 \in 0..N /\ n \in 0..N /\ n # 0 /\ N \in 0..N /\ (n - 1 = 0 <=> n = 1)
      BY <1>0
    <3>2. off[n - 1] = At(n) /\ off[n] = Len(flat[n]) /\ off[N] = Len(flat[N])
      BY <1>7, <3>1
    <3>3. Len(flat[n]) = At(n) + Len(seqs[n])
      BY <1>4 DEF Good
    <3>4. Len(flat[n]) <= Len(flat[N])
      BY <1>4, <2>1 DEF Good
    <3> HIDE DEF off, At
    <3> QED
      BY <3>2, <3>3, <3>4
  <2>5. IsOffsets(off, seqs)
    BY <2>3, <2>4 DEF IsOffsets
  <2>6. IsOffsets(Off(seqs), seqs)
    BY <2>5 DEF Off
  \* There is but one such function.
  <2>7. \A n \in 1..N : Off(seqs)[n - 1] = off[n - 1]
    <3> DEFINE o == Off(seqs)
               Differ == {n \in 0..N : o[n] # off[n]}
    <3>1. Differ = {}
      <4> SUFFICES ASSUME Differ # {}
                   PROVE  FALSE
        OBVIOUS
      <4>1. PICK n \in Differ : \A m \in Differ : ~(m < n)
        <5>1. Differ \subseteq Nat
          OBVIOUS
        <5> HIDE DEF Differ
        <5> QED
          BY <5>1, LeastNumber
      <4>2. n # 0
        BY <2>3, <2>6, <4>1 DEF IsOffsets
      <4>3. n - 1 \in 0..N /\ n \in 1..N /\ n - 1 < n
        BY <1>0, <4>1, <4>2
      <4>4. o[n - 1] = off[n - 1]
        BY <4>1, <4>3
      <4>5. o[n] = o[n - 1] + Len(seqs[n]) /\ off[n] = off[n - 1] + Len(seqs[n])
        BY <2>5, <2>6, <4>3 DEF IsOffsets
      <4> HIDE DEF o, off
      <4> QED
        BY <4>1, <4>4, <4>5
    <3> HIDE DEF o, off
    <3>2. \A n \in 1..N : n - 1 \in 0..N
      BY <1>0
    <3> QED
      BY <3>1, <3>2 DEF o
  <2>8. ASSUME NEW n \in 1..N
        PROVE  Lies(FlattenSeq(seqs), Off(seqs)[n - 1], seqs[n])
    <3>1. Lies(flat[N], At(n), seqs[n])
      BY <1>4, <2>1 DEF Good
    <3>2. Off(seqs)[n - 1] = At(n)
      <4>1. off[n - 1] = At(n)
        BY <2>4
      <4> QED
        BY <2>7, <4>1
    <3> HIDE DEF off, At
    <3> QED
      BY <2>1, <3>1, <3>2
  <2> QED
    BY <2>2, <2>6, <2>8
<1> QED
  BY <1>6, <1>7

-----------------------------------------------------------------------------
(* The positions of a route. *)

\* How many paths, and exchanges of a swap, there are.
NPaths == Len(route.paths)
ExchangeCount(i, j) == Len(route.paths[i].swaps[j].exchanges)

\* Paths, swaps and exchanges are numbered from one on, and there is one of each.
LEMMA RouteShape ==
    ASSUME SoldOverPaths(route)
    PROVE  /\ NPaths \in Nat \ {0} /\ DOMAIN route.paths = 1..NPaths
           /\ \A i \in 1..NPaths :
                /\ LastSwap(i) \in Nat \ {0} /\ DOMAIN route.paths[i].swaps = 1..LastSwap(i)
                /\ \A j \in 1..LastSwap(i) :
                    /\ ExchangeCount(i, j) \in Nat \ {0}
                    /\ DOMAIN route.paths[i].swaps[j].exchanges = 1..ExchangeCount(i, j)
  BY DEF SoldOverPaths, IsRoutePlan, IsList, NPaths, LastSwap, ExchangeCount

\* What a position is.
InRoute(i, j, k) == i \in 1..NPaths /\ j \in 1..LastSwap(i) /\ k \in 1..ExchangeCount(i, j)

\* A position is a path, a swap of it and an exchange of that.
LEMMA PositionHas ==
    ASSUME SoldOverPaths(route), NEW pos \in Positions(route)
    PROVE  /\ pos = <<pos[1], pos[2], pos[3]>> /\ InRoute(pos[1], pos[2], pos[3])
           /\ pos[1] \in Nat /\ pos[2] \in Nat /\ pos[3] \in Nat
<1>1. PICK i \in DOMAIN route.paths :
            pos \in UNION {{<<i, j, k>> : k \in DOMAIN route.paths[i].swaps[j].exchanges}
                    : j \in DOMAIN route.paths[i].swaps}
  BY DEF Positions
<1>2. PICK j \in DOMAIN route.paths[i].swaps :
            pos \in {<<i, j, k>> : k \in DOMAIN route.paths[i].swaps[j].exchanges}
  BY <1>1
<1>3. PICK k \in DOMAIN route.paths[i].swaps[j].exchanges : pos = <<i, j, k>>
  BY <1>2
<1> QED
  BY <1>1, <1>2, <1>3, RouteShape DEF InRoute

\* And each path, swap and exchange is a position.
LEMMA PositionIs ==
    ASSUME SoldOverPaths(route), NEW i, NEW j, NEW k
    PROVE  <<i, j, k>> \in Positions(route) <=> InRoute(i, j, k)
<1>1. ASSUME <<i, j, k>> \in Positions(route)
      PROVE  InRoute(i, j, k)
  BY <1>1, PositionHas
<1>2. ASSUME InRoute(i, j, k)
      PROVE  <<i, j, k>> \in Positions(route)
  <2>1. i \in DOMAIN route.paths /\ j \in DOMAIN route.paths[i].swaps
        /\ k \in DOMAIN route.paths[i].swaps[j].exchanges
    BY <1>2, RouteShape DEF InRoute
  <2>2. <<i, j, k>> \in {<<i, j, l>> : l \in DOMAIN route.paths[i].swaps[j].exchanges}
    BY <2>1
  <2>3. <<i, j, k>> \in UNION {{<<i, h, l>> : l \in DOMAIN route.paths[i].swaps[h].exchanges}
                                : h \in DOMAIN route.paths[i].swaps}
    BY <2>1, <2>2
  <2> QED
    BY <2>1, <2>3 DEF Positions
<1> QED
  BY <1>1, <1>2

\* The exchanges of a swap, and when it is split.
LEMMA SwapHas ==
    ASSUME SoldOverPaths(route), NEW i \in 1..NPaths, NEW j \in 1..LastSwap(i)
    PROVE  /\ OfSwap(i, j) = {<<i, j, k>> : k \in 1..ExchangeCount(i, j)}
           /\ Cardinality(OfSwap(i, j)) = ExchangeCount(i, j)
<1> DEFINE n == ExchangeCount(i, j)
           f == [k \in 1..n |-> <<i, j, k>>]
<1>1. n \in Nat
  BY RouteShape
<1>2. \A pos \in OfSwap(i, j) : \E k \in 1..n : pos = <<i, j, k>>
  BY PositionHas DEF OfSwap, InRoute
<1>3. \A k \in 1..n : <<i, j, k>> \in OfSwap(i, j)
  BY PositionIs DEF OfSwap, InRoute
<1>4. OfSwap(i, j) = {<<i, j, k>> : k \in 1..n}
  BY <1>2, <1>3
<1>5. f \in Bijection(1..n, OfSwap(i, j))
  BY <1>4 DEF Bijection, Injection, Surjection, IsInjective
<1>6. IsFiniteSet(1..n) /\ Cardinality(1..n) = n
  BY <1>1, FS_Interval
<1>7. Cardinality(OfSwap(i, j)) = n
  <2>1. ExistsBijection(1..n, OfSwap(i, j))
    BY <1>5 DEF ExistsBijection
  <2> QED
    BY <1>6, <2>1, FS_Bijection
<1> QED
  BY <1>4, <1>7

\* An exchange of a swap that is not split is alone.
LEMMA SplitIs ==
    ASSUME SoldOverPaths(route), NEW i, NEW j, NEW k, InRoute(i, j, k)
    PROVE  /\ IsSplit(<<i, j, k>>) <=> ExchangeCount(i, j) > 1
           /\ ~IsSplit(<<i, j, k>>) => ExchangeCount(i, j) = 1 /\ k = 1
<1>1. Cardinality(OfSwap(i, j)) = ExchangeCount(i, j)
  BY SwapHas DEF InRoute
<1>2. IsSplit(<<i, j, k>>) <=> Cardinality(OfSwap(i, j)) > 1
  BY DEF IsSplit
<1> QED
  BY <1>1, <1>2, RouteShape DEF InRoute

-----------------------------------------------------------------------------
(* Where the steps are. *)

\* The members of a split, each between its share and its end.
BlocksOf(members) ==
    [n \in DOMAIN members |->
        <<MemberStep(members[n].token)>> \o members[n].code \o <<YieldStep>>]

\* The index behind which the code of a member lies, in a split that lies behind at.
MemberAt(at, members, n) == at + 2 + Off(BlocksOf(members))[n - 1]

\* The index behind which it ends.
Behind(at, members, n) == MemberAt(at, members, n) + Len(members[n].code)

\* A split is a sequence, its members' blocks lie in a row, each two steps longer than
\* its code.
LEMMA SplitIsSeq ==
    ASSUME NEW N \in Nat, NEW members, DOMAIN members = 1..N,
           \A n \in 1..N : IsSeq(members[n].code),
           NEW inserts, NEW measured
    PROVE  /\ IsSeq(SplitOver(inserts, members, measured))
           /\ IsSeq(FlattenSeq(BlocksOf(members)))
           /\ IsOffsets(Off(BlocksOf(members)), BlocksOf(members))
           /\ IsSeq(BlocksOf(members)) /\ Len(BlocksOf(members)) = N
           /\ \A n \in 1..N : Lies(FlattenSeq(BlocksOf(members)), Off(BlocksOf(members))[n - 1],
                                   BlocksOf(members)[n])
           /\ \A n \in 1..N : /\ IsSeq(BlocksOf(members)[n])
                              /\ Len(BlocksOf(members)[n]) = Len(members[n].code) + 2
<1> DEFINE blocks == BlocksOf(members)
<1>1. blocks = [n \in 1..N |-> blocks[n]]
  BY DEF BlocksOf
<1>2. IsSeq(blocks) /\ Len(blocks) = N
  BY <1>1, ListIsSeq
<1>3. ASSUME NEW n \in 1..N
      PROVE  IsSeq(blocks[n]) /\ Len(blocks[n]) = Len(members[n].code) + 2
  <2> DEFINE s == <<MemberStep(members[n].token)>>
             m == members[n].code
             y == <<YieldStep>>
  <2>1. blocks[n] = (s \o m) \o y
    BY DEF BlocksOf
  <2>2. IsSeq(s) /\ IsSeq(m) /\ IsSeq(y) /\ Len(s) = 1 /\ Len(y) = 1 /\ Len(m) \in Nat
    BY SingleIsSeq, SeqShape
  <2> HIDE DEF s, m, y
  <2>3. IsSeq(s \o m) /\ Len(s \o m) = 1 + Len(m)
    BY <2>2, JoinedShape
  <2>4. IsSeq((s \o m) \o y) /\ Len((s \o m) \o y) = Len(m) + 2
    BY <2>2, <2>3, JoinedShape
  <2> QED
    BY <2>1, <2>4 DEF m
<1> HIDE DEF blocks
<1>4. /\ IsSeq(FlattenSeq(blocks)) /\ IsOffsets(Off(blocks), blocks)
      /\ \A n \in 1..N : Lies(FlattenSeq(blocks), Off(blocks)[n - 1], blocks[n])
  BY <1>2, <1>3, Flattened
<1>5. IsSeq(SplitOver(inserts, members, measured))
  <2> DEFINE s == <<SplitStep(inserts)>>
             f == FlattenSeq(blocks)
             j == <<JoinStep(measured)>>
  <2>1. SplitOver(inserts, members, measured) = (s \o f) \o j
    BY DEF SplitOver, BlocksOf, blocks
  <2>2. IsSeq(s) /\ IsSeq(f) /\ IsSeq(j)
    BY <1>4, SingleIsSeq
  <2> HIDE DEF s, f, j
  <2>3. IsSeq(s \o f)
    BY <2>2, JoinedShape
  <2>4. IsSeq((s \o f) \o j)
    BY <2>2, <2>3, JoinedShape
  <2> QED
    BY <2>1, <2>4
<1> QED
  BY <1>2, <1>3, <1>4, <1>5 DEF blocks

\* What lies in what lies in c.
LEMMA LiesWithin ==
    ASSUME NEW c, IsSeq(c), NEW at, NEW p, IsSeq(p), Lies(c, at, p),
           NEW o, NEW q, IsSeq(q), Lies(p, o, q)
    PROVE  Lies(c, at + o, q)
<1>1. Len(c) \in Nat /\ Len(p) \in Nat /\ Len(q) \in Nat /\ at \in Nat /\ o \in Nat
  BY SeqShape DEF Lies
<1>2. at + Len(p) <= Len(c) /\ o + Len(q) <= Len(p)
  BY DEF Lies
<1>3. ASSUME NEW n \in 1..Len(q)
      PROVE  c[at + o + n] = q[n]
  <2>1. o + n \in 1..Len(p) /\ at + o + n = at + (o + n)
    BY <1>1, <1>2
  <2>2. p[o + n] = q[n]
    BY DEF Lies
  <2>3. c[at + (o + n)] = p[o + n]
    BY <2>1 DEF Lies
  <2> QED
    BY <2>1, <2>2, <2>3
<1> QED
  BY <1>1, <1>2, <1>3 DEF Lies

\* The steps of a split and the members' codes, in order.
LEMMA SplitLies ==
    ASSUME NEW N \in Nat \ {0}, NEW members, DOMAIN members = 1..N,
           \A n \in 1..N : IsSeq(members[n].code),
           NEW inserts, NEW measured,
           NEW c, IsSeq(c), NEW at, Lies(c, at, SplitOver(inserts, members, measured))
    PROVE  /\ at \in Nat /\ c[at + 1] = SplitStep(inserts)
           /\ MemberAt(at, members, 1) = at + 2
           /\ \A n \in 1..N :
                /\ MemberAt(at, members, n) \in Nat /\ Len(members[n].code) \in Nat
                /\ c[MemberAt(at, members, n)] = MemberStep(members[n].token)
                /\ Lies(c, MemberAt(at, members, n), members[n].code)
                /\ c[Behind(at, members, n) + 1] = YieldStep
                /\ n < N => MemberAt(at, members, n + 1) = Behind(at, members, n) + 2
                /\ Behind(at, members, n) + 2 <= Len(c)
           /\ c[Behind(at, members, N) + 2] = JoinStep(measured)
           /\ Behind(at, members, N) + 2 = at + Len(SplitOver(inserts, members, measured))
<1> DEFINE blocks == BlocksOf(members)
           off == Off(blocks)
           s == <<SplitStep(inserts)>>
           f == FlattenSeq(blocks)
           j == <<JoinStep(measured)>>
<1>1. SplitOver(inserts, members, measured) = (s \o f) \o j
  BY DEF SplitOver, BlocksOf
<1>2. /\ IsSeq(f) /\ IsOffsets(off, blocks) /\ Len(blocks) = N
      /\ \A n \in 1..N : Lies(f, off[n - 1], blocks[n])
      /\ \A n \in 1..N : IsSeq(blocks[n]) /\ Len(blocks[n]) = Len(members[n].code) + 2
  BY SplitIsSeq
<1>3. IsSeq(s) /\ IsSeq(j) /\ Len(s) = 1 /\ Len(j) = 1
  BY SingleIsSeq
<1> HIDE DEF blocks, off, f
<1>4. Lies(c, at, s) /\ Lies(c, at + 1, f) /\ Lies(c, at + 1 + Len(f), j)
      /\ Len((s \o f) \o j) = Len(f) + 2
  <2> HIDE DEF s, j
  <2>1. IsSeq(s \o f) /\ Len(s \o f) = 1 + Len(f) /\ Len(f) \in Nat
    BY <1>2, <1>3, JoinedShape
  <2>2. Lies(c, at, s \o f) /\ Lies(c, at + (1 + Len(f)), j)
    BY <1>1, <1>3, <2>1, PartsLie
  <2>3. Lies(c, at, s) /\ Lies(c, at + 1, f)
    BY <1>2, <1>3, <2>2, PartsLie
  <2>4. at \in Nat /\ at + (1 + Len(f)) = at + 1 + Len(f)
    BY <2>1 DEF Lies
  <2>5. Len((s \o f) \o j) = Len(f) + 2
    BY <1>3, <2>1, JoinedShape
  <2> QED
    BY <2>2, <2>3, <2>4, <2>5
<1>5. at \in Nat /\ c[at + 1] = SplitStep(inserts)
  BY <1>4, StepLies
<1>6. c[at + 1 + Len(f) + 1] = JoinStep(measured) /\ Len(f) \in Nat
  BY <1>2, <1>4, StepLies, SeqShape
<1>7. /\ off \in [0..N -> Nat] /\ off[0] = 0 /\ off[N] = Len(f)
      /\ \A n \in 1..N : off[n] = off[n - 1] + Len(blocks[n])
  BY <1>2 DEF IsOffsets, f
<1>8. \A n \in 1..N : MemberAt(at, members, n) = at + 2 + off[n - 1]
  BY DEF MemberAt, off, blocks
<1>9. ASSUME NEW n \in 1..N
      PROVE  /\ MemberAt(at, members, n) \in Nat /\ Len(members[n].code) \in Nat
             /\ c[MemberAt(at, members, n)] = MemberStep(members[n].token)
             /\ Lies(c, MemberAt(at, members, n), members[n].code)
             /\ c[Behind(at, members, n) + 1] = YieldStep
             /\ Behind(at, members, n) + 2 = at + 2 + off[n]
             /\ Behind(at, members, n) + 1 <= Len(c)
  <2> DEFINE t == <<MemberStep(members[n].token)>>
             m == members[n].code
             y == <<YieldStep>>
             a == at + 1 + off[n - 1]
  <2>1. blocks[n] = (t \o m) \o y
    BY DEF BlocksOf, blocks
  <2>2. IsSeq(t) /\ IsSeq(m) /\ IsSeq(y) /\ Len(t) = 1 /\ Len(y) = 1 /\ Len(m) \in Nat
    BY SingleIsSeq, SeqShape
  <2>3. n - 1 \in 0..N /\ off[n - 1] \in Nat /\ off[n] = off[n - 1] + Len(m) + 2
    <3>1. n - 1 \in 0..N
      OBVIOUS
    <3>2. Len(blocks[n]) = Len(m) + 2 /\ off[n] = off[n - 1] + Len(blocks[n])
      BY <1>2, <1>7
    <3>3. off[n - 1] \in Nat
      BY <1>7, <3>1
    <3> DEFINE l == Len(m)
               x == off[n - 1]
               z == off[n]
    <3>4. x \in Nat /\ l \in Nat /\ z = x + (l + 2)
      BY <2>2, <3>2, <3>3
    <3> HIDE DEF l, x, z
    <3>5. z = x + l + 2
      BY <3>4
    <3> QED
      BY <3>1, <3>3, <3>5 DEF l, x, z
  <2>4. Lies(c, a, blocks[n])
    <3>1. Lies(c, (at + 1) + off[n - 1], blocks[n])
      BY <1>2, <1>4, LiesWithin
    <3> QED
      BY <3>1
  <2> HIDE DEF t, m, y, a
  <2>5. Lies(c, a, t) /\ Lies(c, a + 1, m) /\ Lies(c, a + 1 + Len(m), y)
    <3>1. IsSeq(t \o m) /\ Len(t \o m) = 1 + Len(m)
      BY <2>2, JoinedShape
    <3>2. Lies(c, a, t \o m) /\ Lies(c, a + (1 + Len(m)), y)
      BY <2>1, <2>2, <2>4, <3>1, PartsLie
    <3>3. Lies(c, a, t) /\ Lies(c, a + 1, m)
      BY <2>2, <3>2, PartsLie
    <3>4. a \in Nat /\ a + (1 + Len(m)) = a + 1 + Len(m)
      BY <2>2, <3>3 DEF Lies
    <3> QED
      BY <3>2, <3>3, <3>4
  <2>6. a + 1 = MemberAt(at, members, n) /\ a \in Nat
    <3>1. MemberAt(at, members, n) = at + 2 + off[n - 1]
      BY <1>8
    <3> DEFINE o == off[n - 1]
    <3>2. o \in Nat /\ a = at + 1 + o /\ MemberAt(at, members, n) = at + 2 + o
      BY <2>3, <3>1 DEF a
    <3> HIDE DEF o
    <3> QED
      BY <1>5, <3>2
  <2>7. c[a + 1] = MemberStep(members[n].token)
    BY <2>5, StepLies DEF t
  <2>8. c[a + 1 + Len(m) + 1] = YieldStep /\ a + 1 + Len(m) + 1 <= Len(c)
    BY <2>5, StepLies DEF y
  <2>9. Behind(at, members, n) = a + 1 + Len(m)
    BY <2>6 DEF Behind, m
  <2>10. Behind(at, members, n) + 2 = at + 2 + off[n]
    <3> DEFINE o == off[n - 1]
    <3>1. o \in Nat /\ off[n] = o + Len(m) + 2 /\ a = at + 1 + o
      BY <2>3 DEF a
    <3> HIDE DEF o
    <3> QED
      BY <1>5, <2>2, <2>9, <3>1
  <2>11. Lies(c, MemberAt(at, members, n), members[n].code) /\ Len(members[n].code) \in Nat
    BY <2>2, <2>5, <2>6 DEF m
  <2> QED
    BY <2>2, <2>6, <2>7, <2>8, <2>9, <2>10, <2>11
<1>10. ASSUME NEW n \in 1..N, n < N
       PROVE  MemberAt(at, members, n + 1) = Behind(at, members, n) + 2
  BY <1>8, <1>9, <1>10
<1>11. MemberAt(at, members, 1) = at + 2
  BY <1>5, <1>7, <1>8
<1>12. Behind(at, members, N) + 2 = at + 1 + Len(f) + 1
  <2>1. N \in 1..N
    OBVIOUS
  <2>2. Behind(at, members, N) + 2 = at + 2 + off[N]
    BY <1>9, <2>1
  <2> QED
    BY <1>5, <1>6, <1>7, <2>2
<1>13. at + 1 + Len(f) + 1 <= Len(c)
  BY <1>4, StepLies
<1>14. ASSUME NEW n \in 1..N
       PROVE  Behind(at, members, n) + 2 <= Len(c)
  <2>1. off[n] <= off[N] /\ off[n] \in Nat
    BY <1>2, <1>7 DEF IsOffsets
  <2>2. Behind(at, members, n) + 2 = at + 2 + off[n] /\ Len(c) \in Nat
    BY <1>9, SeqShape
  <2> QED
    BY <1>5, <1>6, <1>7, <1>13, <2>1, <2>2
<1> QED
  BY <1>1, <1>4, <1>5, <1>6, <1>9, <1>10, <1>11, <1>12, <1>14

\* The stages of a unit: one step where the stage applies, none where it does not.
UnitParts(P, pos, b) ==
    [n \in DOMAIN Stages |->
        If(UnitHas(P, pos, b, Stages[n]), <<UnitStep(P, pos, Stages[n])>>)]

\* The index behind which the unit goes on from its stage n, if it lies behind at.
StageAt(at, P, pos, b, n) == at + Off(UnitParts(P, pos, b))[n - 1]

\* The eleven stages of a unit, by number.
LEMMA StageNames ==
    /\ DOMAIN Stages = 1..11
    /\ Stages[1] = "unwrapBefore" /\ Stages[2] = "approveWeth" /\ Stages[3] = "deposit"
    /\ Stages[4] = "approve" /\ Stages[5] = "transferSrc" /\ Stages[6] = "unwrapSrc"
    /\ Stages[7] = "dex" /\ Stages[8] = "wrapDest" /\ Stages[9] = "withdraw"
    /\ Stages[10] = "forward" /\ Stages[11] = "sendNative"
  BY DEF Stages

\* A unit is a sequence of eleven parts, each at its offset.
LEMMA UnitIsSeq ==
    ASSUME NEW P, NEW pos, NEW b
    PROVE  /\ IsSeq(Unit(P, pos, b)) /\ Len(Unit(P, pos, b)) \in Nat
           /\ IsOffsets(Off(UnitParts(P, pos, b)), UnitParts(P, pos, b))
           /\ Len(UnitParts(P, pos, b)) = 11
           /\ Unit(P, pos, b) = FlattenSeq(UnitParts(P, pos, b))
           /\ \A n \in 1..11 :
                /\ Lies(Unit(P, pos, b), Off(UnitParts(P, pos, b))[n - 1], UnitParts(P, pos, b)[n])
                /\ IsSeq(UnitParts(P, pos, b)[n])
<1> DEFINE parts == UnitParts(P, pos, b)
<1>1. IsSeq(parts) /\ Len(parts) = 11
  <2>1. parts = [n \in 1..11 |-> parts[n]]
    BY StageNames DEF UnitParts
  <2> HIDE DEF parts
  <2> QED
    BY <2>1, ListIsSeq
<1>2. ASSUME NEW n \in 1..11
      PROVE  IsSeq(parts[n])
  <2>1. parts[n] = If(UnitHas(P, pos, b, Stages[n]), <<UnitStep(P, pos, Stages[n])>>)
    BY StageNames DEF UnitParts
  <2>2. IsSeq(<<UnitStep(P, pos, Stages[n])>>)
    BY SingleIsSeq
  <2> QED
    BY <2>1, <2>2, IfIsSeq
<1>3. Unit(P, pos, b) = FlattenSeq(parts)
  BY DEF Unit, UnitParts
<1> HIDE DEF parts
<1>4. /\ IsSeq(FlattenSeq(parts)) /\ IsOffsets(Off(parts), parts)
      /\ \A n \in 1..11 : Lies(FlattenSeq(parts), Off(parts)[n - 1], parts[n])
  BY <1>1, <1>2, Flattened
<1>5. Len(Unit(P, pos, b)) \in Nat
  BY <1>3, <1>4, SeqShape
<1> QED
  BY <1>1, <1>2, <1>3, <1>4, <1>5 DEF parts

\* A stage that is there is a step, behind it comes the next stage; one that is not
\* takes no room.
LEMMA UnitLies ==
    ASSUME NEW P, NEW pos, NEW b, NEW c, IsSeq(c), NEW at, Lies(c, at, Unit(P, pos, b))
    PROVE  /\ at \in Nat
           /\ StageAt(at, P, pos, b, 1) = at
           /\ StageAt(at, P, pos, b, 12) = at + Len(Unit(P, pos, b))
           /\ \A n \in 1..11 :
                /\ StageAt(at, P, pos, b, n) \in Nat
                /\ StageAt(at, P, pos, b, n) <= at + Len(Unit(P, pos, b))
                /\ UnitHas(P, pos, b, Stages[n]) =>
                    /\ c[StageAt(at, P, pos, b, n) + 1] = UnitStep(P, pos, Stages[n])
                    /\ StageAt(at, P, pos, b, n) + 1 <= at + Len(Unit(P, pos, b))
                    /\ StageAt(at, P, pos, b, n + 1) = StageAt(at, P, pos, b, n) + 1
                /\ ~UnitHas(P, pos, b, Stages[n]) =>
                    StageAt(at, P, pos, b, n + 1) = StageAt(at, P, pos, b, n)
<1> DEFINE parts == UnitParts(P, pos, b)
           off == Off(parts)
           u == Unit(P, pos, b)
<1>1. /\ IsSeq(u) /\ Len(u) \in Nat /\ IsOffsets(off, parts) /\ Len(parts) = 11
      /\ \A n \in 1..11 : Lies(u, off[n - 1], parts[n]) /\ IsSeq(parts[n])
      /\ u = FlattenSeq(parts)
  BY UnitIsSeq
<1>2. /\ off \in [0..11 -> Nat] /\ off[0] = 0 /\ off[11] = Len(u)
      /\ \A n \in 1..11 : off[n] = off[n - 1] + Len(parts[n]) /\ off[n] <= off[11]
  BY <1>1 DEF IsOffsets
<1>3. at \in Nat
  BY DEF Lies
<1>4. \A n \in 1..12 : StageAt(at, P, pos, b, n) = at + off[n - 1]
  BY DEF StageAt
<1>5. \A n \in 1..11 :
        parts[n] = If(UnitHas(P, pos, b, Stages[n]), <<UnitStep(P, pos, Stages[n])>>)
  BY StageNames DEF UnitParts
<1> HIDE DEF parts, off
<1>6. ASSUME NEW n \in 1..11
      PROVE  /\ StageAt(at, P, pos, b, n) \in Nat
             /\ StageAt(at, P, pos, b, n) <= at + Len(u)
             /\ UnitHas(P, pos, b, Stages[n]) =>
                    /\ c[StageAt(at, P, pos, b, n) + 1] = UnitStep(P, pos, Stages[n])
                    /\ StageAt(at, P, pos, b, n) + 1 <= at + Len(u)
                    /\ StageAt(at, P, pos, b, n + 1) = StageAt(at, P, pos, b, n) + 1
             /\ ~UnitHas(P, pos, b, Stages[n]) =>
                    StageAt(at, P, pos, b, n + 1) = StageAt(at, P, pos, b, n)
  <2> DEFINE o == off[n - 1]
             p == off[n]
             s == UnitStep(P, pos, Stages[n])
             has == UnitHas(P, pos, b, Stages[n])
             l == Len(parts[n])
  <2>1. StageAt(at, P, pos, b, n) = at + o /\ StageAt(at, P, pos, b, n + 1) = at + p
    <3>1. n \in 1..12 /\ n + 1 \in 1..12 /\ n + 1 - 1 = n
      OBVIOUS
    <3> QED
      BY <1>4, <3>1
  <2>2. o \in Nat /\ p \in Nat /\ p = o + l /\ p <= Len(u)
    <3>1. n - 1 \in 0..11 /\ n \in 0..11
      OBVIOUS
    <3> QED
      BY <1>2, <3>1
  <2>3. Lies(c, at + o, parts[n])
    <3>1. Lies(u, o, parts[n]) /\ IsSeq(parts[n])
      BY <1>1
    <3> HIDE DEF u, o
    <3> QED
      BY <1>1, <3>1, LiesWithin DEF u
  <2>4. l = IF has THEN 1 ELSE 0
    BY <1>5, SingleIsSeq, EmptyIsSeq DEF If
  <2>5. has => c[at + o + 1] = s
    <3>1. has => parts[n] = <<s>>
      BY <1>5 DEF If
    <3> HIDE DEF o, s, has
    <3> QED
      BY <2>3, <3>1, StepLies
  <2> HIDE DEF o, p, l, has, s, u
  <2>6. /\ at + o \in Nat /\ at + o <= at + Len(u)
        /\ has => at + o + 1 <= at + Len(u) /\ at + p = at + o + 1
        /\ ~has => at + p = at + o
    BY <1>1, <1>3, <2>2, <2>4
  <2> QED
    BY <2>1, <2>5, <2>6 DEF has, s
<1>7. StageAt(at, P, pos, b, 1) = at /\ StageAt(at, P, pos, b, 12) = at + Len(u)
  <2>1. StageAt(at, P, pos, b, 1) = at + off[0] /\ StageAt(at, P, pos, b, 12) = at + off[11]
    <3>1. 1 - 1 = 0 /\ 12 - 1 = 11
      OBVIOUS
    <3> QED
      BY <3>1 DEF StageAt, off, parts
  <2> HIDE DEF u
  <2> QED
    BY <1>2, <1>3, <2>1
<1> QED
  BY <1>3, <1>6, <1>7 DEF u

-----------------------------------------------------------------------------
(* Groups, swaps, paths and the whole. *)

\* What short rows of steps add up to.
LEMMA ShortRows ==
    \A s, t : /\ <<>> \o <<>> = <<>> /\ <<s>> \o <<>> = <<s>> /\ <<>> \o <<s>> = <<s>>
              /\ <<s>> \o <<t>> = <<s, t>> /\ <<>> \o <<s, t>> = <<s, t>>
              /\ <<s, t>> \o <<>> = <<s, t>>
<1> TAKE s, t
<1> DEFINE S == {s, t}
<1>1. <<>> \in Seq(S) /\ <<s>> \in Seq(S) /\ <<t>> \in Seq(S) /\ <<s, t>> \in Seq(S)
  OBVIOUS
<1> HIDE DEF S
<1>2. /\ <<>> \o <<>> = <<>> /\ <<s>> \o <<>> = <<s>> /\ <<>> \o <<s>> = <<s>>
      /\ <<>> \o <<s, t>> = <<s, t>> /\ <<s, t>> \o <<>> = <<s, t>>
  BY <1>1, ConcatEmptySeq, Zenon
<1>3. <<s>> \o <<t>> = <<s, t>>
  <2> DEFINE r == <<s>> \o <<t>>
  <2>1. Len(<<s>>) = 1 /\ Len(<<t>>) = 1 /\ <<s>>[1] = s /\ <<t>>[1] = t
        /\ Len(<<s, t>>) = 2 /\ <<s, t>>[1] = s /\ <<s, t>>[2] = t
    OBVIOUS
  <2>2. r \in Seq(S) /\ Len(r) = Len(<<s>>) + Len(<<t>>)
    BY <1>1, ConcatProperties, Zenon
  <2>3. IsSeq(<<s>>) /\ IsSeq(<<t>>)
    BY SingleIsSeq
  <2>4. /\ \A n \in 1..Len(<<s>>) : r[n] = <<s>>[n]
        /\ \A n \in 1..Len(<<t>>) : r[Len(<<s>>) + n] = <<t>>[n]
    <3> DEFINE p == <<s>>
               q == <<t>>
    <3> HIDE DEF p, q
    <3>1. IsSeq(p) /\ IsSeq(q)
      BY <2>3 DEF p, q
    <3>2. /\ \A n \in 1..Len(p) : (p \o q)[n] = p[n]
          /\ \A n \in 1..Len(q) : (p \o q)[Len(p) + n] = q[n]
      BY <3>1, Joined
    <3> QED
      BY <3>2 DEF p, q
  <2> HIDE DEF r
  <2>5. r[1] = s /\ r[1 + 1] = t
    <3>1. 1 \in 1..Len(<<s>>) /\ 1 \in 1..Len(<<t>>)
      BY <2>1
    <3>2. r[1] = <<s>>[1] /\ r[Len(<<s>>) + 1] = <<t>>[1]
      BY <2>4, <3>1
    <3> QED
      BY <2>1, <3>2
  <2>6. Len(r) = 2
    BY <2>1, <2>2
  <2>7. r = <<s, t>>
    BY <1>1, <2>1, <2>2, <2>5, <2>6, SeqEqual
  <2> QED
    BY <2>7 DEF r
<1> QED
  BY <1>2, <1>3

\* The shapes of what is put around a fallback.
LEMMA AroundFallback ==
    ASSUME NEW pos
    PROVE  /\ InputSteps(pos) \in {<<>>, <<ApproveStep>>, <<UnwrapStep>>, <<WrapStep>>,
                                   <<ApproveStep, WrapStep>>}
           /\ OutputSteps(pos) \in {<<>>, <<WrapStep>>, <<UnwrapStep>>, <<SendNativeStep>>,
                                    <<UnwrapStep, SendNativeStep>>}
<1>1. InputSteps(pos) \in {<<>>, <<ApproveStep>>, <<UnwrapStep>>, <<WrapStep>>,
                                   <<ApproveStep, WrapStep>>}
  <2> DEFINE one == /\ Swap(route, pos).src = ETH /\ Primaries[pos].answer.wrap
                    /\ ~Deposits(Primaries, pos)
             two == /\ Swap(route, pos).src = ETH /\ ~Primaries[pos].answer.wrap
                    /\ Substituted(pos)[pos].answer.wrap
                    /\ "deposit" \in plan /\ ~Deposits(Substituted(pos), pos)
             data == /\ Substituted(pos)[pos].approve = "data"
                     /\ ~Substituted(pos)[pos].answer.skipApproval
             wrap == Substituted(pos)[pos].answer.wrap
  <2>1. InputSteps(pos) =
            If(one, IF wrap THEN If(data, <<ApproveStep>>) ELSE <<UnwrapStep>>)
            \o If(two, If(data, <<ApproveStep>>) \o <<WrapStep>>)
    BY DEF InputSteps
  <2>2. ~(one /\ two)
    OBVIOUS
  <2> HIDE DEF one, two, data, wrap
  <2> QED
    BY <2>1, <2>2, ShortRows DEF If
<1>2. OutputSteps(pos) \in {<<>>, <<WrapStep>>, <<UnwrapStep>>, <<SendNativeStep>>,
                                    <<UnwrapStep, SendNativeStep>>}
  BY ShortRows DEF OutputSteps, If
<1> QED
  BY <1>1, <1>2

\* What is put before and behind the unit of a fallback are sequences.
LEMMA AroundIsSeq ==
    ASSUME NEW pos
    PROVE  /\ IsSeq(InputSteps(pos)) /\ Len(InputSteps(pos)) \in Nat
           /\ IsSeq(OutputSteps(pos)) /\ Len(OutputSteps(pos)) \in Nat
<1>1. \A s, t : IsSeq(<<>>) /\ IsSeq(<<s>>) /\ IsSeq(<<s, t>>)
  <2> TAKE s, t
  <2>1. <<s, t>> \in Seq({s, t})
    OBVIOUS
  <2> QED
    BY <2>1, EmptyIsSeq, SingleIsSeq DEF IsSeq
<1>2. IsSeq(InputSteps(pos)) /\ IsSeq(OutputSteps(pos))
  BY <1>1, AroundFallback
<1> QED
  BY <1>2, SeqShape

\* The legs that a block is built from, the code of the two blocks of an exchange, and
\* the step that starts its group.
ParamsFor(pos, b) == IF b = "primary" THEN Primaries ELSE Substituted(pos)
TryOf(pos) == Unit(Primaries, pos, "primary")
OtherOf(pos) == Unit(Substituted(pos), pos, "fallback")
FallbackOf(pos) == InputSteps(pos) \o OtherOf(pos) \o OutputSteps(pos)
GroupOf(pos) ==
    GroupStep(Len(TryOf(pos)), Len(FallbackOf(pos)), IF IsSplit(pos) THEN {} ELSE Measured(pos))

\* An exchange is a unit, or a group: its step, the unit of the primary leg, the
\* fallback.
LEMMA ExchangeIs ==
    ASSUME NEW pos
    PROVE  /\ ~IsGrouped(pos) => ExchangeCode(pos) = TryOf(pos)
           /\ IsGrouped(pos) =>
                ExchangeCode(pos) = (<<GroupOf(pos)>> \o TryOf(pos)) \o FallbackOf(pos)
           /\ IsSeq(TryOf(pos)) /\ IsSeq(FallbackOf(pos))
           /\ IsSeq(ExchangeCode(pos)) /\ Len(ExchangeCode(pos)) \in Nat
<1>1. /\ ~IsGrouped(pos) => ExchangeCode(pos) = TryOf(pos)
      /\ IsGrouped(pos) =>
                ExchangeCode(pos) = (<<GroupOf(pos)>> \o TryOf(pos)) \o FallbackOf(pos)
  BY DEF ExchangeCode, TryOf, OtherOf, FallbackOf, GroupOf
<1>2. IsSeq(TryOf(pos)) /\ IsSeq(OtherOf(pos)) /\ IsSeq(InputSteps(pos)) /\ IsSeq(OutputSteps(pos))
  BY UnitIsSeq, AroundIsSeq DEF TryOf, OtherOf
<1>3. IsSeq(FallbackOf(pos))
  <2>1. IsSeq(InputSteps(pos) \o OtherOf(pos))
    BY <1>2, JoinedShape
  <2> QED
    BY <1>2, <2>1, JoinedShape DEF FallbackOf
<1>4. IsSeq((<<GroupOf(pos)>> \o TryOf(pos)) \o FallbackOf(pos))
  <2>1. IsSeq(<<GroupOf(pos)>>)
    BY SingleIsSeq
  <2>2. IsSeq(<<GroupOf(pos)>> \o TryOf(pos))
    BY <1>2, <2>1, JoinedShape
  <2> QED
    BY <1>3, <2>2, JoinedShape
<1>5. IsSeq(ExchangeCode(pos))
  BY <1>1, <1>2, <1>4
<1> QED
  BY <1>1, <1>2, <1>3, <1>5, SeqShape

\* The two blocks of a group, and what is around the unit in the second.
LEMMA GroupLies ==
    ASSUME NEW pos, IsGrouped(pos), NEW c, IsSeq(c), NEW at, Lies(c, at, ExchangeCode(pos))
    PROVE  /\ at \in Nat /\ at + 1 <= Len(c) /\ c[at + 1] = GroupOf(pos)
           /\ Lies(c, at + 1, TryOf(pos))
           /\ Lies(c, at + 1 + Len(TryOf(pos)), InputSteps(pos))
           /\ Lies(c, at + 1 + Len(TryOf(pos)) + Len(InputSteps(pos)), OtherOf(pos))
           /\ Lies(c, at + 1 + Len(TryOf(pos)) + Len(InputSteps(pos)) + Len(OtherOf(pos)),
                   OutputSteps(pos))
           /\ Len(FallbackOf(pos)) = Len(InputSteps(pos)) + Len(OtherOf(pos)) + Len(OutputSteps(pos))
           /\ Len(ExchangeCode(pos)) = 1 + Len(TryOf(pos)) + Len(FallbackOf(pos))
<1> DEFINE g == <<GroupOf(pos)>>
           t == TryOf(pos)
           f == FallbackOf(pos)
           i == InputSteps(pos)
           u == OtherOf(pos)
           o == OutputSteps(pos)
<1>1. ExchangeCode(pos) = (g \o t) \o f /\ f = (i \o u) \o o
  BY ExchangeIs DEF FallbackOf
<1>2. IsSeq(g) /\ IsSeq(t) /\ IsSeq(f) /\ IsSeq(i) /\ IsSeq(u) /\ IsSeq(o) /\ Len(g) = 1
  BY ExchangeIs, UnitIsSeq, AroundIsSeq, SingleIsSeq DEF OtherOf
<1> HIDE DEF g, t, f, i, u, o
<1>3. /\ IsSeq(g \o t) /\ Len(g \o t) = 1 + Len(t) /\ Len(t) \in Nat
      /\ IsSeq(i \o u) /\ Len(i \o u) = Len(i) + Len(u) /\ Len(i) \in Nat /\ Len(u) \in Nat
  BY <1>2, JoinedShape
<1>4. Len(f) = Len(i) + Len(u) + Len(o) /\ Len(o) \in Nat
  BY <1>1, <1>2, <1>3, JoinedShape
<1>5. Len(ExchangeCode(pos)) = 1 + Len(t) + Len(f)
  BY <1>1, <1>2, <1>3, JoinedShape
<1>6. Lies(c, at, g \o t) /\ Lies(c, at + (1 + Len(t)), f)
  BY <1>1, <1>2, <1>3, PartsLie
<1>7. Lies(c, at, g) /\ Lies(c, at + 1, t)
  BY <1>2, <1>6, PartsLie
<1>8. at \in Nat /\ at + 1 <= Len(c) /\ c[at + 1] = GroupOf(pos)
  BY <1>7, StepLies DEF g
<1>9. Lies(c, at + 1 + Len(t), f)
  <2>1. at + (1 + Len(t)) = at + 1 + Len(t)
    BY <1>3, <1>8
  <2> QED
    BY <1>6, <2>1
<1>10. Lies(c, at + 1 + Len(t), i \o u)
       /\ Lies(c, at + 1 + Len(t) + (Len(i) + Len(u)), o)
  BY <1>1, <1>2, <1>3, <1>9, PartsLie
<1>11. Lies(c, at + 1 + Len(t), i) /\ Lies(c, at + 1 + Len(t) + Len(i), u)
  BY <1>2, <1>10, PartsLie
<1>12. at + 1 + Len(t) + (Len(i) + Len(u)) = at + 1 + Len(t) + Len(i) + Len(u)
  BY <1>3, <1>8
<1> QED
  BY <1>4, <1>5, <1>7, <1>8, <1>10, <1>11, <1>12 DEF t, f, i, u, o

\* The members of a swap's split and of the root's, the swaps of a path.
MembersOf(i, j) ==
    [k \in DOMAIN route.paths[i].swaps[j].exchanges |->
        [token |-> ShareToken(<<i, j, k>>), code |-> ExchangeCode(<<i, j, k>>)]]
RootMembers == [i \in DOMAIN route.paths |-> [token |-> PathToken(i), code |-> PathCode(i)]]
PathParts(i) == [j \in DOMAIN route.paths[i].swaps |-> SwapCode(i, j)]

\* A swap without what is appended to it.
BareSwap(i, j) ==
    IF IsSplit(<<i, j, 1>>)
    THEN SplitOver(Several, MembersOf(i, j), IF Several THEN Measured(<<i, j, 1>>) ELSE {})
    ELSE ExchangeCode(<<i, j, 1>>)

\* The wrap behind a swap: a split's looks at the balance.
AppendedWrap(i, j) == IF IsSplit(<<i, j, 1>>) THEN MeasuredWrapStep ELSE WrapStep

\* A swap is its exchange or its split, with the wrap behind it where one is appended.
LEMMA SwapIs ==
    ASSUME SoldOverPaths(route), NEW i \in 1..NPaths, NEW j \in 1..LastSwap(i)
    PROVE  /\ SwapCode(i, j) = BareSwap(i, j) \o If(AppendsWrap(i, j), <<AppendedWrap(i, j)>>)
           /\ IsSeq(BareSwap(i, j)) /\ Len(BareSwap(i, j)) \in Nat
           /\ IsSeq(SwapCode(i, j))
           /\ Len(SwapCode(i, j)) = Len(BareSwap(i, j)) + IF AppendsWrap(i, j) THEN 1 ELSE 0
           /\ DOMAIN MembersOf(i, j) = 1..ExchangeCount(i, j)
           /\ \A k \in 1..ExchangeCount(i, j) :
                /\ MembersOf(i, j)[k].code = ExchangeCode(<<i, j, k>>)
                /\ MembersOf(i, j)[k].token = ShareToken(<<i, j, k>>)
                /\ IsSeq(MembersOf(i, j)[k].code)
<1> DEFINE n == ExchangeCount(i, j)
           members == MembersOf(i, j)
<1>1. n \in Nat \ {0} /\ DOMAIN route.paths[i].swaps[j].exchanges = 1..n
  BY RouteShape
<1>2. /\ DOMAIN members = 1..n
      /\ \A k \in 1..n : /\ members[k].code = ExchangeCode(<<i, j, k>>)
                         /\ members[k].token = ShareToken(<<i, j, k>>)
  BY <1>1 DEF MembersOf
<1>3. \A k \in 1..n : IsSeq(members[k].code)
  BY <1>2, ExchangeIs
<1>4. SwapCode(i, j) = BareSwap(i, j) \o If(AppendsWrap(i, j), <<AppendedWrap(i, j)>>)
  <2>1. 1 \in 1..n
    BY <1>1
  <2>2. members[1].code = ExchangeCode(<<i, j, 1>>)
    BY <1>2, <2>1
  <2>3. SwapCode(i, j) =
          (IF IsSplit(<<i, j, 1>>)
           THEN SplitOver(Several, members, IF Several THEN Measured(<<i, j, 1>>) ELSE {})
           ELSE members[1].code)
          \o If(AppendsWrap(i, j), <<IF IsSplit(<<i, j, 1>>) THEN MeasuredWrapStep ELSE WrapStep>>)
    BY DEF SwapCode, MembersOf
  <2> HIDE DEF members
  <2> QED
    BY <2>2, <2>3 DEF BareSwap, AppendedWrap, members
<1> HIDE DEF members
<1>5. IsSeq(BareSwap(i, j))
  <2>1. IsSeq(ExchangeCode(<<i, j, 1>>))
    BY ExchangeIs
  <2>2. \A ins, m : IsSeq(SplitOver(ins, members, m))
    BY <1>1, <1>2, <1>3, SplitIsSeq
  <2> QED
    BY <2>1, <2>2 DEF BareSwap, members
<1>6. /\ IsSeq(If(AppendsWrap(i, j), <<AppendedWrap(i, j)>>))
      /\ Len(If(AppendsWrap(i, j), <<AppendedWrap(i, j)>>)) = IF AppendsWrap(i, j) THEN 1 ELSE 0
  BY SingleIsSeq, IfIsSeq
<1>7. IsSeq(SwapCode(i, j)) /\ Len(BareSwap(i, j)) \in Nat
      /\ Len(SwapCode(i, j)) = Len(BareSwap(i, j)) + IF AppendsWrap(i, j) THEN 1 ELSE 0
  BY <1>4, <1>5, <1>6, JoinedShape
<1> QED
  BY <1>2, <1>3, <1>4, <1>5, <1>7 DEF members

\* A path is its swaps in a row, each at its offset.
LEMMA PathIs ==
    ASSUME SoldOverPaths(route), NEW i \in 1..NPaths
    PROVE  /\ PathCode(i) = FlattenSeq(PathParts(i))
           /\ IsSeq(PathParts(i)) /\ Len(PathParts(i)) = LastSwap(i)
           /\ \A j \in 1..LastSwap(i) : PathParts(i)[j] = SwapCode(i, j) /\ IsSeq(PathParts(i)[j])
           /\ IsSeq(PathCode(i)) /\ Len(PathCode(i)) \in Nat
           /\ IsOffsets(Off(PathParts(i)), PathParts(i))
           /\ \A j \in 1..LastSwap(i) : Lies(PathCode(i), Off(PathParts(i))[j - 1], SwapCode(i, j))
<1> DEFINE parts == PathParts(i)
           n == LastSwap(i)
<1>1. n \in Nat \ {0} /\ DOMAIN route.paths[i].swaps = 1..n
  BY RouteShape
<1>2. parts = [j \in 1..n |-> parts[j]] /\ \A j \in 1..n : parts[j] = SwapCode(i, j)
  BY <1>1 DEF PathParts
<1>3. \A j \in 1..n : IsSeq(parts[j])
  BY <1>2, SwapIs
<1>4. PathCode(i) = FlattenSeq(parts)
  BY DEF PathCode, PathParts
<1> HIDE DEF parts
<1>5. IsSeq(parts) /\ Len(parts) = n
  BY <1>1, <1>2, ListIsSeq
<1>6. /\ IsSeq(FlattenSeq(parts)) /\ IsOffsets(Off(parts), parts)
      /\ \A j \in 1..n : Lies(FlattenSeq(parts), Off(parts)[j - 1], parts[j])
  BY <1>3, <1>5, Flattened
<1>7. Len(PathCode(i)) \in Nat
  BY <1>4, <1>6, SeqShape
<1> QED
  BY <1>2, <1>3, <1>4, <1>5, <1>6, <1>7 DEF parts

\* What is put before and behind the routes, and what a split of the root measures.
RootWrapped == If(NeedWrapEth /\ RootWraps(Primaries), <<WrapStep>>)
RootTail ==
    If(NeedUnwrapEth /\ RootUnwraps(Primaries) /\ Several, <<UnwrapStep>>)
    \o If(RootUnwraps(Primaries) /\ Several, <<SendNativeStep>>)
RootMeasured == IF NeedUnwrapEth /\ RootUnwraps(Primaries) THEN {WETH} ELSE {}

\* The routes are a path, or a split of several.
LEMMA RoutesAre ==
    ASSUME SoldOverPaths(route)
    PROVE  /\ RoutesCode = IF IsMegaSwap(route) THEN SplitOver(FALSE, RootMembers, RootMeasured)
                           ELSE PathCode(1)
           /\ DOMAIN RootMembers = 1..NPaths
           /\ \A i \in 1..NPaths : /\ RootMembers[i].code = PathCode(i)
                                   /\ RootMembers[i].token = PathToken(i)
                                   /\ IsSeq(RootMembers[i].code)
           /\ IsSeq(RoutesCode) /\ Len(RoutesCode) \in Nat
           /\ IsMegaSwap(route) <=> NPaths > 1
           /\ ~IsMegaSwap(route) => NPaths = 1
<1>1. NPaths \in Nat \ {0} /\ DOMAIN route.paths = 1..NPaths
  BY RouteShape
<1>2. /\ DOMAIN RootMembers = 1..NPaths
      /\ \A i \in 1..NPaths : RootMembers[i].code = PathCode(i) /\ RootMembers[i].token = PathToken(i)
  BY <1>1 DEF RootMembers
<1>3. \A i \in 1..NPaths : IsSeq(PathCode(i))
  BY PathIs
<1>4. RoutesCode = IF IsMegaSwap(route) THEN SplitOver(FALSE, RootMembers, RootMeasured)
                   ELSE PathCode(1)
  BY DEF RoutesCode, RootMembers, RootMeasured
<1>5. \A ins, m : IsSeq(SplitOver(ins, RootMembers, m))
  BY <1>1, <1>2, <1>3, SplitIsSeq
<1>6. IsSeq(RoutesCode)
  <2>1. 1 \in 1..NPaths
    BY <1>1
  <2> QED
    BY <1>3, <1>4, <1>5, <2>1
<1>7. IsMegaSwap(route) <=> NPaths > 1
  BY DEF IsMegaSwap, NPaths
<1>8. ~IsMegaSwap(route) => NPaths = 1
  BY <1>1, <1>7
<1>9. Len(RoutesCode) \in Nat
  BY <1>6, SeqShape
<1>10. \A i \in 1..NPaths : IsSeq(RootMembers[i].code)
  BY <1>2, <1>3
<1> QED
  BY <1>2, <1>4, <1>6, <1>7, <1>8, <1>9, <1>10

\* The index behind which the routes lie: there is at most one wrap before them.
RootAt == Len(RootWrapped)
RoutesEnd == RootAt + Len(RoutesCode)

\* The bytecode is a sequence: the root's wrap, the routes, the root's unwrap and the
\* send.
LEMMA BytecodeIs ==
    ASSUME SoldOverPaths(route)
    PROVE  /\ IsSeq(Bytecode) /\ Len(Bytecode) \in Nat
           /\ RootAt \in Nat /\ RoutesEnd \in Nat
           /\ Lies(Bytecode, 0, RootWrapped)
           /\ Lies(Bytecode, RootAt, RoutesCode)
           /\ Lies(Bytecode, RoutesEnd, RootTail)
           /\ Len(Bytecode) = RoutesEnd + Len(RootTail)
<1> DEFINE w == RootWrapped
           r == RoutesCode
           u == If(NeedUnwrapEth /\ RootUnwraps(Primaries) /\ Several, <<UnwrapStep>>)
           s == If(RootUnwraps(Primaries) /\ Several, <<SendNativeStep>>)
           t == RootTail
           b == Bytecode
<1>1. b = ((w \o r) \o u) \o s /\ t = u \o s
  BY DEF Bytecode, RootWrapped, RootTail
<1>2. IsSeq(w) /\ IsSeq(r) /\ IsSeq(u) /\ IsSeq(s)
  BY RoutesAre, SingleIsSeq, IfIsSeq DEF RootWrapped
<1> HIDE DEF w, r, u, s, t, b
<1>3. /\ IsSeq(w \o r) /\ Len(w \o r) = Len(w) + Len(r) /\ Len(w) \in Nat /\ Len(r) \in Nat
      /\ IsSeq(t) /\ Len(t) = Len(u) + Len(s) /\ Len(u) \in Nat /\ Len(s) \in Nat
  BY <1>1, <1>2, JoinedShape
<1>4. IsSeq((w \o r) \o u) /\ Len((w \o r) \o u) = Len(w) + Len(r) + Len(u)
  BY <1>2, <1>3, JoinedShape
<1>5. IsSeq(b) /\ Len(b) = Len(w) + Len(r) + Len(u) + Len(s)
  BY <1>1, <1>2, <1>4, JoinedShape
<1>6. b = (w \o r) \o t
  <2>1. PICK S1 : (w \o r) \in Seq(S1)
    BY <1>3 DEF IsSeq
  <2>2. PICK S2 : u \in Seq(S2)
    BY <1>2 DEF IsSeq
  <2>3. PICK S3 : s \in Seq(S3)
    BY <1>2 DEF IsSeq
  <2> DEFINE U == S1 \union S2 \union S3
  <2>4. (w \o r) \in Seq(U) /\ u \in Seq(U) /\ s \in Seq(U)
    <3>1. S1 \subseteq U /\ S2 \subseteq U /\ S3 \subseteq U
      OBVIOUS
    <3> HIDE DEF U
    <3> QED
      BY <2>1, <2>2, <2>3, <3>1, SeqMonotonic
  <2> HIDE DEF U
  <2>5. ((w \o r) \o u) \o s = (w \o r) \o (u \o s)
    <3> DEFINE x == w \o r
    <3>1. x \in Seq(U)
      BY <2>4
    <3> HIDE DEF x
    <3>2. (x \o u) \o s = x \o (u \o s)
      BY <2>4, <3>1, ConcatAssociative
    <3> QED
      BY <3>2 DEF x
  <2> QED
    BY <1>1, <2>5
<1>7. Lies(b, 0, b)
  BY <1>5, SeqShape DEF Lies
<1>8. Lies(b, 0, w \o r) /\ Lies(b, 0 + (Len(w) + Len(r)), t)
  BY <1>3, <1>5, <1>6, <1>7, PartsLie
<1>9. Lies(b, 0, w) /\ Lies(b, 0 + Len(w), r)
  BY <1>2, <1>5, <1>8, PartsLie
<1>10. 0 + Len(w) = Len(w) /\ 0 + (Len(w) + Len(r)) = Len(w) + Len(r)
  BY <1>3
<1>11. Len(b) \in Nat /\ Len(b) = Len(w) + Len(r) + Len(t)
  BY <1>3, <1>5
<1> QED
  BY <1>3, <1>5, <1>8, <1>9, <1>10, <1>11 DEF RootAt, RoutesEnd, w, r, t, b

-----------------------------------------------------------------------------
(* Places: the index behind which the code of a part lies. *)

\* The index behind which a path, a swap, a swap without its wrap, an exchange, a unit
\* and a stage of it lie or end.
PathAt(i) == IF IsMegaSwap(route) THEN MemberAt(RootAt, RootMembers, i) ELSE RootAt
PathEnd(i) == PathAt(i) + Len(PathCode(i))
SwapAt(i, j) == PathAt(i) + Off(PathParts(i))[j - 1]
SwapEnd(i, j) == SwapAt(i, j) + Len(SwapCode(i, j))
BareEnd(i, j) == SwapAt(i, j) + Len(BareSwap(i, j))
ExAt(pos) ==
    IF IsSplit(pos) THEN MemberAt(SwapAt(pos[1], pos[2]), MembersOf(pos[1], pos[2]), pos[3])
    ELSE SwapAt(pos[1], pos[2])
ExEnd(pos) == ExAt(pos) + Len(ExchangeCode(pos))
UnitOf(pos, b) == Unit(ParamsFor(pos, b), pos, b)
InputAt(pos) == ExAt(pos) + 1 + Len(TryOf(pos))
UnitAt(pos, b) ==
    IF ~IsGrouped(pos) THEN ExAt(pos)
    ELSE IF b = "primary" THEN ExAt(pos) + 1 ELSE InputAt(pos) + Len(InputSteps(pos))
UnitEnd(pos, b) == UnitAt(pos, b) + Len(UnitOf(pos, b))
StageOf(pos, b, n) == StageAt(UnitAt(pos, b), ParamsFor(pos, b), pos, b, n)
Has(pos, b, n) == UnitHas(ParamsFor(pos, b), pos, b, Stages[n])
StepOf(pos, b, n) == UnitStep(ParamsFor(pos, b), pos, Stages[n])

\* The unwrap and the send behind the routes, and the index behind which the send, and
\* the end, lies.
UnwrapsAtRoot == NeedUnwrapEth /\ RootUnwraps(Primaries) /\ Several
SendsAtRoot == RootUnwraps(Primaries) /\ Several
SendAt == RoutesEnd + (IF UnwrapsAtRoot THEN 1 ELSE 0)
EndAt == SendAt + (IF SendsAtRoot THEN 1 ELSE 0)

\* The bytecode has this step at index p.
CodeHas(p, step) == p \in Nat /\ p <= Len(Bytecode) /\ Bytecode[p] = step

-----------------------------------------------------------------------------
(* Where they are. *)

\* The steps of the root lie before and behind the routes, and nothing behind those.
LEMMA RootLies ==
    ASSUME SoldOverPaths(route)
    PROVE  /\ RootAt = IF NeedWrapEth /\ RootWraps(Primaries) THEN 1 ELSE 0
           /\ RootAt = 1 => CodeHas(1, WrapStep)
           /\ RootAt \in Nat /\ RoutesEnd \in Nat
           /\ UnwrapsAtRoot => CodeHas(RoutesEnd + 1, UnwrapStep)
           /\ SendsAtRoot => CodeHas(SendAt + 1, SendNativeStep)
           /\ Len(Bytecode) = EndAt
<1>1. /\ IsSeq(Bytecode) /\ Len(Bytecode) \in Nat
      /\ RootAt \in Nat /\ RoutesEnd \in Nat
      /\ Lies(Bytecode, 0, RootWrapped)
      /\ Lies(Bytecode, RoutesEnd, RootTail)
      /\ Len(Bytecode) = RoutesEnd + Len(RootTail)
  BY BytecodeIs
<1>2. RootAt = IF NeedWrapEth /\ RootWraps(Primaries) THEN 1 ELSE 0
  BY IfIsSeq, SingleIsSeq DEF RootAt, RootWrapped
<1>3. RootAt = 1 => CodeHas(1, WrapStep)
  <2>1. RootAt = 1 => RootWrapped = <<WrapStep>>
    BY <1>2 DEF RootWrapped, If
  <2> QED
    BY <1>1, <2>1, StepLies DEF CodeHas
<1> DEFINE u == If(UnwrapsAtRoot, <<UnwrapStep>>)
           s == If(SendsAtRoot, <<SendNativeStep>>)
<1>4. RootTail = u \o s
  BY DEF RootTail, UnwrapsAtRoot, SendsAtRoot
<1>5. /\ IsSeq(u) /\ IsSeq(s)
      /\ Len(u) = (IF UnwrapsAtRoot THEN 1 ELSE 0) /\ Len(s) = (IF SendsAtRoot THEN 1 ELSE 0)
  BY IfIsSeq, SingleIsSeq
<1>6. (UnwrapsAtRoot => u = <<UnwrapStep>>) /\ (SendsAtRoot => s = <<SendNativeStep>>)
  BY DEF If
<1> HIDE DEF u, s
<1>7. Lies(Bytecode, RoutesEnd, u) /\ Lies(Bytecode, RoutesEnd + Len(u), s)
  BY <1>1, <1>4, <1>5, PartsLie
<1>8. UnwrapsAtRoot => CodeHas(RoutesEnd + 1, UnwrapStep)
  BY <1>1, <1>6, <1>7, StepLies DEF CodeHas
<1>9. SendAt = RoutesEnd + Len(u) /\ SendAt \in Nat /\ EndAt = SendAt + Len(s)
  BY <1>1, <1>5 DEF SendAt, EndAt
<1>10. SendsAtRoot => CodeHas(SendAt + 1, SendNativeStep)
  BY <1>6, <1>7, <1>9, StepLies DEF CodeHas
<1>11. Len(Bytecode) = EndAt
  <2>1. Len(RootTail) = Len(u) + Len(s)
    BY <1>4, <1>5, JoinedShape
  <2> QED
    BY <1>1, <1>5, <1>9, <2>1
<1> QED
  BY <1>1, <1>2, <1>3, <1>8, <1>10, <1>11

\* The paths, one behind the other, each a member of the root's split.
LEMMA PathsLie ==
    ASSUME SoldOverPaths(route)
    PROVE  /\ \A i \in 1..NPaths :
                /\ PathAt(i) \in Nat /\ PathEnd(i) \in Nat
                /\ Lies(Bytecode, PathAt(i), PathCode(i))
                /\ IsMegaSwap(route) =>
                    /\ CodeHas(PathAt(i), MemberStep(PathToken(i)))
                    /\ CodeHas(PathEnd(i) + 1, YieldStep)
                    /\ i < NPaths => PathAt(i + 1) = PathEnd(i) + 2
           /\ IsMegaSwap(route) =>
                /\ CodeHas(RootAt + 1, SplitStep(FALSE))
                /\ PathAt(1) = RootAt + 2
                /\ PathEnd(NPaths) + 2 = RoutesEnd
                /\ CodeHas(RoutesEnd, JoinStep(RootMeasured))
           /\ ~IsMegaSwap(route) =>
                NPaths = 1 /\ PathAt(1) = RootAt /\ PathEnd(1) = RoutesEnd
<1>1. /\ IsSeq(Bytecode) /\ Len(Bytecode) \in Nat
      /\ RootAt \in Nat /\ RoutesEnd \in Nat /\ RoutesEnd = RootAt + Len(RoutesCode)
      /\ Lies(Bytecode, RootAt, RoutesCode)
  BY BytecodeIs DEF RoutesEnd
<1>2. NPaths \in Nat \ {0}
  BY RouteShape
<1>3. CASE ~IsMegaSwap(route)
  <2>1. NPaths = 1 /\ RoutesCode = PathCode(1) /\ IsSeq(PathCode(1)) /\ Len(PathCode(1)) \in Nat
    BY <1>2, <1>3, RoutesAre, PathIs
  <2>2. PathAt(1) = RootAt /\ PathEnd(1) = RoutesEnd
    BY <1>1, <1>3, <2>1 DEF PathAt, PathEnd
  <2>3. \A i \in 1..NPaths : i = 1
    BY <2>1
  <2> QED
    BY <1>1, <1>3, <2>1, <2>2, <2>3
<1>4. CASE IsMegaSwap(route)
  <2>1. /\ RoutesCode = SplitOver(FALSE, RootMembers, RootMeasured)
        /\ DOMAIN RootMembers = 1..NPaths
        /\ \A i \in 1..NPaths : /\ RootMembers[i].code = PathCode(i)
                                /\ RootMembers[i].token = PathToken(i)
                                /\ IsSeq(RootMembers[i].code)
    BY <1>4, RoutesAre
  <2> DEFINE at == RootAt
             members == RootMembers
             m == RootMeasured
             c == Bytecode
             N == NPaths
             inserts == FALSE
  <2>2. /\ at \in Nat /\ c[at + 1] = SplitStep(inserts)
        /\ MemberAt(at, members, 1) = at + 2
        /\ \A n \in 1..N :
                /\ MemberAt(at, members, n) \in Nat /\ Len(members[n].code) \in Nat
                /\ c[MemberAt(at, members, n)] = MemberStep(members[n].token)
                /\ Lies(c, MemberAt(at, members, n), members[n].code)
                /\ c[Behind(at, members, n) + 1] = YieldStep
                /\ n < N => MemberAt(at, members, n + 1) = Behind(at, members, n) + 2
                /\ Behind(at, members, n) + 2 <= Len(c)
        /\ c[Behind(at, members, N) + 2] = JoinStep(m)
        /\ Behind(at, members, N) + 2 = at + Len(SplitOver(inserts, members, m))
    <3> HIDE DEF at, members, m, c, N, inserts
    <3>1. /\ N \in Nat \ {0} /\ DOMAIN members = 1..N /\ \A n \in 1..N : IsSeq(members[n].code)
          /\ IsSeq(c) /\ Lies(c, at, SplitOver(inserts, members, m))
      BY <1>1, <1>2, <2>1 DEF at, members, m, c, N, inserts
    <3> QED
      BY <3>1, SplitLies
  <2>3. \A i \in 1..N : PathAt(i) = MemberAt(at, members, i) /\ PathEnd(i) = Behind(at, members, i)
    BY <1>4, <2>1 DEF PathAt, PathEnd, Behind
  <2>4. \A i \in 1..N : i < N => i + 1 \in 1..N
    BY <1>2
  <2>5. 1 \in 1..N /\ N \in 1..N
    BY <1>2
  <2> HIDE DEF at, members, m, c, N
  <2>6. ASSUME NEW i \in 1..N
        PROVE  /\ PathAt(i) \in Nat /\ PathEnd(i) \in Nat
               /\ Lies(c, PathAt(i), PathCode(i))
               /\ CodeHas(PathAt(i), MemberStep(PathToken(i)))
               /\ CodeHas(PathEnd(i) + 1, YieldStep)
               /\ i < N => PathAt(i + 1) = PathEnd(i) + 2
               /\ PathEnd(i) + 2 <= Len(c)
    <3>1. members[i].code = PathCode(i) /\ members[i].token = PathToken(i)
      BY <2>1 DEF N, members
    <3> DEFINE a == MemberAt(at, members, i)
               e == Behind(at, members, i)
               l == Len(members[i].code)
    <3>2. /\ a \in Nat /\ l \in Nat /\ e = a + l /\ e + 2 <= Len(c)
          /\ c[a] = MemberStep(members[i].token) /\ c[e + 1] = YieldStep
          /\ Lies(c, a, members[i].code)
          /\ PathAt(i) = a /\ PathEnd(i) = e
      BY <2>2, <2>3 DEF Behind
    <3>3. i < N => PathAt(i + 1) = e + 2
      BY <2>2, <2>3, <2>4
    <3>4. Len(c) \in Nat
      BY <1>1 DEF c
    <3> HIDE DEF a, e, l
    <3>5. e \in Nat /\ a <= Len(c) /\ e + 1 <= Len(c)
      BY <3>2, <3>4
    <3> QED
      BY <3>1, <3>2, <3>3, <3>4, <3>5 DEF CodeHas, c
  <2>7. /\ CodeHas(at + 1, SplitStep(FALSE)) /\ PathAt(1) = at + 2
        /\ PathEnd(N) + 2 = RoutesEnd /\ CodeHas(RoutesEnd, JoinStep(m))
    <3>1. PathAt(1) = at + 2 /\ c[at + 1] = SplitStep(FALSE) /\ at \in Nat
      BY <2>2, <2>3, <2>5
    <3>2. PathEnd(N) + 2 = RoutesEnd /\ c[PathEnd(N) + 2] = JoinStep(m) /\ PathEnd(N) + 2 <= Len(c)
      BY <1>1, <2>1, <2>2, <2>3, <2>5 DEF at, members, m
    <3>3. CodeHas(at + 2, MemberStep(PathToken(1)))
      BY <2>5, <2>6, <3>1
    <3>4. at + 1 <= Len(c) /\ RoutesEnd \in Nat
      BY <1>1, <3>1, <3>3 DEF CodeHas, c
    <3> QED
      BY <3>1, <3>2, <3>4 DEF CodeHas, c
  <2> QED
    BY <1>4, <2>6, <2>7 DEF c, m, at, N
<1> QED
  BY <1>3, <1>4

\* The swaps of a path, one behind the other.
LEMMA SwapsLie ==
    ASSUME SoldOverPaths(route), NEW i \in 1..NPaths
    PROVE  /\ SwapAt(i, 1) = PathAt(i) /\ SwapEnd(i, LastSwap(i)) = PathEnd(i)
           /\ \A j \in 1..LastSwap(i) :
                /\ SwapAt(i, j) \in Nat
                /\ Lies(Bytecode, SwapAt(i, j), SwapCode(i, j))
                /\ j < LastSwap(i) => SwapAt(i, j + 1) = SwapEnd(i, j)
<1> DEFINE p == PathCode(i)
           off == Off(PathParts(i))
           N == LastSwap(i)
           c == Bytecode
           a == PathAt(i)
<1>1. /\ IsSeq(p) /\ Len(p) \in Nat
      /\ IsOffsets(off, PathParts(i)) /\ Len(PathParts(i)) = N /\ p = FlattenSeq(PathParts(i))
      /\ \A j \in 1..N : /\ PathParts(i)[j] = SwapCode(i, j) /\ IsSeq(SwapCode(i, j))
                         /\ Lies(p, off[j - 1], SwapCode(i, j))
  BY PathIs
<1>2. N \in Nat \ {0} /\ IsSeq(c) /\ a \in Nat /\ Lies(c, a, p)
  BY RouteShape, BytecodeIs, PathsLie
<1>3. /\ off \in [0..N -> Nat] /\ off[0] = 0 /\ off[N] = Len(p)
      /\ \A j \in 1..N : off[j] = off[j - 1] + Len(SwapCode(i, j))
  BY <1>1 DEF IsOffsets
<1>4. \A j \in 1..N : SwapAt(i, j) = a + off[j - 1]
  BY DEF SwapAt
<1> HIDE DEF off, p, c, a
<1>5. ASSUME NEW j \in 1..N
      PROVE  /\ SwapAt(i, j) \in Nat /\ Lies(c, SwapAt(i, j), SwapCode(i, j))
             /\ SwapEnd(i, j) = a + off[j]
             /\ j < N => SwapAt(i, j + 1) = SwapEnd(i, j)
  <2> DEFINE o == off[j - 1]
             l == Len(SwapCode(i, j))
  <2>1. SwapAt(i, j) = a + o /\ SwapEnd(i, j) = a + o + l
    BY <1>4 DEF SwapEnd
  <2>2. o \in Nat /\ l \in Nat /\ off[j] = o + l
    <3>1. j - 1 \in 0..N
      BY <1>2
    <3> QED
      BY <1>1, <1>3, <3>1, SeqShape
  <2>3. Lies(c, a + o, SwapCode(i, j))
    <3>1. Lies(p, o, SwapCode(i, j)) /\ IsSeq(SwapCode(i, j))
      BY <1>1
    <3> HIDE DEF o
    <3> QED
      BY <1>1, <1>2, <3>1, LiesWithin
  <2>4. j < N => SwapAt(i, j + 1) = a + off[j]
    <3>1. j < N => j + 1 \in 1..N /\ j + 1 - 1 = j
      BY <1>2
    <3> QED
      BY <1>4, <3>1
  <2> HIDE DEF o, l
  <2> QED
    BY <1>2, <2>1, <2>2, <2>3, <2>4
<1>6. SwapAt(i, 1) = a
  <2>1. 1 \in 1..N /\ 1 - 1 = 0
    BY <1>2
  <2> QED
    BY <1>2, <1>3, <1>4, <2>1
<1>7. SwapEnd(i, N) = PathEnd(i)
  <2>1. N \in 1..N
    BY <1>2
  <2> QED
    BY <1>3, <1>5, <2>1 DEF PathEnd, p, a
<1> QED
  BY <1>5, <1>6, <1>7 DEF c, a

\* The exchanges of a swap: one, or the members of a split; what is appended to it.
LEMMA SwapPartsLie ==
    ASSUME SoldOverPaths(route), NEW i \in 1..NPaths, NEW j \in 1..LastSwap(i)
    PROVE  /\ BareEnd(i, j) \in Nat
           /\ SwapEnd(i, j) = BareEnd(i, j) + (IF AppendsWrap(i, j) THEN 1 ELSE 0)
           /\ AppendsWrap(i, j) => CodeHas(BareEnd(i, j) + 1, AppendedWrap(i, j))
           /\ Lies(Bytecode, SwapAt(i, j), BareSwap(i, j))
<1>1. /\ SwapCode(i, j) = BareSwap(i, j) \o If(AppendsWrap(i, j), <<AppendedWrap(i, j)>>)
      /\ IsSeq(BareSwap(i, j)) /\ Len(BareSwap(i, j)) \in Nat
      /\ Len(SwapCode(i, j)) = Len(BareSwap(i, j)) + IF AppendsWrap(i, j) THEN 1 ELSE 0
  BY SwapIs
<1>2. IsSeq(Bytecode) /\ Len(Bytecode) \in Nat /\ SwapAt(i, j) \in Nat
      /\ Lies(Bytecode, SwapAt(i, j), SwapCode(i, j))
  BY BytecodeIs, SwapsLie
<1> DEFINE w == If(AppendsWrap(i, j), <<AppendedWrap(i, j)>>)
<1>3. IsSeq(w) /\ (AppendsWrap(i, j) => w = <<AppendedWrap(i, j)>>)
  <2>1. IsSeq(w)
    BY SingleIsSeq, IfIsSeq
  <2> QED
    BY <2>1 DEF If
<1> HIDE DEF w
<1>4. Lies(Bytecode, SwapAt(i, j), BareSwap(i, j))
      /\ Lies(Bytecode, SwapAt(i, j) + Len(BareSwap(i, j)), w)
  BY <1>1, <1>2, <1>3, PartsLie DEF w
<1>5. AppendsWrap(i, j) => CodeHas(BareEnd(i, j) + 1, AppendedWrap(i, j))
  BY <1>1, <1>2, <1>3, <1>4, StepLies DEF CodeHas, BareEnd
<1> QED
  BY <1>1, <1>2, <1>4, <1>5 DEF BareEnd, SwapEnd

\* The split of a swap: its step, then each exchange between its share and its yield,
\* then the join.
LEMMA SplitSwapLies ==
    ASSUME SoldOverPaths(route), NEW i \in 1..NPaths, NEW j \in 1..LastSwap(i),
           IsSplit(<<i, j, 1>>)
    PROVE  /\ CodeHas(SwapAt(i, j) + 1, SplitStep(Several))
           /\ ExAt(<<i, j, 1>>) = SwapAt(i, j) + 2
           /\ \A k \in 1..ExchangeCount(i, j) :
                /\ ExAt(<<i, j, k>>) \in Nat /\ ExEnd(<<i, j, k>>) \in Nat
                /\ CodeHas(ExAt(<<i, j, k>>), MemberStep(ShareToken(<<i, j, k>>)))
                /\ Lies(Bytecode, ExAt(<<i, j, k>>), ExchangeCode(<<i, j, k>>))
                /\ CodeHas(ExEnd(<<i, j, k>>) + 1, YieldStep)
                /\ k < ExchangeCount(i, j) => ExAt(<<i, j, k + 1>>) = ExEnd(<<i, j, k>>) + 2
           /\ ExEnd(<<i, j, ExchangeCount(i, j)>>) + 2 = BareEnd(i, j)
           /\ CodeHas(BareEnd(i, j),
                      JoinStep(IF Several THEN Measured(<<i, j, 1>>) ELSE {}))
<1> DEFINE at == SwapAt(i, j)
           members == MembersOf(i, j)
           m == IF Several THEN Measured(<<i, j, 1>>) ELSE {}
           c == Bytecode
           N == ExchangeCount(i, j)
           inserts == Several
           Ex(k) == <<i, j, k>>
<1>1. N \in Nat \ {0}
  BY RouteShape
<1>2. /\ DOMAIN members = 1..N
      /\ \A k \in 1..N : /\ members[k].code = ExchangeCode(Ex(k))
                         /\ members[k].token = ShareToken(Ex(k))
                         /\ IsSeq(members[k].code)
  BY SwapIs
<1>3. /\ IsSeq(c) /\ Len(c) \in Nat /\ Lies(c, at, SplitOver(inserts, members, m))
      /\ BareEnd(i, j) = at + Len(SplitOver(inserts, members, m)) /\ BareEnd(i, j) \in Nat
  BY BytecodeIs, SwapPartsLie DEF BareSwap, BareEnd
<1>4. \A k \in 1..N : IsSplit(Ex(k))
  BY SplitIs, RouteShape DEF InRoute
<1>5. /\ at \in Nat /\ c[at + 1] = SplitStep(inserts)
      /\ MemberAt(at, members, 1) = at + 2
      /\ \A n \in 1..N :
              /\ MemberAt(at, members, n) \in Nat /\ Len(members[n].code) \in Nat
              /\ c[MemberAt(at, members, n)] = MemberStep(members[n].token)
              /\ Lies(c, MemberAt(at, members, n), members[n].code)
              /\ c[Behind(at, members, n) + 1] = YieldStep
              /\ n < N => MemberAt(at, members, n + 1) = Behind(at, members, n) + 2
              /\ Behind(at, members, n) + 2 <= Len(c)
      /\ c[Behind(at, members, N) + 2] = JoinStep(m)
      /\ Behind(at, members, N) + 2 = at + Len(SplitOver(inserts, members, m))
  <2> HIDE DEF at, members, m, c, N, inserts
  <2>1. \A n \in 1..N : IsSeq(members[n].code)
    BY <1>2
  <2> QED
    BY <1>1, <1>2, <1>3, <2>1, SplitLies
<1>6. \A k \in 1..N : /\ ExAt(Ex(k)) = MemberAt(at, members, k)
                      /\ ExEnd(Ex(k)) = Behind(at, members, k)
  BY <1>2, <1>4 DEF ExAt, ExEnd, Behind
<1>7. 1 \in 1..N /\ N \in 1..N /\ \A k \in 1..N : k < N => k + 1 \in 1..N
  BY <1>1
<1> HIDE DEF at, members, m, c, N, inserts, Ex
<1>8. ASSUME NEW k \in 1..N
      PROVE  /\ ExAt(Ex(k)) \in Nat /\ ExEnd(Ex(k)) \in Nat
             /\ CodeHas(ExAt(Ex(k)), MemberStep(ShareToken(Ex(k))))
             /\ Lies(c, ExAt(Ex(k)), ExchangeCode(Ex(k)))
             /\ CodeHas(ExEnd(Ex(k)) + 1, YieldStep)
             /\ k < N => ExAt(Ex(k + 1)) = ExEnd(Ex(k)) + 2
             /\ ExEnd(Ex(k)) + 2 <= Len(c)
  <2> DEFINE a == MemberAt(at, members, k)
             e == Behind(at, members, k)
             l == Len(members[k].code)
  <2>1. /\ a \in Nat /\ l \in Nat /\ e = a + l /\ e + 2 <= Len(c)
        /\ c[a] = MemberStep(members[k].token) /\ c[e + 1] = YieldStep
        /\ Lies(c, a, members[k].code)
        /\ ExAt(Ex(k)) = a /\ ExEnd(Ex(k)) = e
    BY <1>5, <1>6 DEF Behind
  <2>2. k < N => ExAt(Ex(k + 1)) = e + 2
    BY <1>5, <1>6, <1>7
  <2> HIDE DEF a, e, l
  <2>3. e \in Nat /\ a <= Len(c) /\ e + 1 <= Len(c)
    BY <1>3, <2>1
  <2> QED
    BY <1>2, <2>1, <2>2, <2>3 DEF CodeHas, c
<1>9. ExAt(Ex(1)) = at + 2 /\ CodeHas(at + 1, SplitStep(inserts))
  <2>1. ExAt(Ex(1)) = at + 2 /\ c[at + 1] = SplitStep(inserts) /\ at \in Nat
    BY <1>5, <1>6, <1>7
  <2>2. CodeHas(at + 2, MemberStep(ShareToken(Ex(1))))
    BY <1>7, <1>8, <2>1
  <2>3. at + 1 <= Len(c)
    BY <1>3, <2>1, <2>2 DEF CodeHas, c
  <2> QED
    BY <2>1, <2>3 DEF CodeHas, c
<1>10. ExEnd(Ex(N)) + 2 = BareEnd(i, j) /\ CodeHas(BareEnd(i, j), JoinStep(m))
  <2>1. ExEnd(Ex(N)) + 2 = BareEnd(i, j) /\ c[ExEnd(Ex(N)) + 2] = JoinStep(m)
        /\ ExEnd(Ex(N)) + 2 <= Len(c)
    BY <1>3, <1>5, <1>6, <1>7
  <2> QED
    BY <1>3, <2>1 DEF CodeHas, c
<1> QED
  BY <1>8, <1>9, <1>10 DEF at, m, c, N, inserts, Ex

\* A swap that is not split is its exchange.
LEMMA LoneExchangeLies ==
    ASSUME SoldOverPaths(route), NEW i \in 1..NPaths, NEW j \in 1..LastSwap(i),
           ~IsSplit(<<i, j, 1>>)
    PROVE  /\ ExAt(<<i, j, 1>>) = SwapAt(i, j) /\ ExEnd(<<i, j, 1>>) = BareEnd(i, j)
           /\ ExAt(<<i, j, 1>>) \in Nat /\ ExEnd(<<i, j, 1>>) \in Nat
           /\ Lies(Bytecode, ExAt(<<i, j, 1>>), ExchangeCode(<<i, j, 1>>))
           /\ ExchangeCount(i, j) = 1
<1>1. ExAt(<<i, j, 1>>) = SwapAt(i, j) /\ BareSwap(i, j) = ExchangeCode(<<i, j, 1>>)
  BY DEF ExAt, BareSwap
<1>2. ExEnd(<<i, j, 1>>) = BareEnd(i, j)
  BY <1>1 DEF ExEnd, BareEnd
<1>3. 1 \in 1..ExchangeCount(i, j)
  BY RouteShape
<1>4. ExchangeCount(i, j) = 1
  BY <1>3, SplitIs DEF InRoute
<1> QED
  BY <1>1, <1>2, <1>4, SwapPartsLie, SwapsLie

\* An exchange lies at its place.
LEMMA ExchangeLies ==
    ASSUME SoldOverPaths(route), NEW pos \in Positions(route)
    PROVE  /\ ExAt(pos) \in Nat /\ ExEnd(pos) \in Nat
           /\ Lies(Bytecode, ExAt(pos), ExchangeCode(pos))
           /\ ExEnd(pos) <= Len(Bytecode)
<1>1. /\ pos = <<pos[1], pos[2], pos[3]>> /\ pos[1] \in 1..NPaths
      /\ pos[2] \in 1..LastSwap(pos[1]) /\ pos[3] \in 1..ExchangeCount(pos[1], pos[2])
  BY PositionHas DEF InRoute
<1>2. /\ IsSplit(pos) <=> IsSplit(<<pos[1], pos[2], 1>>)
      /\ ~IsSplit(pos) => pos = <<pos[1], pos[2], 1>>
  <2>1. InRoute(pos[1], pos[2], 1)
    BY <1>1, RouteShape DEF InRoute
  <2>2. IsSplit(<<pos[1], pos[2], 1>>) <=> ExchangeCount(pos[1], pos[2]) > 1
    BY <2>1, SplitIs
  <2>3. InRoute(pos[1], pos[2], pos[3])
    BY <1>1 DEF InRoute
  <2>4. /\ IsSplit(<<pos[1], pos[2], pos[3]>>) <=> ExchangeCount(pos[1], pos[2]) > 1
        /\ ~IsSplit(<<pos[1], pos[2], pos[3]>>) => pos[3] = 1
    BY <2>3, SplitIs
  <2> QED
    BY <1>1, <2>2, <2>4
<1>3. ExAt(pos) \in Nat /\ ExEnd(pos) \in Nat /\ Lies(Bytecode, ExAt(pos), ExchangeCode(pos))
  <2>1. CASE IsSplit(pos)
    <3>1. /\ ExAt(<<pos[1], pos[2], pos[3]>>) \in Nat /\ ExEnd(<<pos[1], pos[2], pos[3]>>) \in Nat
          /\ Lies(Bytecode, ExAt(<<pos[1], pos[2], pos[3]>>), ExchangeCode(<<pos[1], pos[2], pos[3]>>))
      BY <1>1, <1>2, <2>1, SplitSwapLies
    <3> QED
      BY <1>1, <3>1
  <2>2. CASE ~IsSplit(pos)
    <3>1. ~IsSplit(<<pos[1], pos[2], 1>>) /\ pos = <<pos[1], pos[2], 1>>
      BY <1>2, <2>2
    <3> QED
      BY <1>1, <3>1, LoneExchangeLies
  <2> QED
    BY <2>1, <2>2
<1> QED
  BY <1>3 DEF Lies, ExEnd

\* A group, the units of its blocks and what is around the second.
LEMMA GroupPartsLie ==
    ASSUME SoldOverPaths(route), NEW pos \in Positions(route), IsGrouped(pos)
    PROVE  /\ CodeHas(ExAt(pos) + 1, GroupOf(pos))
           /\ UnitEnd(pos, "primary") = InputAt(pos) /\ InputAt(pos) \in Nat
           /\ InputAt(pos) = ExAt(pos) + 1 + GroupOf(pos).try
           /\ ExEnd(pos) = InputAt(pos) + GroupOf(pos).other
           /\ UnitAt(pos, "primary") = ExAt(pos) + 1
           /\ UnitAt(pos, "fallback") = InputAt(pos) + Len(InputSteps(pos))
           /\ UnitEnd(pos, "fallback") + Len(OutputSteps(pos)) = ExEnd(pos)
           /\ UnitEnd(pos, "fallback") \in Nat
           /\ \A b \in Branches : Lies(Bytecode, UnitAt(pos, b), UnitOf(pos, b))
           /\ \A n \in 1..Len(InputSteps(pos)) : CodeHas(InputAt(pos) + n, InputSteps(pos)[n])
           /\ \A n \in 1..Len(OutputSteps(pos)) :
                CodeHas(UnitEnd(pos, "fallback") + n, OutputSteps(pos)[n])
<1> DEFINE at == ExAt(pos)
           c == Bytecode
           t == Len(TryOf(pos))
           i == Len(InputSteps(pos))
           u == Len(OtherOf(pos))
           o == Len(OutputSteps(pos))
<1>1. at \in Nat /\ IsSeq(c) /\ Len(c) \in Nat /\ Lies(c, at, ExchangeCode(pos))
  BY ExchangeLies, BytecodeIs
<1>2. /\ at + 1 <= Len(c) /\ c[at + 1] = GroupOf(pos)
      /\ Lies(c, at + 1, TryOf(pos))
      /\ Lies(c, at + 1 + t, InputSteps(pos))
      /\ Lies(c, at + 1 + t + i, OtherOf(pos))
      /\ Lies(c, at + 1 + t + i + u, OutputSteps(pos))
      /\ Len(FallbackOf(pos)) = i + u + o
      /\ Len(ExchangeCode(pos)) = 1 + t + Len(FallbackOf(pos))
  <2> HIDE DEF at, c
  <2> QED
    BY <1>1, GroupLies
<1>3. t \in Nat /\ i \in Nat /\ u \in Nat /\ o \in Nat
  BY UnitIsSeq, AroundIsSeq DEF TryOf, OtherOf
<1>4. UnitOf(pos, "primary") = TryOf(pos) /\ UnitOf(pos, "fallback") = OtherOf(pos)
  BY DEF UnitOf, ParamsFor, TryOf, OtherOf
<1>5. GroupOf(pos).try = t /\ GroupOf(pos).other = Len(FallbackOf(pos))
  BY DEF GroupOf, GroupStep
<1>6. /\ UnitAt(pos, "primary") = at + 1
      /\ InputAt(pos) = at + 1 + t
      /\ UnitAt(pos, "fallback") = InputAt(pos) + i
      /\ ExEnd(pos) = at + Len(ExchangeCode(pos))
  BY DEF UnitAt, InputAt, ExEnd
<1>7. UnitEnd(pos, "primary") = at + 1 + t /\ UnitEnd(pos, "fallback") = UnitAt(pos, "fallback") + u
  BY <1>4, <1>6 DEF UnitEnd
<1> HIDE DEF at, c, t, i, u, o
<1>8. /\ UnitEnd(pos, "primary") = InputAt(pos) /\ InputAt(pos) \in Nat
      /\ UnitAt(pos, "fallback") = at + 1 + t + i
      /\ UnitEnd(pos, "fallback") = at + 1 + t + i + u /\ UnitEnd(pos, "fallback") \in Nat
      /\ UnitEnd(pos, "fallback") + o = ExEnd(pos)
      /\ InputAt(pos) = at + 1 + GroupOf(pos).try
      /\ ExEnd(pos) = InputAt(pos) + GroupOf(pos).other
  <2>1. InputAt(pos) \in Nat /\ at + 1 + t + i \in Nat /\ at + 1 + t + i + u \in Nat
    BY <1>1, <1>3, <1>6
  <2>2. /\ UnitAt(pos, "fallback") = at + 1 + t + i
        /\ UnitEnd(pos, "fallback") = at + 1 + t + i + u
        /\ UnitEnd(pos, "primary") = InputAt(pos)
    BY <1>6, <1>7
  <2>3. ExEnd(pos) = at + (1 + t + (i + u + o))
    BY <1>2, <1>6
  <2>4. at + (1 + t + (i + u + o)) = at + 1 + t + i + u + o
        /\ at + (1 + t + (i + u + o)) = at + 1 + t + (i + u + o)
    BY <1>1, <1>3
  <2>5. InputAt(pos) = at + 1 + GroupOf(pos).try /\ ExEnd(pos) = InputAt(pos) + GroupOf(pos).other
    BY <1>2, <1>5, <1>6, <2>3, <2>4
  <2> QED
    BY <2>1, <2>2, <2>3, <2>4, <2>5
<1>9. CodeHas(at + 1, GroupOf(pos))
  BY <1>1, <1>2 DEF CodeHas, c
<1>10. \A b \in Branches : Lies(c, UnitAt(pos, b), UnitOf(pos, b))
  BY <1>2, <1>4, <1>6, <1>8 DEF Branches
<1>11. \A n \in 1..i : CodeHas(InputAt(pos) + n, InputSteps(pos)[n])
  <2>1. Lies(c, InputAt(pos), InputSteps(pos))
    BY <1>2, <1>6
  <2>2. InputAt(pos) \in Nat /\ InputAt(pos) + i <= Len(c)
        /\ \A n \in 1..i : c[InputAt(pos) + n] = InputSteps(pos)[n]
    BY <2>1 DEF Lies, i
  <2>3. ASSUME NEW n \in 1..i
        PROVE  InputAt(pos) + n \in Nat /\ InputAt(pos) + n <= Len(c)
    BY <1>1, <1>3, <2>2
  <2> QED
    BY <2>2, <2>3 DEF CodeHas, c
<1>12. \A n \in 1..o : CodeHas(UnitEnd(pos, "fallback") + n, OutputSteps(pos)[n])
  <2>1. Lies(c, UnitEnd(pos, "fallback"), OutputSteps(pos))
    BY <1>2, <1>8
  <2>2. UnitEnd(pos, "fallback") \in Nat /\ UnitEnd(pos, "fallback") + o <= Len(c)
        /\ \A n \in 1..o : c[UnitEnd(pos, "fallback") + n] = OutputSteps(pos)[n]
    BY <2>1 DEF Lies, o
  <2>3. ASSUME NEW n \in 1..o
        PROVE  /\ UnitEnd(pos, "fallback") + n \in Nat
               /\ UnitEnd(pos, "fallback") + n <= Len(c)
    BY <1>1, <1>3, <2>2
  <2> QED
    BY <2>2, <2>3 DEF CodeHas, c
<1> QED
  BY <1>6, <1>8, <1>9, <1>10, <1>11, <1>12 DEF at, c, i, o

\* The blocks that an exchange has.
BlockOf(pos, b) == b \in Branches /\ (b = "fallback" => IsGrouped(pos))

\* The stages of a unit lie in a row, from where the unit starts to where it ends; one
\* that does not apply takes no room.
LEMMA StagesLie ==
    ASSUME SoldOverPaths(route), NEW pos \in Positions(route), NEW b, BlockOf(pos, b)
    PROVE  /\ StageOf(pos, b, 1) = UnitAt(pos, b)
           /\ StageOf(pos, b, 12) = UnitEnd(pos, b) /\ UnitEnd(pos, b) \in Nat
           /\ ~IsGrouped(pos) => UnitAt(pos, b) = ExAt(pos) /\ UnitEnd(pos, b) = ExEnd(pos)
           /\ \A n \in 1..11 :
                /\ StageOf(pos, b, n) \in Nat
                /\ Has(pos, b, n) =>
                    /\ CodeHas(StageOf(pos, b, n) + 1, StepOf(pos, b, n))
                    /\ StageOf(pos, b, n) + 1 <= UnitEnd(pos, b)
                    /\ StageOf(pos, b, n + 1) = StageOf(pos, b, n) + 1
                /\ ~Has(pos, b, n) => StageOf(pos, b, n + 1) = StageOf(pos, b, n)
<1> DEFINE c == Bytecode
           at == UnitAt(pos, b)
           P == ParamsFor(pos, b)
<1>1. IsSeq(c) /\ Len(c) \in Nat
  BY BytecodeIs
<1>2. ~IsGrouped(pos) => at = ExAt(pos) /\ UnitOf(pos, b) = ExchangeCode(pos)
  BY ExchangeIs DEF UnitAt, BlockOf, Branches, UnitOf, ParamsFor, TryOf
<1>3. Lies(c, at, Unit(P, pos, b))
  <2>1. Lies(c, at, UnitOf(pos, b))
    <3>1. CASE IsGrouped(pos)
      BY <3>1, GroupPartsLie DEF BlockOf
    <3>2. CASE ~IsGrouped(pos)
      BY <1>2, <3>2, ExchangeLies
    <3> QED
      BY <3>1, <3>2
  <2> QED
    BY <2>1 DEF UnitOf
<1>4. Len(Unit(P, pos, b)) \in Nat
  BY UnitIsSeq
<1>5. /\ at \in Nat
      /\ StageAt(at, P, pos, b, 1) = at
      /\ StageAt(at, P, pos, b, 12) = at + Len(Unit(P, pos, b))
      /\ \A n \in 1..11 :
           /\ StageAt(at, P, pos, b, n) \in Nat
           /\ StageAt(at, P, pos, b, n) <= at + Len(Unit(P, pos, b))
           /\ UnitHas(P, pos, b, Stages[n]) =>
               /\ c[StageAt(at, P, pos, b, n) + 1] = UnitStep(P, pos, Stages[n])
               /\ StageAt(at, P, pos, b, n) + 1 <= at + Len(Unit(P, pos, b))
               /\ StageAt(at, P, pos, b, n + 1) = StageAt(at, P, pos, b, n) + 1
           /\ ~UnitHas(P, pos, b, Stages[n]) =>
               StageAt(at, P, pos, b, n + 1) = StageAt(at, P, pos, b, n)
  <2> HIDE DEF c, at, P
  <2> QED
    BY <1>1, <1>3, UnitLies
<1>6. /\ \A n : StageOf(pos, b, n) = StageAt(at, P, pos, b, n)
      /\ \A n : Has(pos, b, n) <=> UnitHas(P, pos, b, Stages[n])
      /\ \A n : StepOf(pos, b, n) = UnitStep(P, pos, Stages[n])
      /\ UnitEnd(pos, b) = at + Len(Unit(P, pos, b))
  BY DEF StageOf, Has, StepOf, UnitEnd, UnitOf
<1>7. ~IsGrouped(pos) => UnitEnd(pos, b) = ExEnd(pos)
  BY <1>2 DEF UnitEnd, ExEnd
<1>8. UnitEnd(pos, b) <= Len(c)
  BY <1>3, <1>6 DEF Lies
<1> HIDE DEF c, at, P
<1>9. UnitEnd(pos, b) \in Nat
  BY <1>4, <1>5, <1>6
<1>10. ASSUME NEW n \in 1..11
       PROVE  /\ StageOf(pos, b, n) \in Nat
              /\ Has(pos, b, n) =>
                    /\ CodeHas(StageOf(pos, b, n) + 1, StepOf(pos, b, n))
                    /\ StageOf(pos, b, n) + 1 <= UnitEnd(pos, b)
                    /\ StageOf(pos, b, n + 1) = StageOf(pos, b, n) + 1
              /\ ~Has(pos, b, n) => StageOf(pos, b, n + 1) = StageOf(pos, b, n)
  <2>1. StageOf(pos, b, n) \in Nat
    BY <1>5, <1>6
  <2>2. ASSUME Has(pos, b, n)
        PROVE  /\ c[StageOf(pos, b, n) + 1] = StepOf(pos, b, n)
               /\ StageOf(pos, b, n) + 1 <= UnitEnd(pos, b)
               /\ StageOf(pos, b, n + 1) = StageOf(pos, b, n) + 1
    BY <1>5, <1>6, <2>2
  <2>3. ~Has(pos, b, n) => StageOf(pos, b, n + 1) = StageOf(pos, b, n)
    BY <1>5, <1>6
  <2>4. Has(pos, b, n) => StageOf(pos, b, n) + 1 <= Len(c)
    BY <1>1, <1>8, <1>9, <2>1, <2>2
  <2> QED
    BY <2>1, <2>2, <2>3, <2>4 DEF CodeHas, c
<1> QED
  BY <1>2, <1>5, <1>6, <1>7, <1>9, <1>10 DEF at

-----------------------------------------------------------------------------
(* What is expected at every place. *)

\* The ways in which routes are handed on that an execution relies on, see Holds.
Parts == {"keepsWeth", "unwrapsOnce", "groupEth", "rawFirst", "sharedUnwrap", "seenUnwrap",
          "measuredFallback", "rootUnwraps"}

\* The execution is one of those that are checked for funds: mid-route answers agree,
\* and every part relied on holds of every exchange.
Sound ==
    /\ "midRoute" \in Assumed
    /\ \A part \in Parts, pos \in Positions(route) : Holds(part, pos)

\* A run's state as one record, so that what is expected of it can be stated of the next
\* one as well.
State == [pc |-> pc, machine |-> machine, rest |-> rest, aside |-> aside,
          frames |-> frames, group |-> group]
FrameType == [whole : Machines, aside : SUBSET Pieces]

\* What there is of the native and the wrapped token on the executor, and what a route
\* ends with.
Eth1 == OnExecutor(ETH)
Weth1 == OnExecutor(WETH)
Delivered == [held |-> route.dest, at |-> "augustus"]

\* The swap at a place, and whether an exchange takes or returns the wrapped token.
SwapOf(i, j) == route.paths[i].swaps[j]
Wraps(pos) == Primaries[pos].answer.wrap

\* The form in which a path, and a swap, is given what it works on: the root's wrap and
\* the wrap behind the swap before decide, and whether that has unwrapped for it.
RootToken == IF NeedWrapEth /\ RootWraps(Primaries) THEN WETH ELSE route.src

\* Does an exchange of the swap unwrap for all of it?
AnyWithdraws(i, j) == \E q \in OfSwap(i, j) : Withdraws(Primaries, q)

\* The form in which a swap is given what it works on: wrapped for it, or all of it
\* wrapped and not unwrapped.
FormBefore(i, j) ==
    IF j = 1 THEN RootToken
    ELSE IF SwapOf(i, j).src = ETH
            /\ (AppendsWrap(i, j - 1) \/ (EachWraps(Primaries, i, j - 1) /\ ~AnyWithdraws(i, j - 1)))
    THEN WETH ELSE SwapOf(i, j).src

\* The form that a unit is given its share in: WETH where its leg takes that and no
\* deposit of its own makes it, and where it is to unwrap.
EntryToken(pos, b) ==
    LET P == ParamsFor(pos, b) IN
    IF /\ Swap(route, pos).src = ETH
       /\ (P[pos].answer.wrap /\ ~Deposits(P, pos)) \/ UnwrapsBefore(P, pos, b)
    THEN WETH ELSE Swap(route, pos).src

\* What the first exchanges of a split, and the first paths, have left.
MembersHold(i, j, k, A) ==
    LET first == {q \in OfSwap(i, j) : q[3] <= k}
        token == SwapOf(i, j).dest
    IN
    /\ k > 0 => A # {}
    /\ IF j < LastSwap(i)
       THEN IF token # ETH THEN A \subseteq {OnExecutor(token)}
            ELSE /\ A \subseteq {Eth1, Weth1}
                 /\ Weth1 \in A => /\ \E q \in first : Wraps(q)
                                   /\ \A q \in first : ~Withdraws(Primaries, q)
                 /\ Eth1 \in A => AnyRaw(Primaries, i, j)
                 /\ (\E q \in first : ~Wraps(q)) => Eth1 \in A
       ELSE IF route.dest # ETH THEN A \subseteq {Delivered}
       ELSE /\ A \subseteq {Eth1, Weth1, Delivered}
            /\ IF Several
               THEN /\ ~RootUnwraps(Primaries) => A \subseteq {Delivered}
                    /\ (\E q \in first : Wraps(q)) => Weth1 \in A
               ELSE /\ ~AnyWraps(Primaries, i, j) \/ (\E q \in first : LastWrapping(Primaries, q))
                        => A \subseteq {Delivered}
                    /\ Weth1 \in A => \E q \in first : Wraps(q)

\* What the first i paths have left: what the route buys, or WETH that the root's unwrap
\* takes.
PathsHold(i, A) ==
    /\ i > 0 => A # {}
    /\ IF route.dest # ETH THEN A \subseteq {Delivered}
       ELSE /\ A \subseteq {Eth1, Weth1, Delivered}
            /\ ~RootUnwraps(Primaries) => A \subseteq {Delivered}
            /\ (\E m \in 1..i : AnyWraps(Primaries, m, LastSwap(m))) => Weth1 \in A

\* What other paths have left, seen from a path; and what other exchanges have, seen
\* from one.
OuterHold(i, A) == IF IsMegaSwap(route) THEN PathsHold(i - 1, A) ELSE A = {}

\* What is aside when an exchange starts.
HoldBefore(pos, A) ==
    IF IsSplit(pos) THEN MembersHold(pos[1], pos[2], pos[3] - 1, A) ELSE OuterHold(pos[1], A)

\* The splits that run around a path, a swap and an exchange.
RootDepth == IF IsMegaSwap(route) THEN 1 ELSE 0

\* What the splits around hold back: for the root's what is sold, for a swap's what it
\* works on.
RootGiven(fr) ==
    IsMegaSwap(route) => Piece(fr[1].whole) = OnExecutor(RootToken) /\ fr[1].aside = {}

\* What a swap's split holds back.
SwapGiven(fr, i, j) ==
    LET own == fr[RootDepth + 1] IN
    /\ RootGiven(fr)
    /\ Piece(own.whole) = OnExecutor(FormBefore(i, j))
    /\ OuterHold(i, own.aside)

\* The frames of a run on a path, in the split of a swap and in an exchange.
OnPath(fr) == Len(fr) = RootDepth /\ (Sound => RootGiven(fr))

\* The frames in the split of a swap.
InSwap(fr, i, j) == Len(fr) = RootDepth + 1 /\ (Sound => SwapGiven(fr, i, j))

\* The frames in an exchange.
InExchange(fr, pos) == IF IsSplit(pos) THEN InSwap(fr, pos[1], pos[2]) ELSE OnPath(fr)

\* No group is running.
Idle(s) == s.group = NoGroup

\* The run works on all there is of the token, on the executor.
HoldsToken(m, token) == m.held = token /\ m.at = "executor" /\ m.exact

\* The type of a state.
TypedState(s) ==
    /\ s.pc \in Nat \ {0} /\ s.machine \in Machines
    /\ s.rest \subseteq Pieces /\ s.aside \subseteq Pieces
    /\ s.frames \in Seq(FrameType)

-----------------------------------------------------------------------------
(* Outside of exchanges. *)

\* All that a run holds.
Everything(s) == s.aside \union s.rest \union {Piece(s.machine)}

\* The places, from the first step to the last: before the root's wrap.
AtRootWrap(s) ==
    /\ RootAt = 1 /\ s.pc = 1 /\ Idle(s) /\ s.frames = <<>>
    /\ Sound => HoldsToken(s.machine, route.src) /\ s.rest = {} /\ s.aside = {}

\* Before the routes.
BeforeRoutes(s) ==
    /\ s.pc = RootAt + 1 /\ Idle(s) /\ s.frames = <<>>
    /\ Sound => HoldsToken(s.machine, RootToken) /\ s.rest = {} /\ s.aside = {}

\* At the share of a path, in the root's split.
AtPath(s, i) ==
    /\ s.pc = PathAt(i) /\ Idle(s) /\ OnPath(s.frames)
    /\ Sound => s.rest = {} /\ PathsHold(i - 1, s.aside)

\* Before a swap.
BeforeSwap(s, i, j) ==
    /\ s.pc = SwapAt(i, j) + 1 /\ Idle(s) /\ OnPath(s.frames)
    /\ Sound => HoldsToken(s.machine, FormBefore(i, j)) /\ s.rest = {} /\ OuterHold(i, s.aside)

\* At the share of an exchange, in the split of its swap.
AtMember(s, pos) ==
    /\ s.pc = ExAt(pos) /\ Idle(s) /\ InSwap(s.frames, pos[1], pos[2])
    /\ Sound => s.rest = {} /\ MembersHold(pos[1], pos[2], pos[3] - 1, s.aside)

\* Before an exchange.
BeforeExchange(s, pos) ==
    /\ s.pc = ExAt(pos) + 1 /\ Idle(s) /\ InExchange(s.frames, pos)
    /\ Sound => HoldsToken(s.machine, ShareToken(pos)) /\ s.rest = {} /\ HoldBefore(pos, s.aside)

\* What a swap leaves, before and after what it returned in ETH is wrapped.
SwapLeft(s, i, j) ==
    /\ HoldsToken(s.machine, FormBefore(i, j + 1)) /\ s.rest = {} /\ OuterHold(i, s.aside)

\* Before what a swap has returned in ETH is wrapped.
BareLeft(s, i, j) ==
    IF AppendsWrap(i, j)
    THEN /\ HoldsToken(s.machine, ETH) /\ OuterHold(i, s.aside)
         /\ s.rest \subseteq IF IsSplit(<<i, j, 1>>) THEN {Weth1} ELSE {}
    ELSE SwapLeft(s, i, j)

\* What a route leaves that is not over several paths, and the root's split.
AllLeft(s) ==
    /\ s.aside = {}
    /\ IF Several /\ RootUnwraps(Primaries)
       THEN HoldsToken(s.machine, WETH) /\ s.rest \subseteq {Eth1, Delivered}
       ELSE Piece(s.machine) = Delivered /\ s.rest = {}

\* What a path leaves: in the root's split, and alone.
PathLeft(s, i) == IF IsMegaSwap(route) THEN PathsHold(i, Everything(s)) ELSE AllLeft(s)

\* What an exchange leaves.
ExchangeLeft(s, pos) ==
    /\ s.rest = {}
    /\ IF IsSplit(pos) THEN MembersHold(pos[1], pos[2], pos[3], Everything(s))
       ELSE IF pos[2] = LastSwap(pos[1]) THEN PathLeft(s, pos[1])
       ELSE BareLeft(s, pos[1], pos[2])

\* Behind an exchange.
BehindExchange(s, pos) ==
    /\ s.pc = ExEnd(pos) + 1 /\ Idle(s) /\ InExchange(s.frames, pos)
    /\ Sound => ExchangeLeft(s, pos)

\* At the join of a swap's split.
AtJoin(s, i, j) ==
    /\ s.pc = BareEnd(i, j) /\ Idle(s) /\ InSwap(s.frames, i, j) /\ s.aside # {}
    /\ Sound => s.rest = {} /\ MembersHold(i, j, ExchangeCount(i, j), s.aside)

\* Behind a swap, before the wrap that is appended to it.
BehindBare(s, i, j) ==
    /\ s.pc = BareEnd(i, j) + 1 /\ Idle(s) /\ OnPath(s.frames)
    /\ Sound => IF j = LastSwap(i) THEN PathLeft(s, i) ELSE BareLeft(s, i, j)

\* Behind a path.
BehindPath(s, i) ==
    /\ s.pc = PathEnd(i) + 1 /\ Idle(s) /\ OnPath(s.frames)
    /\ Sound => PathLeft(s, i)

\* At the join of the root's split.
AtRootJoin(s) ==
    /\ s.pc = RoutesEnd /\ Idle(s) /\ OnPath(s.frames) /\ s.aside # {}
    /\ Sound => s.rest = {} /\ PathsHold(NPaths, s.aside)

\* Behind the routes, before the root's unwrap.
BehindRoutes(s) ==
    /\ s.pc = RoutesEnd + 1 /\ Idle(s) /\ s.frames = <<>>
    /\ Sound => AllLeft(s)

\* Before the send.
BeforeSend(s) ==
    /\ s.pc = SendAt + 1 /\ Idle(s) /\ s.frames = <<>>
    /\ Sound => /\ s.aside = {} /\ s.rest \subseteq {Delivered}
                /\ IF SendsAtRoot THEN HoldsToken(s.machine, ETH) ELSE Piece(s.machine) = Delivered

\* Behind the last step: what the route buys has been delivered, and nothing else is
\* held.
AtEnd(s) ==
    /\ s.pc = EndAt + 1 /\ Idle(s) /\ s.frames = <<>>
    /\ Sound => Everything(s) = {Delivered}

-----------------------------------------------------------------------------
(* Within an exchange. *)

\* What a group has saved for the case that its first block reverts.
SavedTyped(g) ==
    /\ DOMAIN g = {"branch", "other", "end", "measured", "machine", "rest", "aside"}
    /\ g.machine \in Machines /\ g.rest \subseteq Pieces /\ g.aside \subseteq Pieces

\* Within a block of an exchange: of its group if it has one, with what the exchange was
\* given saved.
InBlock(s, pos, b) ==
    /\ InExchange(s.frames, pos)
    /\ IF IsGrouped(pos)
       THEN /\ s.group.branch = b /\ s.group.other = InputAt(pos) + 1
            /\ s.group.end = ExEnd(pos) + 1 /\ s.group.measured = GroupOf(pos).measured
            /\ SavedTyped(s.group)
            /\ Sound => /\ HoldsToken(s.group.machine, ShareToken(pos))
                        /\ s.group.rest = {} /\ HoldBefore(pos, s.group.aside)
       ELSE b = "primary" /\ Idle(s)

\* The form that is worked on before the m-th of the steps before a fallback's unit.
InputToken(pos, m) == IF m > Len(InputSteps(pos)) THEN EntryToken(pos, "fallback") ELSE ShareToken(pos)

\* Before that step.
BeforeInput(s, pos, m) ==
    /\ s.pc = InputAt(pos) + m /\ InBlock(s, pos, "fallback")
    /\ Sound => HoldsToken(s.machine, InputToken(pos, m)) /\ s.rest = {} /\ HoldBefore(pos, s.aside)

\* The call of a block.
CallIn(pos, b) == CallOf(Swap(route, pos), ParamsFor(pos, b)[pos], DexFlag(ParamsFor(pos, b), pos))

\* What the machine holds before a stage up to the call, and after it.
Paid(pos, b, n, m) ==
    LET P == ParamsFor(pos, b)
        a == P[pos].answer
        swap == Swap(route, pos)
    IN
    /\ m.held = CASE n = 1 -> EntryToken(pos, b)
                  [] n \in {2, 3} -> IF swap.src = ETH /\ a.wrap /\ ~Deposits(P, pos)
                                     THEN WETH ELSE swap.src
                  [] n \in 4..6 -> IF swap.src = ETH /\ a.wrap THEN WETH ELSE swap.src
                  [] OTHER -> CallIn(pos, b).in
    /\ m.at = IF n > 5 /\ a.transferSrc THEN "pool" ELSE "executor"
    /\ m.exact

\* What a call that looks at the balance takes in.
MeasuredByCall(pos, b) ==
    LET call == CallIn(pos, b) IN
    IF call.to = "executor" /\ Measures(call) THEN {OnExecutor(call.out)} ELSE {}

\* What the machine holds behind the call.
Returned(pos, b, n, m) ==
    LET P == ParamsFor(pos, b)
        swap == Swap(route, pos)
    IN
    /\ m.held = IF n = 8 THEN CallIn(pos, b).out
                ELSE IF swap.dest = ETH /\ P[pos].answer.wrap /\ ~(n > 9 /\ Withdraws(P, pos))
                THEN WETH ELSE swap.dest
    /\ m.at = IF \/ n > 10 /\ Has(pos, b, 10)
                 \/ n > 11 /\ Has(pos, b, 11)
              THEN "augustus" ELSE CallIn(pos, b).to
    /\ m.exact <=> MeasuredByCall(pos, b) # {} \/ (n > 9 /\ Withdraws(P, pos))

\* What a unit has taken in from aside before its stage n.
Gone(pos, b, n) ==
    IF n < 8 THEN {}
    ELSE MeasuredByCall(pos, b)
         \union IF n > 9 /\ Withdraws(ParamsFor(pos, b), pos) THEN {Eth1} ELSE {}

\* What is aside is what there was before the exchange, but for what has been taken in.
LeftAside(pos, gone, A) ==
    /\ A \intersect gone = {}
    /\ \E back \in SUBSET gone : HoldBefore(pos, A \union back)

\* The stages that run under an approval.
Granted(pos, b, n) == (n \in 3..7 /\ Has(pos, b, 2)) \/ (n \in 5..7 /\ Has(pos, b, 4))

\* Before the stage n of a unit.
BeforeStage(s, pos, b, n) ==
    /\ s.pc = StageOf(pos, b, n) + 1 /\ InBlock(s, pos, b)
    /\ Granted(pos, b, n) => s.machine.granted
    /\ Sound => /\ s.rest = {}
                /\ IF n < 8 THEN Paid(pos, b, n, s.machine) ELSE Returned(pos, b, n, s.machine)
                /\ LeftAside(pos, Gone(pos, b, n), s.aside)

\* Behind the unit of a fallback.
OutputGone(pos, m) ==
    Gone(pos, "fallback", 12) \union {Eth1 : n \in {n \in 1..(m - 1) : OutputSteps(pos)[n] = UnwrapStep}}

\* In which form an exchange of the last swap delivers, whichever of its blocks has run.
FinalOutcome(pos) ==
    LET other == EthDestOutcome(Substituted(pos), pos, "fallback") IN
    IF other = "sent" THEN "sent" ELSE EthDestOutcome(Primaries, pos, "primary")

\* And what is held then.
OutcomePiece(o) == CASE o = "sent" -> Delivered [] o = "weth" -> Weth1 [] o = "eth" -> Eth1

\* What is held before the m-th of the steps behind a fallback's unit.
OutputLeft(pos, m, machine1) ==
    IF m <= Len(OutputSteps(pos))
    THEN HoldsToken(machine1, IF OutputSteps(pos)[m] = UnwrapStep THEN WETH ELSE ETH)
    ELSE IF OutputSteps(pos) = <<>> THEN Returned(pos, "fallback", 12, machine1)
    ELSE Piece(machine1) = OutcomePiece(FinalOutcome(pos))

\* Before that step.
BeforeOutput(s, pos, m) ==
    /\ s.pc = UnitEnd(pos, "fallback") + m /\ InBlock(s, pos, "fallback")
    /\ Sound => /\ s.rest = {} /\ OutputLeft(pos, m, s.machine)
                /\ LeftAside(pos, OutputGone(pos, m), s.aside)

-----------------------------------------------------------------------------
(* The whole. *)

\* The numbers of paths and swaps.
PathIn(i) == i \in 1..NPaths
SwapIn(i, j) == i \in 1..NPaths /\ j \in 1..LastSwap(i)

\* At the end of a block of a group.
AtBlockEndOf(s, pos) ==
    /\ IsGrouped(pos)
    /\ \/ BeforeStage(s, pos, "primary", 12)
       \/ BeforeOutput(s, pos, Len(OutputSteps(pos)) + 1)

\* Where a step of an exchange is next.
AtStep(s, pos) ==
    \/ BeforeExchange(s, pos) /\ IsGrouped(pos)
    \/ IsGrouped(pos) /\ \E m \in 1..Len(InputSteps(pos)) : BeforeInput(s, pos, m)
    \/ \E b \in Branches, n \in 1..11 :
            (b = "fallback" => IsGrouped(pos)) /\ Has(pos, b, n) /\ BeforeStage(s, pos, b, n)
    \/ IsGrouped(pos) /\ \E m \in 1..Len(OutputSteps(pos)) : BeforeOutput(s, pos, m)

\* Where a step of a swap's split, or the wrap behind it, is next.
OnSwap(s, i, j) ==
    \/ BeforeSwap(s, i, j) /\ IsSplit(<<i, j, 1>>)
    \/ AtJoin(s, i, j) /\ IsSplit(<<i, j, 1>>)
    \/ BehindBare(s, i, j) /\ AppendsWrap(i, j)

\* Where a step of the root is next, or none.
AtRoot(s) ==
    \/ AtRootWrap(s)
    \/ BeforeRoutes(s) /\ IsMegaSwap(route)
    \/ AtRootJoin(s) /\ IsMegaSwap(route)
    \/ BehindRoutes(s) /\ UnwrapsAtRoot
    \/ BeforeSend(s) /\ SendsAtRoot
    \/ AtEnd(s)

\* A run is at a place where a step is next, or at the end, and holds what is expected
\* there.
Located(s) ==
    \/ AtRoot(s)
    \/ \E i \in 1..NPaths :
        \/ IsMegaSwap(route) /\ (AtPath(s, i) \/ BehindPath(s, i))
        \/ \E j \in 1..LastSwap(i) : OnSwap(s, i, j)
    \/ \E pos \in Positions(route) :
        \/ IsSplit(pos) /\ (AtMember(s, pos) \/ BehindExchange(s, pos))
        \/ AtStep(s, pos) \/ AtBlockEndOf(s, pos)

\* Places, what is expected there and the bytecode follow from the build: while that
\* stays, so do they.
LEMMA PlacesStay ==
    ASSUME UNCHANGED buildVars
    PROVE  /\ \A s : Located(s)' = Located(s)
           /\ Bytecode' = Bytecode
           /\ (Sound)' = Sound
\* The legs and what is asked of them.
<1>1. Primaries' = Primaries
  BY DEF Primaries, buildVars
<1>2. \A pos : Substituted(pos)' = Substituted(pos)
  BY <1>1 DEF Substituted, buildVars
<1>3. \A pos : HasFallback(pos)' = HasFallback(pos)
  BY DEF HasFallback, buildVars
<1>4. \A i, j : OfSwap(i, j)' = OfSwap(i, j)
  BY DEF OfSwap, buildVars
<1>5. \A i : LastSwap(i)' = LastSwap(i)
  BY DEF LastSwap, buildVars
<1>6. Several' = Several
  BY DEF Several, buildVars
<1>7. \A pos : IsSplit(pos)' = IsSplit(pos)
  BY <1>4 DEF IsSplit, buildVars
<1>8. \A pos : VerticalBranching(pos)' = VerticalBranching(pos)
  BY <1>6, <1>7 DEF VerticalBranching, buildVars
<1>9. \A P, i, j : AnyWraps(P, i, j)' = AnyWraps(P, i, j)
  BY <1>4 DEF AnyWraps, buildVars
<1>10. \A i, j : AnyWraps(Primaries, i, j)' = AnyWraps(Primaries, i, j)
  BY <1>1, <1>9
<1>11. \A i, j, pos : AnyWraps(Substituted(pos), i, j)' = AnyWraps(Substituted(pos), i, j)
  BY <1>2, <1>9
<1>12. \A P, i, j : AnyRaw(P, i, j)' = AnyRaw(P, i, j)
  BY <1>4 DEF AnyRaw, buildVars
<1>13. \A i, j : AnyRaw(Primaries, i, j)' = AnyRaw(Primaries, i, j)
  BY <1>1, <1>12
<1>14. \A i, j, pos : AnyRaw(Substituted(pos), i, j)' = AnyRaw(Substituted(pos), i, j)
  BY <1>2, <1>12
<1>15. \A P, i, j : EachWraps(P, i, j)' = EachWraps(P, i, j)
  BY <1>9, <1>12 DEF EachWraps, buildVars
<1>16. \A i, j : EachWraps(Primaries, i, j)' = EachWraps(Primaries, i, j)
  BY <1>1, <1>15
<1>17. \A i, j, pos : EachWraps(Substituted(pos), i, j)' = EachWraps(Substituted(pos), i, j)
  BY <1>2, <1>15
<1>18. \A P, i, j : EachRaw(P, i, j)' = EachRaw(P, i, j)
  BY <1>9, <1>12 DEF EachRaw, buildVars
<1>19. \A i, j : EachRaw(Primaries, i, j)' = EachRaw(Primaries, i, j)
  BY <1>1, <1>18
<1>20. \A i, j, pos : EachRaw(Substituted(pos), i, j)' = EachRaw(Substituted(pos), i, j)
  BY <1>2, <1>18
<1>21. \A P, pos : LastWrapping(P, pos)' = LastWrapping(P, pos)
  BY <1>4 DEF LastWrapping, buildVars
<1>22. \A pos : LastWrapping(Primaries, pos)' = LastWrapping(Primaries, pos)
  BY <1>1, <1>21
<1>23. \A pos : LastWrapping(Substituted(pos), pos)' = LastWrapping(Substituted(pos), pos)
  BY <1>2, <1>21
<1>24. \A P : RootWraps(P)' = RootWraps(P)
  BY <1>15 DEF RootWraps, buildVars
<1>25. RootWraps(Primaries)' = RootWraps(Primaries)
  BY <1>1, <1>24
<1>26. \A pos : RootWraps(Substituted(pos))' = RootWraps(Substituted(pos))
  BY <1>2, <1>24
<1>27. \A P : RootUnwraps(P)' = RootUnwraps(P)
  BY <1>5, <1>9 DEF RootUnwraps, buildVars
<1>28. RootUnwraps(Primaries)' = RootUnwraps(Primaries)
  BY <1>1, <1>27
<1>29. \A pos : RootUnwraps(Substituted(pos))' = RootUnwraps(Substituted(pos))
  BY <1>2, <1>27
<1>30. NeedWrapEth' = NeedWrapEth
  BY DEF NeedWrapEth, buildVars
<1>31. NeedUnwrapEth' = NeedUnwrapEth
  BY DEF NeedUnwrapEth, buildVars
<1>32. \A i, j : AppendsWrap(i, j)' = AppendsWrap(i, j)
  BY <1>1, <1>5, <1>12, <1>13, <1>14 DEF AppendsWrap, buildVars
<1>33. \A P, pos : Deposits(P, pos)' = Deposits(P, pos)
  BY <1>12, <1>24, <1>32 DEF Deposits, buildVars
<1>34. \A pos : Deposits(Primaries, pos)' = Deposits(Primaries, pos)
  BY <1>1, <1>33
<1>35. \A pos : Deposits(Substituted(pos), pos)' = Deposits(Substituted(pos), pos)
  BY <1>2, <1>33
<1>36. \A P, pos : UnwrapsForSwap(P, pos)' = UnwrapsForSwap(P, pos)
  BY <1>8, <1>12, <1>21 DEF UnwrapsForSwap, buildVars
<1>37. \A pos : UnwrapsForSwap(Primaries, pos)' = UnwrapsForSwap(Primaries, pos)
  BY <1>1, <1>36
<1>38. \A pos : UnwrapsForSwap(Substituted(pos), pos)' = UnwrapsForSwap(Substituted(pos), pos)
  BY <1>2, <1>36
<1>39. \A P, pos : Withdraws(P, pos)' = Withdraws(P, pos)
  BY <1>6, <1>15, <1>18, <1>27, <1>36 DEF Withdraws, buildVars
<1>40. \A pos : Withdraws(Primaries, pos)' = Withdraws(Primaries, pos)
  BY <1>1, <1>39
<1>41. \A pos : Withdraws(Substituted(pos), pos)' = Withdraws(Substituted(pos), pos)
  BY <1>2, <1>39
<1>42. \A P, pos, b : UnwrapsBefore(P, pos, b)' = UnwrapsBefore(P, pos, b)
  BY <1>1, <1>4, <1>15, <1>16, <1>17, <1>32, <1>39, <1>40, <1>41 DEF UnwrapsBefore, buildVars
<1>43. \A pos, b : UnwrapsBefore(Primaries, pos, b)' = UnwrapsBefore(Primaries, pos, b)
  BY <1>1, <1>42
<1>44. \A pos, b : UnwrapsBefore(Substituted(pos), pos, b)' = UnwrapsBefore(Substituted(pos), pos, b)
  BY <1>2, <1>42
<1>45. \A P, pos : Keeps(P, pos)' = Keeps(P, pos)
  BY <1>8, <1>36 DEF Keeps, buildVars
<1>46. \A pos : Keeps(Primaries, pos)' = Keeps(Primaries, pos)
  BY <1>1, <1>45
<1>47. \A pos : Keeps(Substituted(pos), pos)' = Keeps(Substituted(pos), pos)
  BY <1>2, <1>45
<1>48. \A swap, a, keeps : SingleFlag(swap, a, keeps)' = SingleFlag(swap, a, keeps)
  BY DEF SingleFlag, buildVars
<1>49. \A P, pos : DexFlag(P, pos)' = DexFlag(P, pos)
  BY <1>6, <1>45, <1>48 DEF DexFlag, buildVars
<1>50. \A pos : DexFlag(Primaries, pos)' = DexFlag(Primaries, pos)
  BY <1>1, <1>49
<1>51. \A pos : DexFlag(Substituted(pos), pos)' = DexFlag(Substituted(pos), pos)
  BY <1>2, <1>49
<1>52. \A P, pos : ApprovesWeth(P, pos)' = ApprovesWeth(P, pos)
  BY DEF ApprovesWeth, buildVars
<1>53. \A pos : ApprovesWeth(Primaries, pos)' = ApprovesWeth(Primaries, pos)
  BY <1>1, <1>52
<1>54. \A pos : ApprovesWeth(Substituted(pos), pos)' = ApprovesWeth(Substituted(pos), pos)
  BY <1>2, <1>52
\* Units, and what is around them.
<1>55. \A P, pos, b, s : UnitHas(P, pos, b, s)' = UnitHas(P, pos, b, s)
  <2> TAKE P, pos, b, s
  <2>1. route' = route
    BY DEF buildVars
  <2>2. Swap(route, pos)' = Swap(route, pos) /\ IsLastSwap(route, pos)' = IsLastSwap(route, pos)
    BY <2>1
  <2> QED
    BY <1>6, <1>27, <1>33, <1>39, <1>42, <1>52, <2>1, <2>2 DEF UnitHas
<1>56. \A pos, b, s : UnitHas(Primaries, pos, b, s)' = UnitHas(Primaries, pos, b, s)
  BY <1>1, <1>55
<1>57. \A pos, b, s : UnitHas(Substituted(pos), pos, b, s)' = UnitHas(Substituted(pos), pos, b, s)
  BY <1>2, <1>55
<1>58. \A P, pos, s : UnitStep(P, pos, s)' = UnitStep(P, pos, s)
  BY <1>49 DEF UnitStep, buildVars
<1>59. \A pos, s : UnitStep(Primaries, pos, s)' = UnitStep(Primaries, pos, s)
  BY <1>1, <1>58
<1>60. \A pos, s : UnitStep(Substituted(pos), pos, s)' = UnitStep(Substituted(pos), pos, s)
  BY <1>2, <1>58
<1>61. \A P, pos, b : Unit(P, pos, b)' = Unit(P, pos, b)
  BY <1>55, <1>58 DEF Unit, buildVars
<1>62. \A pos, b : Unit(Primaries, pos, b)' = Unit(Primaries, pos, b)
  BY <1>1, <1>61
<1>63. \A pos, b : Unit(Substituted(pos), pos, b)' = Unit(Substituted(pos), pos, b)
  BY <1>2, <1>61
<1>64. \A pos : InputSteps(pos)' = InputSteps(pos)
  BY <1>1, <1>2, <1>33, <1>34, <1>35 DEF InputSteps, buildVars
<1>65. \A P, pos, b : EthDestOutcome(P, pos, b)' = EthDestOutcome(P, pos, b)
  BY <1>39, <1>55 DEF EthDestOutcome, buildVars
<1>66. \A pos, b : EthDestOutcome(Primaries, pos, b)' = EthDestOutcome(Primaries, pos, b)
  BY <1>1, <1>65
<1>67. \A pos, b : EthDestOutcome(Substituted(pos), pos, b)' = EthDestOutcome(Substituted(pos), pos, b)
  BY <1>2, <1>65
<1>68. \A pos : OutputSteps(pos)' = OutputSteps(pos)
  BY <1>1, <1>2, <1>65, <1>66, <1>67 DEF OutputSteps, buildVars
<1>69. \A pos : Measured(pos)' = Measured(pos)
  BY <1>1, <1>9, <1>10, <1>11, <1>12, <1>13, <1>14 DEF Measured, buildVars
<1>70. \A pos : IsGrouped(pos)' = IsGrouped(pos)
  BY <1>1, <1>2, <1>3 DEF IsGrouped, buildVars
<1>71. \A pos : ShareToken(pos)' = ShareToken(pos)
  BY <1>1, <1>33, <1>34, <1>35, <1>42, <1>43, <1>44 DEF ShareToken, buildVars
<1>72. \A i : PathToken(i)' = PathToken(i)
  BY <1>1, <1>9, <1>10, <1>11, <1>32, <1>33, <1>34, <1>35 DEF PathToken, buildVars
\* The bytecode.
<1>73. \A pos : ExchangeCode(pos)' = ExchangeCode(pos)
  BY <1>1, <1>2, <1>7, <1>61, <1>62, <1>63, <1>64, <1>68, <1>69, <1>70 DEF ExchangeCode, buildVars
<1>74. \A i, j : SwapCode(i, j)' = SwapCode(i, j)
  <2> TAKE i, j
  <2> DEFINE members == [k \in DOMAIN route.paths[i].swaps[j].exchanges |->
                        [token |-> ShareToken(<<i, j, k>>), code |-> ExchangeCode(<<i, j, k>>)]]
             m == IF Several THEN Measured(<<i, j, 1>>) ELSE {}
             w == If(AppendsWrap(i, j),
                     <<IF IsSplit(<<i, j, 1>>) THEN MeasuredWrapStep ELSE WrapStep>>)
             x == IF IsSplit(<<i, j, 1>>) THEN SplitOver(Several, members, m) ELSE members[1].code
  <2>1. members' = members
    BY <1>6, <1>7, <1>32, <1>69, <1>71, <1>73 DEF buildVars
  <2> HIDE DEF members
  <2>2. m' = m
    BY <1>6, <1>7, <1>32, <1>69, <1>71, <1>73
  <2>3. w' = w
    BY <1>6, <1>7, <1>32, <1>69, <1>71, <1>73
  <2>4. x' = x
    BY <1>6, <1>7, <1>32, <1>69, <1>71, <1>73, <2>1, <2>2
  <2>5. SwapCode(i, j) = x \o w /\ SwapCode(i, j)' = (x \o w)'
    BY DEF SwapCode, members
  <2> HIDE DEF x, w
  <2> QED
    BY <2>3, <2>4, <2>5
<1>75. \A i : PathCode(i)' = PathCode(i)
  BY <1>74 DEF PathCode, buildVars
<1>76. RoutesCode' = RoutesCode
  BY <1>1, <1>27, <1>28, <1>29, <1>31, <1>72, <1>75 DEF RoutesCode, buildVars
<1>77. Bytecode' = Bytecode
  BY <1>1, <1>6, <1>24, <1>25, <1>26, <1>27, <1>28, <1>29, <1>30, <1>31, <1>76 DEF Bytecode,
     buildVars
\* What is relied on.
<1>78. \A pos : KeepsWethForNext(pos)' = KeepsWethForNext(pos)
  BY <1>1, <1>8, <1>15, <1>16, <1>17, <1>39, <1>40, <1>41 DEF KeepsWethForNext, buildVars
<1>79. \A pos : StaysUnwrapped(pos)' = StaysUnwrapped(pos)
  BY <1>1, <1>18, <1>19, <1>20, <1>32, <1>39, <1>40, <1>41 DEF StaysUnwrapped, buildVars
<1>80. \A pos : NoGroupReturnsEth(pos)' = NoGroupReturnsEth(pos)
  BY <1>1, <1>7, <1>39, <1>40, <1>41, <1>70 DEF NoGroupReturnsEth, buildVars
<1>81. \A pos : RawComesFirst(pos)' = RawComesFirst(pos)
  BY <1>1, <1>6, <1>39, <1>40, <1>41 DEF RawComesFirst, buildVars
<1>82. \A pos : UnwrapIsShared(pos)' = UnwrapIsShared(pos)
  BY <1>1, <1>2, <1>3, <1>6, <1>39, <1>40, <1>41 DEF UnwrapIsShared, buildVars
<1>83. \A pos : UnwrapIsSeen(pos)' = UnwrapIsSeen(pos)
  BY <1>2, <1>3, <1>42, <1>43, <1>44 DEF UnwrapIsSeen, buildVars
<1>84. \A pos : FallbackIsMeasured(pos)' = FallbackIsMeasured(pos)
  BY <1>2, <1>3, <1>49, <1>50, <1>51, <1>68 DEF FallbackIsMeasured, buildVars
<1>85. \A pos : RootUnwrapsIt(pos)' = RootUnwrapsIt(pos)
  BY <1>1, <1>2, <1>3, <1>6, <1>27, <1>28, <1>29, <1>55, <1>56, <1>57, <1>68 DEF RootUnwrapsIt,
     buildVars
<1>86. \A part, pos : Holds(part, pos)' = Holds(part, pos)
  BY <1>78, <1>79, <1>80, <1>81, <1>82, <1>83, <1>84, <1>85 DEF Holds, buildVars
\* Where the parts lie.
<1>87. NPaths' = NPaths
  BY DEF NPaths, buildVars
<1>88. \A i, j : ExchangeCount(i, j)' = ExchangeCount(i, j)
  BY DEF ExchangeCount, buildVars
<1>89. \A P, pos, b : UnitParts(P, pos, b)' = UnitParts(P, pos, b)
  BY <1>55, <1>58 DEF UnitParts, buildVars
<1>90. \A pos, b : UnitParts(Primaries, pos, b)' = UnitParts(Primaries, pos, b)
  BY <1>1, <1>89
<1>91. \A pos, b : UnitParts(Substituted(pos), pos, b)' = UnitParts(Substituted(pos), pos, b)
  BY <1>2, <1>89
<1>92. \A at, P, pos, b, n : StageAt(at, P, pos, b, n)' = StageAt(at, P, pos, b, n)
  BY <1>89 DEF StageAt, buildVars
<1>93. \A at, pos, b, n : StageAt(at, Primaries, pos, b, n)' = StageAt(at, Primaries, pos, b, n)
  BY <1>1, <1>92
<1>94. \A at, pos, b, n : StageAt(at, Substituted(pos), pos, b, n)' = StageAt(at, Substituted(pos), pos, b, n)
  BY <1>2, <1>92
<1>95. \A pos, b : ParamsFor(pos, b)' = ParamsFor(pos, b)
  BY <1>1, <1>2 DEF ParamsFor, buildVars
<1>96. \A i, j, pos, b : AnyWraps(ParamsFor(pos, b), i, j)' = AnyWraps(ParamsFor(pos, b), i, j)
  BY <1>9, <1>95
<1>97. \A i, j, pos, b : AnyRaw(ParamsFor(pos, b), i, j)' = AnyRaw(ParamsFor(pos, b), i, j)
  BY <1>12, <1>95
<1>98. \A i, j, pos, b : EachWraps(ParamsFor(pos, b), i, j)' = EachWraps(ParamsFor(pos, b), i, j)
  BY <1>15, <1>95
<1>99. \A i, j, pos, b : EachRaw(ParamsFor(pos, b), i, j)' = EachRaw(ParamsFor(pos, b), i, j)
  BY <1>18, <1>95
<1>100. \A pos, b : LastWrapping(ParamsFor(pos, b), pos)' = LastWrapping(ParamsFor(pos, b), pos)
  BY <1>21, <1>95
<1>101. \A pos, b : RootWraps(ParamsFor(pos, b))' = RootWraps(ParamsFor(pos, b))
  BY <1>24, <1>95
<1>102. \A pos, b : RootUnwraps(ParamsFor(pos, b))' = RootUnwraps(ParamsFor(pos, b))
  BY <1>27, <1>95
<1>103. \A pos, b : Deposits(ParamsFor(pos, b), pos)' = Deposits(ParamsFor(pos, b), pos)
  BY <1>33, <1>95
<1>104. \A pos, b : UnwrapsForSwap(ParamsFor(pos, b), pos)' = UnwrapsForSwap(ParamsFor(pos, b), pos)
  BY <1>36, <1>95
<1>105. \A pos, b : Withdraws(ParamsFor(pos, b), pos)' = Withdraws(ParamsFor(pos, b), pos)
  BY <1>39, <1>95
<1>106. \A pos, b : UnwrapsBefore(ParamsFor(pos, b), pos, b)' = UnwrapsBefore(ParamsFor(pos, b), pos, b)
  BY <1>42, <1>95
<1>107. \A pos, b : Keeps(ParamsFor(pos, b), pos)' = Keeps(ParamsFor(pos, b), pos)
  BY <1>45, <1>95
<1>108. \A pos, b : DexFlag(ParamsFor(pos, b), pos)' = DexFlag(ParamsFor(pos, b), pos)
  BY <1>49, <1>95
<1>109. \A pos, b : ApprovesWeth(ParamsFor(pos, b), pos)' = ApprovesWeth(ParamsFor(pos, b), pos)
  BY <1>52, <1>95
<1>110. \A pos, b, s : UnitHas(ParamsFor(pos, b), pos, b, s)' = UnitHas(ParamsFor(pos, b), pos, b, s)
  BY <1>55, <1>95
<1>111. \A pos, s, b : UnitStep(ParamsFor(pos, b), pos, s)' = UnitStep(ParamsFor(pos, b), pos, s)
  BY <1>58, <1>95
<1>112. \A pos, b : Unit(ParamsFor(pos, b), pos, b)' = Unit(ParamsFor(pos, b), pos, b)
  BY <1>61, <1>95
<1>113. \A pos, b : EthDestOutcome(ParamsFor(pos, b), pos, b)' = EthDestOutcome(ParamsFor(pos, b), pos, b)
  BY <1>65, <1>95
<1>114. \A pos, b : UnitParts(ParamsFor(pos, b), pos, b)' = UnitParts(ParamsFor(pos, b), pos, b)
  BY <1>89, <1>95
<1>115. \A at, pos, b, n : StageAt(at, ParamsFor(pos, b), pos, b, n)' = StageAt(at, ParamsFor(pos, b), pos, b, n)
  BY <1>92, <1>95
<1>116. \A pos : TryOf(pos)' = TryOf(pos)
  BY <1>1, <1>61, <1>62, <1>63, <1>112 DEF TryOf, buildVars
<1>117. \A pos : OtherOf(pos)' = OtherOf(pos)
  BY <1>2, <1>61, <1>62, <1>63, <1>112 DEF OtherOf, buildVars
<1>118. \A pos : FallbackOf(pos)' = FallbackOf(pos)
  BY <1>64, <1>68, <1>117 DEF FallbackOf, buildVars
<1>119. \A pos : GroupOf(pos)' = GroupOf(pos)
  BY <1>7, <1>69, <1>116, <1>118 DEF GroupOf, buildVars
<1>120. \A i, j : MembersOf(i, j)' = MembersOf(i, j)
  BY <1>71, <1>73 DEF MembersOf, buildVars
<1>121. RootMembers' = RootMembers
  BY <1>72, <1>75 DEF RootMembers, buildVars
<1>122. \A i : PathParts(i)' = PathParts(i)
  BY <1>74 DEF PathParts, buildVars
<1>123. \A i, j : BareSwap(i, j)' = BareSwap(i, j)
  BY <1>6, <1>7, <1>69, <1>73, <1>120 DEF BareSwap, buildVars
<1>124. \A i, j : AppendedWrap(i, j)' = AppendedWrap(i, j)
  BY <1>7 DEF AppendedWrap, buildVars
<1>125. RootWrapped' = RootWrapped
  BY <1>1, <1>24, <1>25, <1>26, <1>30, <1>101 DEF RootWrapped, buildVars
<1>126. RootTail' = RootTail
  BY <1>1, <1>6, <1>27, <1>28, <1>29, <1>31, <1>102 DEF RootTail, buildVars
<1>127. RootMeasured' = RootMeasured
  BY <1>1, <1>27, <1>28, <1>29, <1>31, <1>102 DEF RootMeasured, buildVars
<1>128. RootAt' = RootAt
  BY <1>125 DEF RootAt, buildVars
<1>129. RoutesEnd' = RoutesEnd
  BY <1>76, <1>128 DEF RoutesEnd, buildVars
<1>130. \A i : PathAt(i)' = PathAt(i)
  BY <1>121, <1>128 DEF PathAt, buildVars
<1>131. \A i : PathEnd(i)' = PathEnd(i)
  BY <1>75, <1>130 DEF PathEnd, buildVars
<1>132. \A i, j : SwapAt(i, j)' = SwapAt(i, j)
  BY <1>122, <1>130 DEF SwapAt, buildVars
<1>133. \A i, j : SwapEnd(i, j)' = SwapEnd(i, j)
  BY <1>74, <1>132 DEF SwapEnd, buildVars
<1>134. \A i, j : BareEnd(i, j)' = BareEnd(i, j)
  BY <1>123, <1>132 DEF BareEnd, buildVars
<1>135. \A pos : ExAt(pos)' = ExAt(pos)
  BY <1>7, <1>120, <1>132 DEF ExAt, buildVars
<1>136. \A pos : ExEnd(pos)' = ExEnd(pos)
  BY <1>73, <1>135 DEF ExEnd, buildVars
<1>137. \A pos, b : UnitOf(pos, b)' = UnitOf(pos, b)
  BY <1>61, <1>62, <1>63, <1>95, <1>112 DEF UnitOf, buildVars
<1>138. \A pos : InputAt(pos)' = InputAt(pos)
  BY <1>116, <1>135 DEF InputAt, buildVars
<1>139. \A pos, b : UnitAt(pos, b)' = UnitAt(pos, b)
  BY <1>64, <1>70, <1>135, <1>138 DEF UnitAt, buildVars
<1>140. \A pos, b : UnitEnd(pos, b)' = UnitEnd(pos, b)
  BY <1>137, <1>139 DEF UnitEnd, buildVars
<1>141. \A pos, b, n : StageOf(pos, b, n)' = StageOf(pos, b, n)
  BY <1>92, <1>93, <1>94, <1>95, <1>115, <1>139 DEF StageOf, buildVars
<1>142. \A pos, b, n : Has(pos, b, n)' = Has(pos, b, n)
  BY <1>55, <1>56, <1>57, <1>95, <1>110 DEF Has, buildVars
<1>143. \A pos, b, n : StepOf(pos, b, n)' = StepOf(pos, b, n)
  BY <1>58, <1>59, <1>60, <1>95, <1>111 DEF StepOf, buildVars
<1>144. UnwrapsAtRoot' = UnwrapsAtRoot
  BY <1>1, <1>6, <1>27, <1>28, <1>29, <1>31, <1>102 DEF UnwrapsAtRoot, buildVars
<1>145. SendsAtRoot' = SendsAtRoot
  BY <1>1, <1>6, <1>27, <1>28, <1>29, <1>102 DEF SendsAtRoot, buildVars
<1>146. SendAt' = SendAt
  BY <1>129, <1>144 DEF SendAt, buildVars
<1>147. EndAt' = EndAt
  BY <1>145, <1>146 DEF EndAt, buildVars
\* What is held.
<1>148. Sound' = Sound
  BY <1>86 DEF Sound, buildVars
<1>149. Delivered' = Delivered
  BY DEF Delivered, buildVars
<1>150. \A i, j : SwapOf(i, j)' = SwapOf(i, j)
  BY DEF SwapOf, buildVars
<1>151. \A pos : Wraps(pos)' = Wraps(pos)
  BY <1>1 DEF Wraps, buildVars
<1>152. RootToken' = RootToken
  BY <1>1, <1>24, <1>25, <1>26, <1>30, <1>101 DEF RootToken, buildVars
<1>153. \A i, j : AnyWithdraws(i, j)' = AnyWithdraws(i, j)
  BY <1>1, <1>4, <1>39, <1>40, <1>41, <1>105 DEF AnyWithdraws, buildVars
<1>154. \A i, j : FormBefore(i, j)' = FormBefore(i, j)
  BY <1>1, <1>15, <1>16, <1>17, <1>32, <1>98, <1>150, <1>152, <1>153 DEF FormBefore, buildVars
<1>155. \A pos, b : EntryToken(pos, b)' = EntryToken(pos, b)
  BY <1>33, <1>34, <1>35, <1>42, <1>43, <1>44, <1>95, <1>103, <1>106 DEF EntryToken, buildVars
<1>156. \A i, j, k, A : MembersHold(i, j, k, A)' = MembersHold(i, j, k, A)
  BY <1>1, <1>4, <1>5, <1>6, <1>9, <1>10, <1>11, <1>12, <1>13, <1>14, <1>21, <1>22, <1>23,
     <1>27, <1>28, <1>29, <1>39, <1>40, <1>41, <1>96, <1>97, <1>100, <1>102, <1>105, <1>149,
     <1>150, <1>151 DEF MembersHold, buildVars
<1>157. \A i, A : PathsHold(i, A)' = PathsHold(i, A)
  BY <1>1, <1>5, <1>9, <1>10, <1>11, <1>27, <1>28, <1>29, <1>96, <1>102, <1>149 DEF PathsHold,
     buildVars
<1>158. \A i, A : OuterHold(i, A)' = OuterHold(i, A)
  BY <1>157 DEF OuterHold, buildVars
<1>159. \A pos, A : HoldBefore(pos, A)' = HoldBefore(pos, A)
  BY <1>7, <1>156, <1>158 DEF HoldBefore, buildVars
<1>160. RootDepth' = RootDepth
  BY DEF RootDepth, buildVars
<1>161. \A fr : RootGiven(fr)' = RootGiven(fr)
  BY <1>152 DEF RootGiven, buildVars
<1>162. \A fr, i, j : SwapGiven(fr, i, j)' = SwapGiven(fr, i, j)
  BY <1>154, <1>158, <1>160, <1>161 DEF SwapGiven, buildVars
<1>163. \A fr : OnPath(fr)' = OnPath(fr)
  BY <1>148, <1>160, <1>161 DEF OnPath, buildVars
<1>164. \A fr, i, j : InSwap(fr, i, j)' = InSwap(fr, i, j)
  BY <1>148, <1>160, <1>162 DEF InSwap, buildVars
<1>165. \A fr, pos : InExchange(fr, pos)' = InExchange(fr, pos)
  BY <1>7, <1>163, <1>164 DEF InExchange, buildVars
\* The places.
<1>166. \A s : AtRootWrap(s)' = AtRootWrap(s)
  BY <1>128, <1>148 DEF AtRootWrap, buildVars
<1>167. \A s : BeforeRoutes(s)' = BeforeRoutes(s)
  BY <1>128, <1>148, <1>152 DEF BeforeRoutes, buildVars
<1>168. \A s, i : AtPath(s, i)' = AtPath(s, i)
  BY <1>130, <1>148, <1>157, <1>163 DEF AtPath, buildVars
<1>169. \A s, i, j : BeforeSwap(s, i, j)' = BeforeSwap(s, i, j)
  BY <1>132, <1>148, <1>154, <1>158, <1>163 DEF BeforeSwap, buildVars
<1>170. \A s, pos : AtMember(s, pos)' = AtMember(s, pos)
  BY <1>135, <1>148, <1>156, <1>164 DEF AtMember, buildVars
<1>171. \A s, pos : BeforeExchange(s, pos)' = BeforeExchange(s, pos)
  BY <1>71, <1>135, <1>148, <1>159, <1>165 DEF BeforeExchange, buildVars
<1>172. \A s, i, j : SwapLeft(s, i, j)' = SwapLeft(s, i, j)
  BY <1>154, <1>158 DEF SwapLeft, buildVars
<1>173. \A s, i, j : BareLeft(s, i, j)' = BareLeft(s, i, j)
  BY <1>7, <1>32, <1>158, <1>172 DEF BareLeft, buildVars
<1>174. \A s : AllLeft(s)' = AllLeft(s)
  BY <1>1, <1>6, <1>27, <1>28, <1>29, <1>102, <1>149 DEF AllLeft, buildVars
<1>175. \A s, i : PathLeft(s, i)' = PathLeft(s, i)
  BY <1>157, <1>174 DEF PathLeft, buildVars
<1>176. \A s, pos : ExchangeLeft(s, pos)' = ExchangeLeft(s, pos)
  BY <1>5, <1>7, <1>156, <1>173, <1>175 DEF ExchangeLeft, buildVars
<1>177. \A s, pos : BehindExchange(s, pos)' = BehindExchange(s, pos)
  BY <1>136, <1>148, <1>165, <1>176 DEF BehindExchange, buildVars
<1>178. \A s, i, j : AtJoin(s, i, j)' = AtJoin(s, i, j)
  BY <1>88, <1>134, <1>148, <1>156, <1>164 DEF AtJoin, buildVars
<1>179. \A s, i, j : BehindBare(s, i, j)' = BehindBare(s, i, j)
  BY <1>5, <1>134, <1>148, <1>163, <1>173, <1>175 DEF BehindBare, buildVars
<1>180. \A s, i : BehindPath(s, i)' = BehindPath(s, i)
  BY <1>131, <1>148, <1>163, <1>175 DEF BehindPath, buildVars
<1>181. \A s : AtRootJoin(s)' = AtRootJoin(s)
  BY <1>87, <1>129, <1>148, <1>157, <1>163 DEF AtRootJoin, buildVars
<1>182. \A s : BehindRoutes(s)' = BehindRoutes(s)
  BY <1>129, <1>148, <1>174 DEF BehindRoutes, buildVars
<1>183. \A s : BeforeSend(s)' = BeforeSend(s)
  BY <1>145, <1>146, <1>148, <1>149 DEF BeforeSend, buildVars
<1>184. \A s : AtEnd(s)' = AtEnd(s)
  BY <1>147, <1>148, <1>149 DEF AtEnd, buildVars
<1>185. \A s, pos, b : InBlock(s, pos, b)' = InBlock(s, pos, b)
  BY <1>70, <1>71, <1>119, <1>136, <1>138, <1>148, <1>159, <1>165 DEF InBlock, buildVars
<1>186. \A pos, m : InputToken(pos, m)' = InputToken(pos, m)
  BY <1>64, <1>71, <1>155 DEF InputToken, buildVars
<1>187. \A s, pos, m : BeforeInput(s, pos, m)' = BeforeInput(s, pos, m)
  BY <1>138, <1>148, <1>159, <1>185, <1>186 DEF BeforeInput, buildVars
<1>188. \A pos, b : CallIn(pos, b)' = CallIn(pos, b)
  BY <1>49, <1>50, <1>51, <1>95, <1>108 DEF CallIn, buildVars
<1>189. \A pos, b, n, m : Paid(pos, b, n, m)' = Paid(pos, b, n, m)
  BY <1>33, <1>34, <1>35, <1>95, <1>103, <1>155, <1>188 DEF Paid, buildVars
<1>190. \A pos, b : MeasuredByCall(pos, b)' = MeasuredByCall(pos, b)
  BY <1>188 DEF MeasuredByCall, buildVars
<1>191. \A pos, b, n, m : Returned(pos, b, n, m)' = Returned(pos, b, n, m)
  BY <1>39, <1>40, <1>41, <1>95, <1>105, <1>142, <1>188, <1>190 DEF Returned, buildVars
<1>192. \A pos, b, n : Gone(pos, b, n)' = Gone(pos, b, n)
  BY <1>39, <1>40, <1>41, <1>95, <1>105, <1>190 DEF Gone, buildVars
<1>193. \A pos, gone, A : LeftAside(pos, gone, A)' = LeftAside(pos, gone, A)
  BY <1>159 DEF LeftAside, buildVars
<1>194. \A pos, b, n : Granted(pos, b, n)' = Granted(pos, b, n)
  BY <1>142 DEF Granted, buildVars
<1>195. \A s, pos, b, n : BeforeStage(s, pos, b, n)' = BeforeStage(s, pos, b, n)
  BY <1>141, <1>148, <1>185, <1>189, <1>191, <1>192, <1>193, <1>194 DEF BeforeStage, buildVars
<1>196. \A pos, m : OutputGone(pos, m)' = OutputGone(pos, m)
  BY <1>68, <1>192 DEF OutputGone, buildVars
<1>197. \A pos : FinalOutcome(pos)' = FinalOutcome(pos)
  BY <1>1, <1>2, <1>65, <1>66, <1>67, <1>113 DEF FinalOutcome, buildVars
<1>198. \A o : OutcomePiece(o)' = OutcomePiece(o)
  BY <1>149 DEF OutcomePiece, buildVars
<1>199. \A pos, m, machine1 : OutputLeft(pos, m, machine1)' = OutputLeft(pos, m, machine1)
  <2> TAKE pos, m, machine1
  <2>1. OutcomePiece(FinalOutcome(pos))' = OutcomePiece(FinalOutcome(pos))
    BY <1>68, <1>191, <1>197, <1>198
  <2> QED
    BY <1>68, <1>191, <1>197, <1>198, <2>1 DEF OutputLeft, HoldsToken
<1>200. \A s, pos, m : BeforeOutput(s, pos, m)' = BeforeOutput(s, pos, m)
  BY <1>140, <1>148, <1>185, <1>193, <1>196, <1>199 DEF BeforeOutput, buildVars
<1>201. \A s, pos : AtBlockEndOf(s, pos)' = AtBlockEndOf(s, pos)
  BY <1>68, <1>70, <1>195, <1>200 DEF AtBlockEndOf, buildVars
<1>202. \A s, pos : AtStep(s, pos)' = AtStep(s, pos)
  BY <1>64, <1>68, <1>70, <1>142, <1>171, <1>187, <1>195, <1>200 DEF AtStep, buildVars
<1>203. \A s, i, j : OnSwap(s, i, j)' = OnSwap(s, i, j)
  BY <1>7, <1>32, <1>169, <1>178, <1>179 DEF OnSwap, buildVars
<1>204. \A s : AtRoot(s)' = AtRoot(s)
  BY <1>144, <1>145, <1>166, <1>167, <1>181, <1>182, <1>183, <1>184 DEF AtRoot, buildVars
<1>205. \A s : Located(s)' = Located(s)
  BY <1>5, <1>7, <1>87, <1>168, <1>170, <1>177, <1>180, <1>201, <1>202, <1>203, <1>204 DEF
     Located, buildVars
<1> QED
  BY <1>205, <1>77, <1>148

-----------------------------------------------------------------------------
(* What a build for Executor02 leaves behind. *)

\* What is known of every build.
BuildFacts == TypeOK /\ BuildInv /\ PullsAreDecided

\* A build that Executor02 has been chosen for.
Built == BuildFacts /\ phase = "built" /\ label = "Executor02" /\ SoldOverPaths(route)

\* A route that Executor02 is chosen for is one of several swaps or exchanges, and sold.
LEMMA BuiltShape ==
    ASSUME Built
    PROVE  /\ SoldOverPaths(route) /\ WellFormed(route) /\ route \in Routes
           /\ route.side = "SELL"
           /\ DOMAIN param = Legs(route)
           /\ plan = PlannedTemplates
           /\ Several \/ (NPaths = 1 /\ LastSwap(1) = 1)
<1>1. /\ SoldOverPaths(route) /\ route \in Routes /\ DOMAIN param = Legs(route)
      /\ plan = PlannedTemplates /\ label = DetectExecutor(route) /\ label = "Executor02"
  BY DEF Built, BuildFacts, TypeOK, BuildInv, AllResolved, PlanAsSummed, Classified
<1>2. WellFormed(route)
  BY <1>1, BuilderAssumption
<1>3. route.side = "SELL"
  BY <1>1 DEF DetectExecutor
<1>4. Several \/ (NPaths = 1 /\ LastSwap(1) = 1)
  <2>1. NPaths \in Nat \ {0} /\ LastSwap(1) \in Nat \ {0}
    <3>1. NPaths \in Nat \ {0} /\ \A i \in 1..NPaths : LastSwap(i) \in Nat \ {0}
      BY <1>1, RouteShape
    <3>2. 1 \in 1..NPaths
      BY <3>1
    <3> QED
      BY <3>1, <3>2
  <2>2. Several <=> (NPaths = 1 /\ LastSwap(1) > 1) \/ NPaths > 1
    BY DEF Several, IsMultiSwap, IsMegaSwap, NPaths, LastSwap
  <2> QED
    BY <2>1, <2>2
<1> QED
  BY <1>1, <1>2, <1>3, <1>4

\* A route of one swap is split: the others are not for Executor02.
LEMMA SingleIsSplit ==
    ASSUME Built, ~Several, NEW pos \in Positions(route)
    PROVE  IsSplit(pos) /\ pos[1] = 1 /\ pos[2] = 1
<1>1. SoldOverPaths(route) /\ NPaths = 1 /\ LastSwap(1) = 1
  BY BuiltShape
<1>2. pos = <<1, 1, pos[3]>> /\ InRoute(1, 1, pos[3])
  BY <1>1, PositionHas DEF InRoute
<1>3. ExchangeCount(1, 1) \in Nat \ {0}
  BY <1>1, RouteShape
<1>4. ExchangeCount(1, 1) > 1
  <2>1. label = DetectExecutor(route) /\ label = "Executor02"
    BY DEF Built, BuildFacts, BuildInv, Classified
  <2>2. RouteExecutionType(route) \in {"VERTICAL_BRANCH", "VERTICAL_BRANCH_HORIZONTAL_SEQUENCE",
                        "NESTED_VERTICAL_BRANCH_HORIZONTAL_SEQUENCE"}
    BY <2>1 DEF DetectExecutor
  <2>3. Len(route.paths) = 1 /\ Len(route.paths[1].swaps) = 1
    BY <1>1 DEF NPaths, LastSwap
  <2>4. Len(route.paths[1].swaps[1].exchanges) > 1
    BY <2>2, <2>3 DEF RouteExecutionType
  <2> QED
    BY <2>4 DEF ExchangeCount
<1> QED
  BY <1>1, <1>2, <1>4, SplitIs

\* Swaps follow each other, from what is sold to what is bought, and do not come
\* back to ETH.
LEMMA SwapsFollow ==
    ASSUME Built, NEW i \in 1..NPaths
    PROVE  /\ SwapOf(i, 1).src = route.src /\ SwapOf(i, LastSwap(i)).dest = route.dest
           /\ \A j \in 1..LastSwap(i) :
                /\ SwapOf(i, j).src \in Tokens /\ SwapOf(i, j).dest \in Tokens
                /\ SwapOf(i, j).src # SwapOf(i, j).dest
                /\ j < LastSwap(i) => SwapOf(i, j + 1).src = SwapOf(i, j).dest
                /\ route.src = ETH => SwapOf(i, j).dest # ETH
                /\ route.dest = ETH => SwapOf(i, j).src \notin {ETH, WETH}
<1>1. /\ SoldOverPaths(route) /\ WellFormed(route)
  BY BuiltShape
<1>2. /\ LastSwap(i) \in Nat \ {0} /\ DOMAIN route.paths = 1..NPaths
      /\ DOMAIN route.paths[i].swaps = 1..LastSwap(i)
      /\ \A j \in 1..LastSwap(i) : ExchangeCount(i, j) \in Nat \ {0}
  BY <1>1, RouteShape
<1>3. /\ SwapOf(i, 1).src = route.src /\ SwapOf(i, LastSwap(i)).dest = route.dest
      /\ \A j \in 1..LastSwap(i) :
            /\ SwapOf(i, j).src \in Tokens /\ SwapOf(i, j).dest \in Tokens
            /\ route.dest = ETH => SwapOf(i, j).src # WETH
  BY <1>1, <1>2 DEF SoldOverPaths, SwapOf, LastSwap
<1>4. \A j \in 1..LastSwap(i) :
        /\ <<i, j, 1>> \in Positions(route) /\ Swap(route, <<i, j, 1>>) = SwapOf(i, j)
        /\ IsLastSwap(route, <<i, j, 1>>) <=> j = LastSwap(i)
  <2>1. \A j \in 1..LastSwap(i) : InRoute(i, j, 1)
    BY <1>2 DEF InRoute
  <2> QED
    BY <1>1, <2>1, PositionIs DEF Swap, SwapOf, IsLastSwap, LastSwap
<1>5. ASSUME NEW j \in 1..LastSwap(i)
      PROVE  /\ SwapOf(i, j).src # SwapOf(i, j).dest
             /\ j < LastSwap(i) => SwapOf(i, j + 1).src = SwapOf(i, j).dest
             /\ route.src = ETH => SwapOf(i, j).dest # ETH
             /\ route.dest = ETH => SwapOf(i, j).src # ETH
  <2> DEFINE p(n) == <<i, n, 1>>
  <2>1. \A n \in 1..LastSwap(i) : p(n)[1] = i /\ p(n)[2] = n
    OBVIOUS
  <2>2. SwapOf(i, j).src # SwapOf(i, j).dest
    BY <1>1, <1>4 DEF WellFormed
  <2>3. j < LastSwap(i) => SwapOf(i, j + 1).src = SwapOf(i, j).dest
    <3>1. SUFFICES ASSUME j < LastSwap(i) PROVE SwapOf(i, j + 1).src = SwapOf(i, j).dest
      OBVIOUS
    <3>2. j + 1 \in 1..LastSwap(i)
      BY <1>2, <3>1
    <3>3. Swap(route, p(j)).dest = Swap(route, p(j + 1)).src
      <4>1. p(j) \in Positions(route) /\ p(j + 1) \in Positions(route)
        BY <1>4, <3>2
      <4>2. p(j)[1] = p(j + 1)[1] /\ p(j + 1)[2] = p(j)[2] + 1
        OBVIOUS
      <4> HIDE DEF p
      <4> QED
        BY <1>1, <4>1, <4>2, HandOver
    <3> QED
      BY <1>4, <3>2, <3>3
  <2>4. 1 \in 1..LastSwap(i) /\ LastSwap(i) \in 1..LastSwap(i)
    BY <1>2
  <2>5. route.src = ETH => SwapOf(i, j).dest # ETH
    <3>1. p(1) \in Positions(route) /\ p(j) \in Positions(route)
      BY <1>4, <2>4
    <3>2. p(1)[1] = p(j)[1] /\ p(1)[2] = 1
      OBVIOUS
    <3>3. Swap(route, p(1)).src = ETH => Swap(route, p(j)).dest # ETH
      BY <1>1, <3>1, <3>2 DEF WellFormed
    <3> QED
      BY <1>3, <1>4, <2>4, <3>3
  <2>6. route.dest = ETH => SwapOf(i, j).src # ETH
    <3>1. p(LastSwap(i)) \in Positions(route) /\ p(j) \in Positions(route)
      BY <1>4, <2>4
    <3>2. p(LastSwap(i))[1] = p(j)[1] /\ IsLastSwap(route, p(LastSwap(i)))
      BY <1>4, <2>4
    <3>3. Swap(route, p(LastSwap(i))).dest = ETH => Swap(route, p(j)).src # ETH
      BY <1>1, <3>1, <3>2 DEF WellFormed
    <3> QED
      BY <1>3, <1>4, <2>4, <3>3
  <2> QED
    BY <2>2, <2>3, <2>5, <2>6
<1> QED
  BY <1>3, <1>5

\* The leg of a block.
LegOf(pos, b) == ParamsFor(pos, b)[pos]

\* Within the split of its swap or not, the exchange of a position and its fallback have
\* been answered for.
Resolved(pos, b) == b \in Branches /\ (b = "fallback" => HasFallback(pos))

\* A leg is one of the build, with its answer, the recipient that the build has chosen
\* and an approval where its exchange pulls.
LEMMA LegIs ==
    ASSUME Built, NEW pos \in Positions(route), NEW b, Resolved(pos, b)
    PROVE  /\ LegOf(pos, b) = param[<<pos, b>>] /\ <<pos, b>> \in DOMAIN param
           /\ LegOf(pos, b) \in ParamType
           /\ Consistent(Swap(route, pos), LegOf(pos, b).answer)
           /\ LegOf(pos, b).recipient =
                IF \/ Swap(route, pos).dest = ETH /\ LegOf(pos, b).answer.wrap
                   \/ ~IsLastSwap(route, pos)
                   \/ b = "fallback" /\ Swap(route, pos).dest = ETH
                THEN "executor" ELSE "augustus"
           /\ Pulls(Swap(route, pos), LegOf(pos, b).answer) => LegOf(pos, b).approve # "none"
<1>1. /\ WellFormed(route) /\ route \in Routes /\ route.side = "SELL"
      /\ DOMAIN param = Legs(route)
  BY BuiltShape
<1>2. <<pos, "primary">> \in Legs(route)
  BY <1>1 DEF WellFormed
<1> DEFINE leg == <<pos, b>>
<1>3. leg \in DOMAIN param /\ leg \in Legs(route)
  BY <1>1, <1>2 DEF Resolved, HasFallback, Branches
<1>4. LegOf(pos, b) = param[leg]
  BY DEF LegOf, ParamsFor, Primaries, Substituted, Resolved, Branches
<1>5. param[leg] \in ParamType
  BY <1>3 DEF Built, BuildFacts, TypeOK
<1>6. /\ Consistent(Swap(route, pos), param[leg].answer)
      /\ param[leg].recipient = Recipient(route, leg, param[leg].answer)
  <2>1. KeptAsAnswered(leg)
    BY <1>3 DEF Built, BuildFacts, BuildInv, LegsKept
  <2> QED
    BY <2>1 DEF KeptAsAnswered
<1>7. Quote(route, leg).dest > 0
  <2>1. Quote(route, leg).dest \in Nat \ {0}
    BY <1>1, <1>3, LegShape
  <2> QED
    BY <2>1
<1>8. ~RedirectedToExecutor(leg)
  BY DEF RedirectedToExecutor, Built
<1>9. param[leg].recipient =
                IF \/ Swap(route, pos).dest = ETH /\ param[leg].answer.wrap
                   \/ ~IsLastSwap(route, pos)
                   \/ b = "fallback" /\ Swap(route, pos).dest = ETH
                THEN "executor" ELSE "augustus"
  BY <1>1, <1>6, <1>7, <1>8 DEF Recipient, IsFallback
<1>10. Pulls(Swap(route, pos), param[leg].answer) => param[leg].approve # "none"
  BY <1>3 DEF Built, BuildFacts, PullsAreDecided
<1> HIDE DEF leg
<1> QED
  BY <1>3, <1>4, <1>5, <1>6, <1>9, <1>10 DEF leg

\* An exchange and its fallback take one form where a route passes through ETH.
LEMMA MidRouteAgrees ==
    ASSUME Built, "midRoute" \in Assumed, NEW pos \in Positions(route), HasFallback(pos),
           Swap(route, pos).src = ETH, pos[2] > 1
    PROVE  LegOf(pos, "fallback").answer.wrap = LegOf(pos, "primary").answer.wrap
<1> DEFINE leg == <<pos, "fallback">>
<1>1. leg \in DOMAIN param /\ IsFallback(leg) /\ PrimaryOf(leg) = <<pos, "primary">>
  BY DEF HasFallback, IsFallback, PrimaryOf
<1>2. Compatible(route, pos, param[<<pos, "primary">>].answer, param[leg].answer)
  <2>1. KeptAsAnswered(leg)
    BY <1>1 DEF Built, BuildFacts, BuildInv, LegsKept
  <2> QED
    BY <1>1, <2>1 DEF KeptAsAnswered
<1>3. param[<<pos, "primary">>].answer.wrap = param[leg].answer.wrap
  BY <1>2 DEF Compatible
<1>4. /\ LegOf(pos, "fallback") = param[<<pos, "fallback">>]
      /\ LegOf(pos, "primary") = param[<<pos, "primary">>]
  BY LegIs DEF Resolved, Branches
<1> QED
  BY <1>3, <1>4

\* The legs of the primary block, and of the fallback where there is one.
LEMMA PrimaryIs ==
    ASSUME Built, NEW pos \in Positions(route)
    PROVE  /\ Primaries[pos] = LegOf(pos, "primary") /\ Resolved(pos, "primary")
           /\ HasFallback(pos) => Substituted(pos)[pos] = LegOf(pos, "fallback") /\ Resolved(pos, "fallback")
BY DEF LegOf, ParamsFor, Resolved, Branches

-----------------------------------------------------------------------------
(* The plan of wraps and unwraps. *)

\* The plan has a template for what wraps or unwraps, by what has been counted.
LEMMA PlanIs ==
    ASSUME Built
    PROVE  /\ "deposit" \in plan => Deposited
           /\ "withdraw" \in plan => Withdrawn
           /\ Deposited /\ (~Withdrawn \/ HasMixedWrap \/ "withdraw" \in plan) => "deposit" \in plan
           /\ Withdrawn /\ (~Deposited \/ HasMixedWrap \/ "deposit" \in plan) => "withdraw" \in plan
<1>1. /\ route.side = "SELL" /\ plan = PlannedTemplates
  BY BuiltShape
<1>2. (deposits # 0 <=> Deposited) /\ (withdraws # 0 <=> Withdrawn)
  BY DEF Built, BuildFacts, BuildInv, SumsMatch
<1> QED
  BY <1>1, <1>2 DEF PlannedTemplates

\* The counts see every leg that wraps what it is sold in ETH, or unwraps what it
\* returns.
LEMMA LegsAreCounted ==
    ASSUME Built, NEW pos \in Positions(route), NEW b, Resolved(pos, b)
    PROVE  /\ Swap(route, pos).src = ETH /\ LegOf(pos, b).answer.wrap => Deposited
           /\ Swap(route, pos).dest = ETH /\ LegOf(pos, b).answer.wrap => Withdrawn
           /\ Swap(route, pos).dest = ETH /\ Several /\ ~IsLastSwap(route, pos) => Withdrawn
<1>1. LegOf(pos, b) = param[<<pos, b>>] /\ <<pos, b>> \in DOMAIN param
  BY LegIs
<1>2. <<pos, b>>[1] = pos
  OBVIOUS
<1> QED
  BY <1>1, <1>2 DEF Deposited, Withdrawn, NeedsDeposit, NeedsWithdraw, Several

\* What starts in ETH is not unwrapped, what ends in ETH not wrapped.
LEMMA EndsInEth ==
    ASSUME Built
    PROVE  /\ route.src = ETH => ~Withdrawn
           /\ route.dest = ETH => ~Deposited
<1>1. \A leg \in DOMAIN param : leg[1] \in Positions(route)
  BY BuiltShape, LegShape
<1>2. \A pos \in Positions(route) :
        /\ route.src = ETH => Swap(route, pos).dest # ETH
        /\ route.dest = ETH => Swap(route, pos).src # ETH
  <2> TAKE pos \in Positions(route)
  <2>1. pos[1] \in 1..NPaths /\ pos[2] \in 1..LastSwap(pos[1])
    BY BuiltShape, PositionHas DEF InRoute
  <2>2. Swap(route, pos) = SwapOf(pos[1], pos[2])
    BY DEF Swap, SwapOf
  <2> QED
    BY <2>1, <2>2, SwapsFollow
<1> QED
  BY <1>1, <1>2 DEF Deposited, Withdrawn, NeedsDeposit, NeedsWithdraw

\* The exchanges of a swap.
LEMMA OfSwapHas ==
    ASSUME Built, NEW pos \in Positions(route)
    PROVE  /\ pos \in OfSwap(pos[1], pos[2])
           /\ pos[1] \in 1..NPaths /\ pos[2] \in 1..LastSwap(pos[1]) /\ pos[3] \in 1..ExchangeCount(pos[1], pos[2])
           /\ pos[1] \in Nat /\ pos[2] \in Nat \ {0} /\ pos[3] \in Nat \ {0}
           /\ LastSwap(pos[1]) \in Nat \ {0} /\ ExchangeCount(pos[1], pos[2]) \in Nat \ {0}
           /\ Swap(route, pos) = SwapOf(pos[1], pos[2])
           /\ IsLastSwap(route, pos) <=> pos[2] = LastSwap(pos[1])
           /\ pos = <<pos[1], pos[2], pos[3]>>
<1>1. SoldOverPaths(route)
  BY BuiltShape
<1>2. /\ pos = <<pos[1], pos[2], pos[3]>> /\ InRoute(pos[1], pos[2], pos[3])
      /\ pos[1] \in Nat /\ pos[2] \in Nat /\ pos[3] \in Nat
  BY <1>1, PositionHas
<1>3. /\ LastSwap(pos[1]) \in Nat \ {0} /\ ExchangeCount(pos[1], pos[2]) \in Nat \ {0}
  BY <1>1, <1>2, RouteShape DEF InRoute
<1>4. pos \in OfSwap(pos[1], pos[2])
  BY DEF OfSwap
<1>5. /\ Swap(route, pos) = SwapOf(pos[1], pos[2])
      /\ IsLastSwap(route, pos) <=> pos[2] = LastSwap(pos[1])
  BY DEF Swap, SwapOf, IsLastSwap, LastSwap
<1>6. pos[2] # 0 /\ pos[3] # 0
  <2>1. pos[2] >= 1 /\ pos[3] >= 1
    BY <1>2, <1>3 DEF InRoute
  <2> QED
    BY <1>2, <2>1
<1> QED
  BY <1>2, <1>3, <1>4, <1>5, <1>6 DEF InRoute

\* A swap has exchanges, all of one place.
LEMMA InSwapHas ==
    ASSUME Built, NEW i \in 1..NPaths, NEW j \in 1..LastSwap(i)
    PROVE  /\ <<i, j, 1>> \in OfSwap(i, j)
           /\ \A q \in OfSwap(i, j) : q \in Positions(route) /\ q[1] = i /\ q[2] = j
           /\ AnyWraps(Primaries, i, j) \/ AnyRaw(Primaries, i, j)
           /\ i \in Nat /\ j \in Nat \ {0} /\ LastSwap(i) \in Nat \ {0}
<1>1. SoldOverPaths(route) /\ NPaths \in Nat \ {0} /\ LastSwap(i) \in Nat \ {0}
      /\ ExchangeCount(i, j) \in Nat \ {0}
  BY BuiltShape, RouteShape
<1>2. <<i, j, 1>> \in Positions(route)
  <2>1. InRoute(i, j, 1)
    BY <1>1 DEF InRoute
  <2> QED
    BY <1>1, <2>1, PositionIs
<1>3. <<i, j, 1>> \in OfSwap(i, j)
  <2>1. <<i, j, 1>>[1] = i /\ <<i, j, 1>>[2] = j
    OBVIOUS
  <2> QED
    BY <1>2, <2>1 DEF OfSwap
<1>4. \A q \in OfSwap(i, j) : q \in Positions(route) /\ q[1] = i /\ q[2] = j
  BY DEF OfSwap
<1>5. AnyWraps(Primaries, i, j) \/ AnyRaw(Primaries, i, j)
  BY <1>3 DEF AnyWraps, AnyRaw
<1>6. i \in Nat /\ j \in Nat \ {0}
  BY <1>1
<1> QED
  BY <1>1, <1>3, <1>4, <1>5, <1>6

\* Where a route passes through ETH, what is wrapped and unwrapped is planned for.
LEMMA MidEth ==
    ASSUME Built, NEW i \in 1..NPaths, NEW j \in 1..LastSwap(i), j < LastSwap(i),
           SwapOf(i, j).dest = ETH
    PROVE  /\ Several /\ j + 1 \in 1..LastSwap(i) /\ SwapOf(i, j + 1).src = ETH
           /\ route.src # ETH /\ route.dest # ETH
           /\ "deposit" \in plan => "withdraw" \in plan
           /\ AnyWraps(Primaries, i, j) /\ AnyRaw(Primaries, i, j) => "withdraw" \in plan
           /\ EachWraps(Primaries, i, j) /\ AnyRaw(Primaries, i, j + 1) => "withdraw" \in plan
           /\ AnyRaw(Primaries, i, j) /\ AnyWraps(Primaries, i, j + 1) => "deposit" \in plan
           /\ AnyWraps(Primaries, i, j) /\ AnyRaw(Primaries, i, j) /\ "deposit" \notin plan =>
                EachRaw(Primaries, i, j + 1)
<1>1. /\ i \in Nat /\ j \in Nat \ {0} /\ LastSwap(i) \in Nat \ {0}
      /\ <<i, j, 1>> \in OfSwap(i, j)
      /\ \A q \in OfSwap(i, j) : q \in Positions(route) /\ q[1] = i /\ q[2] = j
  BY InSwapHas
<1>2. j + 1 \in 1..LastSwap(i)
  BY <1>1
<1>3. \A q \in OfSwap(i, j + 1) : q \in Positions(route) /\ q[1] = i /\ q[2] = j + 1
  BY <1>2, InSwapHas
<1>4. SwapOf(i, j + 1).src = ETH /\ route.src # ETH /\ route.dest # ETH
  BY <1>2, SwapsFollow
<1>5. Several
  <2>1. NPaths = 1 => i = 1
    OBVIOUS
  <2>2. Several \/ (NPaths = 1 /\ LastSwap(1) = 1)
    BY BuiltShape
  <2> QED
    BY <1>1, <2>1, <2>2
<1>6. Withdrawn
  <2> DEFINE pos == <<i, j, 1>>
  <2>1. pos \in Positions(route) /\ pos[1] = i /\ pos[2] = j
    BY <1>1
  <2> HIDE DEF pos
  <2>2. Swap(route, pos).dest = ETH /\ ~IsLastSwap(route, pos)
    BY <1>1, <2>1 DEF Swap, SwapOf, IsLastSwap, LastSwap
  <2> QED
    BY <1>5, <2>1, <2>2, LegsAreCounted DEF Resolved, Branches
\* The exchanges on both sides.
<1>7. \A q \in OfSwap(i, j) \union OfSwap(i, j + 1) :
        /\ q \in Positions(route) /\ q[1] = i
        /\ TouchesNativeOrWrapped(Swap(route, q))
        /\ Primaries[q] = param[<<q, "primary">>]
  <2>1. \A q \in OfSwap(i, j) : Swap(route, q).dest = ETH
    BY <1>1 DEF Swap, SwapOf
  <2>2. \A q \in OfSwap(i, j + 1) : Swap(route, q).src = ETH
    BY <1>3, <1>4 DEF Swap, SwapOf
  <2> QED
    BY <1>1, <1>3, <2>1, <2>2 DEF TouchesNativeOrWrapped, Primaries
<1>8. ASSUME NEW p \in OfSwap(i, j) \union OfSwap(i, j + 1),
             NEW q \in OfSwap(i, j) \union OfSwap(i, j + 1),
             Primaries[p].answer.wrap, ~Primaries[q].answer.wrap
      PROVE  HasMixedWrap
  <2>1. param[<<p, "primary">>].answer.wrap # param[<<q, "primary">>].answer.wrap
    BY <1>7, <1>8, Zenon
  <2> QED
    BY <1>7, <2>1 DEF HasMixedWrap
<1>9. AnyWraps(Primaries, i, j + 1) => Deposited
  <2>1. SUFFICES ASSUME NEW q \in OfSwap(i, j + 1), Primaries[q].answer.wrap
                 PROVE  Deposited
    BY DEF AnyWraps
  <2>2. q \in Positions(route) /\ Swap(route, q).src = ETH
    BY <1>3, <1>4 DEF Swap, SwapOf
  <2>3. LegOf(q, "primary").answer.wrap /\ Resolved(q, "primary")
    BY <2>1, <2>2, PrimaryIs
  <2> QED
    BY <2>2, <2>3, LegsAreCounted
<1>10. /\ "deposit" \in plan => "withdraw" \in plan
       /\ HasMixedWrap => "withdraw" \in plan
       /\ HasMixedWrap /\ Deposited => "deposit" \in plan
       /\ ~Deposited => "withdraw" \in plan
  BY <1>6, PlanIs
<1>11. AnyWraps(Primaries, i, j) /\ AnyRaw(Primaries, i, j) => HasMixedWrap
  BY <1>8 DEF AnyWraps, AnyRaw
<1>12. EachWraps(Primaries, i, j) /\ AnyRaw(Primaries, i, j + 1) => HasMixedWrap
  BY <1>8 DEF AnyWraps, AnyRaw, EachWraps
<1>13. AnyRaw(Primaries, i, j) /\ AnyWraps(Primaries, i, j + 1) => HasMixedWrap
  BY <1>8 DEF AnyWraps, AnyRaw
<1>14. AnyWraps(Primaries, i, j) /\ AnyRaw(Primaries, i, j) /\ "deposit" \notin plan =>
                EachRaw(Primaries, i, j + 1)
  <2>1. AnyWraps(Primaries, i, j + 1) \/ AnyRaw(Primaries, i, j + 1)
    BY <1>2, InSwapHas
  <2> QED
    BY <1>9, <1>10, <1>11, <2>1 DEF EachRaw
<1> QED
  BY <1>2, <1>4, <1>5, <1>9, <1>10, <1>11, <1>12, <1>13, <1>14

-----------------------------------------------------------------------------
(* Where ETH is taken and returned. *)

\* A swap that is sold ETH is the first of a route from ETH, or follows one that returns
\* it.
LEMMA TakesEth ==
    ASSUME Built, NEW i \in 1..NPaths, NEW j \in 1..LastSwap(i), SwapOf(i, j).src = ETH
    PROVE  \/ j = 1 /\ route.src = ETH
           \/ /\ j > 1 /\ j - 1 \in 1..LastSwap(i) /\ j - 1 < LastSwap(i)
              /\ SwapOf(i, j - 1).dest = ETH /\ (j - 1) + 1 = j /\ route.src # ETH
<1>1. j \in Nat \ {0} /\ LastSwap(i) \in Nat \ {0}
  BY InSwapHas
<1>2. CASE j = 1
  BY <1>2, SwapsFollow
<1>3. CASE j > 1
  <2>1. j - 1 \in 1..LastSwap(i) /\ j - 1 < LastSwap(i) /\ (j - 1) + 1 = j
    BY <1>1, <1>3
  <2>2. SwapOf(i, j - 1).dest = ETH
    BY <2>1, SwapsFollow
  <2> QED
    BY <1>3, <2>1, <2>2, SwapsFollow
<1> QED
  BY <1>1, <1>2, <1>3

\* A swap that returns ETH is followed by another, or is the last of a route to ETH.
LEMMA ReturnsEth ==
    ASSUME Built, NEW i \in 1..NPaths, NEW j \in 1..LastSwap(i), SwapOf(i, j).dest = ETH
    PROVE  j < LastSwap(i) \/ (j = LastSwap(i) /\ route.dest = ETH)
<1>1. j \in Nat \ {0} /\ LastSwap(i) \in Nat \ {0}
  BY InSwapHas
<1>2. j < LastSwap(i) \/ j = LastSwap(i)
  BY <1>1
<1> QED
  BY <1>2, SwapsFollow

\* A leg that wraps what it is sold in ETH, at the start of a route, or unwraps at
\* its end, has the template for it.
LEMMA SoldForEth ==
    ASSUME Built, route.src = ETH
    PROVE  /\ "withdraw" \notin plan
           /\ \A pos \in Positions(route) : \A b :
                Resolved(pos, b) /\ Swap(route, pos).src = ETH /\ LegOf(pos, b).answer.wrap
                    => "deposit" \in plan
<1>1. ~Withdrawn
  BY EndsInEth
<1> QED
  BY <1>1, PlanIs, LegsAreCounted

\* At the end of a route nothing is planned to be wrapped; what has been wrapped to be
\* unwrapped is.
LEMMA BoughtInEth ==
    ASSUME Built, route.dest = ETH
    PROVE  /\ "deposit" \notin plan
           /\ \A pos \in Positions(route) : \A b :
                Resolved(pos, b) /\ Swap(route, pos).dest = ETH /\ LegOf(pos, b).answer.wrap
                    => "withdraw" \in plan
<1>1. ~Deposited
  BY EndsInEth
<1> QED
  BY <1>1, PlanIs, LegsAreCounted

\* There is no swap before the first.
LEMMA NoneBefore ==
    ASSUME Built, NEW i
    PROVE  OfSwap(i, 0) = {} /\ ~AppendsWrap(i, 0)
<1>1. \A pos \in Positions(route) : pos[2] # 0
  BY OfSwapHas
<1> QED
  BY <1>1 DEF OfSwap, AppendsWrap, AnyRaw

\* A fallback stands in for one exchange.
LEMMA ElsewhereSame ==
    ASSUME NEW pos \in Positions(route), NEW i, NEW j, pos[1] # i \/ pos[2] # j
    PROVE  /\ AnyWraps(Substituted(pos), i, j) <=> AnyWraps(Primaries, i, j)
           /\ AnyRaw(Substituted(pos), i, j) <=> AnyRaw(Primaries, i, j)
           /\ EachWraps(Substituted(pos), i, j) <=> EachWraps(Primaries, i, j)
           /\ EachRaw(Substituted(pos), i, j) <=> EachRaw(Primaries, i, j)
<1>1. \A q \in OfSwap(i, j) : q \in Positions(route) /\ q # pos
  BY DEF OfSwap
<1>2. \A q \in OfSwap(i, j) : Substituted(pos)[q] = Primaries[q]
  BY <1>1 DEF Substituted, Primaries
<1> QED
  BY <1>2 DEF AnyWraps, AnyRaw, EachWraps, EachRaw

\* Of one that takes the same form, nobody sees the difference.
LEMMA SameFormSame ==
    ASSUME Built, NEW pos \in Positions(route), HasFallback(pos),
           LegOf(pos, "fallback").answer.wrap <=> LegOf(pos, "primary").answer.wrap
    PROVE  \A i, j :
           /\ AnyWraps(Substituted(pos), i, j) <=> AnyWraps(Primaries, i, j)
           /\ AnyRaw(Substituted(pos), i, j) <=> AnyRaw(Primaries, i, j)
           /\ EachWraps(Substituted(pos), i, j) <=> EachWraps(Primaries, i, j)
<1>1. \A q \in Positions(route) :
        Substituted(pos)[q].answer.wrap <=> Primaries[q].answer.wrap
  BY DEF Substituted, Primaries, LegOf, ParamsFor
<1>2. \A i, j : \A q \in OfSwap(i, j) : q \in Positions(route)
  BY DEF OfSwap
<1> QED
  BY <1>1, <1>2 DEF AnyWraps, AnyRaw, EachWraps

\* The root wraps for every exchange that takes its source, or for none.
LEMMA RootWrapsIs ==
    ASSUME Built
    PROVE  /\ RootWraps(Primaries) => NeedWrapEth
           /\ NeedWrapEth /\ RootWraps(Primaries) <=> RootWraps(Primaries)
           /\ \A pos \in Positions(route) :
                RootWraps(Primaries) /\ pos[2] = 1 => Primaries[pos].answer.wrap
<1>1. ASSUME RootWraps(Primaries), NEW pos \in Positions(route), pos[2] = 1
      PROVE  Primaries[pos].answer.wrap /\ Swap(route, pos).src = ETH
  <2>1. pos \in OfSwap(pos[1], 1) /\ pos[1] \in DOMAIN route.paths /\ Swap(route, pos) = SwapOf(pos[1], 1)
        /\ pos[1] \in 1..NPaths
    BY <1>1, OfSwapHas, BuiltShape, RouteShape
  <2>2. EachWraps(Primaries, pos[1], 1) /\ route.src = ETH
    BY <1>1, <2>1 DEF RootWraps
  <2>3. SwapOf(pos[1], 1).src = ETH
    BY <2>1, <2>2, SwapsFollow
  <2> QED
    BY <2>1, <2>2, <2>3 DEF EachWraps, AnyRaw
<1>2. RootWraps(Primaries) => NeedWrapEth
  <2>1. SUFFICES ASSUME RootWraps(Primaries) PROVE NeedWrapEth
    OBVIOUS
  <2>2. 1 \in 1..NPaths /\ 1 \in 1..LastSwap(1)
    <3>1. NPaths \in Nat \ {0} /\ \A i \in 1..NPaths : LastSwap(i) \in Nat \ {0}
      BY BuiltShape, RouteShape
    <3>2. 1 \in 1..NPaths
      BY <3>1
    <3> QED
      BY <3>1, <3>2
  <2> DEFINE pos == <<1, 1, 1>>
  <2>3. pos \in Positions(route) /\ pos[2] = 1
    BY <2>2, InSwapHas
  <2> HIDE DEF pos
  <2>4. LegOf(pos, "primary").answer.wrap /\ Swap(route, pos).src = ETH /\ Resolved(pos, "primary")
    BY <1>1, <2>1, <2>3, PrimaryIs
  <2>5. route.src = ETH
    BY <2>1 DEF RootWraps
  <2> QED
    BY <2>3, <2>4, <2>5, SoldForEth DEF NeedWrapEth
<1> QED
  BY <1>1, <1>2

-----------------------------------------------------------------------------
(* Forms meet: what is handed over is in the form that is taken. *)

\* A path is handed what the root's wrapper passes on.
LEMMA PathsMeetRoot ==
    ASSUME Built, NEW i \in 1..NPaths
    PROVE  PathToken(i) = RootToken
<1>1. 1 \in 1..LastSwap(i) /\ SwapOf(i, 1).src = route.src
  <2>1. LastSwap(i) \in Nat \ {0}
    BY BuiltShape, RouteShape
  <2>2. 1 \in 1..LastSwap(i)
    BY <2>1
  <2> QED
    BY <2>2, SwapsFollow
<1>2. route.paths[i].swaps[1].src = route.src
  BY <1>1 DEF SwapOf
<1>3. CASE route.src # ETH
  BY <1>2, <1>3 DEF PathToken, RootToken, NeedWrapEth
<1>4. CASE route.src = ETH
  <2>1. RootToken = IF RootWraps(Primaries) THEN WETH ELSE ETH
    BY <1>4, RootWrapsIs DEF RootToken
  <2>2. \A j : ~AppendsWrap(i, j)
    <3>1. \A j \in 1..LastSwap(i) : SwapOf(i, j).dest # ETH
      BY <1>4, SwapsFollow
    <3>2. \A j : OfSwap(i, j) # {} => j \in 1..LastSwap(i)
      <4> TAKE j
      <4>1. SUFFICES ASSUME NEW q \in OfSwap(i, j) PROVE j \in 1..LastSwap(i)
        OBVIOUS
      <4>2. q \in Positions(route) /\ q[1] = i /\ q[2] = j
        BY DEF OfSwap
      <4> QED
        BY <4>2, OfSwapHas
    <3> QED
      BY <3>1, <3>2 DEF AppendsWrap, AnyRaw, SwapOf
  <2>3. CASE RootWraps(Primaries)
    <3>1. AnyWraps(Primaries, i, 1)
      BY <2>3, BuiltShape, RouteShape DEF RootWraps, EachWraps
    <3>2. \A pos : ~Deposits(Primaries, pos)
      BY <2>3 DEF Deposits
    <3> QED
      BY <1>2, <1>4, <2>1, <2>2, <2>3, <3>1, <3>2 DEF PathToken
  <2>4. CASE ~RootWraps(Primaries)
    <3>1. ASSUME AnyWraps(Primaries, i, 1)
          PROVE  \E pos \in Positions(route) : pos[1] = i /\ Deposits(Primaries, pos)
      <4>1. PICK pos \in OfSwap(i, 1) : Primaries[pos].answer.wrap
        BY <3>1 DEF AnyWraps
      <4>2. pos \in Positions(route) /\ pos[1] = i /\ pos[2] = 1
        BY DEF OfSwap
      <4>3. Swap(route, pos).src = ETH
        BY <1>2, <1>4, <4>2 DEF Swap
      <4>4. "deposit" \in plan
        BY <1>4, <4>1, <4>2, <4>3, SoldForEth, PrimaryIs
      <4>5. ~AppendsWrap(i, 0)
        BY <2>2
      <4>6. pos[2] - 1 = 0
        BY <4>2
      <4> QED
        BY <2>4, <4>1, <4>2, <4>3, <4>4, <4>5, <4>6 DEF Deposits
    <3> QED
      BY <1>2, <1>4, <2>1, <2>4, <3>1 DEF PathToken
  <2> QED
    BY <2>3, <2>4
<1> QED
  BY <1>3, <1>4

\* What an exchange wraps for itself and what is unwrapped before it: at the start
\* of a route, and in the middle.
LEMMA DepositsAtStart ==
    ASSUME Built, route.src = ETH, NEW pos \in Positions(route), pos[2] = 1,
           NEW b, Resolved(pos, b)
    PROVE  /\ Swap(route, pos).src = ETH
           /\ Deposits(ParamsFor(pos, b), pos) <=>
                LegOf(pos, b).answer.wrap /\ ~RootWraps(ParamsFor(pos, b))
           /\ ~UnwrapsBefore(ParamsFor(pos, b), pos, b)
<1>1. Swap(route, pos).src = ETH
  BY OfSwapHas, SwapsFollow
<1>2. LegOf(pos, b).answer.wrap => "deposit" \in plan
  BY <1>1, SoldForEth
<1>3. "withdraw" \notin plan
  BY SoldForEth
<1>4. pos[2] - 1 = 0 /\ ~AppendsWrap(pos[1], 0)
  BY NoneBefore
<1> QED
  BY <1>1, <1>2, <1>3, <1>4 DEF Deposits, UnwrapsBefore, LegOf

\* In the middle of a route no exchange wraps for itself.
LEMMA NoDepositsMidRoute ==
    ASSUME Built, NEW pos \in Positions(route), Swap(route, pos).src = ETH, pos[2] > 1,
           NEW b, Resolved(pos, b)
    PROVE  ~Deposits(ParamsFor(pos, b), pos)
<1> DEFINE i == pos[1]
           j == pos[2] - 1
<1>1. /\ i \in 1..NPaths /\ j \in 1..LastSwap(i) /\ j < LastSwap(i) /\ j > 0
      /\ SwapOf(i, j).dest = ETH
  BY OfSwapHas, TakesEth
<1>2. AnyRaw(ParamsFor(pos, b), i, j) <=> AnyRaw(Primaries, i, j)
  <2>1. pos[2] # j
    BY OfSwapHas
  <2> HIDE DEF i, j
  <2>2. AnyRaw(Substituted(pos), i, j) <=> AnyRaw(Primaries, i, j)
    BY <2>1, ElsewhereSame
  <2> QED
    BY <2>2 DEF ParamsFor
<1>3. AnyRaw(Primaries, i, j) /\ "deposit" \in plan => AppendsWrap(i, j)
  BY <1>1 DEF AppendsWrap, SwapOf
<1> HIDE DEF i, j
<1> QED
  BY <1>1, <1>2, <1>3 DEF Deposits, i, j

\* Mid-route, whatever the swap before has left in WETH is taken in WETH.
LEMMA MidRouteMeets ==
    ASSUME Built, Sound, NEW pos \in Positions(route), Swap(route, pos).src = ETH, pos[2] > 1
    PROVE  FormBefore(pos[1], pos[2]) = WETH <=>
               Primaries[pos].answer.wrap \/ UnwrapsBefore(Primaries, pos, "primary")
<1> DEFINE i == pos[1]
           n == pos[2]
           j == pos[2] - 1
           W(q) == Withdraws(Primaries, q)
<1>1. /\ i \in 1..NPaths /\ j \in 1..LastSwap(i) /\ j < LastSwap(i) /\ n # 1
      /\ SwapOf(i, j).dest = ETH /\ j + 1 = n /\ SwapOf(i, n).src = ETH
  BY OfSwapHas, TakesEth
<1>2. pos \in OfSwap(i, n)
  BY OfSwapHas
<1> HIDE DEF i, n, j
<1>3. /\ Several
      /\ "deposit" \in plan => "withdraw" \in plan
      /\ EachWraps(Primaries, i, j) /\ AnyRaw(Primaries, i, n) => "withdraw" \in plan
      /\ AnyRaw(Primaries, i, j) /\ AnyWraps(Primaries, i, n) => "deposit" \in plan
      /\ AnyWraps(Primaries, i, j) \/ AnyRaw(Primaries, i, j)
  BY <1>1, MidEth, InSwapHas
<1>4. FormBefore(i, n) = WETH <=>
        AppendsWrap(i, j) \/ (EachWraps(Primaries, i, j) /\ \A q \in OfSwap(i, j) : ~W(q))
  <2>1. n - 1 = j
    BY DEF n, j
  <2> QED
    BY <1>1, <2>1, TokenAssumption DEF FormBefore, AnyWithdraws
<1>5. UnwrapsBefore(Primaries, pos, "primary") <=>
        /\ ~Primaries[pos].answer.wrap /\ "withdraw" \in plan
        /\ \A q \in OfSwap(i, j) : ~W(q)
        /\ AppendsWrap(i, j) \/ EachWraps(Primaries, i, j)
  BY DEF UnwrapsBefore, i, j
<1>6. AnyRaw(Primaries, i, j) /\ "deposit" \in plan <=> AppendsWrap(i, j)
  BY <1>1 DEF AppendsWrap, SwapOf
\* An exchange that unwraps does so for a swap that takes one form.
<1>7. ASSUME NEW q \in OfSwap(i, j), W(q)
      PROVE  /\ EachWraps(Primaries, i, n) \/ EachRaw(Primaries, i, n)
             /\ AppendsWrap(i, j) => ~EachRaw(Primaries, i, n)
             /\ EachWraps(Primaries, i, j) => ~EachWraps(Primaries, i, n)
  <2>1. q \in Positions(route) /\ q[1] = i /\ q[2] = j /\ ~IsLastSwap(route, q)
    BY <1>1, OfSwapHas DEF OfSwap
  <2>2. StaysUnwrapped(q) /\ KeepsWethForNext(q)
    BY <2>1 DEF Sound, Parts, Holds
  <2>3. q[2] + 1 = n /\ n = j + 1
    BY <1>1, <2>1
  <2>4. EachWraps(Primaries, i, n) \/ EachRaw(Primaries, i, n)
    BY <1>3, <1>7, <2>1, <2>3 DEF Withdraws
  <2>5. VerticalBranching(q) => AnyRaw(Primaries, i, j)
    BY <1>7, <2>1 DEF Withdraws, UnwrapsForSwap
  <2> QED
    BY <1>7, <2>1, <2>2, <2>3, <2>4, <2>5 DEF StaysUnwrapped, KeepsWethForNext, EachWraps
<1>8. /\ Primaries[pos].answer.wrap => AnyWraps(Primaries, i, n) /\ ~EachRaw(Primaries, i, n)
      /\ ~Primaries[pos].answer.wrap => AnyRaw(Primaries, i, n) /\ ~EachWraps(Primaries, i, n)
  BY <1>2 DEF AnyWraps, AnyRaw, EachRaw, EachWraps
<1>9. EachWraps(Primaries, i, j) <=> ~AnyRaw(Primaries, i, j)
  BY <1>3 DEF EachWraps
<1> HIDE DEF W
<1>10. FormBefore(i, n) = WETH <=>
               Primaries[pos].answer.wrap \/ UnwrapsBefore(Primaries, pos, "primary")
  BY <1>3, <1>4, <1>5, <1>6, <1>7, <1>8, <1>9
<1> QED
  BY <1>10 DEF i, n

\* What stands for the tokens that a swap, and its exchanges, are handed.
LEMMA FormsAre ==
    ASSUME Built, NEW i \in 1..NPaths, NEW j \in 1..LastSwap(i)
    PROVE  /\ FormBefore(i, j) \in {SwapOf(i, j).src, WETH}
           /\ SwapOf(i, j).src # ETH => FormBefore(i, j) = SwapOf(i, j).src
           /\ FormBefore(i, j) # WETH => FormBefore(i, j) = SwapOf(i, j).src
<1>1. SwapOf(i, 1).src = route.src
  BY SwapsFollow
<1> QED
  BY <1>1, TokenAssumption DEF FormBefore, RootToken, NeedWrapEth

\* Each share of a split is handed on in the form that the split is given, and an
\* exchange works on that form.
LEMMA SharesMeet ==
    ASSUME Built, Sound, NEW pos \in Positions(route)
    PROVE  /\ ShareToken(pos) = FormBefore(pos[1], pos[2])
           /\ EntryToken(pos, "primary") = ShareToken(pos)
<1>1. /\ pos[1] \in 1..NPaths /\ pos[2] \in 1..LastSwap(pos[1])
      /\ Swap(route, pos) = SwapOf(pos[1], pos[2]) /\ pos[2] \in Nat \ {0}
  BY OfSwapHas
<1>2. EntryToken(pos, "primary") = ShareToken(pos)
  BY DEF EntryToken, ShareToken, ParamsFor, UnwrapsBefore, Deposits
<1>3. CASE Swap(route, pos).src # ETH
  BY <1>1, <1>2, <1>3, FormsAre DEF ShareToken
<1>4. CASE Swap(route, pos).src = ETH /\ pos[2] > 1
  <2>1. ~Deposits(Primaries, pos)
    BY <1>4, NoDepositsMidRoute, PrimaryIs DEF ParamsFor
  <2>2. ShareToken(pos) = WETH <=>
               Primaries[pos].answer.wrap \/ UnwrapsBefore(Primaries, pos, "primary")
    BY <1>4, <2>1, TokenAssumption DEF ShareToken
  <2>3. FormBefore(pos[1], pos[2]) = WETH <=> ShareToken(pos) = WETH
    BY <1>4, <2>2, MidRouteMeets
  <2> QED
    BY <1>1, <1>2, <2>3, FormsAre DEF ShareToken
<1>5. CASE Swap(route, pos).src = ETH /\ pos[2] = 1
  <2>1. route.src = ETH
    BY <1>1, <1>5, TakesEth
  <2>2. /\ Deposits(Primaries, pos) <=> Primaries[pos].answer.wrap /\ ~RootWraps(Primaries)
        /\ ~UnwrapsBefore(Primaries, pos, "primary")
    BY <1>5, <2>1, DepositsAtStart, PrimaryIs DEF ParamsFor
  <2>3. RootWraps(Primaries) => Primaries[pos].answer.wrap
    BY <1>5, RootWrapsIs
  <2>4. FormBefore(pos[1], pos[2]) = IF RootWraps(Primaries) THEN WETH ELSE ETH
    BY <1>5, <2>1, RootWrapsIs DEF FormBefore, RootToken
  <2> QED
    BY <1>2, <1>5, <2>2, <2>3, <2>4 DEF ShareToken
<1> QED
  BY <1>1, <1>3, <1>4, <1>5

\* What is put before a fallback leaves it the form that it works on.
InputMeets(pos) ==
    /\ InputSteps(pos) \in {<<>>, <<ApproveStep>>} => EntryToken(pos, "fallback") = ShareToken(pos)
    /\ InputSteps(pos) = <<UnwrapStep>> =>
            ShareToken(pos) = WETH /\ EntryToken(pos, "fallback") = ETH
    /\ InputSteps(pos) \in {<<WrapStep>>, <<ApproveStep, WrapStep>>} =>
            ShareToken(pos) = ETH /\ EntryToken(pos, "fallback") = WETH

\* The steps, by what they are put there for.
LEMMA InputIs ==
    ASSUME NEW pos
    PROVE  LET wraps == Primaries[pos].answer.wrap
               fromEth == Swap(route, pos).src = ETH
               other == Substituted(pos)[pos].answer.wrap
               first == fromEth /\ wraps /\ ~Deposits(Primaries, pos)
               second == fromEth /\ ~wraps /\ other /\ "deposit" \in plan
                            /\ ~Deposits(Substituted(pos), pos)
           IN  InputSteps(pos) \in
                 IF first THEN IF other THEN {<<>>, <<ApproveStep>>} ELSE {<<UnwrapStep>>}
                 ELSE IF second THEN {<<WrapStep>>, <<ApproveStep, WrapStep>>}
                 ELSE {<<>>}
<1> DEFINE a == Substituted(pos)[pos].approve = "data" /\ ~Substituted(pos)[pos].answer.skipApproval
           wraps == Primaries[pos].answer.wrap
           fromEth == Swap(route, pos).src = ETH
           other == Substituted(pos)[pos].answer.wrap
           d == Deposits(Primaries, pos)
           e == Deposits(Substituted(pos), pos)
           p == "deposit" \in plan
           approve == If(a, <<ApproveStep>>)
<1>1. InputSteps(pos) = If(fromEth /\ wraps /\ ~d, IF other THEN approve ELSE <<UnwrapStep>>)
                        \o If(fromEth /\ ~wraps /\ other /\ p /\ ~e, approve \o <<WrapStep>>)
  BY DEF InputSteps
<1>2. approve \in {<<>>, <<ApproveStep>>}
  BY DEF If
<1> HIDE DEF a, wraps, fromEth, other, d, e, p, approve
<1>3. approve \o <<WrapStep>> \in {<<WrapStep>>, <<ApproveStep, WrapStep>>}
  BY <1>2, ShortRows
<1>4. InputSteps(pos) \in
                 IF fromEth /\ wraps /\ ~d THEN IF other THEN {<<>>, <<ApproveStep>>} ELSE {<<UnwrapStep>>}
                 ELSE IF fromEth /\ ~wraps /\ other /\ p /\ ~e THEN {<<WrapStep>>, <<ApproveStep, WrapStep>>}
                 ELSE {<<>>}
  <2>1. CASE fromEth /\ wraps /\ ~d
    <3>1. InputSteps(pos) = (IF other THEN approve ELSE <<UnwrapStep>>) \o <<>>
      BY <1>1, <2>1 DEF If
    <3>2. InputSteps(pos) = (IF other THEN approve ELSE <<UnwrapStep>>)
      BY <1>2, <3>1, ShortRows
    <3> QED
      BY <1>2, <2>1, <3>2
  <2>2. CASE fromEth /\ ~wraps /\ other /\ p /\ ~e
    <3>1. InputSteps(pos) = <<>> \o (approve \o <<WrapStep>>)
      BY <1>1, <2>2 DEF If
    <3>2. InputSteps(pos) = approve \o <<WrapStep>>
      BY <1>3, <3>1, ShortRows
    <3> QED
      BY <1>3, <2>2, <3>2
  <2>3. CASE ~(fromEth /\ wraps /\ ~d) /\ ~(fromEth /\ ~wraps /\ other /\ p /\ ~e)
    <3>1. InputSteps(pos) = <<>> \o <<>>
      BY <1>1, <2>3 DEF If
    <3>2. InputSteps(pos) = <<>>
      BY <3>1, ShortRows
    <3> QED
      BY <2>3, <3>2
  <2> QED
    BY <2>1, <2>2, <2>3
<1> QED
  BY <1>4 DEF wraps, fromEth, other, d, e, p

\* Rows of different steps differ.
LEMMA RowsDiffer ==
    /\ WrapStep # UnwrapStep /\ ApproveStep # WrapStep /\ ApproveStep # UnwrapStep
    /\ SendNativeStep # WrapStep /\ SendNativeStep # UnwrapStep
    /\ \A s : <<>> # <<s>>
    /\ \A s, t : <<>> # <<s, t>>
    /\ \A s, t, u : <<u>> # <<s, t>>
    /\ \A s, t : <<s>> = <<t>> => s = t
    /\ \A s, t, u, v : <<s, t>> = <<u, v>> => s = u /\ t = v
<1>1. \A s : Len(<<s>>) = 1
  OBVIOUS
<1>2. \A s, t : Len(<<s, t>>) = 2
  OBVIOUS
<1>3. Len(<<>>) = 0
  OBVIOUS
<1>4. \A s, t : <<s>> = <<t>> => s = t
  OBVIOUS
<1>5. \A s, t, u, v : <<s, t>> = <<u, v>> => s = u /\ t = v
  OBVIOUS
<1>6. \A s : <<>> # <<s>>
  BY <1>1, <1>3
<1>7. \A s, t : <<>> # <<s, t>>
  BY <1>2, <1>3
<1>8. \A s, t, u : <<u>> # <<s, t>>
  BY <1>1, <1>2
<1>9. /\ WrapStep # UnwrapStep /\ ApproveStep # WrapStep /\ ApproveStep # UnwrapStep
      /\ SendNativeStep # WrapStep /\ SendNativeStep # UnwrapStep
  BY DEF WrapStep, UnwrapStep, ApproveStep, SendNativeStep
<1> QED
  BY <1>4, <1>5, <1>6, <1>7, <1>8, <1>9

\* What is put before a fallback leaves it the form that it works on.
LEMMA InputsMeet ==
    ASSUME Built, Sound, NEW pos \in Positions(route), HasFallback(pos)
    PROVE  InputMeets(pos)
<1> DEFINE w == Primaries[pos].answer.wrap
           o == Substituted(pos)[pos].answer.wrap
           e == Swap(route, pos).src = ETH
           d == Deposits(Primaries, pos)
           f == Deposits(Substituted(pos), pos)
           u == UnwrapsBefore(Primaries, pos, "primary")
           v == UnwrapsBefore(Substituted(pos), pos, "fallback")
           p == "deposit" \in plan
           share == IF e /\ (w \/ u) /\ ~d THEN WETH ELSE Swap(route, pos).src
           entry == IF e /\ ((o /\ ~f) \/ v) THEN WETH ELSE Swap(route, pos).src
<1>1. ShareToken(pos) = share /\ EntryToken(pos, "fallback") = entry
  BY DEF ShareToken, EntryToken, ParamsFor
<1>2. InputSteps(pos) \in
         IF e /\ w /\ ~d THEN IF o THEN {<<>>, <<ApproveStep>>} ELSE {<<UnwrapStep>>}
         ELSE IF e /\ ~w /\ o /\ p /\ ~f THEN {<<WrapStep>>, <<ApproveStep, WrapStep>>}
         ELSE {<<>>}
  BY InputIs
<1>3. /\ LegOf(pos, "primary") = Primaries[pos] /\ Resolved(pos, "primary")
      /\ LegOf(pos, "fallback") = Substituted(pos)[pos] /\ Resolved(pos, "fallback")
      /\ ParamsFor(pos, "primary") = Primaries /\ ParamsFor(pos, "fallback") = Substituted(pos)
  BY PrimaryIs DEF ParamsFor
<1>4. CASE e /\ pos[2] > 1
\* Both take one form: what is put before the fallback is an approval at most.
  <2>1. ~d /\ ~f
    BY <1>3, <1>4, NoDepositsMidRoute
  <2>2. o = w
    BY <1>3, <1>4, MidRouteAgrees DEF Sound
  <2>3. v <=> u
    <3>1. EachWraps(Substituted(pos), pos[1], pos[2] - 1) <=> EachWraps(Primaries, pos[1], pos[2] - 1)
      <4>1. pos[2] # pos[2] - 1
        BY OfSwapHas
      <4> QED
        BY <4>1, ElsewhereSame
    <3>2. v => UnwrapsBefore(Substituted(pos), pos, "primary")
      <4>1. UnwrapIsSeen(pos)
        BY DEF Sound, Parts, Holds
      <4> QED
        BY <4>1 DEF UnwrapIsSeen
    <3> QED
      BY <2>2, <3>1, <3>2 DEF UnwrapsBefore
  <2>4. w => ~u
    BY DEF UnwrapsBefore
  <2> HIDE DEF w, o, d, f, u, v, p
  <2>5. InputSteps(pos) \in {<<>>, <<ApproveStep>>} /\ entry = share
    BY <1>2, <1>4, <2>1, <2>2, <2>3, <2>4
  <2> HIDE DEF entry, share
  <2> QED
    BY <1>1, <2>5, RowsDiffer DEF InputMeets
<1>5. CASE e /\ pos[2] = 1
  <2>1. route.src = ETH
    BY <1>5, OfSwapHas, TakesEth
  <2>2. /\ d <=> w /\ ~RootWraps(Primaries)
        /\ f <=> o /\ ~RootWraps(Substituted(pos))
        /\ ~u /\ ~v
    BY <1>3, <1>5, <2>1, DepositsAtStart
  <2>3. w /\ o => (RootWraps(Substituted(pos)) <=> RootWraps(Primaries))
    <3>1. SUFFICES ASSUME w, o PROVE RootWraps(Substituted(pos)) <=> RootWraps(Primaries)
      OBVIOUS
    <3>2. \A i, j : EachWraps(Substituted(pos), i, j) <=> EachWraps(Primaries, i, j)
      BY <1>3, <3>1, SameFormSame
    <3> QED
      BY <3>2 DEF RootWraps
  <2>4. RootWraps(Primaries) => w
    BY <1>5, RootWrapsIs
  <2>5. w \/ o => p
    BY <1>3, <1>5, <2>1, SoldForEth
  <2> HIDE DEF w, o, d, f, u, v, p
  <2>6. CASE w /\ ~d /\ o
    <3>1. InputSteps(pos) \in {<<>>, <<ApproveStep>>} /\ entry = share
      BY <1>2, <1>5, <2>2, <2>3, <2>6
    <3> HIDE DEF entry, share
    <3> QED
      BY <1>1, <3>1, RowsDiffer DEF InputMeets
  <2>7. CASE w /\ ~d /\ ~o
    <3>1. InputSteps(pos) = <<UnwrapStep>> /\ share = WETH /\ entry = ETH
      BY <1>2, <1>5, <2>2, <2>7
    <3> HIDE DEF entry, share
    <3> QED
      BY <1>1, <3>1, RowsDiffer DEF InputMeets
  <2>8. CASE ~w /\ o /\ ~f
    <3>1. InputSteps(pos) \in {<<WrapStep>>, <<ApproveStep, WrapStep>>} /\ share = ETH /\ entry = WETH
      BY <1>2, <1>5, <2>2, <2>5, <2>8
    <3> HIDE DEF entry, share
    <3> QED
      BY <1>1, <3>1, RowsDiffer DEF InputMeets
  <2>9. CASE (w /\ d) \/ (~w /\ (~o \/ f))
    <3>1. InputSteps(pos) = <<>> /\ share = ETH
      BY <1>2, <1>5, <2>2, <2>9
    <3>2. entry = ETH
      BY <1>5, <2>2, <2>3, <2>9
    <3> HIDE DEF entry, share
    <3> QED
      BY <1>1, <3>1, <3>2, RowsDiffer DEF InputMeets
  <2> QED
    BY <2>6, <2>7, <2>8, <2>9
<1>6. CASE ~e
  <2>1. InputSteps(pos) = <<>> /\ share = entry
    BY <1>2, <1>6
  <2> HIDE DEF entry, share
  <2> QED
    BY <1>1, <2>1, RowsDiffer DEF InputMeets
<1>7. pos[2] = 1 \/ pos[2] > 1
  <2>1. pos[2] \in Nat \ {0}
    BY OfSwapHas
  <2> QED
    BY <2>1
<1> QED
  BY <1>4, <1>5, <1>6, <1>7

-----------------------------------------------------------------------------
(* Calls: what they take, what they return, and what they measure. *)

\* The answer for a block.
AnswerOf(pos, b) == LegOf(pos, b).answer

\* A call takes and returns the tokens that its answer says, to whom the build says, and
\* is granted what the build says.
LEMMA CallIs ==
    ASSUME NEW pos, NEW b
    PROVE  LET swap == Swap(route, pos)
               a == AnswerOf(pos, b)
               p == LegOf(pos, b)
               call == CallIn(pos, b)
           IN
           /\ call.op = "dex"
           /\ call.in = IF TakesNative(swap, a) THEN ETH ELSE WrappedForm(swap.src)
           /\ call.out = IF GivesNative(swap, a) THEN ETH ELSE WrappedForm(swap.dest)
           /\ call.to = IF a.hasRecipient THEN p.recipient ELSE "executor"
           /\ call.how = IF a.transferSrc THEN "pool"
                         ELSE IF TakesNative(swap, a) THEN "eth"
                         ELSE IF a.skipApproval \/ p.approve = "already" THEN "granted"
                         ELSE "needs"
           /\ call.flag = DexFlag(ParamsFor(pos, b), pos)
           /\ call.measured = WrappedForm(swap.dest)
BY DEF CallIn, CallOf, DexStep, AnswerOf, LegOf

\* A flag is its three fields.
LEMMA FlagIs ==
    \A send, insert, check :
        /\ Flag(send, insert, check).send = send
        /\ Flag(send, insert, check).insert = insert
        /\ Flag(send, insert, check).check = check
BY DEF Flag

\* A leg's tokens and answer, as the next lemmas need them.
LEMMA AnswerFits ==
    ASSUME Built, NEW pos \in Positions(route), NEW b, Resolved(pos, b)
    PROVE  LET swap == Swap(route, pos)
               a == AnswerOf(pos, b)
           IN
           /\ a \in AnswerType
           /\ Consistent(swap, a)
           /\ swap.src # swap.dest /\ swap.src \in Tokens /\ swap.dest \in Tokens
           /\ route.src = ETH => swap.dest # ETH
           /\ route.dest = ETH => swap.src \notin {ETH, WETH}
           /\ ~Several => swap.src = route.src /\ swap.dest = route.dest
           /\ ~Several /\ swap.src = ETH /\ a.wrap => "deposit" \in plan
           /\ ~Several /\ swap.dest = ETH /\ a.wrap => "withdraw" \in plan
<1>1. /\ AnswerOf(pos, b) \in AnswerType /\ Consistent(Swap(route, pos), AnswerOf(pos, b))
  BY LegIs DEF ParamType, AnswerOf
<1>2. /\ pos[1] \in 1..NPaths /\ pos[2] \in 1..LastSwap(pos[1])
      /\ Swap(route, pos) = SwapOf(pos[1], pos[2])
  BY OfSwapHas
<1>3. LET swap == Swap(route, pos) IN
           /\ swap.src # swap.dest /\ swap.src \in Tokens /\ swap.dest \in Tokens
           /\ route.src = ETH => swap.dest # ETH
           /\ route.dest = ETH => swap.src \notin {ETH, WETH}
  BY <1>2, SwapsFollow
<1>4. ~Several => Swap(route, pos).src = route.src /\ Swap(route, pos).dest = route.dest
  <2>1. SUFFICES ASSUME ~Several PROVE Swap(route, pos).src = route.src /\ Swap(route, pos).dest = route.dest
    OBVIOUS
  <2>2. pos[1] = 1 /\ pos[2] = 1 /\ LastSwap(1) = 1
    BY <2>1, SingleIsSplit, BuiltShape
  <2>3. SwapOf(pos[1], pos[2]) = SwapOf(1, 1) /\ 1 \in 1..NPaths
    BY <1>2, <2>2
  <2> QED
    BY <1>2, <2>2, <2>3, SwapsFollow
<1>5. /\ ~Several /\ Swap(route, pos).src = ETH /\ AnswerOf(pos, b).wrap => "deposit" \in plan
      /\ ~Several /\ Swap(route, pos).dest = ETH /\ AnswerOf(pos, b).wrap => "withdraw" \in plan
  BY <1>4, SoldForEth, BoughtInEth DEF AnswerOf
<1> QED
  BY <1>1, <1>3, <1>4, <1>5

\* ETH is sent along exactly where ETH is taken.
LEMMA CallSends ==
    ASSUME Built, NEW pos \in Positions(route), NEW b, Resolved(pos, b)
    PROVE  CallIn(pos, b).flag.send <=> CallIn(pos, b).in = ETH
<1> DEFINE swap == Swap(route, pos)
           a == AnswerOf(pos, b)
           P == ParamsFor(pos, b)
<1>1. CallIn(pos, b).in = ETH <=> TakesNative(swap, a)
  BY CallIs, TokenAssumption DEF WrappedForm
<1>2. Consistent(swap, a) /\ swap.src # swap.dest
  BY AnswerFits
<1>3. ~Several /\ swap.src = ETH /\ a.wrap => "deposit" \in plan
  BY AnswerFits
<1>4. \A keeps : MultiFlag(swap, a, keeps).send <=> TakesNative(swap, a)
  <2> HIDE DEF swap, a
  <2> QED
    BY <1>2, FlagIs, TokenAssumption DEF MultiFlag, UnwrapFlag, UnwrapsSrc, WrapsDest, TakesNative, Consistent
<1>5. ~Several => \A keeps : SingleFlag(swap, a, keeps).send <=> TakesNative(swap, a)
  <2> HIDE DEF swap, a
  <2> QED
    BY <1>2, <1>3, FlagIs, TokenAssumption
    DEF SingleFlag, UnwrapFlag, UnwrapsSrc, WrapsDest, TakesNative, Consistent
<1>6. DexFlag(P, pos) = IF Several THEN MultiFlag(swap, a, Keeps(P, pos))
                        ELSE SingleFlag(swap, a, ~a.hasRecipient \/ swap.dest = ETH)
  BY DEF DexFlag, AnswerOf, LegOf
<1>7. CallIn(pos, b).flag = DexFlag(P, pos)
  BY CallIs
<1> HIDE DEF swap, a, P
<1> QED
  BY <1>1, <1>4, <1>5, <1>6, <1>7

\* The output is kept to be worked on.
KeepsOutput(pos, b) ==
    IF Several THEN Keeps(ParamsFor(pos, b), pos)
    ELSE ~AnswerOf(pos, b).hasRecipient \/ Swap(route, pos).dest = ETH

\* What the flags for several swaps, and for one, make a call look at.
LEMMA ChecksAre ==
    ASSUME NEW swap, NEW a, NEW keeps
    PROVE  /\ MultiFlag(swap, a, keeps).check =
                IF UnwrapsSrc(swap, a) THEN "token"
                ELSE IF WrapsDest(swap, a) THEN "eth"
                ELSE IF ~keeps THEN "none"
                ELSE IF ~(swap.src = ETH /\ ~a.wrap) /\ swap.dest = ETH /\ ~a.wrap THEN "eth"
                ELSE "token"
           /\ SingleFlag(swap, a, keeps).check =
                IF UnwrapsSrc(swap, a) THEN "token"
                ELSE IF WrapsDest(swap, a) THEN "eth"
                ELSE IF swap.src = ETH /\ ~(a.wrap /\ "deposit" \in plan)
                THEN IF a.hasRecipient THEN "none" ELSE "token"
                ELSE IF swap.dest = ETH /\ ~(a.wrap /\ "withdraw" \in plan) THEN "eth"
                ELSE IF keeps THEN "token" ELSE "none"
<1>1. \A x, y : UnwrapFlag(swap, a, Flag(x, y, "none")).check =
            (IF UnwrapsSrc(swap, a) THEN "token" ELSE IF WrapsDest(swap, a) THEN "eth" ELSE "none")
  BY DEF UnwrapFlag, Flag
<1>2. \A x, y : UnwrapFlag(swap, a, Flag(x, y, "token")).check =
            (IF UnwrapsSrc(swap, a) THEN "token" ELSE IF WrapsDest(swap, a) THEN "eth" ELSE "token")
  BY DEF UnwrapFlag, Flag
<1>3. \A x, y : UnwrapFlag(swap, a, Flag(x, y, "eth")).check =
            (IF UnwrapsSrc(swap, a) THEN "token" ELSE IF WrapsDest(swap, a) THEN "eth" ELSE "eth")
  BY DEF UnwrapFlag, Flag
<1> DEFINE s == swap.src = ETH /\ ~a.wrap
           t == swap.dest = ETH /\ ~a.wrap
           k == swap.src = ETH /\ ~(a.wrap /\ "deposit" \in plan)
           l == swap.dest = ETH /\ ~(a.wrap /\ "withdraw" \in plan)
<1>4. MultiFlag(swap, a, keeps).check =
                IF UnwrapsSrc(swap, a) THEN "token"
                ELSE IF WrapsDest(swap, a) THEN "eth"
                ELSE IF ~keeps THEN "none"
                ELSE IF ~s /\ t THEN "eth"
                ELSE "token"
  <2>1. MultiFlag(swap, a, keeps) =
        UnwrapFlag(swap, a,
            IF s THEN Flag(TRUE, a.ethInsert /\ ~a.noInsert, IF keeps THEN "token" ELSE "none")
            ELSE IF t THEN Flag(FALSE, ~(a.noInsert /\ a.hasRecipient), IF keeps THEN "eth" ELSE "none")
            ELSE Flag(FALSE, ~a.noInsert, IF keeps THEN "token" ELSE "none"))
    BY DEF MultiFlag
  <2> HIDE DEF s, t
  <2>2. CASE keeps
    BY <1>1, <1>2, <1>3, <2>1, <2>2
  <2>3. CASE ~keeps
    BY <1>1, <1>2, <1>3, <2>1, <2>3
  <2> QED
    BY <2>2, <2>3
<1>5. SingleFlag(swap, a, keeps).check =
                IF UnwrapsSrc(swap, a) THEN "token"
                ELSE IF WrapsDest(swap, a) THEN "eth"
                ELSE IF k THEN IF a.hasRecipient THEN "none" ELSE "token"
                ELSE IF l THEN "eth"
                ELSE IF keeps THEN "token" ELSE "none"
  <2>1. SingleFlag(swap, a, keeps) =
        UnwrapFlag(swap, a,
            IF k THEN Flag(TRUE, a.ethInsert, IF a.hasRecipient THEN "none" ELSE "token")
            ELSE IF l THEN Flag(FALSE, ~a.noInsert, "eth")
            ELSE Flag(FALSE, ~a.noInsert, IF keeps THEN "token" ELSE "none"))
    BY DEF SingleFlag
  <2> HIDE DEF k, l
  <2>2. CASE k
    BY <1>1, <1>2, <2>1, <2>2
  <2>3. CASE ~k
    BY <1>1, <1>2, <1>3, <2>1, <2>3
  <2> QED
    BY <2>2, <2>3
<1> QED
  BY <1>4, <1>5

\* What an answer may ask for at once.
LEMMA ConsistentIs ==
    ASSUME NEW swap, NEW a, Consistent(swap, a)
    PROVE  /\ a.wrap => ~a.unwrap
           /\ UnwrapsSrc(swap, a) => swap.dest \notin {ETH, WETH}
           /\ WrapsDest(swap, a) => swap.src \notin {ETH, WETH} /\ ~a.hasRecipient
           /\ a.transferSrc => ~TakesNative(swap, a)
BY DEF Consistent, UnwrapsSrc, WrapsDest

\* What is kept is measured in the form in which it has been returned.
LEMMA CallMeasures ==
    ASSUME Built, NEW pos \in Positions(route), NEW b, Resolved(pos, b)
    PROVE  /\ KeepsOutput(pos, b) => Measures(CallIn(pos, b))
           /\ WrapsDest(Swap(route, pos), AnswerOf(pos, b)) =>
                Measures(CallIn(pos, b)) /\ CallIn(pos, b).to = "executor"
           /\ Measures(CallIn(pos, b)) => CallIn(pos, b).flag.check # "none"
<1> DEFINE swap == Swap(route, pos)
           a == AnswerOf(pos, b)
           P == ParamsFor(pos, b)
           out == CallIn(pos, b).out
           Fits(flag) == (flag.check = "eth" /\ out = ETH) \/ (flag.check = "token" /\ out = WrappedForm(swap.dest))
<1>1. /\ out = IF GivesNative(swap, a) THEN ETH ELSE WrappedForm(swap.dest)
      /\ CallIn(pos, b).to = IF a.hasRecipient THEN LegOf(pos, b).recipient ELSE "executor"
  BY CallIs
<1>2. Consistent(swap, a) /\ swap.src # swap.dest
  BY AnswerFits
<1>3. ~Several /\ swap.dest = ETH /\ a.wrap => "withdraw" \in plan
  BY AnswerFits
<1>4. DexFlag(P, pos) = IF Several THEN MultiFlag(swap, a, Keeps(P, pos))
                        ELSE SingleFlag(swap, a, ~a.hasRecipient \/ swap.dest = ETH)
  BY DEF DexFlag, AnswerOf, LegOf
<1>5. Measures(CallIn(pos, b)) <=> Fits(DexFlag(P, pos))
  BY CallIs DEF Measures
<1>6. WrapsDest(swap, a) => ~a.hasRecipient
  BY <1>2 DEF WrapsDest, Consistent
<1> HIDE DEF swap, a, P, out
<1>20. /\ a.wrap => ~a.unwrap
       /\ UnwrapsSrc(swap, a) => swap.dest \notin {ETH, WETH}
       /\ WrapsDest(swap, a) => swap.src \notin {ETH, WETH}
  BY <1>2, ConsistentIs
<1>21. ~Several => (swap.dest = ETH => swap.src # ETH)
  BY <1>2
<1>7. MultiFlag(swap, a, TRUE).check # "none" /\ Fits(MultiFlag(swap, a, TRUE))
  BY <1>1, <1>2, <1>20, ChecksAre, TokenAssumption DEF UnwrapsSrc, WrapsDest, GivesNative, WrappedForm
<1>8. \A keeps : WrapsDest(swap, a) =>
            Fits(MultiFlag(swap, a, keeps)) /\ Fits(SingleFlag(swap, a, keeps))
  BY <1>1, <1>2, <1>20, ChecksAre, TokenAssumption DEF UnwrapsSrc, WrapsDest, GivesNative, WrappedForm
<1>9. ~Several /\ (~a.hasRecipient \/ swap.dest = ETH) => Fits(SingleFlag(swap, a, TRUE))
  <2>1. SingleFlag(swap, a, TRUE).check =
                IF UnwrapsSrc(swap, a) THEN "token"
                ELSE IF WrapsDest(swap, a) THEN "eth"
                ELSE IF swap.src = ETH /\ ~(a.wrap /\ "deposit" \in plan)
                THEN IF a.hasRecipient THEN "none" ELSE "token"
                ELSE IF swap.dest = ETH /\ ~(a.wrap /\ "withdraw" \in plan) THEN "eth"
                ELSE "token"
    BY ChecksAre
  <2> QED
    BY <1>1, <1>2, <1>3, <1>20, <1>21, <2>1, TokenAssumption
    DEF UnwrapsSrc, WrapsDest, GivesNative, WrappedForm
<1>10. KeepsOutput(pos, b) <=> IF Several THEN Keeps(P, pos) ELSE ~a.hasRecipient \/ swap.dest = ETH
  BY DEF KeepsOutput, P, a, swap
<1>11. /\ Keeps(P, pos) => MultiFlag(swap, a, Keeps(P, pos)) = MultiFlag(swap, a, TRUE)
       /\ (~a.hasRecipient \/ swap.dest = ETH) =>
            SingleFlag(swap, a, ~a.hasRecipient \/ swap.dest = ETH) = SingleFlag(swap, a, TRUE)
  BY DEF MultiFlag, SingleFlag
<1>12. \A flag : Fits(flag) => flag.check # "none"
  OBVIOUS
<1> HIDE DEF Fits
<1>13. KeepsOutput(pos, b) => Fits(DexFlag(P, pos))
  BY <1>4, <1>7, <1>9, <1>10, <1>11
<1>14. WrapsDest(swap, a) => Fits(DexFlag(P, pos)) /\ CallIn(pos, b).to = "executor"
  BY <1>1, <1>4, <1>6, <1>8
<1>15. CallIn(pos, b).flag = DexFlag(P, pos)
  BY CallIs DEF P
<1> QED
  BY <1>5, <1>12, <1>13, <1>14, <1>15 DEF swap, a

-----------------------------------------------------------------------------
(* One step of a run, from one state to another. *)

\* What the step needs, where it works on the threaded amount, and what it does.
Finds(s, step) ==
    CASE step.op = "split" -> s.machine.at = "executor" /\ s.rest = {}
      [] step.op = "member" -> Piece(Last(s.frames).whole) = OnExecutor(step.token)
      [] step.op = "dex" -> FindsFunds(s.machine, step) /\ s.rest = {}
      [] step.op \in {"yield", "join", "group"} -> TRUE
      [] OTHER -> FindsFunds(s.machine, step)

\* Where the step inserts the amount, that is all there is.
Threads(s, step) ==
    /\ step.op = "split" /\ step.inserts => s.machine.exact
    /\ IsFundsStep(step) => IsExact(s.machine, step)

\* A step on funds, a split, the start of a member, its yield and the join, as relations
\* of a state and the next.
Works(s, t, step) ==
    LET after == Apply(s.machine, step)
        all == MeasuresBalance(step)
    IN  /\ t.machine = [after EXCEPT !.exact = @ \/ all]
        /\ t.rest = IF all THEN s.rest \ {Piece(after)} ELSE s.rest
        /\ t.aside = IF all THEN s.aside \ {Piece(after)} ELSE s.aside
        /\ t.pc = s.pc + 1 /\ t.frames = s.frames /\ t.group = s.group

\* A split starts.
Splits(s, t) ==
    /\ t.frames = Append(s.frames, [whole |-> s.machine, aside |-> s.aside])
    /\ t.aside = {} /\ t.machine = s.machine /\ t.rest = s.rest
    /\ t.pc = s.pc + 1 /\ t.group = s.group

\* A member is given its share.
Takes(s, t, token) ==
    /\ t.machine = Given(token, TRUE) /\ t.rest = s.rest /\ t.aside = s.aside
    /\ t.pc = s.pc + 1 /\ t.frames = s.frames /\ t.group = s.group

\* A member has ended.
Yields(s, t) ==
    /\ t.aside = s.aside \union s.rest \union {Piece(s.machine)} /\ t.rest = {}
    /\ t.machine = s.machine
    /\ t.pc = s.pc + 1 /\ t.frames = s.frames /\ t.group = s.group

\* A split ends.
Joins(s, t, measured) ==
    LET found == {p \in s.aside : p.at = "executor" /\ p.held \in measured}
        kept == {p \in s.aside : p.at = "executor"}
        next == CHOOSE p \in s.aside :
                    /\ found # {} => p \in found
                    /\ kept # {} => p \in kept
    IN  /\ t.machine = [held |-> next.held, at |-> next.at, exact |-> found # {}, granted |-> FALSE]
        /\ t.rest = s.aside \ {next}
        /\ t.aside = Last(s.frames).aside /\ t.frames = Front(s.frames)
        /\ t.pc = s.pc + 1 /\ t.group = s.group

\* A group starts.
Enters(s, t, step) ==
    /\ t.group = [branch |-> "primary", other |-> s.pc + 1 + step.try,
                  end |-> s.pc + 1 + step.try + step.other, measured |-> step.measured,
                  machine |-> s.machine, rest |-> s.rest, aside |-> s.aside]
    /\ t.pc = s.pc + 1 /\ t.machine = s.machine /\ t.rest = s.rest /\ t.aside = s.aside
    /\ t.frames = s.frames

\* The step does what it is for.
Does(s, t, step) ==
    /\ step.op = "split" => Splits(s, t)
    /\ step.op = "member" => Takes(s, t, step.token)
    /\ step.op = "yield" => Yields(s, t)
    /\ step.op = "join" => Joins(s, t, step.measured)
    /\ step.op = "group" => Enters(s, t, step)
    /\ IsFundsStep(step) => Works(s, t, step)

\* The end of a block, and its fallback's turn.
Ends(s) ==
    \/ s.group.branch = "primary" /\ s.pc = s.group.other
    \/ s.group.branch = "fallback" /\ s.pc = s.group.end

\* A block ends.
Leaves(s, t) ==
    LET found == s.machine.at = "executor" /\ s.machine.held \in s.group.measured IN
    /\ t.machine = [s.machine EXCEPT !.exact = found]
    /\ t.rest = IF found THEN s.rest \ {Piece(s.machine)} ELSE s.rest
    /\ t.aside = IF found THEN s.aside \ {Piece(s.machine)} ELSE s.aside
    /\ t.pc = s.group.end /\ t.group = NoGroup /\ t.frames = s.frames

\* A first block reverts.
Falls(s, t) ==
    /\ s.group.branch = "primary"
    /\ t.group = [s.group EXCEPT !.branch = "fallback"]
    /\ t.pc = s.group.other /\ t.machine = s.group.machine
    /\ t.rest = s.group.rest /\ t.aside = s.group.aside /\ t.frames = s.frames

\* A step that runs here finds what it needs, in the amount that is there, and
\* leaves the run where it is expected; so does a block that reverts here.
StepTyped(s, step) ==
    /\ step.op = "member" => step.token \in Tokens
    /\ step.op = "dex" => step.out \in Tokens /\ step.to \in Places
    /\ step.op = "transfer" => step.to \in Places
    /\ step.op = "join" => s.frames # <<>> /\ s.aside # {}
    /\ step.op \in {"split", "member", "yield", "join", "group", "wrap", "unwrap", "approve",
                    "sendNative", "transfer", "dex"}

\* A place serves a run: there is a step, what it needs is there, and where it leads is
\* a place again.
ServedBy(s, step) ==
    /\ CodeHas(s.pc, step) /\ ~Ends(s) /\ StepTyped(s, step)
    /\ IsGranted(s.machine, step)
    /\ Sound => Finds(s, step) /\ Threads(s, step)
    /\ \A t : Does(s, t, step) => Located(t)
    /\ \A t : Falls(s, t) => Located(t) /\ TypedState(t)

\* There is such a step.
Served(s) == \E step : ServedBy(s, step)

-----------------------------------------------------------------------------
(* What steps do to the funds. *)

\* The machine is its four fields.
LEMMA MachineIs ==
    ASSUME NEW m \in Machines
    PROVE  /\ m = [held |-> m.held, at |-> m.at, exact |-> m.exact, granted |-> m.granted]
           /\ m.held \in Tokens /\ m.at \in Places /\ m.exact \in BOOLEAN /\ m.granted \in BOOLEAN
BY DEF Machines

\* Steps, by what they do.
LEMMA StepsAre ==
    /\ WrapStep.op = "wrap" /\ UnwrapStep.op = "unwrap" /\ ApproveStep.op = "approve"
    /\ SendNativeStep.op = "sendNative" /\ MeasuredWrapStep.op = "wrap" /\ YieldStep.op = "yield"
    /\ \A token, to : LET step == TransferStep(token, to) IN
            step.op = "transfer" /\ step.token = token /\ step.to = to
    /\ \A inserts : SplitStep(inserts).op = "split" /\ SplitStep(inserts).inserts = inserts
    /\ \A token : MemberStep(token).op = "member" /\ MemberStep(token).token = token
    /\ \A measured : JoinStep(measured).op = "join" /\ JoinStep(measured).measured = measured
    /\ \A try, other, measured : LET step == GroupStep(try, other, measured) IN
            step.op = "group" /\ step.try = try /\ step.other = other /\ step.measured = measured
    /\ WrapStep # MeasuredWrapStep
<1>1. WrapStep # MeasuredWrapStep
  <2>1. "measured" \notin DOMAIN WrapStep /\ "measured" \in DOMAIN MeasuredWrapStep
    BY DEF WrapStep, MeasuredWrapStep
  <2> QED
    BY <2>1
<1> QED
  BY <1>1 DEF WrapStep, UnwrapStep, ApproveStep, SendNativeStep, MeasuredWrapStep, YieldStep,
              TransferStep, SplitStep, MemberStep, JoinStep, GroupStep

\* The machine behind a step, and what a measured balance takes in.
Becomes(s, t, held, at, granted, exact, taken) ==
    /\ t.machine \in Machines
    /\ t.machine.held = held /\ t.machine.at = at
    /\ (t.machine.granted <=> granted) /\ (t.machine.exact <=> exact)
    /\ t.rest = s.rest \ taken /\ t.aside = s.aside \ taken
    /\ t.pc = s.pc + 1 /\ t.frames = s.frames /\ t.group = s.group

\* What a step on funds makes of the machine, and what it takes in where it looks at a
\* balance.
LEMMA WorkBecomes ==
    ASSUME NEW s, NEW t, NEW step, Works(s, t, step),
           NEW held \in Tokens, NEW at \in Places, NEW exact \in BOOLEAN, NEW granted \in BOOLEAN,
           Apply(s.machine, step) = [held |-> held, at |-> at, exact |-> exact, granted |-> granted]
    PROVE  Becomes(s, t, held, at, granted, exact \/ MeasuresBalance(step),
                   IF MeasuresBalance(step) THEN {[held |-> held, at |-> at]} ELSE {})
<1> DEFINE after == [held |-> held, at |-> at, exact |-> exact, granted |-> granted]
           all == MeasuresBalance(step)
<1>1. Piece(after) = [held |-> held, at |-> at]
  BY DEF Piece
<1>2. t.machine = [after EXCEPT !.exact = @ \/ all]
  BY DEF Works
<1>3. /\ t.machine.held = held /\ t.machine.at = at
      /\ (t.machine.granted <=> granted) /\ (t.machine.exact <=> exact \/ all)
  BY <1>2
<1>4. t.machine \in Machines
  <2>1. (exact \/ all) \in BOOLEAN
    OBVIOUS
  <2> HIDE DEF all
  <2>2. t.machine = [held |-> held, at |-> at, exact |-> exact \/ all, granted |-> granted]
    BY <1>2
  <2> QED
    BY <2>1, <2>2 DEF Machines
<1>5. /\ t.rest = s.rest \ (IF all THEN {Piece(after)} ELSE {})
      /\ t.aside = s.aside \ (IF all THEN {Piece(after)} ELSE {})
      /\ t.pc = s.pc + 1 /\ t.frames = s.frames /\ t.group = s.group
  BY DEF Works
<1> HIDE DEF all
<1> QED
  BY <1>1, <1>3, <1>4, <1>5 DEF Becomes, all

\* A wrap makes WETH of what is held; behind a split it looks at the balance.
LEMMA WrapWorks ==
    ASSUME NEW s, NEW t, s.machine \in Machines, NEW step, step.op = "wrap", Works(s, t, step)
    PROVE  LET all == step = MeasuredWrapStep IN
           Becomes(s, t, WETH, s.machine.at, s.machine.granted, s.machine.exact \/ all,
                   IF all THEN {[held |-> WETH, at |-> s.machine.at]} ELSE {})
<1>1. Apply(s.machine, step) = [held |-> WETH, at |-> s.machine.at, exact |-> s.machine.exact,
                                granted |-> s.machine.granted]
  BY MachineIs DEF Apply
<1>2. MeasuresBalance(step) <=> step = MeasuredWrapStep
  BY DEF MeasuresBalance
<1>3. Becomes(s, t, WETH, s.machine.at, s.machine.granted, s.machine.exact \/ MeasuresBalance(step),
              IF MeasuresBalance(step) THEN {[held |-> WETH, at |-> s.machine.at]} ELSE {})
  BY <1>1, MachineIs, WorkBecomes, TokenAssumption
<1> QED
  BY <1>2, <1>3 DEF Becomes

\* An unwrap makes ETH, and takes in all of it.
LEMMA UnwrapWorks ==
    ASSUME NEW s, NEW t, s.machine \in Machines, Works(s, t, UnwrapStep)
    PROVE  Becomes(s, t, ETH, s.machine.at, s.machine.granted, TRUE, {[held |-> ETH, at |-> s.machine.at]})
<1>1. Apply(s.machine, UnwrapStep) = [held |-> ETH, at |-> s.machine.at, exact |-> s.machine.exact,
                                      granted |-> s.machine.granted]
  BY MachineIs, StepsAre DEF Apply
<1>2. MeasuresBalance(UnwrapStep)
  BY StepsAre DEF MeasuresBalance
<1>3. Becomes(s, t, ETH, s.machine.at, s.machine.granted, s.machine.exact \/ MeasuresBalance(UnwrapStep),
              IF MeasuresBalance(UnwrapStep) THEN {[held |-> ETH, at |-> s.machine.at]} ELSE {})
  BY <1>1, MachineIs, WorkBecomes, TokenAssumption
<1> QED
  BY <1>2, <1>3 DEF Becomes

\* An approval grants, and changes nothing else.
LEMMA ApproveWorks ==
    ASSUME NEW s, NEW t, s.machine \in Machines, Works(s, t, ApproveStep)
    PROVE  Becomes(s, t, s.machine.held, s.machine.at, TRUE, s.machine.exact, {})
<1> DEFINE m == s.machine
           g == TRUE
<1>1. Apply(m, ApproveStep) = [m EXCEPT !.granted = g]
  BY StepsAre DEF Apply
<1>2. g \in BOOLEAN
  OBVIOUS
<1> HIDE DEF m, g
<1>3. m = [held |-> m.held, at |-> m.at, exact |-> m.exact, granted |-> m.granted]
      /\ m.held \in Tokens /\ m.at \in Places /\ m.exact \in BOOLEAN
  BY MachineIs DEF m
<1>4. Apply(m, ApproveStep) = [held |-> m.held, at |-> m.at, exact |-> m.exact, granted |-> g]
  BY <1>1, <1>3
<1>5. ~MeasuresBalance(ApproveStep)
  BY StepsAre DEF MeasuresBalance
<1>6. Becomes(s, t, m.held, m.at, g, m.exact \/ MeasuresBalance(ApproveStep),
              IF MeasuresBalance(ApproveStep) THEN {[held |-> m.held, at |-> m.at]} ELSE {})
  BY <1>2, <1>3, <1>4, WorkBecomes DEF m
<1> QED
  BY <1>5, <1>6 DEF Becomes, m, g

\* A transfer, and the sending of ETH.
LEMMA MoveWorks ==
    ASSUME NEW s, NEW t, s.machine \in Machines, NEW step, NEW to \in Places,
           \/ step.op = "transfer" /\ step.to = to
           \/ step.op = "sendNative" /\ to = "augustus",
           Works(s, t, step)
    PROVE  Becomes(s, t, s.machine.held, to, s.machine.granted, s.machine.exact, {})
<1>1. Apply(s.machine, step) = [held |-> s.machine.held, at |-> to,
                                exact |-> s.machine.exact, granted |-> s.machine.granted]
  BY MachineIs DEF Apply
<1>2. ~MeasuresBalance(step)
  BY StepsAre DEF MeasuresBalance
<1>3. Becomes(s, t, s.machine.held, to, s.machine.granted, s.machine.exact \/ MeasuresBalance(step),
              IF MeasuresBalance(step) THEN {[held |-> s.machine.held, at |-> to]} ELSE {})
  BY <1>1, MachineIs, WorkBecomes
<1> QED
  BY <1>2, <1>3 DEF Becomes

\* A call returns its token, and its grant is used up.
LEMMA CallWorks ==
    ASSUME NEW s, NEW t, s.machine \in Machines, NEW step, step.op = "dex",
           step.out \in Tokens, step.to \in Places, Works(s, t, step)
    PROVE  LET all == step.to = "executor" /\ Measures(step) IN
           Becomes(s, t, step.out, step.to, FALSE, all,
                   IF all THEN {[held |-> step.out, at |-> step.to]} ELSE {})
<1> DEFINE all == step.to = "executor" /\ Measures(step)
<1>1. Apply(s.machine, step) = [held |-> step.out, at |-> step.to, exact |-> all, granted |-> FALSE]
  BY DEF Apply
<1>2. MeasuresBalance(step) <=> all
  BY StepsAre DEF MeasuresBalance
<1>3. all \in BOOLEAN
  OBVIOUS
<1> HIDE DEF all
<1>4. Becomes(s, t, step.out, step.to, FALSE, all \/ MeasuresBalance(step),
              IF MeasuresBalance(step) THEN {[held |-> step.out, at |-> step.to]} ELSE {})
  BY <1>1, <1>3, WorkBecomes
<1>5. Becomes(s, t, step.out, step.to, FALSE, all,
              IF all THEN {[held |-> step.out, at |-> step.to]} ELSE {})
  BY <1>2, <1>4 DEF Becomes
<1> QED
  BY <1>5 DEF all

\* What they need.
LEMMA StepsNeed ==
    ASSUME NEW s
    PROVE  /\ \A step : step.op = "wrap" =>
                /\ Finds(s, step) <=> s.machine.at = "executor" /\ s.machine.held = ETH
                /\ Threads(s, step) <=> s.machine.exact
                /\ IsGranted(s.machine, step) /\ StepTyped(s, step) /\ IsFundsStep(step)
           /\ Finds(s, UnwrapStep) <=> s.machine.at = "executor" /\ s.machine.held = WETH
           /\ Threads(s, UnwrapStep) <=> s.machine.exact
           /\ IsGranted(s.machine, UnwrapStep) /\ StepTyped(s, UnwrapStep) /\ IsFundsStep(UnwrapStep)
           /\ Finds(s, ApproveStep) /\ Threads(s, ApproveStep)
           /\ IsGranted(s.machine, ApproveStep) /\ StepTyped(s, ApproveStep) /\ IsFundsStep(ApproveStep)
           /\ Finds(s, SendNativeStep) <=> s.machine.at = "executor" /\ s.machine.held = ETH
           /\ Threads(s, SendNativeStep) <=> s.machine.exact
           /\ IsGranted(s.machine, SendNativeStep) /\ StepTyped(s, SendNativeStep) /\ IsFundsStep(SendNativeStep)
           /\ \A step : step.op = "transfer" /\ step.to \in Places =>
                /\ Finds(s, step) <=> s.machine.at = "executor" /\ s.machine.held = step.token
                /\ Threads(s, step) <=> s.machine.exact
                /\ IsGranted(s.machine, step) /\ StepTyped(s, step) /\ IsFundsStep(step)
BY StepsAre DEF Finds, Threads, IsGranted, StepTyped, IsFundsStep, IsExact, FindsFunds

-----------------------------------------------------------------------------
(* The stages of a unit. *)

\* When each of the eleven stages applies.
LEMMA HasIs ==
    ASSUME NEW pos, NEW b
    PROVE  LET P == ParamsFor(pos, b)
               swap == Swap(route, pos)
               a == AnswerOf(pos, b)
           IN
           /\ Has(pos, b, 1) <=> UnwrapsBefore(P, pos, b)
           /\ Has(pos, b, 2) <=> a.wrap /\ swap.src = ETH /\ MayApprove(LegOf(pos, b))
           /\ Has(pos, b, 3) <=> Deposits(P, pos)
           /\ Has(pos, b, 4) <=> swap.src # ETH /\ MayApprove(LegOf(pos, b))
           /\ Has(pos, b, 5) <=> a.transferSrc
           /\ Has(pos, b, 6) <=> UnwrapsSrc(swap, a)
           /\ Has(pos, b, 7)
           /\ Has(pos, b, 8) <=> WrapsDest(swap, a)
           /\ Has(pos, b, 9) <=> Withdraws(P, pos)
           /\ Has(pos, b, 10) <=> /\ IsLastSwap(route, pos) /\ ~a.hasRecipient
                                  /\ swap.dest # ETH /\ swap.dest = route.dest
           /\ Has(pos, b, 11) <=> \/ ~Several /\ Withdraws(P, pos)
                                  \/ /\ IsLastSwap(route, pos) /\ ~a.hasRecipient
                                     /\ swap.dest = ETH /\ ~RootUnwraps(P)
BY StageNames DEF Has, UnitHas, AnswerOf, LegOf, ApprovesWeth

\* The step of each stage.
LEMMA StepIs ==
    ASSUME NEW pos, NEW b
    PROVE  /\ StepOf(pos, b, 1) = UnwrapStep /\ StepOf(pos, b, 2) = ApproveStep
           /\ StepOf(pos, b, 3) = WrapStep /\ StepOf(pos, b, 4) = ApproveStep
           /\ StepOf(pos, b, 5) = TransferSrcStep(Swap(route, pos))
           /\ StepOf(pos, b, 6) = UnwrapStep /\ StepOf(pos, b, 7) = CallIn(pos, b)
           /\ StepOf(pos, b, 8) = WrapStep /\ StepOf(pos, b, 9) = UnwrapStep
           /\ StepOf(pos, b, 10) = TransferStep(route.dest, "augustus")
           /\ StepOf(pos, b, 11) = SendNativeStep
<1> DEFINE P == ParamsFor(pos, b)
           swap == Swap(route, pos)
<1>1. StepOf(pos, b, 7) = CallIn(pos, b)
  BY StageNames DEF StepOf, UnitStep, CallIn
<1> QED
  BY <1>1, StageNames DEF StepOf, UnitStep

\* A block that is there has been answered for.
LEMMA BlockIsResolved ==
    ASSUME NEW pos, NEW b, BlockOf(pos, b)
    PROVE  Resolved(pos, b)
BY DEF BlockOf, Resolved, IsGrouped

\* The token that a unit works on up to its call.
PaidToken(pos, b, n) ==
    LET P == ParamsFor(pos, b)
        a == AnswerOf(pos, b)
        swap == Swap(route, pos)
    IN  CASE n = 1 -> EntryToken(pos, b)
          [] n \in {2, 3} -> IF swap.src = ETH /\ a.wrap /\ ~Deposits(P, pos) THEN WETH ELSE swap.src
          [] n \in 4..6 -> IF swap.src = ETH /\ a.wrap THEN WETH ELSE swap.src
          [] OTHER -> CallIn(pos, b).in

\* What is held up to the call, taken apart: the token, where it is, and that all of the
\* amount is known.
LEMMA PaidIs ==
    ASSUME NEW pos, NEW b, NEW n, NEW m
    PROVE  Paid(pos, b, n, m) <=>
                /\ m.held = PaidToken(pos, b, n)
                /\ m.at = IF n > 5 /\ AnswerOf(pos, b).transferSrc THEN "pool" ELSE "executor"
                /\ m.exact
BY DEF Paid, PaidToken, AnswerOf, LegOf

\* It stays as it is but for the steps that change its form.
LEMMA PaidTokens ==
    ASSUME Built, NEW pos \in Positions(route), NEW b, Resolved(pos, b)
    PROVE  LET swap == Swap(route, pos) IN
           /\ IF Has(pos, b, 1) THEN PaidToken(pos, b, 1) = WETH /\ PaidToken(pos, b, 2) = ETH
              ELSE PaidToken(pos, b, 2) = PaidToken(pos, b, 1)
           /\ PaidToken(pos, b, 3) = PaidToken(pos, b, 2)
           /\ IF Has(pos, b, 3) THEN PaidToken(pos, b, 3) = ETH /\ PaidToken(pos, b, 4) = WETH
              ELSE PaidToken(pos, b, 4) = PaidToken(pos, b, 3)
           /\ PaidToken(pos, b, 5) = PaidToken(pos, b, 4)
           /\ PaidToken(pos, b, 6) = PaidToken(pos, b, 5)
           /\ Has(pos, b, 5) => PaidToken(pos, b, 5) = WrappedForm(swap.src)
           /\ IF Has(pos, b, 6) THEN PaidToken(pos, b, 6) = WETH /\ PaidToken(pos, b, 7) = ETH
              ELSE PaidToken(pos, b, 7) = PaidToken(pos, b, 6)
           /\ PaidToken(pos, b, 7) = CallIn(pos, b).in
<1> DEFINE P == ParamsFor(pos, b)
           a == AnswerOf(pos, b)
           swap == Swap(route, pos)
           d == Deposits(P, pos)
           u == UnwrapsBefore(P, pos, b)
<1>1. /\ PaidToken(pos, b, 1) = IF swap.src = ETH /\ ((a.wrap /\ ~d) \/ u) THEN WETH ELSE swap.src
      /\ PaidToken(pos, b, 2) = IF swap.src = ETH /\ a.wrap /\ ~d THEN WETH ELSE swap.src
      /\ PaidToken(pos, b, 3) = IF swap.src = ETH /\ a.wrap /\ ~d THEN WETH ELSE swap.src
      /\ PaidToken(pos, b, 4) = IF swap.src = ETH /\ a.wrap THEN WETH ELSE swap.src
      /\ PaidToken(pos, b, 5) = IF swap.src = ETH /\ a.wrap THEN WETH ELSE swap.src
      /\ PaidToken(pos, b, 6) = IF swap.src = ETH /\ a.wrap THEN WETH ELSE swap.src
      /\ PaidToken(pos, b, 7) = CallIn(pos, b).in
  BY DEF PaidToken, EntryToken, AnswerOf, LegOf
<1>2. CallIn(pos, b).in = IF TakesNative(swap, a) THEN ETH ELSE WrappedForm(swap.src)
  BY CallIs
<1>3. /\ Has(pos, b, 1) <=> u
      /\ Has(pos, b, 3) <=> d
      /\ Has(pos, b, 5) <=> a.transferSrc
      /\ Has(pos, b, 6) <=> UnwrapsSrc(swap, a)
  BY HasIs
<1>4. /\ u => ~a.wrap /\ swap.src = ETH
      /\ d => a.wrap /\ swap.src = ETH
  BY DEF UnwrapsBefore, Deposits, AnswerOf, LegOf
<1>5. /\ TakesNative(swap, a) <=> (swap.src = ETH /\ ~a.wrap) \/ UnwrapsSrc(swap, a)
      /\ UnwrapsSrc(swap, a) => swap.src = WETH
      /\ a.transferSrc => ~TakesNative(swap, a)
  BY AnswerFits, ConsistentIs DEF TakesNative, UnwrapsSrc
<1>6. WrappedForm(swap.src) = IF swap.src = ETH THEN WETH ELSE swap.src
  BY DEF WrappedForm
<1> HIDE DEF P, a, swap, d, u
<1>7. /\ IF Has(pos, b, 1) THEN PaidToken(pos, b, 1) = WETH /\ PaidToken(pos, b, 2) = ETH
         ELSE PaidToken(pos, b, 2) = PaidToken(pos, b, 1)
      /\ PaidToken(pos, b, 3) = PaidToken(pos, b, 2)
      /\ IF Has(pos, b, 3) THEN PaidToken(pos, b, 3) = ETH /\ PaidToken(pos, b, 4) = WETH
         ELSE PaidToken(pos, b, 4) = PaidToken(pos, b, 3)
      /\ PaidToken(pos, b, 5) = PaidToken(pos, b, 4)
      /\ PaidToken(pos, b, 6) = PaidToken(pos, b, 5)
  BY <1>1, <1>3, <1>4
<1>8. Has(pos, b, 5) => PaidToken(pos, b, 5) = WrappedForm(swap.src)
  BY <1>1, <1>3, <1>5, <1>6
<1>9. IF Has(pos, b, 6) THEN PaidToken(pos, b, 6) = WETH /\ PaidToken(pos, b, 7) = ETH
      ELSE PaidToken(pos, b, 7) = PaidToken(pos, b, 6)
  BY <1>1, <1>2, <1>3, <1>5, <1>6, TokenAssumption
<1> QED
  BY <1>1, <1>7, <1>8, <1>9 DEF swap

\* No ETH is left aside where WETH is taken to be unwrapped, so that none is taken
\* in with what that returns.
LEMMA NoEthAside ==
    ASSUME Built, NEW pos \in Positions(route), NEW A, HoldBefore(pos, A),
           Swap(route, pos).src \in {ETH, WETH}, Swap(route, pos).dest # ETH
    PROVE  Eth1 \notin A
<1> DEFINE i == pos[1]
           j == pos[2]
<1>1. /\ i \in 1..NPaths /\ j \in 1..LastSwap(i) /\ Swap(route, pos) = SwapOf(i, j)
      /\ j = LastSwap(i) => SwapOf(i, j).dest = route.dest
      /\ j < LastSwap(i) \/ j = LastSwap(i)
  <2>1. j \in Nat /\ LastSwap(i) \in Nat
    BY OfSwapHas
  <2> QED
    BY <2>1, OfSwapHas, SwapsFollow
<1>2. route.dest # ETH
  BY <1>1, SwapsFollow
<1>3. Delivered # Eth1
  <2>1. Delivered.at = "augustus" /\ Eth1.at = "executor"
    BY DEF Delivered, Eth1, OnExecutor
  <2> QED
    BY <2>1
<1>4. OnExecutor(SwapOf(i, j).dest) # Eth1
  <2>1. OnExecutor(SwapOf(i, j).dest).held = SwapOf(i, j).dest /\ Eth1.held = ETH
    BY DEF Eth1, OnExecutor
  <2> QED
    BY <1>1, <2>1
<1>5. OuterHold(i, A) => Eth1 \notin A
  BY <1>2, <1>3 DEF OuterHold, PathsHold
<1>6. MembersHold(i, j, pos[3] - 1, A) => Eth1 \notin A
  BY <1>1, <1>2, <1>3, <1>4 DEF MembersHold
<1> QED
  BY <1>5, <1>6 DEF HoldBefore

-----------------------------------------------------------------------------
(* From stage to stage. *)

\* What is held before a stage, all of it.
StageFunds(s, pos, b, n) ==
    /\ s.rest = {}
    /\ IF n < 8 THEN Paid(pos, b, n, s.machine) ELSE Returned(pos, b, n, s.machine)
    /\ LeftAside(pos, Gone(pos, b, n), s.aside)

\* Before a stage a run is at its index, within its block, under the approval it runs
\* under and with its funds.
LEMMA StageIs ==
    ASSUME NEW s, NEW pos, NEW b, NEW n
    PROVE  BeforeStage(s, pos, b, n) <=>
                /\ s.pc = StageOf(pos, b, n) + 1 /\ InBlock(s, pos, b)
                /\ Granted(pos, b, n) => s.machine.granted
                /\ Sound => StageFunds(s, pos, b, n)
BY DEF BeforeStage, StageFunds

\* A step on funds stays in its block.
LEMMA BlockKept ==
    ASSUME NEW s, NEW t, t.frames = s.frames, t.group = s.group, NEW pos, NEW b
    PROVE  InBlock(s, pos, b) <=> InBlock(t, pos, b)
BY DEF InBlock, Idle

\* What a unit has returned, as the answer says.
LEMMA ReturnedIs ==
    ASSUME NEW pos, NEW b, NEW n, NEW m
    PROVE  LET swap == Swap(route, pos)
               a == AnswerOf(pos, b)
           IN
           Returned(pos, b, n, m) <=>
                /\ m.held = IF n = 8 THEN CallIn(pos, b).out
                            ELSE IF swap.dest = ETH /\ a.wrap /\ ~(n > 9 /\ Has(pos, b, 9))
                            THEN WETH ELSE swap.dest
                /\ m.at = IF \/ n > 10 /\ Has(pos, b, 10)
                             \/ n > 11 /\ Has(pos, b, 11)
                          THEN "augustus" ELSE CallIn(pos, b).to
                /\ m.exact <=> MeasuredByCall(pos, b) # {} \/ (n > 9 /\ Has(pos, b, 9))
<1>1. Has(pos, b, 9) <=> Withdraws(ParamsFor(pos, b), pos)
  BY HasIs
<1> QED
  BY <1>1 DEF Returned, AnswerOf, LegOf

\* What has been taken in, by the stages that are there.
LEMMA GoneIs ==
    ASSUME NEW pos, NEW b, NEW n
    PROVE  Gone(pos, b, n) =
                IF n < 8 THEN {}
                ELSE MeasuredByCall(pos, b) \union IF n > 9 /\ Has(pos, b, 9) THEN {Eth1} ELSE {}
<1>1. Has(pos, b, 9) <=> Withdraws(ParamsFor(pos, b), pos)
  BY HasIs
<1> QED
  BY <1>1 DEF Gone

\* The token that a call returns.
LEMMA OutIs ==
    ASSUME Built, NEW pos \in Positions(route), NEW b, Resolved(pos, b)
    PROVE  LET swap == Swap(route, pos)
               a == AnswerOf(pos, b)
           IN
           /\ Has(pos, b, 8) => CallIn(pos, b).out = ETH /\ swap.dest = WETH
           /\ ~Has(pos, b, 8) => CallIn(pos, b).out = IF swap.dest = ETH /\ a.wrap THEN WETH ELSE swap.dest
           /\ CallIn(pos, b).out \in Tokens /\ CallIn(pos, b).to \in Places
<1> DEFINE swap == Swap(route, pos)
           a == AnswerOf(pos, b)
<1>1. /\ CallIn(pos, b).out = IF GivesNative(swap, a) THEN ETH ELSE WrappedForm(swap.dest)
      /\ CallIn(pos, b).to = IF a.hasRecipient THEN LegOf(pos, b).recipient ELSE "executor"
  BY CallIs
<1>2. Has(pos, b, 8) <=> WrapsDest(swap, a)
  BY HasIs
<1>3. swap.dest \in Tokens
  BY AnswerFits
<1>4. LegOf(pos, b).recipient \in {"executor", "augustus"}
  BY LegIs
<1> HIDE DEF swap, a
<1> QED
  BY <1>1, <1>2, <1>3, <1>4, TokenAssumption DEF WrapsDest, GivesNative, WrappedForm, Places, swap, a

\* A stage that does not apply asks for nothing and changes nothing.
LEMMA StageSkipped ==
    ASSUME Built, NEW pos \in Positions(route), NEW b, BlockOf(pos, b),
           NEW s, NEW n \in 1..11, ~Has(pos, b, n), BeforeStage(s, pos, b, n)
    PROVE  BeforeStage(s, pos, b, n + 1)
<1>1. StageOf(pos, b, n + 1) = StageOf(pos, b, n)
  BY StagesLie, BuiltShape
<1>2. Granted(pos, b, n + 1) => Granted(pos, b, n)
  <2>1. n \in {1, 2, 3, 4, 5, 6, 7, 8, 9, 10, 11}
    OBVIOUS
  <2> QED
    BY <2>1 DEF Granted
<1>3. n # 7
  BY HasIs
<1>4. Resolved(pos, b)
  BY BlockIsResolved
<1>5. ASSUME Sound PROVE StageFunds(s, pos, b, n + 1)
  <2>1. StageFunds(s, pos, b, n)
    BY <1>5, StageIs
  <2>2. CASE n < 7
    <3>1. PaidToken(pos, b, n + 1) = PaidToken(pos, b, n)
      <4>1. n \in {1, 2, 3, 4, 5, 6}
        BY <2>2
      <4> QED
        BY <1>4, <4>1, PaidTokens
    <3>2. n = 5 => ~AnswerOf(pos, b).transferSrc
      BY HasIs
    <3>3. Paid(pos, b, n, s.machine) /\ Gone(pos, b, n) = {} /\ Gone(pos, b, n + 1) = {}
      BY <2>1, <2>2, GoneIs DEF StageFunds
    <3>4. (n + 1 > 5 /\ AnswerOf(pos, b).transferSrc) <=> (n > 5 /\ AnswerOf(pos, b).transferSrc)
      BY <2>2, <3>2
    <3>5. Paid(pos, b, n + 1, s.machine)
      BY <3>1, <3>3, <3>4, PaidIs
    <3>6. n + 1 < 8
      BY <2>2
    <3> QED
      BY <2>1, <3>3, <3>5, <3>6 DEF StageFunds
  <2>3. CASE n > 7
    <3>1. n \in {8, 9, 10, 11} /\ ~(n < 8) /\ ~(n + 1 < 8)
      BY <2>3
    <3>2. Returned(pos, b, n, s.machine)
      BY <2>1, <3>1 DEF StageFunds
    <3>3. n = 8 => CallIn(pos, b).out = IF Swap(route, pos).dest = ETH /\ AnswerOf(pos, b).wrap
                                        THEN WETH ELSE Swap(route, pos).dest
      BY <1>4, OutIs
    <3>4. Returned(pos, b, n + 1, s.machine)
      BY <3>1, <3>2, <3>3, ReturnedIs
    <3>5. Gone(pos, b, n + 1) = Gone(pos, b, n)
      BY <3>1, GoneIs
    <3> QED
      BY <2>1, <3>1, <3>4, <3>5 DEF StageFunds
  <2> QED
    BY <1>3, <2>2, <2>3
<1>6. s.pc = StageOf(pos, b, n) + 1 /\ InBlock(s, pos, b) /\ (Granted(pos, b, n) => s.machine.granted)
  BY StageIs
<1> QED
  BY <1>1, <1>2, <1>5, <1>6, StageIs

\* Up to the call there is always a next step; behind it there may be none.
LEMMA StageFound ==
    ASSUME Built, NEW pos \in Positions(route), NEW b, BlockOf(pos, b), NEW s
    PROVE  /\ BeforeStage(s, pos, b, 1) => \E n \in 1..11 : Has(pos, b, n) /\ BeforeStage(s, pos, b, n)
           /\ \A m \in 1..12 : BeforeStage(s, pos, b, m) =>
                \/ \E n \in 1..11 : Has(pos, b, n) /\ BeforeStage(s, pos, b, n)
                \/ BeforeStage(s, pos, b, 12)
           /\ \A m \in 1..7 : BeforeStage(s, pos, b, m) =>
                \E n \in 1..11 : Has(pos, b, n) /\ BeforeStage(s, pos, b, n)
<1> DEFINE B(n) == BeforeStage(s, pos, b, n)
           found == \E n \in 1..11 : Has(pos, b, n) /\ B(n)
<1>1. \A n \in 1..11 : B(n) => found \/ B(n + 1)
  BY StageSkipped
<1>2. Has(pos, b, 7)
  BY HasIs
<1>3. B(7) => found
  BY <1>2
<1>4. /\ B(1) => found \/ B(2)
      /\ B(2) => found \/ B(3)
      /\ B(3) => found \/ B(4)
      /\ B(4) => found \/ B(5)
      /\ B(5) => found \/ B(6)
      /\ B(6) => found \/ B(7)
      /\ B(8) => found \/ B(9)
      /\ B(9) => found \/ B(10)
      /\ B(10) => found \/ B(11)
      /\ B(11) => found \/ B(12)
  <2>1. 1 + 1 = 2 /\ 2 + 1 = 3 /\ 3 + 1 = 4 /\ 4 + 1 = 5 /\ 5 + 1 = 6 /\ 6 + 1 = 7
        /\ 8 + 1 = 9 /\ 9 + 1 = 10 /\ 10 + 1 = 11 /\ 11 + 1 = 12
    OBVIOUS
  <2>2. \A n \in {1, 2, 3, 4, 5, 6, 8, 9, 10, 11} : n \in 1..11
    OBVIOUS
  <2> HIDE DEF B, found
  <2> QED
    BY <1>1, <2>1, <2>2
<1> HIDE DEF B, found
<1>5. ASSUME NEW m \in 1..7, B(m) PROVE found
  <2>1. m \in {1, 2, 3, 4, 5, 6, 7}
    OBVIOUS
  <2> QED
    BY <1>3, <1>4, <1>5, <2>1
<1>6. ASSUME NEW m \in 1..12, B(m) PROVE found \/ B(12)
  <2>1. m \in 1..7 \/ m \in {8, 9, 10, 11, 12}
    OBVIOUS
  <2> QED
    BY <1>4, <1>5, <1>6, <2>1
<1>7. B(1) => found
  BY <1>3, <1>4
<1> QED
  BY <1>5, <1>6, <1>7 DEF B, found

\* One more piece is taken in.
LEMMA LeftWithout ==
    ASSUME NEW pos, NEW gone, NEW A, NEW p, LeftAside(pos, gone, A)
    PROVE  LeftAside(pos, gone \union {p}, A \ {p})
<1>1. PICK back \in SUBSET gone : HoldBefore(pos, A \union back)
  BY DEF LeftAside
<1> DEFINE more == back \union (A \intersect {p})
<1>2. more \in SUBSET (gone \union {p}) /\ (A \ {p}) \union more = A \union back
  OBVIOUS
<1>3. A \intersect gone = {}
  BY DEF LeftAside
<1>4. (A \ {p}) \intersect (gone \union {p}) = {}
  BY <1>3
<1> QED
  BY <1>1, <1>2, <1>4 DEF LeftAside

\* Where nothing has been taken in, everything is still there.
LEMMA NothingGone ==
    ASSUME NEW pos, NEW A
    PROVE  LeftAside(pos, {}, A) <=> HoldBefore(pos, A)
<1>1. A \intersect {} = {} /\ A \union {} = A /\ \A back \in SUBSET {} : back = {}
  OBVIOUS
<1>2. {} \in SUBSET {}
  OBVIOUS
<1> QED
  BY <1>1, <1>2 DEF LeftAside

\* Where funds are measured or unwrapped they are on the executor.
LEMMA KeptOnExecutor ==
    ASSUME Built, NEW pos \in Positions(route), NEW b, Resolved(pos, b)
    PROVE  LET swap == Swap(route, pos)
               a == AnswerOf(pos, b)
           IN
           /\ ~a.hasRecipient => CallIn(pos, b).to = "executor" /\ KeepsOutput(pos, b)
           /\ Has(pos, b, 9) => /\ CallIn(pos, b).to = "executor" /\ KeepsOutput(pos, b)
                                /\ swap.dest = ETH /\ a.wrap
           /\ KeepsOutput(pos, b) /\ CallIn(pos, b).to = "executor" => MeasuredByCall(pos, b) # {}
           /\ Has(pos, b, 8) => CallIn(pos, b).to = "executor" /\ MeasuredByCall(pos, b) # {}
<1> DEFINE swap == Swap(route, pos)
           a == AnswerOf(pos, b)
           P == ParamsFor(pos, b)
<1>1. CallIn(pos, b).to = IF a.hasRecipient THEN LegOf(pos, b).recipient ELSE "executor"
  BY CallIs
<1>2. swap.dest = ETH /\ a.wrap => LegOf(pos, b).recipient = "executor"
  BY LegIs DEF AnswerOf
<1>3. P[pos].answer = a
  BY DEF AnswerOf, LegOf
<1>4. ~a.hasRecipient => KeepsOutput(pos, b)
  BY <1>3 DEF KeepsOutput, Keeps
<1>5. Has(pos, b, 9) => UnwrapsForSwap(P, pos)
  BY HasIs DEF Withdraws
<1>6. UnwrapsForSwap(P, pos) => swap.dest = ETH /\ a.wrap /\ KeepsOutput(pos, b)
  BY <1>3 DEF UnwrapsForSwap, LastWrapping, KeepsOutput, Keeps
<1>7. KeepsOutput(pos, b) /\ CallIn(pos, b).to = "executor" => MeasuredByCall(pos, b) # {}
  BY CallMeasures DEF MeasuredByCall
<1>8. Has(pos, b, 8) => CallIn(pos, b).to = "executor" /\ MeasuredByCall(pos, b) # {}
  BY CallMeasures, HasIs DEF MeasuredByCall
<1> HIDE DEF a, swap
<1> QED
  BY <1>1, <1>2, <1>4, <1>5, <1>6, <1>7, <1>8 DEF a, swap

\* What is sent is ETH.
LEMMA SentIsEth ==
    ASSUME Built, NEW pos \in Positions(route), NEW b, Resolved(pos, b), Has(pos, b, 11)
    PROVE  LET swap == Swap(route, pos)
               a == AnswerOf(pos, b)
           IN
           /\ swap.dest = ETH /\ (a.wrap => Has(pos, b, 9))
           /\ CallIn(pos, b).to = "executor" /\ KeepsOutput(pos, b)
<1> DEFINE swap == Swap(route, pos)
           a == AnswerOf(pos, b)
           P == ParamsFor(pos, b)
<1>1. P[pos].answer = a
  BY DEF AnswerOf, LegOf
<1>2. Has(pos, b, 9) <=> Withdraws(P, pos)
  BY HasIs
<1>3. CASE Has(pos, b, 9)
  BY <1>3, KeptOnExecutor
<1>4. CASE ~Has(pos, b, 9)
  <2>1. IsLastSwap(route, pos) /\ ~a.hasRecipient /\ swap.dest = ETH /\ ~RootUnwraps(P)
    BY <1>2, <1>4, HasIs
  <2>2. ~a.wrap
    <3>1. /\ pos \in OfSwap(pos[1], pos[2]) /\ pos[2] = LastSwap(pos[1]) /\ pos[1] \in 1..NPaths
          /\ Swap(route, pos) = SwapOf(pos[1], pos[2])
      BY <2>1, OfSwapHas
    <3>2. route.dest = ETH
      BY <2>1, <3>1, SwapsFollow
    <3>3. a.wrap => AnyWraps(P, pos[1], LastSwap(pos[1]))
      BY <1>1, <3>1 DEF AnyWraps
    <3>4. DOMAIN route.paths = 1..NPaths
      BY RouteShape, BuiltShape
    <3> QED
      BY <2>1, <3>1, <3>2, <3>3, <3>4 DEF RootUnwraps
  <2> QED
    BY <2>1, <2>2, KeptOnExecutor
<1> QED
  BY <1>3, <1>4

\* A step finds what it takes and has the amount, and a pull its grant.
LEMMA StageNeeds ==
    ASSUME Built, NEW pos \in Positions(route), NEW b, BlockOf(pos, b),
           NEW s, NEW n \in 1..11, Has(pos, b, n), BeforeStage(s, pos, b, n)
    PROVE  LET step == StepOf(pos, b, n) IN
           /\ IsFundsStep(step) /\ StepTyped(s, step) /\ IsGranted(s.machine, step)
           /\ Sound => Finds(s, step) /\ Threads(s, step)
<1> DEFINE swap == Swap(route, pos)
           a == AnswerOf(pos, b)
           step == StepOf(pos, b, n)
           m == s.machine
<1>1. Resolved(pos, b)
  BY BlockIsResolved
<1>2. n \in {1, 2, 3, 4, 5, 6, 7, 8, 9, 10, 11}
  OBVIOUS
<1>3. IF n = 7 THEN step.op = "dex" ELSE
        step \in {UnwrapStep, ApproveStep, WrapStep, TransferSrcStep(swap),
                  TransferStep(route.dest, "augustus"), SendNativeStep}
  BY <1>2, StepIs, CallIs
<1>4. "pool" \in Places /\ "augustus" \in Places
  BY DEF Places
<1>5. /\ TransferSrcStep(swap).op = "transfer" /\ TransferSrcStep(swap).to = "pool"
      /\ TransferSrcStep(swap).token = WrappedForm(swap.src)
      /\ TransferStep(route.dest, "augustus").op = "transfer"
      /\ TransferStep(route.dest, "augustus").to = "augustus"
      /\ TransferStep(route.dest, "augustus").token = route.dest
  BY StepsAre DEF TransferSrcStep
<1>6. CASE n # 7
  <2>1. IsFundsStep(step) /\ StepTyped(s, step) /\ IsGranted(m, step)
    BY <1>3, <1>4, <1>5, <1>6, StepsNeed, StepsAre
  <2>2. ASSUME Sound PROVE Finds(s, step) /\ Threads(s, step)
    <3>1. StageFunds(s, pos, b, n)
      BY <2>2, StageIs
    <3>2. CASE n \in {1, 3, 5, 6}
      <4>1. Paid(pos, b, n, m)
        BY <3>1, <3>2 DEF StageFunds
      <4>2. n = 6 => ~a.transferSrc
        <5>1. n = 6 => UnwrapsSrc(swap, a) /\ Consistent(swap, a)
          BY <1>1, HasIs, AnswerFits
        <5> QED
          BY <5>1, ConsistentIs DEF UnwrapsSrc, TakesNative
      <4>3. m.at = "executor" /\ m.exact /\ m.held = PaidToken(pos, b, n)
        BY <3>2, <4>1, <4>2, PaidIs
      <4>4. /\ n = 1 => PaidToken(pos, b, n) = WETH /\ step = UnwrapStep
            /\ n = 3 => PaidToken(pos, b, n) = ETH /\ step = WrapStep
            /\ n = 5 => PaidToken(pos, b, n) = WrappedForm(swap.src) /\ step = TransferSrcStep(swap)
            /\ n = 6 => PaidToken(pos, b, n) = WETH /\ step = UnwrapStep
        BY <1>1, PaidTokens, StepIs
      <4>5. CASE n = 1 \/ n = 6
        BY <4>3, <4>4, <4>5, StepsNeed
      <4>6. CASE n = 3
        BY <4>3, <4>4, <4>6, StepsNeed, StepsAre
      <4>7. CASE n = 5
        BY <1>4, <1>5, <4>3, <4>4, <4>7, StepsNeed
      <4> QED
        BY <3>2, <4>5, <4>6, <4>7
    <3>3. CASE n \in {2, 4}
      BY <3>3, StepIs, StepsNeed
    <3>4. CASE n \in {8, 9, 10, 11}
      <4>1. Returned(pos, b, n, m)
        BY <3>1, <3>4 DEF StageFunds
      <4>2. /\ n = 9 => Has(pos, b, 9)
            /\ n = 10 => ~a.hasRecipient /\ swap.dest # ETH /\ swap.dest = route.dest
            /\ n = 11 => /\ swap.dest = ETH /\ (a.wrap => Has(pos, b, 9)) /\ ~Has(pos, b, 10)
                         /\ CallIn(pos, b).to = "executor" /\ KeepsOutput(pos, b)
        <5>1. n = 10 => ~a.hasRecipient /\ swap.dest # ETH /\ swap.dest = route.dest
          BY HasIs
        <5>2. n = 11 => /\ swap.dest = ETH /\ (a.wrap => Has(pos, b, 9))
                        /\ CallIn(pos, b).to = "executor" /\ KeepsOutput(pos, b)
          BY <1>1, SentIsEth
        <5>3. swap.dest = ETH => ~Has(pos, b, 10)
          BY HasIs
        <5> QED
          BY <5>1, <5>2, <5>3
      <4>3. CallIn(pos, b).to = "executor" /\ MeasuredByCall(pos, b) # {}
        BY <1>1, <3>4, <4>2, KeptOnExecutor
      <4>4. m.at = "executor" /\ m.exact
        BY <3>4, <4>1, <4>2, <4>3, ReturnedIs
      <4>5. n = 9 => swap.dest = ETH /\ a.wrap
        BY <1>1, <4>2, KeptOnExecutor
      <4>6. n = 8 => CallIn(pos, b).out = ETH
        BY <1>1, OutIs
      <4>7. m.held = IF n = 8 THEN CallIn(pos, b).out
                     ELSE IF swap.dest = ETH /\ a.wrap /\ ~(n > 9 /\ Has(pos, b, 9))
                     THEN WETH ELSE swap.dest
        BY <4>1, ReturnedIs
      <4>8. /\ n = 8 => m.held = ETH /\ step = WrapStep
            /\ n = 9 => m.held = WETH /\ step = UnwrapStep
            /\ n = 10 => m.held = route.dest /\ step = TransferStep(route.dest, "augustus")
            /\ n = 11 => m.held = ETH /\ step = SendNativeStep
        BY <4>2, <4>5, <4>6, <4>7, StepIs
      <4>9. CASE n = 8
        BY <4>4, <4>8, <4>9, StepsNeed, StepsAre
      <4>10. CASE n = 9 \/ n = 11
        BY <4>4, <4>8, <4>10, StepsNeed
      <4>11. CASE n = 10
        BY <1>4, <1>5, <4>4, <4>8, <4>11, StepsNeed
      <4> QED
        BY <3>4, <4>9, <4>10, <4>11
    <3> QED
      BY <1>2, <1>6, <3>2, <3>3, <3>4
  <2> QED
    BY <2>1, <2>2
<1>7. CASE n = 7
  <2> DEFINE call == CallIn(pos, b)
  <2>1. step = call /\ call.op = "dex"
    BY <1>7, StepIs, CallIs
  <2>2. call.out \in Tokens /\ call.to \in Places
    BY <1>1, OutIs
  <2>3. call.how = IF a.transferSrc THEN "pool"
                   ELSE IF TakesNative(swap, a) THEN "eth"
                   ELSE IF a.skipApproval \/ LegOf(pos, b).approve = "already" THEN "granted"
                   ELSE "needs"
    BY CallIs DEF AnswerOf
  <2>4. (call.how = "pool" <=> a.transferSrc) /\ (call.how = "needs" => Has(pos, b, 2) \/ Has(pos, b, 4))
    <3>1. call.how = "pool" <=> a.transferSrc
      BY <2>3
    <3>2. ASSUME call.how = "needs" PROVE Has(pos, b, 2) \/ Has(pos, b, 4)
      <4>1. ~a.transferSrc /\ ~TakesNative(swap, a) /\ ~a.skipApproval
            /\ LegOf(pos, b).approve # "already"
        <5> HIDE DEF swap, a, call
        <5> QED
          BY <2>3, <3>2
      <4>2. LegOf(pos, b).approve # "none" /\ LegOf(pos, b).approve \in {"none", "already", "data"}
        BY <1>1, <4>1, LegIs DEF Pulls, ParamType, AnswerOf
      <4>3. MayApprove(LegOf(pos, b))
        BY <4>1, <4>2 DEF MayApprove, AnswerOf
      <4>4. swap.src = ETH => a.wrap
        BY <4>1 DEF TakesNative
      <4> QED
        BY <4>3, <4>4, HasIs
    <3> QED
      BY <3>1, <3>2
  <2>5. IsGranted(m, call)
    <3>1. Has(pos, b, 2) \/ Has(pos, b, 4) => m.granted
      BY <1>7, StageIs DEF Granted
    <3> QED
      BY <2>4, <3>1 DEF IsGranted
  <2>6. ASSUME Sound PROVE Finds(s, call) /\ Threads(s, call)
    <3>1. Paid(pos, b, 7, m) /\ s.rest = {}
      BY <1>7, <2>6, StageIs DEF StageFunds
    <3>2. /\ m.held = call.in /\ m.exact
          /\ m.at = IF a.transferSrc THEN "pool" ELSE "executor"
      BY <1>1, <3>1, PaidIs, PaidTokens
    <3>3. call.flag.send <=> call.in = ETH
      BY <1>1, CallSends
    <3>4. m.at = IF call.how = "pool" THEN "pool" ELSE "executor"
      BY <2>4, <3>2
    <3> HIDE DEF call, m
    <3> QED
      BY <2>1, <3>1, <3>2, <3>3, <3>4 DEF Finds, Threads, FindsFunds, IsExact, m
  <2>7. IsFundsStep(call) /\ StepTyped(s, call)
    <3> HIDE DEF call
    <3> QED
      BY <2>1, <2>2 DEF IsFundsStep, StepTyped
  <2> HIDE DEF call
  <2> QED
    BY <2>1, <2>5, <2>6, <2>7
<1> QED
  BY <1>6, <1>7

\* The next stage is reached.
LEMMA StageReached ==
    ASSUME Built, NEW pos \in Positions(route), NEW b, BlockOf(pos, b),
           NEW s, NEW t, NEW n \in 1..11, Has(pos, b, n), BeforeStage(s, pos, b, n),
           NEW held, NEW at, NEW granted, NEW exact, NEW taken,
           Becomes(s, t, held, at, granted, exact, taken),
           Granted(pos, b, n + 1) => granted,
           Sound => /\ IF n + 1 < 8 THEN Paid(pos, b, n + 1, t.machine)
                       ELSE Returned(pos, b, n + 1, t.machine)
                    /\ LeftAside(pos, Gone(pos, b, n + 1), t.aside)
    PROVE  BeforeStage(t, pos, b, n + 1)
<1>1. /\ s.pc = StageOf(pos, b, n) + 1 /\ InBlock(s, pos, b)
      /\ Sound => StageFunds(s, pos, b, n)
  BY StageIs
<1>2. StageOf(pos, b, n + 1) = StageOf(pos, b, n) + 1
  BY StagesLie, BuiltShape
<1>3. /\ t.pc = s.pc + 1 /\ t.frames = s.frames /\ t.group = s.group
      /\ t.rest = s.rest \ taken /\ (t.machine.granted <=> granted)
  BY DEF Becomes
<1>4. InBlock(t, pos, b)
  BY <1>1, <1>3, BlockKept
<1>5. t.pc = StageOf(pos, b, n + 1) + 1
  BY <1>1, <1>2, <1>3
<1>6. Sound => t.rest = {}
  BY <1>1, <1>3 DEF StageFunds
<1>7. Sound => StageFunds(t, pos, b, n + 1)
  BY <1>6 DEF StageFunds
<1> QED
  BY <1>3, <1>4, <1>5, <1>7, StageIs

\* A step before the call leads to the next stage: tokens change their form, are
\* granted, are moved to the pool.
LEMMA StageDoesBeforeCall ==
    ASSUME Built, NEW pos \in Positions(route), NEW b, BlockOf(pos, b),
           NEW s, s.machine \in Machines, NEW t, NEW n \in 1..6, Has(pos, b, n),
           BeforeStage(s, pos, b, n), Works(s, t, StepOf(pos, b, n))
    PROVE  BeforeStage(t, pos, b, n + 1)
<1> DEFINE m == s.machine
           a == AnswerOf(pos, b)
           swap == Swap(route, pos)
<1>1. Resolved(pos, b)
  BY BlockIsResolved
<1>2. n \in {1, 2, 3, 4, 5, 6} /\ n \in 1..11 /\ n < 8 /\ n + 1 < 8
  OBVIOUS
<1>3. Granted(pos, b, n) => m.granted
  BY StageIs
<1>4. Sound => /\ m.held = PaidToken(pos, b, n) /\ m.exact
               /\ m.at = IF n > 5 /\ a.transferSrc THEN "pool" ELSE "executor"
               /\ HoldBefore(pos, s.aside)
  <2>1. Sound => StageFunds(s, pos, b, n)
    BY StageIs
  <2>2. Gone(pos, b, n) = {}
    BY <1>2, GoneIs
  <2> QED
    BY <1>2, <2>1, <2>2, PaidIs, NothingGone DEF StageFunds
<1>5. Gone(pos, b, n + 1) = {}
  BY <1>2, GoneIs
<1>6. m.at \in Places
  BY MachineIs
\* The unwraps.
<1>7. CASE n \in {1, 6}
  <2>1. StepOf(pos, b, n) = UnwrapStep
    BY <1>7, StepIs
  <2>2. Becomes(s, t, ETH, m.at, m.granted, TRUE, {[held |-> ETH, at |-> m.at]})
    BY <2>1, UnwrapWorks
  <2>3. Granted(pos, b, n + 1) => m.granted
    BY <1>2, <1>3, <1>7 DEF Granted
  <2>4. ASSUME Sound
        PROVE  Paid(pos, b, n + 1, t.machine) /\ LeftAside(pos, Gone(pos, b, n + 1), t.aside)
    <3>1. UnwrapsSrc(swap, a) => ~a.transferSrc /\ swap.src = WETH /\ swap.dest # ETH
      <4>1. Consistent(swap, a)
        BY <1>1, AnswerFits
      <4> QED
        BY <4>1, ConsistentIs DEF UnwrapsSrc, TakesNative
    <3>2. UnwrapsBefore(ParamsFor(pos, b), pos, b) => swap.src = ETH
      BY DEF UnwrapsBefore
    <3>3. swap.src # swap.dest
      BY <1>1, AnswerFits
    <3>4. /\ n = 6 => UnwrapsSrc(swap, a)
          /\ n = 1 => UnwrapsBefore(ParamsFor(pos, b), pos, b)
      BY HasIs
    <3>5. (n = 6 => ~a.transferSrc) /\ swap.src \in {ETH, WETH} /\ swap.dest # ETH
      BY <1>7, <3>1, <3>2, <3>3, <3>4
    <3>6. m.at = "executor" /\ PaidToken(pos, b, n + 1) = ETH
      <4>1. n = 1 => PaidToken(pos, b, n + 1) = ETH
        BY <1>1, PaidTokens
      <4>2. n = 6 => PaidToken(pos, b, n + 1) = ETH
        BY <1>1, PaidTokens
      <4> QED
        BY <1>4, <1>7, <2>4, <3>5, <4>1, <4>2
    <3>7. Eth1 \notin s.aside
      BY <1>4, <2>4, <3>5, NoEthAside
    <3>8. t.aside = s.aside
      <4>1. t.aside = s.aside \ {Eth1}
        BY <2>2, <3>6 DEF Becomes, Eth1, OnExecutor
      <4> QED
        BY <3>7, <4>1
    <3>9. t.machine.held = ETH /\ t.machine.at = "executor" /\ t.machine.exact
      BY <2>2, <3>6 DEF Becomes
    <3>10. Paid(pos, b, n + 1, t.machine)
      <4>1. ~(n + 1 > 5 /\ a.transferSrc)
        BY <1>7, <3>5
      <4> QED
        BY <3>6, <3>9, <4>1, PaidIs
    <3> QED
      BY <1>4, <1>5, <2>4, <3>8, <3>10, NothingGone
  <2> HIDE DEF m
  <2> QED
    BY <1>2, <2>2, <2>3, <2>4, StageReached
\* The steps that take nothing in.
<1>8. CASE n \in {2, 3, 4, 5}
  <2> DEFINE w == t.machine
  <2>1. /\ Becomes(s, t, w.held, w.at, w.granted, w.exact, {})
        /\ n \in {2, 4} => w.held = m.held /\ w.at = m.at /\ w.granted
        /\ n = 3 => w.held = WETH /\ w.at = m.at
        /\ n = 5 => w.held = m.held /\ w.at = "pool"
        /\ n \in {3, 5} => (w.granted <=> m.granted)
        /\ w.exact <=> m.exact
    <3>1. CASE n \in {2, 4}
      <4>1. StepOf(pos, b, n) = ApproveStep
        BY <3>1, StepIs
      <4>2. Becomes(s, t, m.held, m.at, TRUE, m.exact, {})
        BY <4>1, ApproveWorks
      <4> QED
        BY <3>1, <4>2 DEF Becomes
    <3>2. CASE n = 3
      <4>1. StepOf(pos, b, n) = WrapStep /\ WrapStep.op = "wrap" /\ WrapStep # MeasuredWrapStep
        BY <3>2, StepIs, StepsAre
      <4> DEFINE e == m.exact \/ WrapStep = MeasuredWrapStep
                 k == IF WrapStep = MeasuredWrapStep THEN {[held |-> WETH, at |-> m.at]} ELSE {}
      <4>2. Becomes(s, t, WETH, m.at, m.granted, e, k)
        BY <4>1, WrapWorks
      <4>3. k = {} /\ (e <=> m.exact)
        BY <4>1
      <4> HIDE DEF e, k, m
      <4> QED
        BY <3>2, <4>2, <4>3 DEF Becomes
    <3>3. CASE n = 5
      <4>1. StepOf(pos, b, n) = TransferSrcStep(swap)
        BY <3>3, StepIs
      <4>2. StepOf(pos, b, n).op = "transfer" /\ StepOf(pos, b, n).to = "pool" /\ "pool" \in Places
        BY <4>1, StepsAre DEF TransferSrcStep, Places
      <4>3. Becomes(s, t, m.held, "pool", m.granted, m.exact, {})
        BY <4>2, MoveWorks
      <4> QED
        BY <3>3, <4>3 DEF Becomes
    <3> QED
      BY <1>8, <3>1, <3>2, <3>3
  <2>2. Granted(pos, b, n + 1) => w.granted
    BY <1>2, <1>3, <1>8, <2>1 DEF Granted
  <2>3. t.aside = s.aside
    BY <2>1 DEF Becomes
  <2>5. Sound => Paid(pos, b, n + 1, t.machine)
    <3>1. SUFFICES ASSUME Sound PROVE Paid(pos, b, n + 1, t.machine)
      OBVIOUS
    <3>2. m.held = PaidToken(pos, b, n) /\ m.exact /\ m.at = "executor"
      BY <1>4, <1>8, <3>1
    <3>3. w.held = PaidToken(pos, b, n + 1)
      <4>1. /\ n = 2 => PaidToken(pos, b, n + 1) = PaidToken(pos, b, n)
            /\ n = 3 => PaidToken(pos, b, n + 1) = WETH
            /\ n = 4 => PaidToken(pos, b, n + 1) = PaidToken(pos, b, n)
            /\ n = 5 => PaidToken(pos, b, n + 1) = PaidToken(pos, b, n)
        BY <1>1, PaidTokens
      <4> QED
        BY <1>8, <2>1, <3>2, <4>1
    <3>4. w.at = IF n + 1 > 5 /\ a.transferSrc THEN "pool" ELSE "executor"
      <4>1. n = 5 => a.transferSrc
        BY HasIs
      <4>2. n # 5 => ~(n + 1 > 5)
        BY <1>8
      <4>3. n = 5 => n + 1 > 5
        OBVIOUS
      <4> QED
        BY <1>8, <2>1, <3>2, <4>1, <4>2, <4>3
    <3> QED
      BY <2>1, <3>2, <3>3, <3>4, PaidIs
  <2>6. Sound => LeftAside(pos, Gone(pos, b, n + 1), t.aside)
    BY <1>4, <1>5, <2>3, NothingGone
  <2> QED
    BY <1>2, <2>1, <2>2, <2>5, <2>6, StageReached
<1> QED
  BY <1>2, <1>7, <1>8

\* So does the call.
LEMMA StageDoesCall ==
    ASSUME Built, NEW pos \in Positions(route), NEW b, BlockOf(pos, b),
           NEW s, s.machine \in Machines, NEW t, BeforeStage(s, pos, b, 7),
           Works(s, t, StepOf(pos, b, 7))
    PROVE  BeforeStage(t, pos, b, 8)
<1> DEFINE call == CallIn(pos, b)
           all == call.to = "executor" /\ Measures(call)
           taken == IF all THEN {[held |-> call.out, at |-> call.to]} ELSE {}
<1>1. Resolved(pos, b)
  BY BlockIsResolved
<1>2. StepOf(pos, b, 7) = call /\ call.op = "dex" /\ call.out \in Tokens /\ call.to \in Places
  BY <1>1, StepIs, CallIs, OutIs
<1>3. Becomes(s, t, call.out, call.to, FALSE, all, taken)
  BY <1>2, CallWorks
<1>4. taken = MeasuredByCall(pos, b) /\ (all <=> MeasuredByCall(pos, b) # {})
  BY DEF MeasuredByCall, OnExecutor
<1>5. Gone(pos, b, 8) = MeasuredByCall(pos, b) /\ Gone(pos, b, 7) = {}
  BY GoneIs
<1>6. ~Granted(pos, b, 8)
  BY DEF Granted
<1> HIDE DEF call, all, taken
<1>7. Sound => Returned(pos, b, 8, t.machine)
  <2>1. t.machine.held = call.out /\ t.machine.at = call.to /\ (t.machine.exact <=> all)
    BY <1>3 DEF Becomes
  <2> QED
    BY <1>4, <2>1, ReturnedIs DEF call
<1>8. Sound => LeftAside(pos, Gone(pos, b, 8), t.aside)
  <2>1. SUFFICES ASSUME Sound PROVE LeftAside(pos, Gone(pos, b, 8), t.aside)
    OBVIOUS
  <2>2. HoldBefore(pos, s.aside)
    BY <1>5, <2>1, StageIs, NothingGone DEF StageFunds
  <2>3. t.aside = s.aside \ MeasuredByCall(pos, b)
    BY <1>3, <1>4 DEF Becomes
  <2> DEFINE back == s.aside \intersect MeasuredByCall(pos, b)
  <2>4. back \in SUBSET MeasuredByCall(pos, b) /\ t.aside \union back = s.aside
        /\ t.aside \intersect MeasuredByCall(pos, b) = {}
    BY <2>3
  <2> HIDE DEF back
  <2> QED
    BY <1>5, <2>2, <2>4 DEF LeftAside
<1>9. Has(pos, b, 7) /\ 7 + 1 = 8 /\ 7 \in 1..11 /\ ~(8 < 8)
  BY HasIs
<1> QED
  BY <1>3, <1>6, <1>7, <1>8, <1>9, StageReached

\* And a step behind it: tokens change their form and are delivered.
LEMMA StageDoesBehindCall ==
    ASSUME Built, NEW pos \in Positions(route), NEW b, BlockOf(pos, b),
           NEW s, s.machine \in Machines, NEW t, NEW n \in 8..11, Has(pos, b, n),
           BeforeStage(s, pos, b, n), Works(s, t, StepOf(pos, b, n))
    PROVE  BeforeStage(t, pos, b, n + 1)
<1> DEFINE m == s.machine
           a == AnswerOf(pos, b)
           swap == Swap(route, pos)
<1>1. Resolved(pos, b)
  BY BlockIsResolved
<1>2. n \in {8, 9, 10, 11} /\ n \in 1..11 /\ ~(n < 8) /\ ~(n + 1 < 8)
  OBVIOUS
<1>3. ~Granted(pos, b, n + 1)
  BY <1>2 DEF Granted
<1>4. Sound => /\ Returned(pos, b, n, m) /\ LeftAside(pos, Gone(pos, b, n), s.aside)
               /\ StepOf(pos, b, n) # ApproveStep
  <2>1. Sound => StageFunds(s, pos, b, n)
    BY StageIs
  <2>2. StepOf(pos, b, n) # ApproveStep
    BY <1>2, StepIs, StepsAre
  <2> QED
    BY <1>2, <2>1, <2>2 DEF StageFunds
<1>5. CASE n = 9
  <2>1. StepOf(pos, b, n) = UnwrapStep
    BY <1>5, StepIs
  <2>2. Becomes(s, t, ETH, m.at, m.granted, TRUE, {[held |-> ETH, at |-> m.at]})
    BY <2>1, UnwrapWorks
  <2>3. ASSUME Sound
        PROVE  Returned(pos, b, n + 1, t.machine) /\ LeftAside(pos, Gone(pos, b, n + 1), t.aside)
    <3>1. Has(pos, b, 9) /\ CallIn(pos, b).to = "executor" /\ swap.dest = ETH
      BY <1>1, <1>5, KeptOnExecutor
    <3>2. m.at = "executor"
      BY <1>4, <1>5, <2>3, <3>1, ReturnedIs
    <3>3. t.machine.held = ETH /\ t.machine.at = "executor" /\ t.machine.exact
          /\ t.aside = s.aside \ {Eth1}
      BY <2>2, <3>2 DEF Becomes, Eth1, OnExecutor
    <3>4. Gone(pos, b, 10) = Gone(pos, b, 9) \union {Eth1}
      BY <3>1, GoneIs
    <3>5. Returned(pos, b, 10, t.machine)
      BY <3>1, <3>3, ReturnedIs
    <3>6. LeftAside(pos, Gone(pos, b, 10), t.aside)
      <4>1. LeftAside(pos, Gone(pos, b, 9), s.aside)
        BY <1>4, <1>5, <2>3
      <4>2. LeftAside(pos, Gone(pos, b, 9) \union {Eth1}, s.aside \ {Eth1})
        BY <4>1, LeftWithout
      <4> QED
        BY <3>3, <3>4, <4>2
    <3> QED
      BY <1>5, <3>5, <3>6
  <2> QED
    BY <1>2, <1>3, <2>2, <2>3, StageReached
<1>6. CASE n \in {8, 10, 11}
  <2>1. PICK held, at, granted, exact :
            /\ Becomes(s, t, held, at, granted, exact, {})
            /\ n = 8 => held = WETH /\ at = m.at
            /\ n \in {10, 11} => held = m.held /\ at = "augustus"
            /\ exact <=> m.exact
    <3>1. CASE n = 8
      <4>1. StepOf(pos, b, n) = WrapStep /\ WrapStep.op = "wrap" /\ WrapStep # MeasuredWrapStep
        BY <3>1, StepIs, StepsAre
      <4> DEFINE e == m.exact \/ WrapStep = MeasuredWrapStep
                 k == IF WrapStep = MeasuredWrapStep THEN {[held |-> WETH, at |-> m.at]} ELSE {}
      <4>2. Becomes(s, t, WETH, m.at, m.granted, e, k)
        BY <4>1, WrapWorks
      <4>3. k = {} /\ (e <=> m.exact)
        BY <4>1
      <4>4. Becomes(s, t, WETH, m.at, m.granted, m.exact, {})
        <5> HIDE DEF e, k
        <5> QED
          BY <4>2, <4>3 DEF Becomes
      <4> QED
        BY <3>1, <4>4
    <3>2. CASE n \in {10, 11}
      <4>1. StepOf(pos, b, n) = IF n = 10 THEN TransferStep(route.dest, "augustus") ELSE SendNativeStep
        BY <3>2, StepIs
      <4>2. "augustus" \in Places
            /\ \/ StepOf(pos, b, n).op = "transfer" /\ StepOf(pos, b, n).to = "augustus"
               \/ StepOf(pos, b, n).op = "sendNative"
        BY <4>1, StepsAre DEF Places
      <4>3. Becomes(s, t, m.held, "augustus", m.granted, m.exact, {})
        BY <4>2, MoveWorks
      <4> QED
        BY <3>2, <4>3
    <3> QED
      BY <1>6, <3>1, <3>2
  <2>2. t.aside = s.aside /\ t.machine.held = held /\ t.machine.at = at /\ (t.machine.exact <=> exact)
    BY <2>1 DEF Becomes
  <2>3. Gone(pos, b, n + 1) = Gone(pos, b, n)
    BY <1>6, GoneIs
  <2>4. Sound => Returned(pos, b, n + 1, t.machine)
    <3>1. SUFFICES ASSUME Sound PROVE Returned(pos, b, n + 1, t.machine)
      OBVIOUS
    <3>2. CASE n = 8
      <4>1. CallIn(pos, b).out = ETH /\ swap.dest = WETH
        BY <1>1, <3>2, OutIs
      <4>2. m.at = CallIn(pos, b).to /\ (m.exact <=> MeasuredByCall(pos, b) # {})
        BY <1>4, <3>1, <3>2, ReturnedIs
      <4> QED
        BY <2>1, <2>2, <3>2, <4>1, <4>2, TokenAssumption, ReturnedIs
    <3>3. CASE n \in {10, 11}
      <4>1. Returned(pos, b, n, m)
        BY <1>4, <3>1
      <4>2. m.held = (IF swap.dest = ETH /\ a.wrap /\ ~Has(pos, b, 9) THEN WETH ELSE swap.dest)
            /\ (m.exact <=> MeasuredByCall(pos, b) # {} \/ Has(pos, b, 9))
        BY <3>3, <4>1, ReturnedIs
      <4>3. n + 1 > 9 /\ n + 1 # 8 /\ (n = 10 => n + 1 > 10) /\ (n = 11 => n + 1 > 11)
        BY <3>3
      <4>4. at = "augustus" /\ held = m.held
        BY <2>1, <3>3
      <4>5. (n = 10 => Has(pos, b, 10)) /\ (n = 11 => Has(pos, b, 11))
        OBVIOUS
      <4>6. \/ n + 1 > 10 /\ Has(pos, b, 10)
            \/ n + 1 > 11 /\ Has(pos, b, 11)
        BY <3>3, <4>3, <4>5
      <4> QED
        BY <2>1, <2>2, <4>2, <4>3, <4>4, <4>6, ReturnedIs
    <3> QED
      BY <1>6, <3>2, <3>3
  <2> QED
    BY <1>2, <1>3, <1>4, <2>1, <2>2, <2>3, <2>4, StageReached
<1> QED
  BY <1>2, <1>5, <1>6

\* Each step of a unit leads to its next stage.
LEMMA StageDoes ==
    ASSUME Built, NEW pos \in Positions(route), NEW b, BlockOf(pos, b),
           NEW s, s.machine \in Machines, NEW t, NEW n \in 1..11, Has(pos, b, n),
           BeforeStage(s, pos, b, n), Works(s, t, StepOf(pos, b, n))
    PROVE  BeforeStage(t, pos, b, n + 1)
<1>1. n \in 1..6 \/ n = 7 \/ n \in 8..11
  OBVIOUS
<1>2. CASE n \in 1..6
  BY <1>2, StageDoesBeforeCall
<1>3. CASE n = 7
  BY <1>3, StageDoesCall
<1>4. CASE n \in 8..11
  BY <1>4, StageDoesBehindCall
<1> QED
  BY <1>1, <1>2, <1>3, <1>4
=============================================================================
