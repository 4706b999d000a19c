---------------------------- MODULE SfxFileProofs ----------------------------
(***************************************************************************)
(* The output file of pack, for any archives that fit the limits, any      *)
(* stub, any number of packs over one another, and a stop or a power loss  *)
(* at any byte.                                                            *)
(*                                                                         *)
(* First, where Archive::write and write_sfx put what: the image of every  *)
(* archive is well-formed.  Then what unpack makes of such an image, step  *)
(* by step, when the file is one, a part of one, or one with a rotten      *)
(* byte.  Then what pack leaves in the file.  The invariant joins them.    *)
(***************************************************************************)
EXTENDS SfxFile, SequenceTheorems, WellFoundedInduction, TLAPS

----------------------------------------------------------------------------
(* Induction up to a number, and functions that are defined by recursion.  *)

\* A set of numbers that is not empty has a least one.
LEMMA Least ==
  ASSUME NEW T \in SUBSET Nat, T # {}
  PROVE  \E x \in T : \A y \in T : x <= y
<1>1. PICK x \in T : \A y \in T : <<y, x>> \notin OpToRel(<, Nat)
  BY WFMin, NatLessThanWellFounded
<1>2. \A y \in T : ~(y < x)  BY <1>1 DEF OpToRel
<1> QED  BY <1>2

\* What holds of 0, and of k when it holds of k - 1, holds up to n.
LEMMA Along ==
  ASSUME NEW n \in Nat, NEW S, 0 \in S, \A k \in 1..n : k - 1 \in S => k \in S
  PROVE  \A k \in 0..n : k \in S
<1> DEFINE T == {k \in 0..n : k \notin S}
<1> SUFFICES ASSUME T # {} PROVE FALSE  OBVIOUS
<1>1. PICK x \in T : \A y \in T : x <= y
  <2>1. T \in SUBSET Nat  OBVIOUS
  <2> HIDE DEF T
  <2> QED  BY <2>1, Least
<1>2. x # 0  BY <1>1
<1>3. x \in 1..n /\ x - 1 \in 0..n /\ x - 1 \notin T  BY <1>1, <1>2
<1> QED  BY <1>1, <1>3

\* f begins with b and goes on as g says, up to n.
Follows(f, n, b, g) == f[0] = b /\ \A k \in 1..n : f[k] = g[<<k, f[k - 1]>>]

\* A recursive definition has a function that follows it.
LEMMA Recursion ==
  ASSUME NEW n \in Nat, NEW V, NEW b \in V, NEW g, \A k \in 1..n, v \in V : g[<<k, v>>] \in V
  PROVE  \E f \in [0..n -> V] : Follows(f, n, b, g)
<1> DEFINE T == {m \in 0..n : ~ \E f \in [0..m -> V] : Follows(f, m, b, g)}
<1> SUFFICES ASSUME T # {} PROVE FALSE  OBVIOUS
<1>1. PICK x \in T : \A y \in T : x <= y
  <2>1. T \in SUBSET Nat  OBVIOUS
  <2> HIDE DEF T
  <2> QED  BY <2>1, Least
<1>2. x # 0
  <2> SUFFICES ASSUME x = 0 PROVE FALSE  OBVIOUS
  <2> DEFINE f == [k \in 0..0 |-> b]
  <2>1. f \in [0..0 -> V] /\ Follows(f, 0, b, g)  BY DEF Follows
  <2> QED  BY <2>1, <1>1
<1>3. x \in Nat /\ x - 1 \in 0..n /\ x - 1 \notin T
  <2>1. x \in 0..n  BY <1>1
  <2> HIDE DEF T
  <2>2. x \in Nat /\ x - 1 \in 0..n /\ ~(x <= x - 1)  BY <1>2, <2>1
  <2> QED  BY <1>1, <2>2
<1>4. PICK f \in [0..x - 1 -> V] : Follows(f, x - 1, b, g)  BY <1>3
<1> DEFINE h == [k \in 0..x |-> IF k = x THEN g[<<x, f[x - 1]>>] ELSE f[k]]
<1>5. h \in [0..x -> V]
  <2>1. x \in 1..n /\ f[x - 1] \in V  BY <1>1, <1>2, <1>3
  <2>2. g[<<x, f[x - 1]>>] \in V  BY <2>1
  <2> QED  BY <1>3, <2>2
<1>6. Follows(h, x, b, g)
  <2>1. h[0] = b  BY <1>2, <1>3, <1>4 DEF Follows
  <2>2. ASSUME NEW k \in 1..x PROVE h[k] = g[<<k, h[k - 1]>>]
    <3>1. h[k - 1] = f[k - 1]  BY <1>3
    <3>2. CASE k = x
      <4>1. h[x] = g[<<x, f[x - 1]>>]  BY <1>3
      <4> HIDE DEF h
      <4> QED  BY <3>1, <3>2, <4>1
    <3>3. CASE k # x
      <4>1. k \in 1..x - 1  BY <3>3, <1>3
      <4>2. f[k] = g[<<k, f[k - 1]>>] /\ h[k] = f[k]  BY <4>1, <1>3, <1>4 DEF Follows
      <4> QED  BY <4>2, <3>1
    <3> QED  BY <3>2, <3>3
  <2> HIDE DEF h
  <2> QED  BY <2>1, <2>2 DEF Follows
<1> QED  BY <1>1, <1>5, <1>6

\* The i-th of l places behind x is among the first y if they all are.
LEMMA Between ==
  ASSUME NEW x \in Nat, NEW l \in Nat, NEW y \in Nat, NEW i \in 1..l, x + l <= y
  PROVE  x + i \in 1..y
OBVIOUS

\* Functions on 1..n are the sequences of length n.
LEMMA FunctionIsSeq ==
  ASSUME NEW n \in Nat, NEW V, NEW f \in [1..n -> V]
  PROVE  f \in Seq(V) /\ Len(f) = n
<1>1. f \in Seq(V)  BY SeqDef
<1>2. Len(f) \in Nat /\ DOMAIN f = 1..Len(f)  BY <1>1, LenProperties
<1>3. 1..n = 1..Len(f)  BY <1>2
<1> QED  BY <1>1, <1>2, <1>3

----------------------------------------------------------------------------
(* Sums: start, start + w[1], start + w[1] + w[2] up to w[n].              *)

AreSums(sums, start, n, w) ==
  /\ \A k \in 1..n : w[k] \in Nat
  /\ \A k \in 1..n + 1 : sums[k] \in Nat
  /\ sums[1] = start
  /\ \A k \in 1..n : sums[k + 1] = sums[k] + w[k]

\* PrefixSums gives the sums.
LEMMA SumsAre ==
  ASSUME NEW start \in Nat, NEW widths \in Seq(Nat)
  PROVE  LET sums == PrefixSums(start, widths)
         IN  /\ sums \in Seq(Nat) /\ Len(sums) = Len(widths) + 1 /\ Len(widths) \in Nat
             /\ AreSums(sums, start, Len(widths), widths)
             /\ Last(sums) = sums[Len(widths) + 1]
<1> DEFINE n == Len(widths)
           Is(f) == f = [k \in 0..n |-> IF k = 0 THEN start ELSE f[k - 1] + widths[k]]
           g == [x \in (1..n) \X Nat |-> x[2] + widths[x[1]]]
<1>1. n \in Nat /\ \A k \in 1..n : widths[k] \in Nat  OBVIOUS
<1>2. \A k \in 1..n, v \in Nat : g[<<k, v>>] = v + widths[k] /\ g[<<k, v>>] \in Nat
  <2> HIDE DEF n
  <2> QED  BY <1>1
<1>3. PICK f \in [0..n -> Nat] : Follows(f, n, start, g)
  <2> HIDE DEF n, g
  <2> QED  BY <1>1, <1>2, Recursion
<1>4. Is(f)
  <2>1. \A k \in 1..n : k - 1 \in 0..n /\ f[k] = f[k - 1] + widths[k]
    <3> HIDE DEF n, g
    <3>1. \A k \in 1..n : k - 1 \in 0..n /\ f[k] = g[<<k, f[k - 1]>>]  BY <1>1, <1>3 DEF Follows
    <3>2. \A k \in 1..n : f[k - 1] \in Nat  BY <3>1
    <3> QED  BY <1>2, <3>1, <3>2
  <2>2. f[0] = start  BY <1>3 DEF Follows
  <2> HIDE DEF n, g
  <2> QED  BY <1>1, <1>3, <2>1, <2>2
<1> DEFINE sum == CHOOSE e : Is(e)
<1>5. Is(sum)  BY <1>4
<1>6. PrefixSums(start, widths) = [k \in 1..(n + 1) |-> sum[k - 1]]  BY DEF PrefixSums
<1> HIDE DEF sum, n, g
<1>7. sum[0] = start /\ \A k \in 1..n : sum[k] = sum[k - 1] + widths[k]  BY <1>1, <1>5
<1>8. \A k \in 0..n : sum[k] \in Nat
  <2> DEFINE A == {k \in 0..n : sum[k] \in Nat}
  <2>1. 0 \in A  BY <1>1, <1>7
  <2>2. ASSUME NEW k \in 1..n, k - 1 \in A PROVE k \in A
    <3>1. sum[k - 1] \in Nat /\ widths[k] \in Nat /\ sum[k] = sum[k - 1] + widths[k]
      <4>1. sum[k - 1] \in Nat  BY <2>2
      <4> HIDE DEF A, Is
      <4> QED  BY <1>1, <1>7, <4>1
    <3>2. sum[k] \in Nat /\ k \in 0..n  BY <1>1, <3>1
    <3> QED  BY <3>2
  <2> HIDE DEF A, Is
  <2>3. \A k \in 0..n : k \in A  BY <1>1, <2>1, <2>2, Along
  <2> QED  BY <2>3 DEF A
<1> HIDE DEF Is
<1> DEFINE p == PrefixSums(start, widths)
<1>9. \A k \in 1..(n + 1) : p[k] = sum[k - 1] /\ sum[k - 1] \in Nat
  <2>1. \A k \in 1..(n + 1) : k - 1 \in 0..n  BY <1>1
  <2> QED  BY <1>6, <1>8, <2>1
<1>10. p \in [1..(n + 1) -> Nat] /\ n + 1 \in Nat  BY <1>1, <1>6, <1>9
<1> HIDE DEF p
<1>11. p \in Seq(Nat) /\ Len(p) = n + 1
  <2> DEFINE m == n + 1
  <2>1. m \in Nat /\ p \in [1..m -> Nat]  BY <1>10
  <2> HIDE DEF m
  <2>2. p \in Seq(Nat) /\ Len(p) = m  BY <2>1, FunctionIsSeq
  <2> QED  BY <2>2 DEF m
<1>12. p[1] = start
  <2>1. 1 \in 1..(n + 1) /\ 1 - 1 = 0  BY <1>1
  <2> QED  BY <1>7, <1>9, <2>1
<1>13. ASSUME NEW k \in 1..n PROVE p[k + 1] = p[k] + widths[k]
  <2>1. k \in 1..(n + 1) /\ k + 1 \in 1..(n + 1) /\ k + 1 - 1 = k  BY <1>1
  <2> QED  BY <1>7, <1>9, <2>1
<1>14. Last(p) = p[n + 1]  BY <1>11 DEF Last
<1>15. AreSums(p, start, n, widths)  BY <1>1, <1>9, <1>12, <1>13 DEF AreSums
<1> QED  BY <1>1, <1>11, <1>14, <1>15 DEF p, n

\* The sums do not decrease.
LEMMA SumsGrow ==
  ASSUME NEW n \in Nat, NEW w, NEW start, NEW sums, AreSums(sums, start, n, w),
         NEW i \in 1..n + 1, NEW j \in 1..n + 1, i <= j
  PROVE  sums[i] <= sums[j]
<1> DEFINE A == {k \in 0..n : i <= k + 1 => sums[i] <= sums[k + 1]}
<1>1. 0 \in A  BY DEF AreSums
<1>2. ASSUME NEW k \in 1..n, k - 1 \in A PROVE k \in A
  <2>1. k \in 1..n + 1 /\ k - 1 + 1 = k  OBVIOUS
  <2>2. sums[i] \in Nat /\ sums[k] \in Nat /\ w[k] \in Nat /\ sums[k + 1] = sums[k] + w[k]
    BY <2>1 DEF AreSums
  <2>3. i <= k => sums[i] <= sums[k]  BY <1>2, <2>1
  <2>4. i <= k + 1 => sums[i] <= sums[k + 1]  BY <2>2, <2>3
  <2> QED  BY <2>4
<1> HIDE DEF A
<1>3. \A k \in 0..n : k \in A  BY <1>1, <1>2, Along
<1>4. j - 1 \in 0..n /\ j - 1 + 1 = j  OBVIOUS
<1>5. j - 1 \in A  BY <1>3, <1>4
<1> QED  BY <1>4, <1>5 DEF A

\* Sums of the same widths differ by where they start.
LEMMA SumsAgree ==
  ASSUME NEW n \in Nat, NEW w, NEW x \in Nat, NEW p, AreSums(p, x, n, w),
         NEW y \in Nat, NEW q, AreSums(q, y, n, w)
  PROVE  \A k \in 1..n + 1 : p[k] + y = q[k] + x
<1> DEFINE A == {k \in 0..n : p[k + 1] + y = q[k + 1] + x}
<1>1. 0 \in A  BY DEF AreSums
<1>2. ASSUME NEW k \in 1..n, k - 1 \in A PROVE k \in A
  <2>1. k \in 1..n + 1 /\ k - 1 + 1 = k  OBVIOUS
  <2>2. p[k] + y = q[k] + x  BY <1>2, <2>1
  <2>3. p[k] \in Nat /\ q[k] \in Nat /\ w[k] \in Nat
        /\ p[k + 1] = p[k] + w[k] /\ q[k + 1] = q[k] + w[k]
    BY <2>1 DEF AreSums
  <2>4. p[k + 1] + y = q[k + 1] + x  BY <2>2, <2>3
  <2> QED  BY <2>4
<1> HIDE DEF A
<1>3. \A k \in 0..n : k \in A  BY <1>1, <1>2, Along
<1>4. ASSUME NEW k \in 1..n + 1 PROVE p[k] + y = q[k] + x
  <2>1. k - 1 \in 0..n /\ k - 1 + 1 = k  OBVIOUS
  <2>2. k - 1 \in A  BY <1>3, <2>1
  <2> QED  BY <2>1, <2>2 DEF A
<1> QED  BY <1>4

----------------------------------------------------------------------------
(* Sequences put behind one another.                                       *)

IsSeq(t) == t \in Seq({t[i] : i \in DOMAIN t})

\* A sequence over any set is one over its own members.
LEMMA SeqIs ==
  ASSUME NEW V, NEW t \in Seq(V)
  PROVE  IsSeq(t) /\ Len(t) \in Nat /\ DOMAIN t = 1..Len(t)
<1>1. Len(t) \in Nat /\ DOMAIN t = 1..Len(t)  BY LenProperties
<1>2. t \in [1..Len(t) -> {t[i] : i \in DOMAIN t}]  BY <1>1
<1>3. t \in Seq({t[i] : i \in DOMAIN t})  BY <1>1, <1>2, FunctionIsSeq
<1> QED  BY <1>1, <1>3 DEF IsSeq

\* Its length.
LEMMA SeqLength ==
  ASSUME NEW t, IsSeq(t)
  PROVE  Len(t) \in Nat /\ DOMAIN t = 1..Len(t)
  BY LenProperties DEF IsSeq

\* f is t with u behind it.
Joins(f, t, u) ==
  /\ IsSeq(f) /\ Len(f) = Len(t) + Len(u)
  /\ \A i \in 1..Len(t) : f[i] = t[i]
  /\ \A i \in 1..Len(u) : f[Len(t) + i] = u[i]

\* Two sequences behind one another.
LEMMA Joined ==
  ASSUME NEW t, NEW u, IsSeq(t), IsSeq(u)
  PROVE  Joins(t \o u, t, u)
<1> DEFINE V == {t[i] : i \in DOMAIN t} \cup {u[i] : i \in DOMAIN u}
<1>1. t \in Seq(V) /\ u \in Seq(V)  BY SeqMonotonic DEF IsSeq
<1>2. Len(t) \in Nat /\ Len(u) \in Nat  BY <1>1, LenProperties
<1> HIDE DEF V
<1>3. /\ t \o u \in Seq(V) /\ Len(t \o u) = Len(t) + Len(u)
      /\ \A i \in 1..Len(t) + Len(u) : (t \o u)[i] = IF i <= Len(t) THEN t[i] ELSE u[i - Len(t)]
  BY <1>1, ConcatProperties
<1>4. ASSUME NEW i \in 1..Len(t) PROVE (t \o u)[i] = t[i]
  <2>1. i \in 1..Len(t) + Len(u) /\ i <= Len(t)  BY <1>2
  <2> QED  BY <1>3, <2>1
<1>5. ASSUME NEW i \in 1..Len(u) PROVE (t \o u)[Len(t) + i] = u[i]
  <2> DEFINE k == Len(t) + i
  <2>1. k \in 1..Len(t) + Len(u) /\ ~(k <= Len(t)) /\ k - Len(t) = i  BY <1>2
  <2> HIDE DEF k
  <2>2. (t \o u)[k] = u[k - Len(t)]  BY <1>3, <2>1
  <2> QED  BY <2>1, <2>2 DEF k
<1>6. IsSeq(t \o u)  BY <1>3, SeqIs
<1> QED  BY <1>3, <1>4, <1>5, <1>6 DEF Joins

\* The lengths of sequences.
Lengths(n, ss) == [j \in 1..n |-> Len(ss[j])]

\* FlattenSeq puts every one where the lengths of those before it end.
LEMMA Flattened ==
  ASSUME NEW n \in Nat, NEW ss, IsSeq(ss), Len(ss) = n, \A j \in 1..n : IsSeq(ss[j]),
         NEW ends, AreSums(ends, 0, n, Lengths(n, ss))
  PROVE  /\ IsSeq(FlattenSeq(ss)) /\ Len(FlattenSeq(ss)) = ends[n + 1]
         /\ \A j \in 1..n : \A i \in 1..Len(ss[j]) : FlattenSeq(ss)[ends[j] + i] = ss[j][i]
<1>1. CASE n = 0
  <2>1. FlattenSeq(ss) = ss  BY <1>1 DEF FlattenSeq
  <2>2. ends[1] = 0  BY DEF AreSums
  <2> QED  BY <1>1, <2>1, <2>2
<1>2. CASE n # 0
  <2> DEFINE E == UNION {{ss[j][i] : i \in DOMAIN ss[j]} : j \in 1..n}
             Is(f) == f = [i \in 1..n |-> IF i = 1 THEN ss[i] ELSE f[i - 1] \o ss[i]]
             g == [x \in (1..n - 1) \X Seq(E) |-> x[2] \o ss[x[1] + 1]]
  <2>1. \A j \in 1..n : ss[j] \in Seq(E)
    <3> TAKE j \in 1..n
    <3> DEFINE R == {ss[j][i] : i \in DOMAIN ss[j]}
    <3>1. R \subseteq E  OBVIOUS
    <3>2. ss[j] \in Seq(R)  BY DEF IsSeq
    <3> HIDE DEF R, E
    <3> QED  BY <3>1, <3>2, SeqMonotonic
  <2> HIDE DEF E
  <2>2. n - 1 \in Nat  BY <1>2
  <2>3. ASSUME NEW k \in 1..n - 1, NEW v \in Seq(E)
        PROVE  g[<<k, v>>] = v \o ss[k + 1] /\ g[<<k, v>>] \in Seq(E)
    <3>1. k + 1 \in 1..n  BY <2>2
    <3>2. ss[k + 1] \in Seq(E)  BY <2>1, <3>1
    <3>3. v \o ss[k + 1] \in Seq(E)  BY <3>2, ConcatProperties
    <3>4. g[<<k, v>>] = v \o ss[k + 1]  OBVIOUS
    <3> QED  BY <3>3, <3>4
  <2>4. PICK e \in [0..n - 1 -> Seq(E)] : Follows(e, n - 1, ss[1], g)
    <3>1. ss[1] \in Seq(E)  BY <1>2, <2>1
    <3> DEFINE m == n - 1
               b == ss[1]
    <3> HIDE DEF g, m, b
    <3>2. m \in Nat /\ b \in Seq(E) /\ \A k \in 1..m, v \in Seq(E) : g[<<k, v>>] \in Seq(E)
      BY <2>2, <2>3, <3>1 DEF m, b
    <3>3. \E e \in [0..m -> Seq(E)] : Follows(e, m, b, g)  BY <3>2, Recursion
    <3> QED  BY <3>3 DEF m, b
  <2> DEFINE h == [i \in 1..n |-> e[i - 1]]
  <2>5. Is(h)
    <3>1. ASSUME NEW i \in 1..n, i # 1 PROVE h[i] = h[i - 1] \o ss[i]
      <4> DEFINE k == i - 1
      <4>1. k \in 1..n - 1 /\ k + 1 = i /\ i - 1 \in 1..n /\ k \in 0..n - 1 /\ k - 1 \in 0..n - 1  BY <3>1
      <4>2. h[i] = e[k] /\ h[i - 1] = e[k - 1]  BY <4>1
      <4> HIDE DEF k, h, g
      <4>3. e[k] = g[<<k, e[k - 1]>>]  BY <2>4, <4>1 DEF Follows
      <4>4. e[k - 1] \in Seq(E)  BY <4>1
      <4>5. e[k] = e[k - 1] \o ss[k + 1]  BY <2>3, <4>1, <4>3, <4>4
      <4> QED  BY <4>1, <4>2, <4>5
    <3>2. h[1] = ss[1]
      <4>1. h[1] = e[0]  BY <1>2
      <4> HIDE DEF h, g
      <4> QED  BY <2>4, <4>1 DEF Follows
    <3>3. h = [i \in 1..n |-> h[i]]  OBVIOUS
    <3> HIDE DEF h
    <3>4. \A i \in 1..n : h[i] = IF i = 1 THEN ss[i] ELSE h[i - 1] \o ss[i]  BY <3>1, <3>2
    <3> QED  BY <3>3, <3>4
  <2> HIDE DEF h, g
  <2> DEFINE f == CHOOSE c : Is(c)
  <2>6. Is(f)  BY <2>5
  <2>7. FlattenSeq(ss) = f[n]  BY <1>2 DEF FlattenSeq
  <2> HIDE DEF f
  <2>8. f[1] = ss[1] /\ \A i \in 1..n : i # 1 => f[i] = f[i - 1] \o ss[i]
    <3>1. 1 \in 1..n  BY <1>2
    <3> QED  BY <2>6, <3>1
  <2> HIDE DEF Is
  \* How far f has come at k.
  <2> DEFINE Sound(k) == /\ IsSeq(f[k]) /\ Len(f[k]) = ends[k + 1]
                         /\ \A j \in 1..k : \A i \in 1..Len(ss[j]) : f[k][ends[j] + i] = ss[j][i]
             A == {k \in 0..n : k = 0 \/ Sound(k)}
  <2>9. /\ ends[1] = 0 /\ \A k \in 1..n + 1 : ends[k] \in Nat
        /\ \A k \in 1..n : Len(ss[k]) \in Nat /\ ends[k + 1] = ends[k] + Len(ss[k])
    BY SeqLength DEF AreSums, Lengths
  <2>10. Sound(1)
    <3>1. 1 \in 1..n  BY <1>2
    <3>2. Len(f[1]) = ends[2]  BY <2>8, <2>9, <3>1
    <3>3. ASSUME NEW j \in 1..1, NEW i \in 1..Len(ss[j]) PROVE f[1][ends[j] + i] = ss[j][i]
      <4>1. j = 1 /\ ends[j] + i = i  BY <2>9, <3>1
      <4> QED  BY <2>8, <4>1
    <3> QED  BY <2>8, <3>1, <3>2, <3>3
  <2>11. ASSUME NEW k \in 1..n, k # 1, Sound(k - 1) PROVE Sound(k)
    <3> DEFINE t == f[k - 1]
               u == ss[k]
    <3>1. f[k] = t \o u  BY <2>8, <2>11
    <3>2. IsSeq(t) /\ Len(t) = ends[k]
      <4>1. k - 1 + 1 = k  OBVIOUS
      <4> QED  BY <2>11, <4>1
    <3>3. IsSeq(u)  OBVIOUS
    <3>4. \A j \in 1..k - 1 : \A i \in 1..Len(ss[j]) : t[ends[j] + i] = ss[j][i]  BY <2>11
    <3> HIDE DEF t, u, Sound
    <3>5. /\ IsSeq(f[k]) /\ Len(f[k]) = Len(t) + Len(u)
          /\ \A i \in 1..Len(t) : f[k][i] = t[i]
          /\ \A i \in 1..Len(u) : f[k][Len(t) + i] = u[i]
      <4>1. Joins(t \o u, t, u)  BY <3>2, <3>3, Joined
      <4>2. Joins(f[k], t, u)  BY <3>1, <4>1
      <4> QED  BY <4>2 DEF Joins
    <3>6. Len(f[k]) = ends[k + 1]  BY <2>9, <3>2, <3>5 DEF u
    <3>7. ASSUME NEW j \in 1..k, NEW i \in 1..Len(ss[j]) PROVE f[k][ends[j] + i] = ss[j][i]
      <4>1. CASE j = k  BY <3>2, <3>5, <4>1 DEF u
      <4>2. CASE j # k
        <5>1. j \in 1..k - 1 /\ j \in 1..n /\ j + 1 \in 1..n + 1 /\ k \in 1..n + 1 /\ j + 1 <= k  BY <4>2
        <5>2. ends[j + 1] <= ends[k]
          <6> DEFINE w == Lengths(n, ss)
          <6> HIDE DEF w
          <6>1. AreSums(ends, 0, n, w)  BY DEF w
          <6> QED  BY <5>1, <6>1, SumsGrow
        <5>3. ends[j] + i \in 1..Len(t)
          <6> DEFINE l == Len(ss[j])
          <6>1. l \in Nat /\ i \in 1..l /\ ends[j] \in Nat /\ ends[k] \in Nat /\ ends[j + 1] = ends[j] + l
            BY <2>9, <5>1
          <6>2. ends[j] + l <= ends[k]  BY <5>2, <6>1
          <6> HIDE DEF l
          <6>3. ends[j] + i \in 1..ends[k]  BY <6>1, <6>2, Between
          <6>4. 1..ends[k] \subseteq 1..Len(t)  BY <3>2, <6>1
          <6> QED  BY <6>3, <6>4
        <5>4. f[k][ends[j] + i] = t[ends[j] + i]  BY <3>5, <5>3
        <5> QED  BY <3>4, <5>1, <5>4
      <4> QED  BY <4>1, <4>2
    <3> QED  BY <3>5, <3>6, <3>7 DEF Sound
  <2>12. \A k \in 1..n : k - 1 \in A => k \in A
    <3> TAKE k \in 1..n
    <3> HIDE DEF Sound
    <3>1. CASE k = 1  BY <2>10, <3>1
    <3>2. CASE k # 1  BY <2>11, <3>2
    <3> QED  BY <3>1, <3>2
  <2> HIDE DEF Sound
  <2>13. 0 \in A  OBVIOUS
  <2> HIDE DEF A
  <2>14. \A k \in 0..n : k \in A  BY <2>12, <2>13, Along
  <2>15. Sound(n)  BY <1>2, <2>14 DEF A
  <2> QED  BY <2>7, <2>15 DEF Sound
<1> QED  BY <1>1, <1>2

\* Every place up to the end is within one of the widths.
LEMMA Covered ==
  ASSUME NEW n \in Nat, NEW w, NEW ends, AreSums(ends, 0, n, w)
  PROVE  \A x \in 1..ends[n + 1] : \E j \in 1..n : \E i \in 1..w[j] : x = ends[j] + i
<1> DEFINE Found(k) == \A x \in 1..ends[k + 1] : \E j \in 1..k : \E i \in 1..w[j] : x = ends[j] + i
           A == {k \in 0..n : Found(k)}
<1>1. 0 \in A  BY DEF AreSums
<1>2. ASSUME NEW k \in 1..n, k - 1 \in A PROVE k \in A
  <2>1. k \in 1..n + 1 /\ k - 1 + 1 = k  OBVIOUS
  <2>2. ends[k] \in Nat /\ w[k] \in Nat /\ ends[k + 1] = ends[k] + w[k]
    BY <2>1 DEF AreSums
  <2>3. \A x \in 1..ends[k] : \E j \in 1..k - 1 : \E i \in 1..w[j] : x = ends[j] + i
    BY <1>2, <2>1
  <2>4. ASSUME NEW x \in 1..ends[k + 1] PROVE \E j \in 1..k : \E i \in 1..w[j] : x = ends[j] + i
    <3>1. CASE x <= ends[k]
      <4>1. x \in 1..ends[k]  BY <2>2, <3>1
      <4>2. PICK j \in 1..k - 1 : \E i \in 1..w[j] : x = ends[j] + i  BY <2>3, <4>1
      <4>3. j \in 1..k  OBVIOUS
      <4> QED  BY <4>2, <4>3
    <3>2. CASE ~(x <= ends[k])
      <4> DEFINE i == x - ends[k]
      <4>1. i \in 1..w[k] /\ x = ends[k] + i  BY <2>2, <3>2
      <4>2. k \in 1..k  OBVIOUS
      <4> HIDE DEF i
      <4> QED  BY <4>1, <4>2
    <3> QED  BY <3>1, <3>2
  <2> QED  BY <2>4
<1> HIDE DEF A
<1>3. \A k \in 0..n : k \in A  BY <1>1, <1>2, Along
<1>4. n \in A  BY <1>3
<1> QED  BY <1>4 DEF A

----------------------------------------------------------------------------
(* What lies where in a sequence.                                          *)

\* f lies in s behind the first q elements.
Within(s, q, f) == \A i \in 1..Len(f) : s[q + i] = f[i]

FieldLies(s, q, cell, width) == s[q + 1] = cell /\ \A i \in 2..width : s[q + i] = Pad

\* A field of write_all: its value in the first cell, padding behind it.
LEMMA FieldIs ==
  ASSUME NEW cell, NEW width \in Nat \ {0}
  PROVE  /\ IsSeq(Field(cell, width)) /\ Len(Field(cell, width)) = width
         /\ \A s : \A q \in Nat : Within(s, q, Field(cell, width)) => FieldLies(s, q, cell, width)
<1> DEFINE t == <<cell>>
           u == [i \in 1..(width - 1) |-> Pad]
           f == Field(cell, width)
<1>1. IsSeq(t) /\ Len(t) = 1 /\ t[1] = cell
  <2>1. t \in Seq({cell})  OBVIOUS
  <2> QED  BY <2>1, SeqIs
<1>2. IsSeq(u) /\ Len(u) = width - 1 /\ \A i \in 1..(width - 1) : u[i] = Pad
  <2>1. width - 1 \in Nat /\ u \in [1..(width - 1) -> {Pad}]  OBVIOUS
  <2> HIDE DEF u
  <2>2. u \in Seq({Pad}) /\ Len(u) = width - 1  BY <2>1, FunctionIsSeq
  <2> QED  BY <2>1, <2>2, SeqIs
<1>3. Joins(f, t, u)
  <2> HIDE DEF t, u
  <2>1. Joins(t \o u, t, u)  BY <1>1, <1>2, Joined
  <2>2. f = t \o u  BY DEF Field, t, u
  <2> QED  BY <2>1, <2>2
<1> HIDE DEF t, u, f
<1>4. IsSeq(f) /\ Len(f) = width  BY <1>1, <1>2, <1>3 DEF Joins
<1>5. f[1] = cell  BY <1>1, <1>3 DEF Joins
<1>6. ASSUME NEW i \in 2..width PROVE f[i] = Pad
  <2>1. i - 1 \in 1..(width - 1) /\ 1 + (i - 1) = i  OBVIOUS
  <2>2. f[1 + (i - 1)] = u[i - 1]  BY <1>1, <1>2, <1>3, <2>1 DEF Joins
  <2> QED  BY <1>2, <2>1, <2>2
<1>7. ASSUME NEW s, NEW q \in Nat, Within(s, q, f) PROVE FieldLies(s, q, cell, width)
  <2>1. 1 \in 1..width /\ \A i \in 2..width : i \in 1..width  OBVIOUS
  <2> QED  BY <1>4, <1>5, <1>6, <1>7, <2>1 DEF Within, FieldLies
<1> QED  BY <1>4, <1>7 DEF f

\* What lies within two sequences behind one another lies in each of them.
LEMMA JoinMoves ==
  ASSUME NEW f, NEW t, NEW u, IsSeq(t), IsSeq(u), Joins(f, t, u), NEW s, NEW q \in Nat, Within(s, q, f)
  PROVE  Within(s, q, t) /\ Within(s, q + Len(t), u)
<1>1. Len(t) \in Nat /\ Len(u) \in Nat  BY SeqLength
<1>2. Len(f) = Len(t) + Len(u) /\ (\A i \in 1..Len(t) : f[i] = t[i])
      /\ \A i \in 1..Len(u) : f[Len(t) + i] = u[i]
  BY DEF Joins
<1> DEFINE m == Len(t)
           k == Len(u)
<1> HIDE DEF m, k
<1>3. ASSUME NEW i \in 1..m PROVE s[q + i] = t[i]
  <2>1. i \in 1..m + k  BY <1>1 DEF m, k
  <2> QED  BY <1>2, <2>1 DEF Within, m, k
<1>4. ASSUME NEW i \in 1..k PROVE s[q + m + i] = u[i]
  <2>1. m + i \in 1..m + k /\ q + (m + i) = q + m + i  BY <1>1 DEF m, k
  <2> QED  BY <1>2, <2>1 DEF Within, m, k
<1> QED  BY <1>3, <1>4 DEF Within, m, k

\* And so for any number of sequences.
LEMMA FlattenMoves ==
  ASSUME NEW n \in Nat, NEW ss, IsSeq(ss), Len(ss) = n, \A j \in 1..n : IsSeq(ss[j]),
         NEW ends, AreSums(ends, 0, n, Lengths(n, ss)),
         NEW s, NEW q \in Nat, Within(s, q, FlattenSeq(ss)), NEW j \in 1..n
  PROVE  Within(s, q + ends[j], ss[j])
<1> DEFINE f == FlattenSeq(ss)
           w == Lengths(n, ss)
<1>1. Len(f) = ends[n + 1] /\ \A i \in 1..Len(ss[j]) : f[ends[j] + i] = ss[j][i]  BY Flattened
<1>2. AreSums(ends, 0, n, w)  OBVIOUS
<1>3. w[j] = Len(ss[j]) /\ Len(ss[j]) \in Nat  BY SeqLength DEF Lengths
<1> HIDE DEF w, f
<1>4. j + 1 \in 1..n + 1 /\ n + 1 \in 1..n + 1 /\ j \in 1..n + 1 /\ j + 1 <= n + 1  OBVIOUS
<1>5. ends[j + 1] <= ends[n + 1]  BY <1>2, <1>4, SumsGrow
<1>6. ends[j] \in Nat /\ ends[n + 1] \in Nat /\ ends[j + 1] = ends[j] + w[j]  BY <1>2, <1>4 DEF AreSums
<1> DEFINE l == Len(ss[j])
<1> HIDE DEF l
<1>7. ASSUME NEW i \in 1..l PROVE s[q + ends[j] + i] = ss[j][i]
  <2>1. l \in Nat /\ ends[j + 1] = ends[j] + l  BY <1>3, <1>6 DEF l
  <2>2. ends[j] + i \in 1..ends[n + 1] /\ q + (ends[j] + i) = q + ends[j] + i
    <3>1. ends[j] + l <= ends[n + 1]  BY <1>5, <2>1
    <3>2. ends[j] + i \in 1..ends[n + 1]  BY <1>6, <2>1, <3>1, Between
    <3>3. i \in Nat  BY <2>1
    <3> QED  BY <1>6, <3>2, <3>3
  <2>3. s[q + (ends[j] + i)] = f[ends[j] + i]  BY <1>1, <2>2 DEF Within, f
  <2> QED  BY <1>1, <2>2, <2>3 DEF l
<1> QED  BY <1>7 DEF Within, l

----------------------------------------------------------------------------
(* Where write_file puts what.                                             *)

Usizes(e) == [j \in 1..Len(e.chunks) |-> e.chunks[j].usize]
Widths(e) == [j \in 1..Len(e.chunks) |-> ChunkHead + e.chunks[j].csize]
Ends(e) == PrefixSums(0, Widths(e))

DataLies(s, q, e, algo, j) ==
  LET c == e.chunks[j]
  IN  /\ algo = Stored => \A b \in 1..c.csize : s[q + b] = ByteCell(<<e.name, Bases(e)[j] + b>>)
      /\ algo # Stored /\ c.csize # 0 =>
           FieldLies(s, q, PackedCell(Slice(e.name, Bases(e)[j], c.usize)), c.csize)

ChunkLies(s, q, e, algo, j) ==
  /\ FieldLies(s, q, ChunkCell(e.chunks[j]), ChunkHead)
  /\ DataLies(s, q + ChunkHead, e, algo, j)

RecordOf(e) == RecordCell([name |-> e.name, nameLen |-> e.nameLen, stamp |-> e.stamp,
                           usz |-> SizeOf(e), chunks |-> e.chunks])

FileLies(s, q, e, algo) ==
  LET p == q + RecordHead(e.nameLen)
  IN  /\ FieldLies(s, q, RecordOf(e), RecordHead(e.nameLen))
      /\ \A j \in 1..Len(e.chunks) : ChunkLies(s, p + Ends(e)[j], e, algo, j)
      /\ FieldLies(s, p + Ends(e)[Len(e.chunks) + 1], CrcCell(Bytes(e.name, SizeOf(e))), CrcSize)

\* Where the chunks of an entry begin, in the record and in the file it came from.
LEMMA EntrySums ==
  ASSUME NEW algo, NEW e, EntryFits(algo, e)
  PROVE  /\ Len(e.chunks) \in Nat
         /\ \A j \in 1..Len(e.chunks) : e.chunks[j].csize \in Nat /\ e.chunks[j].usize \in Nat
         /\ AreSums(Bases(e), 0, Len(e.chunks), Usizes(e))
         /\ AreSums(Ends(e), 0, Len(e.chunks), Widths(e))
         /\ SizeOf(e) = Bases(e)[Len(e.chunks) + 1]
         /\ Total(Widths(e)) = Ends(e)[Len(e.chunks) + 1]
<1> DEFINE m == Len(e.chunks)
<1>1. m \in Nat /\ DOMAIN e.chunks = 1..m  BY LenProperties DEF EntryFits
<1>2. \A j \in 1..m : e.chunks[j].csize \in Nat /\ e.chunks[j].usize \in Nat
  BY <1>1 DEF EntryFits, ChunkFits
<1>3. Usizes(e) \in [1..m -> Nat] /\ Widths(e) \in [1..m -> Nat]
  BY <1>2 DEF Usizes, Widths, ChunkHead
<1> DEFINE u == Usizes(e)
           w == Widths(e)
<1>4. u \in Seq(Nat) /\ Len(u) = m /\ w \in Seq(Nat) /\ Len(w) = m
  <2> HIDE DEF m, u, w
  <2> QED  BY <1>1, <1>3, FunctionIsSeq DEF u, w
<1>5. Bases(e) = PrefixSums(0, u)  BY DEF Bases, Usizes
<1> HIDE DEF u, w, m
<1>6. AreSums(Bases(e), 0, m, u) /\ Last(Bases(e)) = Bases(e)[m + 1]  BY <1>4, <1>5, SumsAre
<1>7. AreSums(Ends(e), 0, m, w) /\ Last(Ends(e)) = Ends(e)[m + 1]  BY <1>4, SumsAre DEF Ends, w
<1> QED  BY <1>1, <1>2, <1>6, <1>7 DEF m, u, w, SizeOf, Total, Ends

\* SerializedFileSize is what the record comes to.
LEMMA SizeOfRecord ==
  ASSUME NEW algo, NEW e, EntryFits(algo, e)
  PROVE  /\ SerializedFileSize(e) = RecordHead(e.nameLen) + Ends(e)[Len(e.chunks) + 1] + CrcSize
         /\ Ends(e)[Len(e.chunks) + 1] \in Nat /\ RecordHead(e.nameLen) \in Nat \ {0} /\ e.nameLen \in Nat
<1>1. e.nameLen \in Nat  BY DEF EntryFits
<1>2. Len(e.chunks) \in Nat /\ Total(Widths(e)) = Ends(e)[Len(e.chunks) + 1]
      /\ AreSums(Ends(e), 0, Len(e.chunks), Widths(e))
  BY EntrySums
<1>3. Ends(e)[Len(e.chunks) + 1] \in Nat  BY <1>2 DEF AreSums
<1>4. SerializedFileSize(e) = 1 + e.nameLen + (1 + 4 + 4 + 2 + 4) + Total(Widths(e))
  BY DEF SerializedFileSize, Widths, ChunkHead
<1> DEFINE x == e.nameLen
           y == Ends(e)[Len(e.chunks) + 1]
           z == SerializedFileSize(e)
           h == RecordHead(e.nameLen)
<1>5. x \in Nat /\ y \in Nat /\ z = 1 + x + (1 + 4 + 4 + 2 + 4) + y /\ h = 1 + x + 1 + 4 + 4 + 2
  BY <1>1, <1>2, <1>3, <1>4 DEF RecordHead
<1> HIDE DEF x, y, z, h
<1>6. z = h + y + 4 /\ h \in Nat \ {0}  BY <1>5
<1> QED  BY <1>5, <1>6 DEF x, y, z, h, CrcSize

\* The packed data of a chunk is as long as its csize says.
LEMMA ChunkDataIs ==
  ASSUME NEW algo, NEW e, EntryFits(algo, e), NEW j \in 1..Len(e.chunks)
  PROVE  /\ IsSeq(ChunkData(e, algo, j)) /\ Len(ChunkData(e, algo, j)) = e.chunks[j].csize
         /\ \A s : \A q \in Nat : Within(s, q, ChunkData(e, algo, j)) => DataLies(s, q, e, algo, j)
<1> DEFINE c == e.chunks[j]
           d == ChunkData(e, algo, j)
           plain == Slice(e.name, Bases(e)[j], c.usize)
<1>1. c.csize \in Nat /\ c.usize \in Nat  BY EntrySums
<1>2. CASE algo = Stored
  <2>1. c.csize = c.usize
    <3>1. j \in DOMAIN e.chunks  BY LenProperties DEF EntryFits
    <3> QED  BY <1>2, <3>1 DEF EntryFits, ChunkFits
  <2> DEFINE V == {ByteCell(plain[i]) : i \in 1..c.csize}
  <2>2. d = [i \in 1..c.csize |-> ByteCell(plain[i])]  BY <1>2 DEF ChunkData
  <2>3. d \in [1..c.csize -> V]  BY <2>2
  <2>4. \A i \in 1..c.csize : plain[i] = <<e.name, Bases(e)[j] + i>>  BY <2>1 DEF Slice
  <2>5. \A i \in 1..c.csize : d[i] = ByteCell(<<e.name, Bases(e)[j] + i>>)  BY <2>2, <2>4
  <2> HIDE DEF d, V
  <2>6. d \in Seq(V) /\ Len(d) = c.csize  BY <1>1, <2>3, FunctionIsSeq
  <2>7. IsSeq(d)  BY <2>6, SeqIs
  <2>8. ASSUME NEW s, NEW q \in Nat, Within(s, q, d) PROVE DataLies(s, q, e, algo, j)
    BY <1>2, <2>5, <2>6, <2>8 DEF Within, DataLies
  <2> QED  BY <2>6, <2>7, <2>8 DEF d
<1>3. CASE algo # Stored /\ c.csize = 0
  <2>1. d = <<>>  BY <1>3 DEF ChunkData
  <2>2. IsSeq(d) /\ Len(d) = 0  BY <2>1 DEF IsSeq
  <2>3. \A s : \A q \in Nat : DataLies(s, q, e, algo, j)  BY <1>3 DEF DataLies
  <2> QED  BY <1>3, <2>2, <2>3
<1>4. CASE algo # Stored /\ c.csize # 0
  <2>1. d = Field(PackedCell(plain), c.csize)  BY <1>4 DEF ChunkData
  <2>2. c.csize \in Nat \ {0}  BY <1>1, <1>4
  <2> HIDE DEF d, plain
  <2>3. IsSeq(d) /\ Len(d) = c.csize /\ \A s : \A q \in Nat : Within(s, q, d) => FieldLies(s, q, PackedCell(plain), c.csize)
    BY <2>1, <2>2, FieldIs
  <2> QED  BY <1>4, <2>3 DEF DataLies, d, plain
<1> QED  BY <1>2, <1>3, <1>4

\* A chunk with its two sizes before the data.
LEMMA ChunkBytesAre ==
  ASSUME NEW algo, NEW e, EntryFits(algo, e), NEW j \in 1..Len(e.chunks)
  PROVE  /\ IsSeq(ChunkBytes(e, algo, j)) /\ Len(ChunkBytes(e, algo, j)) = ChunkHead + e.chunks[j].csize
         /\ \A s : \A q \in Nat : Within(s, q, ChunkBytes(e, algo, j)) => ChunkLies(s, q, e, algo, j)
<1> DEFINE h == Field(ChunkCell(e.chunks[j]), ChunkHead)
           d == ChunkData(e, algo, j)
           f == ChunkBytes(e, algo, j)
<1>1. ChunkHead \in Nat \ {0}  BY DEF ChunkHead
<1>2. IsSeq(h) /\ Len(h) = ChunkHead
      /\ \A s : \A q \in Nat : Within(s, q, h) => FieldLies(s, q, ChunkCell(e.chunks[j]), ChunkHead)
  BY <1>1, FieldIs
<1>3. IsSeq(d) /\ Len(d) = e.chunks[j].csize
      /\ \A s : \A q \in Nat : Within(s, q, d) => DataLies(s, q, e, algo, j)
  BY ChunkDataIs
<1>4. f = h \o d  BY DEF ChunkBytes
<1> HIDE DEF h, d, f
<1>5. Joins(f, h, d)  BY <1>2, <1>3, <1>4, Joined
<1>6. IsSeq(f) /\ Len(f) = ChunkHead + e.chunks[j].csize  BY <1>2, <1>3, <1>5 DEF Joins
<1>7. ASSUME NEW s, NEW q \in Nat, Within(s, q, f) PROVE ChunkLies(s, q, e, algo, j)
  <2>1. Within(s, q, h) /\ Within(s, q + ChunkHead, d)  BY <1>2, <1>3, <1>5, <1>7, JoinMoves
  <2>2. q + ChunkHead \in Nat  BY <1>1
  <2> QED  BY <1>2, <1>3, <2>1, <2>2 DEF ChunkLies
<1> QED  BY <1>6, <1>7 DEF f

\* write_file.
LEMMA WriteFileIs ==
  ASSUME NEW algo, NEW e, EntryFits(algo, e)
  PROVE  /\ IsSeq(WriteFile(e, algo)) /\ Len(WriteFile(e, algo)) = SerializedFileSize(e)
         /\ \A s : \A q \in Nat : Within(s, q, WriteFile(e, algo)) => FileLies(s, q, e, algo)
<1> DEFINE m == Len(e.chunks)
           n == RecordHead(e.nameLen)
           crc == CrcCell(Bytes(e.name, SizeOf(e)))
           r == Field(RecordOf(e), n)
           ss == [j \in 1..m |-> ChunkBytes(e, algo, j)]
           cs == FlattenSeq(ss)
           t == Field(crc, CrcSize)
           f == WriteFile(e, algo)
           ends == Ends(e)
<1>1. m \in Nat /\ AreSums(ends, 0, m, Widths(e))  BY EntrySums
<1>2. n \in Nat \ {0} /\ CrcSize \in Nat \ {0} /\ SerializedFileSize(e) = n + ends[m + 1] + CrcSize
      /\ ends[m + 1] \in Nat
  BY SizeOfRecord DEF CrcSize
<1>3. IsSeq(r) /\ Len(r) = n /\ \A s : \A q \in Nat : Within(s, q, r) => FieldLies(s, q, RecordOf(e), n)
  BY <1>2, FieldIs
<1>4. IsSeq(t) /\ Len(t) = CrcSize /\ \A s : \A q \in Nat : Within(s, q, t) => FieldLies(s, q, crc, CrcSize)
  BY <1>2, FieldIs
<1>5. \A j \in 1..m : ss[j] = ChunkBytes(e, algo, j)  OBVIOUS
<1>6. IsSeq(ss) /\ Len(ss) = m
  <2> DEFINE V == {ChunkBytes(e, algo, j) : j \in 1..m}
  <2>1. ss \in [1..m -> V]  OBVIOUS
  <2> HIDE DEF ss, V, m
  <2>2. ss \in Seq(V) /\ Len(ss) = m  BY <1>1, <2>1, FunctionIsSeq
  <2> QED  BY <2>2, SeqIs
<1>7. f = r \o cs \o t  BY DEF WriteFile, RecordOf
<1>8. \A j \in 1..m : IsSeq(ss[j]) /\ Len(ss[j]) = Widths(e)[j]
  <2>1. ASSUME NEW j \in 1..m PROVE IsSeq(ss[j]) /\ Len(ss[j]) = Widths(e)[j]
    <3>1. ss[j] = ChunkBytes(e, algo, j)  OBVIOUS
    <3>2. Widths(e)[j] = ChunkHead + e.chunks[j].csize  BY DEF Widths
    <3> QED  BY <3>1, <3>2, ChunkBytesAre
  <2> QED  BY <2>1
<1>9. Lengths(m, ss) = Widths(e)
  <2>1. Widths(e) = [j \in 1..m |-> Widths(e)[j]]  BY DEF Widths
  <2> HIDE DEF ss, m
  <2> QED  BY <1>8, <2>1 DEF Lengths
<1> HIDE DEF m, n, crc, r, ss, cs, t, f, ends
<1>10. AreSums(ends, 0, m, Lengths(m, ss))  BY <1>1, <1>9
<1>11. IsSeq(cs) /\ Len(cs) = ends[m + 1]  BY <1>1, <1>6, <1>8, <1>10, Flattened DEF cs
<1>12. Joins(r \o cs, r, cs) /\ IsSeq(r \o cs) /\ Len(r \o cs) = n + ends[m + 1]
  <2>1. Joins(r \o cs, r, cs)  BY <1>3, <1>11, Joined
  <2> QED  BY <1>3, <1>11, <2>1 DEF Joins
<1>13. Joins(f, r \o cs, t)  BY <1>4, <1>7, <1>12, Joined
<1>14. IsSeq(f) /\ Len(f) = SerializedFileSize(e)  BY <1>2, <1>4, <1>12, <1>13 DEF Joins
<1>15. ASSUME NEW s, NEW q \in Nat, Within(s, q, f) PROVE FileLies(s, q, e, algo)
  <2>1. Within(s, q, r \o cs) /\ Within(s, q + (n + ends[m + 1]), t)
    <3>1. Within(s, q, r \o cs) /\ Within(s, q + Len(r \o cs), t)  BY <1>4, <1>12, <1>13, <1>15, JoinMoves
    <3> QED  BY <1>12, <3>1
  <2>2. Within(s, q, r) /\ Within(s, q + n, cs)
    <3>1. Within(s, q, r) /\ Within(s, q + Len(r), cs)  BY <1>3, <1>11, <1>12, <2>1, JoinMoves
    <3> QED  BY <1>3, <3>1
  <2>3. q + n \in Nat /\ q + (n + ends[m + 1]) = q + n + ends[m + 1] /\ q + n + ends[m + 1] \in Nat  BY <1>2
  <2>4. ASSUME NEW j \in 1..m PROVE ChunkLies(s, q + n + ends[j], e, algo, j)
    <3>1. Within(s, q + n + ends[j], ss[j])
      BY <1>1, <1>6, <1>8, <1>10, <2>2, <2>3, FlattenMoves DEF cs
    <3>2. j \in 1..m + 1  BY <1>1
    <3>3. q + n + ends[j] \in Nat  BY <1>1, <2>3, <3>2 DEF AreSums
    <3> QED  BY <1>5, <3>1, <3>3, ChunkBytesAre DEF m
  <2>5. FieldLies(s, q, RecordOf(e), n)  BY <1>3, <2>2
  <2>6. FieldLies(s, q + n + ends[m + 1], crc, CrcSize)  BY <1>4, <2>1, <2>3
  <2> QED  BY <2>4, <2>5, <2>6 DEF FileLies, m, n, crc, ends
<1> QED  BY <1>14, <1>15 DEF f

----------------------------------------------------------------------------
(* What the builders make.                                                 *)

\* How many pieces of c bytes n bytes make.
LEMMA Pieces ==
  ASSUME NEW n \in Nat \ {0}, NEW c \in Nat \ {0}
  PROVE  LET m == (n + c - 1) \div c
         IN  m \in Nat \ {0} /\ (m - 1) * c < n /\ n <= m * c
<1> DEFINE m == (n + c - 1) \div c
           r == (n + c - 1) % c
<1>1. m \in Int /\ r \in 0..c - 1 /\ n + c - 1 = m * c + r  OBVIOUS
<1> HIDE DEF m, r
<1>2. (m - 1) * c = m * c - c  BY <1>1
<1>3. (m - 1) * c < n /\ n <= m * c  BY <1>1, <1>2
<1>4. m > 0
  <2> SUFFICES ASSUME m <= 0 PROVE FALSE  BY <1>1
  <2>1. m * c <= 0  BY <1>1
  <2> QED  BY <1>1, <1>3, <2>1
<1>5. m \in Nat \ {0}  BY <1>1, <1>4
<1> QED  BY <1>3, <1>5 DEF m

\* Whatever file build_stored_entry and its siblings accept, at any chunk size and with any
\* compressor that makes something of something: the chunks fit, and they are the file.
THEOREM BuildersKeepTheLimits ==
  ASSUME NEW algo \in Algorithms, NEW n \in Nat, NEW size, NEW packed,
         \A u \in 1..size : packed[u] \in Nat \ {0},
         NEW e, e.chunks = BuildChunks(algo, n, size, packed), e.nameLen \in Nat, e.stamp \in Nat,
         EntryAccepted(algo, size, e.chunks)
  PROVE  EntryFits(algo, e) /\ SizeOf(e) = n
<1> DEFINE chunks == e.chunks
           m == (n + size - 1) \div size
           cut(j) == IF n - (j - 1) * size < size THEN n - (j - 1) * size ELSE size
<1>1. size \in Nat \ {0} /\ size <= MaxInput[algo] /\ MaxInput[algo] \in Nat
  BY CeilingsMatch DEF EntryAccepted
<1>2. algo # Stored => \A j \in DOMAIN chunks : chunks[j].csize <= MaxPacked[algo]
  BY DEF EntryAccepted
<1>3. CASE n = 0
  <2>1. chunks = <<[csize |-> 0, usize |-> 0]>>  BY <1>3 DEF BuildChunks
  <2>2. /\ IsSeq(chunks) /\ Len(chunks) = 1 /\ DOMAIN chunks = 1..1
        /\ chunks[1].csize = 0 /\ chunks[1].usize = 0
    <3> DEFINE c == [csize |-> 0, usize |-> 0]
    <3>1. c.csize = 0 /\ c.usize = 0  OBVIOUS
    <3> HIDE DEF c
    <3>2. chunks \in Seq({c}) /\ Len(chunks) = 1 /\ DOMAIN chunks = 1..1 /\ chunks[1] = c  BY <2>1 DEF c
    <3>3. IsSeq(chunks)  BY <3>2, SeqIs
    <3> QED  BY <3>1, <3>2, <3>3
  <2>3. 0 <= MaxPacked[algo] /\ 0 <= MaxInput[algo]  BY CeilingsMatch
  <2>4. EntryFits(algo, e)
    <3>1. ChunkFits(algo, chunks[1])
      <4> DEFINE c == chunks[1]
      <4>1. c.csize = 0 /\ c.usize = 0  BY <2>2
      <4> HIDE DEF c
      <4> QED  BY <2>3, <4>1 DEF ChunkFits, c
    <3>2. \A j \in DOMAIN chunks : j = 1  BY <2>2
    <3> QED  BY <2>2, <3>1, <3>2 DEF EntryFits, IsSeq
  <2>5. SizeOf(e) = 0
    <3>1. AreSums(Bases(e), 0, 1, Usizes(e)) /\ SizeOf(e) = Bases(e)[1 + 1]  BY <2>2, <2>4, EntrySums
    <3>2. Usizes(e)[1] = 0  BY <2>2 DEF Usizes
    <3> QED  BY <3>1, <3>2 DEF AreSums
  <2> QED  BY <1>3, <2>4, <2>5
<1>4. CASE n # 0
  <2>1. m \in Nat \ {0} /\ (m - 1) * size < n /\ n <= m * size  BY <1>1, <1>4, Pieces
  <2>2. chunks = [j \in 1..m |-> [csize |-> IF algo = Stored THEN cut(j) ELSE packed[cut(j)],
                                  usize |-> cut(j)]]
    BY <1>4 DEF BuildChunks
  <2> HIDE DEF m
  <2>3. ASSUME NEW j \in 1..m
        PROVE  /\ cut(j) \in 1..size
               /\ cut(j) = IF j = m THEN n - (m - 1) * size ELSE size
    <3>1. (j - 1) * size <= (m - 1) * size  BY <1>1, <2>1
    <3>2. CASE j = m
      <4>1. m * size = (m - 1) * size + size  BY <1>1, <2>1
      <4>2. n - (m - 1) * size <= size  BY <1>1, <2>1, <4>1
      <4> QED  BY <1>1, <2>1, <3>2, <4>2
    <3>3. CASE j # m
      <4>1. j * size <= (m - 1) * size  BY <1>1, <2>1, <3>3
      <4>2. j * size = (j - 1) * size + size  BY <1>1
      <4>3. n - (j - 1) * size >= size  BY <1>1, <2>1, <4>1, <4>2
      <4> QED  BY <1>1, <3>3, <4>3
    <3> QED  BY <3>2, <3>3
  <2> HIDE DEF cut
  <2>4. ASSUME NEW j \in 1..m
        PROVE  /\ chunks[j].usize = cut(j)
               /\ chunks[j].csize = IF algo = Stored THEN cut(j) ELSE packed[cut(j)]
    BY <2>2
  <2> HIDE DEF chunks
  <2>5. IsSeq(chunks) /\ Len(chunks) = m /\ DOMAIN chunks = 1..m
    <3> DEFINE V == {chunks[j] : j \in 1..m}
    <3>1. chunks \in [1..m -> V]  BY <2>2
    <3> HIDE DEF V
    <3>2. chunks \in Seq(V) /\ Len(chunks) = m  BY <2>1, <3>1, FunctionIsSeq
    <3> QED  BY <3>2, SeqIs
  <2>6. EntryFits(algo, e)
    <3>1. ASSUME NEW j \in 1..m PROVE ChunkFits(algo, chunks[j])
      <4>1. cut(j) \in 1..size  BY <2>3
      <4>2. cut(j) \in Nat \ {0} /\ cut(j) <= MaxInput[algo]  BY <1>1, <4>1
      <4>3. CASE algo = Stored
        <5>1. chunks[j].usize = cut(j) /\ chunks[j].csize = cut(j)  BY <2>4, <4>3
        <5> QED  BY <4>2, <4>3, <5>1 DEF ChunkFits
      <4>4. CASE algo # Stored
        <5>1. chunks[j].usize = cut(j) /\ chunks[j].csize = packed[cut(j)]  BY <2>4, <4>4
        <5>2. chunks[j].csize \in Nat \ {0}  BY <4>1, <5>1
        <5>3. chunks[j].csize <= MaxPacked[algo]  BY <1>2, <2>5, <4>4
        <5> QED  BY <4>2, <4>4, <5>1, <5>2, <5>3 DEF ChunkFits
      <4> QED  BY <4>3, <4>4
    <3> QED  BY <2>5, <3>1 DEF EntryFits, IsSeq, chunks
  <2>7. SizeOf(e) = n
    <3>1. AreSums(Bases(e), 0, m, Usizes(e)) /\ SizeOf(e) = Bases(e)[m + 1]
      BY <2>5, <2>6, EntrySums DEF chunks
    <3>2. \A j \in 1..m : Usizes(e)[j] = cut(j)  BY <2>4, <2>5 DEF Usizes, chunks
    <3> DEFINE b == Bases(e)
               Full == {k \in 0..m : k < m => b[k + 1] = k * size}
    <3>3. b[1] = 0 /\ \A j \in 1..m : b[j] \in Nat /\ b[j + 1] = b[j] + cut(j)
      BY <3>1, <3>2, <2>1 DEF AreSums
    <3> HIDE DEF b
    <3>4. 0 \in Full  BY <1>1, <2>1, <3>3
    <3>5. ASSUME NEW k \in 1..m, k - 1 \in Full PROVE k \in Full
      <4>1. k - 1 < m /\ k - 1 + 1 = k  BY <2>1
      <4>2. b[k] = (k - 1) * size  BY <3>5, <4>1
      <4>3. k < m => cut(k) = size  BY <2>3
      <4>4. k * size = (k - 1) * size + size  BY <1>1
      <4>5. b[k + 1] = b[k] + cut(k)  BY <3>3
      <4>6. k < m => b[k + 1] = k * size  BY <4>2, <4>3, <4>4, <4>5
      <4> QED  BY <2>1, <4>6
    <3> HIDE DEF Full
    <3>6. \A k \in 0..m : k \in Full  BY <2>1, <3>4, <3>5, Along
    <3>7. b[m] = (m - 1) * size
      <4>1. m - 1 \in 0..m /\ m - 1 < m /\ m - 1 + 1 = m  BY <2>1
      <4> QED  BY <3>6, <4>1 DEF Full
    <3>8. cut(m) = n - (m - 1) * size /\ b[m + 1] = b[m] + cut(m)  BY <2>1, <2>3, <3>3
    <3> DEFINE x == (m - 1) * size
    <3>9. x \in Int  BY <1>1, <2>1
    <3> HIDE DEF x
    <3>10. b[m + 1] = n  BY <3>7, <3>8, <3>9 DEF x
    <3> QED  BY <3>1, <3>10 DEF b
  <2> QED  BY <2>6, <2>7
<1> QED  BY <1>3, <1>4

----------------------------------------------------------------------------
(* Where Archive::write and write_sfx put what.                            *)

Records(a) == PrefixSums(HeaderSize, FileSizes(a))
HeaderOf(a) == HeaderCell(a.algo, a.command > 0, Len(a.entries),
                          IF a.command > 0 THEN RunAfterOffset(a) ELSE 0, CompressedTotal(a))

\* The archive a from place q on.
ArchiveLies(s, q, a) ==
  LET n == Len(a.entries)
  IN  /\ FieldLies(s, q, HeaderOf(a), HeaderSize)
      /\ \A i \in 1..n : FileLies(s, q + Records(a)[i], a.entries[i], a.algo)
      /\ a.command # 0 => FieldLies(s, q + Records(a)[n + 1], CommandCell, a.command)

ArchiveLength(a) == Records(a)[Len(a.entries) + 1] + a.command

\* Where the records of an archive begin; RunAfterOffset is where the last one ends.
LEMMA FileSums ==
  ASSUME NEW a, Fits(a)
  PROVE  /\ Len(a.entries) \in Nat /\ a.command \in Nat
         /\ \A i \in 1..Len(a.entries) : EntryFits(a.algo, a.entries[i])
         /\ AreSums(Records(a), HeaderSize, Len(a.entries), FileSizes(a))
         /\ AreSums(PrefixSums(0, FileSizes(a)), 0, Len(a.entries), FileSizes(a))
         /\ Total(FileSizes(a)) = PrefixSums(0, FileSizes(a))[Len(a.entries) + 1]
         /\ RunAfterOffset(a) = Records(a)[Len(a.entries) + 1]
         /\ HeaderSize \in Nat \ {0} /\ ArchiveLength(a) \in Nat
<1> DEFINE n == Len(a.entries)
           w == FileSizes(a)
<1>1. n \in Nat /\ DOMAIN a.entries = 1..n  BY LenProperties DEF Fits
<1>2. \A i \in 1..n : EntryFits(a.algo, a.entries[i])  BY <1>1 DEF Fits
<1>3. ASSUME NEW i \in 1..n PROVE SerializedFileSize(a.entries[i]) \in Nat
  <2> DEFINE e == a.entries[i]
             x == RecordHead(e.nameLen)
             y == Ends(e)[Len(e.chunks) + 1]
             z == SerializedFileSize(e)
  <2>1. EntryFits(a.algo, e)  BY <1>2
  <2>2. z = x + y + CrcSize /\ x \in Nat /\ y \in Nat  BY <2>1, SizeOfRecord
  <2> HIDE DEF x, y, z
  <2>3. z \in Nat  BY <2>2 DEF CrcSize
  <2> QED  BY <2>3 DEF z
<1>4. w \in [1..n -> Nat]  BY <1>3 DEF FileSizes
<1> HIDE DEF n, w
<1>5. w \in Seq(Nat) /\ Len(w) = n  BY <1>1, <1>4, FunctionIsSeq
<1>6. HeaderSize \in Nat \ {0} /\ 0 \in Nat  BY DEF HeaderSize
<1>7. AreSums(PrefixSums(HeaderSize, w), HeaderSize, n, w)  BY <1>5, <1>6, SumsAre
<1>8. AreSums(PrefixSums(0, w), 0, n, w) /\ Last(PrefixSums(0, w)) = PrefixSums(0, w)[n + 1]
  BY <1>5, <1>6, SumsAre
<1> DEFINE p == PrefixSums(HeaderSize, w)
           q == PrefixSums(0, w)
<1> HIDE DEF p, q
<1>9. p[n + 1] + 0 = q[n + 1] + HeaderSize
  <2>1. AreSums(p, HeaderSize, n, w) /\ AreSums(q, 0, n, w) /\ n + 1 \in 1..n + 1
    BY <1>1, <1>7, <1>8 DEF p, q
  <2>2. \A k \in 1..n + 1 : p[k] + 0 = q[k] + HeaderSize  BY <1>1, <1>6, <2>1, SumsAgree
  <2> QED  BY <2>1, <2>2
<1>10. p[n + 1] \in Nat /\ q[n + 1] \in Nat
  BY <1>1, <1>7, <1>8 DEF p, q, AreSums
<1>11. p[n + 1] = HeaderSize + q[n + 1]  BY <1>6, <1>9, <1>10
<1>12. RunAfterOffset(a) = Records(a)[n + 1]
  BY <1>8, <1>11 DEF RunAfterOffset, Total, Records, p, q, w
<1>13. a.command \in Nat  BY DEF Fits
<1>14. ArchiveLength(a) \in Nat
  <2>1. ArchiveLength(a) = p[n + 1] + a.command  BY DEF ArchiveLength, Records, p, w, n
  <2> QED  BY <1>10, <1>13, <2>1
<1> QED  BY <1>1, <1>2, <1>6, <1>7, <1>8, <1>12, <1>13, <1>14 DEF Records, Total, n, w

\* Archive::write.
LEMMA WriteArchiveIs ==
  ASSUME NEW a, Fits(a)
  PROVE  /\ IsSeq(WriteArchive(a)) /\ Len(WriteArchive(a)) = ArchiveLength(a)
         /\ \A s : \A q \in Nat : Within(s, q, WriteArchive(a)) => ArchiveLies(s, q, a)
<1> DEFINE n == Len(a.entries)
           w == FileSizes(a)
           ends == PrefixSums(0, w)
           rec == Records(a)
           h == HeaderBytes(a)
           ss == [i \in 1..n |-> WriteFile(a.entries[i], a.algo)]
           fs == FlattenSeq(ss)
           c == IF a.command > 0 THEN Field(CommandCell, a.command) ELSE <<>>
           f == WriteArchive(a)
<1>1. n \in Nat /\ AreSums(rec, HeaderSize, n, w) /\ AreSums(ends, 0, n, w)
      /\ HeaderSize \in Nat \ {0} /\ a.command \in Nat
  BY FileSums
<1>2. IsSeq(h) /\ Len(h) = HeaderSize
      /\ \A s : \A q \in Nat : Within(s, q, h) => FieldLies(s, q, HeaderOf(a), HeaderSize)
  <2>1. h = Field(HeaderOf(a), HeaderSize)  BY DEF HeaderBytes, HeaderOf
  <2> HIDE DEF h
  <2> QED  BY <1>1, <2>1, FieldIs
<1>3. \A i \in 1..n : EntryFits(a.algo, a.entries[i]) /\ ss[i] = WriteFile(a.entries[i], a.algo)
  BY FileSums
<1>4. IsSeq(ss) /\ Len(ss) = n
  <2> DEFINE V == {WriteFile(a.entries[i], a.algo) : i \in 1..n}
  <2>1. ss \in [1..n -> V]  OBVIOUS
  <2> HIDE DEF ss, V, n
  <2>2. ss \in Seq(V) /\ Len(ss) = n  BY <1>1, <2>1, FunctionIsSeq
  <2> QED  BY <2>2, SeqIs
<1>5. \A i \in 1..n : IsSeq(ss[i]) /\ Len(ss[i]) = w[i]
  <2>1. \A i \in 1..n : w[i] = SerializedFileSize(a.entries[i])  BY DEF FileSizes
  <2> HIDE DEF ss, w, n
  <2> QED  BY <1>3, <2>1, WriteFileIs
<1>6. Lengths(n, ss) = w
  <2>1. w = [i \in 1..n |-> w[i]]  BY DEF FileSizes
  <2> HIDE DEF ss, n, w
  <2> QED  BY <1>5, <2>1 DEF Lengths
<1>7. f = h \o fs \o c  BY DEF WriteArchive
<1>8. IsSeq(c) /\ Len(c) = a.command
      /\ \A s : \A q \in Nat : Within(s, q, c) => (a.command # 0 => FieldLies(s, q, CommandCell, a.command))
  <2>1. CASE a.command = 0
    <3>1. c = <<>>  BY <2>1
    <3>2. IsSeq(<<>>) /\ Len(<<>>) = 0  BY EmptySeq DEF IsSeq
    <3> HIDE DEF c
    <3>3. IsSeq(c) /\ Len(c) = 0  BY <3>1, <3>2
    <3> QED  BY <2>1, <3>3
  <2>2. CASE a.command # 0
    <3>1. c = Field(CommandCell, a.command) /\ a.command \in Nat \ {0}  BY <1>1, <2>2
    <3> HIDE DEF c
    <3> QED  BY <3>1, FieldIs
  <2> QED  BY <2>1, <2>2
<1> HIDE DEF n, w, ends, rec, h, ss, fs, c, f
<1>9. AreSums(ends, 0, n, Lengths(n, ss))  BY <1>1, <1>6
<1>10. IsSeq(fs) /\ Len(fs) = ends[n + 1]  BY <1>1, <1>4, <1>5, <1>9, Flattened DEF fs
<1>11. Joins(h \o fs, h, fs) /\ IsSeq(h \o fs) /\ Len(h \o fs) = HeaderSize + ends[n + 1]
  <2>1. Joins(h \o fs, h, fs)  BY <1>2, <1>10, Joined
  <2> QED  BY <1>2, <1>10, <2>1 DEF Joins
<1>12. Joins(f, h \o fs, c)  BY <1>7, <1>8, <1>11, Joined
<1>13. \A i \in 1..n + 1 : /\ rec[i] = HeaderSize + ends[i]
                           /\ rec[i] \in Nat /\ ends[i] \in Nat
  <2>1. \A i \in 1..n + 1 : rec[i] + 0 = ends[i] + HeaderSize  BY <1>1, SumsAgree
  <2>2. \A i \in 1..n + 1 : rec[i] \in Nat /\ ends[i] \in Nat  BY <1>1 DEF AreSums
  <2> QED  BY <1>1, <2>1, <2>2
<1>14. n + 1 \in 1..n + 1  BY <1>1
<1>15. IsSeq(f) /\ Len(f) = ArchiveLength(a)
  <2>1. IsSeq(f) /\ Len(f) = HeaderSize + ends[n + 1] + a.command  BY <1>8, <1>11, <1>12 DEF Joins
  <2>2. ArchiveLength(a) = rec[n + 1] + a.command  BY DEF ArchiveLength, rec, n
  <2> QED  BY <1>13, <1>14, <2>1, <2>2
<1>16. ASSUME NEW s, NEW q \in Nat, Within(s, q, f) PROVE ArchiveLies(s, q, a)
  <2>1. Within(s, q, h \o fs) /\ Within(s, q + (HeaderSize + ends[n + 1]), c)
    <3>1. Within(s, q, h \o fs) /\ Within(s, q + Len(h \o fs), c)  BY <1>8, <1>11, <1>12, <1>16, JoinMoves
    <3> QED  BY <1>11, <3>1
  <2>2. Within(s, q, h) /\ Within(s, q + HeaderSize, fs)
    <3>1. Within(s, q, h) /\ Within(s, q + Len(h), fs)  BY <1>2, <1>10, <1>11, <2>1, JoinMoves
    <3> QED  BY <1>2, <3>1
  <2>3. q + HeaderSize \in Nat  BY <1>1
  <2>4. ASSUME NEW i \in 1..n PROVE FileLies(s, q + rec[i], a.entries[i], a.algo)
    <3>1. Within(s, q + HeaderSize + ends[i], ss[i])
      BY <1>1, <1>4, <1>5, <1>9, <2>2, <2>3, FlattenMoves DEF fs
    <3>2. i \in 1..n + 1  BY <1>1
    <3>3. q + HeaderSize + ends[i] = q + rec[i] /\ q + rec[i] \in Nat  BY <1>1, <1>13, <3>2
    <3> QED  BY <1>3, <3>1, <3>3, WriteFileIs
  <2>5. FieldLies(s, q, HeaderOf(a), HeaderSize)  BY <1>2, <2>2
  <2>6. a.command # 0 => FieldLies(s, q + rec[n + 1], CommandCell, a.command)
    <3>1. q + (HeaderSize + ends[n + 1]) = q + rec[n + 1] /\ q + rec[n + 1] \in Nat  BY <1>13, <1>14
    <3> QED  BY <1>8, <2>1, <3>1
  <2> QED  BY <2>4, <2>5, <2>6 DEF ArchiveLies, n, rec
<1> QED  BY <1>15, <1>16 DEF f

\* The whole SFX.
ImageLies(s, a, stubLen) ==
  /\ ArchiveLies(s, stubLen, a)
  /\ FieldLies(s, stubLen + ArchiveLength(a), TrailerCell(stubLen), TrailerSize)

\* write_sfx: stub, archive, trailer.
LEMMA WriteSfxIs ==
  ASSUME NEW a, Fits(a), NEW stubLen \in Nat
  PROVE  /\ IsSeq(WriteSfx(a, stubLen))
         /\ Len(WriteSfx(a, stubLen)) = stubLen + ArchiveLength(a) + TrailerSize
         /\ ImageLies(WriteSfx(a, stubLen), a, stubLen)
<1> DEFINE b == StubBytes(stubLen)
           w == WriteArchive(a)
           t == Field(TrailerCell(stubLen), TrailerSize)
           f == WriteSfx(a, stubLen)
<1>1. IsSeq(b) /\ Len(b) = stubLen
  <2> DEFINE V == {[k |-> "code"]}
  <2>1. b \in [1..stubLen -> V]  BY DEF StubBytes
  <2> HIDE DEF b, V
  <2>2. b \in Seq(V) /\ Len(b) = stubLen  BY <2>1, FunctionIsSeq
  <2> QED  BY <2>2, SeqIs
<1>2. IsSeq(w) /\ Len(w) = ArchiveLength(a)
      /\ \A s : \A q \in Nat : Within(s, q, w) => ArchiveLies(s, q, a)
  BY WriteArchiveIs
<1>3. TrailerSize \in Nat \ {0}  BY DEF TrailerSize
<1>4. IsSeq(t) /\ Len(t) = TrailerSize
      /\ \A s : \A q \in Nat : Within(s, q, t) => FieldLies(s, q, TrailerCell(stubLen), TrailerSize)
  BY <1>3, FieldIs
<1>5. f = b \o w \o t  BY DEF WriteSfx
<1>6. ArchiveLength(a) \in Nat  BY FileSums
<1> HIDE DEF b, w, t, f
<1>7. Joins(b \o w, b, w) /\ IsSeq(b \o w) /\ Len(b \o w) = stubLen + ArchiveLength(a)
  <2>1. Joins(b \o w, b, w)  BY <1>1, <1>2, Joined
  <2> QED  BY <1>1, <1>2, <2>1 DEF Joins
<1>8. Joins(f, b \o w, t)  BY <1>4, <1>5, <1>7, Joined
<1>9. IsSeq(f) /\ Len(f) = stubLen + ArchiveLength(a) + TrailerSize  BY <1>4, <1>7, <1>8 DEF Joins
<1>10. Within(f, 0, f)
  <2>1. \A i \in 1..Len(f) : 0 + i = i  BY <1>9, SeqLength
  <2> QED  BY <2>1 DEF Within
<1>11. Within(f, 0, b \o w) /\ Within(f, stubLen + ArchiveLength(a), t)
  <2>1. Within(f, 0, b \o w) /\ Within(f, 0 + Len(b \o w), t)  BY <1>4, <1>7, <1>8, <1>10, JoinMoves
  <2>2. 0 + Len(b \o w) = stubLen + ArchiveLength(a)  BY <1>6, <1>7
  <2> QED  BY <2>1, <2>2
<1>12. Within(f, stubLen, w)
  <2>1. Within(f, 0 + Len(b), w)  BY <1>1, <1>2, <1>7, <1>11, JoinMoves
  <2>2. 0 + Len(b) = stubLen  BY <1>1
  <2> QED  BY <2>1, <2>2
<1>13. ArchiveLies(f, stubLen, a)  BY <1>2, <1>12
<1>14. FieldLies(f, stubLen + ArchiveLength(a), TrailerCell(stubLen), TrailerSize)
  <2>1. stubLen + ArchiveLength(a) \in Nat  BY <1>6
  <2> QED  BY <1>4, <1>11, <2>1
<1> QED  BY <1>9, <1>13, <1>14 DEF ImageLies, f

\* A record ends where the next begins, and before the end of the records.
LEMMA PlaceOfFile ==
  ASSUME NEW a, Fits(a), NEW i \in 1..Len(a.entries)
  PROVE  LET e == a.entries[i]
             rec == Records(a)
         IN  /\ rec[i] \in Nat /\ rec[i + 1] \in Nat /\ rec[Len(a.entries) + 1] \in Nat
             /\ rec[i + 1] = rec[i] + RecordHead(e.nameLen) + Ends(e)[Len(e.chunks) + 1] + CrcSize
             /\ rec[i + 1] <= rec[Len(a.entries) + 1]
             /\ Ends(e)[Len(e.chunks) + 1] \in Nat /\ RecordHead(e.nameLen) \in Nat \ {0}
<1> DEFINE n == Len(a.entries)
           e == a.entries[i]
           rec == Records(a)
           w == FileSizes(a)
           x == RecordHead(e.nameLen)
           y == Ends(e)[Len(e.chunks) + 1]
<1>1. n \in Nat /\ AreSums(rec, HeaderSize, n, w) /\ EntryFits(a.algo, e)  BY FileSums
<1>2. w[i] = SerializedFileSize(e)  BY DEF FileSizes
<1>3. w[i] = x + y + CrcSize /\ x \in Nat \ {0} /\ y \in Nat  BY <1>1, <1>2, SizeOfRecord
<1> HIDE DEF n, e, rec, w, x, y
<1>4. i \in 1..n  BY DEF n
<1>5. i \in 1..n + 1 /\ i + 1 \in 1..n + 1 /\ n + 1 \in 1..n + 1 /\ i + 1 <= n + 1  BY <1>1, <1>4
<1>6. rec[i] \in Nat /\ rec[i + 1] \in Nat /\ rec[n + 1] \in Nat /\ rec[i + 1] = rec[i] + w[i]
  BY <1>1, <1>4, <1>5 DEF AreSums
<1>7. rec[i + 1] <= rec[n + 1]  BY <1>1, <1>5, SumsGrow
<1>8. CrcSize \in Nat  BY DEF CrcSize
<1>9. rec[i + 1] = rec[i] + x + y + CrcSize  BY <1>3, <1>6, <1>8
<1> QED  BY <1>3, <1>6, <1>7, <1>9 DEF n, e, rec, x, y

\* So does a chunk, within its record.
LEMMA PlaceOfChunk ==
  ASSUME NEW algo, NEW e, EntryFits(algo, e), NEW j \in 1..Len(e.chunks)
  PROVE  LET m == Len(e.chunks)
             c == e.chunks[j]
         IN  /\ Ends(e)[j] \in Nat /\ Ends(e)[j + 1] \in Nat /\ Ends(e)[m + 1] \in Nat
             /\ c.csize \in Nat /\ c.usize \in Nat
             /\ Ends(e)[j + 1] = Ends(e)[j] + ChunkHead + c.csize /\ Ends(e)[j + 1] <= Ends(e)[m + 1]
             /\ Bases(e)[j] \in Nat /\ Bases(e)[j + 1] \in Nat /\ SizeOf(e) \in Nat
             /\ Bases(e)[j + 1] = Bases(e)[j] + c.usize /\ Bases(e)[j + 1] <= SizeOf(e)
<1> DEFINE m == Len(e.chunks)
           c == e.chunks[j]
           w == Widths(e)
           u == Usizes(e)
           p == Ends(e)
           b == Bases(e)
<1>1. m \in Nat /\ AreSums(p, 0, m, w) /\ AreSums(b, 0, m, u) /\ SizeOf(e) = b[m + 1]
      /\ c.csize \in Nat /\ c.usize \in Nat
  BY EntrySums
<1>2. w[j] = ChunkHead + c.csize /\ u[j] = c.usize  BY DEF Widths, Usizes
<1>3. j \in 1..m  OBVIOUS
<1> HIDE DEF m, w, u, p, b, c
<1>4. j \in 1..m + 1 /\ j + 1 \in 1..m + 1 /\ m + 1 \in 1..m + 1 /\ j + 1 <= m + 1  BY <1>1, <1>3
<1>5. p[j] \in Nat /\ p[j + 1] \in Nat /\ p[m + 1] \in Nat /\ p[j + 1] = p[j] + w[j]
  BY <1>1, <1>3, <1>4 DEF AreSums
<1>6. b[j] \in Nat /\ b[j + 1] \in Nat /\ b[m + 1] \in Nat /\ b[j + 1] = b[j] + u[j]
  BY <1>1, <1>3, <1>4 DEF AreSums
<1>7. p[j + 1] <= p[m + 1]  BY <1>1, <1>4, SumsGrow
<1>8. b[j + 1] <= b[m + 1]  BY <1>1, <1>4, SumsGrow
<1>9. p[j + 1] = p[j] + ChunkHead + c.csize
  <2>1. c.csize \in Nat  BY <1>1
  <2> QED  BY <1>2, <1>5, <2>1 DEF ChunkHead
<1>10. b[j + 1] = b[j] + c.usize  BY <1>2, <1>6
<1> QED  BY <1>1, <1>5, <1>6, <1>7, <1>8, <1>9, <1>10 DEF m, c, p, b

\* An image ends where its trailer does.
LEMMA ImageEnds ==
  ASSUME NEW a, Fits(a), NEW stubLen \in Nat
  PROVE  /\ Len(WriteSfx(a, stubLen)) = stubLen + Records(a)[Len(a.entries) + 1] + a.command + TrailerSize
         /\ DOMAIN WriteSfx(a, stubLen) = 1..Len(WriteSfx(a, stubLen))
         /\ Len(WriteSfx(a, stubLen)) \in Nat
         /\ Records(a)[Len(a.entries) + 1] \in Nat /\ Records(a)[1] = HeaderSize /\ a.command \in Nat
         /\ HeaderSize <= Records(a)[Len(a.entries) + 1]
<1> DEFINE n == Len(a.entries)
           rec == Records(a)
           f == WriteSfx(a, stubLen)
<1>1. n \in Nat /\ AreSums(rec, HeaderSize, n, FileSizes(a)) /\ a.command \in Nat  BY FileSums
<1>2. IsSeq(f) /\ Len(f) = stubLen + (rec[n + 1] + a.command) + TrailerSize  BY WriteSfxIs DEF ArchiveLength
<1>3. DOMAIN f = 1..Len(f) /\ Len(f) \in Nat  BY <1>2, SeqLength
<1> HIDE DEF n, rec, f
<1>4. 1 \in 1..n + 1 /\ n + 1 \in 1..n + 1 /\ 1 <= n + 1  BY <1>1
<1>5. rec[n + 1] \in Nat /\ rec[1] = HeaderSize  BY <1>1, <1>4 DEF AreSums
<1>6. rec[1] <= rec[n + 1]  BY <1>1, <1>4, SumsGrow
<1>7. Len(f) = stubLen + rec[n + 1] + a.command + TrailerSize  BY <1>1, <1>2, <1>5 DEF TrailerSize
<1> QED  BY <1>1, <1>3, <1>5, <1>6, <1>7 DEF n, rec, f

\* Where a record ends in the image, and where a chunk does.
LEMMA RecordInImage ==
  ASSUME NEW a, Fits(a), NEW stubLen \in Nat, NEW i \in 1..Len(a.entries)
  PROVE  LET e == a.entries[i]
             q == stubLen + Records(a)[i]
             p == q + RecordHead(e.nameLen) + Ends(e)[Len(e.chunks) + 1]
             size == Len(WriteSfx(a, stubLen))
         IN  q \in Nat /\ p \in Nat /\ size \in Nat /\ q < p /\ p < size
<1> DEFINE e == a.entries[i]
           rec == Records(a)[i]
           next == Records(a)[i + 1]
           end == Records(a)[Len(a.entries) + 1]
           x == RecordHead(e.nameLen)
           y == Ends(e)[Len(e.chunks) + 1]
           c == a.command
           size == Len(WriteSfx(a, stubLen))
<1>1. rec \in Nat /\ next \in Nat /\ end \in Nat /\ next = rec + x + y + CrcSize /\ next <= end
      /\ y \in Nat /\ x \in Nat \ {0}
  BY PlaceOfFile
<1>2. size = stubLen + end + c + TrailerSize /\ c \in Nat  BY ImageEnds
<1> HIDE DEF e, rec, next, end, x, y, c, size
<1>3. stubLen + rec \in Nat /\ stubLen + rec + x + y \in Nat /\ size \in Nat
      /\ stubLen + rec < stubLen + rec + x + y /\ stubLen + rec + x + y < size
  BY <1>1, <1>2 DEF CrcSize, TrailerSize
<1> QED  BY <1>3 DEF e, rec, x, y, size

\* Every byte of a chunk is within the image.
LEMMA ChunkInImage ==
  ASSUME NEW a, Fits(a), NEW stubLen \in Nat, NEW i \in 1..Len(a.entries),
         NEW j \in 1..Len(a.entries[i].chunks)
  PROVE  LET e == a.entries[i]
             k == e.chunks[j]
             q == stubLen + Records(a)[i] + RecordHead(e.nameLen) + Ends(e)[j]
             size == Len(WriteSfx(a, stubLen))
         IN  q \in Nat /\ q < size /\ size \in Nat
             /\ \A z \in 0..k.csize : q + ChunkHead + z \in Nat /\ q + ChunkHead + z < size
<1> DEFINE e == a.entries[i]
           k == e.chunks[j]
           y == Ends(e)[Len(e.chunks) + 1]
           q0 == stubLen + Records(a)[i]
           x == RecordHead(e.nameLen)
           v == Ends(e)[j]
           w == Ends(e)[j + 1]
           u == k.csize
           size == Len(WriteSfx(a, stubLen))
           p == q0 + x + y
<1>1. q0 \in Nat /\ size \in Nat /\ p < size  BY RecordInImage
<1>2. EntryFits(a.algo, e)  BY FileSums
<1>3. w = v + ChunkHead + u /\ w <= y /\ v \in Nat /\ w \in Nat /\ y \in Nat /\ u \in Nat
  <2>1. j \in 1..Len(e.chunks)  OBVIOUS
  <2> HIDE DEF e
  <2>2. w = v + ChunkHead + u /\ w <= y  BY <1>2, <2>1, PlaceOfChunk
  <2>3. v \in Nat /\ w \in Nat /\ y \in Nat /\ u \in Nat  BY <1>2, <2>1, PlaceOfChunk
  <2> QED  BY <2>2, <2>3
<1>4. x \in Nat  BY PlaceOfFile
<1> HIDE DEF e, k, y, q0, x, v, w, u, size
<1>5. q0 + x + v \in Nat /\ q0 + x + v < size  BY <1>1, <1>3, <1>4 DEF ChunkHead
<1>6. ASSUME NEW z \in 0..u
      PROVE  q0 + x + v + ChunkHead + z \in Nat /\ q0 + x + v + ChunkHead + z < size
  BY <1>1, <1>3, <1>4 DEF ChunkHead
<1> QED  BY <1>1, <1>5, <1>6 DEF e, k, q0, x, v, u, size

----------------------------------------------------------------------------
(* The writer and the format.                                              *)

\* What CellAt reads within an image.
LEMMA CellIs ==
  ASSUME NEW s, NEW p \in Nat, DOMAIN s.image = 1..s.size, s.size \in Nat, p < s.size
  PROVE  CellAt(s, p) = s.image[p + 1]
  BY DEF CellAt

\* What Archive::write and write_sfx make of any archive whose entries the builders let
\* through is an image that a reader who knows only the format finds to be laid out as
\* the header and the records say: WellFormed is told from the reader's side and knows
\* nothing of the order in which the writer puts its fields.
THEOREM WriterKeepsTheFormat ==
  ASSUME NEW a, Fits(a), NEW stubLen \in Nat
  PROVE  WellFormed(Described(a, stubLen))
<1> DEFINE s == Described(a, stubLen)
           f == WriteSfx(a, stubLen)
           n == Len(a.entries)
           rec == Records(a)
<1>1. /\ s.image = f /\ s.size = Len(f) /\ s.off = stubLen /\ s.algo = a.algo /\ s.stub = StubFor(a.algo)
      /\ s.flag = (a.command > 0) /\ s.packed = CompressedTotal(a) /\ s.at = rec
  BY DEF Described, Records
<1>2. /\ Len(s.files) = n /\ n \in Nat
      /\ \A i \in 1..n :
           LET e == a.entries[i]
           IN  s.files[i] = [name |-> e.name, nameLen |-> e.nameLen, stamp |-> e.stamp,
                             chunks |-> e.chunks, usz |-> SizeOf(e), base |-> Bases(e),
                             at |-> PrefixSums(rec[i] + RecordHead(e.nameLen), Widths(e))]
  <2> DEFINE d(i) == LET e == a.entries[i]
                     IN  [name |-> e.name, nameLen |-> e.nameLen, stamp |-> e.stamp,
                             chunks |-> e.chunks, usz |-> SizeOf(e),
                             at |-> PrefixSums(rec[i] + RecordHead(e.nameLen), Widths(e)), base |-> Bases(e)]
             fs == [i \in 1..n |-> d(i)]
  <2>1. s.files = fs  BY DEF Described, Records, Widths
  <2>2. n \in Nat  BY FileSums
  <2>3. fs \in Seq({d(i) : i \in 1..n}) /\ Len(fs) = n
    <3> DEFINE V == {d(i) : i \in 1..n}
    <3>1. fs \in [1..n -> V]  OBVIOUS
    <3> HIDE DEF fs, V, n
    <3>2. fs \in Seq(V) /\ Len(fs) = n  BY <2>2, <3>1, FunctionIsSeq
    <3> QED  BY <3>2 DEF V
  <2> QED  BY <2>1, <2>2, <2>3
<1> HIDE DEF s
<1>3. /\ Len(f) = stubLen + rec[n + 1] + a.command + TrailerSize
      /\ DOMAIN f = 1..Len(f) /\ Len(f) \in Nat
      /\ rec[n + 1] \in Nat /\ rec[1] = HeaderSize /\ a.command \in Nat /\ HeaderSize <= rec[n + 1]
  BY ImageEnds
<1>4. ImageLies(f, a, stubLen)  BY WriteSfxIs
<1>5. \A p \in Nat : p < Len(f) => CellAt(s, p) = f[p + 1]  BY <1>1, <1>3, CellIs
<1>6. \A i \in 1..n : EntryFits(a.algo, a.entries[i])  BY FileSums
<1> DEFINE end == stubLen + rec[n + 1] + a.command
<1> HIDE DEF f, n, rec
<1>7. CellAt(s, s.size - TrailerSize) = TrailerCell(s.off)
      /\ s.size >= TrailerSize /\ s.off + TrailerSize <= s.size
  <2>1. f[end + 1] = TrailerCell(stubLen)
    <3>1. stubLen + ArchiveLength(a) = end
      <4>1. ArchiveLength(a) = rec[n + 1] + a.command  BY DEF ArchiveLength, rec, n
      <4> QED  BY <1>3, <4>1
    <3> QED  BY <1>4, <3>1 DEF ImageLies, FieldLies
  <2>2. end \in Nat /\ end < Len(f) /\ Len(f) - TrailerSize = end /\ Len(f) >= TrailerSize
        /\ stubLen + TrailerSize <= Len(f)
    BY <1>3 DEF TrailerSize
  <2> QED  BY <1>1, <1>5, <2>1, <2>2
<1>8. CellAt(s, s.off) = HeaderCell(s.algo, s.flag, n, IF s.flag THEN s.at[n + 1] ELSE 0, s.packed)
  <2>1. f[stubLen + 1] = HeaderOf(a)  BY <1>4 DEF ImageLies, ArchiveLies, FieldLies
  <2>2. stubLen < Len(f)  BY <1>3 DEF TrailerSize
  <2>3. RunAfterOffset(a) = rec[n + 1]  BY FileSums DEF rec, n
  <2> QED  BY <1>1, <1>5, <2>1, <2>2, <2>3 DEF HeaderOf, n
<1>9. s.flag => CellAt(s, s.off + s.at[n + 1]) = CommandCell
  <2> SUFFICES ASSUME a.command > 0 PROVE CellAt(s, stubLen + rec[n + 1]) = CommandCell  BY <1>1
  <2>1. a.command # 0  BY <1>3
  <2>2. f[stubLen + rec[n + 1] + 1] = CommandCell  BY <1>4, <2>1 DEF ImageLies, ArchiveLies, FieldLies, rec, n
  <2>3. stubLen + rec[n + 1] \in Nat /\ stubLen + rec[n + 1] < Len(f)  BY <1>3 DEF TrailerSize
  <2> QED  BY <1>5, <2>2, <2>3
<1>10. ASSUME NEW i \in 1..n PROVE FileLaidOut(s, i)
  <2> DEFINE e == a.entries[i]
             m == Len(e.chunks)
             g == s.files[i]
             x == RecordHead(e.nameLen)
             p == Ends(e)
             b == Bases(e)
             c == PrefixSums(rec[i] + x, Widths(e))
  <2>1. EntryFits(a.algo, e)  BY <1>6
  <2>2. g = [name |-> e.name, nameLen |-> e.nameLen, stamp |-> e.stamp, chunks |-> e.chunks,
             usz |-> SizeOf(e), base |-> b, at |-> c]
    BY <1>2
  <2>3. /\ rec[i] \in Nat /\ rec[i + 1] \in Nat /\ rec[i + 1] = rec[i] + x + p[m + 1] + CrcSize
        /\ rec[i + 1] <= rec[n + 1] /\ p[m + 1] \in Nat /\ x \in Nat \ {0}
    BY PlaceOfFile DEF rec, n
  <2>4. /\ m \in Nat /\ \A j \in 1..m : e.chunks[j].csize \in Nat /\ e.chunks[j].usize \in Nat
        /\ AreSums(b, 0, m, Usizes(e)) /\ AreSums(p, 0, m, Widths(e)) /\ SizeOf(e) = b[m + 1]
    BY <2>1, EntrySums
  <2>5. FileLies(f, stubLen + rec[i], e, a.algo)  BY <1>4 DEF ImageLies, ArchiveLies, rec, n
  <2>6. \A j \in 1..m + 1 : c[j] = rec[i] + x + p[j] /\ c[j] \in Nat /\ p[j] \in Nat
    <3> DEFINE w == Widths(e)
               base == rec[i] + x
    <3>1. w \in Seq(Nat) /\ Len(w) = m
      <4>1. w \in [1..m -> Nat]  BY <2>4 DEF Widths, ChunkHead
      <4> HIDE DEF w, m
      <4> QED  BY <2>4, <4>1, FunctionIsSeq
    <3>2. base \in Nat  BY <2>3
    <3>3. AreSums(c, base, m, w)
      <4> HIDE DEF w, base, m
      <4>1. AreSums(PrefixSums(base, w), base, Len(w), w)  BY <3>1, <3>2, SumsAre
      <4> QED  BY <3>1, <4>1 DEF base, w
    <3> HIDE DEF w, base, m, c, p
    <3>4. AreSums(p, 0, m, w) /\ m \in Nat  BY <2>4 DEF w
    <3>5. \A j \in 1..m + 1 : c[j] + 0 = p[j] + base  BY <3>2, <3>3, <3>4, SumsAgree
    <3>6. \A j \in 1..m + 1 : c[j] \in Nat /\ p[j] \in Nat  BY <3>3, <3>4 DEF AreSums
    <3>7. ASSUME NEW j \in 1..m + 1 PROVE c[j] = base + p[j] /\ c[j] \in Nat /\ p[j] \in Nat
      BY <3>2, <3>5, <3>6
    <3> QED  BY <3>7 DEF base
  <2>7. CellAt(s, stubLen + rec[i]) = RecordCell(g)
    <3>1. f[stubLen + rec[i] + 1] = RecordOf(e)  BY <2>5 DEF FileLies, FieldLies
    <3>2. stubLen + rec[i] \in Nat /\ stubLen + rec[i] < Len(f)
      <4> DEFINE y == stubLen + rec[i]
                 z == y + x + p[m + 1]
                 size == Len(f)
      <4>1. y \in Nat /\ z \in Nat /\ y < z /\ z < size /\ size \in Nat  BY RecordInImage DEF f, rec, n
      <4> HIDE DEF y, z, size
      <4>2. y \in Nat /\ y < size  BY <4>1
      <4> QED  BY <4>2 DEF y, size
    <3>3. RecordCell(g) = RecordOf(e)  BY <2>2 DEF RecordOf, RecordCell
    <3> QED  BY <1>5, <3>1, <3>2, <3>3
  <2>8. ASSUME NEW j \in 1..m PROVE ChunkLaidOut(s, g, j)
    <3> DEFINE k == e.chunks[j]
               q == stubLen + rec[i] + x + p[j]
    <3>1. /\ p[j] \in Nat /\ p[j + 1] \in Nat /\ k.csize \in Nat /\ k.usize \in Nat
          /\ p[j + 1] = p[j] + ChunkHead + k.csize
          /\ b[j] \in Nat /\ b[j + 1] \in Nat /\ SizeOf(e) \in Nat
          /\ b[j + 1] = b[j] + k.usize /\ b[j + 1] <= SizeOf(e)
      <4> HIDE DEF e
      <4>1. p[j] \in Nat /\ p[j + 1] \in Nat /\ k.csize \in Nat /\ k.usize \in Nat
        BY <2>1, PlaceOfChunk
      <4>2. p[j + 1] = p[j] + ChunkHead + k.csize  BY <2>1, PlaceOfChunk
      <4>3. b[j] \in Nat /\ b[j + 1] \in Nat /\ SizeOf(e) \in Nat  BY <2>1, PlaceOfChunk
      <4>4. b[j + 1] = b[j] + k.usize /\ b[j + 1] <= SizeOf(e)  BY <2>1, PlaceOfChunk
      <4> QED  BY <4>1, <4>2, <4>3, <4>4
    <3>2. ChunkFits(a.algo, k)
      <4>1. j \in DOMAIN e.chunks  BY <2>1, LenProperties DEF EntryFits
      <4> QED  BY <2>1, <4>1 DEF EntryFits
    <3>3. j \in 1..m + 1 /\ j + 1 \in 1..m + 1  BY <2>4
    <3>4. c[j] = rec[i] + x + p[j] /\ c[j + 1] = rec[i] + x + p[j + 1] /\ c[j] \in Nat
      BY <2>6, <3>3
    <3>5. ChunkLies(f, q, e, a.algo, j)  BY <2>5 DEF FileLies
    <3>6. /\ q \in Nat /\ q < Len(f)
          /\ \A z \in 0..k.csize : q + ChunkHead + z \in Nat /\ q + ChunkHead + z < Len(f)
      BY ChunkInImage DEF f, rec, n
    <3>7. CellAt(s, q) = ChunkCell(k)  BY <1>5, <3>5, <3>6 DEF ChunkLies, FieldLies
    <3>8. ASSUME a.algo = Stored, NEW z \in 1..k.csize
          PROVE  CellAt(s, q + ChunkHead + z - 1) = ByteCell(<<e.name, b[j] + z>>)
      <4>1. f[q + ChunkHead + z] = ByteCell(<<e.name, b[j] + z>>)  BY <3>5, <3>8 DEF ChunkLies, DataLies
      <4>2. z \in Int /\ z - 1 \in 0..k.csize /\ ChunkHead \in Nat
        <5> DEFINE u == k.csize
        <5>1. u \in Nat /\ z \in 1..u  BY <3>1
        <5> HIDE DEF u
        <5>2. z \in Int /\ z - 1 \in 0..u  BY <5>1
        <5> QED  BY <5>2 DEF u, ChunkHead
      <4> HIDE DEF q, k, b
      <4>3. q + ChunkHead + (z - 1) \in Nat /\ q + ChunkHead + (z - 1) < Len(f)  BY <3>6, <4>2
      <4>4. q + ChunkHead + (z - 1) = q + ChunkHead + z - 1 /\ q + ChunkHead + (z - 1) + 1 = q + ChunkHead + z
        BY <3>6, <4>2
      <4>5. CellAt(s, q + ChunkHead + (z - 1)) = f[q + ChunkHead + (z - 1) + 1]  BY <1>5, <4>3
      <4> QED  BY <4>1, <4>4, <4>5
    <3>9. ASSUME a.algo # Stored, k.csize > 0
          PROVE  CellAt(s, q + ChunkHead) = PackedCell(Slice(e.name, b[j], k.usize))
      <4>1. k.csize # 0  BY <3>1, <3>9
      <4>2. f[q + ChunkHead + 1] = PackedCell(Slice(e.name, b[j], k.usize))
        BY <3>5, <3>9, <4>1 DEF ChunkLies, DataLies, FieldLies
      <4> HIDE DEF q, k, b
      <4>3. 0 \in 0..k.csize /\ q + ChunkHead + 0 = q + ChunkHead  BY <3>1, <3>6 DEF ChunkHead
      <4>4. q + ChunkHead \in Nat /\ q + ChunkHead < Len(f)  BY <3>6, <4>3
      <4> QED  BY <1>5, <4>2, <4>4
    <3>10. c[j + 1] = c[j] + ChunkHead + k.csize /\ stubLen + c[j] = q
      <4> DEFINE u == rec[i]
                 v == p[j]
                 w == p[j + 1]
                 y == c[j]
                 z == c[j + 1]
                 r == k.csize
      <4>1. u \in Nat /\ x \in Nat /\ v \in Nat /\ r \in Nat /\ w = v + ChunkHead + r
            /\ y = u + x + v /\ z = u + x + w /\ q = stubLen + u + x + v
        BY <2>3, <3>1, <3>4
      <4> HIDE DEF u, v, w, x, y, z, r, q
      <4>2. z = y + ChunkHead + r /\ stubLen + y = q  BY <4>1 DEF ChunkHead
      <4> QED  BY <4>2 DEF y, z, r
    <3>11. g.chunks[j] = k /\ g.at = c /\ g.base = b /\ g.usz = SizeOf(e) /\ g.name = e.name
      BY <2>2
    <3> HIDE DEF k, q, b, c, g, x, p
    <3> QED  BY <1>1, <3>1, <3>2, <3>4, <3>7, <3>8, <3>9, <3>10, <3>11 DEF ChunkLaidOut
  <2>9. /\ c[1] = rec[i] + x /\ c[m + 1] \in Nat /\ rec[i + 1] = c[m + 1] + CrcSize
        /\ stubLen + c[m + 1] = stubLen + rec[i] + x + p[m + 1]
    <3> DEFINE u == rec[i]
               v == rec[i + 1]
               y == p[m + 1]
               z == c[m + 1]
               w == c[1]
               r == p[1]
    <3>1. r = 0  BY <2>4 DEF AreSums
    <3>2. 1 \in 1..m + 1 /\ m + 1 \in 1..m + 1  BY <2>4
    <3>3. w = u + x + r /\ z = u + x + y /\ z \in Nat  BY <2>6, <3>2
    <3>4. u \in Nat /\ x \in Nat /\ y \in Nat /\ v = u + x + y + CrcSize  BY <2>3
    <3> HIDE DEF u, v, y, z, w, r, x
    <3>5. w = u + x /\ v = z + CrcSize /\ stubLen + z = stubLen + u + x + y
      BY <3>1, <3>3, <3>4 DEF CrcSize
    <3> QED  BY <3>3, <3>5 DEF u, v, y, z, w
  <2>10. CellAt(s, stubLen + c[m + 1]) = CrcCell(Bytes(e.name, SizeOf(e)))
    <3>1. f[stubLen + rec[i] + x + p[m + 1] + 1] = CrcCell(Bytes(e.name, SizeOf(e)))
      BY <2>5 DEF FileLies, FieldLies
    <3>2. stubLen + rec[i] + x + p[m + 1] \in Nat /\ stubLen + rec[i] + x + p[m + 1] < Len(f)
      BY RecordInImage DEF f, rec, n
    <3> DEFINE q == stubLen + rec[i] + x + p[m + 1]
    <3>3. CellAt(s, q) = f[q + 1]
      <4> HIDE DEF q
      <4> QED  BY <1>5, <3>2 DEF q
    <3> QED  BY <2>9, <3>1, <3>3
  <2>11. e.nameLen \in Nat /\ e.stamp \in Nat  BY <2>1 DEF EntryFits
  <2>12. SizeOf(e) \in Nat /\ b[1] = 0 /\ b[m + 1] = SizeOf(e)
    <3>1. m + 1 \in 1..m + 1  BY <2>4
    <3> QED  BY <2>4, <3>1 DEF AreSums
  <2>13. g.chunks = e.chunks /\ g.at = c /\ g.base = b /\ g.usz = SizeOf(e) /\ g.name = e.name
         /\ g.nameLen = e.nameLen /\ g.stamp = e.stamp
    BY <2>2
  <2>14. Len(g.chunks) = m  BY <2>13
  <2>15. s.files[i] = g  OBVIOUS
  <2>16. s.at[i] = rec[i] /\ s.at[i + 1] = rec[i + 1] /\ s.off = stubLen  BY <1>1
  <2> HIDE DEF c, b, g, x, m, p, e
  <2>17. g.at[1] = s.at[i] + RecordHead(g.nameLen)  BY <2>9, <2>13, <2>16 DEF x
  <2>18. CellAt(s, s.off + g.at[m + 1]) = CrcCell(Bytes(g.name, g.usz))  BY <2>10, <2>13, <2>16
  <2>19. g.base[1] = 0 /\ g.base[m + 1] = g.usz /\ g.usz \in Nat  BY <2>12, <2>13
  <2>20. g.at[m + 1] \in Nat /\ s.at[i + 1] = g.at[m + 1] + CrcSize  BY <2>9, <2>13, <2>16
  <2>21. CellAt(s, s.off + s.at[i]) = RecordCell(g) /\ s.at[i] \in Nat  BY <2>3, <2>7, <2>16
  <2>22. m \in Nat /\ g.nameLen \in Nat /\ g.stamp \in Nat  BY <2>4, <2>11, <2>13
  <2>23. \A j \in 1..m : ChunkLaidOut(s, g, j)  BY <2>8
  <2> QED
    BY <2>14, <2>15, <2>17, <2>18, <2>19, <2>20, <2>21, <2>22, <2>23 DEF FileLaidOut
<1>11. ASSUME NEW i \in 1..n, NEW j \in 1..n, s.files[i].name = s.files[j].name PROVE i = j
  <2>1. ASSUME NEW k \in 1..n PROVE s.files[k].name = a.entries[k].name
    <3> DEFINE e == a.entries[k]
    <3>1. s.files[k] = [name |-> e.name, nameLen |-> e.nameLen, stamp |-> e.stamp,
                        chunks |-> e.chunks, usz |-> SizeOf(e), base |-> Bases(e),
                        at |-> PrefixSums(rec[k] + RecordHead(e.nameLen), Widths(e))]
      BY <1>2
    <3> QED  BY <3>1
  <2>2. a.entries[i].name = a.entries[j].name  BY <1>11, <2>1
  <2>3. DOMAIN a.entries = 1..n
    <3>1. IsSeq(a.entries)  BY DEF Fits, IsSeq
    <3> QED  BY <3>1, SeqLength DEF n
  <2> QED  BY <2>2, <2>3 DEF Fits
<1>12. a.algo \in Algorithms  BY DEF Fits
<1>13. \A i \in 1..n : FileLaidOut(s, i)  BY <1>10
<1>14. s.flag \in BOOLEAN  BY <1>1
<1>15. s.at[1] = HeaderSize /\ s.at[n + 1] \in Nat  BY <1>1, <1>3
<1>16. s.off \in Nat /\ s.size \in Nat  BY <1>1, <1>3
<1>17. s.algo \in Algorithms /\ s.stub = StubFor(s.algo)  BY <1>1, <1>12
<1>18. Len(s.files) = n /\ n \in Nat  BY <1>2
<1>19. s.flag => CellAt(s, s.off + s.at[n + 1]) = CommandCell  BY <1>9
<1>20. WellFormed(s)
  BY <1>7, <1>8, <1>11, <1>13, <1>14, <1>15, <1>16, <1>17, <1>18, <1>19 DEF WellFormed
<1> QED  BY <1>20 DEF s

----------------------------------------------------------------------------
(* What a file shows of an image, and where unpack is in it.               *)

\* Where record i of an archive lies in its image, and chunk j of the record; behind the
\* last chunk comes the CRC.
RecordAt(a, i) == StubLen + Records(a)[i]
PartAt(a, i, j) == RecordAt(a, i) + RecordHead(a.entries[i].nameLen) + Ends(a.entries[i])[j]

\* The packed bytes before chunk j of an entry, and before entry i of an archive.
Packs(e) == PrefixSums(0, [j \in 1..Len(e.chunks) |-> e.chunks[j].csize])
PacksOf(a) ==
  PrefixSums(0, [i \in 1..Len(a.entries) |->
                   LET e == a.entries[i] IN Total([j \in 1..Len(e.chunks) |-> e.chunks[j].csize])])

\* A file holds the image of an archive up to some byte, but for what has rotted.
Rots == {"header", "byte", "packed", "crc"}
Shows(f, a, rotten) ==
  /\ IsSeq(f) /\ Len(f) <= Len(Images[a])
  /\ \A p \in 1..Len(f) :
       \/ f[p] = Images[a][p]
       \/ rotten /\ f[p] = Unpack!Damaged /\ Images[a][p].k \in Rots

\* What the reader takes for a chunk and for an entry, against what was written.
ChunkRead(algo, e, j, c, rotten) ==
  LET w == e.chunks[j]
  IN  /\ c.csize = w.csize /\ c.usize = w.usize
      /\ ~rotten /\ algo = Stored =>
           Len(c.data) = w.csize /\ \A b \in 1..w.csize : c.data[b] = ByteCell(<<e.name, Bases(e)[j] + b>>)
      /\ ~rotten /\ algo # Stored /\ w.csize # 0 =>
           c.data[1] = PackedCell(Slice(e.name, Bases(e)[j], w.usize))

ChunksRead(algo, e, cs, rotten) ==
  /\ IsSeq(cs) /\ Len(cs) <= Len(e.chunks)
  /\ \A j \in 1..Len(cs) : ChunkRead(algo, e, j, cs[j], rotten)

EntryRead(algo, e, r, rotten) ==
  /\ r.name = e.name /\ r.nameLen = e.nameLen /\ r.usz = SizeOf(e)
  /\ ChunksRead(algo, e, r.chunks, rotten) /\ Len(r.chunks) = Len(e.chunks)
  /\ r.crc = CrcCell(Bytes(e.name, SizeOf(e))) \/ (rotten /\ r.crc = Unpack!Damaged)

\* The entries from the one behind the k-th on, as far as rs goes.
EntriesRead(a, k, rs, rotten) ==
  /\ IsSeq(rs) /\ k + Len(rs) <= Len(a.entries)
  /\ \A i \in 1..Len(rs) : EntryRead(a.algo, a.entries[k + i], rs[i], rotten)

\* pack reported the file, and it is there as it was then and not too long for unpack.
Sound == reported /\ ~damaged /\ link # "none" /\ Len(file) <= MaxSfxInput

\* The file, and what a power loss leaves of it, show the archive they came from.
OnFile ==
  /\ of \notin DOMAIN Images => file = <<>> /\ ~damaged
  /\ of \in DOMAIN Images => Shows(file, of, damaged)
  /\ durable[2] \notin DOMAIN Images => durable[1] = <<>>
  /\ durable[2] \in DOMAIN Images => Shows(durable[1], durable[2], damaged)
  /\ packing = "ok" => reported
  /\ reported => job \in DOMAIN Images
  /\ Writing \/ packing = "sync" => reading = "idle"

\* load_archive saw a trailer at the end.
TrailerSeen == Unpack!Reads(Len(file) - TrailerSize, TrailerSize, "trailer")

Opened ==
  reading \in {"header", "file", "chunk", "writing", "failed", "ok"} => of \in DOMAIN Images /\ TrailerSeen

\* Nothing is written before everything is read, and a sound file is not refused.
Unwritten ==
  /\ reading \in {"idle", "refused", "header", "file", "chunk"} => dest = <<>>
  /\ reading \in {"idle", "header"} => entries = <<>>
  /\ reading = "refused" => ~Sound

\* The trailer leads to the header of this archive, or to a place that shows none.
InHeader == reading = "header" => at = StubLen \/ (~Sound /\ Unpack!Seen(at).k # "header")

\* What the reader takes from the header of an archive and from a record.
HeaderTaken(a, left) ==
  [algo |-> a.algo, flag |-> a.command > 0, count |-> Len(a.entries),
   run |-> IF a.command > 0 THEN RunAfterOffset(a) ELSE 0, budget |-> left]
RecordTaken(e, sum, chunks) ==
  [name |-> e.name, nameLen |-> e.nameLen, usz |-> SizeOf(e), count |-> Len(e.chunks),
   sum |-> sum, chunks |-> chunks]

\* What was read so far is what was written, in the order it was written.
InArchive ==
  reading \in {"file", "chunk"} =>
    /\ at <= Len(file)
    /\ header = HeaderTaken(of, header.budget) /\ header.budget \in Int
    /\ EntriesRead(of, 0, entries, damaged)

\* At a record, and what the header's budget has left; then at a chunk of it, or its CRC.
InFile ==
  reading = "file" =>
    LET i == Len(entries) + 1
    IN  at = RecordAt(of, i) /\ header.budget + PacksOf(of)[i] = CompressedTotal(of)

InRecord ==
  reading = "chunk" =>
    LET i == Len(entries) + 1
        e == of.entries[i]
        j == Len(record.chunks) + 1
    IN  /\ i <= Len(of.entries)
        /\ record = RecordTaken(e, Bases(e)[j], record.chunks)
        /\ ChunksRead(of.algo, e, record.chunks, damaged)
        /\ at = PartAt(of, i, j)
        /\ header.budget + PacksOf(of)[i] + Packs(e)[j] = CompressedTotal(of)

\* The first k entries are written, and nothing else.
Written(k) ==
  /\ DOMAIN dest = {of.entries[i].name : i \in 1..k}
  /\ \A i \in 1..k : dest[of.entries[i].name] = Bytes(of.entries[i].name, SizeOf(of.entries[i]))

\* Only a whole image is read to the end.
Accepted ==
  reading \in {"writing", "failed", "ok"} =>
    Len(file) = Len(Images[of]) /\ header.algo = of.algo

\* The entries are written in order.
InEntries ==
  reading \in {"writing", "ok"} =>
    \E k \in 0..Len(of.entries) :
      /\ EntriesRead(of, k, entries, damaged) /\ k + Len(entries) = Len(of.entries)
      /\ Written(k)
      /\ reading = "ok" => entries = <<>>

\* The first k entries are written, and a part of the next one at most.
PartlyWritten(k) ==
  /\ \A i \in 1..k : of.entries[i].name \in DOMAIN dest
  /\ \A name \in DOMAIN dest :
       \/ \E i \in 1..k : name = of.entries[i].name /\ dest[name] = Bytes(name, SizeOf(of.entries[i]))
       \/ /\ k + 1 \in 1..Len(of.entries) /\ name = of.entries[k + 1].name
          /\ \E b \in 0..SizeOf(of.entries[k + 1]) : dest[name] = Bytes(name, b)

\* A failure leaves a prefix of one entry at most.
Stopped == reading = "failed" => \E k \in 0..Len(of.entries) : PartlyWritten(k)

\* unpack is where such a file leads it.
OnTrack ==
  /\ Opened /\ Unwritten /\ InHeader /\ InArchive /\ InFile /\ InRecord
  /\ Accepted /\ InEntries /\ Stopped

----------------------------------------------------------------------------
(* pack by itself.                                                         *)

Archives == DOMAIN Images \union {NoArchive}

Values ==
  /\ packing \in {"idle", "stub", "archive", "trailer", "sync", "ok", "failed", "off"}
  /\ reading \in {"idle", "header", "file", "chunk", "writing", "refused", "failed", "ok"}
  /\ job \in Archives /\ of \in Archives /\ durable[2] \in Archives
  /\ link \in {"none", "new", "kept"}
  /\ reported \in BOOLEAN /\ damaged \in BOOLEAN /\ runs \in 0..MaxRuns

\* While write_sfx is at work, the file is what it has written.
InProgress ==
  /\ Writing =>
       /\ job \in DOMAIN Images /\ ~damaged
       /\ wpos \in 0..EndOf(packing) /\ file = SubSeq(Image, 1, wpos)
  /\ packing = "sync" => job \in DOMAIN Images /\ ~damaged /\ file = Image
  /\ Writing \/ packing = "sync" => of = job /\ ~reported /\ link # "none"

\* Behind a reported file stands one that a power loss does not take away but with its name.
Safe ==
  /\ reported => packing \in {"ok", "off"}
  /\ reported /\ ~damaged =>
       \/ link # "none" /\ file = Image /\ of = job /\ durable = <<file, job>>
       \/ link = "none" /\ file = <<>> /\ packing = "off"

Packing == Values /\ InProgress /\ Safe

----------------------------------------------------------------------------
(* The images.                                                             *)

\* An image is what write_sfx writes for its archive.
LEMMA ImageIs ==
  ASSUME NEW a \in DOMAIN Images
  PROVE  /\ Fits(a) /\ StubLen \in Nat /\ Images[a] = WriteSfx(a, StubLen)
         /\ IsSeq(Images[a]) /\ ImageLies(Images[a], a, StubLen)
         /\ Len(a.entries) \in Nat /\ a.command \in Nat
<1>1. Fits(a) /\ StubLen \in Nat /\ Images[a] = WriteSfx(a, StubLen)
  BY ImagesAreWritten, ArchivesAssumption
<1>2. Len(a.entries) \in Nat /\ a.command \in Nat  BY <1>1, FileSums
<1> QED  BY <1>1, <1>2, WriteSfxIs

\* Its header, its command and its trailer.
LEMMA EndIs ==
  ASSUME NEW a \in DOMAIN Images
  PROVE  LET end == RecordAt(a, Len(a.entries) + 1)
         IN  /\ Len(Images[a]) = end + a.command + TrailerSize /\ Len(Images[a]) \in Nat /\ end \in Nat
             /\ RecordAt(a, 1) = StubLen + HeaderSize /\ RecordAt(a, 1) <= end
             /\ FieldLies(Images[a], StubLen, HeaderOf(a), HeaderSize)
             /\ a.command # 0 => FieldLies(Images[a], end, CommandCell, a.command)
             /\ FieldLies(Images[a], end + a.command, TrailerCell(StubLen), TrailerSize)
<1> DEFINE r == Records(a)[Len(a.entries) + 1]
           c == a.command
           size == Len(Images[a])
           first == Records(a)[1]
<1>1. Fits(a) /\ StubLen \in Nat /\ Images[a] = WriteSfx(a, StubLen) /\ ImageLies(Images[a], a, StubLen)
  BY ImageIs
<1>2. size = StubLen + r + c + TrailerSize /\ size \in Nat /\ r \in Nat /\ first = HeaderSize /\ c \in Nat
      /\ HeaderSize <= r
  BY <1>1, ImageEnds
<1>3. FieldLies(Images[a], StubLen, HeaderOf(a), HeaderSize)  BY <1>1 DEF ImageLies, ArchiveLies
<1>4. c # 0 => FieldLies(Images[a], StubLen + r, CommandCell, c)  BY <1>1 DEF ImageLies, ArchiveLies
<1>5. FieldLies(Images[a], StubLen + (r + c), TrailerCell(StubLen), TrailerSize)
  BY <1>1 DEF ImageLies, ArchiveLength
<1> HIDE DEF r, c, size, first
<1>6. StubLen + (r + c) = StubLen + r + c /\ StubLen + r \in Nat /\ StubLen + first = StubLen + HeaderSize
      /\ StubLen + first <= StubLen + r
  BY <1>1, <1>2 DEF HeaderSize
<1> QED  BY <1>2, <1>3, <1>4, <1>5, <1>6 DEF RecordAt, r, c, size, first

\* The fields of HeaderTaken and RecordTaken, by name.
LEMMA HeaderIs ==
  ASSUME NEW a, NEW left, NEW h, h = HeaderTaken(a, left)
  PROVE  /\ h.algo = a.algo /\ h.flag = (a.command > 0) /\ h.count = Len(a.entries)
         /\ h.run = (IF a.command > 0 THEN RunAfterOffset(a) ELSE 0) /\ h.budget = left
  BY DEF HeaderTaken

LEMMA HeaderLess ==
  ASSUME NEW a, NEW left, NEW h, h = HeaderTaken(a, left), NEW u
  PROVE  [h EXCEPT !.budget = @ - u] = HeaderTaken(a, left - u)
  BY DEF HeaderTaken

LEMMA RecordIs ==
  ASSUME NEW e, NEW sum, NEW cs, NEW r, r = RecordTaken(e, sum, cs)
  PROVE  /\ r.name = e.name /\ r.nameLen = e.nameLen /\ r.usz = SizeOf(e)
         /\ r.count = Len(e.chunks) /\ r.sum = sum /\ r.chunks = cs
  BY DEF RecordTaken

\* The record of an entry, and the CRC at its end.
LEMMA RecordLies ==
  ASSUME NEW a \in DOMAIN Images, NEW i \in 1..Len(a.entries)
  PROVE  LET e == a.entries[i]
             m == Len(e.chunks)
         IN  /\ EntryFits(a.algo, e) /\ m \in Nat
             /\ RecordAt(a, i) \in Nat /\ RecordHead(e.nameLen) \in Nat \ {0}
             /\ PartAt(a, i, 1) = RecordAt(a, i) + RecordHead(e.nameLen)
             /\ PartAt(a, i, m + 1) \in Nat /\ RecordAt(a, i + 1) = PartAt(a, i, m + 1) + CrcSize
             /\ FieldLies(Images[a], RecordAt(a, i), RecordOf(e), RecordHead(e.nameLen))
             /\ FieldLies(Images[a], PartAt(a, i, m + 1), CrcCell(Bytes(e.name, SizeOf(e))), CrcSize)
             /\ RecordAt(a, i + 1) \in Nat
<1> DEFINE e == a.entries[i]
           m == Len(e.chunks)
           r == Records(a)[i]
           next == Records(a)[i + 1]
           x == RecordHead(e.nameLen)
           y == Ends(e)[m + 1]
           z == Ends(e)[1]
<1>1. Fits(a) /\ StubLen \in Nat /\ ImageLies(Images[a], a, StubLen)  BY ImageIs
<1>2. EntryFits(a.algo, e)  BY <1>1, FileSums
<1>3. m \in Nat /\ z = 0  BY <1>2, EntrySums DEF AreSums
<1>4. r \in Nat /\ next = r + x + y + CrcSize /\ y \in Nat /\ x \in Nat \ {0} /\ next \in Nat
  BY <1>1, PlaceOfFile
<1>5. FileLies(Images[a], StubLen + r, e, a.algo)  BY <1>1 DEF ImageLies, ArchiveLies
<1>6. FieldLies(Images[a], StubLen + r, RecordOf(e), x)
      /\ FieldLies(Images[a], StubLen + r + x + y, CrcCell(Bytes(e.name, SizeOf(e))), CrcSize)
  BY <1>5 DEF FileLies
<1> HIDE DEF e, m, r, next, x, y, z
<1>7. /\ StubLen + r \in Nat /\ StubLen + r + x + y \in Nat /\ StubLen + next = StubLen + r + x + y + CrcSize
      /\ StubLen + r + x + z = StubLen + r + x /\ StubLen + next \in Nat
  BY <1>1, <1>3, <1>4 DEF CrcSize
<1> QED  BY <1>2, <1>3, <1>4, <1>6, <1>7 DEF RecordAt, PartAt, e, m, r, next, x, y, z

\* A chunk of the record.
LEMMA PartLies ==
  ASSUME NEW a \in DOMAIN Images, NEW i \in 1..Len(a.entries), NEW j \in 1..Len(a.entries[i].chunks)
  PROVE  LET e == a.entries[i]
             c == e.chunks[j]
         IN  /\ c.csize \in Nat /\ c.usize \in Nat /\ PartAt(a, i, j) \in Nat
             /\ PartAt(a, i, j + 1) = PartAt(a, i, j) + ChunkHead + c.csize
             /\ ChunkLies(Images[a], PartAt(a, i, j), e, a.algo, j)
             /\ PartAt(a, i, j + 1) < Len(Images[a])
<1> DEFINE e == a.entries[i]
           c == e.chunks[j]
           r == Records(a)[i]
           x == RecordHead(e.nameLen)
           y == Ends(e)[j]
           z == Ends(e)[j + 1]
           u == c.csize
           size == Len(Images[a])
<1>1. Fits(a) /\ StubLen \in Nat /\ Images[a] = WriteSfx(a, StubLen) /\ ImageLies(Images[a], a, StubLen)
  BY ImageIs
<1>2. EntryFits(a.algo, e)  BY <1>1, FileSums
<1>3. y \in Nat /\ z = y + ChunkHead + u /\ u \in Nat /\ c.usize \in Nat
  <2>1. j \in 1..Len(e.chunks)  OBVIOUS
  <2> HIDE DEF e
  <2>2. z = y + ChunkHead + u  BY <1>2, <2>1, PlaceOfChunk
  <2>3. y \in Nat /\ u \in Nat /\ c.usize \in Nat  BY <1>2, <2>1, PlaceOfChunk
  <2> QED  BY <2>2, <2>3
<1>4. r \in Nat /\ x \in Nat  BY <1>1, PlaceOfFile
<1>5. FileLies(Images[a], StubLen + r, e, a.algo)  BY <1>1 DEF ImageLies, ArchiveLies
<1>6. ChunkLies(Images[a], StubLen + r + x + y, e, a.algo, j)  BY <1>5 DEF FileLies
<1>7. \A k \in 0..u : StubLen + r + x + y + ChunkHead + k < size
  BY <1>1, ChunkInImage
<1> HIDE DEF e, c, r, x, y, z, u, size
<1>8. /\ StubLen + r + x + y \in Nat /\ u \in 0..u
      /\ StubLen + r + x + z = StubLen + r + x + y + ChunkHead + u
  BY <1>1, <1>3, <1>4 DEF ChunkHead
<1>9. StubLen + r + x + y + ChunkHead + u < size  BY <1>7, <1>8
<1> QED  BY <1>3, <1>6, <1>8, <1>9 DEF RecordAt, PartAt, e, c, r, x, y, z, u, size

----------------------------------------------------------------------------
(* What the reader sees in a file that shows an image.                     *)

\* The reader's layout is the writer's.
LEMMA SameLayout ==
  /\ Unpack!Pad = Pad /\ Unpack!HeaderSize = HeaderSize /\ Unpack!TrailerSize = TrailerSize
  /\ Unpack!ChunkHead = ChunkHead /\ Unpack!CrcSize = CrcSize /\ Unpack!Stored = Stored
  /\ \A s, p : Unpack!CellAt(s, p) = CellAt(s, p)
  /\ \A n : Unpack!RecordHead(n) = RecordHead(n)
  /\ \A c : Unpack!CrcCell(c) = CrcCell(c)
<1>1. /\ Unpack!Pad = Pad /\ Unpack!HeaderSize = HeaderSize /\ Unpack!TrailerSize = TrailerSize
      /\ Unpack!ChunkHead = ChunkHead /\ Unpack!CrcSize = CrcSize /\ Unpack!Stored = Stored
  BY DEF Pad, HeaderSize, TrailerSize, ChunkHead, CrcSize, Stored,
     Unpack!Pad, Unpack!HeaderSize, Unpack!TrailerSize, Unpack!ChunkHead, Unpack!CrcSize, Unpack!Stored
<1>2. \A s, p : Unpack!CellAt(s, p) = CellAt(s, p)  BY DEF CellAt, Unpack!CellAt
<1>3. \A n : Unpack!RecordHead(n) = RecordHead(n)  BY DEF RecordHead, Unpack!RecordHead
<1>4. \A c : Unpack!CrcCell(c) = CrcCell(c)  BY DEF CrcCell, Unpack!CrcCell
<1> QED  BY <1>1, <1>2, <1>3, <1>4

LEMMA SameSums ==
  /\ \A s, w : Unpack!PrefixSums(s, w) = PrefixSums(s, w)
  /\ \A w : Unpack!Total(w) = Total(w)
  /\ \A e : Unpack!SerializedFileSize(e) = SerializedFileSize(e)
  /\ \A ss : Unpack!FlattenSeq(ss) = FlattenSeq(ss)
<1>1. \A s, w : Unpack!PrefixSums(s, w) = PrefixSums(s, w)  BY DEF PrefixSums, Unpack!PrefixSums
<1>2. \A w : Unpack!Total(w) = Total(w)  BY <1>1 DEF Total, Unpack!Total, Last, Unpack!Last
<1>3. \A e : Unpack!SerializedFileSize(e) = SerializedFileSize(e)
  BY <1>2 DEF SerializedFileSize, Unpack!SerializedFileSize
<1>4. \A ss : Unpack!FlattenSeq(ss) = FlattenSeq(ss)  BY DEF FlattenSeq, Unpack!FlattenSeq
<1> QED  BY <1>1, <1>2, <1>3, <1>4

\* A byte of the file is the one of the image, or rotten.
LEMMA SeenIs ==
  ASSUME of \in DOMAIN Images, Shows(file, of, damaged), NEW p \in Nat, p < Len(file)
  PROVE  LET c == Images[of][p + 1]
         IN  /\ Unpack!Seen(p) = Unpack!Looks(c) \/ (damaged /\ Unpack!Seen(p) = Unpack!Damaged /\ c.k \in Rots)
             /\ p + 1 \in DOMAIN Images[of]
<1>1. Len(file) \in Nat /\ DOMAIN file = 1..Len(file)  BY SeqLength DEF Shows
<1>2. Len(Images[of]) \in Nat /\ DOMAIN Images[of] = 1..Len(Images[of])  BY ImageIs, SeqLength
<1>3. p + 1 \in 1..Len(file) /\ p + 1 \in 1..Len(Images[of])  BY <1>1, <1>2 DEF Shows
<1>4. CellAt([image |-> file], p) = file[p + 1]  BY <1>1, <1>3 DEF CellAt
<1>5. file[p + 1] = Images[of][p + 1]
      \/ (damaged /\ file[p + 1] = Unpack!Damaged /\ Images[of][p + 1].k \in Rots)
  BY <1>3 DEF Shows
<1>6. Unpack!Looks(Unpack!Damaged) = Unpack!Damaged  BY DEF Unpack!Looks, Unpack!Damaged
<1> QED  BY <1>2, <1>3, <1>4, <1>5, <1>6, SameLayout DEF Unpack!Seen

\* A field of no file's contents is seen as it is, or rotten.
LEMMA FieldSeen ==
  ASSUME of \in DOMAIN Images, Shows(file, of, damaged), NEW p \in Nat, p < Len(file),
         NEW c, Images[of][p + 1] = c, c.k # "byte"
  PROVE  Unpack!Seen(p) = c \/ (damaged /\ Unpack!Seen(p) = Unpack!Damaged /\ c.k \in Rots)
<1>1. Unpack!Looks(c) = c  BY DEF Unpack!Looks
<1> QED  BY <1>1, SeenIs

\* A field in an image that is not rotten and lies within the file is read.
LEMMA FieldReads ==
  ASSUME of \in DOMAIN Images, Shows(file, of, damaged), NEW c, NEW width \in Nat \ {0}, NEW p \in Nat,
         FieldLies(Images[of], p, c, width), p + width <= Len(file), c.k # "byte",
         ~damaged \/ c.k \notin Rots
  PROVE  Unpack!Reads(p, width, c.k) /\ Unpack!Seen(p) = c
<1>1. Len(file) \in Nat  BY SeqLength DEF Shows
<1>2. Unpack!Seen(p) = c
  <2>1. p < Len(file) /\ Images[of][p + 1] = c  BY <1>1 DEF FieldLies
  <2> QED  BY <2>1, FieldSeen
<1>3. ASSUME NEW i \in 1..(width - 1) PROVE Unpack!Seen(p + i) = Pad
  <2>1. p + i \in Nat /\ p + i < Len(file) /\ i + 1 \in 2..width /\ p + (i + 1) = p + i + 1  BY <1>1
  <2>2. Images[of][p + i + 1] = Pad  BY <2>1 DEF FieldLies
  <2>3. Pad.k # "byte" /\ Pad.k \notin Rots  BY DEF Pad, Rots
  <2> QED  BY <2>1, <2>2, <2>3, FieldSeen
<1> QED  BY <1>2, <1>3, SameLayout DEF Unpack!Reads

----------------------------------------------------------------------------
(* More of sequences.                                                      *)

LEMMA SeqFrom ==
  ASSUME NEW n \in Nat, NEW f, f = [i \in 1..n |-> f[i]]
  PROVE  IsSeq(f) /\ Len(f) = n
<1> DEFINE V == {f[i] : i \in 1..n}
<1>1. f \in [1..n -> V]  OBVIOUS
<1> HIDE DEF V
<1>2. f \in Seq(V) /\ Len(f) = n  BY <1>1, FunctionIsSeq
<1> QED  BY <1>2, SeqIs

\* What Append and Tail do.
LEMMA Appended ==
  ASSUME NEW s, IsSeq(s), NEW x
  PROVE  /\ IsSeq(Append(s, x)) /\ Len(Append(s, x)) = Len(s) + 1
         /\ Append(s, x)[Len(s) + 1] = x /\ \A i \in 1..Len(s) : Append(s, x)[i] = s[i]
<1> DEFINE V == {s[i] : i \in DOMAIN s} \cup {x}
           f == Append(s, x)
<1>1. s \in Seq(V) /\ x \in V  BY SeqMonotonic DEF IsSeq
<1>2. Len(s) \in Nat  BY <1>1, LenProperties
<1> HIDE DEF V
<1>3. f \in Seq(V) /\ Len(f) = Len(s) + 1 /\ (\A i \in 1..Len(s) : f[i] = s[i]) /\ f[Len(s) + 1] = x
  BY <1>1, AppendProperties
<1> QED  BY <1>3, SeqIs

LEMMA Tailed ==
  ASSUME NEW s, IsSeq(s), s # <<>>
  PROVE  /\ IsSeq(Tail(s)) /\ Len(Tail(s)) + 1 = Len(s) /\ Head(s) = s[1] /\ Len(Tail(s)) \in Nat
         /\ \A i \in 1..Len(Tail(s)) : Tail(s)[i] = s[i + 1]
<1> DEFINE V == {s[i] : i \in DOMAIN s}
<1>1. s \in Seq(V)  BY DEF IsSeq
<1> HIDE DEF V
<1>2. Len(s) \in Nat /\ Len(s) # 0  BY <1>1, EmptySeq, LenProperties
<1>3. Tail(s) \in Seq(V) /\ Len(Tail(s)) = Len(s) - 1 /\ (\A i \in 1..Len(Tail(s)) : Tail(s)[i] = s[i + 1])
      /\ Head(s) = s[1]
  BY <1>1, HeadTailProperties
<1>4. IsSeq(Tail(s)) /\ Len(Tail(s)) \in Nat  BY <1>3, SeqIs
<1>5. Len(Tail(s)) + 1 = Len(s)  BY <1>2, <1>3, <1>4
<1> QED  BY <1>3, <1>4, <1>5

\* What SubSeq takes.
LEMMA PartIs ==
  ASSUME NEW s, IsSeq(s), NEW m \in Nat, NEW n \in Nat, m + n <= Len(s)
  PROVE  /\ IsSeq(SubSeq(s, m + 1, m + n)) /\ Len(SubSeq(s, m + 1, m + n)) = n
         /\ \A i \in 1..n : SubSeq(s, m + 1, m + n)[i] = s[m + i]
<1> DEFINE V == {s[i] : i \in DOMAIN s}
           f == SubSeq(s, m + 1, m + n)
<1>1. s \in Seq(V)  BY DEF IsSeq
<1>2. Len(s) \in Nat  BY <1>1, LenProperties
<1> HIDE DEF V
<1>3. f \in Seq(V) /\ Len(f) = n
  <2>1. m + 1 \in 1..Len(s) + 1 /\ m + n \in m..Len(s)  BY <1>2
  <2> QED  BY <1>1, <1>2, <2>1, SubSeqProperties
<1>4. ASSUME NEW i \in 1..n PROVE f[i] = s[m + i]
  <2>1. m + 1 \in 1..Len(s) + 1 /\ m + n \in m..Len(s) /\ i \in 1..m + n - (m + 1) + 1  BY <1>2
  <2>2. f[i] = s[m + 1 + i - 1]  BY <1>1, <2>1, SubSeqProperties
  <2> QED  BY <2>2
<1> QED  BY <1>3, <1>4, SeqIs

LEMMA PartTaken ==
  ASSUME NEW s, IsSeq(s), NEW q \in Nat, NEW u \in Nat, q + u <= Len(s), NEW d, d = SubSeq(s, q + 1, q + u)
  PROVE  Len(d) = u /\ \A b \in 1..u : d[b] = s[q + b]
<1>1. Len(SubSeq(s, q + 1, q + u)) = u /\ \A b \in 1..u : SubSeq(s, q + 1, q + u)[b] = s[q + b]
  BY PartIs
<1> QED  BY <1>1

\* The empty file, a part of a file, and the whole image.
LEMMA NothingShows ==
  ASSUME NEW a \in DOMAIN Images, NEW d
  PROVE  Shows(<<>>, a, d)
<1>1. IsSeq(<<>>) /\ Len(<<>>) = 0  BY EmptySeq DEF IsSeq
<1>2. Len(Images[a]) \in Nat  BY ImageIs, SeqLength
<1> QED  BY <1>1, <1>2 DEF Shows

LEMMA PrefixShows ==
  ASSUME NEW a \in DOMAIN Images, NEW f, NEW d, Shows(f, a, d), NEW k \in 0..Len(f)
  PROVE  Shows(SubSeq(f, 1, k), a, d)
<1>1. IsSeq(f) /\ Len(f) \in Nat /\ Len(f) <= Len(Images[a]) /\ Len(Images[a]) \in Nat
  BY ImageIs, SeqLength DEF Shows
<1>2. 0 \in Nat /\ k \in Nat /\ 0 + k <= Len(f) /\ 0 + 1 = 1 /\ 0 + k = k  BY <1>1
<1> DEFINE g == SubSeq(f, 0 + 1, 0 + k)
<1>3. IsSeq(g) /\ Len(g) = k /\ \A i \in 1..k : g[i] = f[0 + i]  BY <1>1, <1>2, PartIs
<1>4. g = SubSeq(f, 1, k)  BY <1>2
<1> HIDE DEF g
<1>5. \A i \in 1..k : g[i] = f[i] /\ i \in 1..Len(f)  BY <1>1, <1>3
<1>6. Len(g) <= Len(Images[a])  BY <1>1, <1>3
<1>7. Shows(g, a, d)  BY <1>3, <1>5, <1>6 DEF Shows
<1> QED  BY <1>4, <1>7

LEMMA ImageShows ==
  ASSUME NEW a \in DOMAIN Images, NEW d
  PROVE  Shows(Images[a], a, d)
<1>1. IsSeq(Images[a]) /\ Len(Images[a]) \in Nat  BY ImageIs, SeqLength
<1> QED  BY <1>1 DEF Shows

\* A file that is not rotten and as long as an image is the image.
LEMMA WholeShown ==
  ASSUME NEW a \in DOMAIN Images, NEW f, NEW d, ~d, Shows(f, a, d), Len(f) = Len(Images[a])
  PROVE  f = Images[a]
<1>1. IsSeq(f) /\ IsSeq(Images[a])  BY ImageIs DEF Shows
<1>2. \A p \in 1..Len(f) : f[p] = Images[a][p]  BY DEF Shows
<1>3. f \in Seq({f[i] : i \in DOMAIN f}) /\ Images[a] \in Seq({Images[a][i] : i \in DOMAIN Images[a]})
  BY <1>1 DEF IsSeq
<1>4. DOMAIN f = 1..Len(f) /\ DOMAIN Images[a] = 1..Len(f)  BY <1>1, SeqLength
<1>5. f = [i \in 1..Len(f) |-> f[i]] /\ Images[a] = [i \in 1..Len(f) |-> Images[a][i]]
  BY <1>3, <1>4
<1> QED  BY <1>2, <1>5

----------------------------------------------------------------------------
(* Records within the image.                                               *)

\* A record is within the image, the trailer behind it.
LEMMA RecordWithin ==
  ASSUME NEW a \in DOMAIN Images, NEW i \in 1..Len(a.entries)
  PROVE  LET m == Len(a.entries[i].chunks)
         IN  /\ PartAt(a, i, 1) <= PartAt(a, i, m + 1) /\ PartAt(a, i, 1) \in Nat
             /\ PartAt(a, i, m + 1) + CrcSize <= RecordAt(a, Len(a.entries) + 1)
             /\ PartAt(a, i, m + 1) + CrcSize < Len(Images[a])
<1> DEFINE e == a.entries[i]
           m == Len(e.chunks)
           n == Len(a.entries)
           x == RecordHead(e.nameLen)
           y == Ends(e)[m + 1]
           z == Ends(e)[1]
           r == Records(a)[i]
           next == Records(a)[i + 1]
           end == Records(a)[n + 1]
           size == Len(Images[a])
           c == a.command
<1>1. Fits(a) /\ StubLen \in Nat  BY ImageIs
<1>2. EntryFits(a.algo, e)  BY <1>1, FileSums
<1>3. AreSums(Ends(e), 0, m, Widths(e)) /\ m \in Nat  BY <1>2, EntrySums
<1>4. z = 0  BY <1>3 DEF AreSums
<1>5. r \in Nat /\ next \in Nat /\ end \in Nat /\ next = r + x + y + CrcSize /\ next <= end /\ y \in Nat /\ x \in Nat
  BY <1>1, PlaceOfFile
<1>6. size = StubLen + end + c + TrailerSize /\ c \in Nat
  BY <1>1, ImageEnds, ImageIs
<1> HIDE DEF e, m, n, x, y, z, r, next, end, size, c
<1>7. /\ StubLen + r + x + z <= StubLen + r + x + y /\ StubLen + r + x + z \in Nat
      /\ StubLen + r + x + y + CrcSize <= StubLen + end /\ StubLen + r + x + y + CrcSize < size
  BY <1>1, <1>4, <1>5, <1>6 DEF CrcSize, TrailerSize
<1> QED  BY <1>7 DEF RecordAt, PartAt, e, m, n, x, y, z, r, end, size

----------------------------------------------------------------------------
(* The budget of packed bytes.                                             *)

\* The packed bytes up to an entry and a chunk, never more than in all.
LEMMA PacksAre ==
  ASSUME NEW a, Fits(a), NEW i \in 1..Len(a.entries)
  PROVE  LET e == a.entries[i]
             m == Len(e.chunks)
             p == PacksOf(a)
             q == Packs(e)
         IN  /\ p[1] = 0 /\ p[i] \in Nat /\ p[i + 1] \in Nat /\ CompressedTotal(a) \in Nat
             /\ p[i + 1] <= CompressedTotal(a) /\ p[i + 1] = p[i] + q[m + 1]
             /\ q[1] = 0 /\ q[m + 1] \in Nat
             /\ \A j \in 1..m : /\ q[j] \in Nat /\ q[j + 1] \in Nat /\ e.chunks[j].csize \in Nat
                                /\ q[j + 1] = q[j] + e.chunks[j].csize /\ q[j + 1] <= q[m + 1]
<1> DEFINE n == Len(a.entries)
           C(e) == [j \in 1..Len(e.chunks) |-> e.chunks[j].csize]
           w == [k \in 1..n |-> Total(C(a.entries[k]))]
           p == PacksOf(a)
<1>1. n \in Nat /\ \A k \in 1..n : EntryFits(a.algo, a.entries[k])  BY FileSums
<1>2. ASSUME NEW e, EntryFits(a.algo, e)
      PROVE  /\ AreSums(Packs(e), 0, Len(e.chunks), C(e)) /\ Total(C(e)) = Packs(e)[Len(e.chunks) + 1]
             /\ Total(C(e)) \in Nat
  <2> DEFINE m == Len(e.chunks)
             v == C(e)
  <2>1. m \in Nat /\ \A j \in 1..m : e.chunks[j].csize \in Nat  BY <1>2, EntrySums
  <2>2. v \in [1..m -> Nat]  BY <2>1
  <2>3. v \in Seq(Nat) /\ Len(v) = m
    <3> HIDE DEF v, m
    <3> QED  BY <2>1, <2>2, FunctionIsSeq
  <2>4. Packs(e) = PrefixSums(0, v)  BY DEF Packs
  <2> HIDE DEF v, m
  <2>5. AreSums(Packs(e), 0, m, v) /\ Total(v) = Packs(e)[m + 1]
    BY <2>3, <2>4, SumsAre DEF Total
  <2>6. Packs(e)[m + 1] \in Nat  BY <2>1, <2>5 DEF AreSums
  <2> QED  BY <2>5, <2>6 DEF v, m
<1>3. w \in [1..n -> Nat]  BY <1>1, <1>2
<1>4. p = PrefixSums(0, w) /\ CompressedTotal(a) = Total(w)  BY DEF PacksOf, CompressedTotal
<1>5. w \in Seq(Nat) /\ Len(w) = n
  <2> HIDE DEF w, n
  <2> QED  BY <1>1, <1>3, FunctionIsSeq
<1>6. AreSums(p, 0, n, w) /\ CompressedTotal(a) = p[n + 1]
  <2> HIDE DEF w, n, p
  <2> QED  BY <1>4, <1>5, SumsAre DEF Total
<1> DEFINE e == a.entries[i]
           m == Len(e.chunks)
           q == Packs(e)
           v == C(e)
<1>7. EntryFits(a.algo, e) /\ m \in Nat /\ \A j \in 1..m : e.chunks[j].csize \in Nat /\ v[j] = e.chunks[j].csize
  <2>1. EntryFits(a.algo, e)  BY <1>1
  <2> QED  BY <2>1, EntrySums
<1>8. AreSums(q, 0, m, v) /\ w[i] = q[m + 1]  BY <1>2, <1>7
<1>9. i \in 1..n  OBVIOUS
<1> HIDE DEF w, n, p, e, m, q, v
<1>10. i \in 1..n + 1 /\ i + 1 \in 1..n + 1 /\ n + 1 \in 1..n + 1 /\ i + 1 <= n + 1  BY <1>1, <1>9
<1>11. p[1] = 0 /\ p[i] \in Nat /\ p[i + 1] \in Nat /\ p[n + 1] \in Nat /\ p[i + 1] = p[i] + w[i]
  BY <1>6, <1>9, <1>10 DEF AreSums
<1>12. p[i + 1] <= p[n + 1]  BY <1>1, <1>6, <1>10, SumsGrow
<1>13. m + 1 \in 1..m + 1 /\ q[m + 1] \in Nat /\ q[1] = 0  BY <1>7, <1>8 DEF AreSums
<1>14. ASSUME NEW j \in 1..m
       PROVE  /\ q[j] \in Nat /\ q[j + 1] \in Nat /\ e.chunks[j].csize \in Nat
              /\ q[j + 1] = q[j] + e.chunks[j].csize /\ q[j + 1] <= q[m + 1]
  <2>1. j \in 1..m + 1 /\ j + 1 \in 1..m + 1 /\ j + 1 <= m + 1  BY <1>7
  <2>2. q[j] \in Nat /\ q[j + 1] \in Nat /\ q[j + 1] = q[j] + v[j]  BY <1>8, <2>1 DEF AreSums
  <2>3. q[j + 1] <= q[m + 1]  BY <1>7, <1>8, <1>13, <2>1, SumsGrow
  <2> QED  BY <1>7, <2>2, <2>3
<1> QED  BY <1>6, <1>8, <1>11, <1>12, <1>13, <1>14 DEF p, e, m, q, n

\* None before the first.
LEMMA NothingPacked ==
  ASSUME NEW a, Fits(a)
  PROVE  PacksOf(a)[1] = 0 /\ CompressedTotal(a) \in Nat
<1> DEFINE n == Len(a.entries)
           C(e) == [j \in 1..Len(e.chunks) |-> e.chunks[j].csize]
           w == [k \in 1..n |-> Total(C(a.entries[k]))]
<1>1. n \in Nat  BY FileSums
<1>2. PacksOf(a) = PrefixSums(0, w) /\ CompressedTotal(a) = Total(w)  BY DEF PacksOf, CompressedTotal
<1>3. CASE n # 0
  <2>1. 1 \in 1..n  BY <1>1, <1>3
  <2> QED  BY <2>1, PacksAre
<1>4. CASE n = 0
  <2>1. w \in [1..n -> Nat]  BY <1>4
  <2>2. w \in Seq(Nat) /\ Len(w) = n
    <3> HIDE DEF w, n
    <3> QED  BY <1>1, <2>1, FunctionIsSeq
  <2> HIDE DEF w
  <2>3. AreSums(PrefixSums(0, w), 0, n, w) /\ Total(w) = PrefixSums(0, w)[n + 1]
    BY <2>2, SumsAre DEF Total
  <2>4. n + 1 \in 1..n + 1 /\ n + 1 = 1  BY <1>4
  <2> QED  BY <1>2, <2>3, <2>4 DEF AreSums
<1> QED  BY <1>3, <1>4

----------------------------------------------------------------------------
(* Only the end of an image looks like a trailer.                          *)

\* load_archive has seen a trailer at the end of the file.
LEMMA TrailerIsThere ==
  ASSUME of \in DOMAIN Images, Shows(file, of, damaged), TrailerSeen
  PROVE  /\ Len(file) - TrailerSize \in Nat /\ Len(file) \in Nat
         /\ Unpack!Seen(Len(file) - TrailerSize).k = "trailer"
         /\ \A i \in 1..7 : Unpack!Seen(Len(file) - TrailerSize + i) = Pad
<1> DEFINE p == Len(file) - TrailerSize
<1>1. Len(file) \in Nat  BY SeqLength DEF Shows
<1>2. p >= 0 /\ Unpack!Seen(p).k = "trailer" /\ \A i \in 1..(TrailerSize - 1) : Unpack!Seen(p + i) = Pad
  BY SameLayout DEF TrailerSeen, Unpack!Reads
<1>3. p \in Nat /\ TrailerSize - 1 = 7  BY <1>1, <1>2 DEF TrailerSize
<1> QED  BY <1>1, <1>2, <1>3

\* The cells within a field, but for the first, are pads.
LEMMA PadSeen ==
  ASSUME of \in DOMAIN Images, Shows(file, of, damaged), NEW q \in Nat, NEW c, NEW width \in Nat,
         FieldLies(Images[of], q, c, width), NEW p \in Nat, q < p, p < q + width, p < Len(file)
  PROVE  Unpack!Seen(p) = Pad
<1> DEFINE i == p - q + 1
<1>1. i \in 2..width /\ q + i = p + 1  OBVIOUS
<1> HIDE DEF i
<1>2. Images[of][p + 1] = Pad  BY <1>1 DEF FieldLies
<1>3. Pad.k # "byte" /\ Pad.k \notin Rots  BY DEF Pad, Rots
<1> QED  BY <1>2, <1>3, FieldSeen

\* The first byte of a field is its value, or rotten.
LEMMA HeadSeen ==
  ASSUME of \in DOMAIN Images, Shows(file, of, damaged), NEW p \in Nat, NEW c, NEW width,
         FieldLies(Images[of], p, c, width), p < Len(file), c.k # "byte"
  PROVE  Unpack!Seen(p) = c \/ (damaged /\ Unpack!Seen(p) = Unpack!Damaged)
<1>1. Images[of][p + 1] = c  BY DEF FieldLies
<1> QED  BY <1>1, FieldSeen

\* The four bytes in front of the end of the records are no trailer, and no place in front
\* of them can be one that reaches over that end.
LEMMA NoTrailerInRecords ==
  ASSUME of \in DOMAIN Images, Shows(file, of, damaged), TrailerSeen
  PROVE  LET p == Len(file) - TrailerSize
             end == RecordAt(of, Len(of.entries) + 1)
         IN  ~ (p < end /\ end <= p + TrailerSize)
<1> DEFINE p == Len(file) - TrailerSize
           n == Len(of.entries)
           end == RecordAt(of, n + 1)
<1> SUFFICES ASSUME p < end, end <= p + TrailerSize PROVE FALSE  OBVIOUS
<1>1. p \in Nat /\ Len(file) \in Nat /\ Unpack!Seen(p).k = "trailer" /\ \A i \in 1..7 : Unpack!Seen(p + i) = Pad
  BY TrailerIsThere
<1>2. n \in Nat /\ end \in Nat /\ StubLen \in Nat  BY ImageIs, EndIs
<1>3. Pad.k = "pad" /\ Unpack!Damaged.k = "damaged" /\ Pad # Unpack!Damaged  BY DEF Pad, Unpack!Damaged
<1>4. CASE n = 0
  <2>1. end = StubLen + HeaderSize /\ FieldLies(Images[of], StubLen, HeaderOf(of), HeaderSize)
    BY <1>4, EndIs
  <2>2. StubLen < p /\ p < StubLen + HeaderSize /\ p < Len(file) /\ HeaderSize \in Nat
    BY <1>1, <1>2, <2>1 DEF HeaderSize, TrailerSize
  <2>3. Unpack!Seen(p) = Pad  BY <1>1, <1>2, <2>1, <2>2, PadSeen
  <2> QED  BY <1>1, <1>3, <2>3
<1>5. CASE n # 0
  <2> DEFINE e == of.entries[n]
             q == PartAt(of, n, Len(e.chunks) + 1)
             c == CrcCell(Bytes(e.name, SizeOf(e)))
  <2>1. n \in 1..n  BY <1>2, <1>5
  <2>2. q \in Nat /\ end = q + CrcSize /\ FieldLies(Images[of], q, c, CrcSize)  BY <2>1, RecordLies
  <2>3. c.k = "crc" /\ c # Pad  BY DEF CrcCell, Pad
  <2> HIDE DEF e, q, c, end, n, p
  <2>4. q < Len(file)  BY <1>1, <1>2, <2>2 DEF CrcSize, TrailerSize, p
  <2>5. Unpack!Seen(q) = c \/ Unpack!Seen(q) = Unpack!Damaged  BY <2>2, <2>3, <2>4, HeadSeen
  <2>6. CASE p < q
    <3>1. q - p \in 1..7 /\ p + (q - p) = q  BY <1>1, <2>2, <2>6 DEF CrcSize, TrailerSize
    <3>2. Unpack!Seen(q) = Pad  BY <1>1, <3>1
    <3> QED  BY <1>3, <2>3, <2>5, <3>2
  <2>7. CASE p = q  BY <1>1, <1>3, <2>3, <2>5, <2>7
  <2>8. CASE q < p
    <3>1. p < q + CrcSize /\ p < Len(file) /\ CrcSize \in Nat  BY <1>1, <2>2, <2>8 DEF CrcSize, TrailerSize, p
    <3>2. Unpack!Seen(p) = Pad  BY <1>1, <2>2, <2>8, <3>1, PadSeen
    <3> QED  BY <1>1, <1>3, <3>2
  <2> QED  BY <1>1, <2>2, <2>6, <2>7, <2>8
<1> QED  BY <1>4, <1>5

\* A file in which all records lie and that ends with what looks like a trailer is whole.
LEMMA WholeFile ==
  ASSUME of \in DOMAIN Images, Shows(file, of, damaged), TrailerSeen,
         RecordAt(of, Len(of.entries) + 1) <= Len(file)
  PROVE  Len(file) = Len(Images[of])
<1> DEFINE p == Len(file) - TrailerSize
           end == RecordAt(of, Len(of.entries) + 1)
           c == of.command
           size == Len(Images[of])
<1>1. p \in Nat /\ Len(file) \in Nat /\ p + TrailerSize = Len(file) /\ p < Len(file) /\ Unpack!Seen(p).k = "trailer"
  BY TrailerIsThere DEF TrailerSize
<1>2. size = end + c + TrailerSize /\ size \in Nat /\ end \in Nat /\ Len(file) <= size  BY EndIs DEF Shows
<1>3. c \in Nat /\ (c # 0 => FieldLies(Images[of], end, CommandCell, c))  BY EndIs, ImageIs
<1>4. ~ (p < end)  BY <1>1, NoTrailerInRecords
<1>5. CommandCell.k = "command" /\ Pad.k = "pad" /\ Unpack!Damaged.k = "damaged"
  BY DEF CommandCell, Pad, Unpack!Damaged
<1> HIDE DEF p, end, c, size
<1>6. ASSUME p < end + c PROVE FALSE
  <2>1. c # 0  BY <1>1, <1>2, <1>3, <1>4, <1>6
  <2>2. CASE p = end
    <3>1. Unpack!Seen(p) = CommandCell \/ Unpack!Seen(p) = Unpack!Damaged
      BY <1>1, <1>3, <1>5, <2>1, <2>2, HeadSeen
    <3> QED  BY <1>1, <1>5, <3>1
  <2>3. CASE p # end
    <3>1. end < p  BY <1>1, <1>2, <1>4, <2>3
    <3>2. Unpack!Seen(p) = Pad  BY <1>1, <1>2, <1>3, <1>6, <2>1, <3>1, PadSeen
    <3> QED  BY <1>1, <1>5, <3>2
  <2> QED  BY <2>2, <2>3
<1>7. Len(file) = size  BY <1>1, <1>2, <1>3, <1>6 DEF TrailerSize
<1> QED  BY <1>7 DEF size

----------------------------------------------------------------------------
(* What write_entry decodes.                                               *)

\* The data of a chunk, decoded, as Decode has it.
Piece(algo, c) ==
  IF algo = Stored
  THEN [i \in 1..Len(c.data) |-> IF c.data[i].k = "byte" THEN c.data[i].b ELSE Unpack!DamagedByte]
  ELSE IF c.usize = 0 THEN <<>>
  ELSE IF c.data[1].k = "packed" THEN c.data[1].plain ELSE <<Unpack!DamagedByte>>

\* A chunk that is not rotten decodes to the bytes it was made from.
LEMMA PieceIs ==
  ASSUME NEW algo, NEW e, EntryFits(algo, e), NEW j \in 1..Len(e.chunks),
         NEW c, NEW rotten, ~rotten, ChunkRead(algo, e, j, c, rotten)
  PROVE  LET u == e.chunks[j].usize
         IN  /\ IsSeq(Piece(algo, c)) /\ Len(Piece(algo, c)) = u
             /\ \A b \in 1..u : Piece(algo, c)[b] = <<e.name, Bases(e)[j] + b>>
<1> DEFINE w == e.chunks[j]
           u == w.usize
           f == Piece(algo, c)
           V == {<<e.name, Bases(e)[j] + b>> : b \in 1..u}
<1>1. u \in Nat /\ w.csize \in Nat /\ (w.csize = 0 <=> u = 0) /\ (algo = Stored => w.csize = u)
  <2>1. j \in DOMAIN e.chunks  BY LenProperties DEF EntryFits
  <2> QED  BY <2>1 DEF EntryFits, ChunkFits
<1>2. c.usize = u  BY DEF ChunkRead
<1>3. CASE algo = Stored
  <2>1. Len(c.data) = u /\ \A b \in 1..u : c.data[b] = ByteCell(<<e.name, Bases(e)[j] + b>>)
    BY <1>1, <1>3 DEF ChunkRead
  <2>2. f = [i \in 1..u |-> IF c.data[i].k = "byte" THEN c.data[i].b ELSE Unpack!DamagedByte]
    BY <1>3, <2>1 DEF Piece
  <2>3. \A b \in 1..u : c.data[b].k = "byte" /\ c.data[b].b = <<e.name, Bases(e)[j] + b>>
    <3>1. \A x : ByteCell(x).k = "byte" /\ ByteCell(x).b = x  BY DEF ByteCell
    <3> HIDE DEF u
    <3> QED  BY <2>1, <3>1
  <2>4. \A b \in 1..u : f[b] = <<e.name, Bases(e)[j] + b>>  BY <2>2, <2>3
  <2>5. f = [i \in 1..u |-> f[i]]  BY <2>2
  <2> HIDE DEF f, u
  <2>6. IsSeq(f) /\ Len(f) = u  BY <1>1, <2>5, SeqFrom
  <2> QED  BY <2>4, <2>6 DEF f, u
<1>4. CASE algo # Stored /\ u = 0
  <2>1. f = <<>>  BY <1>2, <1>4 DEF Piece
  <2>2. IsSeq(<<>>) /\ Len(<<>>) = 0  BY EmptySeq DEF IsSeq
  <2> QED  BY <1>4, <2>1, <2>2
<1>5. CASE algo # Stored /\ u # 0
  <2> DEFINE s == Slice(e.name, Bases(e)[j], u)
  <2>1. c.data[1] = PackedCell(s)  BY <1>1, <1>5 DEF ChunkRead
  <2>2. f = s  BY <1>2, <1>5, <2>1 DEF Piece, PackedCell
  <2>3. \A b \in 1..u : s[b] = <<e.name, Bases(e)[j] + b>>  BY DEF Slice
  <2>4. s = [i \in 1..u |-> s[i]]  BY DEF Slice
  <2> HIDE DEF s, u
  <2>5. IsSeq(s) /\ Len(s) = u  BY <1>1, <2>4, SeqFrom
  <2> QED  BY <2>2, <2>3, <2>5 DEF u
<1> QED  BY <1>3, <1>4, <1>5

\* From chunks that are not rotten the bytes of the file come out.
LEMMA DecodeIs ==
  ASSUME NEW e, EntryFits(header.algo, e), NEW r, NEW rotten, ~rotten, ChunksRead(header.algo, e, r.chunks, rotten),
         Len(r.chunks) = Len(e.chunks)
  PROVE  Unpack!Decode(r) = Bytes(e.name, SizeOf(e))
<1> DEFINE algo == header.algo
           m == Len(e.chunks)
           ss == [j \in 1..m |-> Piece(algo, r.chunks[j])]
           u == Usizes(e)
           b == Bases(e)
           f == FlattenSeq(ss)
           g == Bytes(e.name, SizeOf(e))
<1>1. Unpack!Decode(r) = f
  <2>1. Unpack!Decode(r) = FlattenSeq([j \in 1..Len(r.chunks) |-> Piece(algo, r.chunks[j])])
    BY SameSums, SameLayout DEF Unpack!Decode, Piece
  <2> QED  BY <2>1
<1>2. m \in Nat /\ AreSums(b, 0, m, u) /\ SizeOf(e) = b[m + 1]  BY EntrySums
<1>3. ASSUME NEW j \in 1..m
      PROVE  /\ IsSeq(ss[j]) /\ Len(ss[j]) = u[j]
             /\ \A k \in 1..u[j] : ss[j][k] = <<e.name, b[j] + k>>
  <2>1. ChunkRead(algo, e, j, r.chunks[j], rotten)  BY DEF ChunksRead
  <2>2. ss[j] = Piece(algo, r.chunks[j]) /\ u[j] = e.chunks[j].usize  BY DEF Usizes
  <2> DEFINE v == e.chunks[j].usize
             p == Piece(algo, r.chunks[j])
             c == r.chunks[j]
  <2>3. EntryFits(algo, e)  OBVIOUS
  <2>4. IsSeq(p) /\ Len(p) = v /\ \A k \in 1..v : p[k] = <<e.name, b[j] + k>>
    <3> HIDE DEF c, algo, ss, u, f, g
    <3>1. ChunkRead(algo, e, j, c, rotten)  BY <2>1 DEF c
    <3>2. IsSeq(Piece(algo, c)) /\ Len(Piece(algo, c)) = v
          /\ \A k \in 1..v : Piece(algo, c)[k] = <<e.name, b[j] + k>>
      BY <2>3, <3>1, PieceIs
    <3>3. p = Piece(algo, c)  BY DEF c
    <3> HIDE DEF p, v, b
    <3> QED  BY <3>2, <3>3
  <2> HIDE DEF ss, u, v, p
  <2> QED  BY <2>2, <2>4 DEF v, p
<1>4. IsSeq(ss) /\ Len(ss) = m
  <2>1. ss = [j \in 1..m |-> ss[j]]  OBVIOUS
  <2> HIDE DEF ss, m
  <2> QED  BY <1>2, <2>1, SeqFrom
<1>5. u = [j \in 1..m |-> u[j]]  BY DEF Usizes
<1>6. g = [i \in 1..SizeOf(e) |-> <<e.name, i>>]  BY DEF Bytes
<1> HIDE DEF m, ss, u, b, f, g, algo
<1>7. Lengths(m, ss) = u  BY <1>3, <1>5 DEF Lengths
<1>8. /\ IsSeq(f) /\ Len(f) = b[m + 1]
      /\ \A j \in 1..m : \A k \in 1..Len(ss[j]) : f[b[j] + k] = ss[j][k]
  BY <1>2, <1>3, <1>4, <1>7, Flattened DEF f
<1>9. ASSUME NEW x \in 1..b[m + 1] PROVE f[x] = <<e.name, x>>
  <2>1. PICK j \in 1..m : \E k \in 1..u[j] : x = b[j] + k  BY <1>2, Covered
  <2>2. PICK k \in 1..u[j] : x = b[j] + k  BY <2>1
  <2>3. f[b[j] + k] = ss[j][k] /\ ss[j][k] = <<e.name, b[j] + k>>  BY <1>3, <1>8, <2>2
  <2> QED  BY <2>2, <2>3
<1>10. f = [i \in 1..b[m + 1] |-> f[i]]
  <2>1. DOMAIN f = 1..Len(f)  BY <1>8, SeqLength
  <2>2. f \in Seq({f[i] : i \in DOMAIN f})  BY <1>8 DEF IsSeq
  <2>3. f = [i \in DOMAIN f |-> f[i]]  BY <2>2
  <2> QED  BY <1>8, <2>1, <2>3
<1>11. f = g  BY <1>2, <1>6, <1>9, <1>10
<1> QED  BY <1>1, <1>11 DEF g

\* The bytes of a file, and the first k of them.
LEMMA BytesAre ==
  ASSUME NEW name, NEW n \in Nat
  PROVE  IsSeq(Bytes(name, n)) /\ Len(Bytes(name, n)) = n
         /\ \A k \in 0..n : SubSeq(Bytes(name, n), 1, k) = Bytes(name, k)
<1> DEFINE f == Bytes(name, n)
<1>1. f = [i \in 1..n |-> f[i]] /\ \A i \in 1..n : f[i] = <<name, i>>  BY DEF Bytes
<1> HIDE DEF f
<1>2. IsSeq(f) /\ Len(f) = n  BY <1>1, SeqFrom
<1>3. ASSUME NEW k \in 0..n PROVE SubSeq(f, 1, k) = Bytes(name, k)
  <2> DEFINE g == SubSeq(f, 1, k)
  <2>1. 0 \in Nat /\ k \in Nat /\ 0 + k <= Len(f) /\ 0 + 1 = 1 /\ 0 + k = k  BY <1>2
  <2>2. IsSeq(SubSeq(f, 0 + 1, 0 + k)) /\ Len(SubSeq(f, 0 + 1, 0 + k)) = k
        /\ \A i \in 1..k : SubSeq(f, 0 + 1, 0 + k)[i] = f[0 + i]
    BY <1>2, <2>1, PartIs
  <2>3. IsSeq(g) /\ Len(g) = k /\ \A i \in 1..k : g[i] = f[0 + i]  BY <2>1, <2>2
  <2> HIDE DEF g
  <2>4. \A i \in 1..k : g[i] = <<name, i>>
    <3> SUFFICES ASSUME NEW i \in 1..k PROVE g[i] = <<name, i>>  OBVIOUS
    <3>1. 0 + i = i /\ i \in 1..n  OBVIOUS
    <3> QED  BY <1>1, <2>3, <3>1
  <2>5. DOMAIN g = 1..k /\ g \in Seq({g[i] : i \in DOMAIN g})  BY <2>3, SeqLength DEF IsSeq
  <2>6. g = [i \in 1..k |-> g[i]]  BY <2>5
  <2>7. g = [i \in 1..k |-> <<name, i>>]  BY <2>4, <2>6
  <2> QED  BY <2>7 DEF g, Bytes
<1> QED  BY <1>2, <1>3 DEF f

----------------------------------------------------------------------------
(* The reader keeps to the records.                                        *)

Frozen == UNCHANGED <<file, of, durable, link, job, wpos, packing, reported, damaged, runs>>

\* unpack reads the file and leaves it as it is.
LEMMA FrozenIs ==
  ASSUME Frozen
  PROVE  /\ file' = file /\ of' = of /\ damaged' = damaged
         /\ Sound' = Sound /\ TrailerSeen' = TrailerSeen
<1>1. file' = file /\ of' = of /\ damaged' = damaged /\ reported' = reported /\ link' = link
  BY DEF Frozen
<1>2. Sound' = Sound  BY <1>1 DEF Sound
<1>3. TrailerSeen' = TrailerSeen  BY <1>1 DEF TrailerSeen, Unpack!Reads, Unpack!Seen
<1> QED  BY <1>1, <1>2, <1>3

\* A file that pack reported is the whole image.
LEMMA SoundIs ==
  ASSUME OnFile, Safe, Sound
  PROVE  of \in DOMAIN Images /\ file = Images[of] /\ ~damaged /\ Shows(file, of, damaged)
         /\ Len(file) = Len(Images[of]) /\ Len(file) <= MaxSfxInput
  BY DEF OnFile, Safe, Sound, Image

\* What is refused was no sound file.
LEMMA RefuseOnTrack ==
  ASSUME Frozen, Unpack!Refuse, dest = <<>>, ~Sound
  PROVE  OnTrack'
<1>1. reading' = "refused" /\ dest' = <<>>  BY DEF Unpack!Refuse
<1>2. ~Sound'  BY FrozenIs
<1> QED
  BY <1>1, <1>2 DEF OnTrack, Opened, Unwritten, InHeader, InArchive, InFile, InRecord, Accepted, InEntries, Stopped

\* load_archive: the trailer leads to the header, or to a place without one.
LEMMA OpenOnTrack ==
  ASSUME OnFile, Safe, OnTrack, Frozen, Unpack!Open
  PROVE  OnTrack'
<1> DEFINE p == Len(file) - TrailerSize
           off == Unpack!Seen(p).off
           accepted == Len(file) <= MaxSfxInput /\ TrailerSeen /\ off + TrailerSize <= Len(file)
<1>1. /\ reading = "idle" /\ entries = <<>> /\ dest = <<>>
      /\ IF accepted
         THEN reading' = "header" /\ at' = off /\ UNCHANGED <<header, record, entries, dest>>
         ELSE Unpack!Refuse
  BY SameLayout DEF Unpack!Open, OnTrack, Unwritten, TrailerSeen
<1>2. ASSUME TrailerSeen PROVE of \in DOMAIN Images
  <2> SUFFICES ASSUME of \notin DOMAIN Images PROVE FALSE  OBVIOUS
  <2>1. file = <<>>  BY DEF OnFile
  <2>2. Len(file) = 0  BY <2>1
  <2>3. Len(file) - TrailerSize >= 0  BY <1>2 DEF TrailerSeen, Unpack!Reads
  <2> QED  BY <2>2, <2>3 DEF TrailerSize
<1>3. ASSUME Sound PROVE accepted /\ off = StubLen
  <2>1. of \in DOMAIN Images /\ Shows(file, of, damaged) /\ ~damaged /\ Len(file) = Len(Images[of])
        /\ Len(file) <= MaxSfxInput
    BY <1>3, SoundIs
  <2> DEFINE end == RecordAt(of, Len(of.entries) + 1)
             c == TrailerCell(StubLen)
             n == of.command
             first == RecordAt(of, 1)
  <2>2. /\ Len(file) = end + n + TrailerSize /\ end \in Nat /\ n \in Nat /\ StubLen \in Nat
        /\ first = StubLen + HeaderSize /\ first <= end
        /\ FieldLies(Images[of], end + n, c, TrailerSize)
    BY <2>1, EndIs, ImageIs
  <2>3. c.k = "trailer" /\ c.off = StubLen  BY DEF TrailerCell
  <2> HIDE DEF end, c, n, first, p, off
  <2>4. p = end + n /\ p \in Nat /\ TrailerSize \in Nat \ {0} /\ p + TrailerSize <= Len(file)
        /\ StubLen + TrailerSize <= Len(file)
    BY <2>2 DEF p, TrailerSize, HeaderSize
  <2>5. Unpack!Reads(p, TrailerSize, c.k) /\ Unpack!Seen(p) = c
    BY <2>1, <2>2, <2>3, <2>4, FieldReads
  <2> QED  BY <2>1, <2>3, <2>4, <2>5 DEF TrailerSeen, p, off
<1>4. CASE ~accepted
  <2>1. ~Sound  BY <1>3, <1>4
  <2> HIDE DEF accepted
  <2> QED  BY <1>1, <1>4, <2>1, RefuseOnTrack
<1>5. CASE accepted
  <2>1. reading' = "header" /\ at' = off /\ entries' = <<>> /\ dest' = <<>>  BY <1>1, <1>5
  <2>2. of \in DOMAIN Images  BY <1>2, <1>5
  <2>3. Shows(file, of, damaged)  BY <2>2 DEF OnFile
  <2>4. off = StubLen \/ Unpack!Seen(off).k # "header"
    <3>1. p \in Nat /\ p < Len(file) /\ Unpack!Seen(p).k = "trailer"
      BY <1>5, <2>2, <2>3, TrailerIsThere DEF TrailerSize
    <3> DEFINE image == Images[of]
    <3>2. Unpack!Seen(p) = Unpack!Looks(image[p + 1]) /\ p + 1 \in DOMAIN image
      <4>1. Unpack!Damaged.k # "trailer"  BY DEF Unpack!Damaged
      <4> QED  BY <2>2, <2>3, <3>1, <4>1, SeenIs
    <3>3. off = StubLen \/ ~ (off + 1 \in DOMAIN image /\ Unpack!Looks(image[off + 1]).k = "header")
      BY <2>2, <3>1, <3>2, InsideAssumption
    <3>4. ASSUME Unpack!Seen(off).k = "header"
          PROVE  off + 1 \in DOMAIN image /\ Unpack!Looks(image[off + 1]).k = "header"
      <4> HIDE DEF off
      <4>1. Unpack!Seen(off) = Unpack!Looks(CellAt([image |-> file], off))
        BY SameLayout DEF Unpack!Seen
      <4>2. off + 1 \in DOMAIN file
        <5> SUFFICES ASSUME off + 1 \notin DOMAIN file PROVE FALSE  OBVIOUS
        <5>1. CellAt([image |-> file], off) = [k |-> "eof"]  BY DEF CellAt
        <5>2. Unpack!Looks([k |-> "eof"]).k = "eof"  BY DEF Unpack!Looks
        <5> QED  BY <3>4, <4>1, <5>1, <5>2
      <4>3. Unpack!Seen(off) = Unpack!Looks(file[off + 1])  BY <4>1, <4>2 DEF CellAt
      <4>4. DOMAIN file = 1..Len(file) /\ Len(file) \in Nat /\ Len(image) \in Nat
            /\ DOMAIN image = 1..Len(image) /\ Len(file) <= Len(image)
        BY <2>2, <2>3, ImageIs, SeqLength DEF Shows
      <4>5. off + 1 \in 1..Len(file) /\ off + 1 \in DOMAIN image  BY <4>2, <4>4
      <4>6. file[off + 1] = image[off + 1] \/ file[off + 1] = Unpack!Damaged
        BY <2>3, <4>5 DEF Shows
      <4>7. Unpack!Looks(Unpack!Damaged).k # "header"  BY DEF Unpack!Looks, Unpack!Damaged
      <4> QED  BY <3>4, <4>3, <4>5, <4>6, <4>7
    <3> QED  BY <3>3, <3>4
  <2>5. InHeader'
    <3>1. Unpack!Seen(at)' = Unpack!Seen(off)
      <4>1. file' = file /\ at' = off  BY <2>1, FrozenIs
      <4> HIDE DEF off
      <4> QED  BY <4>1 DEF Unpack!Seen
    <3>2. Sound' = Sound  BY FrozenIs
    <3> HIDE DEF off
    <3>3. Sound => off = StubLen  BY <1>3
    <3> QED  BY <2>1, <2>4, <3>1, <3>2, <3>3 DEF InHeader
  <2>6. Opened'  BY <1>5, <2>2, FrozenIs DEF Opened
  <2> HIDE DEF off, accepted
  <2> QED
    BY <2>1, <2>5, <2>6 DEF OnTrack, Unwritten, InArchive, InFile, InRecord, Accepted, InEntries, Stopped
<1> QED  BY <1>4, <1>5

\* From the header to the first record.
LEMMA HeaderOnTrack ==
  ASSUME OnFile, Safe, OnTrack, Frozen, Unpack!ReadHeader
  PROVE  OnTrack'
<1> DEFINE h == Unpack!Seen(at)
           reads == Unpack!Reads(at, HeaderSize, "header")
<1>1. /\ reading = "header" /\ entries = <<>> /\ dest = <<>>
      /\ IF reads
         THEN /\ reading' = "file" /\ at' = at + HeaderSize
              /\ header' = [algo |-> h.algo, flag |-> h.flag, count |-> h.count, run |-> h.run,
                           budget |-> h.packed]
              /\ UNCHANGED <<record, entries, dest>>
         ELSE Unpack!Refuse
  BY SameLayout DEF Unpack!ReadHeader, OnTrack, Unwritten
<1>2. of \in DOMAIN Images /\ TrailerSeen  BY <1>1 DEF OnTrack, Opened
<1>3. Shows(file, of, damaged)  BY <1>2 DEF OnFile
<1>4. at = StubLen \/ (~Sound /\ h.k # "header")  BY <1>1 DEF OnTrack, InHeader
<1>5. /\ StubLen \in Nat /\ FieldLies(Images[of], StubLen, HeaderOf(of), HeaderSize)
      /\ RecordAt(of, 1) = StubLen + HeaderSize
  BY <1>2, EndIs, ImageIs
<1>6. HeaderOf(of).k = "header"  BY DEF HeaderOf, HeaderCell
<1>7. Len(file) \in Nat /\ HeaderSize \in Nat \ {0}  BY <1>3, SeqLength DEF Shows, HeaderSize
<1>8. CASE ~reads
  <2>1. ASSUME Sound PROVE FALSE
    <3>1. at = StubLen /\ ~damaged /\ Len(file) = Len(Images[of])  BY <1>4, <2>1, SoundIs
    <3>2. StubLen + HeaderSize <= Len(file)
      <4> DEFINE end == RecordAt(of, Len(of.entries) + 1)
                 c == of.command
                 first == RecordAt(of, 1)
      <4>1. Len(file) = end + c + TrailerSize /\ end \in Nat /\ c \in Nat /\ first <= end
            /\ first = StubLen + HeaderSize
        BY <1>2, <3>1, EndIs, ImageIs
      <4> HIDE DEF end, c, first
      <4> QED  BY <1>5, <4>1 DEF TrailerSize, HeaderSize
    <3>3. Unpack!Reads(StubLen, HeaderSize, HeaderOf(of).k)
      BY <1>2, <1>3, <1>5, <1>6, <1>7, <3>1, <3>2, FieldReads
    <3> QED  BY <1>6, <1>8, <3>1, <3>3
  <2> QED  BY <1>1, <1>8, <2>1, RefuseOnTrack
<1>9. CASE reads
  <2>1. h.k = "header" /\ at + HeaderSize <= Len(file) /\ at = StubLen
    BY <1>4, <1>9, SameLayout DEF Unpack!Reads
  <2>2. at < Len(file) /\ Images[of][at + 1] = HeaderOf(of)  BY <1>5, <1>7, <2>1 DEF FieldLies, HeaderSize
  <2>3. h = HeaderOf(of)
    <3>1. Unpack!Damaged.k # "header"  BY DEF Unpack!Damaged
    <3> QED  BY <1>2, <1>3, <1>5, <1>6, <2>1, <2>2, <3>1, FieldSeen
  <2>4. /\ h.algo = of.algo /\ h.flag = (of.command > 0) /\ h.count = Len(of.entries)
        /\ h.run = (IF of.command > 0 THEN RunAfterOffset(of) ELSE 0) /\ h.packed = CompressedTotal(of)
    BY <2>3 DEF HeaderOf, HeaderCell
  <2>5. /\ reading' = "file" /\ at' = RecordAt(of, 1) /\ at' <= Len(file) /\ entries' = <<>> /\ dest' = <<>>
        /\ header' = [algo |-> h.algo, flag |-> h.flag, count |-> h.count, run |-> h.run,
                      budget |-> h.packed]
    BY <1>1, <1>5, <1>9, <2>1
  <2> HIDE DEF h, reads
  <2>6. header' = HeaderTaken(of, header'.budget) /\ header'.budget = CompressedTotal(of)
    <3>1. header' = HeaderTaken(of, CompressedTotal(of))  BY <2>4, <2>5 DEF HeaderTaken
    <3> QED  BY <3>1, HeaderIs, RecordIs
  <2>7. EntriesRead(of, 0, <<>>, damaged)
    <3>1. IsSeq(<<>>) /\ Len(<<>>) = 0  BY EmptySeq DEF IsSeq
    <3>2. Len(of.entries) \in Nat  BY <1>2, ImageIs
    <3> QED  BY <3>1, <3>2 DEF EntriesRead
  <2>8. PacksOf(of)[1] = 0 /\ CompressedTotal(of) + 0 = CompressedTotal(of) /\ CompressedTotal(of) \in Int
    <3>1. Fits(of)  BY <1>2, ImageIs
    <3> QED  BY <3>1, NothingPacked
  <2>9. Len(entries') + 1 = 1  BY <2>5
  <2>10. InArchive'  BY <2>5, <2>6, <2>7, <2>8, FrozenIs DEF InArchive
  <2>11. InFile'  BY <2>5, <2>6, <2>8, <2>9, FrozenIs DEF InFile
  <2>12. Opened'  BY <1>2, FrozenIs DEF Opened
  <2> QED
    BY <2>5, <2>10, <2>11, <2>12 DEF OnTrack, Unwritten, InHeader, InRecord, Accepted, InEntries, Stopped
<1> QED  BY <1>8, <1>9

\* From a record to its first chunk.
LEMMA RecordOnTrack ==
  ASSUME OnFile, Safe, OnTrack, Frozen, Unpack!ReadRecord
  PROVE  OnTrack'
<1> DEFINE r == Unpack!Seen(at)
           i == Len(entries) + 1
           e == of.entries[i]
           x == RecordHead(e.nameLen)
           reads == Unpack!Reads(at, 1, "record") /\ Unpack!Reads(at, RecordHead(r.nameLen), "record")
<1>1. /\ reading = "file" /\ Len(entries) < header.count /\ dest = <<>>
      /\ IF reads
         THEN /\ reading' = "chunk" /\ at' = at + RecordHead(r.nameLen)
              /\ record' = [name |-> r.name, nameLen |-> r.nameLen, usz |-> r.usz,
                            count |-> r.count, sum |-> 0, chunks |-> <<>>]
              /\ UNCHANGED <<header, entries, dest>>
         ELSE Unpack!Refuse
  BY SameLayout DEF Unpack!ReadRecord, OnTrack, Unwritten
<1>2. of \in DOMAIN Images /\ TrailerSeen  BY <1>1 DEF OnTrack, Opened
<1>3. Shows(file, of, damaged)  BY <1>2 DEF OnFile
<1>4. /\ header.algo = of.algo /\ header.count = Len(of.entries)
      /\ header.flag = (of.command > 0) /\ header.run = (IF of.command > 0 THEN RunAfterOffset(of) ELSE 0)
      /\ EntriesRead(of, 0, entries, damaged) /\ at = RecordAt(of, i)
      /\ header.budget + PacksOf(of)[i] = CompressedTotal(of) /\ header.budget \in Int
      /\ header = HeaderTaken(of, header.budget)
  <2>1. /\ header = HeaderTaken(of, header.budget) /\ header.budget \in Int
        /\ EntriesRead(of, 0, entries, damaged)
    BY <1>1 DEF OnTrack, InArchive
  <2>2. at = RecordAt(of, i) /\ header.budget + PacksOf(of)[i] = CompressedTotal(of)
    BY <1>1 DEF OnTrack, InFile
  <2> QED  BY <2>1, <2>2, HeaderIs, RecordIs
<1>5. Len(entries) \in Nat  BY <1>4, SeqLength DEF EntriesRead
<1>6. Fits(of) /\ Len(of.entries) \in Nat  BY <1>2, ImageIs
<1>7. i \in 1..Len(of.entries)  BY <1>1, <1>4, <1>5, <1>6
<1>8. /\ EntryFits(of.algo, e) /\ Len(e.chunks) \in Nat
      /\ at \in Nat /\ x \in Nat \ {0} /\ PartAt(of, i, 1) = at + x
      /\ FieldLies(Images[of], at, RecordOf(e), x)
  BY <1>2, <1>4, <1>7, RecordLies
<1>9. RecordOf(e).k = "record" /\ "record" \notin Rots /\ RecordOf(e).name = e.name
      /\ RecordOf(e).nameLen = e.nameLen /\ RecordOf(e).usz = SizeOf(e) /\ RecordOf(e).count = Len(e.chunks)
  BY DEF RecordOf, RecordCell, Rots
<1>10. Len(file) \in Nat  BY <1>3, SeqLength DEF Shows
<1>11. at < Len(file) => r = RecordOf(e)
  <2>1. Images[of][at + 1] = RecordOf(e)  BY <1>8 DEF FieldLies
  <2> QED  BY <1>2, <1>3, <1>8, <1>9, <2>1, FieldSeen
<1>12. CASE ~reads
  <2>1. ASSUME Sound PROVE FALSE
    <3>1. ~damaged /\ Len(file) = Len(Images[of])  BY <2>1, SoundIs
    <3>2. PartAt(of, i, 1) <= Len(file)
      <4> DEFINE p == PartAt(of, i, 1)
                 q == PartAt(of, i, Len(e.chunks) + 1)
      <4>1. p <= q /\ p \in Nat /\ q \in Nat /\ q + CrcSize < Len(file)
        BY <1>2, <1>7, <3>1, RecordLies, RecordWithin
      <4> HIDE DEF p, q
      <4> QED  BY <1>10, <4>1 DEF CrcSize, p
    <3> HIDE DEF i, e, x
    <3>3. at + x <= Len(file) /\ at < Len(file)  BY <1>8, <1>10, <3>2
    <3>4. Unpack!Reads(at, x, "record") /\ r = RecordOf(e)
      BY <1>2, <1>3, <1>8, <1>9, <3>1, <3>3, FieldReads
    <3>5. RecordHead(r.nameLen) = x  BY <1>9, <3>4 DEF x
    <3>6. Unpack!Reads(at, 1, "record")
      BY <1>8, <1>9, <1>10, <3>3, <3>4 DEF Unpack!Reads
    <3> QED  BY <1>12, <3>4, <3>5, <3>6
  <2> QED  BY <1>1, <1>12, <2>1, RefuseOnTrack
<1>13. CASE reads
  <2>1. at + 1 <= Len(file) /\ at + RecordHead(r.nameLen) <= Len(file)
    BY <1>13 DEF Unpack!Reads
  <2>2. r = RecordOf(e)  BY <1>8, <1>10, <1>11, <2>1
  <2>3. at + RecordHead(r.nameLen) = PartAt(of, i, 1)  BY <1>8, <1>9, <2>2
  <2>4. /\ reading' = "chunk" /\ at' = PartAt(of, i, 1) /\ at' <= Len(file)
        /\ record' = RecordTaken(e, 0, <<>>)
        /\ header' = header /\ entries' = entries /\ dest' = <<>>
    BY <1>1, <1>9, <1>13, <2>1, <2>2, <2>3 DEF RecordTaken
  <2> HIDE DEF r, reads
  <2>5. Len(record'.chunks) + 1 = 1 /\ record'.chunks = <<>>
    <3>1. record'.chunks = <<>>  BY <2>4, HeaderIs, RecordIs
    <3> QED  BY <3>1, EmptySeq
  <2>6. Bases(e)[1] = 0  BY <1>8, EntrySums DEF AreSums
  <2>7. PacksOf(of)[i] \in Nat /\ CompressedTotal(of) \in Nat /\ Packs(e)[1] = 0  BY <1>6, <1>7, PacksAre
  <2>8. header.budget + PacksOf(of)[i] + Packs(e)[1] = CompressedTotal(of)
    <3> DEFINE t == header.budget + PacksOf(of)[i]
    <3>1. t \in Nat  BY <1>4, <2>7
    <3> QED  BY <1>4, <2>7, <3>1
  <2>9. ChunksRead(of.algo, e, <<>>, damaged)
    <3>1. IsSeq(<<>>) /\ Len(<<>>) = 0  BY EmptySeq DEF IsSeq
    <3> QED  BY <1>8, <3>1 DEF ChunksRead
  <2>10. InArchive'  BY <1>4, <2>4, FrozenIs DEF InArchive
  <2>11. InRecord'
    <3>1. i' = i /\ e' = e  BY <2>4, FrozenIs
    <3>2. record' = RecordTaken(e, Bases(e)[1], record'.chunks)  BY <2>4, <2>5, <2>6
    <3>3. i <= Len(of.entries)  BY <1>7
    <3> QED  BY <2>4, <2>5, <2>8, <2>9, <3>1, <3>2, <3>3, FrozenIs DEF InRecord
  <2>12. Opened'  BY <1>2, FrozenIs DEF Opened
  <2> QED
    BY <2>4, <2>10, <2>11, <2>12 DEF OnTrack, Unwritten, InHeader, InFile, Accepted, InEntries, Stopped
<1> QED  BY <1>12, <1>13

\* Where the reader is in a record, for the two steps that read on in it.
LEMMA RecordRead ==
  ASSUME OnFile, OnTrack, reading = "chunk"
  PROVE  LET i == Len(entries) + 1
             e == of.entries[i]
             j == Len(record.chunks) + 1
         IN  /\ of \in DOMAIN Images /\ TrailerSeen /\ Shows(file, of, damaged) /\ dest = <<>>
             /\ Len(entries) \in Nat /\ i \in 1..Len(of.entries) /\ Len(of.entries) \in Nat
             /\ Len(record.chunks) \in Nat /\ j \in 1..Len(e.chunks) + 1 /\ Len(e.chunks) \in Nat
             /\ Fits(of) /\ EntryFits(of.algo, e) /\ Len(file) \in Nat
             /\ header = HeaderTaken(of, header.budget) /\ header.budget \in Int
             /\ EntriesRead(of, 0, entries, damaged)
             /\ record = RecordTaken(e, Bases(e)[j], record.chunks)
             /\ ChunksRead(of.algo, e, record.chunks, damaged)
             /\ at = PartAt(of, i, j) /\ at <= Len(file)
             /\ header.budget + PacksOf(of)[i] + Packs(e)[j] = CompressedTotal(of)
<1> DEFINE i == Len(entries) + 1
           e == of.entries[i]
           j == Len(record.chunks) + 1
<1>1. of \in DOMAIN Images /\ TrailerSeen /\ dest = <<>>  BY DEF OnTrack, Opened, Unwritten
<1>2. Shows(file, of, damaged)  BY <1>1 DEF OnFile
<1>3. /\ header = HeaderTaken(of, header.budget) /\ header.budget \in Int
      /\ EntriesRead(of, 0, entries, damaged) /\ at <= Len(file)
  BY DEF OnTrack, InArchive
<1>4. /\ i <= Len(of.entries)
      /\ record = RecordTaken(e, Bases(e)[j], record.chunks)
      /\ ChunksRead(of.algo, e, record.chunks, damaged)
      /\ at = PartAt(of, i, j)
      /\ header.budget + PacksOf(of)[i] + Packs(e)[j] = CompressedTotal(of)
  BY DEF OnTrack, InRecord
<1>5. Len(entries) \in Nat /\ Len(file) \in Nat  BY <1>2, <1>3, SeqLength DEF EntriesRead, Shows
<1>6. Len(of.entries) \in Nat /\ Fits(of)  BY <1>1, ImageIs
<1>7. i \in 1..Len(of.entries)  BY <1>4, <1>5, <1>6
<1>8. EntryFits(of.algo, e) /\ Len(e.chunks) \in Nat  BY <1>1, <1>7, RecordLies
<1>9. Len(record.chunks) \in Nat /\ Len(record.chunks) <= Len(e.chunks)  BY <1>4, SeqLength DEF ChunksRead
<1>10. j \in 1..Len(e.chunks) + 1
  <2> DEFINE l == Len(record.chunks)
             m == Len(e.chunks)
  <2>1. l \in Nat /\ m \in Nat /\ l <= m  BY <1>8, <1>9
  <2> HIDE DEF l, m
  <2>2. l + 1 \in 1..m + 1  BY <2>1
  <2> QED  BY <2>2 DEF l, m
<1> QED  BY <1>1, <1>2, <1>3, <1>4, <1>5, <1>6, <1>7, <1>8, <1>9, <1>10

\* A chunk as the reader takes it from the file.
LEMMA ChunkIsRead ==
  ASSUME of \in DOMAIN Images, Shows(file, of, damaged), NEW i \in 1..Len(of.entries),
         NEW j \in 1..Len(of.entries[i].chunks), NEW u, NEW v, NEW d, NEW q
  PROVE  /\ u = of.entries[i].chunks[j].csize /\ v = of.entries[i].chunks[j].usize
         /\ q = PartAt(of, i, j) + ChunkHead /\ q + u <= Len(file) /\ d = SubSeq(file, q + 1, q + u)
         => ChunkRead(of.algo, of.entries[i], j, [csize |-> u, usize |-> v, data |-> d], damaged)
<1> DEFINE e == of.entries[i]
           w == e.chunks[j]
           image == Images[of]
<1>0. SUFFICES ASSUME u = w.csize, v = w.usize, q = PartAt(of, i, j) + ChunkHead,
                      q + u <= Len(file), d = SubSeq(file, q + 1, q + u)
               PROVE  ChunkRead(of.algo, e, j, [csize |-> u, usize |-> v, data |-> d], damaged)
  OBVIOUS
<1>1. /\ w.csize \in Nat /\ w.usize \in Nat /\ PartAt(of, i, j) \in Nat
      /\ ChunkLies(image, PartAt(of, i, j), e, of.algo, j)
  BY PartLies
<1>2. u \in Nat /\ q \in Nat  BY <1>0, <1>1 DEF ChunkHead
<1>3. DataLies(image, q, e, of.algo, j)  BY <1>0, <1>1 DEF ChunkLies
<1>4. IsSeq(file) /\ Len(file) \in Nat  BY SeqLength DEF Shows
<1>5. q + u <= Len(file) /\ d = SubSeq(file, q + 1, q + u)  BY <1>0
<1>6. Len(d) = u /\ \A b \in 1..u : d[b] = file[q + b]
  BY <1>2, <1>4, <1>5, PartTaken
<1>7. ASSUME ~damaged, NEW b \in 1..u PROVE d[b] = image[q + b]
  <2>1. q + b \in 1..Len(file)  BY <1>2, <1>4, <1>5
  <2>2. file[q + b] = image[q + b]  BY <1>7, <2>1 DEF Shows
  <2> QED  BY <1>6, <2>2
<1>8. ASSUME ~damaged, of.algo = Stored
      PROVE  \A b \in 1..u : d[b] = ByteCell(<<e.name, Bases(e)[j] + b>>)
  <2>1. \A b \in 1..u : image[q + b] = ByteCell(<<e.name, Bases(e)[j] + b>>)
    BY <1>0, <1>3, <1>8 DEF DataLies
  <2>2. \A b \in 1..u : d[b] = image[q + b]  BY <1>7, <1>8
  <2> HIDE DEF image, e
  <2> QED  BY <2>1, <2>2
<1>9. ASSUME ~damaged, of.algo # Stored, u # 0
      PROVE  d[1] = PackedCell(Slice(e.name, Bases(e)[j], v))
  <2>1. 1 \in 1..u  BY <1>2, <1>9
  <2>2. d[1] = image[q + 1]  BY <1>7, <1>9, <2>1
  <2>3. image[q + 1] = PackedCell(Slice(e.name, Bases(e)[j], w.usize))
    BY <1>0, <1>3, <1>9 DEF DataLies, FieldLies
  <2> QED  BY <1>0, <2>2, <2>3
<1> QED  BY <1>0, <1>6, <1>8, <1>9 DEF ChunkRead

\* From a chunk to the next, or to the CRC; the budget of packed bytes suffices.
LEMMA ChunkOnTrack ==
  ASSUME OnFile, Safe, OnTrack, Frozen, Unpack!ReadChunk
  PROVE  OnTrack'
<1> DEFINE i == Len(entries) + 1
           e == of.entries[i]
           j == Len(record.chunks) + 1
           w == e.chunks[j]
           c == Unpack!Seen(at)
           data == at + ChunkHead
           budget == header.budget
           fits == Unpack!Reads(at, ChunkHead, "chunk") /\ c.csize <= budget /\ data + c.csize <= Len(file)
           new == [csize |-> c.csize, usize |-> c.usize, data |-> SubSeq(file, data + 1, data + c.csize)]
<1>1. /\ reading = "chunk" /\ Len(record.chunks) < record.count
      /\ IF fits
         THEN /\ at' = data + c.csize
              /\ header' = [header EXCEPT !.budget = @ - c.csize]
              /\ record' = [record EXCEPT !.sum = @ + c.usize, !.chunks = Append(@, new)]
              /\ UNCHANGED <<reading, entries, dest>>
         ELSE Unpack!Refuse
  BY SameLayout DEF Unpack!ReadChunk, Unpack!Counted
<1>2. /\ of \in DOMAIN Images /\ TrailerSeen /\ Shows(file, of, damaged) /\ dest = <<>>
      /\ Len(entries) \in Nat /\ i \in 1..Len(of.entries) /\ Len(of.entries) \in Nat
      /\ Len(record.chunks) \in Nat /\ Len(e.chunks) \in Nat
      /\ Fits(of) /\ EntryFits(of.algo, e) /\ Len(file) \in Nat
  BY <1>1, RecordRead
<1>3. /\ header = HeaderTaken(of, budget) /\ budget \in Int
      /\ EntriesRead(of, 0, entries, damaged)
      /\ record = RecordTaken(e, Bases(e)[j], record.chunks)
      /\ ChunksRead(of.algo, e, record.chunks, damaged)
      /\ at = PartAt(of, i, j) /\ at <= Len(file)
      /\ budget + PacksOf(of)[i] + Packs(e)[j] = CompressedTotal(of)
  BY <1>1, RecordRead
<1>4. j \in 1..Len(e.chunks)
  <2>1. record.count = Len(e.chunks)  BY <1>3, HeaderIs, RecordIs
  <2> DEFINE l == Len(record.chunks)
             m == Len(e.chunks)
  <2>2. l \in Nat /\ m \in Nat /\ l < m  BY <1>1, <1>2, <2>1
  <2> HIDE DEF l, m
  <2>3. l + 1 \in 1..m  BY <2>2
  <2> QED  BY <2>3 DEF l, m
<1>5. /\ w.csize \in Nat /\ w.usize \in Nat /\ at \in Nat
      /\ PartAt(of, i, j + 1) = at + ChunkHead + w.csize
      /\ FieldLies(Images[of], at, ChunkCell(w), ChunkHead)
      /\ PartAt(of, i, j + 1) < Len(Images[of])
  BY <1>2, <1>3, <1>4, PartLies DEF ChunkLies
<1>6. ChunkCell(w).k = "chunk" /\ "chunk" \notin Rots /\ ChunkCell(w).csize = w.csize
      /\ ChunkCell(w).usize = w.usize
  BY DEF ChunkCell, Rots
<1>7. ChunkHead \in Nat \ {0}  BY DEF ChunkHead
<1>8. /\ PacksOf(of)[i] \in Nat /\ CompressedTotal(of) \in Nat
      /\ Packs(e)[j] \in Nat /\ Packs(e)[j + 1] \in Nat /\ Packs(e)[j + 1] = Packs(e)[j] + w.csize
      /\ PacksOf(of)[i] + Packs(e)[j + 1] <= CompressedTotal(of)
  <2> DEFINE p == PacksOf(of)[i]
             q == PacksOf(of)[i + 1]
             s == Packs(e)[Len(e.chunks) + 1]
             t == Packs(e)[j + 1]
             total == CompressedTotal(of)
  <2>1. p \in Nat /\ q \in Nat /\ total \in Nat /\ q <= total /\ q = p + s /\ s \in Nat
    BY <1>2, PacksAre
  <2>2. Packs(e)[j] \in Nat /\ t \in Nat /\ t = Packs(e)[j] + w.csize /\ t <= s
    BY <1>2, <1>4, PacksAre
  <2> HIDE DEF i, e, j, w, p, q, s, t, total
  <2>3. p + t <= total  BY <2>1, <2>2
  <2> USE DEF i, e, j, w
  <2> QED  BY <2>1, <2>2, <2>3 DEF p, t, total
<1>9. budget \in Int /\ w.csize <= budget
      /\ budget - w.csize + PacksOf(of)[i] + Packs(e)[j + 1] = CompressedTotal(of)
  <2> DEFINE p == PacksOf(of)[i]
             s == Packs(e)[j]
             t == Packs(e)[j + 1]
             total == CompressedTotal(of)
             u == w.csize
  <2>1. p \in Nat /\ s \in Nat /\ t \in Nat /\ total \in Nat /\ u \in Nat /\ t = s + u /\ p + t <= total
        /\ budget + p + s = total
    BY <1>3, <1>5, <1>8
  <2>0. budget \in Int  BY <1>3
  <2> HIDE DEF p, s, t, total, u, budget
  <2>2. u <= budget /\ budget - u + p + t = total  BY <2>0, <2>1
  <2> QED  BY <2>0, <2>2 DEF p, t, total, u
<1>10. CASE ~fits
  <2>1. ASSUME Sound PROVE FALSE
    <3>1. ~damaged /\ Len(file) = Len(Images[of])  BY <2>1, SoundIs
    <3> HIDE DEF i, e, j, w, c, data, budget, new
    <3>2. at + ChunkHead <= Len(file) /\ data + w.csize <= Len(file)
      BY <1>2, <1>5, <1>7, <3>1 DEF data
    <3>3. Unpack!Reads(at, ChunkHead, "chunk") /\ c = ChunkCell(w)
      BY <1>2, <1>5, <1>6, <1>7, <3>1, <3>2, FieldReads DEF c
    <3> QED  BY <1>6, <1>9, <1>10, <3>2, <3>3
  <2> QED  BY <1>1, <1>2, <1>10, <2>1, RefuseOnTrack
<1>11. CASE fits
  <2>1. at + ChunkHead <= Len(file) /\ data + c.csize <= Len(file)
    BY <1>11, SameLayout DEF Unpack!Reads
  <2>2. c = ChunkCell(w)
    <3>1. at < Len(file)  BY <1>2, <1>5, <1>7, <2>1
    <3>2. Images[of][at + 1] = ChunkCell(w)  BY <1>5 DEF FieldLies
    <3> HIDE DEF i, e, j, w, data, budget, new
    <3> QED  BY <1>2, <1>5, <1>6, <3>1, <3>2, FieldSeen
  <2>3. c.csize = w.csize /\ c.usize = w.usize  BY <1>6, <2>2
  <2>4. ChunkRead(of.algo, e, j, new, damaged)
    <3> DEFINE u == c.csize
               v == c.usize
               d == SubSeq(file, data + 1, data + u)
    <3>1. u = w.csize /\ v = w.usize /\ d = SubSeq(file, data + 1, data + u)
          /\ data + u <= Len(file) /\ data = PartAt(of, i, j) + ChunkHead
      BY <1>3, <2>1, <2>3
    <3> HIDE DEF u, v, d, data
    <3>2. ChunkRead(of.algo, of.entries[i], j, [csize |-> u, usize |-> v, data |-> d], damaged)
      <4> HIDE DEF i, j
      <4> QED  BY <1>2, <1>4, <3>1, ChunkIsRead
    <3> QED  BY <3>2 DEF u, v, d
  <2> DEFINE cs == Append(record.chunks, new)
  <2>5. ChunksRead(of.algo, e, cs, damaged) /\ Len(cs) + 1 = j + 1
    <3>1. IsSeq(record.chunks) /\ \A k \in 1..Len(record.chunks) : ChunkRead(of.algo, e, k, record.chunks[k], damaged)
      BY <1>3 DEF ChunksRead
    <3> HIDE DEF new
    <3>2. /\ IsSeq(cs) /\ Len(cs) = Len(record.chunks) + 1 /\ cs[Len(record.chunks) + 1] = new
          /\ \A k \in 1..Len(record.chunks) : cs[k] = record.chunks[k]
      BY <3>1, Appended
    <3> HIDE DEF cs, e
    <3>3. ASSUME NEW k \in 1..Len(cs) PROVE ChunkRead(of.algo, e, k, cs[k], damaged)
      <4>1. k \in 1..Len(record.chunks) \/ k = j  BY <1>2, <3>2
      <4> QED  BY <2>4, <3>1, <3>2, <4>1
    <3>4. Len(cs) <= Len(e.chunks)  BY <1>4, <3>2
    <3> QED  BY <3>2, <3>3, <3>4 DEF ChunksRead
  <2>6. Bases(e)[j + 1] = Bases(e)[j] + w.usize
    <3> HIDE DEF e, j
    <3> QED  BY <1>2, <1>4, PlaceOfChunk
  <2>7. /\ reading' = "chunk" /\ at' = PartAt(of, i, j + 1) /\ at' <= Len(file)
        /\ header' = HeaderTaken(of, budget - w.csize)
        /\ record' = RecordTaken(e, Bases(e)[j] + w.usize, cs)
        /\ entries' = entries /\ dest' = <<>>
    <3>1. /\ reading' = "chunk" /\ at' = data + w.csize /\ at' <= Len(file)
          /\ header' = [header EXCEPT !.budget = @ - w.csize]
          /\ record' = [record EXCEPT !.sum = @ + w.usize, !.chunks = Append(@, new)]
          /\ entries' = entries /\ dest' = <<>>
      BY <1>1, <1>2, <1>11, <2>1, <2>3
    <3>2. data + w.csize = PartAt(of, i, j + 1)  BY <1>5
    <3> HIDE DEF data, new, w, e, j, budget
    <3>3. header' = HeaderTaken(of, budget - w.csize)  BY <1>3, <3>1, HeaderLess
    <3>4. record' = RecordTaken(e, Bases(e)[j] + w.usize, Append(record.chunks, new))
      <4> DEFINE s == Bases(e)[j]
                 u == w.usize
                 old == record.chunks
      <4> SUFFICES record' = RecordTaken(e, s + u, Append(old, new))  OBVIOUS
      <4>1. record = RecordTaken(e, s, old)  BY <1>3
      <4>0. record' = [record EXCEPT !.sum = @ + u, !.chunks = Append(@, new)]  BY <3>1
      <4> HIDE DEF s, u
      <4>2. [record EXCEPT !.sum = @ + u, !.chunks = Append(@, new)] = RecordTaken(e, s + u, Append(old, new))
        <5> DEFINE sum == record.sum + u
                   all == Append(record.chunks, new)
        <5>1. sum = s + u /\ all = Append(old, new)
          <6>1. record.sum = s  BY <4>1, RecordIs
          <6> QED  BY <6>1
        <5>2. [record EXCEPT !.sum = sum, !.chunks = all] = RecordTaken(e, sum, all)
          <6> HIDE DEF old, sum, all
          <6>1. [record EXCEPT !.sum = sum] = RecordTaken(e, sum, old)  BY <4>1 DEF RecordTaken
          <6>2. [RecordTaken(e, sum, old) EXCEPT !.chunks = all] = RecordTaken(e, sum, all)  BY DEF RecordTaken
          <6>3. [record EXCEPT !.sum = sum, !.chunks = all] = [[record EXCEPT !.sum = sum] EXCEPT !.chunks = all]
            OBVIOUS
          <6> QED  BY <6>1, <6>2, <6>3
        <5> QED  BY <5>1, <5>2
      <4> HIDE DEF old
      <4> QED  BY <4>0, <4>2
    <3> QED  BY <3>1, <3>2, <3>3, <3>4
  <2> HIDE DEF c, data, fits, new
  <2>8. header'.budget = budget - w.csize /\ record'.chunks = cs
    <3> HIDE DEF w, budget, cs, e, j
    <3>1. header'.budget = budget - w.csize  BY <2>7, HeaderIs
    <3>2. record'.chunks = cs  BY <2>7, RecordIs
    <3> QED  BY <3>1, <3>2
  <2>9. InArchive'
    <3>1. budget - w.csize \in Int  BY <1>5, <1>9
    <3> HIDE DEF w, budget, cs, e
    <3> QED  BY <1>3, <2>7, <2>8, <3>1, FrozenIs DEF InArchive
  <2>10. InRecord'
    <3>1. i' = i /\ e' = e  BY <2>7, FrozenIs
    <3>2. i <= Len(of.entries)  BY <1>2
    <3>3. j' = j + 1  BY <2>5, <2>8
    <3> HIDE DEF w, budget, cs, e, i, j
    <3>4. record' = RecordTaken(e', Bases(e')[j'], record'.chunks) /\ at' = PartAt(of', i', j')
      BY <2>6, <2>7, <2>8, <3>1, <3>3, FrozenIs
    <3>5. header'.budget + PacksOf(of')[i'] + Packs(e')[j'] = CompressedTotal(of')
      BY <1>9, <2>8, <3>1, <3>3, FrozenIs
    <3>6. ChunksRead(of'.algo, e', record'.chunks, damaged') /\ i' <= Len(of'.entries)
      BY <2>5, <2>8, <3>1, <3>2, FrozenIs
    <3> QED  BY <3>4, <3>5, <3>6 DEF InRecord, i, j, e
  <2>11. Opened'  BY <1>2, FrozenIs DEF Opened
  <2> HIDE DEF w, budget, cs, e, i, j
  <2> QED
    BY <2>7, <2>9, <2>10, <2>11 DEF OnTrack, Unwritten, InHeader, InFile, Accepted, InEntries, Stopped
<1> QED  BY <1>10, <1>11

\* From the CRC of a record to the next record.
LEMMA CrcOnTrack ==
  ASSUME OnFile, Safe, OnTrack, Frozen, Unpack!ReadFileCrc
  PROVE  OnTrack'
<1> DEFINE i == Len(entries) + 1
           e == of.entries[i]
           m == Len(e.chunks)
           budget == header.budget
           crc == Unpack!Seen(at)
           reads == record.sum = record.usz /\ at + CrcSize <= Len(file)
           new == [name |-> record.name, nameLen |-> record.nameLen, usz |-> record.usz,
                   chunks |-> record.chunks, crc |-> crc]
<1>1. /\ reading = "chunk" /\ Len(record.chunks) = record.count
      /\ IF reads
         THEN /\ reading' = "file" /\ at' = at + CrcSize
              /\ entries' = Append(entries, new)
              /\ UNCHANGED <<header, record, dest>>
         ELSE Unpack!Refuse
  BY SameLayout DEF Unpack!ReadFileCrc, Unpack!CrcReads
<1>2. /\ of \in DOMAIN Images /\ TrailerSeen /\ Shows(file, of, damaged) /\ dest = <<>>
      /\ Len(entries) \in Nat /\ i \in 1..Len(of.entries) /\ Len(of.entries) \in Nat
      /\ m \in Nat /\ Fits(of) /\ EntryFits(of.algo, e) /\ Len(file) \in Nat
  BY <1>1, RecordRead
<1>3. /\ header = HeaderTaken(of, budget) /\ budget \in Int
      /\ EntriesRead(of, 0, entries, damaged)
      /\ record = RecordTaken(e, Bases(e)[Len(record.chunks) + 1], record.chunks)
      /\ ChunksRead(of.algo, e, record.chunks, damaged)
      /\ at = PartAt(of, i, Len(record.chunks) + 1)
      /\ budget + PacksOf(of)[i] + Packs(e)[Len(record.chunks) + 1] = CompressedTotal(of)
  BY <1>1, RecordRead
<1>4. Len(record.chunks) = m
  <2>1. record.count = m  BY <1>3, RecordIs
  <2> QED  BY <1>1, <2>1
<1>5. /\ record.name = e.name /\ record.nameLen = e.nameLen /\ record.usz = SizeOf(e)
      /\ record.sum = SizeOf(e)
  <2> HIDE DEF e, m, i
  <2>1. record = RecordTaken(e, Bases(e)[m + 1], record.chunks)  BY <1>3, <1>4
  <2>2. SizeOf(e) = Bases(e)[m + 1]  BY <1>2, EntrySums DEF m
  <2> QED  BY <2>1, <2>2, RecordIs
<1>6. /\ at \in Nat /\ RecordAt(of, i + 1) = at + CrcSize
      /\ FieldLies(Images[of], at, CrcCell(Bytes(e.name, SizeOf(e))), CrcSize)
      /\ at + CrcSize < Len(Images[of])
  <2>1. at = PartAt(of, i, m + 1)  BY <1>3, <1>4
  <2>2. /\ PartAt(of, i, m + 1) \in Nat /\ RecordAt(of, i + 1) = PartAt(of, i, m + 1) + CrcSize
        /\ FieldLies(Images[of], PartAt(of, i, m + 1), CrcCell(Bytes(e.name, SizeOf(e))), CrcSize)
    BY <1>2, RecordLies
  <2>3. PartAt(of, i, m + 1) + CrcSize < Len(Images[of])  BY <1>2, RecordWithin
  <2> HIDE DEF m, e, i
  <2> QED  BY <2>1, <2>2, <2>3
<1>7. CASE ~reads
  <2>1. ASSUME Sound PROVE FALSE
    <3>1. Len(file) = Len(Images[of])  BY <2>1, SoundIs
    <3>2. at + CrcSize <= Len(file)  BY <1>2, <1>6, <3>1 DEF CrcSize
    <3> QED  BY <1>5, <1>7, <3>2
  <2> HIDE DEF reads
  <2> QED  BY <1>1, <1>2, <1>7, <2>1, RefuseOnTrack
<1>8. CASE reads
  <2>1. crc = CrcCell(Bytes(e.name, SizeOf(e))) \/ (damaged /\ crc = Unpack!Damaged)
    <3>1. at < Len(file)  BY <1>2, <1>6, <1>8 DEF CrcSize
    <3>2. CrcCell(Bytes(e.name, SizeOf(e))).k # "byte"  BY DEF CrcCell
    <3> HIDE DEF e, i
    <3> QED  BY <1>2, <1>6, <3>1, <3>2, HeadSeen
  <2>2. EntryRead(of.algo, e, new, damaged)
    <3> HIDE DEF crc, e, i
    <3> QED  BY <1>3, <1>4, <1>5, <2>1 DEF EntryRead, m
  <2> DEFINE rs == Append(entries, new)
  <2>3. EntriesRead(of, 0, rs, damaged) /\ Len(rs) = i
    <3>1. IsSeq(entries) /\ \A k \in 1..Len(entries) : EntryRead(of.algo, of.entries[0 + k], entries[k], damaged)
      BY <1>3 DEF EntriesRead
    <3> HIDE DEF new
    <3>2. /\ IsSeq(rs) /\ Len(rs) = Len(entries) + 1 /\ rs[Len(entries) + 1] = new
          /\ \A k \in 1..Len(entries) : rs[k] = entries[k]
      BY <3>1, Appended
    <3> HIDE DEF rs
    <3>3. ASSUME NEW k \in 1..Len(rs) PROVE EntryRead(of.algo, of.entries[0 + k], rs[k], damaged)
      <4>1. k \in 1..Len(entries) \/ k = i  BY <1>2, <3>2
      <4>2. CASE k \in 1..Len(entries)  BY <3>1, <3>2, <4>2
      <4>3. CASE k = i
        <5>1. 0 + k = i  BY <1>2, <4>3
        <5> QED  BY <2>2, <3>2, <4>3, <5>1
      <4> QED  BY <4>1, <4>2, <4>3
    <3>4. 0 + Len(rs) <= Len(of.entries)  BY <1>2, <3>2
    <3> QED  BY <3>2, <3>3, <3>4 DEF EntriesRead
  <2>4. /\ reading' = "file" /\ at' = RecordAt(of, i + 1) /\ at' <= Len(file)
        /\ entries' = rs /\ header' = header /\ dest' = <<>>
    BY <1>1, <1>2, <1>6, <1>8
  <2> HIDE DEF crc, reads, new, rs
  <2>5. budget + PacksOf(of)[i + 1] = CompressedTotal(of)
    <3> DEFINE p == PacksOf(of)[i]
               q == PacksOf(of)[i + 1]
               s == Packs(e)[m + 1]
    <3>1. p \in Nat /\ q \in Nat /\ q = p + s /\ s \in Nat  BY <1>2, PacksAre
    <3>2. budget \in Int /\ budget + p + s = CompressedTotal(of)  BY <1>3, <1>4
    <3> HIDE DEF p, q, s, budget
    <3>3. budget + q = CompressedTotal(of)  BY <3>1, <3>2
    <3> QED  BY <3>3 DEF q
  <2>6. InArchive'  BY <1>3, <2>3, <2>4, FrozenIs DEF InArchive
  <2>7. InFile'
    <3>1. Len(entries') + 1 = i + 1  BY <2>3, <2>4
    <3> HIDE DEF i
    <3> QED  BY <2>4, <2>5, <3>1, FrozenIs DEF InFile
  <2>8. Opened'  BY <1>2, FrozenIs DEF Opened
  <2> QED
    BY <2>4, <2>6, <2>7, <2>8 DEF OnTrack, Unwritten, InHeader, InRecord, Accepted, InEntries, Stopped
<1> QED  BY <1>7, <1>8

\* self_consistency_check_offset comes to what the writer put into the header.
LEMMA OffsetsAgree ==
  ASSUME EntriesRead(of, 0, entries, damaged), Len(entries) = Len(of.entries)
  PROVE  Unpack!ExpectedOffset = RunAfterOffset(of)
<1>1. ASSUME NEW i \in 1..Len(of.entries)
      PROVE  SerializedFileSize(entries[i]) = SerializedFileSize(of.entries[i])
  <2> DEFINE r == entries[i]
             e == of.entries[i]
             v == [j \in 1..Len(r.chunks) |-> 4 + r.chunks[j].csize]
             w == [j \in 1..Len(e.chunks) |-> 4 + e.chunks[j].csize]
  <2>1. EntryRead(of.algo, of.entries[0 + i], r, damaged) /\ 0 + i = i  BY DEF EntriesRead
  <2>2. EntryRead(of.algo, e, r, damaged)  BY <2>1
  <2>3. /\ r.nameLen = e.nameLen /\ Len(r.chunks) = Len(e.chunks)
        /\ \A j \in 1..Len(e.chunks) : r.chunks[j].csize = e.chunks[j].csize
    <3> HIDE DEF r, e
    <3> QED  BY <2>2 DEF EntryRead, ChunksRead, ChunkRead
  <2>4. v = w  BY <2>3
  <2>5. SerializedFileSize(r) = 1 + r.nameLen + (1 + 4 + 4 + 2 + 4) + Total(v)
        /\ SerializedFileSize(e) = 1 + e.nameLen + (1 + 4 + 4 + 2 + 4) + Total(w)
    BY DEF SerializedFileSize
  <2> HIDE DEF r, e, v, w
  <2>6. SerializedFileSize(r) = SerializedFileSize(e)  BY <2>3, <2>4, <2>5
  <2> QED  BY <2>6 DEF r, e
<1>2. [i \in 1..Len(entries) |-> SerializedFileSize(entries[i])] = FileSizes(of)
  BY <1>1 DEF FileSizes
<1>3. Unpack!ExpectedOffset = HeaderSize + Total([i \in 1..Len(entries) |-> SerializedFileSize(entries[i])])
  BY SameLayout, SameSums DEF Unpack!ExpectedOffset
<1> QED  BY <1>2, <1>3 DEF RunAfterOffset

\* Behind the last record the file is whole, and nothing is refused that was written.
LEMMA EndOnTrack ==
  ASSUME OnFile, Safe, OnTrack, Frozen, Unpack!EndOfRecords
  PROVE  OnTrack'
<1> DEFINE n == Len(of.entries)
           c == of.command
           run == RunAfterOffset(of)
           good == /\ header.flag = (header.run # 0)
                   /\ header.flag => header.run = Unpack!ExpectedOffset /\ Unpack!Reads(at, 1, "command")
<1>1. /\ reading = "file" /\ Len(entries) = header.count /\ dest = <<>>
      /\ IF good
         THEN reading' = "writing" /\ UNCHANGED <<at, header, record, entries, dest>>
         ELSE Unpack!Refuse
  BY DEF Unpack!EndOfRecords, OnTrack, Unwritten
<1>2. of \in DOMAIN Images /\ TrailerSeen  BY <1>1 DEF OnTrack, Opened
<1>3. Shows(file, of, damaged)  BY <1>2 DEF OnFile
<1>4. /\ header = HeaderTaken(of, header.budget) /\ at <= Len(file)
      /\ EntriesRead(of, 0, entries, damaged)
  BY <1>1 DEF OnTrack, InArchive
<1>5. /\ header.algo = of.algo /\ header.count = n /\ header.flag = (c > 0)
      /\ header.run = IF c > 0 THEN run ELSE 0
  BY <1>4, HeaderIs
<1>6. Len(entries) = n /\ at = RecordAt(of, n + 1)  BY <1>1, <1>5 DEF OnTrack, InFile
<1>7. Len(file) = Len(Images[of])  BY <1>2, <1>3, <1>4, <1>6, WholeFile
<1>8. CASE ~good
  <2>1. ASSUME Sound PROVE FALSE
    <3>1. Unpack!ExpectedOffset = run  BY <1>4, <1>6, OffsetsAgree
    <3>2. run \in Nat /\ run # 0 /\ c \in Nat
      <4>1. Fits(of) /\ c \in Nat /\ StubLen \in Nat  BY <1>2, ImageIs
      <4>2. Records(of)[n + 1] = run /\ HeaderSize <= Records(of)[n + 1] /\ Records(of)[n + 1] \in Nat
        BY <4>1, FileSums, ImageEnds
      <4> HIDE DEF run, n, c
      <4> QED  BY <4>1, <4>2 DEF HeaderSize
    <3>3. ASSUME c > 0 PROVE Unpack!Reads(at, 1, "command")
      <4>1. ~damaged  BY <2>1, SoundIs
      <4>2. /\ Len(Images[of]) = at + c + TrailerSize /\ at \in Nat
            /\ c # 0 => FieldLies(Images[of], at, CommandCell, c)
        BY <1>2, <1>6, EndIs
      <4>3. CommandCell.k = "command"  BY DEF CommandCell
      <4> HIDE DEF c, n, run
      <4>4. c # 0 /\ at + c <= Len(file) /\ at + 1 <= Len(file) /\ c \in Nat \ {0}
        BY <1>7, <3>2, <3>3, <4>2 DEF TrailerSize
      <4>5. Unpack!Reads(at, c, "command")  BY <1>2, <1>3, <4>1, <4>2, <4>3, <4>4, FieldReads
      <4> QED  BY <4>2, <4>4, <4>5 DEF Unpack!Reads
    <3> HIDE DEF c, run
    <3>4. header.flag = (header.run # 0)
      <4>1. CASE c > 0  BY <1>5, <3>2, <4>1
      <4>2. CASE ~ (c > 0)  BY <1>5, <4>2
      <4> QED  BY <4>1, <4>2
    <3>5. header.flag => header.run = Unpack!ExpectedOffset /\ Unpack!Reads(at, 1, "command")
      BY <1>5, <3>1, <3>3
    <3> QED  BY <1>8, <3>4, <3>5
  <2> HIDE DEF good
  <2> QED  BY <1>1, <1>8, <2>1, RefuseOnTrack
<1>9. CASE good
  <2>1. reading' = "writing" /\ UNCHANGED <<at, header, record, entries, dest>>  BY <1>1, <1>9
  <2>2. Opened'  BY <1>2, FrozenIs DEF Opened
  <2>3. Accepted'  BY <1>5, <1>7, <2>1, FrozenIs DEF Accepted
  <2>4. n \in Nat  BY <1>2, ImageIs
  <2>5. Written(0)'
    <3>1. dest' = <<>> /\ DOMAIN dest' = {}  BY <1>1, <2>1
    <3>2. 1..0 = {}  OBVIOUS
    <3> QED  BY <3>1, <3>2 DEF Written
  <2>6. InEntries'
    <3>1. 0 \in 0..n /\ 0 + Len(entries) = n  BY <1>6, <2>4
    <3>2. EntriesRead(of, 0, entries, damaged)'  BY <1>4, <2>1, FrozenIs
    <3>3. 0 + Len(entries') = Len(of'.entries) /\ 0 \in 0..Len(of'.entries)  BY <2>1, <3>1, FrozenIs
    <3> QED  BY <2>1, <2>5, <3>2, <3>3 DEF InEntries
  <2> HIDE DEF good
  <2> QED
    BY <1>1, <2>1, <2>2, <2>3, <2>6 DEF OnTrack, Unwritten, InHeader, InArchive, InFile, InRecord, Stopped
<1> QED  BY <1>8, <1>9

----------------------------------------------------------------------------
(* The writing of the entries.                                             *)

\* How long an entry is.
LEMMA SizeIs ==
  ASSUME NEW algo, NEW e, EntryFits(algo, e)
  PROVE  SizeOf(e) \in Nat
<1> DEFINE m == Len(e.chunks)
<1>1. m \in Nat /\ AreSums(Bases(e), 0, m, Usizes(e)) /\ SizeOf(e) = Bases(e)[m + 1]  BY EntrySums
<1> HIDE DEF m
<1>2. m + 1 \in 1..m + 1  BY <1>1
<1> QED  BY <1>1, <1>2 DEF AreSums

\* Where unpack is among the entries, and what it writes next.
LEMMA EntryNext ==
  ASSUME OnFile, OnTrack, reading = "writing", entries # <<>>
  PROVE  \E k \in 0..Len(of.entries) :
           LET e == of.entries[k + 1]
               r == Head(entries)
           IN  /\ k + 1 \in 1..Len(of.entries) /\ EntryRead(of.algo, e, r, damaged)
               /\ EntriesRead(of, k + 1, Tail(entries), damaged) /\ k + 1 + Len(Tail(entries)) = Len(of.entries)
               /\ Written(k)
<1> DEFINE n == Len(of.entries)
<1>1. PICK k \in 0..n : EntriesRead(of, k, entries, damaged) /\ k + Len(entries) = n /\ Written(k)
  BY DEF OnTrack, InEntries
<1>2. n \in Nat  BY ImageIs DEF OnTrack, Opened
<1>3. IsSeq(entries) /\ \A i \in 1..Len(entries) : EntryRead(of.algo, of.entries[k + i], entries[i], damaged)
  BY <1>1 DEF EntriesRead
<1> DEFINE rs == Tail(entries)
<1>4. /\ IsSeq(rs) /\ Len(rs) + 1 = Len(entries) /\ Head(entries) = entries[1] /\ Len(rs) \in Nat
      /\ \A i \in 1..Len(rs) : rs[i] = entries[i + 1]
  BY <1>3, Tailed
<1> HIDE DEF rs, n
<1>5. k + 1 \in 1..n /\ k + 1 + Len(rs) = n /\ 1 \in 1..Len(entries)
  <2> DEFINE l == Len(entries)
             m == Len(rs)
  <2>1. k \in 0..n /\ n \in Nat /\ m \in Nat /\ m + 1 = l /\ k + l = n  BY <1>1, <1>2, <1>4
  <2> HIDE DEF l, m
  <2>2. k + 1 \in 1..n /\ k + 1 + m = n /\ 1 \in 1..l  BY <2>1
  <2> QED  BY <2>2 DEF l, m
<1>6. EntryRead(of.algo, of.entries[k + 1], Head(entries), damaged)  BY <1>3, <1>4, <1>5
<1>7. ASSUME NEW i \in 1..Len(rs) PROVE EntryRead(of.algo, of.entries[k + 1 + i], rs[i], damaged)
  <2>1. i + 1 \in 1..Len(entries) /\ k + (i + 1) = k + 1 + i  BY <1>4
  <2>2. EntryRead(of.algo, of.entries[k + (i + 1)], entries[i + 1], damaged)  BY <1>3, <2>1
  <2> QED  BY <1>4, <2>1, <2>2
<1>8. EntriesRead(of, k + 1, rs, damaged)
  <2>1. k + 1 + Len(rs) <= Len(of.entries)  BY <1>2, <1>5 DEF n
  <2> QED  BY <1>4, <1>7, <2>1 DEF EntriesRead
<1> QED  BY <1>1, <1>5, <1>6, <1>8 DEF n, rs

\* The CRC lets nothing through but the bytes of the file.
LEMMA CrcTells ==
  ASSUME NEW algo, NEW e, NEW r, NEW rotten, EntryRead(algo, e, r, rotten), Unpack!Writable(r)
  PROVE  r.name = e.name /\ r.usz = SizeOf(e) /\ Unpack!Decode(r) = Bytes(e.name, SizeOf(e))
         /\ r.name \notin DOMAIN dest
<1> DEFINE b == Bytes(e.name, SizeOf(e))
           d == Unpack!Decode(r)
<1>1. r.crc = CrcCell(d) /\ r.name \notin DOMAIN dest  BY SameLayout DEF Unpack!Writable
<1>2. r.name = e.name /\ r.usz = SizeOf(e) /\ (r.crc = CrcCell(b) \/ r.crc = Unpack!Damaged)
  BY DEF EntryRead
<1> HIDE DEF b, d
<1>3. d = b
  <2>1. CASE r.crc = CrcCell(b)  BY <1>1, <2>1 DEF CrcCell
  <2>2. CASE r.crc = Unpack!Damaged
    <3>1. CrcCell(d).k = "crc" /\ Unpack!Damaged.k = "damaged"  BY DEF CrcCell, Unpack!Damaged
    <3> QED  BY <1>1, <2>2, <3>1
  <2> QED  BY <1>2, <2>1, <2>2
<1> QED  BY <1>1, <1>2, <1>3 DEF b, d

\* What is written when unpack fails among the entries: the first k.
LEMMA StoppedIn ==
  ASSUME NEW k \in 0..Len(of.entries), Written(k)
  PROVE  PartlyWritten(k)
<1>1. ASSUME NEW i \in 1..k PROVE of.entries[i].name \in DOMAIN dest  BY DEF Written
<1>2. ASSUME NEW name \in DOMAIN dest
      PROVE  \E i \in 1..k : name = of.entries[i].name /\ dest[name] = Bytes(name, SizeOf(of.entries[i]))
  <2>1. PICK i \in 1..k : name = of.entries[i].name  BY DEF Written
  <2>2. dest[name] = Bytes(name, SizeOf(of.entries[i]))  BY <2>1 DEF Written
  <2> QED  BY <2>1, <2>2
<1> QED  BY <1>1, <1>2 DEF PartlyWritten

\* An entry is written, or its CRC does not fit.
LEMMA WriteOnTrack ==
  ASSUME OnFile, Safe, OnTrack, Frozen, Unpack!WriteEntry
  PROVE  OnTrack'
<1> DEFINE r == Head(entries)
<1>1. /\ reading = "writing" /\ entries # <<>> /\ header' = header
      /\ IF Unpack!Writable(r)
         THEN dest' = Unpack!Put(r.name, Unpack!Decode(r)) /\ entries' = Tail(entries) /\ reading' = reading
         ELSE reading' = "failed" /\ UNCHANGED <<dest, entries>>
  BY DEF Unpack!WriteEntry
<1>2. of \in DOMAIN Images /\ TrailerSeen /\ Len(file) = Len(Images[of]) /\ header.algo = of.algo
  BY <1>1 DEF OnTrack, Opened, Accepted
<1>3. PICK k \in 0..Len(of.entries) :
         /\ k + 1 \in 1..Len(of.entries) /\ EntryRead(of.algo, of.entries[k + 1], r, damaged)
         /\ EntriesRead(of, k + 1, Tail(entries), damaged) /\ k + 1 + Len(Tail(entries)) = Len(of.entries)
         /\ Written(k)
  BY <1>1, EntryNext
<1>4. reading' \in {"writing", "failed"}  BY <1>1
<1>5. Opened'  BY <1>2, <1>4, FrozenIs DEF Opened
<1>6. Accepted'  BY <1>1, <1>2, FrozenIs DEF Accepted
<1> DEFINE e == of.entries[k + 1]
<1>7. InEntries'
  <2> SUFFICES ASSUME reading' = "writing" PROVE InEntries'  BY <1>4 DEF InEntries
  <2>1. Unpack!Writable(r) /\ dest' = Unpack!Put(r.name, Unpack!Decode(r)) /\ entries' = Tail(entries)
    BY <1>1
  <2> HIDE DEF r, e
  <2>2. r.name = e.name /\ Unpack!Decode(r) = Bytes(e.name, SizeOf(e)) /\ e.name \notin DOMAIN dest
    BY <1>3, <2>1, CrcTells DEF e
  <2>3. /\ DOMAIN dest' = DOMAIN dest \union {e.name} /\ dest'[e.name] = Bytes(e.name, SizeOf(e))
        /\ \A x \in DOMAIN dest : dest'[x] = dest[x]
    <3> DEFINE b == Bytes(e.name, SizeOf(e))
               d == Unpack!Put(e.name, b)
    <3>1. dest' = d  BY <2>1, <2>2
    <3>2. DOMAIN d = DOMAIN dest \union {e.name} /\ d[e.name] = b /\ \A x \in DOMAIN dest : d[x] = dest[x]
      <4> HIDE DEF b
      <4> QED  BY <2>2 DEF Unpack!Put
    <3> HIDE DEF d
    <3> QED  BY <3>1, <3>2
  <2>4. Written(k + 1)'
    <3>1. DOMAIN dest = {of.entries[i].name : i \in 1..k}
          /\ \A i \in 1..k : dest[of.entries[i].name] = Bytes(of.entries[i].name, SizeOf(of.entries[i]))
      BY <1>3 DEF Written
    <3>2. 1..(k + 1) = 1..k \union {k + 1}  OBVIOUS
    <3>3. DOMAIN dest' = {of.entries[i].name : i \in 1..(k + 1)}  BY <2>3, <3>1, <3>2 DEF e
    <3>4. ASSUME NEW i \in 1..(k + 1)
          PROVE  dest'[of.entries[i].name] = Bytes(of.entries[i].name, SizeOf(of.entries[i]))
      <4>1. CASE i = k + 1  BY <2>3, <4>1 DEF e
      <4>2. CASE i \in 1..k
        <5>1. of.entries[i].name \in DOMAIN dest  BY <3>1, <4>2
        <5> QED  BY <2>3, <3>1, <4>2, <5>1
      <4> QED  BY <3>2, <4>1, <4>2
    <3> QED  BY <3>3, <3>4, FrozenIs DEF Written
  <2>5. k + 1 \in 0..Len(of.entries)  BY <1>3
  <2> DEFINE x == k + 1
  <2>6. /\ x \in 0..Len(of'.entries) /\ EntriesRead(of', x, entries', damaged') /\ x + Len(entries') = Len(of'.entries)
        /\ Written(x)' /\ reading' # "ok"
    BY <1>3, <2>1, <2>4, <2>5, FrozenIs
  <2> HIDE DEF x
  <2> QED  BY <2>6 DEF InEntries
<1>8. Stopped'
  <2> SUFFICES ASSUME reading' = "failed" PROVE Stopped'  BY DEF Stopped
  <2>1. dest' = dest /\ of' = of  BY <1>1, FrozenIs
  <2>2. PartlyWritten(k)  BY <1>3, StoppedIn
  <2>3. PartlyWritten(k)'  BY <2>1, <2>2 DEF PartlyWritten
  <2> QED  BY <2>1, <2>3 DEF Stopped
<1> QED
  BY <1>4, <1>5, <1>6, <1>7, <1>8 DEF OnTrack, Unwritten, InHeader, InArchive, InFile, InRecord

\* The write of an entry fails on the way.
LEMMA WriteFailsOnTrack ==
  ASSUME OnFile, Safe, OnTrack, Frozen, Unpack!WriteEntryFails
  PROVE  OnTrack'
<1> DEFINE r == Head(entries)
<1>1. /\ reading = "writing" /\ entries # <<>> /\ header' = header /\ reading' = "failed"
      /\ Unpack!Writable(r)
      /\ \E b \in 0..r.usz : dest' = Unpack!Put(r.name, SubSeq(Unpack!Decode(r), 1, b))
  BY DEF Unpack!WriteEntryFails
<1>2. of \in DOMAIN Images /\ TrailerSeen /\ Len(file) = Len(Images[of]) /\ header.algo = of.algo
  BY <1>1 DEF OnTrack, Opened, Accepted
<1>3. PICK k \in 0..Len(of.entries) :
         k + 1 \in 1..Len(of.entries) /\ EntryRead(of.algo, of.entries[k + 1], r, damaged) /\ Written(k)
  BY <1>1, EntryNext
<1>5. Opened'  BY <1>1, <1>2, FrozenIs DEF Opened
<1>6. Accepted'  BY <1>1, <1>2, FrozenIs DEF Accepted
<1> DEFINE e == of.entries[k + 1]
<1>7. PICK b \in 0..r.usz : dest' = Unpack!Put(r.name, SubSeq(Unpack!Decode(r), 1, b))  BY <1>1
<1>8. /\ r.name = e.name /\ r.usz = SizeOf(e) /\ Unpack!Decode(r) = Bytes(e.name, SizeOf(e))
      /\ e.name \notin DOMAIN dest
  <2> HIDE DEF r, e
  <2> QED  BY <1>1, <1>3, CrcTells DEF e
<1>9. SizeOf(e) \in Nat
  <2>1. EntryFits(of.algo, e)  BY <1>2, <1>3, RecordLies
  <2> HIDE DEF e
  <2> QED  BY <2>1, SizeIs
<1> DEFINE s == SubSeq(Unpack!Decode(r), 1, b)
<1>10. s = Bytes(e.name, b)
  <2> HIDE DEF e, r
  <2> QED  BY <1>7, <1>8, <1>9, BytesAre
<1>11. /\ DOMAIN dest' = DOMAIN dest \union {e.name} /\ dest'[e.name] = Bytes(e.name, b)
       /\ \A x \in DOMAIN dest : dest'[x] = dest[x]
  <2> HIDE DEF e, r, s
  <2> DEFINE d == Unpack!Put(e.name, s)
  <2>1. dest' = d  BY <1>7, <1>8 DEF s
  <2>2. DOMAIN d = DOMAIN dest \union {e.name} /\ d[e.name] = s /\ \A x \in DOMAIN dest : d[x] = dest[x]
    BY <1>8 DEF Unpack!Put
  <2> HIDE DEF d
  <2> QED  BY <1>10, <2>1, <2>2
<1>12. PartlyWritten(k)'
  <2>1. of' = of /\ k + 1 \in 1..Len(of.entries) /\ b \in 0..SizeOf(of.entries[k + 1])
    BY <1>3, <1>7, <1>8, FrozenIs
  <2>2. ASSUME NEW i \in 1..k PROVE of.entries[i].name \in DOMAIN dest'
    <3>1. of.entries[i].name \in DOMAIN dest  BY <1>3 DEF Written
    <3> HIDE DEF e
    <3> QED  BY <1>11, <3>1
  <2>3. ASSUME NEW name \in DOMAIN dest, NEW i \in 1..k, name = of.entries[i].name
        PROVE  dest'[name] = Bytes(name, SizeOf(of.entries[i]))
    <3>1. dest[name] = Bytes(name, SizeOf(of.entries[i]))  BY <1>3, <2>3 DEF Written
    <3> HIDE DEF e
    <3> QED  BY <1>11, <3>1
  <2>4. ASSUME NEW name \in DOMAIN dest'
        PROVE  \/ \E i \in 1..k : name = of.entries[i].name /\ dest'[name] = Bytes(name, SizeOf(of.entries[i]))
               \/ name = of.entries[k + 1].name /\ dest'[name] = Bytes(name, b)
    <3>1. CASE name = e.name  BY <1>11, <3>1
    <3>2. CASE name \in DOMAIN dest
      <4>1. PICK i \in 1..k : name = of.entries[i].name  BY <1>3, <3>2 DEF Written
      <4> QED  BY <2>3, <3>2, <4>1
    <3> QED  BY <1>11, <3>1, <3>2
  <2> QED  BY <2>1, <2>2, <2>4 DEF PartlyWritten
<1>13. Stopped'
  <2>1. of' = of /\ k \in 0..Len(of.entries)  BY FrozenIs
  <2> QED  BY <1>12, <2>1 DEF Stopped
<1> QED
  BY <1>1, <1>5, <1>6, <1>13 DEF OnTrack, Unwritten, InHeader, InArchive, InFile, InRecord, InEntries

\* unpack returns Ok.
LEMMA FinishOnTrack ==
  ASSUME OnFile, Safe, OnTrack, Frozen, Unpack!Finish
  PROVE  OnTrack'
<1>1. reading = "writing" /\ entries = <<>> /\ reading' = "ok" /\ UNCHANGED <<at, header, record, entries, dest>>
  BY DEF Unpack!Finish
<1>2. Opened'  BY <1>1, FrozenIs DEF OnTrack, Opened
<1>3. Accepted'  BY <1>1, FrozenIs DEF OnTrack, Accepted
<1>4. InEntries'
  <2>1. PICK k \in 0..Len(of.entries) :
           EntriesRead(of, k, entries, damaged) /\ k + Len(entries) = Len(of.entries) /\ Written(k)
    BY <1>1 DEF OnTrack, InEntries
  <2>2. /\ k \in 0..Len(of'.entries) /\ EntriesRead(of', k, entries', damaged')
        /\ k + Len(entries') = Len(of'.entries)
    BY <1>1, <2>1, FrozenIs
  <2>3. Written(k)'  BY <1>1, <2>1, FrozenIs DEF Written
  <2> QED  BY <1>1, <2>2, <2>3 DEF InEntries
<1> QED
  BY <1>1, <1>2, <1>3, <1>4 DEF OnTrack, Unwritten, InHeader, InArchive, InFile, InRecord, Stopped

\* What an image offers to the phases of write_sfx.
LEMMA Phases ==
  ASSUME job \in DOMAIN Images
  PROVE  /\ Image \in Seq({Image[i] : i \in DOMAIN Image})
         /\ StubLen \in Nat /\ StubLen <= Len(Image) - TrailerSize
         /\ Len(Image) \in Nat /\ Len(Image) - TrailerSize <= Len(Image)
<1> DEFINE end == RecordAt(job, Len(job.entries) + 1)
           first == RecordAt(job, 1)
           c == job.command
<1>1. Image \in Seq({Image[i] : i \in DOMAIN Image})  BY ImageIs DEF IsSeq, Image
<1>2. /\ Len(Image) = end + c + TrailerSize /\ end \in Nat /\ first = StubLen + HeaderSize /\ first <= end
      /\ StubLen \in Nat /\ c \in Nat
  BY EndIs, ImageIs DEF Image
<1> HIDE DEF end, first, c
<1>3. /\ StubLen <= Len(Image) - TrailerSize /\ Len(Image) \in Nat /\ Len(Image) - TrailerSize <= Len(Image)
  BY <1>2 DEF TrailerSize, HeaderSize
<1> QED  BY <1>1, <1>2, <1>3

\* Every phase ends within the image.
LEMMA PhasesEnd ==
  ASSUME job \in DOMAIN Images, Writing
  PROVE  EndOf(packing) \in Nat /\ EndOf(packing) <= Len(Image)
<1>1. CASE packing = "stub"  BY <1>1, Phases DEF EndOf, TrailerSize
<1>2. CASE packing = "archive"  BY <1>2, Phases DEF EndOf, TrailerSize
<1>3. CASE packing = "trailer"  BY <1>3, Phases DEF EndOf
<1> QED  BY <1>1, <1>2, <1>3 DEF Writing

----------------------------------------------------------------------------
(* The file under pack, power losses and rot.                              *)

\* What is written so far shows the image, and rot takes nothing of that back.
LEMMA WrittenShows ==
  ASSUME NEW a \in DOMAIN Images, NEW w \in 0..Len(Images[a]), NEW d
  PROVE  Shows(SubSeq(Images[a], 1, w), a, d)
BY ImageShows, PrefixShows

LEMMA RottenShows ==
  ASSUME NEW a, NEW f, NEW d, Shows(f, a, d), ~d, NEW r
  PROVE  Shows(f, a, r)
BY DEF Shows

\* Steps of pack leave unpack where it is: not begun.
LEMMA IdleOnTrack ==
  ASSUME OnTrack, reading = "idle", UNCHANGED unpackVars
  PROVE  OnTrack' /\ reading' = "idle"
<1>1. reading' = "idle" /\ dest' = dest /\ entries' = entries  BY DEF unpackVars
<1>2. dest' = <<>> /\ entries' = <<>>  BY <1>1 DEF OnTrack, Unwritten
<1> QED
  BY <1>1, <1>2 DEF OnTrack, Opened, Unwritten, InHeader, InArchive, InFile, InRecord, Accepted, InEntries, Stopped

\* One lemma per step of pack, the power and rot.
LEMMA CreateKeeps ==
  ASSUME OnFile, OnTrack, Packing, Create
  PROVE  OnFile' /\ OnTrack'
<1>1. PICK a \in DOMAIN Images : job' = a /\ of' = a  BY DEF Create
<1>2. /\ file' = <<>> /\ packing' = "stub" /\ reported' = FALSE /\ UNCHANGED <<durable, damaged, unpackVars>>
      /\ reading = "idle" /\ ~damaged
  BY DEF Create, CanPack, Resting
<1>3. OnTrack' /\ reading' = "idle"  BY <1>2, IdleOnTrack
<1>4. Shows(file', of', damaged')
  <2>1. Shows(<<>>, a, damaged')  BY NothingShows
  <2> QED  BY <1>1, <1>2, <2>1
<1>5. OnFile'  BY <1>1, <1>2, <1>3, <1>4 DEF OnFile
<1> QED  BY <1>3, <1>5

LEMMA WriteByteKeeps ==
  ASSUME OnFile, OnTrack, Packing, Packing', WriteByte
  PROVE  OnFile' /\ OnTrack'
<1>1. /\ Writing /\ UNCHANGED <<of, durable, job, packing, reported, damaged, unpackVars>>
      /\ reading = "idle" /\ Writing'
  BY DEF WriteByte, OnFile, Writing
<1>2. OnTrack' /\ reading' = "idle"  BY <1>1, IdleOnTrack
<1>3. /\ of' \in DOMAIN Images /\ wpos' \in 0..EndOf(packing)' /\ file' = SubSeq(Images[of'], 1, wpos')
  BY <1>1 DEF Packing, InProgress, Image
<1>4. EndOf(packing)' = EndOf(packing)  BY <1>1 DEF EndOf, Image
<1>5. EndOf(packing) \in Nat /\ EndOf(packing) <= Len(Image) /\ Len(Image) \in Nat /\ Image = Images[of']
  <2>1. job \in DOMAIN Images /\ of' = job  BY <1>1 DEF Packing, InProgress
  <2> QED  BY <1>1, <2>1, PhasesEnd, Phases DEF Image
<1>6. wpos' \in 0..Len(Images[of'])  BY <1>3, <1>4, <1>5
<1>7. Shows(file', of', damaged')  BY <1>3, <1>6, WrittenShows
<1>8. OnFile'  BY <1>1, <1>2, <1>3, <1>7 DEF OnFile, Writing
<1> QED  BY <1>2, <1>8

LEMMA NextPhaseKeeps ==
  ASSUME OnFile, OnTrack, Packing, NextPhase
  PROVE  OnFile' /\ OnTrack'
<1>1. /\ UNCHANGED <<file, of, durable, job, reported, damaged, unpackVars>> /\ reading = "idle"
      /\ packing' # "ok"
  BY DEF NextPhase, OnFile, Writing
<1>2. OnTrack' /\ reading' = "idle"  BY <1>1, IdleOnTrack
<1> QED  BY <1>1, <1>2 DEF OnFile

LEMMA SyncKeeps ==
  ASSUME OnFile, OnTrack, Packing, Sync
  PROVE  OnFile' /\ OnTrack'
<1>1. /\ UNCHANGED <<file, of, job, damaged, unpackVars>> /\ durable' = <<file, of>> /\ packing' = "ok"
      /\ reported' /\ reading = "idle" /\ job \in DOMAIN Images
  BY DEF Sync, OnFile, Packing, InProgress
<1>2. OnTrack' /\ reading' = "idle"  BY <1>1, IdleOnTrack
<1>3. durable'[1] = file /\ durable'[2] = of  BY <1>1
<1> QED  BY <1>1, <1>2, <1>3 DEF OnFile

LEMMA PackStopsKeeps ==
  ASSUME OnFile, OnTrack, Packing, PackStops
  PROVE  OnFile' /\ OnTrack'
<1>1. /\ UNCHANGED <<file, of, durable, job, reported, damaged, unpackVars>> /\ packing' = "failed"
      /\ reading = "idle"
  BY DEF PackStops, OnFile
<1>2. OnTrack' /\ reading' = "idle"  BY <1>1, IdleOnTrack
<1> QED  BY <1>1, <1>2 DEF OnFile

LEMMA DirWrittenKeeps ==
  ASSUME OnFile, OnTrack, Packing, DirWritten
  PROVE  OnFile' /\ OnTrack'
<1>1. UNCHANGED <<file, of, durable, job, packing, reported, damaged, unpackVars>> /\ reading = "idle"
  BY DEF DirWritten
<1>2. OnTrack' /\ reading' = "idle"  BY <1>1, IdleOnTrack
<1> QED  BY <1>1, <1>2 DEF OnFile, Writing

LEMMA PowerLossKeeps ==
  ASSUME OnFile, OnTrack, Packing, PowerLoss
  PROVE  OnFile' /\ OnTrack'
<1>1. /\ UNCHANGED <<job, reported, damaged, unpackVars>> /\ packing' = "off" /\ reading = "idle" /\ ~damaged
      /\ durable' = <<file', of'>>
      /\ \/ file' = <<>> /\ of' = NoArchive
         \/ file' = file /\ of' = of
         \/ (\E k \in 0..Len(file) : file' = SubSeq(file, 1, k)) /\ of' = of
         \/ file' = durable[1] /\ of' = durable[2]
  BY DEF PowerLoss
<1>2. OnTrack' /\ reading' = "idle"  BY <1>1, IdleOnTrack
<1>3. /\ of' \notin DOMAIN Images => file' = <<>>
      /\ of' \in DOMAIN Images => Shows(file', of', damaged)
  <2>1. CASE file' = file /\ of' = of  BY <2>1 DEF OnFile
  <2>2. CASE file' = durable[1] /\ of' = durable[2]  BY <2>2 DEF OnFile
  <2>3. CASE (\E k \in 0..Len(file) : file' = SubSeq(file, 1, k)) /\ of' = of
    <3>1. PICK k \in 0..Len(file) : file' = SubSeq(file, 1, k)  BY <2>3
    <3>2. CASE of \in DOMAIN Images
      <4>1. Shows(file, of, damaged)  BY <3>2 DEF OnFile
      <4>2. Shows(SubSeq(file, 1, k), of, damaged)  BY <3>2, <4>1, PrefixShows
      <4> QED  BY <2>3, <3>1, <3>2, <4>2
    <3>3. CASE of \notin DOMAIN Images
      <4>1. file = <<>>  BY <3>3 DEF OnFile
      <4>2. Len(file) = 0  BY <4>1
      <4>3. k = 0  BY <4>2
      <4>4. SubSeq(<<>>, 1, 0) = <<>>  OBVIOUS
      <4> QED  BY <2>3, <3>1, <3>3, <4>1, <4>3, <4>4
    <3> QED  BY <3>2, <3>3
  <2>4. CASE file' = <<>> /\ of' = NoArchive
    <3>1. NoArchive \in DOMAIN Images => Shows(<<>>, NoArchive, damaged)  BY NothingShows
    <3> QED  BY <2>4, <3>1
  <2> QED  BY <1>1, <2>1, <2>2, <2>3, <2>4
<1>4. durable'[1] = file' /\ durable'[2] = of' /\ damaged' = damaged  BY <1>1
<1>5. packing' # "ok" /\ ~Writing' /\ packing' # "sync"  BY <1>1 DEF Writing
<1>6. reported' => job' \in DOMAIN Images  BY <1>1 DEF OnFile
<1> QED  BY <1>1, <1>2, <1>3, <1>4, <1>5, <1>6 DEF OnFile

LEMMA RotKeeps ==
  ASSUME OnFile, OnTrack, Packing, Rot
  PROVE  OnFile' /\ OnTrack'
<1>1. /\ UNCHANGED <<of, durable, job, packing, reported, unpackVars>> /\ packing = "ok" /\ reading = "idle"
      /\ ~damaged /\ damaged'
  BY DEF Rot
<1>2. PICK p \in DOMAIN file : file[p].k \in Rots /\ file' = [file EXCEPT ![p] = Unpack!Damaged]
  BY DEF Rot, Rots
<1>3. OnTrack' /\ reading' = "idle"  BY <1>1, IdleOnTrack
<1>4. of \in DOMAIN Images
  <2> SUFFICES ASSUME of \notin DOMAIN Images PROVE FALSE  OBVIOUS
  <2>1. file = <<>>  BY DEF OnFile
  <2> QED  BY <1>2, <2>1
<1>5. Shows(file, of, damaged)  BY <1>4 DEF OnFile
<1>6. Shows(file', of', damaged')
  <2> DEFINE g == file'
             image == Images[of]
  <2>1. IsSeq(file) /\ Len(file) \in Nat /\ DOMAIN file = 1..Len(file)  BY <1>5, SeqLength DEF Shows
  <2>2. g = [q \in 1..Len(file) |-> g[q]]  BY <1>2, <2>1
  <2>3. \A q \in 1..Len(file) : g[q] = file[q] \/ (g[q] = Unpack!Damaged /\ file[q].k \in Rots)
    <3> HIDE DEF Rots
    <3> QED  BY <1>2, <2>1
  <2>4. Len(file) <= Len(image) /\ \A q \in 1..Len(file) : file[q] = image[q]
    BY <1>1, <1>5 DEF Shows
  <2> HIDE DEF g, image
  <2>5. IsSeq(g) /\ Len(g) = Len(file)  BY <2>1, <2>2, SeqFrom
  <2>6. \A q \in 1..Len(g) : g[q] = image[q] \/ (damaged' /\ g[q] = Unpack!Damaged /\ image[q].k \in Rots)
    BY <1>1, <2>3, <2>4, <2>5
  <2> QED  BY <1>1, <2>4, <2>5, <2>6 DEF Shows, g, image
<1>7. /\ durable'[2] \notin DOMAIN Images => durable'[1] = <<>>
      /\ durable'[2] \in DOMAIN Images => Shows(durable'[1], durable'[2], damaged')
  <2>1. durable' = durable  BY <1>1
  <2>2. ASSUME durable[2] \in DOMAIN Images PROVE Shows(durable[1], durable[2], damaged')
    <3> DEFINE d == damaged
               r == damaged'
    <3>1. Shows(durable[1], durable[2], d) /\ ~d  BY <1>1, <2>2 DEF OnFile
    <3> HIDE DEF d, r
    <3>2. Shows(durable[1], durable[2], r)  BY <3>1, RottenShows
    <3> QED  BY <3>2 DEF r
  <2> QED  BY <2>1, <2>2 DEF OnFile
<1> QED  BY <1>1, <1>3, <1>4, <1>6, <1>7 DEF OnFile

\* unpack leaves the file as it is and keeps to the records.
LEMMA RunUnpackKeeps ==
  ASSUME OnFile, OnTrack, Packing, RunUnpack
  PROVE  OnFile' /\ OnTrack'
<1>1. Frozen /\ Unpack!Next /\ ~Writing /\ packing # "sync"  BY DEF RunUnpack, Unpack!Next, Frozen
<1>2. OnFile'
  <2>1. UNCHANGED <<file, of, durable, job, packing, reported, damaged>>  BY <1>1 DEF Frozen
  <2> QED  BY <1>1, <2>1 DEF OnFile, Writing
<1>3. Safe  BY DEF Packing
<1>4. CASE Unpack!Open  BY <1>1, <1>2, <1>3, <1>4, OpenOnTrack
<1>5. CASE Unpack!ReadHeader  BY <1>1, <1>2, <1>3, <1>5, HeaderOnTrack
<1>6. CASE Unpack!ReadRecord  BY <1>1, <1>2, <1>3, <1>6, RecordOnTrack
<1>7. CASE Unpack!ReadChunk  BY <1>1, <1>2, <1>3, <1>7, ChunkOnTrack
<1>8. CASE Unpack!ReadFileCrc  BY <1>1, <1>2, <1>3, <1>8, CrcOnTrack
<1>9. CASE Unpack!EndOfRecords  BY <1>1, <1>2, <1>3, <1>9, EndOnTrack
<1>10. CASE Unpack!WriteEntry  BY <1>1, <1>2, <1>3, <1>10, WriteOnTrack
<1>11. CASE Unpack!WriteEntryFails  BY <1>1, <1>2, <1>3, <1>11, WriteFailsOnTrack
<1>12. CASE Unpack!Finish  BY <1>1, <1>2, <1>3, <1>12, FinishOnTrack
<1> QED
  BY <1>1, <1>2, <1>4, <1>5, <1>6, <1>7, <1>8, <1>9, <1>10, <1>11, <1>12 DEF Unpack!Next

\* Nothing happens.
LEMMA StutterKeeps ==
  ASSUME OnFile, OnTrack, UNCHANGED vars
  PROVE  OnFile' /\ OnTrack'
<1>1. /\ UNCHANGED <<file, of, durable, link, job, packing, reported, damaged>>
      /\ UNCHANGED <<reading, at, header, record, entries, dest>> /\ Frozen
  BY DEF vars, packVars, unpackVars, Frozen
<1>2. OnFile'  BY <1>1 DEF OnFile, Writing
<1>3. Sound' = Sound /\ TrailerSeen' = TrailerSeen  BY <1>1, FrozenIs
<1>4. Opened' /\ Unwritten'  BY <1>1, <1>3 DEF OnTrack, Opened, Unwritten
<1>5. InHeader'
  <2>1. Unpack!Seen(at)' = Unpack!Seen(at)  BY <1>1 DEF Unpack!Seen
  <2> QED  BY <1>1, <1>3, <2>1 DEF OnTrack, InHeader
<1>6. InArchive' /\ InFile' /\ InRecord'  BY <1>1 DEF OnTrack, InArchive, InFile, InRecord
<1>7. Accepted' /\ Stopped'  BY <1>1 DEF OnTrack, Accepted, Stopped, PartlyWritten
<1>8. InEntries'  BY <1>1 DEF OnTrack, InEntries, Written
<1> QED  BY <1>2, <1>4, <1>5, <1>6, <1>7, <1>8 DEF OnTrack

\* In the beginning there is no file.
LEMMA InitOnTrack == Init => OnFile /\ OnTrack
<1> SUFFICES ASSUME Init PROVE OnFile /\ OnTrack  OBVIOUS
<1>1. reading = "idle" /\ dest = <<>> /\ entries = <<>>  BY DEF Init, Unpack!Init
<1>2. /\ packing = "idle" /\ ~reported /\ ~damaged /\ file = <<>>
      /\ of = NoArchive /\ durable[1] = <<>> /\ durable[2] = NoArchive
  BY DEF Init
<1>3. OnTrack
  BY <1>1 DEF OnTrack, Opened, Unwritten, InHeader, InArchive, InFile, InRecord, Accepted, InEntries, Stopped
<1>4. NoArchive \in DOMAIN Images => Shows(<<>>, NoArchive, damaged)  BY NothingShows
<1>5. OnFile  BY <1>1, <1>2, <1>4 DEF OnFile, Writing
<1> QED  BY <1>3, <1>5

\* The part of the invariant that is about pack alone, step by step.
LEMMA InitHolds == Init => Packing
<1> SUFFICES ASSUME Init PROVE Packing  OBVIOUS
<1>1. reading = "idle"  BY DEF Init, Unpack!Init
<1>2. /\ packing = "idle" /\ ~reported /\ reported \in BOOLEAN /\ damaged \in BOOLEAN
      /\ runs = 0 /\ job = NoArchive /\ of = NoArchive /\ durable = <<file, of>>
      /\ link = "none"
  BY DEF Init
<1>3. durable[2] = of  BY <1>2
<1>4. Values  BY <1>1, <1>2, <1>3, ArchivesAssumption DEF Values, Archives
<1> QED  BY <1>2, <1>4 DEF Packing, InProgress, Safe, Writing

LEMMA CreateHolds == Packing /\ Create => Packing'
<1> SUFFICES ASSUME Packing, Create PROVE Packing'  OBVIOUS
<1>1. PICK a \in DOMAIN Images : job' = a /\ of' = a  BY DEF Create
<1>2. Values'
  <2>1. runs' \in 0..MaxRuns  BY ArchivesAssumption DEF Create, CanPack, Packing, Values
  <2>2. UNCHANGED <<durable, damaged, reading>> /\ packing' = "stub" /\ reported' = FALSE
    BY DEF Create, unpackVars
  <2>3. link' \in {"new", "kept"}  BY DEF Create, Packing, Values
  <2> QED  BY <1>1, <2>1, <2>2, <2>3 DEF Packing, Values, Archives
<1>3. InProgress'
  <2>1. 0 \in 0..StubLen  BY ArchivesAssumption
  <2>2. EndOf("stub")' = StubLen  BY DEF EndOf
  <2>3. SubSeq(Images[a], 1, 0) = <<>>  BY <1>1
  <2>4. link' # "none"  BY DEF Create
  <2> QED  BY <1>1, <2>1, <2>2, <2>3, <2>4 DEF Create, CanPack, InProgress, Writing, Image
<1>4. Safe'  BY DEF Create, Safe
<1> QED  BY <1>2, <1>3, <1>4 DEF Packing

LEMMA WriteByteHolds == Packing /\ WriteByte => Packing'
<1> SUFFICES ASSUME Packing, WriteByte PROVE Packing'  OBVIOUS
<1>1. Values'  BY DEF WriteByte, Packing, Values, Archives, unpackVars
<1>2. InProgress'
  <2>1. job \in DOMAIN Images /\ ~damaged /\ of = job /\ ~reported /\ link' # "none"
    BY DEF WriteByte, Packing, InProgress
  <2>2. wpos \in Nat /\ EndOf(packing) \in Int /\ EndOf(packing) <= Len(Image)
        /\ wpos < EndOf(packing) /\ file = SubSeq(Image, 1, wpos)
    BY <2>1, PhasesEnd DEF WriteByte, Packing, InProgress
  <2>3. SubSeq(file, wpos + 2, Len(file)) = <<>>
    BY <2>1, <2>2, Phases
  <2>4. SubSeq(Image, 1, wpos + 1) \o <<>> = SubSeq(Image, 1, wpos + 1)
    BY <2>1, <2>2, Phases
  <2>5. file' = SubSeq(Image, 1, wpos + 1)
    BY <2>3, <2>4 DEF WriteByte
  <2>6. Image' = Image /\ EndOf(packing)' = EndOf(packing)
    BY DEF WriteByte, Image, EndOf
  <2> QED  BY <2>1, <2>2, <2>5, <2>6 DEF WriteByte, Writing, InProgress
<1>3. Safe'  BY DEF WriteByte, Packing, Safe, Writing
<1> QED  BY <1>1, <1>2, <1>3 DEF Packing

LEMMA NextPhaseHolds == Packing /\ NextPhase => Packing'
<1> SUFFICES ASSUME Packing, NextPhase PROVE Packing'  OBVIOUS
<1>1. job \in DOMAIN Images /\ ~damaged /\ of = job /\ ~reported /\ link # "none"
      /\ wpos = EndOf(packing) /\ file = SubSeq(Image, 1, wpos)
  BY DEF NextPhase, Packing, InProgress
<1>2. \/ packing = "stub" /\ packing' = "archive" /\ wpos = StubLen
      \/ packing = "archive" /\ packing' = "trailer" /\ wpos = Len(Image) - TrailerSize
      \/ packing = "trailer" /\ packing' = "sync" /\ wpos = Len(Image)
      \/ packing' = "failed"
  BY <1>1 DEF NextPhase, Writing, EndOf
<1>3. UNCHANGED <<file, of, durable, link, job, wpos, reported, damaged, runs, reading>>
  BY DEF NextPhase, unpackVars
<1>4. Image' = Image  BY <1>3 DEF Image
<1>5. Values'  BY <1>2, <1>3 DEF Packing, Values, Archives
<1>6. InProgress'
  <2>1. SubSeq(Image, 1, Len(Image)) = Image  BY <1>1, Phases
  <2>2. packing' = "archive" => wpos \in 0..EndOf(packing)'
    BY <1>1, <1>2, <1>4, Phases DEF EndOf, TrailerSize
  <2>3. packing' = "trailer" => wpos \in 0..EndOf(packing)'
    BY <1>1, <1>2, <1>4, Phases DEF EndOf, TrailerSize
  <2> QED  BY <1>1, <1>2, <1>3, <1>4, <2>1, <2>2, <2>3 DEF InProgress, Writing
<1>7. Safe'  BY <1>1, <1>3 DEF Safe
<1> QED  BY <1>5, <1>6, <1>7 DEF Packing

LEMMA SyncHolds == Packing /\ Sync => Packing'
  BY DEF Sync, Packing, Values, InProgress, Safe, Writing, Image, Archives, unpackVars

LEMMA PackStopsHolds == Packing /\ PackStops => Packing'
  BY DEF PackStops, Packing, Values, InProgress, Safe, Writing, Image, Archives, unpackVars

LEMMA DirWrittenHolds == Packing /\ DirWritten => Packing'
<1> SUFFICES ASSUME Packing, DirWritten PROVE Packing'  OBVIOUS
<1>1. /\ link = "new" /\ link' = "kept"
      /\ UNCHANGED <<file, of, durable, job, wpos, packing, reported, damaged, runs, reading>>
  BY DEF DirWritten, unpackVars
<1>2. Values'  BY <1>1 DEF Packing, Values, Archives
<1>3. InProgress'  BY <1>1 DEF Packing, InProgress, Writing, Image, EndOf
<1>4. Safe'  BY <1>1 DEF Packing, Safe, Image
<1> QED  BY <1>2, <1>3, <1>4 DEF Packing

LEMMA PowerLossHolds == Packing /\ PowerLoss => Packing'
<1> SUFFICES ASSUME Packing, PowerLoss PROVE Packing'  OBVIOUS
<1>1. UNCHANGED <<job, reported, damaged, runs, reading>> /\ packing' = "off" /\ ~damaged
  BY DEF PowerLoss, unpackVars
<1>2. of' \in {NoArchive, of, durable[2]} /\ durable'[2] = of' /\ link' \in {"none", "kept"}
  BY DEF PowerLoss
<1>3. Values'  BY <1>1, <1>2 DEF Packing, Values, Archives
<1>4. InProgress'  BY <1>1 DEF InProgress, Writing
<1>5. Safe'
  <2>1. CASE ~reported  BY <2>1, <1>1 DEF Safe
  <2>2. CASE link' = "none"
    <3>1. file' = <<>>  BY <2>2 DEF PowerLoss
    <3> QED  BY <1>1, <2>2, <3>1 DEF Safe
  <2>3. CASE reported /\ link' # "none"
    <3>1. packing # "off" /\ link' = "kept"  BY <2>3 DEF PowerLoss
    <3>2. file = Image /\ of = job /\ durable = <<file, of>>
      BY <2>3, <1>1, <3>1 DEF Packing, Safe
    <3>3. UNCHANGED <<file, of>> /\ durable' = <<file', of'>>
      BY <3>1, <3>2 DEF PowerLoss
    <3> QED  BY <1>1, <3>1, <3>2, <3>3 DEF Safe, Image
  <2> QED  BY <2>1, <2>2, <2>3 DEF Packing, Values
<1> QED  BY <1>3, <1>4, <1>5 DEF Packing

LEMMA RotHolds == Packing /\ Rot => Packing'
  BY DEF Rot, Packing, Values, InProgress, Safe, Writing, Archives, unpackVars

\* unpack does not write to its input.
LEMMA RunUnpackHolds == Packing /\ RunUnpack => Packing'
<1> SUFFICES ASSUME Packing, RunUnpack PROVE Packing'  OBVIOUS
<1>1. UNCHANGED <<file, of, durable, link, job, wpos, packing, reported, damaged, runs>>
  BY DEF RunUnpack, Unpack!Next
<1>2. reading' \in {"header", "file", "chunk", "writing", "refused", "failed", "ok"}
  BY DEF RunUnpack, Unpack!Next, Unpack!Open, Unpack!ReadHeader, Unpack!ReadRecord, Unpack!ReadChunk,
     Unpack!ReadFileCrc, Unpack!EndOfRecords, Unpack!WriteEntry, Unpack!WriteEntryFails, Unpack!Finish,
     Unpack!Refuse
<1>3. Values'  BY <1>1, <1>2 DEF Packing, Values, Archives
<1>4. InProgress' /\ Safe'
  BY <1>1 DEF Packing, InProgress, Safe, Writing, Image, EndOf
<1> QED  BY <1>3, <1>4 DEF Packing

\* What is read to the end is whole, and without rot it is the image.
LEMMA FinishedAccepted ==
  ASSUME OnFile, OnTrack
  PROVE  OnlyFinishedFilesAccepted
<1> SUFFICES ASSUME reading \in {"writing", "failed", "ok"}, ~damaged
             PROVE  of \in DOMAIN Images /\ file = Images[of]
  BY DEF OnlyFinishedFilesAccepted
<1>1. of \in DOMAIN Images /\ Len(file) = Len(Images[of])  BY DEF OnTrack, Opened, Accepted
<1>2. Shows(file, of, damaged)  BY <1>1 DEF OnFile
<1> QED  BY <1>1, <1>2, WholeShown

\* A reported file is never refused, and only the limits keep an entry from being written.
LEMMA ReportedUnpack ==
  ASSUME OnFile, Safe, OnTrack
  PROVE  ReportedFilesUnpack
<1> SUFFICES ASSUME reported, ~damaged, link # "none", Len(file) <= MaxSfxInput
             PROVE  /\ reading # "refused"
                    /\ reading = "writing" /\ entries # <<>> =>
                         Head(entries).usz > MaxEntry \/ Unpack!Writable(Head(entries))
  BY DEF ReportedFilesUnpack
<1>1. Sound  BY DEF Sound
<1>2. reading # "refused"  BY <1>1 DEF OnTrack, Unwritten
<1>3. ASSUME reading = "writing", entries # <<>>, ~ (Head(entries).usz > MaxEntry)
      PROVE  Unpack!Writable(Head(entries))
  <2> DEFINE r == Head(entries)
  <2>1. of \in DOMAIN Images /\ header.algo = of.algo  BY <1>3 DEF OnTrack, Opened, Accepted
  <2>2. PICK k \in 0..Len(of.entries) :
          k + 1 \in 1..Len(of.entries) /\ EntryRead(of.algo, of.entries[k + 1], r, damaged) /\ Written(k)
    BY <1>3, EntryNext
  <2> DEFINE e == of.entries[k + 1]
  <2>3. Fits(of) /\ EntryFits(of.algo, e)  BY <2>1, <2>2, ImageIs, RecordLies
  <2>4. /\ r.name = e.name /\ r.usz = SizeOf(e) /\ Len(r.chunks) = Len(e.chunks)
        /\ ChunksRead(of.algo, e, r.chunks, damaged) /\ r.crc = CrcCell(Bytes(e.name, SizeOf(e)))
    BY <2>2 DEF EntryRead
  <2>5. r.usz <= MaxEntry
    <3>1. SizeOf(e) \in Nat
      <4> HIDE DEF e
      <4> QED  BY <2>3, SizeIs
    <3>2. MaxEntry \in Nat  BY ArchivesAssumption
    <3> DEFINE size == SizeOf(e)
    <3>3. r.usz = size /\ ~ (size > MaxEntry)  BY <1>3, <2>4
    <3> HIDE DEF size, r
    <3>4. size <= MaxEntry  BY <3>1, <3>2, <3>3 DEF size
    <3> QED  BY <3>3, <3>4
  <2>6. r.name \notin DOMAIN dest
    <3> SUFFICES ASSUME r.name \in DOMAIN dest PROVE FALSE  OBVIOUS
    <3>1. PICK i \in 1..k : r.name = of.entries[i].name  BY <2>2 DEF Written
    <3>2. DOMAIN of.entries = 1..Len(of.entries)  BY <2>3, LenProperties DEF Fits
    <3>3. i \in DOMAIN of.entries /\ k + 1 \in DOMAIN of.entries /\ i # k + 1  BY <2>2, <3>1, <3>2
    <3>4. of.entries[i].name = of.entries[k + 1].name  BY <2>4, <3>1
    <3> QED  BY <2>3, <3>3, <3>4 DEF Fits
  <2>7. Unpack!Decode(r) = Bytes(e.name, SizeOf(e))
    <3> HIDE DEF r, e
    <3>1. EntryFits(header.algo, e) /\ ChunksRead(header.algo, e, r.chunks, damaged) /\ Len(r.chunks) = Len(e.chunks)
      BY <2>1, <2>3, <2>4
    <3> QED  BY <3>1, DecodeIs
  <2> HIDE DEF r, e
  <2> QED  BY <2>4, <2>5, <2>6, <2>7, SameLayout DEF Unpack!Writable, r
<1> QED  BY <1>2, <1>3

\* What is written for an entry, against UnpackedFilesExact's way to name it.
LEMMA EntryNamed ==
  ASSUME of \in DOMAIN Images, NEW i \in 1..Len(of.entries)
  PROVE  LET es == of.entries
         IN  /\ i \in DOMAIN es /\ DOMAIN es = 1..Len(es) /\ SizeOf(es[i]) \in Nat
             /\ (CHOOSE e \in {es[j] : j \in DOMAIN es} : e.name = es[i].name) = es[i]
<1> DEFINE es == of.entries
           E == {es[j] : j \in DOMAIN es}
           x == CHOOSE e \in E : e.name = es[i].name
<1>1. Fits(of) /\ EntryFits(of.algo, es[i])  BY ImageIs, RecordLies
<1>2. DOMAIN es = 1..Len(es)  BY <1>1, LenProperties DEF Fits
<1>3. SizeOf(es[i]) \in Nat
  <2> DEFINE e == es[i]
  <2>1. EntryFits(of.algo, e)  BY <1>1
  <2> HIDE DEF e
  <2>2. SizeOf(e) \in Nat  BY <2>1, SizeIs
  <2> QED  BY <2>2 DEF e
<1>4. x \in E /\ x.name = es[i].name  BY <1>2
<1>5. PICK j \in DOMAIN es : x = es[j]  BY <1>4
<1>6. j = i  BY <1>1, <1>2, <1>4, <1>5 DEF Fits
<1> QED  BY <1>2, <1>3, <1>5, <1>6

\* What lies in the destination when k entries are written, and a part of the next at most.
LEMMA WhatIsWritten ==
  ASSUME of \in DOMAIN Images, NEW k \in 0..Len(of.entries), PartlyWritten(k)
  PROVE  LET es == of.entries
             Of(n) == CHOOSE e \in {es[i] : i \in DOMAIN es} : e.name = n
             Whole(e) == e.name \in DOMAIN dest /\ Len(dest[e.name]) = SizeOf(e)
         IN  /\ \A n \in DOMAIN dest :
                  /\ \E i \in DOMAIN es : es[i].name = n
                  /\ dest[n] = Bytes(n, Len(dest[n]))
                  /\ Len(dest[n]) <= SizeOf(Of(n))
             /\ \A i \in DOMAIN es : es[i].name \in DOMAIN dest => \A j \in 1..(i - 1) : Whole(es[j])
             /\ \A i \in 1..k : Whole(es[i])
<1> DEFINE es == of.entries
           Of(n) == CHOOSE e \in {es[i] : i \in DOMAIN es} : e.name = n
           Whole(e) == e.name \in DOMAIN dest /\ Len(dest[e.name]) = SizeOf(e)
           Part(n, i) == \E b \in 0..SizeOf(es[i]) : dest[n] = Bytes(n, b)
<1>1. Len(es) \in Nat /\ DOMAIN es = 1..Len(es)
      /\ \A i, j \in DOMAIN es : es[i].name = es[j].name => i = j
  <2>1. Fits(of) /\ Len(es) \in Nat  BY ImageIs
  <2>2. DOMAIN es = 1..Len(es)  BY <2>1, LenProperties DEF Fits
  <2> QED  BY <2>1, <2>2 DEF Fits
<1>2. ASSUME NEW i \in 1..Len(es), NEW b \in 0..SizeOf(es[i]), NEW n, dest[n] = Bytes(n, b)
      PROVE  Len(dest[n]) = b /\ b \in Nat /\ b <= SizeOf(es[i]) /\ SizeOf(es[i]) \in Nat
  <2>1. SizeOf(es[i]) \in Nat  BY EntryNamed
  <2>2. b \in Nat /\ b <= SizeOf(es[i])  BY <2>1
  <2>3. Len(Bytes(n, b)) = b  BY <2>2, BytesAre
  <2> QED  BY <1>2, <2>1, <2>2, <2>3
<1>3. ASSUME NEW i \in 1..Len(es)
      PROVE  SizeOf(es[i]) \in 0..SizeOf(es[i])
  <2> DEFINE z == SizeOf(es[i])
  <2>1. z \in Nat  BY EntryNamed
  <2> HIDE DEF z
  <2>2. z \in 0..z  BY <2>1
  <2> QED  BY <2>2 DEF z
<1>4. ASSUME NEW n \in DOMAIN dest
      PROVE  \E i \in 1..Len(es) :
               n = es[i].name /\ i <= k + 1 /\ Part(n, i) /\ (i <= k => dest[n] = Bytes(n, SizeOf(es[i])))
  <2>1. CASE \E i \in 1..k : n = es[i].name /\ dest[n] = Bytes(n, SizeOf(es[i]))
    <3>1. PICK i \in 1..k : n = es[i].name /\ dest[n] = Bytes(n, SizeOf(es[i]))  BY <2>1
    <3>2. i \in 1..Len(es) /\ i <= k + 1  BY <1>1, <3>1
    <3>3. SizeOf(es[i]) \in 0..SizeOf(es[i])  BY <1>3, <3>2
    <3>4. Part(n, i)  BY <3>1, <3>3
    <3> QED  BY <3>1, <3>2, <3>4
  <2>2. CASE k + 1 \in 1..Len(es) /\ n = es[k + 1].name /\ Part(n, k + 1)
    <3>1. k + 1 <= k + 1 /\ ~ (k + 1 <= k)  OBVIOUS
    <3> QED  BY <2>2, <3>1
  <2> QED  BY <2>1, <2>2 DEF PartlyWritten
<1>5. ASSUME NEW i \in 1..k PROVE Whole(es[i])
  <2>1. es[i].name \in DOMAIN dest /\ i \in 1..Len(es)  BY <1>1 DEF PartlyWritten
  <2>2. PICK j \in 1..Len(es) :
          es[i].name = es[j].name /\ (j <= k => dest[es[i].name] = Bytes(es[i].name, SizeOf(es[j])))
    BY <1>4, <2>1
  <2>3. j = i /\ i <= k  BY <1>1, <2>1, <2>2
  <2>4. dest[es[i].name] = Bytes(es[i].name, SizeOf(es[i]))  BY <2>2, <2>3
  <2>5. SizeOf(es[i]) \in 0..SizeOf(es[i])  BY <1>3, <2>1
  <2>6. Len(dest[es[i].name]) = SizeOf(es[i])  BY <1>2, <2>1, <2>4, <2>5
  <2> QED  BY <2>1, <2>6
<1>6. ASSUME NEW n \in DOMAIN dest
      PROVE  /\ \E i \in DOMAIN es : es[i].name = n
             /\ dest[n] = Bytes(n, Len(dest[n]))
             /\ Len(dest[n]) <= SizeOf(Of(n))
  <2>1. PICK i \in 1..Len(es) : n = es[i].name /\ Part(n, i)  BY <1>4
  <2>2. PICK b \in 0..SizeOf(es[i]) : dest[n] = Bytes(n, b)  BY <2>1
  <2>3. Len(dest[n]) = b /\ b <= SizeOf(es[i])  BY <1>2, <2>2
  <2>4. i \in DOMAIN es /\ Of(n) = es[i]  BY <2>1, EntryNamed
  <2> QED  BY <2>1, <2>2, <2>3, <2>4
<1>7. ASSUME NEW i \in DOMAIN es, es[i].name \in DOMAIN dest, NEW j \in 1..(i - 1)
      PROVE  Whole(es[j])
  <2>1. PICK h \in 1..Len(es) : es[i].name = es[h].name /\ h <= k + 1  BY <1>4, <1>7
  <2>2. h = i /\ i \in Nat  BY <1>1, <2>1
  <2>3. j \in 1..k  BY <2>1, <2>2
  <2> QED  BY <1>5, <2>3
<1> QED  BY <1>5, <1>6, <1>7

\* What lies in the destination, when unpack is done and before.
LEMMA ExactlyUnpacked ==
  ASSUME Values, OnTrack
  PROVE  UnpackedFilesExact
<1> DEFINE es == of.entries
           Of(n) == CHOOSE e \in {es[i] : i \in DOMAIN es} : e.name = n
           Whole(e) == e.name \in DOMAIN dest /\ Len(dest[e.name]) = SizeOf(e)
           Exact(n) == /\ \E i \in DOMAIN es : es[i].name = n
                       /\ dest[n] = Bytes(n, Len(dest[n]))
                       /\ Len(dest[n]) <= SizeOf(Of(n))
           InOrder == \A i \in DOMAIN es : es[i].name \in DOMAIN dest => \A j \in 1..(i - 1) : Whole(es[j])
<1>1. CASE reading \in {"idle", "refused", "header", "file", "chunk"}
  <2>1. dest = <<>>  BY <1>1 DEF OnTrack, Unwritten
  <2>2. DOMAIN dest = {} /\ reading # "ok"  BY <1>1, <2>1
  <2> QED  BY <2>2 DEF UnpackedFilesExact
<1>2. CASE reading \in {"writing", "ok"}
  <2>1. of \in DOMAIN Images  BY <1>2 DEF OnTrack, Opened
  <2>2. PICK k \in 0..Len(es) :
          /\ k + Len(entries) = Len(es) /\ Written(k)
          /\ reading = "ok" => entries = <<>>
    BY <1>2 DEF OnTrack, InEntries
  <2>3. Len(es) \in Nat  BY <2>1, ImageIs
  <2>4. PartlyWritten(k)  BY <2>2, StoppedIn
  <2>5. (\A n \in DOMAIN dest : Exact(n)) /\ InOrder /\ \A i \in 1..k : Whole(es[i])
    BY <2>1, <2>4, WhatIsWritten
  <2>6. ASSUME NEW n \in DOMAIN dest PROVE Len(dest[n]) = SizeOf(Of(n))
    <3>1. PICK i \in 1..k : n = es[i].name  BY <2>2 DEF Written
    <3>2. i \in 1..Len(es)  BY <2>3
    <3>3. Of(n) = es[i]  BY <2>1, <3>1, <3>2, EntryNamed
    <3>4. Len(dest[es[i].name]) = SizeOf(es[i])  BY <2>5
    <3> QED  BY <3>1, <3>3, <3>4
  <2>7. reading = "ok" => DOMAIN dest = {es[i].name : i \in DOMAIN es}
    <3> SUFFICES ASSUME reading = "ok" PROVE DOMAIN dest = {es[i].name : i \in DOMAIN es}  OBVIOUS
    <3>1. entries = <<>> /\ Len(entries) = 0  BY <2>2
    <3>2. k = Len(es)  BY <2>2, <2>3, <3>1
    <3>3. DOMAIN es = 1..k
      <4>1. Fits(of)  BY <2>1, ImageIs
      <4> QED  BY <3>2, <4>1, LenProperties DEF Fits
    <3> QED  BY <2>2, <3>3 DEF Written
  <2> QED  BY <2>5, <2>6, <2>7 DEF UnpackedFilesExact
<1>3. CASE reading = "failed"
  <2>1. of \in DOMAIN Images  BY <1>3 DEF OnTrack, Opened
  <2>2. PICK k \in 0..Len(es) : PartlyWritten(k)  BY <1>3 DEF OnTrack, Stopped
  <2>3. (\A n \in DOMAIN dest : Exact(n)) /\ InOrder  BY <2>1, <2>2, WhatIsWritten
  <2> QED  BY <1>3, <2>3 DEF UnpackedFilesExact
<1> QED  BY <1>1, <1>2, <1>3 DEF Values

----------------------------------------------------------------------------
(* The inductive invariant.                                                *)

IInv == Packing /\ OnFile /\ OnTrack

\* What pack, the power and rot leave in the file is an image, a part of one or one with a
\* rotten byte, and unpack is where such a file leads it.
THEOREM Invariant == Spec => []IInv
<1>1. Init => IInv  BY InitHolds, InitOnTrack DEF IInv
<1>2. IInv /\ [Next]_vars => IInv'
  <2> SUFFICES ASSUME Packing, OnFile, OnTrack, [Next]_vars PROVE Packing' /\ OnFile' /\ OnTrack'
    BY DEF IInv
  <2>1. CASE Create  BY <2>1, CreateHolds, CreateKeeps
  <2>2. CASE WriteByte
    <3>1. Packing'  BY <2>2, WriteByteHolds
    <3> QED  BY <2>2, <3>1, WriteByteKeeps
  <2>3. CASE NextPhase  BY <2>3, NextPhaseHolds, NextPhaseKeeps
  <2>4. CASE Sync  BY <2>4, SyncHolds, SyncKeeps
  <2>5. CASE PackStops  BY <2>5, PackStopsHolds, PackStopsKeeps
  <2>6. CASE PowerLoss  BY <2>6, PowerLossHolds, PowerLossKeeps
  <2>7. CASE Rot  BY <2>7, RotHolds, RotKeeps
  <2>8. CASE RunUnpack  BY <2>8, RunUnpackHolds, RunUnpackKeeps
  <2>10. CASE DirWritten  BY <2>10, DirWrittenHolds, DirWrittenKeeps
  <2>9. CASE UNCHANGED vars
    <3>1. Packing'
      BY <2>9 DEF vars, packVars, unpackVars, Packing, Values, InProgress, Safe, Writing, Image, EndOf
    <3> QED  BY <2>9, <3>1, StutterKeeps
  <2> QED  BY <2>1, <2>2, <2>3, <2>4, <2>5, <2>6, <2>7, <2>8, <2>9, <2>10 DEF Next
<1> QED  BY <1>1, <1>2, PTL DEF Spec

----------------------------------------------------------------------------
(* What it comes to.                                                       *)

\* The values of the variables: while pack writes, the file is as long as what was
\* written, so no byte of an earlier file is left behind it.
THEOREM Typed == Spec => []TypeOK
<1>1. IInv => TypeOK
  <2> SUFFICES ASSUME Packing PROVE TypeOK  BY DEF IInv
  <2>1. Writing => link # "none" /\ Len(file) = wpos /\ wpos <= Len(Image)
    <3> SUFFICES ASSUME Writing PROVE link # "none" /\ Len(file) = wpos /\ wpos <= Len(Image)  OBVIOUS
    <3>1. link # "none" /\ job \in DOMAIN Images /\ wpos \in 0..EndOf(packing) /\ file = SubSeq(Image, 1, wpos)
      BY DEF Packing, InProgress
    <3>2. wpos \in Nat /\ wpos <= Len(Image)  BY <3>1, Phases, PhasesEnd
    <3> QED  BY <3>1, <3>2, Phases
  <2> QED  BY <2>1 DEF Packing, Values, Archives, TypeOK
<1> QED  BY <1>1, Invariant, PTL

\* A file that pack has reported is finished and stays so until it is packed over or a byte
\* of it rots; a power loss takes nothing of it (sync_all before Ok), unless it takes the
\* whole file with a name that is not on the disk (the directory is not synced).
THEOREM ReportedLast == Spec => []ReportedFilesLast
<1>1. IInv => ReportedFilesLast  BY DEF IInv, Packing, Safe, ReportedFilesLast
<1> QED  BY <1>1, Invariant, PTL

\* A file that Archive::read takes is the finished file of one pack, whatever pack was
\* doing when it stopped (the trailer is written last, and Create truncates).
THEOREM OnlyFinishedAccepted == Spec => []OnlyFinishedFilesAccepted
<1>1. IInv => OnlyFinishedFilesAccepted  BY FinishedAccepted DEF IInv
<1> QED  BY <1>1, Invariant, PTL

\* What pack reported, is still there and is not too long is unpacked: load_archive and Archive::read
\* insist on nothing that Archive::write does not write.
THEOREM ReportedUnpacks == Spec => []ReportedFilesUnpack
<1>1. IInv => ReportedFilesUnpack  BY ReportedUnpack DEF IInv, Packing
<1> QED  BY <1>1, Invariant, PTL

\* unpack writes the packed bytes and no others, whichever covered byte has rotted, and
\* after Ok every entry is there (the CRCs of header and files).
THEOREM UnpackedExactly == Spec => []UnpackedFilesExact
<1>1. IInv => UnpackedFilesExact  BY ExactlyUnpacked DEF IInv, Packing
<1> QED  BY <1>1, Invariant, PTL
=============================================================================
