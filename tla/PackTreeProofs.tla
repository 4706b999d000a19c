--------------------------- MODULE PackTreeProofs ---------------------------
(***************************************************************************)
(* The walk of pack in any tree, for any inputs, any output and anything   *)
(* that others do meanwhile.  The first part is about the calls: what      *)
(* realpath, stat and lstat have to do with one another.  The second is    *)
(* the invariant of the walk.                                              *)
(***************************************************************************)
EXTENDS PackTree, SequenceTheorems, FiniteSetTheorems, WellFoundedInduction, TLAPS

----------------------------------------------------------------------------
(* Recursion along a path.                                                 *)

LEMMA Least ==
  ASSUME NEW T \in SUBSET Nat, T # {}
  PROVE  \E x \in T : \A y \in T : x <= y
<1>1. PICK x \in T : \A y \in T : <<y, x>> \notin OpToRel(<, Nat)
  BY WFMin, NatLessThanWellFounded
<1>2. \A y \in T : ~(y < x)  BY <1>1 DEF OpToRel
<1> QED  BY <1>2

LEMMA Along ==
  ASSUME NEW n \in Nat, NEW S, 0 \in S, \A k \in 1..n : k - 1 \in S => k \in S
  PROVE  \A k \in 0..n : k \in S
<1> DEFINE T == {k \in 0..n : k \notin S}
<1> SUFFICES ASSUME T # {} PROVE FALSE  OBVIOUS
<1>1. PICK x \in T : \A y \in T : x <= y
  <2>1. T \in SUBSET Nat  OBVIOUS
  <2> HIDE DEF T
  <2> QED  BY <2>1, Least
<1>2. x # 0  BY <1>1
<1>3. x \in 1..n /\ x - 1 \in 0..n /\ x - 1 \notin T  BY <1>1, <1>2
<1> QED  BY <1>1, <1>3

\* f begins with b and goes on as g says, up to n.
Follows(f, n, b, g) == f[0] = b /\ \A k \in 1..n : f[k] = g[<<k, f[k - 1]>>]

LEMMA Recursion ==
  ASSUME NEW n \in Nat, NEW V, NEW b \in V, NEW g, \A k \in 1..n, v \in V : g[<<k, v>>] \in V
  PROVE  \E f \in [0..n -> V] : Follows(f, n, b, g)
<1> DEFINE T == {m \in 0..n : ~ \E f \in [0..m -> V] : Follows(f, m, b, g)}
<1> SUFFICES ASSUME T # {} PROVE FALSE  OBVIOUS
<1>1. PICK x \in T : \A y \in T : x <= y
  <2>1. T \in SUBSET Nat  OBVIOUS
  <2> HIDE DEF T
  <2> QED  BY <2>1, Least
<1>2. x # 0
  <2> SUFFICES ASSUME x = 0 PROVE FALSE  OBVIOUS
  <2> DEFINE f == [k \in 0..0 |-> b]
  <2>1. f \in [0..0 -> V] /\ Follows(f, 0, b, g)  BY DEF Follows
  <2> QED  BY <2>1, <1>1
<1>3. x \in Nat /\ x - 1 \in 0..n /\ x - 1 \notin T  BY <1>1, <1>2
<1>4. PICK f \in [0..x - 1 -> V] : Follows(f, x - 1, b, g)  BY <1>3
<1> DEFINE h == [k \in 0..x |-> IF k = x THEN g[<<x, f[x - 1]>>] ELSE f[k]]
<1>5. h \in [0..x -> V]
  <2>1. x \in 1..n /\ f[x - 1] \in V  BY <1>1, <1>2, <1>3
  <2>2. g[<<x, f[x - 1]>>] \in V  BY <2>1
  <2> QED  BY <1>3, <2>2
<1>6. Follows(h, x, b, g)
  <2>1. h[0] = b  BY <1>2, <1>3, <1>4 DEF Follows
  <2>2. ASSUME NEW k \in 1..x PROVE h[k] = g[<<k, h[k - 1]>>]
    <3>1. h[k - 1] = f[k - 1]  BY <1>3
    <3>2. CASE k = x
      <4>1. h[x] = g[<<x, f[x - 1]>>]  BY <1>3
      <4> HIDE DEF h
      <4> QED  BY <3>1, <3>2, <4>1
    <3>3. CASE k # x
      <4>1. k \in 1..x - 1  BY <3>3, <1>3
      <4>2. f[k] = g[<<k, f[k - 1]>>] /\ h[k] = f[k]  BY <4>1, <1>3, <1>4 DEF Follows
      <4> QED  BY <4>2, <3>1
    <3> QED  BY <3>2, <3>3
  <2> HIDE DEF h
  <2> QED  BY <2>1, <2>2 DEF Follows
<1> QED  BY <1>1, <1>5, <1>6

LEMMA OneRecursion ==
  ASSUME NEW n \in Nat, NEW b, NEW g, NEW e, NEW f, NEW m \in 0..n,
         Follows(e, m, b, g), Follows(f, n, b, g)
  PROVE  e[m] = f[m]
<1> DEFINE T == {k \in 0..m : e[k] # f[k]}
<1> SUFFICES ASSUME T # {} PROVE FALSE  OBVIOUS
<1>1. PICK x \in T : \A y \in T : x <= y
  <2>1. T \in SUBSET Nat  OBVIOUS
  <2> HIDE DEF T
  <2> QED  BY <2>1, Least
<1>2. x # 0  BY <1>1 DEF Follows
<1>3. x \in 1..m /\ x \in 1..n /\ x - 1 \in 0..m /\ x - 1 \notin T  BY <1>1, <1>2
<1>4. e[x - 1] = f[x - 1]  BY <1>3
<1>5. e[x] = g[<<x, e[x - 1]>>] /\ f[x] = g[<<x, f[x - 1]>>]  BY <1>3 DEF Follows
<1> QED  BY <1>1, <1>4, <1>5

\* A path and the one before its last name.
LEMMA PathEnds ==
  ASSUME NEW p \in Paths
  PROVE  /\ Front(p) \in Seq(Nat) /\ Last(p) \in Nat /\ p = Append(Front(p), Last(p))
         /\ Len(Front(p)) = Len(p) - 1
<1>1. p \in Seq(Nat) /\ p # <<>> /\ Len(p) \in Nat \ {0}  BY DEF Paths, NoPath
<1>2. Front(p) \in Seq(Nat) /\ Len(Front(p)) = Len(p) - 1
      /\ \A i \in 1..Len(p) - 1 : Front(p)[i] = p[i]
  <2> DEFINE m == Len(p) - 1
  <2>1. m \in Nat /\ m \in Int /\ \A i \in 1..m : p[i] \in Nat  BY <1>1
  <2>2. Front(p) = SubSeq(p, 1, m)  BY DEF Front
  <2> HIDE DEF m
  <2>3. /\ SubSeq(p, 1, m) \in Seq(Nat) /\ Len(SubSeq(p, 1, m)) = m
        /\ \A i \in 1..m : SubSeq(p, 1, m)[i] = p[i]
    BY <2>1, SubSeqProperties
  <2> QED  BY <2>2, <2>3 DEF m
<1>3. Last(p) \in Nat /\ Last(p) = p[Len(p)]  BY <1>1 DEF Last
<1>4. /\ Append(Front(p), Last(p)) \in Seq(Nat)
      /\ Len(Append(Front(p), Last(p))) = Len(p)
      /\ \A i \in 1..Len(p) : Append(Front(p), Last(p))[i] = p[i]
  BY <1>1, <1>2, <1>3
<1>5. p = Append(Front(p), Last(p))  BY <1>1, <1>4, SeqEqual
<1> QED  BY <1>2, <1>3, <1>5

LEMMA PathAppend ==
  ASSUME NEW p \in Seq(Nat), NEW n \in Nat
  PROVE  /\ Append(p, n) \in Paths
         /\ Front(Append(p, n)) = p /\ Last(Append(p, n)) = n
<1>1. Append(p, n) \in Seq(Nat) /\ Len(Append(p, n)) = Len(p) + 1 /\ Len(p) \in Nat
      /\ Append(p, n)[Len(p) + 1] = n /\ \A i \in 1..Len(p) : Append(p, n)[i] = p[i]
  BY AppendProperties
<1>2. Append(p, n) # <<>>  BY <1>1
<1>3. Front(Append(p, n)) = p
  BY <1>1, SMTT(30) DEF Front
<1> QED  BY <1>1, <1>2, <1>3 DEF Paths, NoPath, Last

\* The first k names of a path.
UpTo(p, k) == SubSeq(p, 1, k)

LEMMA NameByName ==
  ASSUME NEW p \in Seq(Nat), NEW k \in 1..Len(p)
  PROVE  /\ UpTo(p, k - 1) \in Seq(Nat) /\ p[k] \in Nat
         /\ UpTo(p, k) = Append(UpTo(p, k - 1), p[k])
  BY DEF UpTo

LEMMA FromRootToEnd ==
  ASSUME NEW p \in Seq(Nat)
  PROVE  UpTo(p, 0) = <<>> /\ UpTo(p, Len(p)) = p /\ Len(p) \in Nat
  BY DEF UpTo

----------------------------------------------------------------------------
(* stat, lstat and realpath in a tree that does not change.                *)

\* The entries of directories are inodes.
IsTree(t) ==
  \A i \in Inodes : Kind[i] = "dir" =>
    /\ IsFiniteSet(DOMAIN t[i])
    /\ \A n \in DOMAIN t[i] : n \in Nat /\ t[i][n] \in Inodes

Places == Inodes \cup {Missing}

LEMMA KindTells ==
  /\ \A i : KindOf(i) # "none" => i \in Inodes /\ KindOf(i) = Kind[i]
  /\ KindOf(Missing) = "none" /\ KindOf(Root) = "dir"
  /\ Root \in Places
  BY TreeAssumption DEF KindOf, Inodes, Places

LEMMA HopLands ==
  ASSUME NEW t, IsTree(t), NEW i, NEW n
  PROVE  /\ Hop(t, i, n) \in Places
         /\ KindOf(Hop(t, i, n)) # "none" => KindOf(i) = "dir" /\ n \in DOMAIN t[i]
<1>1. CASE KindOf(i) = "dir" /\ n \in DOMAIN t[i]
  <2>1. i \in Inodes /\ Kind[i] = "dir"  BY <1>1, KindTells
  <2> QED  BY <1>1, <2>1 DEF IsTree, Hop, Places
<1>2. CASE ~(KindOf(i) = "dir" /\ n \in DOMAIN t[i])
  BY <1>2, KindTells DEF Hop, Places
<1> QED  BY <1>1, <1>2

\* What Node follows: the function whose recursion it is.
Hops(t, p) == [x \in (1..Len(p)) \X Places |-> Hop(t, x[2], p[x[1]])]

LEMMA NodeFollows ==
  ASSUME NEW t, IsTree(t), NEW p \in Seq(Nat)
  PROVE  \E at \in [0..Len(p) -> Places] : Follows(at, Len(p), Root, Hops(t, p)) /\ Node(t, p) = at[Len(p)]
<1> DEFINE n == Len(p)
           g == Hops(t, p)
           Is(at) == at = [k \in 0..n |-> IF k = 0 THEN Root ELSE Hop(t, at[k - 1], p[k])]
<1>1. n \in Nat  OBVIOUS
<1>2. \A k \in 1..n, v \in Places : g[<<k, v>>] = Hop(t, v, p[k]) /\ g[<<k, v>>] \in Places
  BY HopLands DEF Hops
<1>3. PICK at \in [0..n -> Places] : Follows(at, n, Root, g)
  <2> HIDE DEF n, g
  <2> QED  BY <1>1, <1>2, KindTells, Recursion
<1>4. Is(at)
  <2>1. \A k \in 1..n : k - 1 \in 0..n /\ at[k] = Hop(t, at[k - 1], p[k])
    <3> HIDE DEF n, g
    <3>1. \A k \in 1..n : k - 1 \in 0..n /\ at[k] = g[<<k, at[k - 1]>>]  BY <1>1, <1>3 DEF Follows
    <3>2. \A k \in 1..n : at[k - 1] \in Places  BY <3>1
    <3> QED  BY <1>2, <3>1, <3>2
  <2>2. at[0] = Root  BY <1>3 DEF Follows
  <2> HIDE DEF n, g
  <2> QED  BY <1>1, <1>3, <2>1, <2>2
<1>5. Is(CHOOSE f : Is(f))  BY <1>4
<1> DEFINE c == CHOOSE f : Is(f)
<1>6. Node(t, p) = c[n]  BY DEF Node
<1> HIDE DEF c
<1>7. Is(c)  BY <1>5 DEF c
<1>8. c[n] = at[n]
  <2>1. Follows(c, n, Root, g)
    <3>1. c[0] = Root /\ \A k \in 1..n : c[k] = Hop(t, c[k - 1], p[k])  BY <1>1, <1>7
    <3>2. \A k \in 0..n : c[k] \in Places
      <4> DEFINE T == {k \in 0..n : c[k] \notin Places}
      <4> SUFFICES ASSUME T # {} PROVE FALSE  OBVIOUS
      <4>1. PICK x \in T : \A y \in T : x <= y
        <5>1. T \in SUBSET Nat  BY <1>1
        <5> HIDE DEF T
        <5> QED  BY <5>1, Least
      <4>2. x # 0  BY <3>1, <4>1, KindTells
      <4>3. x \in 1..n  BY <1>1, <4>1, <4>2
      <4> QED  BY <3>1, <4>1, <4>3, HopLands
    <3>3. \A k \in 1..n : c[k] = g[<<k, c[k - 1]>>]
      <4>1. \A k \in 1..n : k - 1 \in 0..n  BY <1>1
      <4> QED  BY <1>2, <3>1, <3>2, <4>1
    <3> QED  BY <3>1, <3>3 DEF Follows
  <2> HIDE DEF n, g, Is
  <2> QED  BY <1>1, <1>3, <2>1, OneRecursion
<1> QED  BY <1>3, <1>6, <1>8

LEMMA NodeEmpty ==
  ASSUME NEW t, IsTree(t)
  PROVE  Node(t, <<>>) = Root
<1> DEFINE p == <<>>
<1>1. p \in Seq(Nat) /\ Len(p) = 0  OBVIOUS
<1> HIDE DEF p
<1>2. PICK at \in [0..Len(p) -> Places] : Follows(at, Len(p), Root, Hops(t, p)) /\ Node(t, p) = at[Len(p)]
  BY <1>1, NodeFollows
<1>3. Node(t, p) = Root  BY <1>1, <1>2 DEF Follows
<1> QED  BY <1>3 DEF p

\* Node goes from name to name.
LEMMA NodeAppend ==
  ASSUME NEW t, IsTree(t), NEW p \in Seq(Nat), NEW e \in Nat
  PROVE  Node(t, Append(p, e)) = Hop(t, Node(t, p), e)
<1> DEFINE n == Len(p)
           q == Append(p, e)
<1>1. n \in Nat /\ q \in Seq(Nat) /\ Len(q) = n + 1 /\ q[n + 1] = e /\ \A k \in 1..n : q[k] = p[k]
  BY AppendProperties
<1> HIDE DEF n, q
<1>2. PICK at \in [0..Len(p) -> Places] : Follows(at, Len(p), Root, Hops(t, p)) /\ Node(t, p) = at[Len(p)]
  BY NodeFollows
<1>3. PICK to \in [0..n + 1 -> Places] : Follows(to, n + 1, Root, Hops(t, q)) /\ Node(t, q) = to[n + 1]
  BY <1>1, NodeFollows
<1>4. \A k \in 0..n : to[k] \in Places  BY <1>1, <1>3
<1>5. Follows(to, n, Root, Hops(t, p))
  <2>1. to[0] = Root  BY <1>3 DEF Follows
  <2>2. ASSUME NEW k \in 1..n PROVE to[k] = Hops(t, p)[<<k, to[k - 1]>>]
    <3>1. k \in 1..n + 1 /\ k - 1 \in 0..n  BY <1>1
    <3>2. to[k] = Hops(t, q)[<<k, to[k - 1]>>]  BY <1>3, <3>1 DEF Follows
    <3>3. Hops(t, q)[<<k, to[k - 1]>>] = Hop(t, to[k - 1], q[k])  BY <1>1, <1>4, <3>1 DEF Hops
    <3>4. Hops(t, p)[<<k, to[k - 1]>>] = Hop(t, to[k - 1], p[k])  BY <1>4, <3>1 DEF Hops, n
    <3> QED  BY <1>1, <3>2, <3>3, <3>4
  <2> QED  BY <2>1, <2>2 DEF Follows
<1>6. to[n] = at[n]  BY <1>1, <1>2, <1>5, OneRecursion DEF n
<1>7. to[n + 1] = Hop(t, to[n], e)
  <2>1. n + 1 \in 1..n + 1 /\ n + 1 - 1 = n /\ n \in 0..n  BY <1>1
  <2>2. to[n + 1] = Hops(t, q)[<<n + 1, to[n]>>]  BY <1>3, <2>1 DEF Follows
  <2>3. Hops(t, q)[<<n + 1, to[n]>>] = Hop(t, to[n], q[n + 1])  BY <1>1, <1>4, <2>1 DEF Hops
  <2> QED  BY <1>1, <2>2, <2>3
<1> QED  BY <1>2, <1>3, <1>6, <1>7 DEF n, q

LEMMA NodePlace ==
  ASSUME NEW t, IsTree(t), NEW p \in Seq(Nat)
  PROVE  Node(t, p) \in Places
<1>1. PICK at \in [0..Len(p) -> Places] : Follows(at, Len(p), Root, Hops(t, p)) /\ Node(t, p) = at[Len(p)]
  BY NodeFollows
<1> QED  BY <1>1

\* The same for realpath.
Enters(t, p) == [x \in (1..Len(p)) \X Seq(Nat) |-> Enter(t, x[2], p[x[1]])]

LEMMA EnterType ==
  ASSUME NEW t, IsTree(t), NEW p \in Seq(Nat), NEW e \in Nat
  PROVE  Enter(t, p, e) \in Seq(Nat)
<1> DEFINE i == Node(t, Append(p, e))
<1>1. CASE KindOf(i) = "link"
  <2>1. i \in Inodes /\ Kind[i] = "link"  BY <1>1, KindTells
  <2> QED  BY <1>1, <2>1, LinksAssumption DEF Enter
<1>2. CASE KindOf(i) # "link"  BY <1>2 DEF Enter
<1> QED  BY <1>1, <1>2

LEMMA CanonFollows ==
  ASSUME NEW t, IsTree(t), NEW p \in Seq(Nat)
  PROVE  \E f \in [0..Len(p) -> Seq(Nat)] : Follows(f, Len(p), NoPath, Enters(t, p)) /\ CanonIn(t, p) = f[Len(p)]
<1> DEFINE n == Len(p)
           g == Enters(t, p)
           Is(f) == f = [k \in 0..n |-> IF k = 0 THEN NoPath ELSE Enter(t, f[k - 1], p[k])]
<1>1. n \in Nat /\ NoPath \in Seq(Nat)  BY DEF NoPath
<1>2. \A k \in 1..n, v \in Seq(Nat) : g[<<k, v>>] = Enter(t, v, p[k]) /\ g[<<k, v>>] \in Seq(Nat)
  <2> TAKE k \in 1..n, v \in Seq(Nat)
  <2>1. p[k] \in Nat  OBVIOUS
  <2>2. Enter(t, v, p[k]) \in Seq(Nat)  BY <2>1, EnterType
  <2>3. g[<<k, v>>] = Enter(t, v, p[k])  BY DEF Enters
  <2> QED  BY <2>2, <2>3
<1>3. PICK f \in [0..n -> Seq(Nat)] : Follows(f, n, NoPath, g)
  <2> HIDE DEF n, g
  <2> QED  BY <1>1, <1>2, Recursion
<1>4. Is(f)
  <2>1. \A k \in 1..n : k - 1 \in 0..n /\ f[k] = Enter(t, f[k - 1], p[k])
    <3> HIDE DEF n, g
    <3>1. \A k \in 1..n : k - 1 \in 0..n /\ f[k] = g[<<k, f[k - 1]>>]  BY <1>1, <1>3 DEF Follows
    <3>2. \A k \in 1..n : f[k - 1] \in Seq(Nat)  BY <3>1
    <3> QED  BY <1>2, <3>1, <3>2
  <2>2. f[0] = NoPath  BY <1>3 DEF Follows
  <2> HIDE DEF n, g
  <2> QED  BY <1>1, <1>3, <2>1, <2>2
<1>5. Is(CHOOSE c : Is(c))  BY <1>4
<1> DEFINE c == CHOOSE d : Is(d)
<1>6. CanonIn(t, p) = c[n]  BY DEF CanonIn
<1> HIDE DEF c
<1>7. Is(c)  BY <1>5 DEF c
<1>8. c[n] = f[n]
  <2>1. Follows(c, n, NoPath, g)
    <3>1. c[0] = NoPath /\ \A k \in 1..n : c[k] = Enter(t, c[k - 1], p[k])
      <4>1. 0 \in 0..n /\ \A k \in 1..n : k \in 0..n /\ k # 0  BY <1>1
      <4> HIDE DEF n
      <4> QED  BY <4>1, <1>7
    <3>2. \A k \in 0..n : c[k] \in Seq(Nat)
      <4> DEFINE T == {k \in 0..n : c[k] \notin Seq(Nat)}
      <4> SUFFICES ASSUME T # {} PROVE FALSE  OBVIOUS
      <4>1. PICK x \in T : \A y \in T : x <= y
        <5>1. T \in SUBSET Nat  BY <1>1
        <5> HIDE DEF T
        <5> QED  BY <5>1, Least
      <4>2. x # 0  BY <1>1, <3>1, <4>1
      <4>3. x \in 1..n /\ x - 1 \in 0..n /\ x - 1 \notin T /\ p[x] \in Nat  BY <1>1, <4>1, <4>2
      <4>4. c[x - 1] \in Seq(Nat)  BY <4>3
      <4>5. Enter(t, c[x - 1], p[x]) \in Seq(Nat)  BY <4>3, <4>4, EnterType
      <4>6. c[x] = Enter(t, c[x - 1], p[x])  BY <3>1, <4>3
      <4> QED  BY <4>1, <4>5, <4>6
    <3>3. \A k \in 1..n : c[k] = g[<<k, c[k - 1]>>]
      <4>1. \A k \in 1..n : k - 1 \in 0..n  BY <1>1
      <4> QED  BY <1>2, <3>1, <3>2, <4>1
    <3> QED  BY <3>1, <3>3 DEF Follows
  <2> HIDE DEF n, g, Is
  <2> QED  BY <1>1, <1>3, <2>1, OneRecursion
<1> QED  BY <1>3, <1>6, <1>8

LEMMA CanonType ==
  ASSUME NEW t, IsTree(t), NEW p \in Seq(Nat)
  PROVE  CanonIn(t, p) \in Seq(Nat)
<1>1. PICK f \in [0..Len(p) -> Seq(Nat)] : Follows(f, Len(p), NoPath, Enters(t, p)) /\ CanonIn(t, p) = f[Len(p)]
  BY CanonFollows
<1> QED  BY <1>1

LEMMA CanonEmpty ==
  ASSUME NEW t, IsTree(t)
  PROVE  CanonIn(t, <<>>) = <<>>
<1> DEFINE p == <<>>
<1>1. p \in Seq(Nat) /\ Len(p) = 0  OBVIOUS
<1> HIDE DEF p
<1>2. PICK f \in [0..Len(p) -> Seq(Nat)] : Follows(f, Len(p), NoPath, Enters(t, p)) /\ CanonIn(t, p) = f[Len(p)]
  BY <1>1, CanonFollows
<1>3. CanonIn(t, p) = NoPath  BY <1>1, <1>2 DEF Follows
<1> QED  BY <1>3 DEF p, NoPath

LEMMA CanonAppend ==
  ASSUME NEW t, IsTree(t), NEW p \in Seq(Nat), NEW e \in Nat
  PROVE  CanonIn(t, Append(p, e)) = Enter(t, CanonIn(t, p), e)
<1> DEFINE n == Len(p)
           q == Append(p, e)
<1>1. n \in Nat /\ q \in Seq(Nat) /\ Len(q) = n + 1 /\ q[n + 1] = e /\ \A k \in 1..n : q[k] = p[k]
  BY AppendProperties
<1> HIDE DEF n, q
<1>2. PICK f \in [0..Len(p) -> Seq(Nat)] : Follows(f, Len(p), NoPath, Enters(t, p)) /\ CanonIn(t, p) = f[Len(p)]
  BY CanonFollows
<1>3. PICK h \in [0..n + 1 -> Seq(Nat)] : Follows(h, n + 1, NoPath, Enters(t, q)) /\ CanonIn(t, q) = h[n + 1]
  BY <1>1, CanonFollows
<1>4. \A k \in 0..n : h[k] \in Seq(Nat)  BY <1>1, <1>3
<1>5. Follows(h, n, NoPath, Enters(t, p))
  <2>1. h[0] = NoPath  BY <1>3 DEF Follows
  <2>2. ASSUME NEW k \in 1..n PROVE h[k] = Enters(t, p)[<<k, h[k - 1]>>]
    <3>1. k \in 1..n + 1 /\ k - 1 \in 0..n  BY <1>1
    <3>2. h[k] = Enters(t, q)[<<k, h[k - 1]>>]  BY <1>3, <3>1 DEF Follows
    <3>3. Enters(t, q)[<<k, h[k - 1]>>] = Enter(t, h[k - 1], q[k])  BY <1>1, <1>4, <3>1 DEF Enters
    <3>4. Enters(t, p)[<<k, h[k - 1]>>] = Enter(t, h[k - 1], p[k])  BY <1>4, <3>1 DEF Enters, n
    <3> QED  BY <1>1, <3>2, <3>3, <3>4
  <2> QED  BY <2>1, <2>2 DEF Follows
<1>6. h[n] = f[n]  BY <1>1, <1>2, <1>5, OneRecursion DEF n
<1>7. h[n + 1] = Enter(t, h[n], e)
  <2>1. n + 1 \in 1..n + 1 /\ n + 1 - 1 = n /\ n \in 0..n  BY <1>1
  <2>2. h[n + 1] = Enters(t, q)[<<n + 1, h[n]>>]  BY <1>3, <2>1 DEF Follows
  <2>3. Enters(t, q)[<<n + 1, h[n]>>] = Enter(t, h[n], q[n + 1])  BY <1>1, <1>4, <2>1 DEF Enters
  <2> QED  BY <1>1, <2>2, <2>3
<1> QED  BY <1>2, <1>3, <1>6, <1>7 DEF n, q

----------------------------------------------------------------------------
(* lstat, stat and realpath of a path and of what its directory has.       *)

LEMMA StatType ==
  ASSUME NEW t, IsTree(t), NEW p \in Seq(Nat)
  PROVE  StatIn(t, p) \in Places
  BY CanonType, NodePlace DEF StatIn

LEMMA Looks ==
  ASSUME NEW t, IsTree(t), NEW p \in Seq(Nat), NEW e \in Nat
  PROVE  LET i == LStatIn(t, Append(p, e))
         IN  /\ i = Hop(t, StatIn(t, p), e)
             /\ KindOf(i) = "link" => CanonIn(t, Append(p, e)) = Dest[i]
             /\ KindOf(i) # "link" => /\ CanonIn(t, Append(p, e)) = Append(CanonIn(t, p), e)
                                      /\ StatIn(t, Append(p, e)) = i
<1> DEFINE c == CanonIn(t, p)
           i == LStatIn(t, Append(p, e))
<1>1. i = Hop(t, StatIn(t, p), e)  BY PathAppend DEF LStatIn
<1>2. c \in Seq(Nat)  BY CanonType
<1>3. CanonIn(t, Append(p, e)) = Enter(t, c, e)  BY CanonAppend
<1>4. Node(t, Append(c, e)) = i  BY <1>1, <1>2, NodeAppend DEF StatIn
<1> HIDE DEF i
<1>5. KindOf(i) = "link" => CanonIn(t, Append(p, e)) = Dest[i]  BY <1>3, <1>4 DEF Enter
<1>6. KindOf(i) # "link" => CanonIn(t, Append(p, e)) = Append(c, e)  BY <1>3, <1>4 DEF Enter
<1>7. KindOf(i) # "link" => StatIn(t, Append(p, e)) = i  BY <1>4, <1>6 DEF StatIn
<1> QED  BY <1>1, <1>5, <1>6, <1>7 DEF i

\* The same by the ends of a path.
LEMMA Ends ==
  ASSUME NEW t, IsTree(t), NEW p \in Paths
  PROVE  /\ LStatIn(t, p) \in Places
         /\ LStatIn(t, p) = Hop(t, StatIn(t, Front(p)), Last(p))
         /\ KindOf(LStatIn(t, p)) # "link" => /\ CanonIn(t, p) = Append(CanonIn(t, Front(p)), Last(p))
                                              /\ StatIn(t, p) = LStatIn(t, p)
<1>1. Front(p) \in Seq(Nat) /\ Last(p) \in Nat /\ p = Append(Front(p), Last(p))  BY PathEnds
<1> DEFINE q == Front(p)
           e == Last(p)
<1> HIDE DEF q, e
<1>2. q \in Seq(Nat) /\ e \in Nat /\ p = Append(q, e)  BY <1>1 DEF q, e
<1>3. LStatIn(t, p) = Hop(t, StatIn(t, q), e)  BY DEF LStatIn, q, e
<1>4. LStatIn(t, p) \in Places  BY <1>3, HopLands
<1>5. KindOf(LStatIn(t, p)) # "link" => CanonIn(t, p) = Append(CanonIn(t, q), e) /\ StatIn(t, p) = LStatIn(t, p)
  BY <1>2, Looks
<1> QED  BY <1>3, <1>4, <1>5 DEF q, e

\* A path none of whose names is a link in t.
LinkFree(t, c) == \A k \in 1..Len(c) : KindOf(Node(t, UpTo(c, k))) # "link"

LEMMA LinkFreeIsReal ==
  ASSUME NEW t, IsTree(t), NEW c \in Seq(Nat), LinkFree(t, c)
  PROVE  CanonIn(t, c) = c
<1> DEFINE n == Len(c)
           S == {k \in 0..n : CanonIn(t, UpTo(c, k)) = UpTo(c, k)}
<1>1. UpTo(c, 0) = <<>> /\ UpTo(c, n) = c /\ n \in Nat  BY FromRootToEnd
<1>2. 0 \in S  BY <1>1, CanonEmpty
<1>3. ASSUME NEW k \in 1..n, k - 1 \in S PROVE k \in S
  <2> DEFINE q == UpTo(c, k - 1)
  <2>1. q \in Seq(Nat) /\ c[k] \in Nat /\ UpTo(c, k) = Append(q, c[k])  BY NameByName
  <2>2. CanonIn(t, q) = q  BY <1>3
  <2> HIDE DEF q
  <2>3. CanonIn(t, Append(q, c[k])) = Enter(t, q, c[k])  BY <2>1, <2>2, CanonAppend
  <2>4. KindOf(Node(t, Append(q, c[k]))) # "link"  BY <2>1 DEF LinkFree
  <2>5. Enter(t, q, c[k]) = Append(q, c[k])  BY <2>4 DEF Enter
  <2>6. CanonIn(t, UpTo(c, k)) = UpTo(c, k)  BY <2>1, <2>3, <2>5
  <2> QED  BY <1>1, <2>6
<1>4. n \in S
  <2> HIDE DEF S, n
  <2>1. \A k \in 0..n : k \in S  BY <1>1, <1>2, <1>3, Along
  <2> QED  BY <1>1, <2>1
<1> HIDE DEF n
<1>5. CanonIn(t, UpTo(c, n)) = UpTo(c, n)  BY <1>4
<1> QED  BY <1>1, <1>5

LEMMA RootIsLinkFree ==
  ASSUME NEW t PROVE LinkFree(t, <<>>)
  BY DEF LinkFree

LEMMA LinkFreeAppend ==
  ASSUME NEW t, NEW c \in Seq(Nat), NEW e \in Nat, LinkFree(t, c), KindOf(Node(t, Append(c, e))) # "link"
  PROVE  LinkFree(t, Append(c, e))
<1> SUFFICES ASSUME NEW k \in 1..Len(Append(c, e))
             PROVE  KindOf(Node(t, UpTo(Append(c, e), k))) # "link"
  BY DEF LinkFree
<1>1. Len(Append(c, e)) = Len(c) + 1 /\ Len(c) \in Nat  OBVIOUS
<1>2. CASE k = Len(c) + 1
  <2>1. UpTo(Append(c, e), k) = Append(c, e)  BY <1>2 DEF UpTo
  <2> QED  BY <2>1
<1>3. CASE k # Len(c) + 1
  <2>1. k \in 1..Len(c)  BY <1>1, <1>3
  <2>2. UpTo(Append(c, e), k) = UpTo(c, k)  BY <2>1 DEF UpTo
  <2> QED  BY <2>1, <2>2 DEF LinkFree
<1> QED  BY <1>2, <1>3

LEMMA StartIsTree == IsTree(Tree)
  BY TreeAssumption DEF IsTree

\* realpath leaves no link.
LEMMA RealIsLinkFree ==
  ASSUME NEW p \in Seq(Nat)
  PROVE  LinkFree(Tree, CanonIn(Tree, p))
<1> DEFINE n == Len(p)
           S == {k \in 0..n : LinkFree(Tree, CanonIn(Tree, UpTo(p, k)))}
<1>1. UpTo(p, 0) = <<>> /\ UpTo(p, n) = p /\ n \in Nat  BY FromRootToEnd
<1>2. 0 \in S  BY <1>1, CanonEmpty, RootIsLinkFree, StartIsTree
<1>3. ASSUME NEW k \in 1..n, k - 1 \in S PROVE k \in S
  <2> DEFINE q == UpTo(p, k - 1)
             e == p[k]
             c == CanonIn(Tree, q)
             i == Node(Tree, Append(c, e))
  <2>1. q \in Seq(Nat) /\ e \in Nat /\ UpTo(p, k) = Append(q, e)  BY NameByName
  <2>2. LinkFree(Tree, c)  BY <1>3
  <2> HIDE DEF q, e
  <2>3. c \in Seq(Nat) /\ CanonIn(Tree, Append(q, e)) = Enter(Tree, c, e)
    BY <2>1, CanonAppend, CanonType, StartIsTree
  <2> HIDE DEF c
  <2>4. ASSUME KindOf(i) = "link" PROVE LinkFree(Tree, CanonIn(Tree, UpTo(p, k)))
    <3>1. i \in Inodes /\ Kind[i] = "link"  BY <2>4, KindTells
    <3>2. LinkFree(Tree, Dest[i])  BY <3>1, LinksAssumption DEF LinkFree, UpTo
    <3>3. Enter(Tree, c, e) = Dest[i]  BY <2>4 DEF Enter
    <3> QED  BY <2>1, <2>3, <3>2, <3>3
  <2>5. ASSUME KindOf(i) # "link" PROVE LinkFree(Tree, CanonIn(Tree, UpTo(p, k)))
    <3>1. Enter(Tree, c, e) = Append(c, e)  BY <2>5 DEF Enter
    <3>2. LinkFree(Tree, Append(c, e))  BY <2>1, <2>2, <2>3, <2>5, LinkFreeAppend
    <3> QED  BY <2>1, <2>3, <3>1, <3>2
  <2>6. LinkFree(Tree, CanonIn(Tree, UpTo(p, k)))  BY <2>4, <2>5
  <2> QED  BY <1>1, <2>6
<1>4. n \in S
  <2> HIDE DEF S, n
  <2>1. \A k \in 0..n : k \in S  BY <1>1, <1>2, <1>3, Along
  <2> QED  BY <1>1, <2>1
<1> HIDE DEF n
<1>5. LinkFree(Tree, CanonIn(Tree, UpTo(p, n)))  BY <1>4
<1> QED  BY <1>1, <1>5

\* What a path leads to is what its realpath leads to.
LEMMA RealLeadsThere ==
  ASSUME NEW p \in Seq(Nat)
  PROVE  StatIn(Tree, CanonIn(Tree, p)) = StatIn(Tree, p)
<1>1. CanonIn(Tree, p) \in Seq(Nat)  BY CanonType, StartIsTree
<1>2. CanonIn(Tree, CanonIn(Tree, p)) = CanonIn(Tree, p)
  BY <1>1, LinkFreeIsReal, RealIsLinkFree, StartIsTree
<1> QED  BY <1>2 DEF StatIn

\* A path that ends in no link and its realpath.
LEMMA RealOfNoLink ==
  ASSUME NEW p \in Paths, KindOf(LStatIn(Tree, p)) # "link"
  PROVE  LET c == CanonIn(Tree, p)
         IN  /\ c \in Paths
             /\ LStatIn(Tree, c) = LStatIn(Tree, p)
             /\ StatIn(Tree, Front(c)) = StatIn(Tree, Front(p))
<1> DEFINE q == Front(p)
           e == Last(p)
           d == CanonIn(Tree, q)
<1>1. q \in Seq(Nat) /\ e \in Nat  BY PathEnds
<1>2. d \in Seq(Nat)  BY <1>1, CanonType, StartIsTree
<1>3. CanonIn(Tree, p) = Append(d, e)  BY Ends, StartIsTree
<1>4. Append(d, e) \in Paths /\ Front(Append(d, e)) = d /\ Last(Append(d, e)) = e  BY <1>1, <1>2, PathAppend
<1>5. StatIn(Tree, d) = StatIn(Tree, q)  BY <1>1, RealLeadsThere
<1>6. LStatIn(Tree, Append(d, e)) = LStatIn(Tree, p)  BY <1>4, <1>5 DEF LStatIn
<1> QED  BY <1>3, <1>4, <1>5, <1>6

\* The order of read_dir's names: every rank below their number is some name's.
LEMMA SortedNames ==
  ASSUME NEW S \in SUBSET Nat, IsFiniteSet(S)
  PROVE  /\ Cardinality(S) \in Nat /\ Len(Sorted(S)) = Cardinality(S)
         /\ Sorted(S) \in Seq(S) /\ \A k \in 1..Len(Sorted(S)) : Sorted(S)[k] \in S
         /\ \A j, k \in 1..Len(Sorted(S)) : j < k => Sorted(S)[j] < Sorted(S)[k]
         /\ \A n \in S : \E k \in 1..Len(Sorted(S)) : Sorted(S)[k] = n
<1> DEFINE Before(n) == {m \in S : m < n}
           rank == [n \in S |-> Cardinality(Before(n))]
           c == Cardinality(S)
<1>1. c \in Nat  BY FS_CardinalityType
<1>2. ASSUME NEW n \in S PROVE IsFiniteSet(Before(n)) /\ Cardinality(Before(n)) \in 0..c - 1
  <2> DEFINE B == Before(n)
  <2>1. B \in SUBSET S /\ n \notin B  OBVIOUS
  <2> HIDE DEF B
  <2>2. IsFiniteSet(B) /\ Cardinality(B) <= c /\ (c = Cardinality(B) => S = B)  BY <2>1, FS_Subset
  <2>3. Cardinality(B) \in Nat  BY <2>2, FS_CardinalityType
  <2>4. Cardinality(B) # c  BY <2>1, <2>2
  <2>5. IsFiniteSet(B) /\ Cardinality(B) \in 0..c - 1
    <3> HIDE DEF c
    <3> QED  BY <1>1, <2>2, <2>3, <2>4
  <2> QED  BY <2>5 DEF B
<1>3. ASSUME NEW m \in S, NEW n \in S, m < n PROVE rank[m] # rank[n] /\ rank[m] <= rank[n]
  <2> DEFINE A == Before(m)
             B == Before(n)
  <2>1. A \in SUBSET B /\ m \in B /\ m \notin A
    <3>1. m \in Nat /\ n \in Nat /\ \A x \in S : x \in Nat  OBVIOUS
    <3>2. \A x \in A : x \in B  BY <1>3, <3>1
    <3>3. m \in B /\ m \notin A  BY <1>3, <3>1
    <3> HIDE DEF A, B
    <3> QED  BY <3>2, <3>3
  <2>2. IsFiniteSet(B)  BY <1>2
  <2>3. rank[m] = Cardinality(A) /\ rank[n] = Cardinality(B)  OBVIOUS
  <2> HIDE DEF A, B, rank
  <2>4. Cardinality(A) <= Cardinality(B) /\ (Cardinality(A) = Cardinality(B) => A = B)
    BY <2>1, <2>2, FS_Subset
  <2> QED  BY <2>1, <2>3, <2>4
<1>4. rank \in [S -> 0..c - 1]  BY <1>2
<1>5. rank \in Injection(S, 0..c - 1)
  <2>1. ASSUME NEW m \in S, NEW n \in S, m # n PROVE rank[m] # rank[n]
    <3>1. m < n \/ n < m  BY <2>1
    <3> HIDE DEF rank
    <3> QED  BY <3>1, <1>3
  <2> HIDE DEF rank
  <2> QED  BY <1>4, <2>1 DEF Injection, IsInjective
<1>6. IsFiniteSet(0..c - 1) /\ Cardinality(0..c - 1) = c
  <2> HIDE DEF c
  <2>1. 0 \in Int /\ c - 1 \in Int  BY <1>1
  <2>2. Cardinality(0..c - 1) = IF 0 > c - 1 THEN 0 ELSE c - 1 - 0 + 1  BY <2>1, FS_Interval
  <2>3. IsFiniteSet(0..c - 1)  BY <2>1, FS_Interval
  <2> QED  BY <1>1, <2>2, <2>3
<1>7. rank \in Surjection(S, 0..c - 1)
  <2>1. Cardinality(S) = c  OBVIOUS
  <2> HIDE DEF rank, c
  <2> QED  BY <1>5, <1>6, <2>1, FS_Injection
<1> DEFINE At(k) == CHOOSE n \in S : Cardinality(Before(n)) = k - 1
<1>8. ASSUME NEW k \in 1..c PROVE At(k) \in S /\ rank[At(k)] = k - 1
  <2>1. k - 1 \in 0..c - 1  BY <1>1
  <2>2. PICK n \in S : rank[n] = k - 1
    <3> HIDE DEF rank
    <3> QED  BY <1>7, <2>1 DEF Surjection
  <2>3. Cardinality(Before(n)) = k - 1  BY <2>2
  <2> HIDE DEF Before
  <2>4. At(k) \in S /\ Cardinality(Before(At(k))) = k - 1  BY <2>3
  <2> QED  BY <2>4
<1>9. Sorted(S) = [k \in 1..c |-> At(k)]  BY DEF Sorted
<1> HIDE DEF At, c, rank
<1>10. Sorted(S) \in Seq(S) /\ Len(Sorted(S)) = c /\ \A k \in 1..c : Sorted(S)[k] \in S /\ Sorted(S)[k] = At(k)
  BY <1>1, <1>8, <1>9
<1>11. ASSUME NEW j \in 1..c, NEW k \in 1..c, j < k PROVE At(j) < At(k)
  <2>1. At(j) \in S /\ rank[At(j)] = j - 1 /\ At(k) \in S /\ rank[At(k)] = k - 1  BY <1>8
  <2> DEFINE m == At(j)
             n == At(k)
  <2> HIDE DEF m, n
  <2>2. m \in S /\ rank[m] = j - 1 /\ n \in S /\ rank[n] = k - 1  BY <2>1 DEF m, n
  <2>3. m \in Nat /\ n \in Nat  BY <2>2
  <2>4. ~(k - 1 <= j - 1) /\ k - 1 # j - 1  BY <1>1, <1>11
  <2>5. ~(n < m)  BY <1>3, <2>2, <2>4
  <2>6. n # m  BY <2>2, <2>4
  <2>7. m < n  BY <2>3, <2>5, <2>6
  <2> QED  BY <2>7 DEF m, n
<1>12. ASSUME NEW n \in S PROVE \E k \in 1..c : At(k) = n
  <2>1. rank[n] \in 0..c - 1  BY <1>4
  <2> DEFINE k == rank[n] + 1
  <2>2. k \in 1..c /\ k - 1 = rank[n]  BY <1>1, <2>1
  <2> HIDE DEF k
  <2>3. At(k) \in S /\ rank[At(k)] = rank[n]  BY <1>8, <2>2
  <2>4. At(k) = n  BY <1>5, <2>3 DEF Injection, IsInjective
  <2> QED  BY <2>2, <2>4
<1> QED  BY <1>1, <1>10, <1>11, <1>12 DEF c

----------------------------------------------------------------------------
(* What is a directory stays one while others exchange other things.       *)

\* u has every directory and every link that t has, under the names they have there.
Keeps(t, u) ==
  \A d \in Inodes, n \in Nat :
    KindOf(Hop(t, d, n)) \in {"dir", "link"} => Hop(u, d, n) = Hop(t, d, n)

LEMMA HopKept ==
  ASSUME NEW t, NEW u, IsTree(t), Keeps(t, u), NEW d, NEW n \in Nat, KindOf(Hop(t, d, n)) \in {"dir", "link"}
  PROVE  Hop(u, d, n) = Hop(t, d, n)
<1>1. KindOf(d) = "dir"  BY HopLands
<1>2. d \in Inodes  BY <1>1, KindTells
<1> QED  BY <1>2 DEF Keeps

LEMMA NodeKept ==
  ASSUME NEW t, NEW u, IsTree(t), IsTree(u), Keeps(t, u), NEW p \in Seq(Nat), KindOf(Node(t, p)) = "dir"
  PROVE  Node(u, p) = Node(t, p)
<1> DEFINE n == Len(p)
           Same(k) == KindOf(Node(t, UpTo(p, k))) = "dir" => Node(u, UpTo(p, k)) = Node(t, UpTo(p, k))
           S == {k \in 0..n : Same(k)}
<1>1. UpTo(p, 0) = <<>> /\ UpTo(p, n) = p /\ n \in Nat  BY FromRootToEnd
<1>2. 0 \in S  BY <1>1, NodeEmpty
<1>3. ASSUME NEW k \in 1..n, k - 1 \in S PROVE k \in S
  <2> DEFINE q == UpTo(p, k - 1)
             e == p[k]
  <2>1. q \in Seq(Nat) /\ e \in Nat /\ UpTo(p, k) = Append(q, e)  BY NameByName
  <2>2. KindOf(Node(t, q)) = "dir" => Node(u, q) = Node(t, q)  BY <1>3
  <2> HIDE DEF q, e
  <2>3. Node(t, Append(q, e)) = Hop(t, Node(t, q), e) /\ Node(u, Append(q, e)) = Hop(u, Node(u, q), e)
    BY <2>1, NodeAppend
  <2>4. ASSUME KindOf(Node(t, UpTo(p, k))) = "dir" PROVE Node(u, UpTo(p, k)) = Node(t, UpTo(p, k))
    <3>1. KindOf(Hop(t, Node(t, q), e)) = "dir"  BY <2>1, <2>3, <2>4
    <3>2. KindOf(Node(t, q)) = "dir"  BY <3>1, HopLands
    <3>3. Hop(u, Node(t, q), e) = Hop(t, Node(t, q), e)  BY <2>1, <3>1, HopKept
    <3> QED  BY <2>1, <2>2, <2>3, <3>2, <3>3
  <2> QED  BY <1>1, <2>4
<1>4. n \in S
  <2> HIDE DEF S, n
  <2>1. \A k \in 0..n : k \in S  BY <1>1, <1>2, <1>3, Along
  <2> QED  BY <1>1, <2>1
<1>5. Same(n)  BY <1>4
<1> HIDE DEF n
<1> QED  BY <1>1, <1>5

LEMMA StatKept ==
  ASSUME NEW t, NEW u, IsTree(t), IsTree(u), Keeps(t, u), NEW p \in Seq(Nat), KindOf(StatIn(t, p)) = "dir"
  PROVE  CanonIn(u, p) = CanonIn(t, p) /\ StatIn(u, p) = StatIn(t, p)
<1> DEFINE n == Len(p)
           Same(q) == KindOf(StatIn(t, q)) = "dir" => CanonIn(u, q) = CanonIn(t, q) /\ StatIn(u, q) = StatIn(t, q)
           S == {k \in 0..n : Same(UpTo(p, k))}
<1>1. UpTo(p, 0) = <<>> /\ UpTo(p, n) = p /\ n \in Nat  BY FromRootToEnd
<1>2. 0 \in S
  <2>1. CanonIn(u, <<>>) = CanonIn(t, <<>>) /\ StatIn(u, <<>>) = StatIn(t, <<>>)
    BY CanonEmpty, NodeEmpty DEF StatIn
  <2> QED  BY <1>1, <2>1
<1>3. ASSUME NEW k \in 1..n, k - 1 \in S PROVE k \in S
  <2> DEFINE q == UpTo(p, k - 1)
             e == p[k]
  <2>1. q \in Seq(Nat) /\ e \in Nat /\ UpTo(p, k) = Append(q, e)  BY NameByName
  <2>2. Same(q)  BY <1>3
  <2> HIDE DEF q, e
  <2>3. Same(Append(q, e))
    <3> SUFFICES ASSUME KindOf(StatIn(t, Append(q, e))) = "dir"
                 PROVE  CanonIn(u, Append(q, e)) = CanonIn(t, Append(q, e)) /\ StatIn(u, Append(q, e)) = StatIn(t, Append(q, e))
      OBVIOUS
    <3> DEFINE i == LStatIn(t, Append(q, e))
               j == LStatIn(u, Append(q, e))
    <3>1. /\ i = Hop(t, StatIn(t, q), e)
          /\ KindOf(i) = "link" => CanonIn(t, Append(q, e)) = Dest[i]
          /\ KindOf(i) # "link" => /\ CanonIn(t, Append(q, e)) = Append(CanonIn(t, q), e)
                                   /\ StatIn(t, Append(q, e)) = i
      BY <2>1, Looks
    <3>2. /\ j = Hop(u, StatIn(u, q), e)
          /\ KindOf(j) = "link" => CanonIn(u, Append(q, e)) = Dest[j]
          /\ KindOf(j) # "link" => /\ CanonIn(u, Append(q, e)) = Append(CanonIn(u, q), e)
                                   /\ StatIn(u, Append(q, e)) = j
      BY <2>1, Looks
    <3> HIDE DEF i, j
    <3>3. KindOf(i) \in {"dir", "link"}  BY <3>1
    <3>4. KindOf(StatIn(t, q)) = "dir"  BY <3>1, <3>3, HopLands
    <3>5. CanonIn(u, q) = CanonIn(t, q) /\ StatIn(u, q) = StatIn(t, q)  BY <2>2, <3>4
    <3>6. j = i  BY <2>1, <3>1, <3>2, <3>3, <3>5, HopKept
    <3>7. CanonIn(u, Append(q, e)) = CanonIn(t, Append(q, e))  BY <3>1, <3>2, <3>5, <3>6
    <3>8. Append(q, e) \in Seq(Nat)  BY <2>1
    <3>9. CanonIn(t, Append(q, e)) \in Seq(Nat)  BY <3>8, CanonType
    <3>10. StatIn(u, Append(q, e)) = StatIn(t, Append(q, e))  BY <3>7, <3>9, NodeKept DEF StatIn
    <3> QED  BY <3>7, <3>10
  <2>4. Same(UpTo(p, k))  BY <2>1, <2>3
  <2> HIDE DEF Same
  <2> QED  BY <1>1, <2>4
<1>4. n \in S
  <2> HIDE DEF S, n
  <2>1. \A k \in 0..n : k \in S  BY <1>1, <1>2, <1>3, Along
  <2> QED  BY <1>1, <2>1
<1>5. Same(UpTo(p, n))  BY <1>4
<1> HIDE DEF n
<1> QED  BY <1>1, <1>5

LEMMA DirKept ==
  ASSUME NEW t, NEW u, IsTree(t), IsTree(u), Keeps(t, u), NEW p \in Paths, KindOf(LStatIn(t, p)) = "dir"
  PROVE  LStatIn(u, p) = LStatIn(t, p)
<1>1. Front(p) \in Seq(Nat) /\ Last(p) \in Nat  BY PathEnds
<1>2. KindOf(StatIn(t, Front(p))) = "dir"  BY HopLands DEF LStatIn
<1>3. StatIn(u, Front(p)) = StatIn(t, Front(p))  BY <1>1, <1>2, StatKept
<1> QED  BY <1>1, <1>3, HopKept DEF LStatIn

\* The tree after an exchange.
Exchanged(t, dir, name, i) ==
  [t EXCEPT ![dir] = IF i = Missing THEN [n \in DOMAIN @ \ {name} |-> @[n]] ELSE [@ EXCEPT ![name] = i]]

LEMMA ExchangeIsLocal ==
  ASSUME NEW t, IsTree(t), DOMAIN t = DOMAIN Tree, NEW d \in Inodes, Kind[d] = "dir", NEW n, NEW i \in Places
  PROVE  LET u == Exchanged(t, d, n, i)
         IN  /\ DOMAIN u = DOMAIN Tree /\ IsTree(u)
             /\ \A e \in Inodes : Kind[e] = "dir" => DOMAIN u[e] \subseteq DOMAIN t[e]
             /\ \A e \in Inodes, m \in Nat :
                  Kind[e] = "dir" /\ <<e, m>> # <<d, n>> => Hop(u, e, m) = Hop(t, e, m)
<1> DEFINE new == IF i = Missing THEN [m \in DOMAIN t[d] \ {n} |-> t[d][m]] ELSE [t[d] EXCEPT ![n] = i]
           u == Exchanged(t, d, n, i)
<1>1. d \in DOMAIN t  BY TreeAssumption
<1>2. DOMAIN u = DOMAIN Tree /\ u[d] = new /\ \A e \in DOMAIN t : e # d => u[e] = t[e]
  BY <1>1 DEF Exchanged
<1>3. /\ DOMAIN new \subseteq DOMAIN t[d]
      /\ \A m \in DOMAIN t[d] : m # n => m \in DOMAIN new /\ new[m] = t[d][m]
      /\ \A m \in DOMAIN new : new[m] = t[d][m] \/ (new[m] = i /\ i # Missing)
  <2>1. CASE i = Missing  BY <2>1
  <2>2. CASE i # Missing  BY <2>2
  <2> QED  BY <2>1, <2>2
<1> HIDE DEF new, u
<1>4. IsFiniteSet(DOMAIN new)
  <2>1. IsFiniteSet(DOMAIN t[d]) /\ DOMAIN new \in SUBSET DOMAIN t[d]  BY <1>3 DEF IsTree
  <2> QED  BY <2>1, FS_Subset
<1>5. \A m \in DOMAIN new : m \in Nat /\ new[m] \in Inodes
  <2>1. \A m \in DOMAIN t[d] : m \in Nat /\ t[d][m] \in Inodes  BY DEF IsTree
  <2>2. i # Missing => i \in Inodes  BY DEF Places
  <2> QED  BY <1>3, <2>1, <2>2
<1>6. ASSUME NEW e \in Inodes, Kind[e] = "dir", e # d PROVE u[e] = t[e]
  BY <1>2, <1>6, TreeAssumption
<1>7. IsTree(u)
  <2> SUFFICES ASSUME NEW e \in Inodes, Kind[e] = "dir"
               PROVE  /\ IsFiniteSet(DOMAIN u[e])
                      /\ \A m \in DOMAIN u[e] : m \in Nat /\ u[e][m] \in Inodes
    BY DEF IsTree
  <2>1. CASE e = d  BY <1>2, <1>4, <1>5, <2>1
  <2>2. CASE e # d  BY <1>6, <2>2 DEF IsTree
  <2> QED  BY <2>1, <2>2
<1>8. ASSUME NEW e \in Inodes, Kind[e] = "dir" PROVE DOMAIN u[e] \subseteq DOMAIN t[e]
  <2>1. CASE e = d  BY <1>2, <1>3, <2>1
  <2>2. CASE e # d  BY <1>6, <1>8, <2>2
  <2> QED  BY <2>1, <2>2
<1>9. ASSUME NEW e \in Inodes, NEW m \in Nat, Kind[e] = "dir", <<e, m>> # <<d, n>>
      PROVE  Hop(u, e, m) = Hop(t, e, m)
  <2>1. CASE e = d
    <3>1. m # n  BY <1>9, <2>1
    <3>2. m \in DOMAIN u[e] <=> m \in DOMAIN t[e]  BY <1>2, <1>3, <2>1, <3>1
    <3>3. m \in DOMAIN t[e] => u[e][m] = t[e][m]  BY <1>2, <1>3, <2>1, <3>1
    <3> QED  BY <3>2, <3>3 DEF Hop
  <2>2. CASE e # d  BY <1>6, <1>9, <2>2 DEF Hop
  <2> QED  BY <2>1, <2>2
<1> QED  BY <1>2, <1>7, <1>8, <1>9 DEF u

----------------------------------------------------------------------------
(* The order of the paths, and that of the archive.                        *)

\* The first place where q is not as p: p ends there, or has the lesser name.
Differs(p, q, k) ==
  /\ k \in 1..Len(q) /\ k <= Len(p) + 1
  /\ \A i \in 1..k - 1 : p[i] = q[i]
  /\ k <= Len(p) => p[k] < q[k]

LEMMA OrderByPlace ==
  ASSUME NEW p \in Seq(Nat), NEW q \in Seq(Nat)
  PROVE  Lexicographic(p, q) <=> \E k \in 1..Len(q) : Differs(p, q, k)
<1>1. Len(p) \in Nat /\ Len(q) \in Nat  OBVIOUS
<1>2. ASSUME NEW k \in Nat, k <= Len(p), k <= Len(q)
      PROVE  SubSeq(p, 1, k) = SubSeq(q, 1, k) <=> \A i \in 1..k : p[i] = q[i]
  <2>1. SubSeq(p, 1, k) = [i \in 1..k |-> p[i]] /\ SubSeq(q, 1, k) = [i \in 1..k |-> q[i]]  BY <1>1, <1>2
  <2> QED  BY <2>1
<1>3. SubSeq(p, 1, Len(p)) = p  OBVIOUS
<1>4. ASSUME Len(p) < Len(q) /\ p = SubSeq(q, 1, Len(p)) PROVE \E k \in 1..Len(q) : Differs(p, q, k)
  <2>1. \A i \in 1..Len(p) : p[i] = q[i]  BY <1>1, <1>2, <1>3, <1>4
  <2>2. Len(p) + 1 \in 1..Len(q) /\ (Len(p) + 1) - 1 = Len(p) /\ ~(Len(p) + 1 <= Len(p))  BY <1>1, <1>4
  <2> QED  BY <2>1, <2>2 DEF Differs
<1>5. ASSUME NEW k \in 1..Len(p), k <= Len(q), p[k] < q[k], SubSeq(p, 1, k - 1) = SubSeq(q, 1, k - 1)
      PROVE  \E j \in 1..Len(q) : Differs(p, q, j)
  <2>1. k - 1 \in Nat /\ k - 1 <= Len(p) /\ k - 1 <= Len(q) /\ k \in 1..Len(q) /\ k <= Len(p) + 1  BY <1>1, <1>5
  <2> DEFINE j == k - 1
  <2> HIDE DEF j
  <2>2. j \in Nat /\ j <= Len(p) /\ j <= Len(q) /\ SubSeq(p, 1, j) = SubSeq(q, 1, j)  BY <1>5, <2>1 DEF j
  <2>3. \A i \in 1..j : p[i] = q[i]  BY <1>2, <2>2
  <2>4. Differs(p, q, k)  BY <1>5, <2>1, <2>3 DEF Differs, j
  <2> QED  BY <2>1, <2>4
<1>6. ASSUME NEW k \in 1..Len(q), Differs(p, q, k) PROVE Lexicographic(p, q)
  <2> DEFINE j == k - 1
  <2>1. j \in Nat /\ j <= Len(p) /\ j <= Len(q) /\ k <= Len(p) + 1 /\ (k <= Len(p) => p[k] < q[k])
    BY <1>1, <1>6 DEF Differs
  <2>2. \A i \in 1..j : p[i] = q[i]  BY <1>6 DEF Differs
  <2> HIDE DEF j
  <2>3. SubSeq(p, 1, j) = SubSeq(q, 1, j)  BY <1>2, <2>1, <2>2
  <2>4. CASE k <= Len(p)
    <3>1. k \in 1..Len(p) /\ k <= Len(q) /\ p[k] < q[k] /\ SubSeq(p, 1, k - 1) = SubSeq(q, 1, k - 1)
      BY <1>1, <2>1, <2>3, <2>4 DEF j
    <3> QED  BY <3>1 DEF Lexicographic
  <2>5. CASE ~(k <= Len(p))
    <3>1. j = Len(p) /\ Len(p) < Len(q)  BY <1>1, <2>1, <2>5 DEF j
    <3> QED  BY <1>3, <2>3, <3>1 DEF Lexicographic
  <2> QED  BY <2>4, <2>5
<1> QED  BY <1>4, <1>5, <1>6 DEF Lexicographic

\* No two paths come before one another.
LEMMA OrderIsStrict ==
  ASSUME NEW p \in Seq(Nat), NEW q \in Seq(Nat), Lexicographic(p, q)
  PROVE  ~Lexicographic(q, p)
<1> SUFFICES ASSUME Lexicographic(q, p) PROVE FALSE  OBVIOUS
<1>1. /\ Len(p) \in Nat /\ Len(q) \in Nat
      /\ (\A k \in 1..Len(p) : p[k] \in Nat) /\ (\A k \in 1..Len(q) : q[k] \in Nat)
  OBVIOUS
<1>2. PICK j \in 1..Len(q) : Differs(p, q, j)  BY OrderByPlace
<1>3. PICK k \in 1..Len(p) : Differs(q, p, k)  BY OrderByPlace
<1>4. CASE j < k  BY <1>1, <1>2, <1>3, <1>4 DEF Differs
<1>5. CASE k < j  BY <1>1, <1>2, <1>3, <1>5 DEF Differs
<1>6. CASE j = k  BY <1>1, <1>2, <1>3, <1>6 DEF Differs
<1> QED  BY <1>1, <1>4, <1>5, <1>6

LEMMA OrderIsTransitive ==
  ASSUME NEW p \in Seq(Nat), NEW q \in Seq(Nat), NEW r \in Seq(Nat), Lexicographic(p, q), Lexicographic(q, r)
  PROVE  Lexicographic(p, r)
<1>1. /\ Len(p) \in Nat /\ Len(q) \in Nat /\ Len(r) \in Nat
      /\ (\A k \in 1..Len(p) : p[k] \in Nat) /\ (\A k \in 1..Len(q) : q[k] \in Nat) /\ (\A k \in 1..Len(r) : r[k] \in Nat)
  OBVIOUS
<1>2. PICK j \in 1..Len(q) : Differs(p, q, j)  BY OrderByPlace
<1>3. PICK k \in 1..Len(r) : Differs(q, r, k)  BY OrderByPlace
<1>4. CASE j < k
  <2>1. j \in 1..Len(r) /\ \A i \in 1..j - 1 : p[i] = r[i]  BY <1>1, <1>2, <1>3, <1>4 DEF Differs
  <2>2. q[j] = r[j]  BY <1>1, <1>2, <1>3, <1>4 DEF Differs
  <2>3. Differs(p, r, j)  BY <1>2, <2>1, <2>2 DEF Differs
  <2> QED  BY <2>1, <2>3, OrderByPlace
<1>5. CASE k < j
  <2>1. k \in 1..Len(q) /\ k <= Len(p) /\ \A i \in 1..k - 1 : p[i] = r[i]
    <3>1. k \in Nat /\ j \in Nat /\ j <= Len(q) /\ j <= Len(p) + 1 /\ k \in 1..Len(r)  BY <1>1, <1>2, <1>3 DEF Differs
    <3>2. k \in 1..Len(q) /\ k <= Len(p) /\ \A i \in 1..k - 1 : i \in 1..j - 1  BY <1>1, <1>5, <3>1
    <3>3. (\A i \in 1..j - 1 : p[i] = q[i]) /\ (\A i \in 1..k - 1 : q[i] = r[i])  BY <1>2, <1>3 DEF Differs
    <3> QED  BY <3>2, <3>3
  <2>2. p[k] = q[k] /\ q[k] < r[k]  BY <1>1, <1>2, <1>3, <1>5, <2>1 DEF Differs
  <2>3. Differs(p, r, k)  BY <1>1, <2>1, <2>2 DEF Differs
  <2> QED  BY <2>3, OrderByPlace
<1>6. CASE j = k
  <2>1. k <= Len(p) + 1 /\ \A i \in 1..k - 1 : p[i] = r[i]  BY <1>1, <1>2, <1>3, <1>6 DEF Differs
  <2>2. q[k] < r[k]  BY <1>1, <1>2, <1>3, <1>6 DEF Differs
  <2>3. k <= Len(p) => p[k] < r[k]
    <3> SUFFICES ASSUME k <= Len(p) PROVE p[k] < r[k]  OBVIOUS
    <3>1. p[k] < q[k]  BY <1>2, <1>6 DEF Differs
    <3>2. p[k] \in Nat /\ q[k] \in Nat /\ r[k] \in Nat  BY <1>1, <1>2, <1>6
    <3>3. \A x, y, z \in Nat : x < y /\ y < z => x < z  OBVIOUS
    <3> QED  BY <2>2, <3>1, <3>2, <3>3
  <2>4. Differs(p, r, k)  BY <2>1, <2>3 DEF Differs
  <2> QED  BY <2>4, OrderByPlace
<1> QED  BY <1>1, <1>4, <1>5, <1>6

LEMMA OrderIsTotal ==
  ASSUME NEW p \in Seq(Nat), NEW q \in Seq(Nat), p # q
  PROVE  Lexicographic(p, q) \/ Lexicographic(q, p)
<1>1. /\ Len(p) \in Nat /\ Len(q) \in Nat
      /\ (\A k \in 1..Len(p) : p[k] \in Nat) /\ (\A k \in 1..Len(q) : q[k] \in Nat)
  OBVIOUS
<1> DEFINE T == {k \in Nat : k > 0 /\ (k > Len(p) \/ k > Len(q) \/ p[k] # q[k])}
<1>2. Len(p) + 1 \in T  BY <1>1
<1>3. PICK k \in T : \A y \in T : k <= y
  <2>1. T \in SUBSET Nat /\ T # {}  BY <1>2
  <2> HIDE DEF T
  <2> QED  BY <2>1, Least
<1>4. k \in Nat /\ k > 0 /\ k <= Len(p) + 1  BY <1>2, <1>3
<1>5. \A i \in 1..k - 1 : i <= Len(p) /\ i <= Len(q) /\ p[i] = q[i]
  <2> SUFFICES ASSUME NEW i \in 1..k - 1 PROVE i \notin T  BY <1>4
  <2>1. ~(k <= i)  BY <1>4
  <2> HIDE DEF T
  <2> QED  BY <1>3, <2>1
<1>6. k <= Len(q) + 1
  <2> SUFFICES ASSUME ~(k <= Len(q) + 1) PROVE FALSE  OBVIOUS
  <2>1. Len(q) + 1 \in 1..k - 1  BY <1>1, <1>4
  <2> QED  BY <1>1, <1>5, <2>1
<1>7. CASE k <= Len(p) /\ k <= Len(q)
  <2>1. p[k] # q[k] /\ p[k] \in Nat /\ q[k] \in Nat  BY <1>1, <1>3, <1>4, <1>7
  <2>2. CASE p[k] < q[k]
    <3>1. Differs(p, q, k) /\ k \in 1..Len(q)  BY <1>1, <1>4, <1>5, <1>7, <2>2 DEF Differs
    <3> QED  BY <3>1, OrderByPlace
  <2>3. CASE q[k] < p[k]
    <3>1. Differs(q, p, k) /\ k \in 1..Len(p)  BY <1>1, <1>4, <1>5, <1>6, <1>7, <2>3 DEF Differs
    <3> QED  BY <3>1, OrderByPlace
  <2> QED  BY <2>1, <2>2, <2>3
<1>8. CASE ~(k <= Len(p)) /\ k <= Len(q)
  <2>1. Differs(p, q, k) /\ k \in 1..Len(q)  BY <1>1, <1>4, <1>5, <1>8 DEF Differs
  <2> QED  BY <2>1, OrderByPlace
<1>9. CASE k <= Len(p) /\ ~(k <= Len(q))
  <2>1. Differs(q, p, k) /\ k \in 1..Len(p)  BY <1>1, <1>4, <1>5, <1>6, <1>9 DEF Differs
  <2> QED  BY <2>1, OrderByPlace
<1>10. CASE ~(k <= Len(p)) /\ ~(k <= Len(q))
  <2>1. Len(p) = k - 1 /\ Len(q) = k - 1  BY <1>1, <1>4, <1>6, <1>10
  <2>2. \A i \in 1..Len(p) : p[i] = q[i]  BY <1>5, <2>1
  <2>3. p = q  BY <2>1, <2>2, SeqEqual
  <2> QED  BY <2>3
<1> QED  BY <1>7, <1>8, <1>9, <1>10

\* The ranks in a strict total order are all the numbers there are, each once.
LEMMA Ranks ==
  ASSUME NEW n \in Nat, NEW R, NEW pick,
         \A i \in 1..n : <<i, i>> \notin R,
         \A i, j, k \in 1..n : <<i, j>> \in R /\ <<j, k>> \in R => <<i, k>> \in R,
         \A i, j \in 1..n : i # j => <<i, j>> \in R \/ <<j, i>> \in R,
         pick = [k \in 1..n |-> pick[k]],
         \A k \in 1..n : pick[k] = CHOOSE i \in 1..n : Cardinality({j \in 1..n : <<j, i>> \in R}) = k - 1
  PROVE  pick \in Bijection(1..n, 1..n) /\ \A j, k \in 1..n : j < k => <<pick[j], pick[k]>> \in R
<1> DEFINE S == 1..n
           Under(i) == {j \in S : <<j, i>> \in R}
           rank == [i \in S |-> Cardinality(Under(i))]
<1>1. IsFiniteSet(S) /\ Cardinality(S) = n
  <2>1. 1 \in Int /\ n \in Int  OBVIOUS
  <2>2. IsFiniteSet(1..n) /\ Cardinality(1..n) = IF 1 > n THEN 0 ELSE n - 1 + 1  BY <2>1, FS_Interval
  <2> QED  BY <2>2
<1>2. ASSUME NEW i \in S PROVE IsFiniteSet(Under(i)) /\ Cardinality(Under(i)) \in 0..n - 1
  <2> DEFINE B == Under(i)
  <2>1. B \in SUBSET S /\ i \notin B  OBVIOUS
  <2> HIDE DEF B, S
  <2>2. IsFiniteSet(B) /\ Cardinality(B) <= n /\ (n = Cardinality(B) => S = B)  BY <1>1, <2>1, FS_Subset
  <2>3. Cardinality(B) \in Nat  BY <2>2, FS_CardinalityType
  <2>4. Cardinality(B) # n  BY <2>1, <2>2
  <2>5. IsFiniteSet(B) /\ Cardinality(B) \in 0..n - 1  BY <2>2, <2>3, <2>4
  <2> QED  BY <2>5 DEF B
<1>3. ASSUME NEW h \in S, NEW i \in S, <<h, i>> \in R PROVE rank[h] # rank[i] /\ rank[h] <= rank[i]
  <2> DEFINE A == Under(h)
             B == Under(i)
  <2>1. A \in SUBSET B /\ h \in B /\ h \notin A
    <3>1. \A j \in A : j \in B  BY <1>3
    <3>2. h \in B /\ h \notin A  BY <1>3
    <3> HIDE DEF A, B
    <3> QED  BY <3>1, <3>2
  <2>2. IsFiniteSet(B)  BY <1>2
  <2>3. rank[h] = Cardinality(A) /\ rank[i] = Cardinality(B)  OBVIOUS
  <2> HIDE DEF A, B, rank
  <2>4. Cardinality(A) <= Cardinality(B) /\ (Cardinality(A) = Cardinality(B) => A = B)
    BY <2>1, <2>2, FS_Subset
  <2> QED  BY <2>1, <2>3, <2>4
<1>4. rank \in [S -> 0..n - 1]  BY <1>2
<1>5. rank \in Injection(S, 0..n - 1)
  <2>1. ASSUME NEW h \in S, NEW i \in S, h # i PROVE rank[h] # rank[i]
    <3>1. <<h, i>> \in R \/ <<i, h>> \in R  BY <2>1
    <3> HIDE DEF rank, S
    <3> QED  BY <3>1, <1>3
  <2> HIDE DEF rank, S
  <2> QED  BY <1>4, <2>1 DEF Injection, IsInjective
<1>6. IsFiniteSet(0..n - 1) /\ Cardinality(0..n - 1) = n
  <2>1. 0 \in Int /\ n - 1 \in Int  OBVIOUS
  <2>2. Cardinality(0..n - 1) = IF 0 > n - 1 THEN 0 ELSE n - 1 - 0 + 1  BY <2>1, FS_Interval
  <2>3. IsFiniteSet(0..n - 1)  BY <2>1, FS_Interval
  <2> QED  BY <2>2, <2>3
<1>7. rank \in Surjection(S, 0..n - 1)
  <2> HIDE DEF rank, S
  <2> QED  BY <1>1, <1>5, <1>6, FS_Injection
<1>8. ASSUME NEW k \in S PROVE pick[k] \in S /\ rank[pick[k]] = k - 1
  <2>1. k - 1 \in 0..n - 1  OBVIOUS
  <2>2. PICK i \in S : rank[i] = k - 1
    <3> HIDE DEF rank
    <3> QED  BY <1>7, <2>1 DEF Surjection
  <2>3. Cardinality(Under(i)) = k - 1  BY <2>2
  <2>4. pick[k] = CHOOSE h \in S : Cardinality(Under(h)) = k - 1  OBVIOUS
  <2> HIDE DEF Under
  <2>5. pick[k] \in S /\ Cardinality(Under(pick[k])) = k - 1  BY <2>3, <2>4
  <2> QED  BY <2>5
<1>9. ASSUME NEW j \in S, NEW k \in S, j < k PROVE <<pick[j], pick[k]>> \in R
  <2>1. /\ pick[j] \in S /\ rank[pick[j]] = j - 1
        /\ pick[k] \in S /\ rank[pick[k]] = k - 1
    BY <1>8
  <2>2. j \in Nat /\ k \in Nat  OBVIOUS
  <2> DEFINE h == pick[j]
             i == pick[k]
  <2>3. h \in S /\ i \in S /\ rank[h] = j - 1 /\ rank[i] = k - 1  BY <2>1
  <2>4. h # i /\ ~(rank[i] <= rank[h])
    <3> HIDE DEF h, i, rank, S
    <3> QED  BY <1>9, <2>2, <2>3
  <2>5. <<h, i>> \in R \/ <<i, h>> \in R  BY <2>3, <2>4
  <2> HIDE DEF h, i, rank, S
  <2>6. <<h, i>> \in R  BY <1>3, <2>3, <2>4, <2>5
  <2> QED  BY <2>6 DEF h, i
<1>10. pick \in [S -> S]
  <2>1. pick = [k \in S |-> pick[k]]  OBVIOUS
  <2> HIDE DEF rank, S
  <2> QED  BY <1>8, <2>1
<1>11. \A j, k \in S : pick[j] = pick[k] => j = k
  <2> SUFFICES ASSUME NEW j \in S, NEW k \in S, pick[j] = pick[k] PROVE j = k  OBVIOUS
  <2>1. j - 1 = k - 1  BY <1>8
  <2> QED  BY <2>1
<1>12. pick \in Injection(S, S)
  <2> HIDE DEF S
  <2>1. DOMAIN pick = S  BY <1>10
  <2>2. IsInjective(pick)  BY <1>11, <2>1 DEF IsInjective
  <2> QED  BY <1>10, <2>2 DEF Injection
<1>13. pick \in Surjection(S, S)
  <2> HIDE DEF S
  <2> QED  BY <1>1, <1>12, FS_Injection
<1> QED  BY <1>9, <1>12, <1>13 DEF Bijection

\* By mangled name, then by path: a strict order of the places of a list, and a total one.
LEMMA MangledNames ==
  ASSUME NEW p \in Paths PROVE Mangle(Last(p)) \in Nat
<1>1. Last(p) \in Nat
  <2>1. p \in Seq(Nat) /\ Len(p) \in Nat /\ Len(p) # 0  BY DEF Paths, NoPath
  <2>2. Len(p) \in 1..Len(p)  BY <2>1
  <2> QED  BY <2>1, <2>2 DEF Last
<1> QED  BY <1>1, NamesAssumption DEF Mangle

LEMMA PrecedesIsStrict ==
  ASSUME NEW p \in Paths, NEW q \in Paths, Precedes(p, q)
  PROVE  ~Precedes(q, p) /\ p # q
<1> DEFINE m == Mangle(Last(p))
           n == Mangle(Last(q))
<1>1. m \in Nat /\ n \in Nat /\ p \in Seq(Nat) /\ q \in Seq(Nat)  BY MangledNames DEF Paths
<1>2. /\ Precedes(p, q) <=> m < n \/ (m = n /\ Lexicographic(p, q))
      /\ Precedes(q, p) <=> n < m \/ (n = m /\ Lexicographic(q, p))
      /\ p = q => m = n
  BY DEF Precedes
<1> HIDE DEF m, n
<1>3. Lexicographic(p, q) => ~Lexicographic(q, p)  BY <1>1, OrderIsStrict
<1> QED  BY <1>1, <1>2, <1>3

LEMMA PrecedesIsTransitive ==
  ASSUME NEW p \in Paths, NEW q \in Paths, NEW r \in Paths, Precedes(p, q), Precedes(q, r)
  PROVE  Precedes(p, r)
<1> DEFINE l == Mangle(Last(p))
           m == Mangle(Last(q))
           n == Mangle(Last(r))
<1>1. l \in Nat /\ m \in Nat /\ n \in Nat /\ p \in Seq(Nat) /\ q \in Seq(Nat) /\ r \in Seq(Nat)
  BY MangledNames DEF Paths
<1>2. /\ Precedes(p, q) <=> l < m \/ (l = m /\ Lexicographic(p, q))
      /\ Precedes(q, r) <=> m < n \/ (m = n /\ Lexicographic(q, r))
      /\ Precedes(p, r) <=> l < n \/ (l = n /\ Lexicographic(p, r))
  BY DEF Precedes
<1> HIDE DEF l, m, n
<1>3. Lexicographic(p, q) /\ Lexicographic(q, r) => Lexicographic(p, r)  BY <1>1, OrderIsTransitive
<1> QED  BY <1>1, <1>2, <1>3

LEMMA PrecedesIsTotal ==
  ASSUME NEW p \in Paths, NEW q \in Paths, p # q
  PROVE  Precedes(p, q) \/ Precedes(q, p)
<1> DEFINE m == Mangle(Last(p))
           n == Mangle(Last(q))
<1>1. m \in Nat /\ n \in Nat /\ p \in Seq(Nat) /\ q \in Seq(Nat)  BY MangledNames DEF Paths
<1>2. /\ Precedes(p, q) <=> m < n \/ (m = n /\ Lexicographic(p, q))
      /\ Precedes(q, p) <=> n < m \/ (n = m /\ Lexicographic(q, p))
  BY DEF Precedes
<1> HIDE DEF m, n
<1>3. Lexicographic(p, q) \/ Lexicographic(q, p)  BY <1>1, OrderIsTotal
<1> QED  BY <1>1, <1>2, <1>3

\* The sort moves the entries about, and none comes before one that precedes it.
LEMMA ArrangedInOrder ==
  ASSUME NEW list, Len(list) \in Nat, \A k \in 1..Len(list) : list[k].path \in Paths
  PROVE  \E f \in Bijection(1..Len(list), 1..Len(list)) :
           /\ Arranged(list) = [k \in 1..Len(list) |-> list[f[k]]]
           /\ \A j, k \in 1..Len(list) : j < k => ~Precedes(list[f[k]].path, list[f[j]].path)
<1> DEFINE n == Len(list)
           R == {x \in (1..n) \X (1..n) : Earlier(list, x[1], x[2])}
           At(k) == CHOOSE i \in 1..n : Cardinality({j \in 1..n : <<j, i>> \in R}) = k - 1
           pick == [k \in 1..n |-> At(k)]
<1>1. \A k \in 1..n : list[k].path \in Paths  OBVIOUS
<1>2. \A i, j \in 1..n : <<i, j>> \in R <=> Earlier(list, i, j)  OBVIOUS
<1>3. \A i, j \in 1..n :
        Earlier(list, i, j) <=> Precedes(list[i].path, list[j].path) \/ (list[i].path = list[j].path /\ i < j)
  BY DEF Earlier
<1>4. Arranged(list) = [k \in 1..n |-> list[pick[k]]]
  <2>1. \A i \in 1..n : {j \in 1..n : Earlier(list, j, i)} = {j \in 1..n : <<j, i>> \in R}  BY <1>2
  <2> HIDE DEF R
  <2>2. \A k \in 1..n : (CHOOSE i \in 1..n : Cardinality({j \in 1..n : Earlier(list, j, i)}) = k - 1) = At(k)
    BY <2>1
  <2> HIDE DEF At
  <2>3. \A k \in 1..n : pick[k] = At(k)  OBVIOUS
  <2> HIDE DEF pick
  <2>4. Arranged(list)
          = [k \in 1..n |-> list[CHOOSE i \in 1..n : Cardinality({j \in 1..n : Earlier(list, j, i)}) = k - 1]]
    BY DEF Arranged
  <2>5. Arranged(list) = [k \in 1..n |-> list[At(k)]]  BY <2>2, <2>4
  <2> QED  BY <2>3, <2>5
<1> HIDE DEF R, n
<1>5. n \in Nat  BY DEF n
<1>6. \A i \in 1..n : <<i, i>> \notin R  BY <1>1, <1>2, <1>3, PrecedesIsStrict
<1>7. \A i, j, k \in 1..n : <<i, j>> \in R /\ <<j, k>> \in R => <<i, k>> \in R
  <2> SUFFICES ASSUME NEW i \in 1..n, NEW j \in 1..n, NEW k \in 1..n, Earlier(list, i, j), Earlier(list, j, k)
               PROVE  Earlier(list, i, k)
    BY <1>2
  <2>1. i < j /\ j < k => i < k  BY <1>5
  <2>2. Precedes(list[i].path, list[j].path) /\ Precedes(list[j].path, list[k].path)
          => Precedes(list[i].path, list[k].path)
    BY <1>1, PrecedesIsTransitive
  <2> QED  BY <1>3, <2>1, <2>2
<1>8. \A i, j \in 1..n : i # j => <<i, j>> \in R \/ <<j, i>> \in R
  <2> SUFFICES ASSUME NEW i \in 1..n, NEW j \in 1..n, i # j PROVE Earlier(list, i, j) \/ Earlier(list, j, i)
    BY <1>2
  <2>1. i < j \/ j < i  BY <1>5
  <2>2. list[i].path # list[j].path => Precedes(list[i].path, list[j].path) \/ Precedes(list[j].path, list[i].path)
    BY <1>1, PrecedesIsTotal
  <2> QED  BY <1>3, <2>1, <2>2
<1>9. pick \in Bijection(1..n, 1..n) /\ \A j, k \in 1..n : j < k => <<pick[j], pick[k]>> \in R
  <2> HIDE DEF At
  <2>1. \A k \in 1..n : pick[k] = At(k)  OBVIOUS
  <2>2. pick = [k \in 1..n |-> pick[k]]  OBVIOUS
  <2> HIDE DEF pick
  <2>3. \A k \in 1..n : pick[k] = CHOOSE i \in 1..n : Cardinality({j \in 1..n : <<j, i>> \in R}) = k - 1
    BY <2>1 DEF At
  <2> QED  BY <1>5, <1>6, <1>7, <1>8, <2>2, <2>3, Ranks
<1> HIDE DEF pick
<1>10. \A k \in 1..n : pick[k] \in 1..n /\ list[k].path \in Paths  BY <1>9 DEF Bijection, Injection, n
<1>11. ASSUME NEW j \in 1..n, NEW k \in 1..n, j < k PROVE ~Precedes(list[pick[k]].path, list[pick[j]].path)
  <2>1. Earlier(list, pick[j], pick[k])  BY <1>2, <1>9, <1>10, <1>11
  <2>2. list[pick[j]].path \in Paths /\ list[pick[k]].path \in Paths  BY <1>10
  <2>3. \/ Precedes(list[pick[j]].path, list[pick[k]].path)
        \/ list[pick[j]].path = list[pick[k]].path
    BY <1>3, <1>10, <2>1
  <2> QED  BY <2>2, <2>3, PrecedesIsStrict
<1> QED  BY <1>4, <1>9, <1>11 DEF n

\* Moving things about changes no count.
LEMMA SameTimes ==
  ASSUME NEW n \in Nat, NEW f \in Bijection(1..n, 1..n), NEW a, NEW b, Len(a) = n, Len(b) = n,
         \A k \in 1..n : b[k] = a[f[k]], NEW x
  PROVE  Times(b, x) = Times(a, x)
<1> DEFINE A == {k \in 1..n : a[k] = x}
           B == {k \in 1..n : b[k] = x}
           g == [k \in B |-> f[k]]
<1>1. /\ f \in [1..n -> 1..n]
      /\ \A j, k \in 1..n : f[j] = f[k] => j = k
      /\ \A k \in 1..n : \E j \in 1..n : f[j] = k
  BY DEF Bijection, Injection, Surjection, IsInjective
<1>2. \A k \in B : f[k] \in A  BY <1>1
<1>3. \A k \in A : \E j \in B : f[j] = k  BY <1>1
<1>4. \A k \in B : k \in 1..n  OBVIOUS
<1>5. IsFiniteSet(B)
  <2>1. IsFiniteSet(1..n)
    <3>1. 1 \in Int /\ n \in Int  OBVIOUS
    <3> QED  BY <3>1, FS_Interval
  <2>2. B \in SUBSET (1..n)  OBVIOUS
  <2> HIDE DEF B
  <2> QED  BY <2>1, <2>2, FS_Subset
<1>6. Times(a, x) = Cardinality(A) /\ Times(b, x) = Cardinality(B)  BY DEF Times
<1> HIDE DEF A, B
<1>7. g \in Bijection(B, A)  BY <1>1, <1>2, <1>3, <1>4 DEF Bijection, Injection, Surjection, IsInjective
<1>8. ExistsBijection(B, A)  BY <1>7 DEF ExistsBijection
<1> QED  BY <1>5, <1>6, <1>8, FS_Bijection

----------------------------------------------------------------------------
(* Types, and what an entry that nobody exchanged still is.                *)

RegularFiles == {i \in Inodes : Kind[i] = "file"}
Entry == [path : Paths, depth : Nat]
Prelim == [path : Paths, file : RegularFiles, mtime : Nat]
Packed == [path : Paths, file : RegularFiles, contents : Nat, same : BOOLEAN, stamp : Nat]

AsBefore(t, done) ==
  \A d \in Inodes, n \in Nat :
    Kind[d] = "dir" /\ <<d, n>> \notin done => Hop(t, d, n) = Hop(Tree, d, n)

TreeInv ==
  /\ asked \in Scenarios
  /\ DOMAIN tree = DOMAIN Tree /\ IsTree(tree)
  /\ AsBefore(tree, swapped)
  /\ swapped = {} => tree = Tree

WalkInv ==
  /\ todo \in Seq(Entry) /\ out \in Seq(Paths) /\ meta \in Places
  /\ stage \in {"judge", "readdir"} => todo # <<>> /\ KindOf(meta) \notin {"link", "none"}
  /\ stage = "readdir" => KindOf(meta) = "dir"

\* Nothing is read yet, and nothing sorted.
NotYet == {"output", "exclude", "walk", "judge", "readdir", "stat", "name"}

ReadInv ==
  /\ version \in [RegularFiles -> Nat]
  /\ prelim \in Seq(Prelim) /\ packed \in Seq(Packed)
  /\ Len(packed) <= Len(prelim) /\ Len(prelim) <= Len(out)
  /\ stage \in NotYet => packed = <<>>
  /\ stage \in NotYet \/ asked.preserve => \A k \in 1..Len(prelim) : prelim[k].path = out[k]
  /\ \A k \in 1..Len(prelim) : /\ \E j \in 1..Len(out) : prelim[k].path = out[j]
                               /\ prelim[k].mtime <= version[prelim[k].file]
  /\ \A k \in 1..Len(packed) : /\ packed[k].path = prelim[k].path
                               /\ packed[k].contents <= version[packed[k].file]
                               /\ packed[k].same => packed[k].stamp <= packed[k].contents

TypeInv == TreeInv /\ WalkInv /\ ReadInv

LEMMA InitTypeInv == Init => TypeInv
<1> SUFFICES ASSUME Init PROVE TypeInv  OBVIOUS
<1>1. TreeInv  BY StartIsTree DEF Init, TreeInv, AsBefore
<1>2. WalkInv
  <2>1. asked.inputs \in Seq(Paths)  BY ScenariosAssumption DEF Init
  <2> DEFINE n == Len(asked.inputs)
  <2>2. n \in Nat /\ \A k \in 1..n : asked.inputs[k] \in Paths  BY <2>1
  <2>3. todo = [k \in 1..n |-> Top(asked.inputs[k])]  BY DEF Init
  <2> HIDE DEF n
  <2>4. \A k \in 1..n : Top(asked.inputs[k]) \in Entry  BY <2>2 DEF Top, Entry
  <2>5. todo \in Seq(Entry)  BY <2>2, <2>3, <2>4
  <2> QED  BY <2>5 DEF Init, WalkInv, Places
<1>3. ReadInv  BY DEF Init, ReadInv, RegularFiles, Inodes, WalkInv, NotYet
<1> QED  BY <1>1, <1>2, <1>3 DEF TypeInv

LEMMA SwapTreeInv ==
  ASSUME TreeInv, NEW s \in asked.swaps, Swap(s[1], s[2], s[3])
  PROVE  /\ TreeInv'
         /\ s[1] \in Inodes /\ Kind[s[1]] = "dir" /\ s[2] \in DOMAIN Tree[s[1]]
         /\ \A e \in Inodes, m \in Nat :
              Kind[e] = "dir" /\ <<e, m>> # <<s[1], s[2]>> => Hop(tree', e, m) = Hop(tree, e, m)
<1> DEFINE d == s[1]
           n == s[2]
           i == s[3]
<1>1. d \in Inodes /\ Kind[d] = "dir" /\ n \in DOMAIN Tree[d] /\ i \in Places
  BY ScenariosAssumption DEF TreeInv, Places
<1>2. tree' = Exchanged(tree, d, n, i) /\ swapped' = swapped \cup {<<d, n>>} /\ asked' = asked
  BY DEF Swap, Exchanged
<1> HIDE DEF d, n, i
<1>3. IsTree(tree) /\ DOMAIN tree = DOMAIN Tree  BY DEF TreeInv
<1>4. /\ DOMAIN tree' = DOMAIN Tree /\ IsTree(tree')
      /\ \A e \in Inodes, m \in Nat :
           Kind[e] = "dir" /\ <<e, m>> # <<d, n>> => Hop(tree', e, m) = Hop(tree, e, m)
  BY <1>1, <1>2, <1>3, ExchangeIsLocal
<1>5. AsBefore(tree', swapped')
  <2> SUFFICES ASSUME NEW e \in Inodes, NEW m \in Nat, Kind[e] = "dir", <<e, m>> \notin swapped'
               PROVE  Hop(tree', e, m) = Hop(Tree, e, m)
    BY DEF AsBefore
  <2>1. <<e, m>> \notin swapped /\ <<e, m>> # <<d, n>>  BY <1>2
  <2>2. Hop(tree, e, m) = Hop(Tree, e, m)  BY <2>1 DEF TreeInv, AsBefore
  <2> QED  BY <1>4, <2>1, <2>2
<1>6. swapped' # {}  BY <1>2
<1>7. asked' \in Scenarios  BY <1>2 DEF TreeInv
<1>8. TreeInv'  BY <1>4, <1>5, <1>6, <1>7 DEF TreeInv
<1> QED  BY <1>1, <1>4, <1>8 DEF d, n

\* Pack's own steps and those of others who only write leave the tree alone.
LEMMA TreeStays ==
  ASSUME Next, ~ \E s \in asked.swaps : Swap(s[1], s[2], s[3])
  PROVE  UNCHANGED <<asked, tree, swapped>>
<1>1. CASE Pack
  BY <1>1 DEF Pack, Keep, fs, CheckOutput, Exclude, Visit, Judge, ReadDir, WalkDone, StatNext, NameAll, ReadNext, Create,
              CallFails
<1>2. CASE \E i \in asked.rewrites : Rewrite(i)  BY <1>2 DEF Rewrite
<1> QED  BY <1>1, <1>2 DEF Next, Others

LEMMA NextTreeInv ==
  ASSUME TreeInv, [Next]_vars
  PROVE  TreeInv'
<1>1. CASE \E s \in asked.swaps : Swap(s[1], s[2], s[3])  BY <1>1, SwapTreeInv
<1>2. CASE Next /\ ~ \E s \in asked.swaps : Swap(s[1], s[2], s[3])
  <2>1. UNCHANGED <<asked, tree, swapped>>  BY <1>2, TreeStays
  <2> QED  BY <2>1 DEF TreeInv
<1>3. CASE UNCHANGED vars  BY <1>3 DEF TreeInv, vars
<1> QED  BY <1>1, <1>2, <1>3

----------------------------------------------------------------------------
(* What is to be visited, and what has been read.                          *)

LEMMA HeadAndTail ==
  ASSUME NEW S, NEW s \in Seq(S), s # <<>>
  PROVE  /\ Head(s) \in S /\ Head(s) = s[1] /\ 1 \in 1..Len(s)
         /\ Tail(s) \in Seq(S)
         /\ \A k \in 1..Len(Tail(s)) : k + 1 \in 1..Len(s) /\ Tail(s)[k] = s[k + 1]
  OBVIOUS

LEMMA Appended ==
  ASSUME NEW S, NEW s \in Seq(S), NEW e \in S
  PROVE  /\ Append(s, e) \in Seq(S) /\ Len(Append(s, e)) = Len(s) + 1 /\ Len(s) \in Nat
         /\ \A k \in 1..Len(s) : Append(s, e)[k] = s[k]
         /\ Append(s, e)[Len(s) + 1] = e
         /\ \A k \in 1..Len(Append(s, e)) : k \in 1..Len(s) \/ k = Len(s) + 1
  BY AppendProperties

\* What may be to visit after a step: what was, or an entry of the directory read.
StillOrListed(e) ==
  \/ \E k \in 1..Len(todo) : e = todo[k]
  \/ /\ ReadDir /\ todo # <<>>
     /\ KindOf(Stat(Head(todo).path)) = "dir"
     /\ \E n \in DOMAIN tree[Stat(Head(todo).path)] :
          n \in Nat /\ e = [path |-> Append(Head(todo).path, n), depth |-> Head(todo).depth + 1]

LEMMA Listed ==
  ASSUME TypeInv, ReadDir, KindOf(Stat(Head(todo).path)) = "dir"
  PROVE  /\ todo' \in Seq(Entry)
         /\ \A k \in 1..Len(todo') : StillOrListed(todo'[k])
<1> DEFINE dir == Head(todo)
           i == Stat(dir.path)
           names == Sorted(DOMAIN tree[i])
           rest == Tail(todo)
           Item(k) == [path |-> Append(dir.path, names[k]), depth |-> dir.depth + 1]
           new == [k \in 1..Len(names) |-> Item(k)]
<1>1. todo' = new \o rest  BY DEF ReadDir
<1>2. todo \in Seq(Entry) /\ todo # <<>>  BY DEF TypeInv, WalkInv, ReadDir
<1>3. /\ dir \in Entry /\ rest \in Seq(Entry)
      /\ \A k \in 1..Len(rest) : \E j \in 1..Len(todo) : rest[k] = todo[j]
  BY <1>2, HeadAndTail
<1>4. DOMAIN tree[i] \in SUBSET Nat /\ IsFiniteSet(DOMAIN tree[i])
  <2>1. i \in Inodes /\ Kind[i] = "dir"  BY KindTells
  <2> HIDE DEF i
  <2> QED  BY <2>1 DEF TypeInv, TreeInv, IsTree
<1>5. Len(names) \in Nat /\ \A k \in 1..Len(names) : names[k] \in DOMAIN tree[i]
  <2> HIDE DEF i
  <2> QED  BY <1>4, SortedNames
<1> DEFINE n == Len(names)
<1> HIDE DEF names
<1>6. \A k \in 1..n : Item(k) \in Entry
  <2> SUFFICES ASSUME NEW k \in 1..n PROVE Item(k) \in Entry  OBVIOUS
  <2>1. dir.path \in Paths /\ dir.depth \in Nat  BY <1>3 DEF Entry
  <2>2. names[k] \in Nat  BY <1>4, <1>5
  <2> HIDE DEF dir
  <2>3. Append(dir.path, names[k]) \in Paths  BY <2>1, <2>2, PathAppend DEF Paths
  <2> QED  BY <2>1, <2>3 DEF Entry
<1>7. \A k \in 1..n : StillOrListed(Item(k))
  <2> SUFFICES ASSUME NEW k \in 1..n PROVE StillOrListed(Item(k))  OBVIOUS
  <2>1. names[k] \in DOMAIN tree[i] /\ names[k] \in Nat  BY <1>4, <1>5
  <2> QED  BY <1>2, <2>1 DEF StillOrListed
<1> HIDE DEF Item
<1>8. n \in Nat /\ new = [k \in 1..n |-> Item(k)]  BY <1>5
<1> HIDE DEF n, new, rest
<1>9. new \in Seq(Entry) /\ Len(new) = n /\ \A k \in 1..n : new[k] = Item(k)  BY <1>6, <1>8
<1>10. /\ new \o rest \in Seq(Entry) /\ Len(new \o rest) = n + Len(rest) /\ Len(rest) \in Nat
       /\ \A k \in 1..n + Len(rest) : (new \o rest)[k] = IF k <= n THEN new[k] ELSE rest[k - n]
  <2>1. new \in Seq(Entry) /\ rest \in Seq(Entry) /\ Len(new) = n /\ Len(rest) \in Nat  BY <1>3, <1>9
  <2>2. /\ new \o rest \in Seq(Entry) /\ Len(new \o rest) = Len(new) + Len(rest)
        /\ \A k \in 1..Len(new) + Len(rest) :
             (new \o rest)[k] = IF k <= Len(new) THEN new[k] ELSE rest[k - Len(new)]
    BY <2>1, ConcatProperties
  <2> QED  BY <2>1, <2>2
<1>11. ASSUME NEW k \in 1..Len(todo') PROVE StillOrListed(todo'[k])
  <2>1. k \in 1..n + Len(rest)  BY <1>1, <1>10
  <2>2. CASE k <= n
    <3>1. k \in 1..n  BY <1>8, <2>1, <2>2
    <3>2. todo'[k] = Item(k)  BY <1>1, <1>9, <1>10, <2>1, <2>2, <3>1
    <3> QED  BY <1>7, <3>1, <3>2
  <2>3. CASE ~(k <= n)
    <3>1. k - n \in 1..Len(rest)  BY <1>8, <1>10, <2>1, <2>3
    <3>2. todo'[k] = rest[k - n]  BY <1>1, <1>10, <2>1, <2>3
    <3> QED  BY <1>3, <3>1, <3>2 DEF StillOrListed
  <2> QED  BY <2>2, <2>3
<1> QED  BY <1>1, <1>10, <1>11

\* What a step does to the list of what is to visit.
LEMMA TodoStep ==
  ASSUME TypeInv, [Next]_vars
  PROVE  todo' \in Seq(Entry) /\ \A k \in 1..Len(todo') : StillOrListed(todo'[k])
<1>1. todo \in Seq(Entry)  BY DEF TypeInv, WalkInv
<1>2. \A k \in 1..Len(todo) : StillOrListed(todo[k])  BY DEF StillOrListed
<1>3. CASE todo' = todo
  <2>1. todo' \in Seq(Entry) /\ \A k \in 1..Len(todo') : todo'[k] = todo[k] /\ k \in 1..Len(todo)
    BY <1>1, <1>3
  <2> QED  BY <1>2, <2>1
<1>4. CASE todo # <<>> /\ todo' = Tail(todo)
  <2>1. /\ Tail(todo) \in Seq(Entry)
        /\ \A k \in 1..Len(Tail(todo)) : k + 1 \in 1..Len(todo) /\ Tail(todo)[k] = todo[k + 1]
    BY <1>1, <1>4, HeadAndTail
  <2> QED  BY <1>2, <1>4, <2>1
<1>5. CASE ReadDir
  <2>1. CASE KindOf(Stat(Head(todo).path)) = "dir"  BY <1>5, <2>1, Listed
  <2>2. CASE KindOf(Stat(Head(todo).path)) # "dir"  BY <1>3, <1>5, <2>2 DEF ReadDir
  <2> QED  BY <2>1, <2>2
<1>6. CASE Visit  BY <1>3, <1>4, <1>6 DEF Visit
<1>7. CASE Judge
  <2>1. todo # <<>>  BY <1>7 DEF TypeInv, WalkInv, Judge
  <2>2. todo' = todo \/ todo' = Tail(todo)
    <3> DEFINE verdict == Verdict(Head(todo))
    <3>1. todo' = IF verdict \in {"take", "drop"} THEN Tail(todo) ELSE todo  BY <1>7 DEF Judge
    <3> HIDE DEF verdict
    <3> QED  BY <3>1
  <2> QED  BY <1>3, <1>4, <2>1, <2>2
<1>8. CASE CheckOutput \/ Exclude \/ WalkDone \/ StatNext \/ NameAll \/ ReadNext \/ Create \/ CallFails \/ UNCHANGED vars
  BY <1>3, <1>8 DEF CheckOutput, Exclude, WalkDone, StatNext, NameAll, ReadNext, Create, CallFails, vars
<1>9. CASE Others  BY <1>3, <1>9 DEF Others, Rewrite, Swap
<1> QED  BY <1>5, <1>6, <1>7, <1>8, <1>9 DEF Next, Pack

\* What Judge makes of the first of todo.
LEMMA JudgeOut ==
  ASSUME Judge
  PROVE  LET verdict == Verdict(Head(todo))
         IN  /\ out' = IF verdict = "take" THEN Append(out, Head(todo).path) ELSE out
             /\ stage' = CASE verdict = "refuse" -> "failed" [] verdict = "descend" -> "readdir" [] OTHER -> "walk"
             /\ verdict = "take" => Kind[meta] = "file" /\ ~MatchesExclude(Head(todo).path)
             /\ verdict = "descend" => Kind[meta] = "dir"
             /\ verdict = "refuse" => /\ Head(todo).depth = 0
                                      /\ MatchesExclude(Head(todo).path) \/ Kind[meta] = "other"
<1> DEFINE entry == Head(todo)
           x == MatchesExclude(entry.path)
           verdict == Verdict(entry)
<1>1. CASE x /\ entry.depth = 0
  <2>1. verdict = "refuse"  BY <1>1 DEF Verdict
  <2> QED  BY <1>1, <2>1 DEF Judge, Goto
<1>2. CASE x /\ entry.depth # 0
  <2>1. verdict = "drop"  BY <1>2 DEF Verdict
  <2> QED  BY <2>1 DEF Judge, Goto
<1>3. CASE ~x
  <2> HIDE DEF x
  <2> DEFINE d == Descends(entry.depth)
  <2>1. verdict = CASE Kind[meta] = "file" -> "take"
                    [] Kind[meta] = "dir" /\ d -> "descend"
                    [] Kind[meta] = "other" /\ entry.depth = 0 -> "refuse"
                    [] OTHER -> "drop"
    BY <1>3 DEF Verdict, x
  <2> HIDE DEF d
  <2>2. CASE Kind[meta] = "file"
    <3>1. verdict = "take"  BY <2>1, <2>2
    <3> QED  BY <1>3, <2>2, <3>1 DEF Judge, Goto, x
  <2>3. CASE Kind[meta] = "dir" /\ d
    <3>1. verdict = "descend"  BY <2>1, <2>3
    <3> QED  BY <2>3, <3>1 DEF Judge, Goto
  <2>4. CASE Kind[meta] = "other" /\ entry.depth = 0
    <3>1. verdict = "refuse"  BY <2>1, <2>4
    <3> QED  BY <2>4, <3>1 DEF Judge, Goto
  <2>5. CASE ~(Kind[meta] = "file") /\ ~(Kind[meta] = "dir" /\ d) /\ ~(Kind[meta] = "other" /\ entry.depth = 0)
    <3>1. verdict = "drop"  BY <2>1, <2>5
    <3> QED  BY <3>1 DEF Judge, Goto
  <2> QED  BY <2>2, <2>3, <2>4, <2>5
<1> QED  BY <1>1, <1>2, <1>3

LEMMA NextWalkInv ==
  ASSUME TypeInv, [Next]_vars
  PROVE  WalkInv'
<1> DEFINE Out == out' \in Seq(Paths)
           Meta == meta' \in Places
           Busy == stage' \in {"judge", "readdir"} => todo' # <<>> /\ KindOf(meta') \notin {"link", "none"}
           Dir == stage' = "readdir" => KindOf(meta') = "dir"
<1>1. todo' \in Seq(Entry)  BY TodoStep
<1>2. WalkInv /\ IsTree(tree)  BY DEF TypeInv, TreeInv
<1>3. ASSUME todo # <<>> PROVE Head(todo) \in Entry /\ Head(todo).path \in Paths
  <2>1. Head(todo) \in Entry  BY <1>2, <1>3, HeadAndTail DEF WalkInv
  <2> QED  BY <2>1 DEF Entry
<1>4. CASE Visit
  <2> DEFINE i == LStat(Head(todo).path)
  <2>1. todo # <<>> /\ meta' = i /\ out' = out  BY <1>4 DEF Visit
  <2>2. i \in Places  BY <1>2, <1>3, <2>1, Ends DEF LStat
  <2>3. stage' = CASE i = Missing -> "failed" [] KindOf(i) = "link" -> "walk" [] OTHER -> "judge"
    BY <1>4 DEF Visit, Goto
  <2>4. todo' = IF KindOf(i) = "link" THEN Tail(todo) ELSE todo  BY <1>4 DEF Visit
  <2> HIDE DEF i
  <2>5. i # Missing => KindOf(i) # "none"  BY <2>2, TreeAssumption DEF KindOf, Places, Inodes
  <2>6. /\ stage' \in {"judge", "readdir"} => KindOf(i) # "link" /\ i # Missing
        /\ stage' # "readdir"
    BY <2>3
  <2>7. Out  BY <1>2, <2>1 DEF WalkInv
  <2> QED  BY <1>1, <2>1, <2>2, <2>4, <2>5, <2>6, <2>7 DEF WalkInv
<1>5. CASE Judge
  <2> DEFINE verdict == Verdict(Head(todo))
  <2>1. todo # <<>> /\ meta' = meta /\ KindOf(meta) \notin {"link", "none"} /\ meta \in Places
    <3>1. stage = "judge" /\ meta' = meta  BY <1>5 DEF Judge
    <3> QED  BY <1>2, <3>1 DEF WalkInv
  <2>2. /\ out' = IF verdict = "take" THEN Append(out, Head(todo).path) ELSE out
        /\ stage' = CASE verdict = "refuse" -> "failed" [] verdict = "descend" -> "readdir" [] OTHER -> "walk"
        /\ verdict = "descend" => Kind[meta] = "dir"
    BY <1>5, JudgeOut
  <2>3. todo' = IF verdict \in {"take", "drop"} THEN Tail(todo) ELSE todo  BY <1>5 DEF Judge
  <2> HIDE DEF verdict
  <2>4. Out
    <3>1. out \in Seq(Paths) /\ Head(todo).path \in Paths  BY <1>2, <1>3, <2>1 DEF WalkInv
    <3>2. Append(out, Head(todo).path) \in Seq(Paths)  BY <3>1, AppendProperties
    <3> QED  BY <2>2, <3>1, <3>2
  <2>5. stage' \in {"judge", "readdir"} => verdict = "descend"  BY <2>2
  <2>6. KindOf(meta) = Kind[meta]  BY <2>1, KindTells
  <2> QED  BY <1>1, <2>1, <2>2, <2>3, <2>4, <2>5, <2>6 DEF WalkInv
<1>6. CASE CheckOutput
  <2>1. stage' \in {"failed", "exclude"}  BY <1>6 DEF CheckOutput, Goto
  <2> QED  BY <1>1, <1>2, <1>6, <2>1 DEF WalkInv, CheckOutput
<1>7. CASE ReadDir
  <2>1. stage' \in {"failed", "walk"}  BY <1>7 DEF ReadDir, Goto
  <2> QED  BY <1>1, <1>2, <1>7, <2>1 DEF WalkInv, ReadDir
<1>8. CASE StatNext
  <2>1. stage' \in {"failed", "stat", "name"}  BY <1>8 DEF StatNext, Goto
  <2> QED  BY <1>1, <1>2, <1>8, <2>1 DEF WalkInv, StatNext
<1>9. CASE ReadNext
  <2>1. stage' \in {"failed", "read", "create"}  BY <1>9 DEF ReadNext, Goto
  <2> QED  BY <1>1, <1>2, <1>9, <2>1 DEF WalkInv, ReadNext
<1>10. CASE Create
  <2>1. stage' \in {"failed", "done"}  BY <1>10 DEF Create, Goto
  <2> QED  BY <1>1, <1>2, <1>10, <2>1 DEF WalkInv, Create
<1>11. CASE Exclude \/ WalkDone \/ NameAll \/ CallFails
  <2>1. stage' \in {"walk", "stat", "read", "failed"}  BY <1>11 DEF Exclude, WalkDone, NameAll, CallFails, Goto
  <2> QED  BY <1>1, <1>2, <1>11, <2>1 DEF WalkInv, Exclude, WalkDone, NameAll, CallFails
<1>12. CASE Others \/ UNCHANGED vars
  <2>1. UNCHANGED <<stage, todo, meta, out>>  BY <1>12 DEF Others, Rewrite, Swap, vars
  <2> QED  BY <1>2, <2>1 DEF WalkInv
<1> QED  BY <1>4, <1>5, <1>6, <1>7, <1>8, <1>9, <1>10, <1>11, <1>12 DEF Next, Pack

\* Writes by others only add to a file's version.
LEMMA VersionsGrow ==
  ASSUME TypeInv, [Next]_vars
  PROVE  version' \in [RegularFiles -> Nat] /\ \A i \in RegularFiles : version[i] <= version'[i]
<1>1. version \in [RegularFiles -> Nat]  BY DEF TypeInv, ReadInv
<1>2. CASE \E i \in asked.rewrites : Rewrite(i)
  <2>1. PICK i : version' = [version EXCEPT ![i] = @ + 1]  BY <1>2 DEF Rewrite
  <2>2. version' = [j \in RegularFiles |-> IF j = i THEN version[j] + 1 ELSE version[j]]  BY <1>1, <2>1
  <2>3. \A j \in RegularFiles : version[j] \in Nat  BY <1>1
  <2> QED  BY <2>2, <2>3
<1>3. CASE version' = version  BY <1>1, <1>3
<1>4. CASE \E s \in asked.swaps : Swap(s[1], s[2], s[3])  BY <1>3, <1>4 DEF Swap
<1>5. CASE Pack
  BY <1>3, <1>5 DEF Pack, Keep, fs, CheckOutput, Exclude, Visit, Judge, ReadDir, WalkDone, StatNext, NameAll, ReadNext,
                    Create, CallFails
<1>6. CASE UNCHANGED vars  BY <1>3, <1>6 DEF vars
<1> QED  BY <1>2, <1>4, <1>5, <1>6 DEF Next, Others

\* out only gets longer.
LEMMA OutGrows ==
  ASSUME TypeInv, [Next]_vars
  PROVE  Len(out) \in Nat /\ Len(out') \in Nat /\ Len(out) <= Len(out') /\ \A k \in 1..Len(out) : out'[k] = out[k]
<1>1. out \in Seq(Paths)  BY DEF TypeInv, WalkInv
<1>2. CASE out' = out  BY <1>1, <1>2
<1>3. CASE Judge
  <2>1. out' = out \/ out' = Append(out, Head(todo).path)
    <3> DEFINE verdict == Verdict(Head(todo))
    <3>1. out' = IF verdict = "take" THEN Append(out, Head(todo).path) ELSE out  BY <1>3, JudgeOut
    <3> HIDE DEF verdict
    <3> QED  BY <3>1
  <2>2. todo \in Seq(Entry) /\ todo # <<>>  BY <1>3 DEF TypeInv, WalkInv, Judge
  <2>3. Head(todo) \in Entry  BY <2>2, HeadAndTail
  <2>4. Head(todo).path \in Paths  BY <2>3 DEF Entry
  <2>5. CASE out' = Append(out, Head(todo).path)  BY <1>1, <2>4, <2>5, Appended
  <2> QED  BY <1>2, <2>1, <2>5
<1>4. CASE \/ CheckOutput \/ Exclude \/ Visit \/ ReadDir \/ WalkDone
           \/ StatNext \/ NameAll \/ ReadNext \/ Create \/ CallFails
  BY <1>2, <1>4 DEF CheckOutput, Exclude, Visit, ReadDir, WalkDone, StatNext, NameAll, ReadNext, Create, CallFails
<1>5. CASE Others \/ UNCHANGED vars  BY <1>2, <1>5 DEF Others, Rewrite, Swap, vars
<1> QED  BY <1>3, <1>4, <1>5 DEF Next, Pack

\* Pass 1 goes on or stops.
LEMMA StatStep ==
  ASSUME TypeInv, StatNext
  PROVE  \/ prelim' = prelim /\ stage' \in {"name", "failed"}
         \/ LET path == out[Len(prelim) + 1]
                i == LStat(path)
            IN  /\ Len(prelim) + 1 \in 1..Len(out)
                /\ i \in RegularFiles /\ path \in Paths /\ stage' = stage
                /\ prelim' = Append(prelim, [path |-> path, file |-> i, mtime |-> version[i]])
<1> DEFINE path == out[Len(prelim) + 1]
           i == LStat(path)
           rec == [path |-> path, file |-> i, mtime |-> version[i]]
<1>1. CASE Len(prelim) = Len(out)  BY <1>1 DEF StatNext, Goto
<1>2. CASE Len(prelim) # Len(out)
  <2>1. out \in Seq(Paths) /\ prelim \in Seq(Prelim) /\ Len(prelim) <= Len(out)
    BY DEF TypeInv, WalkInv, ReadInv
  <2>2. Len(prelim) + 1 \in 1..Len(out)  BY <1>2, <2>1
  <2>3. path \in Paths  BY <2>1, <2>2
  <2>4. IF KindOf(i) = "file" /\ Last(path) \notin Unnamed THEN prelim' = Append(prelim, rec) /\ stage' = stage
        ELSE stage' = "failed" /\ prelim' = prelim
    BY <1>2 DEF StatNext, Goto
  <2> DEFINE named == Last(path) \notin Unnamed
  <2> HIDE DEF i, rec, named
  <2>5. CASE KindOf(i) = "file" /\ named
    <3>1. i \in RegularFiles  BY <2>5, KindTells DEF RegularFiles
    <3> QED  BY <2>2, <2>3, <2>4, <2>5, <3>1 DEF rec, i, named
  <2>6. CASE ~(KindOf(i) = "file" /\ named)  BY <2>4, <2>6 DEF named
  <2> QED  BY <2>5, <2>6
<1> QED  BY <1>1, <1>2

LEMMA ReadStep ==
  ASSUME TypeInv, ReadNext
  PROVE  \/ packed' = packed /\ stage' \in {"create", "failed"}
         \/ LET entry == prelim[Len(packed) + 1]
                i == ReadNoFollow(entry.path)
            IN  /\ Len(packed) + 1 \in 1..Len(prelim)
                /\ i \in RegularFiles /\ entry \in Prelim /\ stage' = stage
                /\ packed' = Append(packed, [path |-> entry.path, file |-> i, contents |-> version[i],
                                             same |-> i = entry.file, stamp |-> Stamp(entry.mtime)])
<1> DEFINE entry == prelim[Len(packed) + 1]
           i == ReadNoFollow(entry.path)
           rec == [path |-> entry.path, file |-> i, contents |-> version[i],
                   same |-> i = entry.file, stamp |-> Stamp(entry.mtime)]
<1>1. CASE Len(packed) = Len(prelim)  BY <1>1 DEF ReadNext, Goto
<1>2. CASE Len(packed) # Len(prelim)
  <2>1. packed \in Seq(Packed) /\ prelim \in Seq(Prelim) /\ Len(packed) <= Len(prelim)
    BY DEF TypeInv, ReadInv
  <2>2. Len(packed) + 1 \in 1..Len(prelim)  BY <1>2, <2>1
  <2>3. entry \in Prelim  BY <2>1, <2>2
  <2>4. IF KindOf(i) = "file" THEN packed' = Append(packed, rec) /\ stage' = stage
        ELSE stage' = "failed" /\ packed' = packed
    BY <1>2 DEF ReadNext, Goto
  <2> HIDE DEF i, rec
  <2>5. CASE KindOf(i) = "file"
    <3>1. i \in RegularFiles  BY <2>5, KindTells DEF RegularFiles
    <3> QED  BY <2>2, <2>3, <2>4, <2>5, <3>1 DEF rec, i
  <2>6. CASE KindOf(i) # "file"  BY <2>4, <2>6
  <2> QED  BY <2>5, <2>6
<1> QED  BY <1>1, <1>2

\* What the sort makes of the list.
LEMMA NameStep ==
  ASSUME TypeInv, NameAll
  PROVE  \/ prelim' = prelim /\ stage' = "failed" /\ Len(prelim) > MaxSuffix
         \/ prelim' = prelim /\ stage' = "read" /\ asked.preserve
         \/ /\ stage' = "read" /\ ~asked.preserve
            /\ \E f \in Bijection(1..Len(prelim), 1..Len(prelim)) :
                 /\ prelim' = [k \in 1..Len(prelim) |-> prelim[f[k]]]
                 /\ \A j, k \in 1..Len(prelim) : j < k => ~Precedes(prelim[f[k]].path, prelim[f[j]].path)
<1>1. prelim \in Seq(Prelim)  BY DEF TypeInv, ReadInv
<1>2. Len(prelim) \in Nat /\ \A k \in 1..Len(prelim) : prelim[k].path \in Paths
  <2>1. Len(prelim) \in Nat /\ \A k \in 1..Len(prelim) : prelim[k] \in Prelim  BY <1>1
  <2> QED  BY <2>1 DEF Prelim
<1>3. \/ stage' = "read" /\ prelim' = IF asked.preserve THEN prelim ELSE Arranged(prelim)
      \/ Len(prelim) > MaxSuffix /\ stage' = "failed" /\ prelim' = prelim
  BY DEF NameAll, Goto
<1>4. CASE stage' = "read" /\ ~asked.preserve /\ prelim' = Arranged(prelim)
  BY <1>2, <1>4, ArrangedInOrder
<1> QED  BY <1>3, <1>4

\* The reads begin behind the sort.
LEMMA NotYetBefore ==
  ASSUME TypeInv, [Next]_vars
  PROVE  asked' = asked /\ (stage' \in NotYet => stage \in NotYet)
<1>1. CASE CheckOutput \/ Exclude \/ Visit \/ Judge \/ ReadDir \/ WalkDone \/ StatNext \/ NameAll
  BY <1>1 DEF CheckOutput, Exclude, Visit, Judge, ReadDir, WalkDone, StatNext, NameAll, Keep, NotYet
<1>2. CASE ReadNext
  <2>1. stage' \in {"read", "create", "failed"} /\ asked' = asked  BY <1>2 DEF ReadNext, Keep, Goto
  <2> QED  BY <2>1 DEF NotYet
<1>3. CASE Create
  <2>1. stage' \in {"done", "failed"} /\ asked' = asked  BY <1>3 DEF Create, Keep, Goto
  <2> QED  BY <2>1 DEF NotYet
<1>4. CASE CallFails
  <2>1. stage' = "failed" /\ asked' = asked  BY <1>4 DEF CallFails, Goto
  <2> QED  BY <2>1 DEF NotYet
<1>5. CASE Others \/ UNCHANGED vars  BY <1>5 DEF Others, Rewrite, Swap, vars
<1> QED  BY <1>1, <1>2, <1>3, <1>4, <1>5 DEF Next, Pack

LEMMA NextReadInv ==
  ASSUME TypeInv, [Next]_vars
  PROVE  ReadInv'
<1>1. version \in [RegularFiles -> Nat] /\ prelim \in Seq(Prelim) /\ packed \in Seq(Packed)
  BY DEF TypeInv, ReadInv
<1>2. Len(packed) \in Nat /\ Len(prelim) \in Nat /\ Len(packed) <= Len(prelim) /\ Len(prelim) <= Len(out)
  BY <1>1 DEF TypeInv, ReadInv
<1> DEFINE Found(list, o) == \A k \in 1..Len(list) : \E j \in 1..Len(o) : list[k].path = o[j]
           Same(list, o) == \A k \in 1..Len(list) : list[k].path = o[k]
<1>3. /\ Found(prelim, out) /\ \A k \in 1..Len(prelim) : prelim[k].mtime <= version[prelim[k].file]
      /\ stage \in NotYet => packed = <<>>
      /\ stage \in NotYet \/ asked.preserve => Same(prelim, out)
      /\ \A k \in 1..Len(packed) : /\ packed[k].path = prelim[k].path
                                   /\ packed[k].contents <= version[packed[k].file]
                                   /\ packed[k].same => packed[k].stamp <= packed[k].contents
  BY DEF TypeInv, ReadInv
<1>4. version' \in [RegularFiles -> Nat] /\ \A i \in RegularFiles : version[i] <= version'[i]  BY VersionsGrow
<1>5. Len(out) \in Nat /\ Len(out') \in Nat /\ Len(out) <= Len(out') /\ \A k \in 1..Len(out) : out'[k] = out[k]
  BY OutGrows
<1>6. asked' = asked /\ (stage' \in NotYet => stage \in NotYet)  BY NotYetBefore
<1>7. \A k \in 1..Len(prelim) : prelim[k].mtime <= version'[prelim[k].file]
  <2> TAKE k \in 1..Len(prelim)
  <2>1. prelim[k] \in Prelim  BY <1>1, <1>2, <1>5
  <2>2. prelim[k].file \in RegularFiles /\ prelim[k].mtime \in Nat  BY <2>1 DEF Prelim
  <2>3. version[prelim[k].file] \in Nat /\ version'[prelim[k].file] \in Nat  BY <1>1, <1>4, <2>2
  <2> QED  BY <1>3, <1>4, <2>2, <2>3
<1>8. Found(prelim, out') /\ (stage' \in NotYet \/ asked'.preserve => Same(prelim, out'))
  <2>1. \A k \in 1..Len(out) : k \in 1..Len(out') /\ out'[k] = out[k]  BY <1>5
  <2>2. \A k \in 1..Len(prelim) : k \in 1..Len(out)  BY <1>2, <1>5
  <2> QED  BY <1>3, <1>6, <2>1, <2>2
<1>9. \A k \in 1..Len(packed) : packed[k].contents <= version'[packed[k].file]
  <2> TAKE k \in 1..Len(packed)
  <2>1. packed[k] \in Packed  BY <1>1
  <2>2. packed[k].file \in RegularFiles /\ packed[k].contents \in Nat  BY <2>1 DEF Packed
  <2>3. version[packed[k].file] \in Nat /\ version'[packed[k].file] \in Nat  BY <1>1, <1>4, <2>2
  <2> QED  BY <1>3, <1>4, <2>2, <2>3
<1>10. CASE prelim' = prelim /\ packed' = packed
  <2>1. Len(prelim) <= Len(out')  BY <1>2, <1>5
  <2> QED  BY <1>1, <1>2, <1>3, <1>4, <1>7, <1>9, <1>10, <1>6, <1>8, <2>1 DEF ReadInv
<1>11. CASE StatNext
  <2>1. out' = out /\ version' = version /\ packed' = packed /\ stage = "stat"  BY <1>11 DEF StatNext, Keep, fs
  <2> DEFINE path == out[Len(prelim) + 1]
             i == LStat(path)
             rec == [path |-> path, file |-> i, mtime |-> version[i]]
  <2>2. CASE prelim' = prelim  BY <1>10, <2>1, <2>2
  <2>3. CASE /\ Len(prelim) + 1 \in 1..Len(out) /\ i \in RegularFiles /\ path \in Paths
             /\ prelim' = Append(prelim, rec)
    <3>1. rec \in Prelim /\ rec.path = path /\ rec.file = i /\ rec.mtime = version[i] /\ version[i] \in Nat
      BY <1>1, <2>3 DEF Prelim
    <3>2. rec.path = out[Len(prelim) + 1] /\ rec.mtime <= version[rec.file]
      <4> HIDE DEF i, rec
      <4> QED  BY <3>1
    <3> HIDE DEF rec, path
    <3>3. /\ prelim' \in Seq(Prelim) /\ Len(prelim') = Len(prelim) + 1
          /\ \A k \in 1..Len(prelim) : prelim'[k] = prelim[k]
          /\ prelim'[Len(prelim) + 1] = rec
          /\ \A k \in 1..Len(prelim') : k \in 1..Len(prelim) \/ k = Len(prelim) + 1
      BY <1>1, <2>3, <3>1, Appended
    <3>4. \A k \in 1..Len(prelim') : prelim'[k].path = out[k] /\ prelim'[k].mtime <= version[prelim'[k].file]
      <4>1. packed = <<>> /\ Same(prelim, out)  BY <1>3, <2>1 DEF NotYet
      <4> QED  BY <1>3, <3>2, <3>3, <4>1
    <3>5. packed' = <<>> /\ \A k \in 1..Len(prelim') : k \in 1..Len(out')
      <4>1. packed = <<>>  BY <1>3, <2>1 DEF NotYet
      <4> QED  BY <2>1, <2>3, <3>3, <4>1, <1>2
    <3>6. Len(prelim') <= Len(out') /\ Len(packed') <= Len(prelim')  BY <1>2, <1>5, <2>1, <2>3, <3>3
    <3>7. \A k \in 1..Len(packed') : packed'[k].path = prelim'[k].path
      <4>1. \A k \in 1..Len(packed) : k \in 1..Len(prelim)  BY <1>2
      <4> QED  BY <1>3, <2>1, <3>3, <4>1
    <3> QED  BY <1>1, <1>3, <1>4, <2>1, <3>3, <3>4, <3>6, <3>7, <3>5 DEF ReadInv
  <2> QED  BY <1>11, <2>2, <2>3, StatStep
<1>12. CASE ReadNext
  <2>1. out' = out /\ version' = version /\ prelim' = prelim /\ stage = "read"  BY <1>12 DEF ReadNext, Keep, fs
  <2> DEFINE entry == prelim[Len(packed) + 1]
             i == ReadNoFollow(entry.path)
             rec == [path |-> entry.path, file |-> i, contents |-> version[i],
                     same |-> i = entry.file, stamp |-> Stamp(entry.mtime)]
  <2>2. CASE packed' = packed  BY <1>10, <2>1, <2>2
  <2>3. CASE /\ Len(packed) + 1 \in 1..Len(prelim) /\ i \in RegularFiles /\ entry \in Prelim
             /\ packed' = Append(packed, rec)
    <3>1. /\ rec.path = entry.path /\ rec.file = i /\ rec.contents = version[i] /\ version[i] \in Nat
          /\ rec.same = (i = entry.file) /\ rec.stamp = Stamp(entry.mtime)
      BY <1>1, <2>3
    <3>2. entry.mtime \in Nat /\ entry.path \in Paths /\ entry.mtime <= version[entry.file]
      BY <1>3, <2>3 DEF Prelim
    <3>3. Stamp(entry.mtime) \in Nat /\ Stamp(entry.mtime) <= entry.mtime  BY <3>2 DEF Stamp
    <3>4. rec \in Packed
      <4> DEFINE at == Stamp(entry.mtime)
      <4> HIDE DEF at
      <4>1. at \in Nat  BY <3>3 DEF at
      <4> QED  BY <2>3, <3>1, <3>2, <4>1 DEF Packed, at
    <3>5. rec.contents <= version[rec.file] /\ (rec.same => rec.stamp <= rec.contents)
      <4> HIDE DEF i, rec, entry
      <4>1. rec.contents = version[rec.file] /\ rec.contents \in Nat  BY <3>1
      <4>2. ASSUME rec.same PROVE rec.stamp <= rec.contents
        <5>1. i = entry.file  BY <3>1, <4>2
        <5>2. version[entry.file] \in Nat  BY <3>1, <5>1
        <5> QED  BY <3>1, <3>2, <3>3, <5>1, <5>2
      <4> QED  BY <4>1, <4>2
    <3> HIDE DEF rec
    <3>6. /\ packed' \in Seq(Packed) /\ Len(packed') = Len(packed) + 1
          /\ \A k \in 1..Len(packed) : packed'[k] = packed[k]
          /\ packed'[Len(packed) + 1] = rec
          /\ \A k \in 1..Len(packed') : k \in 1..Len(packed) \/ k = Len(packed) + 1
      BY <1>1, <2>3, <3>4, Appended
    <3>7. Len(packed') <= Len(prelim')  BY <1>2, <2>1, <2>3, <3>6
    <3>8. \A k \in 1..Len(packed') : /\ packed'[k].path = prelim[k].path
                                     /\ packed'[k].contents <= version[packed'[k].file]
                                     /\ packed'[k].same => packed'[k].stamp <= packed'[k].contents
      BY <1>3, <3>1, <3>5, <3>6
    <3>9. stage' \notin NotYet  BY <1>6, <2>1 DEF NotYet
    <3> QED  BY <1>1, <1>2, <1>3, <1>4, <1>8, <2>1, <3>6, <3>7, <3>8, <3>9 DEF ReadInv
  <2> QED  BY <1>12, <2>2, <2>3, ReadStep
<1>13. CASE CheckOutput \/ Exclude \/ Visit \/ Judge \/ ReadDir \/ WalkDone \/ Create \/ CallFails
  BY <1>10, <1>13 DEF CheckOutput, Exclude, Visit, Judge, ReadDir, WalkDone, Create, CallFails
<1>14. CASE Others \/ UNCHANGED vars  BY <1>10, <1>14 DEF Others, Rewrite, Swap, vars
<1>15. CASE NameAll
  <2>1. out' = out /\ version' = version /\ packed' = packed /\ stage = "name"  BY <1>15 DEF NameAll, Keep, fs
  <2>2. packed = <<>>  BY <1>3, <2>1 DEF NotYet
  <2>3. CASE prelim' = prelim  BY <1>10, <2>1, <2>3
  <2>4. CASE /\ stage' = "read" /\ ~asked.preserve
             /\ \E f \in Bijection(1..Len(prelim), 1..Len(prelim)) : prelim' = [k \in 1..Len(prelim) |-> prelim[f[k]]]
    <3>1. PICK f \in Bijection(1..Len(prelim), 1..Len(prelim)) : prelim' = [k \in 1..Len(prelim) |-> prelim[f[k]]]
      BY <2>4
    <3>2. \A k \in 1..Len(prelim) : f[k] \in 1..Len(prelim)  BY <3>1 DEF Bijection, Injection
    <3>3. prelim' \in Seq(Prelim) /\ Len(prelim') = Len(prelim) /\ \A k \in 1..Len(prelim) : prelim'[k] = prelim[f[k]]
      <4>1. \A k \in 1..Len(prelim) : prelim[f[k]] \in Prelim  BY <1>1, <3>2
      <4> QED  BY <1>2, <3>1, <4>1
    <3>4. Found(prelim', out')  BY <1>3, <2>1, <3>2, <3>3
    <3>5. \A k \in 1..Len(prelim') : prelim'[k].mtime <= version'[prelim'[k].file]
      <4>1. \A k \in 1..Len(prelim) : prelim[k].mtime <= version[prelim[k].file]  BY <1>3
      <4>2. ASSUME NEW k \in 1..Len(prelim) PROVE prelim'[k].mtime <= version'[prelim'[k].file]
        <5>1. prelim[f[k]].mtime <= version[prelim[f[k]].file]  BY <3>2, <4>1
        <5>2. prelim'[k] = prelim[f[k]]  BY <3>3
        <5> QED  BY <2>1, <5>1, <5>2
      <4> QED  BY <3>3, <4>2
    <3>6. stage' \notin NotYet /\ ~asked'.preserve  BY <1>6, <2>4 DEF NotYet
    <3>7. Len(packed') = 0 /\ Len(packed') <= Len(prelim') /\ Len(prelim') <= Len(out') /\ packed' \in Seq(Packed)
      BY <1>1, <1>2, <2>1, <2>2, <3>3
    <3>8. \A k \in 1..Len(packed') : FALSE  BY <3>7
    <3> QED  BY <1>4, <3>3, <3>4, <3>5, <3>6, <3>7, <3>8 DEF ReadInv
  <2> QED  BY <1>15, <2>3, <2>4, NameStep
<1> QED  BY <1>11, <1>12, <1>13, <1>14, <1>15 DEF Next, Pack

THEOREM TypeCorrect == Spec => []TypeInv
<1>1. TypeInv /\ [Next]_vars => TypeInv'
  <2> SUFFICES ASSUME TypeInv, [Next]_vars PROVE TypeInv'  OBVIOUS
  <2>1. TreeInv'  BY NextTreeInv DEF TypeInv
  <2> QED  BY <2>1, NextWalkInv, NextReadInv DEF TypeInv
<1> QED  BY InitTypeInv, <1>1, PTL DEF Spec

\* In no run is the time stored with an entry later than its contents, and it is theirs
\* unless someone wrote to the file.
THEOREM StampIsNeverLater == Spec => []StampNotLater
<1>1. TypeInv => StampNotLater
  <2> SUFFICES ASSUME TypeInv, NEW k \in 1..Len(packed), packed[k].same
               PROVE  /\ packed[k].stamp <= packed[k].contents
                      /\ version[packed[k].file] = 0 => packed[k].stamp = packed[k].contents
    BY DEF StampNotLater
  <2>1. packed[k] \in Packed  BY DEF TypeInv, ReadInv
  <2>2. packed[k].stamp \in Nat /\ packed[k].contents \in Nat  BY <2>1 DEF Packed
  <2>3. packed[k].stamp <= packed[k].contents /\ packed[k].contents <= version[packed[k].file]
    BY DEF TypeInv, ReadInv
  <2> QED  BY <2>2, <2>3
<1> QED  BY TypeCorrect, <1>1, PTL

----------------------------------------------------------------------------
(* When nobody moves files.  The tree is the one of the start, and all that *)
(* the walk finds out about it stays true.                                  *)

ExcludeOf(a) == IF StatIn(Tree, a.output) = Missing THEN NoPath ELSE CanonIn(Tree, a.output)

\* SameAsOutput, and the reasons to give up, for a scenario and the tree of the start.
IsOutput(a, path, i) ==
  /\ StatIn(Tree, a.output) # Missing
  /\ IF a.system = "windows" THEN path = CanonIn(Tree, a.output) ELSE i = StatIn(Tree, a.output)
BadInput(a, path) ==
  \/ KindOf(LStatIn(Tree, path)) \in {"none", "other"}
  \/ IsOutput(a, CanonIn(Tree, path), LStatIn(Tree, path))
Reason(a) ==
  \/ KindOf(LStatIn(Tree, a.output)) \notin {"file", "none"}
  \/ KindOf(StatIn(Tree, Front(a.output))) # "dir"
  \/ \E k \in 1..Len(a.inputs) : BadInput(a, a.inputs[k])

OutputIsNoLink == stage \notin {"output", "failed"} => KindOf(LStatIn(Tree, asked.output)) # "link"
ExcludeIsOutput == stage \notin {"output", "exclude", "failed"} => exclude = ExcludeOf(asked)
MetaIsTrue == stage \in {"judge", "readdir"} => meta = LStatIn(Tree, Head(todo).path)
IsThere(a, e) ==
  /\ e.depth = 0 => \E j \in 1..Len(a.inputs) : e.path = a.inputs[j]
  /\ e.depth # 0 => LStatIn(Tree, e.path) # Missing
TodoIsThere == \A k \in 1..Len(todo) : IsThere(asked, todo[k])
Taken(a, path) ==
  /\ KindOf(LStatIn(Tree, path)) = "file"
  /\ ~IsOutput(a, CanonIn(Tree, path), LStatIn(Tree, path))
OutIsTaken == \A k \in 1..Len(out) : Taken(asked, out[k])
PackedIsNamed == \A k \in 1..Len(packed) : packed[k].file = LStatIn(Tree, packed[k].path)
ClobberedIsOutput == clobbered # Missing => clobbered = StatIn(Tree, asked.output)

QuietParts ==
  /\ OutputIsNoLink /\ ExcludeIsOutput /\ MetaIsTrue /\ TodoIsThere /\ OutIsTaken
  /\ PackedIsNamed /\ ClobberedIsOutput

QuietInv == swapped = {} => QuietParts

\* The excluded path finds the output under any name, and nothing else.
LEMMA ExcludeFindsTheOutput ==
  ASSUME asked \in Scenarios, tree = Tree, KindOf(LStatIn(Tree, asked.output)) # "link",
         exclude = ExcludeOf(asked),
         NEW path \in Paths, KindOf(LStatIn(Tree, path)) \notin {"link", "none"}
  PROVE  MatchesExclude(path) <=> IsOutput(asked, CanonIn(Tree, path), LStatIn(Tree, path))
<1> DEFINE o == asked.output
           c == CanonIn(Tree, o)
           s == StatIn(Tree, o)
           d == CanonIn(Tree, path)
           i == LStatIn(Tree, path)
<1>1. o \in Paths  BY ScenariosAssumption
<1>2. c \in Paths /\ LStatIn(Tree, c) = LStatIn(Tree, o) /\ LStatIn(Tree, o) = s
  BY <1>1, RealOfNoLink, Ends, StartIsTree
<1>3. StatIn(Tree, path) = i  BY Ends, StartIsTree
<1>4. i # Missing  BY KindTells
<1>5. MatchesExclude(path) <=> /\ exclude # NoPath
                               /\ \/ ~(asked.system = "windows") /\ i # Missing /\ i = LStatIn(Tree, exclude)
                                  \/ StatIn(Tree, path) # Missing /\ d = exclude
  BY DEF MatchesExclude, OnWindows, LStat, Stat, Canon
<1>6. d = c => i = s  BY <1>3 DEF StatIn
<1>7. IsOutput(asked, d, i) <=> /\ s # Missing
                                /\ IF asked.system = "windows" THEN d = c ELSE i = s
  BY DEF IsOutput
<1>8. exclude = IF s = Missing THEN NoPath ELSE c  BY DEF ExcludeOf
<1>9. c # NoPath  BY <1>2 DEF Paths
<1> HIDE DEF c, s, d, i
<1>10. MatchesExclude(path) <=> IsOutput(asked, d, i)
  <2>1. CASE s = Missing  BY <1>5, <1>7, <1>8, <2>1
  <2>2. CASE s # Missing
    <3>1. exclude = c  BY <1>8, <2>2
    <3>2. LStatIn(Tree, exclude) = s  BY <1>2, <3>1
    <3> QED  BY <1>3, <1>4, <1>5, <1>6, <1>7, <1>9, <2>2, <3>1, <3>2
  <2> QED  BY <2>1, <2>2
<1> QED  BY <1>10 DEF d, i

LEMMA QuietInit == Init => QuietInv
<1> SUFFICES ASSUME Init PROVE QuietParts  BY DEF QuietInv
<1>1. asked.inputs \in Seq(Paths)  BY ScenariosAssumption DEF Init
<1>2. TodoIsThere
  <2> DEFINE n == Len(asked.inputs)
  <2>1. n \in Nat /\ todo = [k \in 1..n |-> Top(asked.inputs[k])]  BY <1>1 DEF Init
  <2> HIDE DEF n
  <2>2. Len(todo) = n /\ \A k \in 1..n : todo[k] = Top(asked.inputs[k])  BY <2>1
  <2>3. \A k \in 1..n : IsThere(asked, Top(asked.inputs[k]))  BY DEF IsThere, Top, n
  <2> QED  BY <2>2, <2>3 DEF TodoIsThere
<1>3. OutIsTaken /\ PackedIsNamed  BY DEF Init, OutIsTaken, PackedIsNamed
<1>4. OutputIsNoLink /\ ExcludeIsOutput /\ MetaIsTrue /\ ClobberedIsOutput
  BY DEF Init, OutputIsNoLink, ExcludeIsOutput, MetaIsTrue, ClobberedIsOutput
<1> QED  BY <1>2, <1>3, <1>4 DEF QuietParts

\* The head of what is to be visited.
LEMMA FirstTodo ==
  ASSUME TypeInv, todo # <<>>
  PROVE  Head(todo) \in Entry /\ Head(todo).path \in Paths /\ Head(todo).depth \in Nat
         /\ Head(todo) = todo[1] /\ 1 \in 1..Len(todo)
<1>1. Head(todo) \in Entry /\ Head(todo) = todo[1] /\ 1 \in 1..Len(todo)
  BY HeadAndTail DEF TypeInv, WalkInv
<1> QED  BY <1>1 DEF Entry

\* What Judge knows.
LEMMA JudgeKnows ==
  ASSUME TypeInv, QuietParts, tree = Tree, Judge
  PROVE  /\ todo # <<>> /\ meta = LStatIn(Tree, Head(todo).path) /\ KindOf(meta) = Kind[meta]
         /\ MatchesExclude(Head(todo).path) <=>
              IsOutput(asked, CanonIn(Tree, Head(todo).path), LStatIn(Tree, Head(todo).path))
<1>1. stage = "judge"  BY DEF Judge
<1>2. todo # <<>> /\ KindOf(meta) \notin {"link", "none"} /\ asked \in Scenarios
  BY <1>1 DEF TypeInv, WalkInv, TreeInv
<1>3. meta = LStatIn(Tree, Head(todo).path)  BY <1>1 DEF QuietParts, MetaIsTrue
<1>4. KindOf(LStatIn(Tree, asked.output)) # "link" /\ exclude = ExcludeOf(asked)
  BY <1>1 DEF QuietParts, OutputIsNoLink, ExcludeIsOutput
<1>5. Head(todo).path \in Paths  BY <1>2, FirstTodo
<1>6. MatchesExclude(Head(todo).path) <=>
        IsOutput(asked, CanonIn(Tree, Head(todo).path), LStatIn(Tree, Head(todo).path))
  BY <1>2, <1>3, <1>4, <1>5, ExcludeFindsTheOutput
<1> QED  BY <1>2, <1>3, <1>6, KindTells

LEMMA QuietTodo ==
  ASSUME TypeInv, QuietParts, tree = Tree, Pack, asked' = asked
  PROVE  TodoIsThere'
<1> SUFFICES ASSUME NEW k \in 1..Len(todo') PROVE IsThere(asked, todo'[k])
  BY DEF TodoIsThere
<1>1. StillOrListed(todo'[k])  BY TodoStep DEF Next
<1>2. CASE \E j \in 1..Len(todo) : todo'[k] = todo[j]  BY <1>2 DEF QuietParts, TodoIsThere
<1>3. CASE /\ ReadDir /\ todo # <<>>
           /\ KindOf(Stat(Head(todo).path)) = "dir"
           /\ \E n \in DOMAIN tree[Stat(Head(todo).path)] :
                n \in Nat /\ todo'[k] = [path |-> Append(Head(todo).path, n), depth |-> Head(todo).depth + 1]
  <2> DEFINE p == Head(todo).path
             i == StatIn(Tree, p)
  <2>1. Stat(p) = i  BY DEF Stat
  <2>2. PICK n \in DOMAIN Tree[i] :
          n \in Nat /\ todo'[k] = [path |-> Append(p, n), depth |-> Head(todo).depth + 1]
    BY <1>3, <2>1
  <2>3. p \in Seq(Nat) /\ Head(todo).depth \in Nat  BY <1>3, FirstTodo DEF Paths
  <2>4. KindOf(i) = "dir"  BY <1>3, <2>1
  <2> DEFINE e == todo'[k]
  <2>5. e.path = Append(p, n) /\ e.depth = Head(todo).depth + 1  BY <2>2
  <2> HIDE DEF p, i, e
  <2>6. LStatIn(Tree, Append(p, n)) = Hop(Tree, StatIn(Tree, p), n)  BY <2>2, <2>3, Looks, StartIsTree
  <2>7. Hop(Tree, i, n) = Tree[i][n]  BY <2>2, <2>4 DEF Hop
  <2>8. Tree[i][n] \in Inodes  BY <2>2, <2>4, KindTells, StartIsTree DEF IsTree
  <2>9. LStatIn(Tree, Append(p, n)) # Missing  BY <2>6, <2>7, <2>8, TreeAssumption DEF i
  <2>10. IsThere(asked, e)  BY <2>3, <2>5, <2>9 DEF IsThere
  <2> QED  BY <2>10 DEF e
<1> QED  BY <1>1, <1>2, <1>3 DEF StillOrListed

LEMMA QuietOut ==
  ASSUME TypeInv, QuietParts, tree = Tree, Pack, asked' = asked
  PROVE  OutIsTaken'
<1> SUFFICES ASSUME NEW k \in 1..Len(out') PROVE Taken(asked, out'[k])
  BY DEF OutIsTaken
<1>1. OutIsTaken /\ out \in Seq(Paths)  BY DEF QuietParts, TypeInv, WalkInv
<1>2. CASE out' = out  BY <1>1, <1>2 DEF OutIsTaken
<1>3. CASE Judge
  <2> DEFINE p == Head(todo).path
             verdict == Verdict(Head(todo))
  <2>1. /\ out' = IF verdict = "take" THEN Append(out, p) ELSE out
        /\ verdict = "take" => Kind[meta] = "file" /\ ~MatchesExclude(p)
    BY <1>3, JudgeOut
  <2>2. /\ todo # <<>> /\ meta = LStatIn(Tree, p) /\ KindOf(meta) = Kind[meta]
        /\ MatchesExclude(p) <=> IsOutput(asked, CanonIn(Tree, p), LStatIn(Tree, p))
    BY <1>3, JudgeKnows
  <2>3. p \in Paths  BY <2>2, FirstTodo
  <2> HIDE DEF p, verdict
  <2>4. CASE verdict = "take"
    <3>1. Taken(asked, p)  BY <2>1, <2>2, <2>4 DEF Taken
    <3>2. /\ \A j \in 1..Len(out) : Append(out, p)[j] = out[j]
          /\ Append(out, p)[Len(out) + 1] = p
          /\ k \in 1..Len(out) \/ k = Len(out) + 1
      BY <1>1, <2>1, <2>3, <2>4, Appended
    <3> QED  BY <1>1, <2>1, <2>4, <3>1, <3>2 DEF OutIsTaken
  <2>5. CASE verdict # "take"  BY <1>2, <2>1, <2>5
  <2> QED  BY <2>4, <2>5
<1>4. CASE \/ CheckOutput \/ Exclude \/ Visit \/ ReadDir \/ WalkDone
           \/ StatNext \/ NameAll \/ ReadNext \/ Create \/ CallFails
  BY <1>2, <1>4 DEF CheckOutput, Exclude, Visit, ReadDir, WalkDone, StatNext, NameAll, ReadNext, Create, CallFails
<1> QED  BY <1>3, <1>4 DEF Pack

\* The paths that pass 1 and the reads see are files of the start.
LEMMA QuietPath ==
  ASSUME TypeInv, QuietParts, tree = Tree, NEW k \in 1..Len(out)
  PROVE  /\ out[k] \in Paths /\ LStat(out[k]) = LStatIn(Tree, out[k]) /\ Stat(out[k]) = LStatIn(Tree, out[k])
         /\ KindOf(LStatIn(Tree, out[k])) = "file" /\ ReadNoFollow(out[k]) = LStatIn(Tree, out[k])
<1>1. out[k] \in Paths  BY DEF TypeInv, WalkInv
<1>2. KindOf(LStatIn(Tree, out[k])) = "file"  BY DEF QuietParts, OutIsTaken, Taken
<1>3. StatIn(Tree, out[k]) = LStatIn(Tree, out[k])  BY <1>1, <1>2, Ends, StartIsTree
<1> QED  BY <1>1, <1>2, <1>3 DEF LStat, Stat, ReadNoFollow

LEMMA QuietPacked ==
  ASSUME TypeInv, QuietParts, tree = Tree, Pack, asked' = asked
  PROVE  PackedIsNamed'
<1>1. PackedIsNamed /\ packed \in Seq(Packed)  BY DEF QuietParts, TypeInv, ReadInv
<1>2. CASE packed' = packed  BY <1>1, <1>2 DEF PackedIsNamed
<1>3. CASE ReadNext
  <2> DEFINE entry == prelim[Len(packed) + 1]
             i == ReadNoFollow(entry.path)
             rec == [path |-> entry.path, file |-> i, contents |-> version[i],
                     same |-> i = entry.file, stamp |-> Stamp(entry.mtime)]
  <2>1. CASE /\ Len(packed) + 1 \in 1..Len(prelim) /\ i \in RegularFiles /\ entry \in Prelim
             /\ packed' = Append(packed, rec)
    <3>1. \E j \in 1..Len(out) : entry.path = out[j]  BY <2>1 DEF TypeInv, ReadInv
    <3>2. i = LStatIn(Tree, entry.path)  BY <3>1, QuietPath
    <3>3. rec \in Packed
      <4> DEFINE at == Stamp(entry.mtime)
      <4>1. entry.path \in Paths /\ at \in Nat  BY <2>1 DEF Prelim, Stamp
      <4>2. version[i] \in Nat  BY <2>1 DEF TypeInv, ReadInv
      <4> HIDE DEF i, entry, at
      <4> QED  BY <2>1, <4>1, <4>2 DEF Packed, at
    <3>4. rec.path = entry.path /\ rec.file = i  OBVIOUS
    <3>5. packed' = Append(packed, rec)  BY <2>1
    <3> HIDE DEF rec, entry, i
    <3>6. /\ Len(packed') = Len(packed) + 1
          /\ \A k \in 1..Len(packed) : packed'[k] = packed[k]
          /\ packed'[Len(packed) + 1] = rec
          /\ \A k \in 1..Len(packed') : k \in 1..Len(packed) \/ k = Len(packed) + 1
      BY <1>1, <3>3, <3>5, Appended
    <3>7. \A k \in 1..Len(packed') : packed'[k].file = LStatIn(Tree, packed'[k].path)
      BY <1>1, <3>2, <3>4, <3>6 DEF PackedIsNamed
    <3> QED  BY <3>7 DEF PackedIsNamed
  <2> QED  BY <1>2, <1>3, <2>1, ReadStep
<1>4. CASE \/ CheckOutput \/ Exclude \/ Visit \/ Judge \/ ReadDir \/ WalkDone
           \/ StatNext \/ NameAll \/ Create \/ CallFails
  BY <1>2, <1>4 DEF CheckOutput, Exclude, Visit, Judge, ReadDir, WalkDone, StatNext, NameAll, Create, CallFails
<1> QED  BY <1>3, <1>4 DEF Pack

\* The checks before the walk, the kinds that the walk sees, and the creation.
LEMMA QuietChecks ==
  ASSUME TypeInv, QuietParts, tree = Tree, Pack, asked' = asked
  PROVE  OutputIsNoLink' /\ ExcludeIsOutput' /\ MetaIsTrue' /\ ClobberedIsOutput'
<1> DEFINE o == asked.output
           NoLink == KindOf(LStatIn(Tree, o)) # "link"
           Early == {"output", "failed"}
           Known == {"output", "exclude", "failed"}
           Looked == {"judge", "readdir"}
<1>1. /\ stage \notin Early => NoLink
      /\ stage \notin Known => exclude = ExcludeOf(asked)
      /\ stage \in Looked => meta = LStatIn(Tree, Head(todo).path)
      /\ clobbered # Missing => clobbered = StatIn(Tree, o)
  BY DEF QuietParts, OutputIsNoLink, ExcludeIsOutput, MetaIsTrue, ClobberedIsOutput
<1>2. SUFFICES /\ stage' \notin Early => NoLink
               /\ stage' \notin Known => exclude' = ExcludeOf(asked)
               /\ stage' \in Looked => meta' = LStatIn(Tree, Head(todo').path)
               /\ clobbered' # Missing => clobbered' = StatIn(Tree, o)
  BY DEF OutputIsNoLink, ExcludeIsOutput, MetaIsTrue, ClobberedIsOutput
<1> HIDE DEF NoLink, o
<1>3. CASE CheckOutput
  <2>1. LStat(asked.output) = LStatIn(Tree, asked.output)  BY DEF LStat
  <2>2. stage' = (IF ~NoLink THEN "failed" ELSE "exclude") /\ clobbered' = clobbered
    BY <1>3, <2>1 DEF CheckOutput, Goto, NoLink, o
  <2> QED  BY <1>1, <2>2
<1>4. CASE Exclude
  <2>1. stage = "exclude" /\ stage' = "walk" /\ clobbered' = clobbered  BY <1>4 DEF Exclude, Goto
  <2>2. exclude' = ExcludeOf(asked)  BY <1>4 DEF Exclude, ExcludeOf, Stat, Canon
  <2> QED  BY <1>1, <2>1, <2>2
<1>5. CASE Visit
  <2> DEFINE i == LStat(Head(todo).path)
  <2>1. /\ stage = "walk" /\ meta' = i /\ exclude' = exclude /\ clobbered' = clobbered
        /\ stage' = CASE i = Missing -> "failed" [] KindOf(i) = "link" -> "walk" [] OTHER -> "judge"
        /\ todo' = IF KindOf(i) = "link" THEN Tail(todo) ELSE todo
    BY <1>5 DEF Visit, Goto
  <2>2. i = LStatIn(Tree, Head(todo).path)  BY DEF LStat
  <2> HIDE DEF i
  <2>3. stage' \in {"failed", "walk", "judge"}  BY <2>1
  <2>4. stage' = "judge" => KindOf(i) # "link"  BY <2>1
  <2> QED  BY <1>1, <2>1, <2>2, <2>3, <2>4
<1>6. CASE Judge
  <2> DEFINE verdict == Verdict(Head(todo))
  <2>1. stage = "judge" /\ meta' = meta /\ exclude' = exclude /\ clobbered' = clobbered  BY <1>6 DEF Judge
  <2>2. stage' = CASE verdict = "refuse" -> "failed" [] verdict = "descend" -> "readdir" [] OTHER -> "walk"
    BY <1>6, JudgeOut
  <2>3. todo' = IF verdict \in {"take", "drop"} THEN Tail(todo) ELSE todo  BY <1>6 DEF Judge
  <2> HIDE DEF verdict
  <2>4. stage' \in Looked => verdict = "descend"  BY <2>2
  <2>5. stage' \in Looked => todo' = todo  BY <2>3, <2>4
  <2> QED  BY <1>1, <2>1, <2>5
<1>7. CASE ReadDir
  <2>1. /\ stage = "readdir" /\ stage' \in {"failed", "walk"}
        /\ exclude' = exclude /\ clobbered' = clobbered
    BY <1>7 DEF ReadDir, Goto
  <2> QED  BY <1>1, <2>1
<1>8. CASE WalkDone
  <2>1. stage = "walk" /\ stage' \in {"failed", "stat"} /\ exclude' = exclude /\ clobbered' = clobbered
    BY <1>8 DEF WalkDone, Goto
  <2> QED  BY <1>1, <2>1
<1>9. CASE StatNext
  <2>1. /\ stage = "stat" /\ stage' \in {"stat", "name", "failed"}
        /\ exclude' = exclude /\ clobbered' = clobbered
    BY <1>9 DEF StatNext, Goto
  <2> QED  BY <1>1, <2>1
<1>10. CASE ReadNext
  <2>1. /\ stage = "read" /\ stage' \in {"read", "create", "failed"}
        /\ exclude' = exclude /\ clobbered' = clobbered
    BY <1>10 DEF ReadNext, Goto
  <2> QED  BY <1>1, <2>1
<1>11. CASE Create
  <2> DEFINE i == Stat(asked.output)
  <2>1. stage = "create" /\ stage' \in {"done", "failed"} /\ exclude' = exclude  BY <1>11 DEF Create, Goto
  <2>2. clobbered' = i \/ clobbered' = clobbered  BY <1>11 DEF Create
  <2>3. i = StatIn(Tree, o)  BY DEF Stat, o
  <2> HIDE DEF i
  <2> QED  BY <1>1, <2>1, <2>2, <2>3
<1>12. CASE NameAll
  <2>1. /\ stage = "name" /\ stage' \in {"read", "failed"}
        /\ exclude' = exclude /\ clobbered' = clobbered
    BY <1>12 DEF NameAll, Goto
  <2> QED  BY <1>1, <2>1
<1>13. CASE CallFails
  <2> DEFINE i == Stat(asked.output)
  <2>1. stage' = "failed" /\ exclude' = exclude  BY <1>13 DEF CallFails, Goto
  <2>2. clobbered' = i \/ clobbered' = clobbered
    <3>1. clobbered' \in {clobbered} \cup (IF stage = "create" /\ KindOf(i) = "file" THEN {i} ELSE {})
      BY <1>13 DEF CallFails
    <3> HIDE DEF i
    <3> QED  BY <3>1
  <2>3. i = StatIn(Tree, o)  BY DEF Stat, o
  <2> HIDE DEF i
  <2> QED  BY <1>1, <2>1, <2>2, <2>3
<1> QED  BY <1>3, <1>4, <1>5, <1>6, <1>7, <1>8, <1>9, <1>10, <1>11, <1>12, <1>13 DEF Pack

\* What the archive has no room for.
TooMuch ==
  \/ Len(out) > MaxFiles \/ Len(out) > MaxSuffix
  \/ \E k \in 1..Len(out) : Last(out[k]) \in Unnamed

\* The ways to fail when nobody moves files and no call fails by itself.
LEMMA QuietFailed ==
  ASSUME TypeInv, QuietParts, tree = Tree, Pack, stage' = "failed", ~fault'
  PROVE  Reason(asked) \/ (TooMuch /\ (WalkDone \/ StatNext \/ NameAll))
<1>1. asked \in Scenarios /\ asked.inputs \in Seq(Paths) /\ asked.output \in Paths
  BY ScenariosAssumption DEF TypeInv, TreeInv
<1>2. ASSUME todo # <<>>, Head(todo).depth = 0
      PROVE  \E j \in 1..Len(asked.inputs) : Head(todo).path = asked.inputs[j]
  <2>1. Head(todo) = todo[1] /\ 1 \in 1..Len(todo)  BY <1>2, FirstTodo
  <2> QED  BY <1>2, <2>1 DEF QuietParts, TodoIsThere, IsThere
<1>3. CASE CheckOutput
  <2>1. LStat(asked.output) = LStatIn(Tree, asked.output)  BY DEF LStat
  <2>2. KindOf(LStatIn(Tree, asked.output)) = "link"  BY <1>3, <2>1 DEF CheckOutput, Goto
  <2> QED  BY <2>2 DEF Reason
<1>4. CASE Visit
  <2> DEFINE p == Head(todo).path
             i == LStat(p)
  <2>1. todo # <<>>  BY <1>4 DEF Visit
  <2>2. i = Missing  BY <1>4 DEF Visit, Goto
  <2>3. LStatIn(Tree, p) = Missing  BY <2>2 DEF LStat
  <2>4. Head(todo) = todo[1] /\ 1 \in 1..Len(todo)  BY <2>1, FirstTodo
  <2>5. Head(todo).depth = 0  BY <2>3, <2>4 DEF QuietParts, TodoIsThere, IsThere
  <2>6. PICK j \in 1..Len(asked.inputs) : p = asked.inputs[j]  BY <1>2, <2>1, <2>5
  <2> HIDE DEF p
  <2>7. BadInput(asked, p)  BY <2>3, KindTells DEF BadInput
  <2> QED  BY <2>6, <2>7 DEF Reason
<1>5. CASE Judge
  <2> DEFINE p == Head(todo).path
             verdict == Verdict(Head(todo))
  <2>1. /\ stage' = CASE verdict = "refuse" -> "failed" [] verdict = "descend" -> "readdir" [] OTHER -> "walk"
        /\ verdict = "refuse" => Head(todo).depth = 0 /\ (MatchesExclude(p) \/ Kind[meta] = "other")
    BY <1>5, JudgeOut
  <2>2. /\ todo # <<>> /\ meta = LStatIn(Tree, p) /\ KindOf(meta) = Kind[meta]
        /\ MatchesExclude(p) <=> IsOutput(asked, CanonIn(Tree, p), LStatIn(Tree, p))
    BY <1>5, JudgeKnows
  <2> HIDE DEF verdict
  <2>3. verdict = "refuse"  BY <2>1
  <2>4. PICK j \in 1..Len(asked.inputs) : p = asked.inputs[j]  BY <1>2, <2>1, <2>2, <2>3
  <2> HIDE DEF p
  <2>5. BadInput(asked, p)  BY <2>1, <2>2, <2>3 DEF BadInput
  <2> QED  BY <2>4, <2>5 DEF Reason
<1>6. CASE ReadDir
  <2> DEFINE p == Head(todo).path
  <2>1. stage = "readdir"  BY <1>6 DEF ReadDir
  <2>2. todo # <<>> /\ KindOf(meta) = "dir" /\ meta = LStatIn(Tree, p)
    BY <2>1 DEF TypeInv, WalkInv, QuietParts, MetaIsTrue
  <2>3. p \in Paths  BY <2>2, FirstTodo
  <2> HIDE DEF p
  <2>4. StatIn(Tree, p) = meta  BY <2>2, <2>3, Ends, StartIsTree
  <2>5. KindOf(Stat(p)) = "dir"  BY <2>2, <2>4 DEF Stat
  <2>6. stage' = "walk"  BY <1>6, <2>5 DEF ReadDir, Goto, p
  <2> QED  BY <2>6
<1>7. CASE StatNext
  <2>1. CASE Len(prelim) = Len(out)  BY <1>7, <2>1 DEF StatNext, Goto
  <2>2. CASE Len(prelim) # Len(out)
    <3>1. Len(prelim) + 1 \in 1..Len(out)  BY <2>2 DEF TypeInv, ReadInv, WalkInv
    <3> DEFINE path == out[Len(prelim) + 1]
    <3>2. KindOf(LStat(path)) = "file"  BY <3>1, QuietPath
    <3>3. CASE Last(path) \notin Unnamed
      <4>1. stage' = stage /\ stage = "stat"  BY <1>7, <2>2, <3>2, <3>3 DEF StatNext, Goto
      <4> QED  BY <4>1
    <3>4. CASE Last(path) \in Unnamed  BY <1>7, <3>1, <3>4 DEF TooMuch
    <3> QED  BY <3>3, <3>4
  <2> QED  BY <2>1, <2>2
<1>8. CASE ReadNext
  <2>1. CASE Len(packed) = Len(prelim)  BY <1>8, <2>1 DEF ReadNext, Goto
  <2>2. CASE Len(packed) # Len(prelim)
    <3>1. Len(packed) + 1 \in 1..Len(prelim)  BY <2>2 DEF TypeInv, ReadInv
    <3>2. PICK j \in 1..Len(out) : prelim[Len(packed) + 1].path = out[j]  BY <3>1 DEF TypeInv, ReadInv
    <3>3. KindOf(ReadNoFollow(out[j])) = "file"  BY <3>1, QuietPath
    <3>4. stage' = stage /\ stage = "read"  BY <1>8, <2>2, <3>2, <3>3 DEF ReadNext, Goto
    <3> QED  BY <3>4
  <2> QED  BY <2>1, <2>2
<1>9. CASE Create
  <2> DEFINE o == asked.output
             i == Stat(o)
             above == Stat(Front(Canon(o)))
  <2>1. stage = "create"  BY <1>9 DEF Create
  <2>2. KindOf(LStatIn(Tree, o)) # "link"  BY <2>1 DEF QuietParts, OutputIsNoLink
  <2>3. i = LStatIn(Tree, o) /\ i \in Places  BY <1>1, <2>2, Ends, StartIsTree DEF Stat
  <2>4. above = StatIn(Tree, Front(o))  BY <1>1, <2>2, RealOfNoLink DEF Stat, Canon
  <2>5. stage' = IF KindOf(i) = "file" \/ (i = Missing /\ KindOf(above) = "dir") THEN "done" ELSE "failed"
    BY <1>9 DEF Create, Goto
  <2> HIDE DEF i, above
  <2>6. KindOf(i) # "file" /\ ~(i = Missing /\ KindOf(above) = "dir")  BY <2>5
  <2>7. i # Missing => KindOf(i) # "none"  BY <2>3, TreeAssumption DEF KindOf, Places, Inodes
  <2> QED  BY <2>3, <2>4, <2>6, <2>7 DEF Reason
<1>10. CASE Exclude  BY <1>10 DEF Exclude, Goto
<1>11. CASE WalkDone
  <2>1. Len(out) > MaxFiles  BY <1>11 DEF WalkDone, Goto
  <2> QED  BY <1>11, <2>1 DEF TooMuch
<1>12. CASE NameAll
  <2>1. Len(prelim) > MaxSuffix
    <3>1. stage' # "read"  OBVIOUS
    <3> QED  BY <1>12, <3>1, NameStep
  <2>2. Len(prelim) \in Nat /\ Len(out) \in Nat /\ Len(prelim) <= Len(out) /\ MaxSuffix \in Nat
    BY NamesAssumption DEF TypeInv, ReadInv, WalkInv
  <2>3. Len(out) > MaxSuffix  BY <2>1, <2>2
  <2> QED  BY <1>12, <2>3 DEF TooMuch
<1>13. CASE CallFails  BY <1>13 DEF CallFails
<1> QED  BY <1>3, <1>4, <1>5, <1>6, <1>7, <1>8, <1>9, <1>10, <1>11, <1>12, <1>13 DEF Pack

LEMMA NextQuietInv ==
  ASSUME TypeInv, QuietInv, [Next]_vars
  PROVE  QuietInv'
<1> SUFFICES ASSUME swapped' = {} PROVE QuietParts'  BY DEF QuietInv
<1>1. ~ \E s \in asked.swaps : Swap(s[1], s[2], s[3])  BY DEF Swap
<1>2. UNCHANGED <<asked, tree, swapped>>  BY <1>1, TreeStays DEF vars
<1>3. QuietParts /\ tree = Tree  BY <1>2 DEF QuietInv, TypeInv, TreeInv
<1>4. CASE Pack
  BY <1>2, <1>3, <1>4, QuietTodo, QuietOut, QuietPacked, QuietChecks DEF QuietParts
<1>5. CASE Others \/ UNCHANGED vars
  <2>1. UNCHANGED <<asked, stage, exclude, todo, meta, out, packed, clobbered>>
    BY <1>1, <1>5 DEF Others, Rewrite, vars
  <2> QED  BY <1>3, <2>1 DEF QuietParts, OutputIsNoLink, ExcludeIsOutput, MetaIsTrue, TodoIsThere, OutIsTaken,
                             PackedIsNamed, ClobberedIsOutput
<1> QED  BY <1>4, <1>5 DEF Next

LEMMA AlwaysQuiet == Spec => []QuietInv
<1>1. TypeInv /\ QuietInv /\ [Next]_vars => QuietInv'  BY NextQuietInv
<1> QED  BY QuietInit, TypeCorrect, <1>1, PTL DEF Spec

\* When nobody moves files, no file that was packed is destroyed by writing the output,
\* but on Windows one that the output is another name of.
THEOREM InputsAreNotDestroyed == Spec => []InputsSurvive
<1>1. TypeInv /\ QuietInv => InputsSurvive
  <2> SUFFICES ASSUME TypeInv, QuietInv, swapped = {}, NEW k \in 1..Len(packed), packed[k].file = clobbered
               PROVE  OnWindows /\ Canon(packed[k].path) # Canon(asked.output)
    BY DEF InputsSurvive
  <2> DEFINE p == packed[k].path
             i == packed[k].file
  <2>1. QuietParts /\ tree = Tree  BY DEF QuietInv, TypeInv, TreeInv
  <2>2. i = LStatIn(Tree, p)  BY <2>1 DEF QuietParts, PackedIsNamed
  <2>3. \E j \in 1..Len(out) : p = out[j]
    <3>1. k \in 1..Len(prelim)  BY DEF TypeInv, ReadInv
    <3> QED  BY <3>1 DEF TypeInv, ReadInv
  <2>4. ~IsOutput(asked, CanonIn(Tree, p), i)  BY <2>1, <2>2, <2>3 DEF QuietParts, OutIsTaken, Taken
  <2>5. i # Missing
    <3>1. packed[k] \in Packed  BY DEF TypeInv, ReadInv
    <3>2. i \in Inodes  BY <3>1 DEF Packed, RegularFiles
    <3> QED  BY <3>2, TreeAssumption
  <2>6. i = StatIn(Tree, asked.output)  BY <2>1, <2>5 DEF QuietParts, ClobberedIsOutput
  <2> HIDE DEF p, i
  <2>7. asked.system = "windows" /\ CanonIn(Tree, p) # CanonIn(Tree, asked.output)
    BY <2>4, <2>5, <2>6 DEF IsOutput
  <2> QED  BY <2>1, <2>7 DEF OnWindows, Canon, p
<1> QED  BY TypeCorrect, AlwaysQuiet, <1>1, PTL

----------------------------------------------------------------------------
(* When others exchange neither a directory nor a link.  What has been seen *)
(* to be a directory remains one: such an entry was there at the start, and *)
(* then it is not exchanged, or it came by an exchange, and there is no     *)
(* second one.                                                              *)

Steady(done) == \A s \in done : Kind[Tree[s[1]][s[2]]] \notin {"dir", "link"}

Chain(t, a, path) ==
  \E top \in {a.inputs[k] : k \in 1..Len(a.inputs)} :
    /\ Len(top) <= Len(path) /\ top = SubSeq(path, 1, Len(top))
    /\ \A j \in Len(top)..Len(path) - 1 : KindOf(LStatIn(t, SubSeq(path, 1, j))) = "dir"

SteadyParts ==
  /\ \A k \in 1..Len(todo) : Chain(tree, asked, todo[k].path)
  /\ \A k \in 1..Len(out) : Chain(tree, asked, out[k])
  /\ stage \in {"judge", "readdir"} /\ KindOf(meta) = "dir" => KindOf(LStatIn(tree, Head(todo).path)) = "dir"

SteadyInv == Steady(swapped) => SteadyParts

LEMMA ChainOfInput ==
  ASSUME NEW t, NEW a \in Scenarios, NEW k \in 1..Len(a.inputs)
  PROVE  Chain(t, a, a.inputs[k])
<1> DEFINE p == a.inputs[k]
<1>1. p \in Paths  BY ScenariosAssumption
<1>2. p \in Seq(Nat) /\ p \in {a.inputs[j] : j \in 1..Len(a.inputs)}  BY <1>1 DEF Paths
<1> HIDE DEF p
<1>3. Len(p) \in Nat /\ p = SubSeq(p, 1, Len(p))  BY <1>2
<1>4. \A j \in Len(p)..Len(p) - 1 : FALSE  BY <1>3
<1>5. Chain(t, a, p)  BY <1>2, <1>3, <1>4 DEF Chain
<1> QED  BY <1>5 DEF p

LEMMA ChainLonger ==
  ASSUME NEW t, NEW a \in Scenarios, NEW p \in Paths, Chain(t, a, p), KindOf(LStatIn(t, p)) = "dir", NEW n \in Nat
  PROVE  Chain(t, a, Append(p, n))
<1> DEFINE q == Append(p, n)
<1>1. PICK top \in {a.inputs[k] : k \in 1..Len(a.inputs)} :
        /\ Len(top) <= Len(p) /\ top = SubSeq(p, 1, Len(top))
        /\ \A j \in Len(top)..Len(p) - 1 : KindOf(LStatIn(t, SubSeq(p, 1, j))) = "dir"
  BY DEF Chain
<1>2. top \in Paths  BY ScenariosAssumption
<1>3. Len(top) \in Nat /\ p \in Seq(Nat) /\ Len(p) \in Nat  BY <1>2 DEF Paths
<1>4. Len(q) = Len(p) + 1 /\ \A j \in 0..Len(p) : SubSeq(q, 1, j) = SubSeq(p, 1, j)  BY <1>3
<1>5. SubSeq(p, 1, Len(p)) = p  BY <1>3
<1> HIDE DEF q
<1>6. Len(top) <= Len(q) /\ top = SubSeq(q, 1, Len(top))  BY <1>1, <1>3, <1>4
<1>7. ASSUME NEW j \in Len(top)..Len(q) - 1 PROVE KindOf(LStatIn(t, SubSeq(q, 1, j))) = "dir"
  <2>1. j \in 0..Len(p) /\ SubSeq(q, 1, j) = SubSeq(p, 1, j)  BY <1>3, <1>4
  <2>2. CASE j = Len(p)  BY <1>5, <2>1, <2>2
  <2>3. CASE j # Len(p)
    <3>1. j \in Len(top)..Len(p) - 1  BY <1>3, <1>4, <2>3
    <3> QED  BY <1>1, <2>1, <3>1
  <2> QED  BY <2>2, <2>3
<1>8. Chain(t, a, q)  BY <1>6, <1>7 DEF Chain
<1> QED  BY <1>8 DEF q

LEMMA ChainKept ==
  ASSUME NEW t, NEW u, IsTree(t), IsTree(u), Keeps(t, u), NEW a \in Scenarios, NEW p \in Paths, Chain(t, a, p)
  PROVE  Chain(u, a, p)
<1>1. PICK top \in {a.inputs[k] : k \in 1..Len(a.inputs)} :
        /\ Len(top) <= Len(p) /\ top = SubSeq(p, 1, Len(top))
        /\ \A j \in Len(top)..Len(p) - 1 : KindOf(LStatIn(t, SubSeq(p, 1, j))) = "dir"
  BY DEF Chain
<1>2. top \in Paths  BY ScenariosAssumption
<1>3. Len(top) \in Nat \ {0} /\ p \in Seq(Nat) /\ Len(p) \in Nat  BY <1>2 DEF Paths, NoPath
<1>4. ASSUME NEW j \in Len(top)..Len(p) - 1 PROVE KindOf(LStatIn(u, SubSeq(p, 1, j))) = "dir"
  <2> DEFINE q == SubSeq(p, 1, j)
  <2>1. q \in Seq(Nat) /\ Len(q) = j /\ j # 0  BY <1>3
  <2>2. KindOf(LStatIn(t, q)) = "dir"  BY <1>1
  <2> HIDE DEF q
  <2>3. q \in Paths  BY <2>1 DEF Paths, NoPath
  <2>4. LStatIn(u, q) = LStatIn(t, q)  BY <2>2, <2>3, DirKept
  <2>5. KindOf(LStatIn(u, q)) = "dir"  BY <2>2, <2>4
  <2> QED  BY <2>5 DEF q
<1> QED  BY <1>1, <1>4 DEF Chain

LEMMA KeepsItself ==
  ASSUME NEW t PROVE Keeps(t, t)
  BY DEF Keeps

LEMMA StepKeeps ==
  ASSUME TypeInv, [Next]_vars, Steady(swapped')
  PROVE  /\ Steady(swapped) /\ Keeps(tree, tree') /\ asked' = asked
         /\ IsTree(tree) /\ IsTree(tree') /\ asked \in Scenarios
<1>1. TreeInv /\ TreeInv'  BY NextTreeInv DEF TypeInv
<1>2. IsTree(tree) /\ IsTree(tree') /\ asked \in Scenarios  BY <1>1 DEF TreeInv
<1>3. CASE \E s \in asked.swaps : Swap(s[1], s[2], s[3])
  <2>1. PICK s \in asked.swaps : Swap(s[1], s[2], s[3])  BY <1>3
  <2> DEFINE d == s[1]
             n == s[2]
  <2>2. /\ d \in Inodes /\ Kind[d] = "dir" /\ n \in DOMAIN Tree[d]
        /\ \A e \in Inodes, m \in Nat : Kind[e] = "dir" /\ <<e, m>> # <<d, n>> => Hop(tree', e, m) = Hop(tree, e, m)
    BY <1>1, <2>1, SwapTreeInv
  <2>3. swapped' = swapped \cup {<<d, n>>} /\ <<d, n>> \notin swapped /\ asked' = asked  BY <2>1 DEF Swap
  <2> HIDE DEF d, n
  <2>4. Steady(swapped)  BY <2>3 DEF Steady
  <2>5. Kind[Tree[d][n]] \notin {"dir", "link"}
    <3>1. <<d, n>> \in swapped' /\ <<d, n>>[1] = d /\ <<d, n>>[2] = n  BY <2>3
    <3> QED  BY <3>1 DEF Steady
  <2>6. Hop(tree, d, n) = Tree[d][n] /\ Tree[d][n] \in Inodes
    <3>1. n \in Nat /\ Tree[d][n] \in Inodes  BY <2>2, StartIsTree DEF IsTree
    <3>2. Hop(tree, d, n) = Hop(Tree, d, n)  BY <1>1, <2>2, <2>3, <3>1 DEF TreeInv, AsBefore
    <3>3. KindOf(d) = "dir"  BY <2>2 DEF KindOf, Inodes
    <3> QED  BY <2>2, <3>1, <3>2, <3>3 DEF Hop
  <2>7. Keeps(tree, tree')
    <3> SUFFICES ASSUME NEW e \in Inodes, NEW m \in Nat, KindOf(Hop(tree, e, m)) \in {"dir", "link"}
                 PROVE  Hop(tree', e, m) = Hop(tree, e, m)
      BY DEF Keeps
    <3>1. Kind[e] = "dir"  BY <1>2, HopLands, KindTells
    <3>2. <<e, m>> # <<d, n>>
      <4>1. KindOf(Hop(tree, d, n)) \notin {"dir", "link"}  BY <2>5, <2>6 DEF KindOf, Inodes
      <4> QED  BY <4>1
    <3> QED  BY <2>2, <3>1, <3>2
  <2> QED  BY <1>2, <2>3, <2>4, <2>7
<1>4. CASE UNCHANGED <<asked, tree, swapped>>  BY <1>2, <1>4, KeepsItself DEF Steady
<1>5. CASE UNCHANGED vars  BY <1>4, <1>5 DEF vars
<1> QED  BY <1>3, <1>4, <1>5, TreeStays

LEMMA SteadyInit == Init => SteadyInv
<1> SUFFICES ASSUME Init PROVE SteadyParts  BY DEF SteadyInv
<1> DEFINE n == Len(asked.inputs)
<1>1. asked \in Scenarios /\ asked.inputs \in Seq(Paths)  BY ScenariosAssumption DEF Init
<1>2. n \in Nat /\ todo = [k \in 1..n |-> Top(asked.inputs[k])]  BY <1>1 DEF Init
<1>3. \A k \in 1..n : Chain(tree, asked, asked.inputs[k])  BY <1>1, ChainOfInput
<1> HIDE DEF n
<1>4. Len(todo) = n /\ \A k \in 1..n : todo[k].path = asked.inputs[k]  BY <1>2 DEF Top
<1>5. \A k \in 1..Len(todo) : Chain(tree, asked, todo[k].path)  BY <1>3, <1>4
<1>6. out = <<>> /\ stage = "output"  BY DEF Init
<1>7. \A k \in 1..Len(out) : Chain(tree, asked, out[k])  BY <1>6
<1> QED  BY <1>5, <1>6, <1>7 DEF SteadyParts

LEMMA NextSteadyInv ==
  ASSUME TypeInv, SteadyInv, [Next]_vars
  PROVE  SteadyInv'
<1> SUFFICES ASSUME Steady(swapped') PROVE SteadyParts'  BY DEF SteadyInv
<1>1. /\ Keeps(tree, tree') /\ IsTree(tree) /\ IsTree(tree') /\ asked \in Scenarios /\ asked' = asked
      /\ SteadyParts
  BY StepKeeps DEF SteadyInv
<1>2. todo \in Seq(Entry) /\ out \in Seq(Paths)  BY DEF TypeInv, WalkInv
<1>3. \A k \in 1..Len(todo) : todo[k].path \in Paths
  <2> TAKE k \in 1..Len(todo)
  <2>1. todo[k] \in Entry  BY <1>2
  <2> QED  BY <2>1 DEF Entry
<1>4. \A k \in 1..Len(todo) : Chain(tree, asked, todo[k].path)  BY <1>1 DEF SteadyParts
<1>5. ASSUME NEW p \in Paths, Chain(tree, asked, p) PROVE Chain(tree', asked', p)  BY <1>1, <1>5, ChainKept
<1>6. ASSUME NEW k \in 1..Len(todo') PROVE Chain(tree', asked', todo'[k].path)
  <2>1. StillOrListed(todo'[k])  BY TodoStep
  <2>2. CASE \E j \in 1..Len(todo) : todo'[k] = todo[j]  BY <1>3, <1>4, <1>5, <2>2
  <2>3. CASE /\ ReadDir /\ todo # <<>>
             /\ \E n \in DOMAIN tree[Stat(Head(todo).path)] :
                  n \in Nat /\ todo'[k] = [path |-> Append(Head(todo).path, n), depth |-> Head(todo).depth + 1]
    <3> DEFINE p == Head(todo).path
    <3>1. PICK n \in Nat : todo'[k].path = Append(p, n)  BY <2>3
    <3>2. p \in Paths /\ Head(todo) = todo[1] /\ 1 \in 1..Len(todo)  BY <2>3, FirstTodo
    <3>3. Chain(tree, asked, p)  BY <1>4, <3>2
    <3>4. stage = "readdir"  BY <2>3 DEF ReadDir
    <3>5. KindOf(LStatIn(tree, p)) = "dir"  BY <1>1, <3>4 DEF SteadyParts, TypeInv, WalkInv
    <3> HIDE DEF p
    <3>6. Chain(tree, asked, Append(p, n))  BY <1>1, <3>1, <3>2, <3>3, <3>5, ChainLonger
    <3>7. Append(p, n) \in Paths  BY <3>1, <3>2, PathAppend DEF Paths
    <3> QED  BY <1>5, <3>1, <3>6, <3>7
  <2> QED  BY <2>1, <2>2, <2>3 DEF StillOrListed
<1>7. ASSUME NEW k \in 1..Len(out') PROVE Chain(tree', asked', out'[k])
  <2>1. \A j \in 1..Len(out) : Chain(tree', asked', out[j])  BY <1>1, <1>2, <1>5 DEF SteadyParts
  <2>2. CASE out' = out  BY <2>1, <2>2
  <2>3. CASE Judge /\ out' = Append(out, Head(todo).path)
    <3>1. todo # <<>>
      <4>1. stage = "judge"  BY <2>3 DEF Judge
      <4> QED  BY <4>1 DEF TypeInv, WalkInv
    <3>2. Head(todo).path \in Paths /\ Head(todo) = todo[1] /\ 1 \in 1..Len(todo)  BY <3>1, FirstTodo
    <3>3. Chain(tree', asked', Head(todo).path)  BY <1>4, <1>5, <3>2
    <3>4. /\ \A j \in 1..Len(out) : out'[j] = out[j]
          /\ out'[Len(out) + 1] = Head(todo).path
          /\ k \in 1..Len(out) \/ k = Len(out) + 1
      BY <1>2, <2>3, <3>2, Appended
    <3> QED  BY <2>1, <3>3, <3>4
  <2>4. CASE Judge
    <3> DEFINE verdict == Verdict(Head(todo))
    <3>1. out' = IF verdict = "take" THEN Append(out, Head(todo).path) ELSE out  BY <2>4, JudgeOut
    <3> HIDE DEF verdict
    <3>2. out' = out \/ out' = Append(out, Head(todo).path)  BY <3>1
    <3> QED  BY <2>2, <2>3, <2>4, <3>2
  <2>5. CASE \/ CheckOutput \/ Exclude \/ Visit \/ ReadDir \/ WalkDone
             \/ StatNext \/ NameAll \/ ReadNext \/ Create \/ CallFails
    BY <2>2, <2>5 DEF CheckOutput, Exclude, Visit, ReadDir, WalkDone, StatNext, NameAll, ReadNext, Create, CallFails
  <2>6. CASE Others \/ UNCHANGED vars  BY <2>2, <2>6 DEF Others, Rewrite, Swap, vars
  <2> QED  BY <2>4, <2>5, <2>6 DEF Next, Pack
<1>8. ASSUME stage' \in {"judge", "readdir"}, KindOf(meta') = "dir"
      PROVE  KindOf(LStatIn(tree', Head(todo').path)) = "dir"
  <2>1. ASSUME todo # <<>>, todo' = todo, KindOf(LStatIn(tree, Head(todo).path)) = "dir"
        PROVE  KindOf(LStatIn(tree', Head(todo').path)) = "dir"
    <3>1. Head(todo).path \in Paths  BY <2>1, FirstTodo
    <3>2. LStatIn(tree', Head(todo).path) = LStatIn(tree, Head(todo).path)  BY <1>1, <2>1, <3>1, DirKept
    <3> QED  BY <2>1, <3>2
  <2>2. ASSUME stage \in {"judge", "readdir"}, meta' = meta, todo' = todo
        PROVE  KindOf(LStatIn(tree', Head(todo').path)) = "dir"
    <3>1. todo # <<>>  BY <2>2 DEF TypeInv, WalkInv
    <3>2. KindOf(LStatIn(tree, Head(todo).path)) = "dir"  BY <1>1, <1>8, <2>2 DEF SteadyParts
    <3> QED  BY <2>1, <2>2, <3>1, <3>2
  <2>3. CASE Visit
    <3> DEFINE i == LStat(Head(todo).path)
    <3>1. todo # <<>> /\ meta' = i /\ todo' = IF KindOf(i) = "link" THEN Tail(todo) ELSE todo
      BY <2>3 DEF Visit
    <3>2. i = LStatIn(tree, Head(todo).path)  BY DEF LStat
    <3> HIDE DEF i
    <3> QED  BY <1>8, <2>1, <3>1, <3>2
  <2>4. CASE Judge
    <3> DEFINE verdict == Verdict(Head(todo))
    <3>1. stage = "judge" /\ meta' = meta  BY <2>4 DEF Judge
    <3>2. stage' = CASE verdict = "refuse" -> "failed" [] verdict = "descend" -> "readdir" [] OTHER -> "walk"
      BY <2>4, JudgeOut
    <3>3. todo' = IF verdict \in {"take", "drop"} THEN Tail(todo) ELSE todo  BY <2>4 DEF Judge
    <3> HIDE DEF verdict
    <3>4. verdict = "descend"  BY <1>8, <3>2
    <3> QED  BY <2>2, <3>1, <3>3, <3>4
  <2>5. CASE CheckOutput \/ Exclude \/ ReadDir \/ WalkDone \/ StatNext \/ NameAll \/ ReadNext \/ Create \/ CallFails
    BY <1>8, <2>5 DEF CheckOutput, Exclude, ReadDir, WalkDone, StatNext, NameAll, ReadNext, Create, CallFails, Goto
  <2>6. CASE Others \/ UNCHANGED vars
    <3>1. UNCHANGED <<stage, todo, meta>>  BY <2>6 DEF Others, Rewrite, Swap, vars
    <3> QED  BY <1>8, <2>2, <3>1
  <2> QED  BY <2>3, <2>4, <2>5, <2>6 DEF Next, Pack
<1> QED  BY <1>6, <1>7, <1>8 DEF SteadyParts

LEMMA AlwaysSteady == Spec => []SteadyInv
<1>1. TypeInv /\ SteadyInv /\ [Next]_vars => SteadyInv'  BY NextSteadyInv
<1> QED  BY SteadyInit, TypeCorrect, <1>1, PTL DEF Spec

\* What is read under a path is a file that the path names, and no link is on the way
\* to it unless someone has exchanged a directory or a link.
THEOREM ReadsFollowNoLink == Spec => ReadsNoLink
<1>1. ASSUME TypeInv, SteadyInv, [Next]_vars PROVE [ReadFollowsNoLink]_vars
  <2> SUFFICES ASSUME packed' # packed, ~OnWindows
               PROVE  LET path == Last(packed').path
                      IN /\ KindOf(LStat(path)) = "file"
                         /\ (\A s \in swapped : Kind[Tree[s[1]][s[2]]] \notin {"dir", "link"}) =>
                              \E top \in {asked.inputs[k] : k \in 1..Len(asked.inputs)} :
                                /\ Len(top) <= Len(path) /\ top = SubSeq(path, 1, Len(top))
                                /\ \A j \in Len(top)..Len(path) - 1 : KindOf(LStat(SubSeq(path, 1, j))) = "dir"
    BY DEF ReadFollowsNoLink
  <2>1. ReadNext
    BY <1>1 DEF Next, Pack, Others, Rewrite, Swap, vars, CheckOutput, Exclude, Visit, Judge, ReadDir, WalkDone,
                StatNext, NameAll, Create, CallFails
  <2> DEFINE entry == prelim[Len(packed) + 1]
             i == ReadNoFollow(entry.path)
             rec == [path |-> entry.path, file |-> i, contents |-> version[i],
                     same |-> i = entry.file, stamp |-> Stamp(entry.mtime)]
  <2>2. /\ Len(packed) + 1 \in 1..Len(prelim) /\ i \in RegularFiles
        /\ packed' = Append(packed, rec)
    BY <1>1, <2>1, ReadStep
  <2>3. \E j \in 1..Len(out) : entry.path = out[j]  BY <1>1, <2>2 DEF TypeInv, ReadInv
  <2>4. Last(packed') = rec
    <3>1. packed \in Seq(Packed)  BY <1>1 DEF TypeInv, ReadInv
    <3> HIDE DEF rec
    <3> QED  BY <2>2, <3>1 DEF Last
  <2> DEFINE path == entry.path
  <2>5. Last(packed').path = path  BY <2>4
  <2>6. i = LStat(path)  BY <1>1 DEF ReadNoFollow
  <2>7. KindOf(LStat(path)) = "file"  BY <2>2, <2>6 DEF RegularFiles, KindOf, Inodes
  <2>8. Steady(swapped) => Chain(tree, asked, path)  BY <1>1, <2>3 DEF SteadyInv, SteadyParts
  <2> HIDE DEF path
  <2> QED  BY <2>5, <2>7, <2>8 DEF Steady, Chain, LStat
<1>2. TypeInv /\ SteadyInv /\ [Next]_vars => [ReadFollowsNoLink]_vars  BY <1>1
<1> QED  BY TypeCorrect, AlwaysSteady, <1>2, PTL DEF Spec, ReadsNoLink

----------------------------------------------------------------------------
(* What lies below a name, in the order of the paths.                     *)

\* One name more in front, or behind what comes before.
LEMMA LongerPath ==
  ASSUME NEW p \in Seq(Nat), NEW n \in Nat, NEW r \in Seq(Nat)
  PROVE  /\ <<n>> \o r \in Seq(Nat) /\ Len(<<n>> \o r) = Len(r) + 1
         /\ Append(p, n) \o r = p \o (<<n>> \o r)
         /\ p \o r \in Seq(Nat)
<1>1. <<n>> \in Seq(Nat) /\ Len(<<n>>) = 1 /\ Append(p, n) = p \o <<n>>
  OBVIOUS
<1>2. <<n>> \o r \in Seq(Nat) /\ Len(<<n>> \o r) = Len(r) + 1
  <2>1. Len(r) \in Nat
    OBVIOUS
  <2> QED BY <1>1, <2>1, ConcatProperties
<1>3. (p \o <<n>>) \o r = p \o (<<n>> \o r)
  BY <1>1, ConcatAssociative
<1>4. p \o r \in Seq(Nat)
  BY ConcatProperties
<1> QED BY <1>1, <1>2, <1>3, <1>4

\* What is below the lesser of two names comes before what is below the other.
LEMMA OrderOfNames ==
  ASSUME NEW p \in Seq(Nat), NEW m \in Nat, NEW n \in Nat, m < n, NEW x \in Seq(Nat), NEW y \in Seq(Nat)
  PROVE  Lexicographic(Append(p, m) \o x, Append(p, n) \o y)
<1> DEFINE a == Append(p, m)
           b == Append(p, n)
           k == Len(p) + 1
           s == a \o x
           t == b \o y
<1>1. /\ k \in Nat /\ k > 0 /\ a \in Seq(Nat) /\ b \in Seq(Nat) /\ Len(a) = k /\ Len(b) = k /\ a[k] = m /\ b[k] = n
      /\ \A i \in 1..k - 1 : a[i] = p[i] /\ b[i] = p[i]
  BY AppendProperties
<1> HIDE DEF a, b, k
<1>2. /\ s \in Seq(Nat) /\ Len(s) = k + Len(x) /\ \A i \in 1..k : s[i] = a[i]
      /\ t \in Seq(Nat) /\ Len(t) = k + Len(y) /\ \A i \in 1..k : t[i] = b[i]
  <2>1. Len(x) \in Nat /\ Len(y) \in Nat
    OBVIOUS
  <2>2. \A i \in 1..k : i \in 1..Len(a) + Len(x) /\ i <= Len(a) /\ i \in 1..Len(b) + Len(y) /\ i <= Len(b)
    BY <1>1, <2>1
  <2> QED BY <1>1, <2>2, ConcatProperties
<1>3. k \in 1..Len(s) /\ k <= Len(t) /\ s[k] = m /\ t[k] = n
  <2>1. Len(x) \in Nat /\ Len(y) \in Nat
    OBVIOUS
  <2> QED BY <1>1, <1>2, <2>1
<1> HIDE DEF s, t
<1>4. SubSeq(s, 1, k - 1) = SubSeq(t, 1, k - 1)
  <2> DEFINE j == k - 1
  <2>1. j \in Nat /\ j <= Len(s) /\ j <= Len(t) /\ \A i \in 1..j : s[i] = t[i]
    BY <1>1, <1>2, <1>3
  <2> HIDE DEF j
  <2>2. SubSeq(s, 1, j) = SubSeq(t, 1, j)
    <3>1. SubSeq(s, 1, j) = [i \in 1..j |-> s[i]] /\ SubSeq(t, 1, j) = [i \in 1..j |-> t[i]]
      BY <1>2, <2>1
    <3> QED BY <2>1, <3>1
  <2> QED BY <2>2 DEF j
<1>5. Lexicographic(s, t)
  BY <1>3, <1>4 DEF Lexicographic
<1> QED BY <1>5 DEF s, t, a, b

----------------------------------------------------------------------------
(* What leads to a file leads there through directories, and not further  *)
(* down than the tree is deep.                                            *)


\* Whatever a path leads to, it leads there through directories, by their names.
LEMMA ThroughDirectories ==
  ASSUME NEW p \in Seq(Nat), KindOf(Node(Tree, p)) # "none"
  PROVE  \A k \in 0..Len(p) :
           /\ KindOf(Node(Tree, UpTo(p, k))) # "none"
           /\ k < Len(p) => /\ KindOf(Node(Tree, UpTo(p, k))) = "dir"
                            /\ p[k + 1] \in DOMAIN Tree[Node(Tree, UpTo(p, k))]
<1> DEFINE n == Len(p)
           Fine(k) == /\ KindOf(Node(Tree, UpTo(p, k))) # "none"
                      /\ k < n => /\ KindOf(Node(Tree, UpTo(p, k))) = "dir"
                                  /\ p[k + 1] \in DOMAIN Tree[Node(Tree, UpTo(p, k))]
           S == {j \in 0..n : Fine(n - j)}
<1>1. n \in Nat /\ UpTo(p, n) = p  BY FromRootToEnd
<1>2. Fine(n)  BY <1>1
<1>3. ASSUME NEW k \in 1..n, Fine(k) PROVE Fine(k - 1)
  <2> DEFINE q == UpTo(p, k - 1)
             e == p[k]
  <2>1. q \in Seq(Nat) /\ e \in Nat /\ UpTo(p, k) = Append(q, e)  BY NameByName
  <2> HIDE DEF q, e
  <2>2. Node(Tree, UpTo(p, k)) = Hop(Tree, Node(Tree, q), e)  BY <2>1, StartIsTree, NodeAppend
  <2>3. KindOf(Node(Tree, q)) = "dir" /\ e \in DOMAIN Tree[Node(Tree, q)]  BY <1>3, <2>2, StartIsTree, HopLands
  <2>4. k \in Nat /\ (k - 1) + 1 = k  BY <1>1
  <2> QED  BY <2>3, <2>4 DEF q, e
<1>4. \A j \in 0..n : j \in S
  <2>1. 0 \in S  BY <1>1, <1>2
  <2>2. ASSUME NEW j \in 1..n, j - 1 \in S PROVE j \in S
    <3>1. n - (j - 1) \in 1..n /\ n - (j - 1) - 1 = n - j  BY <1>1
    <3>2. Fine(n - (j - 1))  BY <2>2
    <3> HIDE DEF Fine
    <3>3. Fine(n - (j - 1) - 1)  BY <1>3, <3>1, <3>2
    <3> QED  BY <1>1, <3>1, <3>3
  <2> HIDE DEF S, n
  <2> QED  BY <1>1, <2>1, <2>2, Along
<1>5. ASSUME NEW k \in 0..n PROVE Fine(k)
  <2>1. n - k \in 0..n /\ n - (n - k) = k  BY <1>1
  <2> HIDE DEF Fine
  <2> QED  BY <1>4, <2>1
<1> QED  BY <1>5

\* The names that entries have.
EntryNames == UNION {DOMAIN Tree[i] : i \in DOMAIN Tree}

LEMMA NamesAreNumbers == EntryNames \subseteq Nat
  BY TreeAssumption DEF EntryNames

\* All its names are names of entries, and there are at most Deepest + 1 of them.
LEMMA NotDeeper ==
  ASSUME NEW p \in Seq(Nat), KindOf(Node(Tree, p)) # "none"
  PROVE  Len(p) \in Nat /\ Len(p) <= Deepest + 1 /\ \A k \in 1..Len(p) : p[k] \in EntryNames
<1>1. Len(p) \in Nat /\ Deepest \in Nat  BY TreeAssumption
<1>2. ASSUME NEW k \in 1..Len(p) PROVE p[k] \in EntryNames
  <2> DEFINE i == Node(Tree, UpTo(p, k - 1))
  <2>1. k - 1 \in 0..Len(p) /\ k - 1 < Len(p) /\ (k - 1) + 1 = k  BY <1>1
  <2>2. KindOf(i) = "dir" /\ p[k] \in DOMAIN Tree[i]  BY <2>1, ThroughDirectories
  <2> HIDE DEF i
  <2>3. i \in DOMAIN Tree  BY <2>2, KindTells, TreeAssumption
  <2> QED  BY <2>2, <2>3 DEF EntryNames
<1>3. CASE Len(p) > Deepest + 1
  <2> DEFINE d == Deepest + 2
             q == UpTo(p, d)
  <2>1. d \in Nat /\ d \in 0..Len(p)  BY <1>1, <1>3
  <2>2. KindOf(Node(Tree, q)) # "none"  BY <2>1, ThroughDirectories
  <2>3. q \in [1..d -> EntryNames]
    <3>1. \A k \in 1..d : p[k] \in EntryNames  BY <1>1, <1>2, <2>1
    <3> HIDE DEF d
    <3>2. q = [k \in 1..d |-> p[k]]  BY <1>1, <2>1 DEF UpTo
    <3> QED  BY <3>1, <3>2
  <2> HIDE DEF q
  <2>4. Node(Tree, q) = Missing  BY <2>3, DeepestAssumption DEF EntryNames
  <2> QED  BY <2>2, <2>4, KindTells
<1> QED  BY <1>1, <1>2, <1>3

\* A name behind what is no directory leads nowhere, and a name behind a directory leads to
\* an entry of it.
LEMMA BeyondIt ==
  ASSUME NEW c \in Seq(Nat), NEW r \in Seq(Nat), r # <<>>, KindOf(Node(Tree, c \o r)) # "none"
  PROVE  /\ KindOf(Node(Tree, c)) = "dir" /\ r[1] \in DOMAIN Tree[Node(Tree, c)]
         /\ KindOf(Node(Tree, Append(c, r[1]))) # "none"
         /\ Tail(r) # <<>> => KindOf(Node(Tree, Append(c, r[1]))) = "dir"
<1> DEFINE p == c \o r
           k == Len(c)
           n == Len(r)
<1>1. k \in Nat /\ n \in Nat /\ n >= 1 /\ p \in Seq(Nat) /\ Len(p) = k + n /\ r[1] \in Nat
      /\ \A i \in 1..k + n : p[i] = IF i <= k THEN c[i] ELSE r[i - k]
  <2>1. k \in Nat /\ n \in Nat /\ n # 0 /\ r[1] \in Nat  OBVIOUS
  <2>2. p \in Seq(Nat) /\ Len(p) = k + n /\ \A i \in 1..k + n : p[i] = IF i <= k THEN c[i] ELSE r[i - k]
    BY ConcatProperties
  <2> QED  BY <2>1, <2>2
<1>2. Tail(r) \in Seq(Nat) /\ Len(Tail(r)) = n - 1  OBVIOUS
<1>3. UpTo(p, k) = c
  <2> HIDE DEF p
  <2>1. \A i \in 1..k : p[i] = c[i] /\ p[i] \in Nat
    <3>1. \A i \in 1..k : c[i] \in Nat  BY ElementOfSeq
    <3> HIDE DEF k, n
    <3>2. \A i \in 1..k : i \in 1..k + n /\ i <= k  BY <1>1
    <3> QED  BY <1>1, <3>1, <3>2
  <2>2. UpTo(p, k) \in Seq(Nat) /\ Len(UpTo(p, k)) = k /\ \A i \in 1..k : UpTo(p, k)[i] = c[i]
    <3> DEFINE m == k
    <3>1. m \in Int /\ m \in Nat /\ \A i \in 1..m : p[i] \in Nat  BY <1>1, <2>1
    <3> HIDE DEF m
    <3>2. /\ SubSeq(p, 1, m) \in Seq(Nat) /\ Len(SubSeq(p, 1, m)) = m
          /\ \A i \in 1..m : SubSeq(p, 1, m)[i] = p[i]
      BY <3>1, SubSeqProperties
    <3> QED  BY <2>1, <3>2 DEF m, UpTo
  <2> QED  BY <2>2, SeqEqual
<1>4. p[k + 1] = r[1] /\ k + 1 \in 1..Len(p)
  <2>1. k + 1 \in 1..k + n /\ ~(k + 1 <= k) /\ (k + 1) - k = 1  BY <1>1
  <2> QED  BY <1>1, <2>1
<1>5. UpTo(p, k + 1) = Append(c, r[1])
  <2> DEFINE j == k + 1
  <2>1. j \in 1..Len(p) /\ j - 1 = k /\ p[j] = r[1]  BY <1>1, <1>4
  <2> HIDE DEF p, j, k
  <2>2. UpTo(p, j) = Append(UpTo(p, j - 1), p[j])  BY <1>1, <2>1, NameByName
  <2> QED  BY <1>3, <2>1, <2>2 DEF j
<1>6. KindOf(Node(Tree, p)) # "none"  OBVIOUS
<1> HIDE DEF p, k, n
<1>7. k \in 0..Len(p) /\ k < Len(p) /\ k + 1 \in 0..Len(p) /\ (k + 1 < Len(p) \/ n = 1)  BY <1>1
<1>8. \A i \in 0..Len(p) :
        /\ KindOf(Node(Tree, UpTo(p, i))) # "none"
        /\ i < Len(p) => /\ KindOf(Node(Tree, UpTo(p, i))) = "dir"
                         /\ p[i + 1] \in DOMAIN Tree[Node(Tree, UpTo(p, i))]
  BY <1>1, <1>6, ThroughDirectories
<1>9. KindOf(Node(Tree, c)) = "dir" /\ r[1] \in DOMAIN Tree[Node(Tree, c)]  BY <1>3, <1>4, <1>7, <1>8
<1>10. KindOf(Node(Tree, Append(c, r[1]))) # "none"  BY <1>5, <1>7, <1>8
<1>11. Tail(r) # <<>> => KindOf(Node(Tree, Append(c, r[1]))) = "dir"
  <2>1. Tail(r) # <<>> => Len(Tail(r)) # 0  BY <1>2, EmptySeq
  <2>2. Tail(r) # <<>> => n # 1  BY <1>1, <1>2, <2>1
  <2> QED  BY <1>5, <1>7, <1>8, <2>2
<1> QED  BY <1>9, <1>10, <1>11

----------------------------------------------------------------------------
(* What an entry of the walk stands for, told without a walk.             *)


\* What an entry of the walk stands for: the files at or below it, not deeper than the limit
\* and not the output.
InDepth(a, d) == a.max = 0 \/ d <= a.max
Gives(a, e, s) ==
  LET c == CanonIn(Tree, e.path) \o s
  IN  InDepth(a, e.depth + Len(s)) /\ KindOf(Node(Tree, c)) = "file" /\ ~IsOutput(a, c, Node(Tree, c))
Yields(a, e) ==
  IF KindOf(LStatIn(Tree, e.path)) = "link" THEN {}
  ELSE {e.path \o s : s \in {r \in Seq(Nat) : Gives(a, e, r)}}
Child(e, n) == [path |-> Append(e.path, n), depth |-> e.depth + 1]

LEMMA YieldsArePaths ==
  ASSUME NEW a, NEW e \in Entry
  PROVE  Yields(a, e) \subseteq Seq(Nat)
<1> SUFFICES ASSUME NEW s \in Seq(Nat) PROVE e.path \o s \in Seq(Nat)  BY DEF Yields
<1>1. e.path \in Seq(Nat)  BY DEF Entry, Paths
<1> QED  BY <1>1, LongerPath

LEMMA ChildIsEntry ==
  ASSUME NEW e \in Entry, NEW n \in Nat
  PROVE  Child(e, n) \in Entry /\ Child(e, n).path = Append(e.path, n) /\ Child(e, n).depth = e.depth + 1
<1>1. e.path \in Seq(Nat) /\ e.depth \in Nat  BY DEF Entry, Paths
<1>2. Append(e.path, n) \in Paths  BY <1>1, PathAppend
<1> QED  BY <1>1, <1>2 DEF Child, Entry

\* An entry that is no link, and no directory: itself, or nothing.
LEMMA YieldOfLeaf ==
  ASSUME NEW a, NEW e \in Entry, KindOf(LStatIn(Tree, e.path)) \notin {"link", "dir"}
  PROVE  Yields(a, e) = IF /\ KindOf(LStatIn(Tree, e.path)) = "file" /\ InDepth(a, e.depth)
                           /\ ~IsOutput(a, CanonIn(Tree, e.path), LStatIn(Tree, e.path))
                        THEN {e.path} ELSE {}
<1> DEFINE p == e.path
           c == CanonIn(Tree, p)
           i == LStatIn(Tree, p)
<1>1. p \in Paths /\ p \in Seq(Nat) /\ e.depth \in Nat  BY DEF Entry, Paths
<1>2. c \in Seq(Nat) /\ Node(Tree, c) = i  BY <1>1, CanonType, Ends, StartIsTree DEF StatIn
<1>3. KindOf(i) \notin {"link", "dir"}  OBVIOUS
<1>4. c \o <<>> = c /\ p \o <<>> = p /\ Len(<<>>) = 0 /\ <<>> \in Seq(Nat)
  BY <1>1, <1>2
<1>5. Yields(a, e) = {p \o s : s \in {r \in Seq(Nat) : Gives(a, e, r)}}  BY DEF Yields
<1>6. \A r : Gives(a, e, r) <=> /\ InDepth(a, e.depth + Len(r)) /\ KindOf(Node(Tree, c \o r)) = "file"
                                /\ ~IsOutput(a, c \o r, Node(Tree, c \o r))
  BY DEF Gives
<1> HIDE DEF c, i, p
<1>7. \A r \in Seq(Nat) : Gives(a, e, r) => r = <<>>
  <2> SUFFICES ASSUME NEW r \in Seq(Nat), Gives(a, e, r), r # <<>> PROVE FALSE  OBVIOUS
  <2>1. KindOf(Node(Tree, c \o r)) # "none"  BY <1>6
  <2> QED  BY <1>2, <1>3, <2>1, BeyondIt
<1>8. e.depth + 0 = e.depth  BY <1>1
<1>9. Gives(a, e, <<>>) <=> KindOf(i) = "file" /\ InDepth(a, e.depth) /\ ~IsOutput(a, c, i)
  BY <1>2, <1>4, <1>6, <1>8
<1>10. Yields(a, e) = IF KindOf(i) = "file" /\ InDepth(a, e.depth) /\ ~IsOutput(a, c, i) THEN {p} ELSE {}
  <2>1. CASE Gives(a, e, <<>>)
    <3>1. {r \in Seq(Nat) : Gives(a, e, r)} = {<<>>}  BY <1>4, <1>7, <2>1
    <3>2. Yields(a, e) = {p}  BY <1>4, <1>5, <3>1
    <3> QED  BY <1>9, <2>1, <3>2
  <2>2. CASE ~Gives(a, e, <<>>)
    <3>1. {r \in Seq(Nat) : Gives(a, e, r)} = {}  BY <1>7, <2>2
    <3>2. Yields(a, e) = {}  BY <1>5, <3>1
    <3> QED  BY <1>9, <2>2, <3>2
  <2> QED  BY <2>1, <2>2
<1> QED  BY <1>10 DEF c, i, p

\* A directory at the limit: nothing.
LEMMA YieldAtLimit ==
  ASSUME NEW a, a.max \in Nat, NEW e \in Entry, KindOf(LStatIn(Tree, e.path)) = "dir",
         ~(a.max = 0 \/ e.depth < a.max)
  PROVE  Yields(a, e) = {}
<1> DEFINE p == e.path
           c == CanonIn(Tree, p)
<1>1. p \in Paths /\ p \in Seq(Nat) /\ e.depth \in Nat  BY DEF Entry, Paths
<1>2. c \in Seq(Nat) /\ KindOf(Node(Tree, c)) = "dir"  BY <1>1, CanonType, Ends, StartIsTree DEF StatIn
<1>3. c \o <<>> = c  BY <1>2
<1>4. ASSUME NEW r \in Seq(Nat), Gives(a, e, r) PROVE FALSE
  <2>1. InDepth(a, e.depth + Len(r)) /\ KindOf(Node(Tree, c \o r)) = "file"  BY <1>4 DEF Gives
  <2>2. r # <<>>  BY <1>2, <1>3, <2>1
  <2>3. Len(r) \in Nat /\ Len(r) # 0  BY <2>2, EmptySeq
  <2> DEFINE d == e.depth
             m == a.max
             l == Len(r)
  <2>4. d \in Nat /\ m \in Nat /\ l \in Nat /\ l # 0 /\ ~(m = 0 \/ d < m) /\ (m = 0 \/ d + l <= m)
    BY <1>1, <2>1, <2>3 DEF InDepth
  <2> HIDE DEF d, m, l
  <2> QED  BY <2>4
<1> QED  BY <1>4 DEF Yields

\* A path by its first name and the rest.
LEMMA FirstName ==
  ASSUME NEW s \in Seq(Nat), s # <<>>
  PROVE  s[1] \in Nat /\ Tail(s) \in Seq(Nat) /\ s = <<s[1]>> \o Tail(s)
<1> DEFINE n == s[1]
           r == Tail(s)
           q == <<n>>
<1>1. n \in Nat /\ r \in Seq(Nat) /\ Len(r) = Len(s) - 1 /\ Len(s) \in Nat
      /\ \A k \in 1..Len(s) - 1 : r[k] = s[k + 1]
  OBVIOUS
<1> HIDE DEF r, n
<1>2. q \in Seq(Nat) /\ Len(q) = 1 /\ q[1] = n
  <2>1. n \in Nat  BY <1>1
  <2> QED  BY <2>1
<1> HIDE DEF q
<1>3. /\ q \o r \in Seq(Nat) /\ Len(q \o r) = Len(q) + Len(r)
      /\ \A k \in 1..Len(q) + Len(r) : (q \o r)[k] = IF k <= Len(q) THEN q[k] ELSE r[k - Len(q)]
  <2>1. q \in Seq(Nat) /\ r \in Seq(Nat)  BY <1>1, <1>2
  <2> QED  BY <2>1, ConcatProperties
<1>4. Len(q) + Len(r) = Len(s)  BY <1>1, <1>2
<1>5. ASSUME NEW k \in 1..Len(s) PROVE (q \o r)[k] = s[k]
  <2>1. k \in 1..Len(q) + Len(r)  BY <1>4
  <2>2. CASE k = 1
    <3>1. (q \o r)[k] = q[1]  BY <1>2, <1>3, <2>1, <2>2
    <3> QED  BY <1>2, <2>2, <3>1 DEF n
  <2>3. CASE k # 1
    <3>1. k - 1 \in 1..Len(s) - 1 /\ (k - 1) + 1 = k /\ ~(k <= 1)  BY <1>1, <2>3
    <3>2. (q \o r)[k] = r[k - 1]  BY <1>2, <1>3, <2>1, <3>1
    <3> QED  BY <1>1, <3>1, <3>2
  <2> QED  BY <2>2, <2>3
<1>6. s = q \o r  BY <1>3, <1>4, <1>5, SeqEqual
<1> QED  BY <1>1, <1>6 DEF q, r, n

\* A directory above the limit: what its entries stand for.
LEMMA YieldOfDir ==
  ASSUME NEW a, NEW e \in Entry, KindOf(LStatIn(Tree, e.path)) = "dir"
  PROVE  \A x : x \in Yields(a, e) <=>
                \E n \in DOMAIN Tree[StatIn(Tree, e.path)] : x \in Yields(a, Child(e, n))
<1> DEFINE p == e.path
           c == CanonIn(Tree, p)
           d == e.depth
           i == StatIn(Tree, p)
<1>1. p \in Paths /\ p \in Seq(Nat) /\ d \in Nat  BY DEF Entry, Paths
<1>2. c \in Seq(Nat) /\ Node(Tree, c) = i /\ KindOf(i) = "dir"  BY <1>1, CanonType, Ends, StartIsTree DEF StatIn
<1>3. DOMAIN Tree[i] \subseteq Nat
  <2>1. i \in Inodes /\ Kind[i] = "dir"  BY <1>2, KindTells
  <2> HIDE DEF i
  <2> QED  BY <2>1, StartIsTree DEF IsTree
<1>4. ASSUME NEW n \in Nat
      PROVE  /\ LStatIn(Tree, Append(p, n)) = Node(Tree, Append(c, n))
             /\ KindOf(Node(Tree, Append(c, n))) # "link" => CanonIn(Tree, Append(p, n)) = Append(c, n)
  <2>1. LStatIn(Tree, Append(p, n)) = Hop(Tree, i, n)  BY <1>1, Looks, StartIsTree
  <2>2. Node(Tree, Append(c, n)) = Hop(Tree, Node(Tree, c), n)  BY <1>2, NodeAppend, StartIsTree
  <2>3. KindOf(LStatIn(Tree, Append(p, n))) # "link" => CanonIn(Tree, Append(p, n)) = Append(c, n)
    BY <1>1, Looks, StartIsTree
  <2> QED  BY <1>2, <2>1, <2>2, <2>3
<1>5. Yields(a, e) = {p \o s : s \in {r \in Seq(Nat) : Gives(a, e, r)}}  BY DEF Yields
<1>6. \A r : Gives(a, e, r) <=> /\ InDepth(a, d + Len(r)) /\ KindOf(Node(Tree, c \o r)) = "file"
                                /\ ~IsOutput(a, c \o r, Node(Tree, c \o r))
  BY DEF Gives
<1>7. ASSUME NEW n \in Nat
      PROVE  /\ KindOf(Node(Tree, Append(c, n))) = "link" => Yields(a, Child(e, n)) = {}
             /\ KindOf(Node(Tree, Append(c, n))) # "link" =>
                  /\ Yields(a, Child(e, n)) = {Append(p, n) \o s : s \in {r \in Seq(Nat) : Gives(a, Child(e, n), r)}}
                  /\ \A r : Gives(a, Child(e, n), r) <=>
                              /\ InDepth(a, d + 1 + Len(r)) /\ KindOf(Node(Tree, Append(c, n) \o r)) = "file"
                              /\ ~IsOutput(a, Append(c, n) \o r, Node(Tree, Append(c, n) \o r))
  <2>1. Child(e, n).path = Append(p, n) /\ Child(e, n).depth = d + 1  BY DEF Child
  <2>2. LStatIn(Tree, Append(p, n)) = Node(Tree, Append(c, n))  BY <1>4
  <2> HIDE DEF c, d, p
  <2>3. KindOf(Node(Tree, Append(c, n))) = "link" => Yields(a, Child(e, n)) = {}  BY <2>1, <2>2 DEF Yields
  <2>4. ASSUME KindOf(Node(Tree, Append(c, n))) # "link"
        PROVE  Yields(a, Child(e, n)) = {Append(p, n) \o s : s \in {r \in Seq(Nat) : Gives(a, Child(e, n), r)}}
    BY <2>1, <2>2, <2>4 DEF Yields
  <2>5. ASSUME KindOf(Node(Tree, Append(c, n))) # "link"
        PROVE  \A r : Gives(a, Child(e, n), r) <=>
                        /\ InDepth(a, d + 1 + Len(r)) /\ KindOf(Node(Tree, Append(c, n) \o r)) = "file"
                        /\ ~IsOutput(a, Append(c, n) \o r, Node(Tree, Append(c, n) \o r))
    <3>1. CanonIn(Tree, Append(p, n)) = Append(c, n)  BY <1>4, <2>5
    <3> QED  BY <2>1, <3>1 DEF Gives
  <2> QED  BY <2>3, <2>4, <2>5
<1> HIDE DEF p, c, d, i
<1>8. ASSUME NEW n \in Nat, NEW r \in Seq(Nat), KindOf(Node(Tree, Append(c, n))) # "link"
      PROVE  Gives(a, Child(e, n), r) <=> Gives(a, e, <<n>> \o r)
  <2> DEFINE s == <<n>> \o r
  <2>1. Len(s) = Len(r) + 1 /\ Append(c, n) \o r = c \o s  BY <1>2, LongerPath
  <2>2. d + Len(s) = d + 1 + Len(r)
    <3>1. Len(r) \in Nat  OBVIOUS
    <3> HIDE DEF s
    <3> QED  BY <1>1, <2>1, <3>1
  <2> HIDE DEF s
  <2>3. Gives(a, Child(e, n), r) <=>
          /\ InDepth(a, d + 1 + Len(r)) /\ KindOf(Node(Tree, Append(c, n) \o r)) = "file"
          /\ ~IsOutput(a, Append(c, n) \o r, Node(Tree, Append(c, n) \o r))
    BY <1>7, <1>8
  <2>4. Gives(a, e, s) <=> /\ InDepth(a, d + Len(s)) /\ KindOf(Node(Tree, c \o s)) = "file"
                           /\ ~IsOutput(a, c \o s, Node(Tree, c \o s))
    BY <1>6
  <2>5. Gives(a, Child(e, n), r) <=> Gives(a, e, s)
    BY <2>1, <2>2, <2>3, <2>4
  <2> QED  BY <2>5 DEF s
<1>9. ASSUME NEW x, x \in Yields(a, e)
      PROVE  \E n \in DOMAIN Tree[i] : x \in Yields(a, Child(e, n))
  <2>1. PICK s \in Seq(Nat) : Gives(a, e, s) /\ x = p \o s  BY <1>5, <1>9
  <2>2. KindOf(Node(Tree, c \o s)) = "file"  BY <1>6, <2>1
  <2>3. s # <<>>
    <3>1. c \o <<>> = c  BY <1>2
    <3> QED  BY <1>2, <2>2, <3>1
  <2> DEFINE n == s[1]
             r == Tail(s)
  <2>4. n \in Nat /\ r \in Seq(Nat) /\ s = <<n>> \o r  BY <2>3, FirstName
  <2>5. /\ n \in DOMAIN Tree[Node(Tree, c)]
        /\ r # <<>> => KindOf(Node(Tree, Append(c, n))) = "dir"
    BY <1>2, <2>2, <2>3, BeyondIt
  <2> HIDE DEF n, r
  <2>6. KindOf(Node(Tree, Append(c, n))) # "link"
    <3>1. CASE r = <<>>
      <4>1. Append(c, n) \o r = c \o s  BY <1>2, <2>4, LongerPath
      <4>2. Append(c, n) \o <<>> = Append(c, n)  BY <1>2, <2>4
      <4> QED  BY <2>2, <3>1, <4>1, <4>2
    <3> QED  BY <2>5, <3>1
  <2>7. Gives(a, Child(e, n), r)  BY <1>8, <2>1, <2>4, <2>6
  <2>8. x = Append(p, n) \o r  BY <1>1, <2>1, <2>4, LongerPath
  <2>9. x \in Yields(a, Child(e, n))  BY <1>7, <2>4, <2>6, <2>7, <2>8
  <2> QED  BY <1>2, <2>5, <2>9
<1>10. ASSUME NEW x, NEW n \in DOMAIN Tree[i], x \in Yields(a, Child(e, n))
       PROVE  x \in Yields(a, e)
  <2>1. n \in Nat  BY <1>3
  <2>2. KindOf(Node(Tree, Append(c, n))) # "link"  BY <1>7, <1>10, <2>1
  <2>3. PICK r \in Seq(Nat) : Gives(a, Child(e, n), r) /\ x = Append(p, n) \o r  BY <1>7, <1>10, <2>1, <2>2
  <2>4. Gives(a, e, <<n>> \o r)  BY <1>8, <2>1, <2>2, <2>3
  <2>5. <<n>> \o r \in Seq(Nat) /\ x = p \o (<<n>> \o r)  BY <1>1, <2>1, <2>3, LongerPath
  <2> QED  BY <1>5, <2>4, <2>5
<1>11. \A x : x \in Yields(a, e) <=> \E n \in DOMAIN Tree[i] : x \in Yields(a, Child(e, n))
  BY <1>9, <1>10
<1> QED  BY <1>11 DEF i, p

\* Two entries of a directory: all of the one comes before all of the other.
LEMMA YieldsInOrder ==
  ASSUME NEW a, NEW e \in Entry, NEW m \in Nat, NEW n \in Nat, m < n,
         NEW x \in Yields(a, Child(e, m)), NEW y \in Yields(a, Child(e, n))
  PROVE  Lexicographic(x, y)
<1>1. e.path \in Seq(Nat)  BY DEF Entry, Paths
<1>2. Child(e, m).path = Append(e.path, m) /\ Child(e, n).path = Append(e.path, n)  BY DEF Child
<1>3. PICK r \in Seq(Nat) : x = Append(e.path, m) \o r  BY <1>2 DEF Yields
<1>4. PICK s \in Seq(Nat) : y = Append(e.path, n) \o s  BY <1>2 DEF Yields
<1> DEFINE p == e.path
<1> HIDE DEF p
<1>5. p \in Seq(Nat) /\ x = Append(p, m) \o r /\ y = Append(p, n) \o s  BY <1>1, <1>3, <1>4 DEF p
<1> QED  BY <1>5, OrderOfNames


\* A sequence over a set is one of the functions that Within collects.
LEMMA AsFunction ==
  ASSUME NEW S, NEW n \in Nat
  PROVE  \A r : r \in [1..n -> S] <=> r \in Seq(S) /\ Len(r) = n
  OBVIOUS

LEMMA WiderSeq ==
  ASSUME NEW S, NEW T, S \subseteq T
  PROVE  \A r \in Seq(S) : r \in Seq(T)
<1> SUFFICES ASSUME NEW r \in Seq(S) PROVE r \in Seq(T)  OBVIOUS
<1> DEFINE n == Len(r)
<1>1. n \in Nat /\ \A k \in 1..n : r[k] \in S  OBVIOUS
<1>2. r = [k \in 1..n |-> r[k]]  OBVIOUS
<1> HIDE DEF n
<1>3. \A k \in 1..n : r[k] \in T  BY <1>1
<1>4. r \in [1..n -> T]  BY <1>2, <1>3
<1> QED  BY <1>1, <1>4, AsFunction

\* What the model asks for under an input is what the input stands for.
LEMMA BelowIsYields ==
  ASSUME asked \in Scenarios, tree = Tree, NEW top \in Paths
  PROVE  Below(top) = Yields(asked, Top(top))
<1> DEFINE c == CanonIn(Tree, top)
           max == asked.max
           limit == IF max = 0 THEN Deepest ELSE max
<1>1. max \in Nat /\ Deepest \in Nat  BY ScenariosAssumption, TreeAssumption
<1>2. top \in Seq(Nat) /\ c \in Seq(Nat)  BY CanonType, StartIsTree DEF Paths
<1>3. LStat(top) = LStatIn(Tree, top) /\ Canon(top) = c /\ Names = EntryNames
  BY DEF LStat, Canon, Names, EntryNames
<1>4. \A p, i : SameAsOutput(p, i) <=> IsOutput(asked, p, i)
  BY DEF SameAsOutput, IsOutput, OnWindows, Stat, Canon
<1>5. Top(top).path = top /\ Top(top).depth = 0  BY DEF Top
<1>6. CASE KindOf(LStatIn(Tree, top)) = "link"
  BY <1>3, <1>5, <1>6 DEF Below, Yields
<1>7. CASE KindOf(LStatIn(Tree, top)) # "link"
  <2> DEFINE Good(r) == KindOf(Node(Tree, c \o r)) = "file" /\ ~IsOutput(asked, c \o r, Node(Tree, c \o r))
  <2>1. \A r \in Seq(Nat) : Gives(asked, Top(top), r) <=> (max = 0 \/ Len(r) <= max) /\ Good(r)
    <3> SUFFICES ASSUME NEW r \in Seq(Nat)
                 PROVE  Gives(asked, Top(top), r) <=> (max = 0 \/ Len(r) <= max) /\ Good(r)
      OBVIOUS
    <3>1. 0 + Len(r) = Len(r)  OBVIOUS
    <3> QED  BY <1>5, <3>1 DEF Gives, InDepth
  <2>2. Yields(asked, Top(top)) = {top \o s : s \in {r \in Seq(Nat) : Gives(asked, Top(top), r)}}
    BY <1>5, <1>7 DEF Yields
  <2>3. Below(top) = {top \o s : s \in {r \in Within(limit) : Good(r)}}
    <3>1. Below(top) = {top \o s : s \in {r \in Within(limit) :
                            LET i == Node(tree, Canon(top) \o r)
                            IN KindOf(i) = "file" /\ ~SameAsOutput(Canon(top) \o r, i)}}
      BY <1>3, <1>7 DEF Below
    <3>2. \A r : Good(r) <=> LET i == Node(tree, Canon(top) \o r)
                             IN KindOf(i) = "file" /\ ~SameAsOutput(Canon(top) \o r, i)
      BY <1>3, <1>4
    <3> HIDE DEF Good, limit, c
    <3> QED  BY <3>1, <3>2
  <2>4. limit \in Nat  BY <1>1
  <2> HIDE DEF limit
  <2>5. \A r : r \in Within(limit) <=> r \in Seq(EntryNames) /\ Len(r) <= limit
    <3>1. ASSUME NEW r, r \in Within(limit) PROVE r \in Seq(EntryNames) /\ Len(r) <= limit
      <4>1. PICK k \in 0..limit : r \in [1..k -> EntryNames]  BY <1>3, <3>1 DEF Within
      <4>2. k \in Nat /\ k <= limit  BY <2>4
      <4> QED  BY <4>1, <4>2, AsFunction
    <3>2. ASSUME NEW r, r \in Seq(EntryNames), Len(r) <= limit PROVE r \in Within(limit)
      <4>1. Len(r) \in Nat  BY <3>2
      <4> DEFINE k == Len(r)
      <4>2. k \in 0..limit  BY <2>4, <3>2, <4>1
      <4>3. r \in [1..k -> EntryNames]  BY <3>2, <4>1, AsFunction
      <4> HIDE DEF k
      <4> QED  BY <1>3, <4>2, <4>3 DEF Within
    <3> QED  BY <3>1, <3>2
  <2>6. ASSUME NEW r, r \in Seq(Nat), Good(r)
        PROVE  r \in Seq(EntryNames) /\ Len(r) \in Nat /\ Len(r) <= Deepest
    <3>1. KindOf(Node(Tree, c \o r)) # "none"  BY <2>6
    <3> DEFINE p == c \o r
    <3>2. /\ p \in Seq(Nat) /\ Len(p) = Len(c) + Len(r)
          /\ \A k \in 1..Len(c) + Len(r) : p[k] = IF k <= Len(c) THEN c[k] ELSE r[k - Len(c)]
      BY <1>2, <2>6, ConcatProperties
    <3> HIDE DEF p
    <3>3. Len(p) <= Deepest + 1 /\ \A k \in 1..Len(p) : p[k] \in EntryNames
      BY <3>1, <3>2, NotDeeper DEF p
    <3>4. Len(c) \in Nat /\ Len(c) >= 1
      <4>1. c \in Paths  BY <1>7, RealOfNoLink
      <4> HIDE DEF c
      <4>2. Len(c) # 0 /\ Len(c) \in Nat  BY <1>2, <4>1, EmptySeq DEF Paths, NoPath
      <4> QED  BY <4>2
    <3> DEFINE l == Len(c)
               n == Len(r)
    <3>5. n \in Nat  BY <2>6
    <3> HIDE DEF c, l, n
    <3>6. n <= Deepest  BY <1>1, <3>2, <3>3, <3>4, <3>5 DEF l, n
    <3>7. \A k \in 1..n : r[k] \in EntryNames
      <4> SUFFICES ASSUME NEW k \in 1..n PROVE r[k] \in EntryNames  OBVIOUS
      <4>1. k + l \in 1..l + n /\ ~(k + l <= l) /\ (k + l) - l = k  BY <3>4, <3>5 DEF l
      <4>2. p[k + l] = r[k] /\ k + l \in 1..Len(p)  BY <3>2, <4>1 DEF l, n
      <4> QED  BY <3>3, <4>2
    <3>8. r \in Seq(EntryNames)  BY <2>6, <3>5, <3>7 DEF n
    <3> QED  BY <3>5, <3>6, <3>8 DEF n
  <2> HIDE DEF Good
  <2>7. ASSUME NEW r
        PROVE  r \in Within(limit) /\ Good(r) <=> r \in Seq(Nat) /\ Gives(asked, Top(top), r)
    <3>1. ASSUME r \in Within(limit), Good(r) PROVE r \in Seq(Nat) /\ Gives(asked, Top(top), r)
      <4>1. r \in Seq(EntryNames) /\ Len(r) <= limit  BY <2>5, <3>1
      <4>2. r \in Seq(Nat)
        BY <4>1, NamesAreNumbers, WiderSeq
      <4>3. max = 0 \/ Len(r) <= max  BY <4>1 DEF limit
      <4> QED  BY <2>1, <3>1, <4>2, <4>3
    <3>2. ASSUME r \in Seq(Nat), Gives(asked, Top(top), r) PROVE r \in Within(limit) /\ Good(r)
      <4>1. (max = 0 \/ Len(r) <= max) /\ Good(r)  BY <2>1, <3>2
      <4>2. r \in Seq(EntryNames) /\ Len(r) <= Deepest  BY <2>6, <3>2, <4>1
      <4>3. Len(r) <= limit  BY <4>1, <4>2 DEF limit
      <4> QED  BY <2>5, <4>1, <4>2, <4>3
    <3> QED  BY <3>1, <3>2
  <2>8. {r \in Within(limit) : Good(r)} = {r \in Seq(Nat) : Gives(asked, Top(top), r)}
    BY <2>7
  <2> QED  BY <2>2, <2>3, <2>8
<1> QED  BY <1>6, <1>7

----------------------------------------------------------------------------
(* Lists one behind the other, and the one list that has a set's members  *)
(* in the order of the paths.                                             *)


\* The first m of the sequences s, one behind the other.
Lists == Seq(Seq(Nat))
Joined(s, m, w) ==
  \E f \in [0..m -> Lists] :
    /\ f[0] = <<>> /\ f[m] = w
    /\ \A k \in 1..m : s[k] \in Lists /\ f[k] = f[k - 1] \o s[k]

LEMMA JoinNone ==
  ASSUME NEW s
  PROVE  Joined(s, 0, <<>>)
<1> DEFINE f == [k \in 0..0 |-> <<>>]
<1>1. <<>> \in Lists  BY DEF Lists
<1>2. f \in [0..0 -> Lists] /\ f[0] = <<>>  BY <1>1
<1>3. 1..0 = {}  OBVIOUS
<1> HIDE DEF f
<1> QED  BY <1>2, <1>3 DEF Joined

LEMMA JoinMore ==
  ASSUME NEW s, NEW m \in Nat, NEW w, Joined(s, m, w), s[m + 1] \in Lists
  PROVE  w \in Lists /\ Joined(s, m + 1, w \o s[m + 1])
<1>1. PICK f \in [0..m -> Lists] : /\ f[0] = <<>> /\ f[m] = w
                                   /\ \A k \in 1..m : s[k] \in Lists /\ f[k] = f[k - 1] \o s[k]
  BY DEF Joined
<1> DEFINE n == m + 1
           v == w \o s[n]
           h == [k \in 0..n |-> IF k = n THEN v ELSE f[k]]
<1>2. n \in Nat /\ n - 1 = m /\ n # 0 /\ \A k \in 0..n : k = n \/ k \in 0..m  OBVIOUS
<1>3. w \in Lists  BY <1>1
<1>4. s[n] \in Lists  OBVIOUS
<1> HIDE DEF n
<1>5. v \in Lists
  <2>1. \A x, y \in Lists : x \o y \in Lists  BY ConcatProperties DEF Lists
  <2> QED  BY <1>3, <1>4, <2>1
<1> HIDE DEF v
<1>6. h \in [0..n -> Lists]  BY <1>1, <1>2, <1>5
<1>7. h[0] = <<>> /\ h[n] = v  BY <1>1, <1>2
<1>8. ASSUME NEW k \in 1..n PROVE s[k] \in Lists /\ h[k] = h[k - 1] \o s[k]
  <2>1. k - 1 \in 0..m /\ k - 1 # n /\ k - 1 \in 0..n /\ k \in 0..n  BY <1>2
  <2>2. h[k - 1] = f[k - 1]  BY <2>1
  <2>3. CASE k = n
    <3>1. h[k - 1] = w  BY <1>1, <1>2, <2>2, <2>3
    <3>2. h[k] = v  BY <1>7, <2>3
    <3> QED  BY <1>4, <2>3, <3>1, <3>2 DEF v
  <2>4. CASE k # n
    <3>1. k \in 1..m  BY <1>2, <2>4
    <3>2. h[k] = f[k]  BY <2>1, <2>4
    <3> QED  BY <1>1, <2>2, <3>1, <3>2
  <2> QED  BY <2>3, <2>4
<1> HIDE DEF h
<1>9. Joined(s, n, v)  BY <1>6, <1>7, <1>8 DEF Joined
<1> QED  BY <1>3, <1>9 DEF n, v

\* All of them: what FlattenSeq makes of them.
LEMMA JoinAll ==
  ASSUME NEW n \in Nat, NEW s, s = [k \in 1..n |-> s[k]], NEW w, Joined(s, n, w)
  PROVE  w = FlattenSeq(s)
<1>1. PICK f \in [0..n -> Lists] : /\ f[0] = <<>> /\ f[n] = w
                                   /\ \A k \in 1..n : s[k] \in Lists /\ f[k] = f[k - 1] \o s[k]
  BY DEF Joined
<1>2. Len(s) = n
  <2>1. s \in Seq(Lists)  BY <1>1
  <2>2. DOMAIN s = 1..n  OBVIOUS
  <2> QED  BY <2>1, <2>2
<1>3. CASE n = 0
  <2>1. s = <<>>
    <3>1. s \in Seq(Lists)  BY <1>1
    <3> QED  BY <1>2, <1>3, <3>1
  <2> QED  BY <1>1, <1>2, <1>3, <2>1 DEF FlattenSeq
<1>4. CASE n # 0
  <2> DEFINE Is(at) == at = [i \in 1..n |-> IF i = 1 THEN s[i] ELSE at[i - 1] \o s[i]]
             h == [i \in 1..n |-> f[i]]
  <2>1. f[1] = s[1]
    <3>1. 1 \in 1..n /\ 1 - 1 = 0  BY <1>4
    <3>2. f[1] = f[0] \o s[1] /\ s[1] \in Lists  BY <1>1, <3>1
    <3>3. \A x \in Lists : <<>> \o x = x  BY DEF Lists
    <3> QED  BY <1>1, <3>2, <3>3
  <2>2. Is(h)
    <3>1. ASSUME NEW i \in 1..n PROVE h[i] = IF i = 1 THEN s[i] ELSE h[i - 1] \o s[i]
      <4>1. CASE i = 1  BY <2>1, <4>1
      <4>2. CASE i # 1
        <5>1. i - 1 \in 1..n  BY <4>2
        <5>2. h[i - 1] = f[i - 1] /\ h[i] = f[i]  BY <5>1
        <5> QED  BY <1>1, <4>2, <5>2
      <4> QED  BY <4>1, <4>2
    <3> HIDE DEF h
    <3>2. h = [i \in 1..n |-> h[i]]  BY DEF h
    <3> QED  BY <3>1, <3>2
  <2>3. Is(CHOOSE g : Is(g))  BY <2>2
  <2> DEFINE c == CHOOSE g : Is(g)
  <2>4. FlattenSeq(s) = c[n]  BY <1>2, <1>4 DEF FlattenSeq
  <2> HIDE DEF c
  <2>5. Is(c)  BY <2>3 DEF c
  <2>6. \A k \in 0..n : k \in {j \in 0..n : j = 0 \/ c[j] = f[j]}
    <3> DEFINE S == {j \in 0..n : j = 0 \/ c[j] = f[j]}
    <3>1. 0 \in S  OBVIOUS
    <3>2. ASSUME NEW k \in 1..n, k - 1 \in S PROVE k \in S
      <4>1. c[k] = IF k = 1 THEN s[k] ELSE c[k - 1] \o s[k]
        <5> DEFINE G(i) == IF i = 1 THEN s[i] ELSE c[i - 1] \o s[i]
        <5>1. c = [i \in 1..n |-> G(i)]  BY <2>5
        <5> HIDE DEF G
        <5>2. c[k] = G(k)  BY <5>1
        <5> QED  BY <5>2 DEF G
      <4>2. CASE k = 1  BY <2>1, <4>1, <4>2
      <4>3. CASE k # 1
        <5>1. c[k - 1] = f[k - 1]  BY <3>2, <4>3
        <5>2. f[k] = f[k - 1] \o s[k]  BY <1>1
        <5>3. c[k] = c[k - 1] \o s[k]  BY <4>1, <4>3
        <5>4. c[k] = f[k]  BY <5>1, <5>2, <5>3
        <5> QED  BY <5>4
      <4> QED  BY <4>2, <4>3
    <3> HIDE DEF S
    <3>3. \A k \in 0..n : k \in S  BY <3>1, <3>2, Along
    <3> QED  BY <3>3 DEF S
  <2>7. c[n] = f[n]
    <3>1. n \in 0..n  OBVIOUS
    <3> QED  BY <1>4, <2>6, <3>1
  <2> QED  BY <1>1, <2>4, <2>7
<1> QED  BY <1>3, <1>4

\* A list in the order of the paths is InOrder of what is in it.
LEMMA OneOrder ==
  ASSUME NEW l \in Lists, NEW S, \A x : x \in S <=> \E k \in 1..Len(l) : l[k] = x,
         \A j, k \in 1..Len(l) : j < k => Lexicographic(l[j], l[k])
  PROVE  InOrder(S) = l
<1> DEFINE n == Len(l)
           Before(p) == {q \in S : Lexicographic(q, p)}
<1>1. n \in Nat /\ l = [k \in 1..n |-> l[k]] /\ \A k \in 1..n : l[k] \in Seq(Nat)  BY DEF Lists
<1> HIDE DEF n
<1>2. \A k \in 1..n : l[k] \in S  BY DEF n
<1>3. \A x \in S : \E k \in 1..n : l[k] = x  BY DEF n
<1>4. \A j, k \in 1..n : j < k => Lexicographic(l[j], l[k])  BY DEF n
<1>5. \A j, k \in 1..n : Lexicographic(l[j], l[k]) => j < k
  <2> SUFFICES ASSUME NEW j \in 1..n, NEW k \in 1..n, Lexicographic(l[j], l[k]), ~(j < k) PROVE FALSE
    OBVIOUS
  <2>1. ~Lexicographic(l[k], l[j])  BY <1>1, OrderIsStrict
  <2>2. j = k  BY <1>1, <1>4, <2>1
  <2> QED  BY <2>1, <2>2
<1>6. ASSUME NEW k \in 0..n
      PROVE  /\ IsFiniteSet({l[j] : j \in 1..k}) /\ Cardinality({l[j] : j \in 1..k}) = k
  <2> DEFINE T == {l[j] : j \in 1..k}
             f == [j \in 1..k |-> l[j]]
  <2>1. k \in Nat /\ k \in Int /\ \A j \in 1..k : j \in 1..n  BY <1>1
  <2>2. IsFiniteSet(1..k) /\ Cardinality(1..k) = k
    <3>1. IsFiniteSet(1..k) /\ Cardinality(1..k) = IF 1 > k THEN 0 ELSE k - 1 + 1  BY <2>1, FS_Interval
    <3>2. (IF 1 > k THEN 0 ELSE k - 1 + 1) = k  BY <2>1
    <3> QED  BY <3>1, <3>2
  <2>3. \A i, j \in 1..k : l[i] = l[j] => i = j
    <3> SUFFICES ASSUME NEW i \in 1..k, NEW j \in 1..k, l[i] = l[j], i # j PROVE FALSE
      OBVIOUS
    <3>1. i < j \/ j < i  BY <2>1
    <3>2. Lexicographic(l[i], l[j]) \/ Lexicographic(l[j], l[i])  BY <1>4, <2>1, <3>1
    <3>3. Lexicographic(l[i], l[i])  BY <3>2
    <3> QED  BY <1>1, <2>1, <3>3, OrderIsStrict
  <2>4. f \in Bijection(1..k, T)
    <3>1. f \in [1..k -> T] /\ \A x \in T : \E j \in 1..k : f[j] = x  OBVIOUS
    <3>2. \A i, j \in 1..k : f[i] = f[j] => i = j  BY <2>3
    <3> HIDE DEF f, T
    <3>3. f \in Injection(1..k, T)
      <4>1. DOMAIN f = 1..k  BY <3>1
      <4>2. IsInjective(f)  BY <3>2, <4>1 DEF IsInjective
      <4> QED  BY <3>1, <4>2 DEF Injection
    <3>4. f \in Surjection(1..k, T)  BY <3>1 DEF Surjection
    <3> QED  BY <3>3, <3>4 DEF Bijection
  <2>5. ExistsBijection(1..k, T)  BY <2>4 DEF ExistsBijection
  <2> HIDE DEF T
  <2>6. IsFiniteSet(T) /\ Cardinality(T) = k  BY <2>2, <2>5, FS_Bijection
  <2> QED  BY <2>6 DEF T
<1>7. S = {l[j] : j \in 1..n}  BY <1>2, <1>3
<1>8. Cardinality(S) = n
  <2>1. n \in 0..n  BY <1>1
  <2> QED  BY <1>6, <1>7, <2>1
<1>9. ASSUME NEW k \in 1..n PROVE Cardinality(Before(l[k])) = k - 1
  <2> DEFINE i == k - 1
  <2>1. i \in 0..n /\ \A j \in 1..n : j < k <=> j \in 1..i  BY <1>1
  <2>2. \A j \in 1..i : j \in 1..n  BY <1>1
  <2>3. Before(l[k]) = {l[j] : j \in 1..i}
    <3> HIDE DEF i
    <3>1. ASSUME NEW x, x \in Before(l[k]) PROVE x \in {l[j] : j \in 1..i}
      <4>1. PICK j \in 1..n : l[j] = x  BY <1>3, <3>1
      <4>2. j < k  BY <1>5, <3>1, <4>1
      <4> QED  BY <2>1, <4>1, <4>2
    <3>2. ASSUME NEW j \in 1..i PROVE l[j] \in Before(l[k])
      <4>1. j \in 1..n /\ j < k  BY <2>1, <2>2
      <4> QED  BY <1>2, <1>4, <4>1
    <3> HIDE DEF Before
    <3> QED  BY <3>1, <3>2
  <2> HIDE DEF i, Before
  <2>4. Cardinality(Before(l[k])) = i  BY <1>6, <2>1, <2>3
  <2> QED  BY <2>4 DEF i
<1>10. ASSUME NEW k \in 1..n
       PROVE  (CHOOSE p \in S : Cardinality(Before(p)) = k - 1) = l[k]
  <2> DEFINE c == CHOOSE p \in S : Cardinality(Before(p)) = k - 1
  <2>1. c \in S /\ Cardinality(Before(c)) = k - 1
    <3> HIDE DEF Before
    <3>1. l[k] \in S /\ Cardinality(Before(l[k])) = k - 1  BY <1>2, <1>9
    <3> QED  BY <3>1
  <2> HIDE DEF c
  <2>2. PICK j \in 1..n : l[j] = c  BY <1>3, <2>1
  <2> HIDE DEF Before
  <2>3. j - 1 = k - 1  BY <1>9, <2>1, <2>2
  <2>4. j = k  BY <1>1, <2>3
  <2>5. c = l[k]  BY <2>2, <2>4
  <2> QED  BY <2>5 DEF c
<1>11. InOrder(S) = [k \in 1..n |-> CHOOSE p \in S : Cardinality(Before(p)) = k - 1]
  BY <1>8 DEF InOrder
<1> HIDE DEF Before
<1>12. [k \in 1..n |-> CHOOSE p \in S : Cardinality(Before(p)) = k - 1] = [k \in 1..n |-> l[k]]
  BY <1>10
<1> QED  BY <1>1, <1>11, <1>12

----------------------------------------------------------------------------
(* What the walk has found of an input and what it has yet to visit of it *)
(* are, together and in this order, all that the input stands for.        *)


\* S is what was found, cur, and what the first n of the list t stand for, in this order.
InOrderSoFar(cur) == \A j, k \in 1..Len(cur) : j < k => Lexicographic(cur[j], cur[k])
Accounts(a, t, n, cur, S) ==
  \A x : x \in S <=> (\E k \in 1..Len(cur) : cur[k] = x) \/ (\E k \in 1..n : x \in Yields(a, t[k]))
FoundFirst(a, t, n, cur) ==
  \A j \in 1..Len(cur), k \in 1..n : \A y \in Yields(a, t[k]) : Lexicographic(cur[j], y)
OneByOne(a, t, n) ==
  \A j, k \in 1..n :
    j < k => \A x \in Yields(a, t[j]), y \in Yields(a, t[k]) : Lexicographic(x, y)
Covers(a, t, n, cur, S) ==
  InOrderSoFar(cur) /\ Accounts(a, t, n, cur, S) /\ FoundFirst(a, t, n, cur) /\ OneByOne(a, t, n)

\* One entry and nothing found yet.
LEMMA CoversFirst ==
  ASSUME NEW a, NEW t
  PROVE  Covers(a, t, 1, <<>>, Yields(a, t[1]))
<1>1. Len(<<>>) = 0 /\ 1..0 = {} /\ \A k \in 1..1 : k = 1  OBVIOUS
<1>2. InOrderSoFar(<<>>) /\ FoundFirst(a, t, 1, <<>>)  BY <1>1 DEF InOrderSoFar, FoundFirst
<1>3. Accounts(a, t, 1, <<>>, Yields(a, t[1]))  BY <1>1 DEF Accounts
<1>4. OneByOne(a, t, 1)
  <2>1. \A j, k \in 1..1 : ~(j < k)  OBVIOUS
  <2> QED  BY <2>1 DEF OneByOne
<1> QED  BY <1>2, <1>3, <1>4 DEF Covers

\* Everything is found.
LEMMA CoversAll ==
  ASSUME NEW a, NEW t, NEW cur \in Lists, NEW S, Covers(a, t, 0, cur, S)
  PROVE  InOrder(S) = cur
<1>1. 1..0 = {}  OBVIOUS
<1>2. \A x : x \in S <=> \E k \in 1..Len(cur) : cur[k] = x  BY <1>1 DEF Covers, Accounts
<1>3. \A j, k \in 1..Len(cur) : j < k => Lexicographic(cur[j], cur[k])  BY DEF Covers, InOrderSoFar
<1> QED  BY <1>2, <1>3, OneOrder

\* The first entry stands for nothing.
LEMMA CoversDropped ==
  ASSUME NEW a, NEW t, NEW n \in Nat, n >= 1, NEW cur, NEW S, Covers(a, t, n, cur, S),
         Yields(a, t[1]) = {}, NEW u, \A k \in 1..n - 1 : u[k] = t[k + 1]
  PROVE  Covers(a, u, n - 1, cur, S)
<1>0. /\ \A k \in 1..n - 1 : k + 1 \in 1..n
      /\ \A k \in 1..n : k # 1 => k - 1 \in 1..n - 1 /\ (k - 1) + 1 = k
      /\ \A j, k \in 1..n - 1 : j < k => j + 1 < k + 1
  OBVIOUS
<1>1. \A k \in 1..n - 1 : Yields(a, u[k]) = Yields(a, t[k + 1])  OBVIOUS
<1>2. InOrderSoFar(cur)  BY DEF Covers
<1>3. Accounts(a, u, n - 1, cur, S)
  <2> SUFFICES ASSUME NEW x
               PROVE  x \in S <=> \/ \E k \in 1..Len(cur) : cur[k] = x
                                  \/ \E k \in 1..n - 1 : x \in Yields(a, u[k])
    BY DEF Accounts
  <2>1. x \in S <=> (\E k \in 1..Len(cur) : cur[k] = x) \/ (\E k \in 1..n : x \in Yields(a, t[k]))
    BY DEF Covers, Accounts
  <2>2. (\E k \in 1..n : x \in Yields(a, t[k])) <=> \E k \in 1..n - 1 : x \in Yields(a, u[k])
    <3>1. ASSUME NEW k \in 1..n, x \in Yields(a, t[k]) PROVE \E j \in 1..n - 1 : x \in Yields(a, u[j])
      <4>1. k # 1  BY <3>1
      <4>2. k - 1 \in 1..n - 1 /\ (k - 1) + 1 = k  BY <1>0, <4>1
      <4>3. Yields(a, u[k - 1]) = Yields(a, t[k])  BY <1>1, <4>2
      <4> QED  BY <3>1, <4>2, <4>3
    <3>2. ASSUME NEW k \in 1..n - 1, x \in Yields(a, u[k]) PROVE \E j \in 1..n : x \in Yields(a, t[j])
      BY <1>0, <1>1, <3>2
    <3> QED  BY <3>1, <3>2
  <2> QED  BY <2>1, <2>2
<1>4. FoundFirst(a, u, n - 1, cur)
  <2>1. FoundFirst(a, t, n, cur)  BY DEF Covers
  <2> QED  BY <1>0, <1>1, <2>1 DEF FoundFirst
<1>5. OneByOne(a, u, n - 1)
  <2>1. OneByOne(a, t, n)  BY DEF Covers
  <2> SUFFICES ASSUME NEW j \in 1..n - 1, NEW k \in 1..n - 1, j < k,
                      NEW x \in Yields(a, u[j]), NEW y \in Yields(a, u[k])
               PROVE  Lexicographic(x, y)
    BY DEF OneByOne
  <2>2. j + 1 \in 1..n /\ k + 1 \in 1..n /\ j + 1 < k + 1  BY <1>0
  <2>3. x \in Yields(a, t[j + 1]) /\ y \in Yields(a, t[k + 1])  BY <1>1
  <2> QED  BY <2>1, <2>2, <2>3 DEF OneByOne
<1> QED  BY <1>2, <1>3, <1>4, <1>5 DEF Covers

\* The first entry is a file and is taken.
LEMMA CoversTaken ==
  ASSUME NEW a, NEW t, NEW n \in Nat, n >= 1, NEW cur \in Lists, NEW S, Covers(a, t, n, cur, S),
         NEW p \in Seq(Nat), Yields(a, t[1]) = {p}, NEW u, \A k \in 1..n - 1 : u[k] = t[k + 1]
  PROVE  Covers(a, u, n - 1, Append(cur, p), S)
<1>0. /\ \A k \in 1..n - 1 : k + 1 \in 1..n /\ 1 < k + 1
      /\ \A k \in 1..n : k # 1 => k - 1 \in 1..n - 1 /\ (k - 1) + 1 = k
      /\ \A j, k \in 1..n - 1 : j < k => j + 1 < k + 1
      /\ 1 \in 1..n
  OBVIOUS
<1>1. \A k \in 1..n - 1 : Yields(a, u[k]) = Yields(a, t[k + 1])  OBVIOUS
<1> DEFINE new == Append(cur, p)
           m == Len(cur)
<1>2. /\ m \in Nat /\ new \in Lists /\ Len(new) = m + 1 /\ new[m + 1] = p
      /\ \A k \in 1..m : new[k] = cur[k]
  BY AppendProperties DEF Lists
<1> HIDE DEF new
<1>3. /\ \A k \in 1..m + 1 : k \in 1..m \/ k = m + 1
      /\ \A k \in 1..m : k \in 1..m + 1
      /\ m + 1 \in 1..m + 1
  BY <1>2
<1>4. InOrderSoFar(cur) /\ Accounts(a, t, n, cur, S) /\ FoundFirst(a, t, n, cur) /\ OneByOne(a, t, n)
  BY DEF Covers
<1>5. \A j \in 1..m : Lexicographic(cur[j], p)  BY <1>0, <1>4 DEF FoundFirst
<1> HIDE DEF m
<1>6. InOrderSoFar(new)
  <2> SUFFICES ASSUME NEW j \in 1..m + 1, NEW k \in 1..m + 1, j < k PROVE Lexicographic(new[j], new[k])
    BY <1>2 DEF InOrderSoFar
  <2>1. j \in 1..m  BY <1>2
  <2>2. CASE k \in 1..m
    <3>1. Lexicographic(cur[j], cur[k])  BY <1>4, <2>1, <2>2 DEF InOrderSoFar, m
    <3> QED  BY <1>2, <2>1, <2>2, <3>1
  <2>3. CASE k = m + 1  BY <1>2, <1>5, <2>1, <2>3
  <2> QED  BY <1>3, <2>2, <2>3
<1>7. Accounts(a, u, n - 1, new, S)
  <2> SUFFICES ASSUME NEW x
               PROVE  x \in S <=> \/ \E k \in 1..m + 1 : new[k] = x
                                  \/ \E k \in 1..n - 1 : x \in Yields(a, u[k])
    BY <1>2 DEF Accounts
  <2>1. x \in S <=> (\E k \in 1..m : cur[k] = x) \/ (\E k \in 1..n : x \in Yields(a, t[k]))
    BY <1>4 DEF Accounts, m
  <2>2. (\E k \in 1..m + 1 : new[k] = x) <=> (\E k \in 1..m : cur[k] = x) \/ x = p
    BY <1>2, <1>3
  <2>3. (\E k \in 1..n : x \in Yields(a, t[k])) <=> x = p \/ \E k \in 1..n - 1 : x \in Yields(a, u[k])
    <3>1. ASSUME NEW k \in 1..n, x \in Yields(a, t[k]), k # 1 PROVE \E j \in 1..n - 1 : x \in Yields(a, u[j])
      <4>2. k - 1 \in 1..n - 1 /\ (k - 1) + 1 = k  BY <1>0, <3>1
      <4>3. Yields(a, u[k - 1]) = Yields(a, t[k])  BY <1>1, <4>2
      <4> QED  BY <3>1, <4>2, <4>3
    <3>2. ASSUME NEW k \in 1..n - 1, x \in Yields(a, u[k]) PROVE \E j \in 1..n : x \in Yields(a, t[j])
      BY <1>0, <1>1, <3>2
    <3>3. x \in Yields(a, t[1]) <=> x = p  OBVIOUS
    <3> QED  BY <1>0, <3>1, <3>2, <3>3
  <2> QED  BY <2>1, <2>2, <2>3
<1>8. FoundFirst(a, u, n - 1, new)
  <2> SUFFICES ASSUME NEW j \in 1..m + 1, NEW k \in 1..n - 1, NEW y \in Yields(a, u[k])
               PROVE  Lexicographic(new[j], y)
    BY <1>2 DEF FoundFirst
  <2>1. k + 1 \in 1..n /\ 1 < k + 1 /\ y \in Yields(a, t[k + 1])  BY <1>0, <1>1
  <2>2. CASE j \in 1..m
    <3>1. Lexicographic(cur[j], y)  BY <1>4, <2>1, <2>2 DEF FoundFirst, m
    <3> QED  BY <1>2, <2>2, <3>1
  <2>3. CASE j = m + 1
    <3>1. p \in Yields(a, t[1])  OBVIOUS
    <3>2. Lexicographic(p, y)  BY <1>0, <1>4, <2>1, <3>1 DEF OneByOne
    <3> QED  BY <1>2, <2>3, <3>2
  <2> QED  BY <1>3, <2>2, <2>3
<1>9. OneByOne(a, u, n - 1)
  <2> SUFFICES ASSUME NEW j \in 1..n - 1, NEW k \in 1..n - 1, j < k,
                      NEW x \in Yields(a, u[j]), NEW y \in Yields(a, u[k])
               PROVE  Lexicographic(x, y)
    BY DEF OneByOne
  <2>2. j + 1 \in 1..n /\ k + 1 \in 1..n /\ j + 1 < k + 1  BY <1>0
  <2>3. x \in Yields(a, t[j + 1]) /\ y \in Yields(a, t[k + 1])  BY <1>1
  <2> QED  BY <1>4, <2>2, <2>3 DEF OneByOne
<1>10. Covers(a, u, n - 1, new, S)  BY <1>6, <1>7, <1>8, <1>9 DEF Covers
<1> QED  BY <1>10 DEF new

\* The first entry is a directory: its c entries take its place.
LEMMA CoversOpened ==
  ASSUME NEW a, NEW t, NEW n \in Nat, n >= 1, NEW cur, NEW S, Covers(a, t, n, cur, S),
         NEW c \in Nat, NEW u,
         \A x : x \in Yields(a, t[1]) <=> \E k \in 1..c : x \in Yields(a, u[k]),
         OneByOne(a, u, c),
         \A k \in 2..n : u[c + (k - 1)] = t[k]
  PROVE  Covers(a, u, c + (n - 1), cur, S)
<1> DEFINE m == c + (n - 1)
           At(k) == IF k <= c THEN 1 ELSE (k - c) + 1
<1>0. m \in Nat /\ 1 \in 1..n  OBVIOUS
<1>1. ASSUME NEW k \in 1..m
      PROVE  /\ At(k) \in 1..n /\ \A x \in Yields(a, u[k]) : x \in Yields(a, t[At(k)])
  <2>1. CASE k <= c
    <3>1. k \in 1..c /\ At(k) = 1  BY <1>1, <2>1
    <3> QED  BY <1>0, <3>1
  <2>2. CASE ~(k <= c)
    <3> DEFINE i == (k - c) + 1
    <3>1. i \in 2..n /\ i \in 1..n /\ c + (i - 1) = k /\ At(k) = i  BY <1>1, <2>2
    <3> HIDE DEF i, At
    <3>2. u[k] = t[i]
      <4>1. u[c + (i - 1)] = t[i]  BY <3>1
      <4> QED  BY <3>1, <4>1
    <3> QED  BY <3>1, <3>2
  <2> QED  BY <2>1, <2>2
<1>2. ASSUME NEW k \in 1..n, NEW x \in Yields(a, t[k]) PROVE \E j \in 1..m : x \in Yields(a, u[j])
  <2>1. CASE k = 1
    <3>1. PICK j \in 1..c : x \in Yields(a, u[j])  BY <2>1
    <3>2. j \in 1..m  OBVIOUS
    <3> QED  BY <3>1, <3>2
  <2>2. CASE k # 1
    <3>1. k \in 2..n /\ c + (k - 1) \in 1..m  BY <2>2
    <3>2. u[c + (k - 1)] = t[k]  BY <3>1
    <3> QED  BY <3>1, <3>2
  <2> QED  BY <2>1, <2>2
<1>3. ASSUME NEW j \in 1..m, NEW k \in 1..m, j < k PROVE At(j) < At(k) \/ (j \in 1..c /\ k \in 1..c)
  <2>1. CASE k <= c  BY <1>3, <2>1
  <2>2. CASE ~(k <= c)
    <3>1. At(k) = (k - c) + 1 /\ k - c >= 1  BY <2>2
    <3>2. CASE j <= c  BY <3>1, <3>2
    <3>3. CASE ~(j <= c)  BY <1>3, <3>1, <3>3
    <3> QED  BY <3>2, <3>3
  <2> QED  BY <2>1, <2>2
<1>4. InOrderSoFar(cur) /\ Accounts(a, t, n, cur, S) /\ FoundFirst(a, t, n, cur) /\ OneByOne(a, t, n)
  BY DEF Covers
<1> HIDE DEF m, At
<1>5. Accounts(a, u, m, cur, S)
  <2> SUFFICES ASSUME NEW x
               PROVE  x \in S <=> \/ \E k \in 1..Len(cur) : cur[k] = x
                                  \/ \E k \in 1..m : x \in Yields(a, u[k])
    BY DEF Accounts
  <2>1. x \in S <=> (\E k \in 1..Len(cur) : cur[k] = x) \/ (\E k \in 1..n : x \in Yields(a, t[k]))
    BY <1>4 DEF Accounts
  <2>2. (\E k \in 1..n : x \in Yields(a, t[k])) <=> \E k \in 1..m : x \in Yields(a, u[k])
    BY <1>1, <1>2
  <2> QED  BY <2>1, <2>2
<1>6. FoundFirst(a, u, m, cur)  BY <1>1, <1>4 DEF FoundFirst
<1>7. OneByOne(a, u, m)
  <2> SUFFICES ASSUME NEW j \in 1..m, NEW k \in 1..m, j < k,
                      NEW x \in Yields(a, u[j]), NEW y \in Yields(a, u[k])
               PROVE  Lexicographic(x, y)
    BY DEF OneByOne
  <2>1. CASE At(j) < At(k)  BY <1>1, <1>4, <2>1 DEF OneByOne
  <2>2. CASE j \in 1..c /\ k \in 1..c  BY <2>2 DEF OneByOne
  <2> QED  BY <1>3, <2>1, <2>2
<1>8. Covers(a, u, m, cur, S)  BY <1>4, <1>5, <1>6, <1>7 DEF Covers
<1> QED  BY <1>8 DEF m


\* What is asked for, input by input; what is left of the inputs behind the first n of t.
Asks(a) == [k \in 1..Len(a.inputs) |-> InOrder(Yields(a, Top(a.inputs[k])))]
Behind(a, t, n, m) ==
  /\ Len(t) = n + (Len(a.inputs) - m)
  /\ \A k \in 1..Len(a.inputs) - m : t[n + k] = Top(a.inputs[m + k])

\* Between two inputs, m of them done; and in the m-th, with n entries of it to visit.
Fresh(a, t, o, m) ==
  m \in 0..Len(a.inputs) /\ t \in Seq(Entry) /\ Behind(a, t, 0, m) /\ Joined(Asks(a), m, o)
Amid(a, t, o, m, n, cur, done) ==
  /\ m \in 1..Len(a.inputs) /\ n \in Nat /\ t \in Seq(Entry) /\ Behind(a, t, n, m)
  /\ \A k \in 1..n : InDepth(a, t[k].depth)
  /\ Joined(Asks(a), m - 1, done) /\ done \in Lists /\ cur \in Lists /\ o = done \o cur
  /\ Covers(a, t, n, cur, Yields(a, Top(a.inputs[m])))
Walking(a, t, o) ==
  \/ \E m : Fresh(a, t, o, m)
  \/ \E m, n, cur, done : Amid(a, t, o, m, n, cur, done)

LEMMA InputsAreEntries ==
  ASSUME NEW a \in Scenarios
  PROVE  /\ Len(a.inputs) \in Nat /\ a.max \in Nat
         /\ \A k \in 1..Len(a.inputs) : a.inputs[k] \in Paths /\ Top(a.inputs[k]) \in Entry
         /\ InDepth(a, 0)
<1>1. a.inputs \in Seq(Paths) /\ a.max \in Nat  BY ScenariosAssumption
<1>2. Len(a.inputs) \in Nat /\ \A k \in 1..Len(a.inputs) : a.inputs[k] \in Paths  BY <1>1
<1>3. \A p \in Paths : Top(p) \in Entry  BY DEF Top, Entry
<1>4. InDepth(a, 0)  BY <1>1 DEF InDepth
<1> QED  BY <1>1, <1>2, <1>3, <1>4

\* The next input is begun.
LEMMA Begun ==
  ASSUME NEW a \in Scenarios, NEW t, NEW o, NEW m, Fresh(a, t, o, m), t # <<>>
  PROVE  Amid(a, t, o, m + 1, 1, <<>>, o)
<1> DEFINE l == Len(a.inputs)
<1>1. l \in Nat /\ InDepth(a, 0)  BY InputsAreEntries
<1>2. /\ m \in 0..l /\ t \in Seq(Entry) /\ Len(t) = 0 + (l - m)
      /\ \A k \in 1..l - m : t[0 + k] = Top(a.inputs[m + k])
      /\ Joined(Asks(a), m, o)
  BY DEF Fresh, Behind
<1>3. Len(t) \in Nat /\ Len(t) # 0  BY <1>2, EmptySeq
<1> HIDE DEF l
<1>4. m + 1 \in 1..l /\ 1 \in 1..l - m  BY <1>1, <1>2, <1>3
<1>5. t[1] = Top(a.inputs[m + 1])
  <2>1. t[0 + 1] = Top(a.inputs[m + 1])  BY <1>2, <1>4
  <2> QED  BY <2>1
<1>6. Behind(a, t, 1, m + 1)
  <2>1. Len(t) = 1 + (l - (m + 1))  BY <1>1, <1>2, <1>4
  <2>2. ASSUME NEW k \in 1..l - (m + 1) PROVE t[1 + k] = Top(a.inputs[(m + 1) + k])
    <3>1. k + 1 \in 1..l - m /\ 0 + (k + 1) = 1 + k /\ m + (k + 1) = (m + 1) + k
      <4>1. m \in Nat  BY <1>1, <1>2
      <4> QED  BY <1>1, <1>4, <2>2, <4>1
    <3>2. t[0 + (k + 1)] = Top(a.inputs[m + (k + 1)])  BY <1>2, <3>1
    <3> QED  BY <3>1, <3>2
  <2> QED  BY <2>1, <2>2 DEF Behind, l
<1>7. \A k \in 1..1 : InDepth(a, t[k].depth)
  <2>1. t[1].depth = 0 /\ \A k \in 1..1 : k = 1  BY <1>5 DEF Top
  <2> QED  BY <1>1, <2>1
<1>8. o \in Lists /\ <<>> \in Lists /\ o = o \o <<>>
  <2>1. o \in Lists
    <3>1. m \in 0..m  BY <1>1, <1>2
    <3> QED  BY <1>2, <3>1 DEF Joined
  <2>2. \A x \in Lists : x \o <<>> = x  BY DEF Lists
  <2> QED  BY <2>1, <2>2 DEF Lists
<1>9. (m + 1) - 1 = m  BY <1>1, <1>2
<1>10. Covers(a, t, 1, <<>>, Yields(a, Top(a.inputs[m + 1])))
  <2>1. Covers(a, t, 1, <<>>, Yields(a, t[1]))  BY CoversFirst
  <2> QED  BY <1>5, <2>1
<1>11. Joined(Asks(a), (m + 1) - 1, o)  BY <1>2, <1>9
<1> QED  BY <1>2, <1>4, <1>6, <1>7, <1>8, <1>10, <1>11 DEF Amid, l

\* Nothing is left of an input: what was found in it is all of it, in its order.
LEMMA Settled ==
  ASSUME NEW a \in Scenarios, NEW t, NEW o, NEW m, NEW cur, NEW done, Amid(a, t, o, m, 0, cur, done)
  PROVE  Fresh(a, t, o, m)
<1> DEFINE l == Len(a.inputs)
<1>1. l \in Nat  BY InputsAreEntries
<1>2. /\ m \in 1..l /\ t \in Seq(Entry) /\ Behind(a, t, 0, m)
      /\ Joined(Asks(a), m - 1, done) /\ cur \in Lists /\ o = done \o cur
      /\ Covers(a, t, 0, cur, Yields(a, Top(a.inputs[m])))
  BY DEF Amid
<1>3. InOrder(Yields(a, Top(a.inputs[m]))) = cur  BY <1>2, CoversAll
<1>4. Asks(a)[m] = cur  BY <1>2, <1>3 DEF Asks
<1> DEFINE j == m - 1
<1>5. j \in Nat /\ j + 1 = m  BY <1>1, <1>2
<1> HIDE DEF j, l
<1>6. Joined(Asks(a), j, done)  BY <1>2 DEF j
<1>7. Asks(a)[j + 1] \in Lists  BY <1>2, <1>4, <1>5
<1>8. Joined(Asks(a), j + 1, done \o Asks(a)[j + 1])  BY <1>5, <1>6, <1>7, JoinMore
<1>9. Joined(Asks(a), m, o)  BY <1>2, <1>4, <1>5, <1>8
<1>10. m \in 0..l  BY <1>1, <1>2
<1> QED  BY <1>2, <1>9, <1>10 DEF Fresh, l

\* As long as there is something to visit, the walk is in one of the inputs.
LEMMA GoesOn ==
  ASSUME NEW a \in Scenarios, NEW t, NEW o, Walking(a, t, o), t # <<>>
  PROVE  \E m, n, cur, done : n >= 1 /\ Amid(a, t, o, m, n, cur, done)
<1>1. ASSUME NEW m, Fresh(a, t, o, m)
      PROVE  \E k, n, cur, done : n >= 1 /\ Amid(a, t, o, k, n, cur, done)
  <2>1. Amid(a, t, o, m + 1, 1, <<>>, o) /\ 1 >= 1  BY <1>1, Begun
  <2> QED  BY <2>1
<1>2. ASSUME NEW m, NEW n, NEW cur, NEW done, Amid(a, t, o, m, n, cur, done)
      PROVE  \E k, i, c, d : i >= 1 /\ Amid(a, t, o, k, i, c, d)
  <2>1. n \in Nat  BY <1>2 DEF Amid
  <2>2. CASE n = 0
    <3>1. Fresh(a, t, o, m)  BY <1>2, <2>2, Settled
    <3> QED  BY <1>1, <3>1
  <2>3. CASE n >= 1  BY <1>2, <2>3
  <2> QED  BY <2>1, <2>2, <2>3
<1> QED  BY <1>1, <1>2 DEF Walking

\* When there is nothing to visit, all that was asked for is found.
LEMMA HasAll ==
  ASSUME NEW a \in Scenarios, NEW t, NEW o, Walking(a, t, o), t = <<>>
  PROVE  o = FlattenSeq(Asks(a))
<1> DEFINE l == Len(a.inputs)
<1>1. l \in Nat  BY InputsAreEntries
<1>2. Len(t) = 0  OBVIOUS
<1>3. ASSUME NEW m, Fresh(a, t, o, m) PROVE o = FlattenSeq(Asks(a))
  <2>1. m \in 0..l /\ Len(t) = 0 + (l - m) /\ Joined(Asks(a), m, o)  BY <1>3 DEF Fresh, Behind
  <2>2. m = l
    <3> HIDE DEF l
    <3> QED  BY <1>1, <1>2, <2>1
  <2>3. Asks(a) = [k \in 1..l |-> Asks(a)[k]]  BY DEF Asks
  <2> DEFINE s == Asks(a)
  <2> HIDE DEF s, l
  <2>4. s = [k \in 1..l |-> s[k]] /\ Joined(s, l, o)  BY <2>1, <2>2, <2>3 DEF s
  <2>5. o = FlattenSeq(s)  BY <1>1, <2>4, JoinAll
  <2> QED  BY <2>5 DEF s
<1>4. ASSUME NEW m, NEW n, NEW cur, NEW done, Amid(a, t, o, m, n, cur, done)
      PROVE  o = FlattenSeq(Asks(a))
  <2>1. n \in Nat /\ m \in 1..l /\ Len(t) = n + (l - m)  BY <1>4 DEF Amid, Behind
  <2>2. n = 0
    <3> HIDE DEF l
    <3> QED  BY <1>1, <1>2, <2>1
  <2>3. Fresh(a, t, o, m)  BY <1>4, <2>2, Settled
  <2> QED  BY <1>3, <2>3
<1> QED  BY <1>3, <1>4 DEF Walking

\* Without the first entry.
LEMMA TailOfAmid ==
  ASSUME NEW a \in Scenarios, NEW t \in Seq(Entry), NEW n \in Nat, n >= 1, NEW m \in 1..Len(a.inputs),
         Behind(a, t, n, m)
  PROVE  /\ t # <<>> /\ Tail(t) \in Seq(Entry) /\ Len(Tail(t)) = Len(t) - 1 /\ Len(t) \in Nat
         /\ \A k \in 1..Len(t) - 1 : Tail(t)[k] = t[k + 1]
         /\ \A k \in 1..n - 1 : Tail(t)[k] = t[k + 1] /\ k + 1 \in 1..n
         /\ Behind(a, Tail(t), n - 1, m)
<1> DEFINE l == Len(a.inputs)
           u == Tail(t)
<1>1. l \in Nat  BY InputsAreEntries
<1>2. Len(t) = n + (l - m) /\ Len(t) \in Nat /\ \A k \in 1..l - m : t[n + k] = Top(a.inputs[m + k])
  BY DEF Behind
<1> HIDE DEF l
<1>3. m \in 1..l  BY DEF l
<1>4. Len(t) >= n /\ Len(t) # 0  BY <1>1, <1>2, <1>3
<1>5. t # <<>>  BY <1>4
<1>6. u \in Seq(Entry) /\ Len(u) = Len(t) - 1 /\ \A k \in 1..Len(t) - 1 : u[k] = t[k + 1]
  BY <1>5
<1> HIDE DEF u
<1>7. \A k \in 1..n - 1 : k \in 1..Len(t) - 1 /\ k + 1 \in 1..n  BY <1>2, <1>4
<1>8. Behind(a, u, n - 1, m)
  <2>1. Len(u) = (n - 1) + (l - m)  BY <1>1, <1>2, <1>3, <1>6
  <2>2. ASSUME NEW k \in 1..l - m PROVE u[(n - 1) + k] = Top(a.inputs[m + k])
    <3>1. (n - 1) + k \in 1..Len(t) - 1 /\ ((n - 1) + k) + 1 = n + k  BY <1>1, <1>2, <1>3
    <3> QED  BY <1>2, <1>6, <3>1
  <2> QED  BY <2>1, <2>2 DEF Behind, l
<1> QED  BY <1>2, <1>5, <1>6, <1>7, <1>8 DEF u

\* What is to be visited is not deeper than the limit.
LEMMA FirstInDepth ==
  ASSUME NEW a \in Scenarios, NEW t, NEW o, Walking(a, t, o), t # <<>>
  PROVE  InDepth(a, t[1].depth)
<1>1. PICK m, n, cur, done : n >= 1 /\ Amid(a, t, o, m, n, cur, done)  BY GoesOn
<1>2. n \in Nat /\ \A k \in 1..n : InDepth(a, t[k].depth)  BY <1>1 DEF Amid
<1>3. 1 \in 1..n  BY <1>1, <1>2
<1> QED  BY <1>2, <1>3

\* The first entry stands for nothing and is passed over.
LEMMA DropsFirst ==
  ASSUME NEW a \in Scenarios, NEW t, NEW o, Walking(a, t, o), t # <<>>, Yields(a, t[1]) = {}
  PROVE  Walking(a, Tail(t), o)
<1>1. PICK m, n, cur, done : n >= 1 /\ Amid(a, t, o, m, n, cur, done)  BY GoesOn
<1> DEFINE u == Tail(t)
           S == Yields(a, Top(a.inputs[m]))
           i == n - 1
<1>2. /\ m \in 1..Len(a.inputs) /\ n \in Nat /\ t \in Seq(Entry) /\ Behind(a, t, n, m)
      /\ \A k \in 1..n : InDepth(a, t[k].depth)
      /\ Joined(Asks(a), m - 1, done) /\ done \in Lists /\ cur \in Lists /\ o = done \o cur
      /\ Covers(a, t, n, cur, S)
  BY <1>1 DEF Amid
<1>3. /\ u \in Seq(Entry) /\ Behind(a, u, i, m) /\ \A k \in 1..i : u[k] = t[k + 1] /\ k + 1 \in 1..n
  BY <1>1, <1>2, TailOfAmid
<1> HIDE DEF u, S
<1>4. Covers(a, u, i, cur, S)
  <2> HIDE DEF i
  <2>1. \A k \in 1..n - 1 : u[k] = t[k + 1]  BY <1>3 DEF i
  <2>2. Covers(a, u, n - 1, cur, S)  BY <1>1, <1>2, <2>1, CoversDropped
  <2> QED  BY <2>2 DEF i
<1>5. i \in Nat  BY <1>1, <1>2
<1> HIDE DEF i
<1>6. \A k \in 1..i : InDepth(a, u[k].depth)  BY <1>2, <1>3
<1>7. Amid(a, u, o, m, i, cur, done)  BY <1>2, <1>3, <1>4, <1>5, <1>6 DEF Amid, S
<1> QED  BY <1>7 DEF Walking, u

\* The first entry is a file and is taken.
LEMMA TakesFirst ==
  ASSUME NEW a \in Scenarios, NEW t, NEW o, Walking(a, t, o), t # <<>>,
         NEW p \in Seq(Nat), Yields(a, t[1]) = {p}
  PROVE  Walking(a, Tail(t), Append(o, p))
<1>1. PICK m, n, cur, done : n >= 1 /\ Amid(a, t, o, m, n, cur, done)  BY GoesOn
<1> DEFINE u == Tail(t)
           S == Yields(a, Top(a.inputs[m]))
           i == n - 1
           new == Append(cur, p)
<1>2. /\ m \in 1..Len(a.inputs) /\ n \in Nat /\ t \in Seq(Entry) /\ Behind(a, t, n, m)
      /\ \A k \in 1..n : InDepth(a, t[k].depth)
      /\ Joined(Asks(a), m - 1, done) /\ done \in Lists /\ cur \in Lists /\ o = done \o cur
      /\ Covers(a, t, n, cur, S)
  BY <1>1 DEF Amid
<1>3. /\ u \in Seq(Entry) /\ Behind(a, u, i, m) /\ \A k \in 1..i : u[k] = t[k + 1] /\ k + 1 \in 1..n
  BY <1>1, <1>2, TailOfAmid
<1> HIDE DEF u, S
<1>4. Covers(a, u, i, new, S)
  <2> HIDE DEF i
  <2>1. \A k \in 1..n - 1 : u[k] = t[k + 1]  BY <1>3 DEF i
  <2>2. Covers(a, u, n - 1, Append(cur, p), S)  BY <1>1, <1>2, <2>1, CoversTaken
  <2> QED  BY <2>2 DEF i
<1>5. i \in Nat  BY <1>1, <1>2
<1> HIDE DEF i
<1>6. \A k \in 1..i : InDepth(a, u[k].depth)  BY <1>2, <1>3
<1>7. new \in Lists /\ Append(o, p) = done \o new
  <2>1. \A x, y \in Lists : Append(x \o y, p) = x \o Append(y, p) /\ Append(y, p) \in Lists
    <3> SUFFICES ASSUME NEW x \in Seq(Seq(Nat)), NEW y \in Seq(Seq(Nat))
                 PROVE  Append(x \o y, p) = x \o Append(y, p) /\ Append(y, p) \in Seq(Seq(Nat))
      BY DEF Lists
    <3>1. <<p>> \in Seq(Seq(Nat)) /\ Append(y, p) = y \o <<p>> /\ Append(y, p) \in Seq(Seq(Nat))
      OBVIOUS
    <3>2. x \o y \in Seq(Seq(Nat))  BY ConcatProperties
    <3>3. Append(x \o y, p) = (x \o y) \o <<p>>  BY <3>2
    <3>4. (x \o y) \o <<p>> = x \o (y \o <<p>>)  BY <3>1, ConcatAssociative
    <3> QED  BY <3>1, <3>3, <3>4
  <2> QED  BY <1>2, <2>1
<1> HIDE DEF new
<1>8. Amid(a, u, Append(o, p), m, i, new, done)  BY <1>2, <1>3, <1>4, <1>5, <1>6, <1>7 DEF Amid, S
<1> QED  BY <1>8 DEF Walking, u

\* The first entry is a directory, whose entries take its place.
LEMMA OpensFirst ==
  ASSUME NEW a \in Scenarios, NEW t, NEW o, Walking(a, t, o), t # <<>>,
         NEW new \in Seq(Entry), OneByOne(a, new, Len(new)),
         \A k \in 1..Len(new) : InDepth(a, new[k].depth),
         \A x : x \in Yields(a, t[1]) <=> \E k \in 1..Len(new) : x \in Yields(a, new[k])
  PROVE  Walking(a, new \o Tail(t), o)
<1>1. PICK m, n, cur, done : n >= 1 /\ Amid(a, t, o, m, n, cur, done)  BY GoesOn
<1> DEFINE rest == Tail(t)
           u == new \o rest
           S == Yields(a, Top(a.inputs[m]))
           c == Len(new)
           i == n - 1
           l == Len(a.inputs)
<1>2. /\ m \in 1..l /\ n \in Nat /\ t \in Seq(Entry) /\ Behind(a, t, n, m)
      /\ \A k \in 1..n : InDepth(a, t[k].depth)
      /\ Joined(Asks(a), m - 1, done) /\ done \in Lists /\ cur \in Lists /\ o = done \o cur
      /\ Covers(a, t, n, cur, S)
  BY <1>1 DEF Amid
<1>3. /\ rest \in Seq(Entry) /\ Behind(a, rest, i, m) /\ Len(rest) = Len(t) - 1 /\ Len(t) \in Nat
      /\ \A k \in 1..i : rest[k] = t[k + 1] /\ k + 1 \in 1..n
  BY <1>1, <1>2, TailOfAmid
<1>4. c \in Nat /\ l \in Nat /\ i \in Nat /\ i + 1 = n  BY <1>1, <1>2, InputsAreEntries
<1> HIDE DEF rest, S, i
<1>5. Len(rest) = i + (l - m) /\ Len(rest) \in Nat /\ Len(rest) >= i
      /\ \A k \in 1..l - m : rest[i + k] = Top(a.inputs[m + k])
  <2>1. Len(rest) = i + (l - m) /\ \A k \in 1..l - m : rest[i + k] = Top(a.inputs[m + k])
    BY <1>3 DEF Behind
  <2> HIDE DEF l
  <2> QED  BY <1>2, <1>4, <2>1
<1>6. /\ u \in Seq(Entry) /\ Len(u) = c + Len(rest)
      /\ \A k \in 1..c + Len(rest) : u[k] = IF k <= c THEN new[k] ELSE rest[k - c]
  <2>1. new \in Seq(Entry) /\ rest \in Seq(Entry)  BY <1>3
  <2> QED  BY <2>1, ConcatProperties
<1> HIDE DEF u, c, l
<1>7. \A k \in 1..c : u[k] = new[k]
  <2>1. \A k \in 1..c : k \in 1..c + Len(rest) /\ k <= c  BY <1>4, <1>5
  <2> QED  BY <1>6, <2>1
<1>8. \A k \in 1..Len(rest) : u[c + k] = rest[k]
  <2>1. \A k \in 1..Len(rest) : c + k \in 1..c + Len(rest) /\ ~(c + k <= c) /\ (c + k) - c = k  BY <1>4, <1>5
  <2> QED  BY <1>6, <2>1
<1>9. Covers(a, u, c + i, cur, S)
  <2>1. \A k \in 2..n : u[c + (k - 1)] = t[k]
    <3> SUFFICES ASSUME NEW k \in 2..n PROVE u[c + (k - 1)] = t[k]  OBVIOUS
    <3> DEFINE j == k - 1
    <3>1. j \in 1..i /\ j \in 1..Len(rest) /\ j + 1 = k  BY <1>2, <1>4, <1>5
    <3> HIDE DEF j
    <3>2. u[c + j] = t[k]  BY <1>3, <1>8, <3>1
    <3> QED  BY <3>2 DEF j
  <2>2. OneByOne(a, u, c)
    <3>1. \A j, k \in 1..c : j < k => \A x \in Yields(a, new[j]), y \in Yields(a, new[k]) : Lexicographic(x, y)
      BY DEF OneByOne, c
    <3> QED  BY <1>7, <3>1 DEF OneByOne
  <2>3. \A x : x \in Yields(a, t[1]) <=> \E k \in 1..c : x \in Yields(a, u[k])
    <3>1. \A x : x \in Yields(a, t[1]) <=> \E k \in 1..c : x \in Yields(a, new[k])  BY DEF c
    <3> QED  BY <1>7, <3>1
  <2>4. Covers(a, u, c + (n - 1), cur, S)  BY <1>1, <1>2, <1>4, <2>1, <2>2, <2>3, CoversOpened
  <2> QED  BY <2>4 DEF i
<1>10. Behind(a, u, c + i, m)
  <2>1. Len(u) = (c + i) + (l - m)  BY <1>2, <1>4, <1>5, <1>6
  <2>2. ASSUME NEW k \in 1..l - m PROVE u[(c + i) + k] = Top(a.inputs[m + k])
    <3>1. i + k \in 1..Len(rest) /\ c + (i + k) = (c + i) + k  BY <1>2, <1>4, <1>5, <2>2
    <3>2. u[c + (i + k)] = rest[i + k]  BY <1>8, <3>1
    <3> QED  BY <1>5, <3>1, <3>2
  <2> QED  BY <2>1, <2>2 DEF Behind, l
<1>11. \A k \in 1..c + i : InDepth(a, u[k].depth)
  <2> SUFFICES ASSUME NEW k \in 1..c + i PROVE InDepth(a, u[k].depth)  OBVIOUS
  <2>1. CASE k <= c
    <3>1. k \in 1..c  BY <1>4, <2>1
    <3>2. InDepth(a, new[k].depth)  BY <3>1 DEF c
    <3> QED  BY <1>7, <3>1, <3>2
  <2>2. CASE ~(k <= c)
    <3> DEFINE j == k - c
    <3>1. j \in 1..i /\ j \in 1..Len(rest) /\ c + j = k  BY <1>4, <1>5, <2>2
    <3> HIDE DEF j
    <3>2. u[k] = t[j + 1] /\ j + 1 \in 1..n  BY <1>3, <1>8, <3>1
    <3> QED  BY <1>2, <3>2
  <2> QED  BY <2>1, <2>2
<1>12. c + i \in Nat  BY <1>4
<1>13. Amid(a, u, o, m, c + i, cur, done)  BY <1>2, <1>6, <1>9, <1>10, <1>11, <1>12 DEF Amid, S, l
<1> QED  BY <1>13 DEF Walking, u, rest

----------------------------------------------------------------------------
(* The walk finds what was asked for.                                     *)


\* What Judge makes of an entry, by what the entry is.
LEMMA JudgeVerdict ==
  ASSUME Judge
  PROVE  LET e == Head(todo)
             x == MatchesExclude(e.path)
         IN  /\ stage' \in {"failed", "walk", "readdir"}
             /\ stage' = "failed" \/ ~x \/ (stage' = "walk" /\ out' = out /\ todo' = Tail(todo))
             /\ ~x /\ Kind[meta] = "file" =>
                  stage' = "walk" /\ out' = Append(out, e.path) /\ todo' = Tail(todo)
             /\ ~x /\ Kind[meta] = "dir" /\ Descends(e.depth) => stage' = "readdir" /\ out' = out /\ todo' = todo
             /\ ~x /\ Kind[meta] = "dir" /\ ~Descends(e.depth) =>
                  stage' = "walk" /\ out' = out /\ todo' = Tail(todo)
             /\ ~x /\ Kind[meta] \notin {"file", "dir"} =>
                  stage' = "failed" \/ (stage' = "walk" /\ out' = out /\ todo' = Tail(todo))
<1> DEFINE e == Head(todo)
           x == MatchesExclude(e.path)
           v == Verdict(e)
<1>1. /\ out' = IF v = "take" THEN Append(out, e.path) ELSE out
      /\ todo' = IF v \in {"take", "drop"} THEN Tail(todo) ELSE todo
      /\ stage' = CASE v = "refuse" -> "failed" [] v = "descend" -> "readdir" [] OTHER -> "walk"
  BY DEF Judge, Goto
<1> DEFINE d == Descends(e.depth)
<1>2. v = IF x THEN IF e.depth = 0 THEN "refuse" ELSE "drop"
          ELSE CASE Kind[meta] = "file" -> "take"
                 [] Kind[meta] = "dir" /\ d -> "descend"
                 [] Kind[meta] = "other" /\ e.depth = 0 -> "refuse"
                 [] OTHER -> "drop"
  BY DEF Verdict
<1> HIDE DEF v, x, d, e
<1>3. ASSUME x PROVE v \in {"refuse", "drop"}  BY <1>2, <1>3
<1>4. ASSUME ~x, Kind[meta] = "file" PROVE v = "take"  BY <1>2, <1>4
<1>5. ASSUME ~x, Kind[meta] = "dir", d PROVE v = "descend"  BY <1>2, <1>5
<1>6. ASSUME ~x, Kind[meta] = "dir", ~d PROVE v = "drop"  BY <1>2, <1>6
<1>7. ASSUME ~x, Kind[meta] \notin {"file", "dir"} PROVE v \in {"refuse", "drop"}
  BY <1>2, <1>7
<1>8. /\ v = "refuse" => stage' = "failed"
      /\ v = "drop" => stage' = "walk" /\ out' = out /\ todo' = Tail(todo)
      /\ v = "take" => stage' = "walk" /\ out' = Append(out, e.path) /\ todo' = Tail(todo)
      /\ v = "descend" => stage' = "readdir" /\ out' = out /\ todo' = todo
  BY <1>1
<1>9. stage' \in {"failed", "walk", "readdir"}  BY <1>1
<1> QED  BY <1>3, <1>4, <1>5, <1>6, <1>7, <1>8, <1>9 DEF x, d, e

\* As long as nobody exchanges anything: until pass 1 the walk is in its list, and then it
\* has found all that was asked for.
WalksOn == stage \in {"output", "exclude", "walk", "judge", "readdir"} => Walking(asked, todo, out)
MayDescend == stage = "readdir" => asked.max = 0 \/ Head(todo).depth < asked.max
FoundAll == stage \in {"stat", "name", "read", "create", "done"} => out = FlattenSeq(Asks(asked))
FoundParts == WalksOn /\ MayDescend /\ FoundAll

OutputIsNoDir == KindOf(StatIn(Tree, asked.output)) # "dir"
FoundInv == swapped = {} /\ OutputIsNoDir => FoundParts

LEMMA FoundInit == Init => FoundInv
<1> SUFFICES ASSUME Init PROVE FoundParts  BY DEF FoundInv
<1> DEFINE l == Len(asked.inputs)
<1>1. asked \in Scenarios /\ out = <<>> /\ stage = "output" /\ todo = [k \in 1..l |-> Top(asked.inputs[k])]
  BY DEF Init
<1>2. l \in Nat /\ \A k \in 1..l : Top(asked.inputs[k]) \in Entry  BY <1>1, InputsAreEntries
<1>3. todo \in Seq(Entry) /\ Len(todo) = l /\ \A k \in 1..l : todo[k] = Top(asked.inputs[k])
  <2> HIDE DEF l
  <2> QED  BY <1>1, <1>2
<1>4. Behind(asked, todo, 0, 0)
  <2> HIDE DEF l
  <2>1. Len(todo) = 0 + (l - 0)  BY <1>2, <1>3
  <2>2. ASSUME NEW k \in 1..l - 0 PROVE todo[0 + k] = Top(asked.inputs[0 + k])
    <3>1. 0 + k = k /\ k \in 1..l  BY <1>2, <2>2
    <3> QED  BY <1>3, <3>1
  <2> QED  BY <2>1, <2>2 DEF Behind, l
<1>5. Joined(Asks(asked), 0, out)  BY <1>1, JoinNone
<1>6. 0 \in 0..l  BY <1>2
<1>7. Fresh(asked, todo, out, 0)  BY <1>3, <1>4, <1>5, <1>6 DEF Fresh
<1>8. Walking(asked, todo, out)  BY <1>7 DEF Walking
<1> QED  BY <1>1, <1>8 DEF FoundParts, WalksOn, MayDescend, FoundAll

\* The links are passed over.
LEMMA VisitFinds ==
  ASSUME TypeInv, tree = Tree, Walking(asked, todo, out), Visit
  PROVE  Walking(asked, todo', out')
<1>1. todo # <<>> /\ out' = out /\ asked \in Scenarios  BY DEF Visit, TypeInv, TreeInv
<1> DEFINE e == Head(todo)
           i == LStat(e.path)
<1>2. e = todo[1] /\ i = LStatIn(Tree, e.path)  BY <1>1, FirstTodo DEF LStat
<1>3. todo' = IF KindOf(i) = "link" THEN Tail(todo) ELSE todo  BY DEF Visit
<1> HIDE DEF e, i
<1>4. CASE KindOf(i) = "link"
  <2>1. Yields(asked, e) = {}  BY <1>2, <1>4 DEF Yields
  <2>2. Yields(asked, todo[1]) = {}  BY <1>2, <2>1
  <2>3. Walking(asked, Tail(todo), out)  BY <1>1, <2>2, DropsFirst
  <2> QED  BY <1>1, <1>3, <1>4, <2>3
<1>5. CASE KindOf(i) # "link"  BY <1>1, <1>3, <1>5
<1> QED  BY <1>4, <1>5

\* What is taken, and what is dropped.
LEMMA JudgeFinds ==
  ASSUME TypeInv, QuietParts, OutputIsNoDir, tree = Tree, Walking(asked, todo, out), Judge,
         stage' # "failed"
  PROVE  /\ Walking(asked, todo', out')
         /\ stage' = "readdir" => todo' = todo /\ (asked.max = 0 \/ Head(todo).depth < asked.max)
<1> DEFINE e == Head(todo)
           p == e.path
           i == LStatIn(Tree, p)
           x == MatchesExclude(p)
           d == Descends(e.depth)
           a == asked
<1>1. a \in Scenarios /\ a.max \in Nat  BY ScenariosAssumption DEF TypeInv, TreeInv
<1>2. /\ todo # <<>> /\ meta = i /\ KindOf(i) = Kind[meta]
      /\ x <=> IsOutput(a, CanonIn(Tree, p), i)
  BY JudgeKnows
<1>3. KindOf(i) \notin {"link", "none"}
  <2>1. stage = "judge"  BY DEF Judge
  <2> QED  BY <1>2, <2>1 DEF TypeInv, WalkInv
<1>4. e \in Entry /\ e = todo[1] /\ p \in Paths /\ e.depth \in Nat  BY <1>2, FirstTodo
<1>5. d <=> a.max = 0 \/ e.depth < a.max  BY DEF Descends
<1>6. /\ x => stage' = "walk" /\ out' = out /\ todo' = Tail(todo)
      /\ ~x /\ KindOf(i) = "file" => stage' = "walk" /\ out' = Append(out, p) /\ todo' = Tail(todo)
      /\ ~x /\ KindOf(i) = "dir" /\ d => stage' = "readdir" /\ out' = out /\ todo' = todo
      /\ ~x /\ KindOf(i) = "dir" /\ ~d => stage' = "walk" /\ out' = out /\ todo' = Tail(todo)
      /\ ~x /\ KindOf(i) \notin {"file", "dir"} => stage' = "walk" /\ out' = out /\ todo' = Tail(todo)
  BY <1>2, JudgeVerdict
<1>7. InDepth(a, e.depth)
  <2>1. InDepth(a, todo[1].depth)  BY <1>1, <1>2, FirstInDepth
  <2> QED  BY <1>4, <2>1
<1>8. x => KindOf(i) # "dir"
  <2> SUFFICES ASSUME x, KindOf(i) = "dir" PROVE FALSE  OBVIOUS
  <2>1. IsOutput(a, CanonIn(Tree, p), i)  BY <1>2
  <2>2. StatIn(Tree, p) = i  BY <1>3, <1>4, Ends, StartIsTree
  <2>3. i = StatIn(Tree, a.output)
    <3>1. CASE a.system = "windows"
      <4>1. CanonIn(Tree, p) = CanonIn(Tree, a.output)  BY <2>1, <3>1 DEF IsOutput
      <4> QED  BY <2>2, <4>1 DEF StatIn
    <3>2. CASE a.system # "windows"  BY <2>1, <3>2 DEF IsOutput
    <3> QED  BY <3>1, <3>2
  <2> QED  BY <2>3 DEF OutputIsNoDir
<1>9. CASE ~x /\ KindOf(i) = "dir" /\ d
  <2>1. stage' = "readdir" /\ out' = out /\ todo' = todo  BY <1>6, <1>9
  <2>2. Walking(a, todo', out')  BY <2>1
  <2> QED  BY <1>5, <1>9, <2>1, <2>2
<1>10. CASE ~x /\ KindOf(i) = "file"
  <2>1. ~IsOutput(a, CanonIn(Tree, p), i)  BY <1>2, <1>10
  <2>2. Yields(a, e) = {p}  BY <1>4, <1>7, <1>10, <2>1, YieldOfLeaf
  <2>3. stage' = "walk" /\ out' = Append(out, p) /\ todo' = Tail(todo)  BY <1>6, <1>10
  <2>4. p \in Seq(Nat)  BY <1>4 DEF Paths
  <2> HIDE DEF e, p, a
  <2>5. Yields(a, todo[1]) = {p}  BY <1>4, <2>2
  <2>6. Walking(a, todo, out)  BY DEF a
  <2>7. Walking(a, Tail(todo), Append(out, p))  BY <1>1, <1>2, <2>4, <2>5, <2>6, TakesFirst
  <2> QED  BY <2>3, <2>7 DEF a
<1>11. CASE x \/ (KindOf(i) = "dir" /\ ~d) \/ KindOf(i) \notin {"file", "dir"}
  <2>1. stage' = "walk" /\ out' = out /\ todo' = Tail(todo)  BY <1>6, <1>8, <1>11
  <2>2. Yields(a, e) = {}
    <3>1. CASE KindOf(i) = "dir" /\ ~d  BY <1>1, <1>4, <1>5, <3>1, YieldAtLimit
    <3>2. CASE ~(KindOf(i) = "dir" /\ ~d)
      <4>1. KindOf(i) # "dir"  BY <1>8, <1>11, <3>2
      <4>2. Yields(a, e) = IF KindOf(i) = "file" /\ InDepth(a, e.depth) /\ ~IsOutput(a, CanonIn(Tree, p), i)
                           THEN {p} ELSE {}
        BY <1>3, <1>4, <4>1, YieldOfLeaf
      <4>3. ~(KindOf(i) = "file" /\ ~IsOutput(a, CanonIn(Tree, p), i))  BY <1>2, <1>11, <4>1
      <4> QED  BY <4>2, <4>3
    <3> QED  BY <3>1, <3>2
  <2> HIDE DEF e, a
  <2>3. Yields(a, todo[1]) = {}  BY <1>4, <2>2
  <2>4. Walking(a, todo, out)  BY DEF a
  <2>5. Walking(a, Tail(todo), out)  BY <1>1, <1>2, <2>3, <2>4, DropsFirst
  <2> QED  BY <2>1, <2>5 DEF a
<1> QED  BY <1>9, <1>10, <1>11

\* The entries of a directory stand for what it stands for.
LEMMA ReadDirFinds ==
  ASSUME TypeInv, QuietParts, tree = Tree, Walking(asked, todo, out), ReadDir, MayDescend
  PROVE  Walking(asked, todo', out')
<1> DEFINE e == Head(todo)
           p == e.path
           i == StatIn(Tree, p)
           S == DOMAIN Tree[i]
           names == Sorted(S)
           c == Len(names)
           new == [k \in 1..c |-> Child(e, names[k])]
           a == asked
<1>1. a \in Scenarios /\ a.max \in Nat  BY ScenariosAssumption DEF TypeInv, TreeInv
<1>2. todo # <<>> /\ stage = "readdir"  BY DEF ReadDir, TypeInv, WalkInv
<1>3. e \in Entry /\ e = todo[1] /\ p \in Paths /\ e.depth \in Nat  BY <1>2, FirstTodo
<1>4. LStatIn(Tree, p) = i /\ KindOf(LStatIn(Tree, p)) = "dir" /\ KindOf(i) = "dir"
  <2>1. meta = LStatIn(Tree, p) /\ KindOf(meta) = "dir"
    BY <1>2 DEF QuietParts, MetaIsTrue, TypeInv, WalkInv
  <2>2. StatIn(Tree, p) = LStatIn(Tree, p)  BY <1>3, <2>1, Ends, StartIsTree
  <2> QED  BY <2>1, <2>2
<1>5. todo' = new \o Tail(todo) /\ out' = out
  <2>1. Stat(p) = i  BY DEF Stat
  <2>2. out' = out  BY DEF ReadDir
  <2>3. todo' = [k \in 1..Len(Sorted(DOMAIN tree[Stat(p)])) |->
                   [path |-> Append(p, Sorted(DOMAIN tree[Stat(p)])[k]), depth |-> e.depth + 1]] \o Tail(todo)
    BY <1>4, <2>1 DEF ReadDir
  <2>4. Sorted(DOMAIN tree[Stat(p)]) = names  BY <2>1
  <2>5. \A k : Child(e, names[k]) = [path |-> Append(p, names[k]), depth |-> e.depth + 1]  BY DEF Child
  <2> HIDE DEF names, p, e
  <2> QED  BY <2>2, <2>3, <2>4, <2>5
<1>6. S \in SUBSET Nat /\ IsFiniteSet(S)
  <2>1. i \in Inodes /\ Kind[i] = "dir"  BY <1>4, KindTells
  <2> HIDE DEF i
  <2> QED  BY <2>1, StartIsTree DEF IsTree
<1> HIDE DEF S
<1>7. /\ c \in Nat /\ \A k \in 1..c : names[k] \in S /\ names[k] \in Nat
      /\ \A j, k \in 1..c : j < k => names[j] < names[k]
      /\ \A n \in S : \E k \in 1..c : names[k] = n
  BY <1>6, SortedNames
<1> HIDE DEF names, c
<1>8. \A k \in 1..c : /\ Child(e, names[k]) \in Entry /\ Child(e, names[k]).depth = e.depth + 1
  BY <1>3, <1>7, ChildIsEntry
<1>9. /\ new \in Seq(Entry) /\ Len(new) = c /\ \A k \in 1..c : new[k] = Child(e, names[k])
  <2> DEFINE G(k) == Child(e, names[k])
  <2>1. \A k \in 1..c : G(k) \in Entry  BY <1>8
  <2>2. new = [k \in 1..c |-> G(k)]  OBVIOUS
  <2> HIDE DEF G, new
  <2>3. new \in Seq(Entry) /\ Len(new) = c /\ \A k \in 1..c : new[k] = G(k)  BY <1>7, <2>1, <2>2
  <2> QED  BY <2>3 DEF G
<1> HIDE DEF new
<1>10. OneByOne(a, new, Len(new))
  <2> SUFFICES ASSUME NEW j \in 1..c, NEW k \in 1..c, j < k,
                      NEW x \in Yields(a, new[j]), NEW y \in Yields(a, new[k])
               PROVE  Lexicographic(x, y)
    BY <1>9 DEF OneByOne
  <2>1. x \in Yields(a, Child(e, names[j])) /\ y \in Yields(a, Child(e, names[k]))  BY <1>9
  <2>2. names[j] \in Nat /\ names[k] \in Nat /\ names[j] < names[k]  BY <1>7
  <2> HIDE DEF e, a
  <2> QED  BY <1>3, <2>1, <2>2, YieldsInOrder
<1>11. \A k \in 1..Len(new) : InDepth(a, new[k].depth)
  <2> SUFFICES ASSUME NEW k \in 1..c PROVE InDepth(a, new[k].depth)  BY <1>9
  <2>1. new[k].depth = e.depth + 1  BY <1>8, <1>9
  <2>2. a.max = 0 \/ e.depth < a.max  BY <1>2 DEF MayDescend
  <2> DEFINE m == a.max
             d == e.depth
  <2>3. m \in Nat /\ d \in Nat /\ (m = 0 \/ d < m)  BY <1>1, <1>3, <2>2
  <2> HIDE DEF m, d
  <2>4. m = 0 \/ d + 1 <= m  BY <2>3
  <2> QED  BY <2>1, <2>4 DEF InDepth, m, d
<1>12. \A x : x \in Yields(a, todo[1]) <=> \E k \in 1..Len(new) : x \in Yields(a, new[k])
  <2>1. \A x : x \in Yields(a, e) <=> \E n \in S : x \in Yields(a, Child(e, n))
    BY <1>3, <1>4, YieldOfDir DEF S
  <2> HIDE DEF e
  <2>2. \A x : (\E n \in S : x \in Yields(a, Child(e, n))) <=> \E k \in 1..c : x \in Yields(a, new[k])
    BY <1>7, <1>9
  <2> QED  BY <1>3, <1>9, <2>1, <2>2
<1> HIDE DEF e, a
<1>13. Walking(a, todo, out)  BY DEF a
<1>14. Walking(a, new \o Tail(todo), out)
  BY <1>1, <1>2, <1>9, <1>10, <1>11, <1>12, <1>13, OpensFirst
<1> QED  BY <1>5, <1>14 DEF a

LEMMA NextFoundInv ==
  ASSUME TypeInv, QuietInv, FoundInv, [Next]_vars
  PROVE  FoundInv'
<1> SUFFICES ASSUME swapped' = {}, OutputIsNoDir' PROVE FoundParts'  BY DEF FoundInv
<1>1. ~ \E s \in asked.swaps : Swap(s[1], s[2], s[3])  BY DEF Swap
<1>2. UNCHANGED <<asked, tree, swapped>>  BY <1>1, TreeStays DEF vars
<1>3. QuietParts /\ tree = Tree /\ asked \in Scenarios  BY <1>2 DEF QuietInv, TypeInv, TreeInv
<1>4. OutputIsNoDir /\ FoundParts  BY <1>2 DEF OutputIsNoDir, FoundInv
<1>5. WalksOn /\ MayDescend /\ FoundAll  BY <1>4 DEF FoundParts
<1>6. CASE CheckOutput
  <2>1. stage = "output" /\ stage' \in {"failed", "exclude"} /\ UNCHANGED <<todo, out>>  BY <1>6 DEF CheckOutput, Goto
  <2> QED  BY <1>2, <1>5, <2>1 DEF FoundParts, WalksOn, MayDescend, FoundAll
<1>7. CASE Exclude
  <2>1. stage = "exclude" /\ stage' = "walk" /\ UNCHANGED <<todo, out>>  BY <1>7 DEF Exclude, Goto
  <2> QED  BY <1>2, <1>5, <2>1 DEF FoundParts, WalksOn, MayDescend, FoundAll
<1>8. CASE Visit
  <2>1. stage = "walk" /\ stage' \in {"failed", "walk", "judge"}  BY <1>8 DEF Visit, Goto
  <2>2. Walking(asked, todo, out)  BY <1>5, <2>1 DEF WalksOn
  <2>3. Walking(asked, todo', out')  BY <1>3, <1>8, <2>2, VisitFinds
  <2> QED  BY <1>2, <2>1, <2>3 DEF FoundParts, WalksOn, MayDescend, FoundAll
<1>9. CASE Judge
  <2>1. stage = "judge"  BY <1>9 DEF Judge
  <2>2. Walking(asked, todo, out)  BY <1>5, <2>1 DEF WalksOn
  <2>3. stage' \in {"failed", "walk", "readdir"}  BY <1>9, JudgeVerdict
  <2>4. CASE stage' = "failed"  BY <2>4 DEF FoundParts, WalksOn, MayDescend, FoundAll
  <2>5. CASE stage' # "failed"
    <3>1. /\ Walking(asked, todo', out')
          /\ stage' = "readdir" => todo' = todo /\ (asked.max = 0 \/ Head(todo).depth < asked.max)
      BY <1>3, <1>4, <1>9, <2>2, <2>5, JudgeFinds
    <3> QED  BY <1>2, <2>3, <3>1 DEF FoundParts, WalksOn, MayDescend, FoundAll
  <2> QED  BY <2>4, <2>5
<1>10. CASE ReadDir
  <2>1. stage = "readdir" /\ stage' \in {"failed", "walk"}  BY <1>10 DEF ReadDir, Goto
  <2>2. Walking(asked, todo, out)  BY <1>5, <2>1 DEF WalksOn
  <2>3. Walking(asked, todo', out')  BY <1>3, <1>5, <1>10, <2>2, ReadDirFinds
  <2> QED  BY <1>2, <2>1, <2>3 DEF FoundParts, WalksOn, MayDescend, FoundAll
<1>11. CASE WalkDone
  <2>1. stage = "walk" /\ todo = <<>> /\ stage' \in {"failed", "stat"} /\ out' = out  BY <1>11 DEF WalkDone, Goto
  <2>2. Walking(asked, todo, out)  BY <1>5, <2>1 DEF WalksOn
  <2>3. out = FlattenSeq(Asks(asked))  BY <1>3, <2>1, <2>2, HasAll
  <2> QED  BY <1>2, <2>1, <2>3 DEF FoundParts, WalksOn, MayDescend, FoundAll
<1>12. CASE StatNext \/ NameAll \/ ReadNext \/ Create
  <2>1. /\ stage \in {"stat", "name", "read", "create"}
        /\ stage' \in {"failed", "stat", "name", "read", "create", "done"}
        /\ out' = out
    <3>1. CASE StatNext  BY <3>1 DEF StatNext, Goto
    <3>2. CASE ReadNext  BY <3>2 DEF ReadNext, Goto
    <3>3. CASE Create  BY <3>3 DEF Create, Goto
    <3>4. CASE NameAll  BY <3>4 DEF NameAll, Goto
    <3> QED  BY <1>12, <3>1, <3>2, <3>3, <3>4
  <2> QED  BY <1>2, <1>5, <2>1 DEF FoundParts, WalksOn, MayDescend, FoundAll
<1>13. CASE Others \/ UNCHANGED vars
  <2>1. UNCHANGED <<asked, stage, todo, out>>  BY <1>1, <1>13 DEF Others, Rewrite, vars
  <2> QED  BY <1>5, <2>1 DEF FoundParts, WalksOn, MayDescend, FoundAll
<1>14. CASE CallFails
  <2>1. stage' = "failed"  BY <1>14 DEF CallFails, Goto
  <2> QED  BY <2>1 DEF FoundParts, WalksOn, MayDescend, FoundAll
<1> QED  BY <1>6, <1>7, <1>8, <1>9, <1>10, <1>11, <1>12, <1>13, <1>14 DEF Next, Pack

LEMMA AlwaysFound == Spec => []FoundInv
<1>1. TypeInv /\ QuietInv /\ FoundInv /\ [Next]_vars => FoundInv'  BY NextFoundInv
<1> QED  BY FoundInit, TypeCorrect, AlwaysQuiet, <1>1, PTL DEF Spec

\* Pass 1, the sort and the reads leave nothing out, and the output of a run that is done
\* is no directory.
AllSeen == stage \in {"name", "read", "create", "done"} => Len(prelim) = Len(out)
AllRead == stage \in {"create", "done"} => Len(packed) = Len(prelim)
Written == stage = "done" /\ swapped = {} => OutputIsNoDir
InMangledOrder ==
  \E f \in Bijection(1..Len(out), 1..Len(out)) :
    /\ \A k \in 1..Len(out) : prelim[k].path = out[f[k]]
    /\ \A j, k \in 1..Len(out) : j < k => ~Precedes(prelim[k].path, prelim[j].path)
Ordered == stage \in {"read", "create", "done"} /\ ~asked.preserve => InMangledOrder
EndInv == AllSeen /\ AllRead /\ Written /\ Ordered

LEMMA NextEndInv ==
  ASSUME TypeInv, EndInv, [Next]_vars
  PROVE  EndInv'
<1>1. AllSeen /\ AllRead /\ Written /\ Ordered  BY DEF EndInv
<1>2. CASE CheckOutput \/ Exclude \/ Visit \/ Judge \/ ReadDir \/ WalkDone \/ CallFails
  <2>1. stage' \notin {"name", "read", "create", "done"}
    <3>1. CASE CheckOutput  BY <3>1 DEF CheckOutput, Goto
    <3>2. CASE Exclude  BY <3>2 DEF Exclude, Goto
    <3>3. CASE Visit  BY <3>3 DEF Visit, Goto
    <3>4. CASE Judge  BY <3>4, JudgeVerdict
    <3>5. CASE ReadDir  BY <3>5 DEF ReadDir, Goto
    <3>6. CASE WalkDone  BY <3>6 DEF WalkDone, Goto
    <3>7. CASE CallFails  BY <3>7 DEF CallFails, Goto
    <3> QED  BY <1>2, <3>1, <3>2, <3>3, <3>4, <3>5, <3>6, <3>7
  <2> QED  BY <2>1 DEF EndInv, AllSeen, AllRead, Written, Ordered
<1>3. CASE StatNext
  <2>1. stage = "stat" /\ UNCHANGED out  BY <1>3 DEF StatNext
  <2>2. IF Len(prelim) = Len(out) THEN stage' = "name" /\ prelim' = prelim
        ELSE stage' \in {"stat", "failed"}
    BY <1>3, <2>1 DEF StatNext, Goto
  <2>3. stage' \notin {"read", "create", "done"}  BY <2>2
  <2>4. stage' = "name" => Len(prelim') = Len(out')  BY <2>1, <2>2
  <2> QED  BY <2>3, <2>4 DEF EndInv, AllSeen, AllRead, Written, Ordered
<1>4. CASE ReadNext
  <2>1. stage = "read" /\ UNCHANGED <<prelim, out, asked>>  BY <1>4 DEF ReadNext, Keep
  <2>2. IF Len(packed) = Len(prelim) THEN stage' = "create" /\ packed' = packed
        ELSE stage' \in {"read", "failed"}
    BY <1>4, <2>1 DEF ReadNext, Goto
  <2>3. stage' # "done" /\ (stage' = "create" => Len(packed') = Len(prelim'))  BY <2>1, <2>2
  <2>4. Len(prelim') = Len(out')  BY <1>1, <2>1 DEF AllSeen
  <2>5. Ordered'  BY <1>1, <2>1 DEF Ordered, InMangledOrder
  <2> QED  BY <2>3, <2>4, <2>5 DEF EndInv, AllSeen, AllRead, Written
<1>5. CASE Create
  <2>1. stage = "create" /\ UNCHANGED <<prelim, out, packed, asked, tree, swapped>>  BY <1>5 DEF Create, Keep, fs
  <2>2. Len(prelim') = Len(out') /\ Len(packed') = Len(prelim')  BY <1>1, <2>1 DEF AllSeen, AllRead
  <2>3. ASSUME stage' = "done", swapped = {} PROVE OutputIsNoDir
    <3> DEFINE i == Stat(asked.output)
               above == Stat(Front(Canon(asked.output)))
    <3>1. tree = Tree  BY <2>3 DEF TypeInv, TreeInv
    <3>2. i = StatIn(Tree, asked.output)  BY <3>1 DEF Stat
    <3>3. stage' = IF KindOf(i) = "file" \/ (i = Missing /\ KindOf(above) = "dir") THEN "done" ELSE "failed"
      BY <1>5 DEF Create, Goto
    <3> HIDE DEF i, above
    <3>4. KindOf(i) = "file" \/ i = Missing  BY <2>3, <3>3
    <3>5. KindOf(i) # "dir"  BY <3>4, KindTells
    <3> QED  BY <3>2, <3>5 DEF OutputIsNoDir
  <2>4. OutputIsNoDir' <=> OutputIsNoDir  BY <2>1 DEF OutputIsNoDir
  <2>5. Ordered'  BY <1>1, <2>1 DEF Ordered, InMangledOrder
  <2> QED  BY <2>1, <2>2, <2>3, <2>4, <2>5 DEF EndInv, AllSeen, AllRead, Written
<1>6. CASE Others \/ UNCHANGED vars
  <2>1. UNCHANGED <<asked, stage, prelim, out, packed>>  BY <1>6 DEF Others, Rewrite, Swap, vars
  <2>2. swapped' = {} => swapped = {}  BY <1>6 DEF Others, Rewrite, Swap, vars
  <2>3. Ordered'  BY <1>1, <2>1 DEF Ordered, InMangledOrder
  <2> QED  BY <1>1, <2>1, <2>2, <2>3 DEF EndInv, AllSeen, AllRead, Written, OutputIsNoDir
<1>7. CASE NameAll
  <2>1. stage = "name" /\ UNCHANGED <<out, asked>> /\ stage' \in {"read", "failed"}  BY <1>7 DEF NameAll, Keep, Goto
  <2>2. Len(prelim) = Len(out) /\ Len(out) \in Nat  BY <1>1, <2>1 DEF AllSeen, TypeInv, WalkInv
  <2>3. \A k \in 1..Len(prelim) : prelim[k].path = out[k]  BY <2>1 DEF TypeInv, ReadInv, NotYet
  <2>4. CASE prelim' = prelim /\ (stage' = "failed" \/ asked.preserve)
    BY <2>1, <2>2, <2>4 DEF EndInv, AllSeen, AllRead, Written, Ordered
  <2>5. CASE \E f \in Bijection(1..Len(prelim), 1..Len(prelim)) :
               /\ prelim' = [k \in 1..Len(prelim) |-> prelim[f[k]]]
               /\ \A j, k \in 1..Len(prelim) : j < k => ~Precedes(prelim[f[k]].path, prelim[f[j]].path)
    <3>1. PICK f \in Bijection(1..Len(out), 1..Len(out)) :
            /\ prelim' = [k \in 1..Len(out) |-> prelim[f[k]]]
            /\ \A j, k \in 1..Len(out) : j < k => ~Precedes(prelim[f[k]].path, prelim[f[j]].path)
      BY <2>2, <2>5
    <3>2. \A k \in 1..Len(out) : f[k] \in 1..Len(out) /\ prelim'[k] = prelim[f[k]]
      BY <3>1 DEF Bijection, Injection
    <3>3. \A k \in 1..Len(out) : prelim'[k].path = out[f[k]]  BY <2>2, <2>3, <3>2
    <3>4. \A j, k \in 1..Len(out) : j < k => ~Precedes(prelim'[k].path, prelim'[j].path)  BY <3>1, <3>2
    <3>5. InMangledOrder'  BY <2>1, <3>3, <3>4 DEF InMangledOrder
    <3>6. Len(prelim') = Len(out')  BY <2>1, <2>2, <3>1
    <3> QED  BY <2>1, <3>5, <3>6 DEF EndInv, AllSeen, AllRead, Written, Ordered
  <2> QED  BY <1>7, <2>4, <2>5, NameStep
<1> QED  BY <1>2, <1>3, <1>4, <1>5, <1>6, <1>7 DEF Next, Pack

LEMMA AlwaysEnd == Spec => []EndInv
<1>1. Init => EndInv  BY DEF Init, EndInv, AllSeen, AllRead, Written, Ordered
<1>2. TypeInv /\ EndInv /\ [Next]_vars => EndInv'  BY NextEndInv
<1> QED  BY TypeCorrect, <1>1, <1>2, PTL DEF Spec

\* What is wanted, in the tree of the start.
LEMMA WantedIsAsked ==
  ASSUME tree = Tree, asked \in Scenarios
  PROVE  Wanted = FlattenSeq(Asks(asked))
<1>1. \A k \in 1..Len(asked.inputs) : asked.inputs[k] \in Paths  BY InputsAreEntries
<1>2. \A k \in 1..Len(asked.inputs) : Below(asked.inputs[k]) = Yields(asked, Top(asked.inputs[k]))
  BY <1>1, BelowIsYields
<1>3. [k \in 1..Len(asked.inputs) |-> InOrder(Below(asked.inputs[k]))] = Asks(asked)
  BY <1>2 DEF Asks
<1> QED  BY <1>3 DEF Wanted

\* When nobody moves files, a run that is done has packed every regular file that lies in
\* or below an input within the limit, once per input, the output left out, and nothing
\* else: in any tree and for any inputs.  They are in the order of the inputs and of the
\* paths, or by mangled name and path when the times are not kept.
THEOREM WalkFindsWhatIsBelow == Spec => []PackedAsAsked
<1>1. TypeInv /\ FoundInv /\ EndInv => PackedAsAsked
  <2> SUFFICES ASSUME TypeInv, FoundInv, EndInv, stage = "done", swapped = {}
               PROVE  LET paths == [k \in 1..Len(packed) |-> packed[k].path]
                      IN IF asked.preserve THEN paths = Wanted
                         ELSE /\ \A j, k \in 1..Len(paths) : j < k => ~Precedes(paths[k], paths[j])
                              /\ Len(paths) = Len(Wanted)
                              /\ \A k \in 1..Len(Wanted) : Times(paths, Wanted[k]) = Times(Wanted, Wanted[k])
    BY DEF PackedAsAsked
  <2> DEFINE paths == [k \in 1..Len(packed) |-> packed[k].path]
  <2>1. tree = Tree /\ asked \in Scenarios  BY DEF TypeInv, TreeInv
  <2>2. out = FlattenSeq(Asks(asked))  BY DEF EndInv, Written, FoundInv, FoundParts, FoundAll
  <2>3. Wanted = out  BY <2>1, <2>2, WantedIsAsked
  <2>4. /\ Len(packed) = Len(out) /\ Len(prelim) = Len(out) /\ Len(out) \in Nat
        /\ out \in Seq(Paths) /\ \A k \in 1..Len(packed) : packed[k].path = prelim[k].path
    BY DEF EndInv, AllSeen, AllRead, TypeInv, WalkInv, ReadInv
  <2>5. out = [k \in 1..Len(out) |-> out[k]]  BY <2>4
  <2>6. Len(paths) = Len(out) /\ \A k \in 1..Len(out) : paths[k] = prelim[k].path  BY <2>4
  <2>7. CASE asked.preserve
    <3>1. \A k \in 1..Len(prelim) : prelim[k].path = out[k]  BY <2>7 DEF TypeInv, ReadInv
    <3>2. paths = [k \in 1..Len(out) |-> out[k]]  BY <2>4, <3>1
    <3> QED  BY <2>3, <2>5, <2>7, <3>2
  <2>8. CASE ~asked.preserve
    <3>1. PICK f \in Bijection(1..Len(out), 1..Len(out)) :
            /\ \A k \in 1..Len(out) : prelim[k].path = out[f[k]]
            /\ \A j, k \in 1..Len(out) : j < k => ~Precedes(prelim[k].path, prelim[j].path)
      BY <2>8 DEF EndInv, Ordered, InMangledOrder
    <3> HIDE DEF paths
    <3>2. \A j, k \in 1..Len(paths) : j < k => ~Precedes(paths[k], paths[j])  BY <2>6, <3>1
    <3>3. \A k \in 1..Len(out) : paths[k] = out[f[k]]  BY <2>6, <3>1
    <3>4. ASSUME NEW x PROVE Times(paths, x) = Times(out, x)
      <4> DEFINE n == Len(out)
      <4>1. n \in Nat /\ Len(paths) = n /\ Len(out) = n  BY <2>4, <2>6
      <4>2. f \in Bijection(1..n, 1..n) /\ \A k \in 1..n : paths[k] = out[f[k]]  BY <3>1, <3>3
      <4> HIDE DEF n
      <4> QED  BY <4>1, <4>2, SameTimes
    <3>5. Len(paths) = Len(Wanted) /\ \A k \in 1..Len(Wanted) : Times(paths, Wanted[k]) = Times(Wanted, Wanted[k])
      BY <2>3, <2>6, <3>4
    <3> QED  BY <2>8, <3>2, <3>5 DEF paths
  <2> QED  BY <2>7, <2>8
<1> QED  BY TypeCorrect, AlwaysFound, AlwaysEnd, <1>1, PTL

\* A run that fails by itself has found out why: before the end of the walk it is the
\* output or an input, and behind it what the walk has found.
AtFailure ==
  stage = "failed" /\ swapped = {} /\ ~fault =>
    Reason(asked) \/ (TooMuch /\ out = FlattenSeq(Asks(asked)))

LEMMA NextAtFailure ==
  ASSUME TypeInv, QuietInv, FoundInv, AtFailure, [Next]_vars
  PROVE  AtFailure'
<1> SUFFICES ASSUME stage' = "failed", swapped' = {}, ~fault'
             PROVE  Reason(asked') \/ (TooMuch' /\ out' = FlattenSeq(Asks(asked')))
  BY DEF AtFailure
<1>1. ~ \E s \in asked.swaps : Swap(s[1], s[2], s[3])  BY DEF Swap
<1>2. UNCHANGED <<asked, tree, swapped>>  BY <1>1, TreeStays DEF vars
<1>3. QuietParts /\ tree = Tree /\ asked \in Scenarios  BY <1>2 DEF QuietInv, TypeInv, TreeInv
<1>4. CASE Pack
  <2>1. Reason(asked) \/ (TooMuch /\ (WalkDone \/ StatNext \/ NameAll))  BY <1>3, <1>4, QuietFailed
  <2>2. CASE Reason(asked)  BY <1>2, <2>2
  <2>3. CASE TooMuch /\ (WalkDone \/ StatNext \/ NameAll) /\ ~Reason(asked)
    <3>1. OutputIsNoDir
      <4>1. KindOf(LStatIn(Tree, asked.output)) \in {"file", "none"}  BY <2>3 DEF Reason
      <4>2. asked.output \in Paths  BY <1>3, ScenariosAssumption
      <4>3. StatIn(Tree, asked.output) = LStatIn(Tree, asked.output)  BY <4>1, <4>2, Ends, StartIsTree
      <4> QED  BY <4>1, <4>3 DEF OutputIsNoDir
    <3>2. FoundParts  BY <1>2, <3>1 DEF FoundInv
    <3>3. out' = out  BY <2>3 DEF WalkDone, StatNext, NameAll
    <3>4. out = FlattenSeq(Asks(asked))
      <4>1. CASE WalkDone
        <5>1. stage = "walk" /\ todo = <<>>  BY <4>1 DEF WalkDone
        <5>2. Walking(asked, todo, out)  BY <3>2, <5>1 DEF FoundParts, WalksOn
        <5> QED  BY <1>3, <5>1, <5>2, HasAll
      <4>2. CASE StatNext \/ NameAll
        <5>1. stage \in {"stat", "name"}  BY <4>2 DEF StatNext, NameAll
        <5> QED  BY <3>2, <5>1 DEF FoundParts, FoundAll
      <4> QED  BY <2>3, <4>1, <4>2
    <3>5. TooMuch'  BY <2>3, <3>3 DEF TooMuch
    <3> QED  BY <1>2, <3>3, <3>4, <3>5
  <2> QED  BY <2>1, <2>2, <2>3
<1>5. CASE Others \/ UNCHANGED vars
  <2>1. UNCHANGED <<asked, stage, out, fault>>  BY <1>1, <1>5 DEF Others, Rewrite, vars
  <2> QED  BY <1>2, <2>1 DEF AtFailure, TooMuch
<1> QED  BY <1>4, <1>5 DEF Next

LEMMA AlwaysAtFailure == Spec => []AtFailure
<1>1. Init => AtFailure  BY DEF Init, AtFailure
<1>2. TypeInv /\ QuietInv /\ FoundInv /\ AtFailure /\ [Next]_vars => AtFailure'  BY NextAtFailure
<1> QED  BY TypeCorrect, AlwaysQuiet, AlwaysFound, <1>1, <1>2, PTL DEF Spec

\* When nobody moves files and no call fails by itself, a failed run has one of the reasons
\* that its user can see: the output, an input, or what there is to pack.
THEOREM FailuresHaveReasons == Spec => []FailsForAReason
<1>1. TypeInv /\ AtFailure => FailsForAReason
  <2> SUFFICES ASSUME TypeInv, AtFailure, stage = "failed", swapped = {}, ~fault
               PROVE  \/ KindOf(LStat(asked.output)) \notin {"file", "none"}
                      \/ KindOf(Stat(Front(asked.output))) # "dir"
                      \/ \E k \in 1..Len(asked.inputs) :
                           LET i == LStat(asked.inputs[k])
                           IN KindOf(i) \in {"none", "other"} \/ SameAsOutput(Canon(asked.inputs[k]), i)
                      \/ \E k \in 1..Len(Wanted) : Last(Wanted[k]) \in Unnamed
                      \/ Len(Wanted) > MaxFiles \/ Len(Wanted) > MaxSuffix
    BY DEF FailsForAReason
  <2>1. tree = Tree /\ asked \in Scenarios  BY DEF TypeInv, TreeInv
  <2>2. CASE Reason(asked)
    <3>1. \A p : LStat(p) = LStatIn(Tree, p) /\ Stat(p) = StatIn(Tree, p) /\ Canon(p) = CanonIn(Tree, p)
      BY <2>1 DEF LStat, Stat, Canon
    <3>2. \A p, i : SameAsOutput(p, i) <=> IsOutput(asked, p, i)
      BY <3>1 DEF SameAsOutput, IsOutput, OnWindows
    <3> QED  BY <2>2, <3>1, <3>2 DEF Reason, BadInput
  <2>3. CASE TooMuch /\ out = FlattenSeq(Asks(asked))
    <3>1. Wanted = out  BY <2>1, <2>3, WantedIsAsked
    <3> QED  BY <2>3, <3>1 DEF TooMuch
  <2> QED  BY <2>2, <2>3 DEF AtFailure
<1> QED  BY TypeCorrect, AlwaysAtFailure, <1>1, PTL
=============================================================================
