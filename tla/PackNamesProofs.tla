--------------------------- MODULE PackNamesProofs ---------------------------
(***************************************************************************)
(* Whatever the source files are called and however many collide, the      *)
(* names in an archive are distinct to DOS and pass all three checks that  *)
(* read them back.  The argument is about the shape of a name: a stem and  *)
(* an extension without dots, which mangle makes and dedupe keeps.         *)
(***************************************************************************)
EXTENDS PackNames, SequenceTheorems, FiniteSetTheorems, WellFoundedInduction, TLAPS

\* The characters of a stem or an extension.
Good == {c \in 32..126 : c \notin ILLEGAL /\ c # Dot /\ c \notin LowerA..LowerZ}
Part(n) == {s \in Seq(Good) : Len(s) <= n}
Shaped == {Joined(stem, ext) : stem \in Part(StemMax) \ {<<>>}, ext \in Part(ExtMax)}
StoredNames == {s \in Shaped : ~IsDosReserved(s)}

----------------------------------------------------------------------------
(***************************************************************************)
(* Sequences.                                                              *)
(***************************************************************************)
\* A set of numbers up to n has a largest element.
LEMMA Largest ==
  ASSUME NEW n \in Nat, NEW T \in SUBSET (0..n), T # {}
  PROVE  \E m \in T : \A k \in T : k <= m
PROOF
  <1> DEFINE R == OpToRel(<, Nat)
             U == {i \in 0..n : n - i \in T}
  <1>1. IsWellFoundedOn(R, Nat)
    BY NatLessThanWellFounded
  <1>2. U \subseteq Nat /\ U # {}
    <2>1. PICK k \in T : TRUE
      OBVIOUS
    <2>2. n - k \in 0..n /\ n - (n - k) = k
      BY <2>1
    <2>3. n - k \in U
      BY <2>2
    <2>4. U \subseteq Nat
      OBVIOUS
    <2> HIDE DEF R, U
    <2> QED
      BY <2>3, <2>4
  <1>3. PICK x \in U : \A y \in U : ~ (<<y, x>> \in R)
    <2> HIDE DEF R, U
    <2> QED
      BY <1>1, <1>2, WFMin
  <1>4. \A y \in U : ~ (y < x)
    <2> SUFFICES ASSUME NEW y \in U, y < x PROVE FALSE
      OBVIOUS
    <2>1. <<y, x>> \in R
      BY <1>2, <1>3 DEF OpToRel
    <2> QED
      BY <1>3, <2>1
  <1>5. \A k \in T : k <= n - x
    <2> SUFFICES ASSUME NEW k \in T PROVE k <= n - x
      OBVIOUS
    <2>1. n - k \in U
      <3>1. n - k \in 0..n /\ n - (n - k) = k
        OBVIOUS
      <3> QED
        BY <3>1
    <2>2. ~(n - k < x)
      BY <1>4, <2>1
    <2> QED
      BY <2>2
  <1> QED
    BY <1>5

\* LastDot finds the last dot, if there is one.
LEMMA LastDotFinds ==
  ASSUME NEW s \in Seq(Int)
  PROVE  /\ LastDot(s) \in 0..Len(s)
         /\ LastDot(s) > 0 => s[LastDot(s)] = Dot
         /\ \A j \in (LastDot(s) + 1)..Len(s) : s[j] # Dot
  <1> DEFINE T == {i \in 0..Len(s) : i > 0 => s[i] = Dot}
  <1>1. T \in SUBSET (0..Len(s)) /\ 0 \in T /\ Len(s) \in Nat
    OBVIOUS
  <1>2. PICK m \in T : \A k \in T : k <= m
    <2> HIDE DEF T
    <2> QED BY <1>1, Largest
  <1>3. \A j \in (m + 1)..Len(s) : s[j] # Dot
    <2> SUFFICES ASSUME NEW j \in (m + 1)..Len(s), s[j] = Dot PROVE FALSE
      OBVIOUS
    <2>1. j \in T /\ j > m
      OBVIOUS
    <2> QED BY <1>2, <2>1
  <1>4. \E i \in 0..Len(s) : /\ i > 0 => s[i] = Dot
                             /\ \A j \in (i + 1)..Len(s) : s[j] # Dot
    BY <1>3
  <1> QED BY <1>4 DEF LastDot

LEMMA TakeProperties ==
  ASSUME NEW S, NEW s \in Seq(S), NEW n \in Nat
  PROVE  /\ Take(s, n) \in Seq(S)
         /\ Len(Take(s, n)) = IF Len(s) < n THEN Len(s) ELSE n
         /\ \A i \in 1..Len(Take(s, n)) : Take(s, n)[i] = s[i]
  <1> DEFINE m == IF Len(s) < n THEN Len(s) ELSE n
  <1>1. m \in Int /\ m >= 0 /\ m <= Len(s)
    OBVIOUS
  <1>2. \A i \in 1..m : s[i] \in S
    BY <1>1
  <1> HIDE DEF m
  <1>3. /\ SubSeq(s, 1, m) \in Seq(S)
        /\ Len(SubSeq(s, 1, m)) = m
        /\ \A i \in 1..m : SubSeq(s, 1, m)[i] = s[i]
    <2>1. /\ SubSeq(s, 1, m) \in Seq(S)
          /\ Len(SubSeq(s, 1, m)) = IF 1 <= m THEN m - 1 + 1 ELSE 0
          /\ \A i \in 1..m - 1 + 1 : SubSeq(s, 1, m)[i] = s[1 + i - 1]
      BY <1>1, <1>2, SubSeqProperties
    <2> QED BY <1>1, <2>1
  <1> QED BY <1>3 DEF Take, m

----------------------------------------------------------------------------
(***************************************************************************)
(* The shape of a name.                                                    *)
(***************************************************************************)
LEMMA GoodType == Good \subseteq Int
  <1>1. \A c \in Good : c \in 32..126
    BY DEF Good
  <1> QED BY <1>1

\* The characters of a joined name, its dot and the parts around it.
LEMMA JoinedProperties ==
  ASSUME NEW stem \in Seq(Good), NEW ext \in Seq(Good), ext # <<>>
  PROVE  LET s == Joined(stem, ext)
         IN  /\ s \in Seq(Int)
             /\ Len(s) = Len(stem) + 1 + Len(ext)
             /\ \A i \in 1..Len(stem) : s[i] = stem[i]
             /\ s[Len(stem) + 1] = Dot
             /\ \A i \in (Len(stem) + 2)..Len(s) : s[i] = ext[i - Len(stem) - 1]
  <1>1. stem \in Seq(Int) /\ ext \in Seq(Int) /\ <<Dot>> \in Seq(Int) /\ Len(<<Dot>>) = 1
    <2>1. stem \in Seq(Int) /\ ext \in Seq(Int)
      BY GoodType, SeqMonotonic
    <2> QED BY <2>1 DEF Dot
  <1> DEFINE t == stem \o <<Dot>>
  <1>2. /\ t \in Seq(Int) /\ Len(t) = Len(stem) + 1
        /\ \A i \in 1..(Len(stem) + 1) : t[i] = IF i <= Len(stem) THEN stem[i]
                                                ELSE <<Dot>>[i - Len(stem)]
    BY <1>1, ConcatProperties
  <1>3. Joined(stem, ext) = t \o ext
    BY DEF Joined
  <1> HIDE DEF t
  <1>4. /\ t \o ext \in Seq(Int) /\ Len(t \o ext) = Len(t) + Len(ext)
        /\ \A i \in 1..(Len(t) + Len(ext)) : (t \o ext)[i] = IF i <= Len(t) THEN t[i]
                                                             ELSE ext[i - Len(t)]
    <2>1. t \in Seq(Int) /\ ext \in Seq(Int)
      BY <1>1, <1>2
    <2> QED BY <2>1, ConcatProperties
  <1>5. Len(stem) \in Nat /\ Len(ext) \in Nat
    BY LenProperties
  <1>6. t[Len(stem) + 1] = Dot
    BY <1>2, <1>5
  <1>7. \A i \in 1..Len(stem) : t[i] = stem[i]
    BY <1>2, <1>5
  <1>8. \A i \in (Len(stem) + 2)..(Len(stem) + 1 + Len(ext)) : (t \o ext)[i] = ext[i - Len(stem) - 1]
    <2> TAKE i \in (Len(stem) + 2)..(Len(stem) + 1 + Len(ext))
    <2>1. i \in 1..(Len(t) + Len(ext)) /\ ~(i <= Len(t)) /\ i - Len(t) = i - Len(stem) - 1
      BY <1>2, <1>5
    <2> QED BY <1>4, <2>1
  <1>9. \A i \in 1..(Len(stem) + 1) : (t \o ext)[i] = t[i]
    BY <1>2, <1>4, <1>5
  <1> QED BY <1>2, <1>3, <1>4, <1>5, <1>6, <1>7, <1>8, <1>9, SMTT(60)

\* A part has no dot, and capitals only.
LEMMA PartProperties ==
  ASSUME NEW s \in Seq(Good)
  PROVE  /\ s \in Seq(Int) /\ Len(s) \in Nat
         /\ \A i \in 1..Len(s) : s[i] \in Good /\ s[i] # Dot
         /\ Upper(s) = s
  <1>1. s \in Seq(Int)
    BY GoodType, SeqMonotonic
  <1>2. Len(s) \in Nat /\ s \in [1..Len(s) -> Good]
    BY LenProperties
  <1>3. \A i \in 1..Len(s) : s[i] \in Good /\ s[i] # Dot
    BY <1>2 DEF Good
  <1>4. \A i \in 1..Len(s) : UpperCode(s[i]) = s[i]
    BY <1>3 DEF UpperCode, Good
  <1>5. Upper(s) = s
    BY <1>2, <1>4 DEF Upper
  <1> QED BY <1>1, <1>2, <1>3, <1>5

\* LastDot and StemOf take a name apart where Joined put it together.
LEMMA PartsOfJoined ==
  ASSUME NEW stem \in Seq(Good), NEW ext \in Seq(Good)
  PROVE  LET s == Joined(stem, ext)
         IN  /\ s \in Seq(Int)
             /\ LastDot(s) = IF ext = <<>> THEN 0 ELSE Len(stem) + 1
             /\ StemOf(s) = stem
  <1> DEFINE s == Joined(stem, ext)
  <1>1. CASE ext = <<>>
    <2>1. s = stem
      BY <1>1 DEF Joined
    <2>2. s \in Seq(Int) /\ Len(s) \in Nat /\ \A i \in 1..Len(s) : s[i] # Dot
      BY <2>1, PartProperties
    <2> HIDE DEF s
    <2>3. LastDot(s) = 0
      BY <2>2, LastDotFinds
    <2>4. StemOf(s) = Take(s, Len(s))
      <3>1. \A n \in 0..Len(s) : (/\ \A i \in 1..n : s[i] # Dot
                                  /\ n < Len(s) => s[n + 1] = Dot) <=> n = Len(s)
        BY <2>2
      <3>2. (CHOOSE n \in 0..Len(s) : /\ \A i \in 1..n : s[i] # Dot
                                      /\ n < Len(s) => s[n + 1] = Dot) = Len(s)
        BY <2>2, <3>1
      <3> QED BY <3>2 DEF StemOf
    <2>5. Take(s, Len(s)) = s
      BY <2>2, SubSeqFull DEF Take
    <2> QED BY <1>1, <2>1, <2>2, <2>3, <2>4, <2>5 DEF s
  <1>2. CASE ext # <<>>
    <2>1. /\ s \in Seq(Int)
          /\ Len(s) = Len(stem) + 1 + Len(ext)
          /\ \A i \in 1..Len(stem) : s[i] = stem[i]
          /\ s[Len(stem) + 1] = Dot
          /\ \A i \in (Len(stem) + 2)..Len(s) : s[i] = ext[i - Len(stem) - 1]
      BY <1>2, JoinedProperties
    <2>2. /\ Len(stem) \in Nat /\ Len(ext) \in Nat
          /\ \A i \in 1..Len(stem) : stem[i] # Dot
          /\ \A i \in 1..Len(ext) : ext[i] # Dot
      BY PartProperties
    <2> HIDE DEF s
    <2>3. /\ \A i \in 1..Len(stem) : s[i] # Dot
          /\ \A i \in (Len(stem) + 2)..Len(s) : s[i] # Dot
      <3>1. \A i \in (Len(stem) + 2)..Len(s) : i - Len(stem) - 1 \in 1..Len(ext)
        BY <2>1, <2>2
      <3> QED BY <2>1, <2>2, <3>1
    <2>4. LastDot(s) = Len(stem) + 1
      <3>1. /\ LastDot(s) \in 0..Len(s)
            /\ LastDot(s) > 0 => s[LastDot(s)] = Dot
            /\ \A j \in (LastDot(s) + 1)..Len(s) : s[j] # Dot
        BY <2>1, LastDotFinds
      <3> QED BY <2>1, <2>2, <2>3, <3>1
    <2>5. StemOf(s) = Take(s, Len(stem))
      <3>1. \A n \in 0..Len(s) : (/\ \A i \in 1..n : s[i] # Dot
                                  /\ n < Len(s) => s[n + 1] = Dot) <=> n = Len(stem)
        BY <2>1, <2>2, <2>3
      <3>2. Len(stem) \in 0..Len(s)
        BY <2>1, <2>2
      <3>3. (CHOOSE n \in 0..Len(s) : /\ \A i \in 1..n : s[i] # Dot
                                      /\ n < Len(s) => s[n + 1] = Dot) = Len(stem)
        BY <3>1, <3>2
      <3> QED BY <3>3 DEF StemOf
    <2>6. Take(s, Len(stem)) = stem
      <3>1. /\ Take(s, Len(stem)) \in Seq(Int)
            /\ Len(Take(s, Len(stem))) = Len(stem)
            /\ \A i \in 1..Len(stem) : Take(s, Len(stem))[i] = s[i]
        <4>1. s \in Seq(Int) /\ Len(stem) \in Nat /\ ~(Len(s) < Len(stem))
          BY <2>1, <2>2
        <4>2. /\ Take(s, Len(stem)) \in Seq(Int)
              /\ Len(Take(s, Len(stem))) = IF Len(s) < Len(stem) THEN Len(s) ELSE Len(stem)
              /\ \A i \in 1..Len(Take(s, Len(stem))) : Take(s, Len(stem))[i] = s[i]
          BY <4>1, TakeProperties
        <4> QED BY <4>1, <4>2
      <3>2. stem \in Seq(Int)
        BY PartProperties
      <3> QED BY <2>1, <3>1, <3>2, SeqEqual
    <2> QED BY <1>2, <2>1, <2>4, <2>5, <2>6 DEF s
  <1> QED BY <1>1, <1>2

LEMMA CleanGood ==
  ASSUME NEW c \in Int
  PROVE  Clean(c) \in Good
  <1>1. CASE c \in 32..126 \ (ILLEGAL \cup {Dot})
    <2>1. UpperCode(c) \in Good
      BY <1>1 DEF UpperCode, Good, ILLEGAL, Dot, LowerA, LowerZ
    <2> QED BY <1>1, <2>1 DEF Clean
  <1>2. CASE c \notin 32..126 \ (ILLEGAL \cup {Dot})
    <2>1. Underscore \in Good
      BY DEF Good, ILLEGAL, Dot, LowerA, LowerZ, Underscore
    <2> QED BY <1>2, <2>1 DEF Clean
  <1> QED BY <1>1, <1>2

\* sanitize_part makes a part of any characters, and an empty one only of none.
LEMMA SanitizeMakesPart ==
  ASSUME NEW s \in Seq(Int), NEW max \in Nat \ {0}
  PROVE  /\ SanitizePart(s, max) \in Part(max)
         /\ Len(s) > 0 => SanitizePart(s, max) # <<>>
  <1> DEFINE t == Take(s, max)
             r == [i \in 1..Len(t) |-> Clean(t[i])]
  <1>1. /\ t \in Seq(Int) /\ Len(t) = IF Len(s) < max THEN Len(s) ELSE max
    BY TakeProperties
  <1>2. Len(t) \in Nat /\ Len(t) <= max /\ (Len(s) > 0 => Len(t) > 0)
    BY <1>1
  <1>3. \A i \in 1..Len(t) : t[i] \in Int
    BY <1>1, ElementOfSeq
  <1> HIDE DEF t
  <1>4. \A i \in 1..Len(t) : Clean(t[i]) \in Good
    BY <1>3, CleanGood
  <1>5. r \in Seq(Good) /\ Len(r) = Len(t)
    BY <1>2, <1>4
  <1>6. Len(s) > 0 => r # <<>>
    BY <1>2, <1>5
  <1>7. SanitizePart(s, max) = r
    BY DEF SanitizePart, t
  <1> HIDE DEF r
  <1> QED BY <1>2, <1>5, <1>6, <1>7 DEF Part

\* mangle makes a well-shaped name of any file name.
LEMMA MangleShapes ==
  ASSUME NEW s \in Seq(Int), s # <<>>
  PROVE  Mangle(s) \in Shaped
  <1> DEFINE dot  == LastDot(s)
             stem == IF dot <= 1 THEN s ELSE SubSeq(s, 1, dot - 1)
             ext  == IF dot <= 1 THEN <<>> ELSE SubSeq(s, dot + 1, Len(s))
  <1>1. dot \in 0..Len(s) /\ Len(s) \in Nat \ {0}
    BY LastDotFinds
  <1>2. stem \in Seq(Int) /\ Len(stem) > 0
    <2>1. CASE dot <= 1
      BY <1>1, <2>1
    <2>2. CASE dot > 1
      <3>1. \A i \in 1..(dot - 1) : s[i] \in Int
        BY <1>1
      <3> HIDE DEF dot
      <3>2. /\ SubSeq(s, 1, dot - 1) \in Seq(Int)
            /\ Len(SubSeq(s, 1, dot - 1)) = IF 1 <= dot - 1 THEN dot - 1 - 1 + 1 ELSE 0
        BY <1>1, <3>1, SubSeqProperties
      <3> QED BY <1>1, <2>2, <3>2
    <2> QED BY <1>1, <2>1, <2>2
  <1>3. ext \in Seq(Int)
    <2>1. CASE dot <= 1
      BY <2>1
    <2>2. CASE dot > 1
      <3>1. \A i \in (dot + 1)..Len(s) : s[i] \in Int
        BY <1>1
      <3> HIDE DEF dot
      <3>2. SubSeq(s, dot + 1, Len(s)) \in Seq(Int)
        BY <1>1, <3>1, SubSeqProperties
      <3> QED BY <1>1, <2>2, <3>2
    <2> QED BY <1>1, <2>1, <2>2
  <1>4. Mangle(s) = Joined(SanitizePart(stem, StemMax), SanitizePart(ext, ExtMax))
    BY DEF Mangle
  <1> HIDE DEF stem, ext
  <1>5. /\ SanitizePart(stem, StemMax) \in Part(StemMax) \ {<<>>}
        /\ SanitizePart(ext, ExtMax) \in Part(ExtMax)
    BY <1>2, <1>3, SanitizeMakesPart, NamesAssumption
  <1> QED BY <1>4, <1>5 DEF Shaped

\* Joining a name from the left or from the right.
LEMMA JoinedEitherWay ==
  ASSUME NEW stem \in Seq(Good), NEW ext \in Seq(Good)
  PROVE  stem \o (<<Dot>> \o ext) = (stem \o <<Dot>>) \o ext
  <1>1. stem \in Seq(Int) /\ ext \in Seq(Int) /\ <<Dot>> \in Seq(Int)
    BY PartProperties DEF Dot
  <1> QED BY <1>1, ConcatAssociative, SMTT(60)

\* What SubSeq cuts at the dot.
LEMMA CutsOfJoined ==
  ASSUME NEW stem \in Seq(Good), stem # <<>>, NEW ext \in Seq(Good), ext # <<>>
  PROVE  LET s == Joined(stem, ext)
         IN  /\ SubSeq(s, 1, Len(stem)) = stem
             /\ SubSeq(s, Len(stem) + 1, Len(s)) = <<Dot>> \o ext
  <1> DEFINE tail == <<Dot>> \o ext
  <1>1. /\ stem \in Seq(Int) /\ Len(stem) \in Nat \ {0}
        /\ ext \in Seq(Int) /\ Len(ext) \in Nat
        /\ <<Dot>> \in Seq(Int) /\ Len(<<Dot>>) = 1
    BY PartProperties DEF Dot
  <1>2. tail \in Seq(Int) /\ Len(tail) = 1 + Len(ext)
    BY <1>1, ConcatProperties
  <1>3. Joined(stem, ext) = stem \o tail
    BY JoinedEitherWay DEF Joined
  <1> HIDE DEF tail
  <1>4. Len(stem \o tail) = Len(stem) + Len(tail)
    BY <1>1, <1>2, ConcatProperties
  <1>5. SubSeq(stem \o tail, 1, Len(stem)) = stem
    <2>1. SubSeq(stem \o tail, 1, Len(stem)) = SubSeq(stem, 1, Len(stem))
      <3>1. 1 \in 1..Len(stem) /\ Len(stem) \in 1..Len(stem)
        BY <1>1
      <3> QED BY <1>1, <1>2, <3>1, SubSeqOfConcat1
    <2> QED BY <1>1, <2>1, SubSeqFull
  <1>6. SubSeq(stem \o tail, Len(stem) + 1, Len(stem) + Len(tail)) = tail
    <2>1. /\ Len(stem) + 1 \in Len(stem) + 1..Len(stem) + Len(tail)
          /\ Len(stem) + Len(tail) \in Len(stem) + 1..Len(stem) + Len(tail)
      <3>1. \A a, b \in Nat : b > 0 => a + 1 \in (a + 1)..(a + b) /\ a + b \in (a + 1)..(a + b)
        OBVIOUS
      <3>2. Len(stem) \in Nat /\ Len(tail) \in Nat /\ Len(tail) > 0
        BY <1>1, <1>2
      <3> QED BY <3>1, <3>2, Zenon
    <2>2. SubSeq(stem \o tail, Len(stem) + 1, Len(stem) + Len(tail))
            = SubSeq(tail, Len(stem) + 1 - Len(stem), Len(stem) + Len(tail) - Len(stem))
      BY <1>1, <1>2, <2>1, SubSeqOfConcat2, SMTT(60)
    <2>3. Len(stem) + 1 - Len(stem) = 1 /\ Len(stem) + Len(tail) - Len(stem) = Len(tail)
      BY <1>1, <1>2
    <2> QED BY <1>2, <2>2, <2>3, SubSeqFull
  <1> QED BY <1>3, <1>4, <1>5, <1>6 DEF tail

\* The stem ends with a tilde and the digits of n, behind k characters.
EndsWith(stem, k, n) ==
  /\ Len(stem) = k + 1 + Len(Digits[n]) /\ stem[k + 1] = Tilde
  /\ \A i \in 1..Len(Digits[n]) : stem[k + 1 + i] = Digits[n][i]

\* dedupe keeps the shape of a name and puts the suffix at the end of the stem.
LEMMA CandidateParts ==
  ASSUME NEW name \in Shaped, NEW n \in 1..MaxSuffix
  PROVE  \E new \in Part(StemMax) \ {<<>>}, ext \in Part(ExtMax), k \in Nat :
           Candidate(name, n) = Joined(new, ext) /\ EndsWith(new, k, n)
  <1>1. PICK stem \in Part(StemMax) \ {<<>>}, ext \in Part(ExtMax) : name = Joined(stem, ext)
    BY DEF Shaped
  <1>2. stem \in Seq(Good) /\ ext \in Seq(Good)
    BY DEF Part
  <1> DEFINE suffix == <<Tilde>> \o Digits[n]
             keep == IF Len(suffix) < StemMax THEN StemMax - Len(suffix) ELSE 0
             new == Take(stem, keep) \o suffix
  <1>3. /\ suffix \in Seq(Good) /\ Len(suffix) \in 1..StemMax /\ suffix[1] = Tilde
        /\ Len(suffix) = 1 + Len(Digits[n]) /\ Len(Digits[n]) \in Nat
        /\ \A i \in 1..Len(Digits[n]) : suffix[1 + i] = Digits[n][i]
    <2>1. Digits[n] \in Seq(48..57) /\ Len(Digits[n]) \in Nat /\ Len(Digits[n]) < StemMax
      BY NamesAssumption, LenProperties
    <2>2. 48..57 \subseteq Good /\ Tilde \in Good
      BY DEF Good, ILLEGAL, Dot, LowerA, LowerZ, Tilde
    <2>3. Digits[n] \in Seq(Good) /\ <<Tilde>> \in Seq(Good) /\ Len(<<Tilde>>) = 1
      BY <2>1, <2>2, SeqMonotonic
    <2>4. /\ suffix \in Seq(Good) /\ Len(suffix) = Len(<<Tilde>>) + Len(Digits[n])
          /\ \A i \in 1..(Len(<<Tilde>>) + Len(Digits[n])) :
               suffix[i] = IF i <= Len(<<Tilde>>) THEN <<Tilde>>[i]
                           ELSE Digits[n][i - Len(<<Tilde>>)]
      BY <2>3, ConcatProperties
    <2>5. StemMax \in Nat
      BY NamesAssumption
    <2> HIDE DEF suffix
    <2>6. suffix[1] = Tilde
      BY <2>1, <2>3, <2>4
    <2>7. \A i \in 1..Len(Digits[n]) : suffix[1 + i] = Digits[n][i]
      BY <2>1, <2>3, <2>4
    <2>8. Len(suffix) = 1 + Len(Digits[n]) /\ Len(suffix) \in 1..StemMax
      <3> DEFINE d == Len(Digits[n])
      <3>1. d \in Nat /\ d < StemMax /\ Len(suffix) = 1 + d
        BY <2>1, <2>3, <2>4
      <3> HIDE DEF d
      <3>2. 1 + d \in 1..StemMax
        BY <2>5, <3>1
      <3> QED BY <3>1, <3>2 DEF d
    <2> QED BY <2>1, <2>4, <2>6, <2>7, <2>8
  <1> HIDE DEF suffix
  <1>4. keep \in Nat /\ keep + Len(suffix) <= StemMax
    <2>1. Len(suffix) \in 1..StemMax /\ StemMax \in Nat
      BY <1>3, NamesAssumption
    <2> QED BY <2>1
  <1> HIDE DEF keep
  <1>5. /\ Take(stem, keep) \in Seq(Good)
        /\ Len(Take(stem, keep)) \in 0..keep
    BY <1>2, <1>4, TakeProperties
  <1>6. /\ new \in Seq(Good) /\ Len(new) = Len(Take(stem, keep)) + Len(suffix)
        /\ \A i \in 1..(Len(Take(stem, keep)) + Len(suffix)) :
             new[i] = IF i <= Len(Take(stem, keep)) THEN Take(stem, keep)[i]
                      ELSE suffix[i - Len(Take(stem, keep))]
    <2>1. suffix \in Seq(Good) /\ Take(stem, keep) \in Seq(Good)
      BY <1>3, <1>5
    <2> QED BY <2>1, ConcatProperties
  <1>7. new \in Part(StemMax) \ {<<>>} /\ EndsWith(new, Len(Take(stem, keep)), n)
    <2> DEFINE k == Len(Take(stem, keep))
    <2>1. k \in Nat
      BY <1>5, LenProperties
    <2> HIDE DEF new, k
    <2>2. /\ new \in Seq(Good) /\ Len(new) = k + Len(suffix)
          /\ \A i \in 1..(k + Len(suffix)) :
               new[i] = IF i <= k THEN Take(stem, keep)[i] ELSE suffix[i - k]
      BY <1>6 DEF k
    <2>3. Len(new) <= StemMax /\ Len(new) > 0
      BY <1>3, <1>4, <1>5, <2>1, <2>2, NamesAssumption DEF k
    <2>4. new # <<>>
      BY <2>3
    <2>5. new[k + 1] = Tilde
      <3>1. /\ k + 1 \in 1..(k + Len(suffix)) /\ ~(k + 1 <= k) /\ (k + 1) - k = 1
        BY <1>3, <2>1
      <3>2. new[k + 1] = suffix[(k + 1) - k]
        BY <2>2, <3>1
      <3> QED BY <1>3, <3>1, <3>2
    <2>6. ASSUME NEW i \in 1..Len(Digits[n]) PROVE new[k + 1 + i] = Digits[n][i]
      <3>1. /\ k + 1 + i \in 1..(k + Len(suffix)) /\ ~(k + 1 + i <= k)
            /\ (k + 1 + i) - k = 1 + i
        BY <1>3, <2>1
      <3>2. new[k + 1 + i] = suffix[(k + 1 + i) - k]
        BY <2>2, <3>1
      <3>3. suffix[1 + i] = Digits[n][i]
        BY <1>3
      <3> QED BY <3>1, <3>2, <3>3
    <2>7. Len(new) = k + 1 + Len(Digits[n])
      <3> DEFINE d == Len(Digits[n])
      <3>1. Len(new) = k + Len(suffix) /\ Len(suffix) = 1 + d /\ d \in Nat
        BY <1>3, <2>2
      <3> HIDE DEF d
      <3>2. Len(new) = k + (1 + d)
        BY <3>1
      <3>3. k + (1 + d) = k + 1 + d
        BY <2>1, <3>1
      <3> QED BY <3>2, <3>3 DEF d
    <2> QED BY <2>2, <2>3, <2>4, <2>5, <2>6, <2>7 DEF Part, EndsWith, k
  <1>8. Candidate(name, n) = Joined(new, ext)
    <2>1. /\ name \in Seq(Int)
          /\ LastDot(name) = IF ext = <<>> THEN 0 ELSE Len(stem) + 1
      BY <1>1, <1>2, PartsOfJoined
    <2>2. Len(stem) \in Nat
      BY <1>2
    <2>3. CASE ext = <<>>
      <3>1. Candidate(name, n) = new \o <<>>
        BY <1>1, <2>1, <2>3 DEF Candidate, Joined, new, keep, suffix
      <3>2. new \o <<>> = new
        BY <1>6, ConcatEmptySeq
      <3> QED BY <2>3, <3>1, <3>2 DEF Joined
    <2>4. CASE ext # <<>>
      <3>1. LastDot(name) = Len(stem) + 1 /\ LastDot(name) # 0 /\ LastDot(name) - 1 = Len(stem)
        BY <2>1, <2>2, <2>4
      <3>2. /\ SubSeq(name, 1, LastDot(name) - 1) = stem
            /\ SubSeq(name, LastDot(name), Len(name)) = <<Dot>> \o ext
        <4>1. stem \in Seq(Good) /\ stem # <<>> /\ ext \in Seq(Good) /\ ext # <<>>
          BY <1>1, <1>2, <2>4
        <4>2. /\ SubSeq(Joined(stem, ext), 1, Len(stem)) = stem
              /\ SubSeq(Joined(stem, ext), Len(stem) + 1, Len(Joined(stem, ext)))
                   = <<Dot>> \o ext
          BY <4>1, CutsOfJoined
        <4> QED BY <1>1, <3>1, <4>2
      <3>3. Candidate(name, n) = new \o (<<Dot>> \o ext)
        BY <3>1, <3>2 DEF Candidate, new, keep, suffix
      <3>4. new \o (<<Dot>> \o ext) = (new \o <<Dot>>) \o ext
        <4>1. new \in Seq(Good) /\ ext \in Seq(Good)
          BY <1>2, <1>6
        <4> HIDE DEF new
        <4> QED BY <4>1, JoinedEitherWay
      <3> QED BY <2>4, <3>3, <3>4 DEF Joined
    <2> QED BY <2>3, <2>4
  <1> HIDE DEF new
  <1>9. Len(Take(stem, keep)) \in Nat
    BY <1>5, LenProperties
  <1> QED BY <1>1, <1>7, <1>8, <1>9

\* No device has a tilde in its name.
LEMMA CandidateStored ==
  ASSUME NEW name \in Shaped, NEW n \in 1..MaxSuffix
  PROVE  Candidate(name, n) \in StoredNames
  <1>1. PICK new \in Part(StemMax) \ {<<>>}, ext \in Part(ExtMax), k \in Nat :
          Candidate(name, n) = Joined(new, ext) /\ EndsWith(new, k, n)
    BY CandidateParts
  <1>2. new \in Seq(Good) /\ ext \in Seq(Good)
    BY <1>1 DEF Part
  <1>3. StemOf(Joined(new, ext)) = new /\ Upper(new) = new
    BY <1>2, PartsOfJoined, PartProperties
  <1>4. new[k + 1] = Tilde /\ k + 1 \in DOMAIN new
    <2>1. Len(new) \in Nat /\ DOMAIN new = 1..Len(new)
      BY <1>2, LenProperties
    <2>2. Len(Digits[n]) \in Nat
      <3>1. Digits[n] \in Seq(48..57)
        BY NamesAssumption
      <3> QED BY <3>1, LenProperties
    <2> DEFINE d == Len(Digits[n])
    <2>3. new[k + 1] = Tilde /\ Len(new) = k + 1 + d
      BY <1>1 DEF EndsWith
    <2>4. d \in Nat
      BY <2>2
    <2> HIDE DEF d
    <2>5. k + 1 \in 1..(k + 1 + d)
      BY <2>4
    <2> QED BY <2>1, <2>3, <2>5
  <1>5. ~IsDosReserved(Joined(new, ext))
    BY <1>3, <1>4, NamesAssumption DEF IsDosReserved
  <1>6. Joined(new, ext) \in Shaped
    BY <1>1 DEF Shaped
  <1> QED BY <1>1, <1>5, <1>6 DEF StoredNames

\* Each suffix makes another name: in stems of one length, the longer suffix has a digit
\* where the shorter has its tilde.
LEMMA CandidatesDiffer ==
  ASSUME NEW name \in Shaped, NEW m \in 1..MaxSuffix, NEW n \in 1..MaxSuffix,
         Candidate(name, m) = Candidate(name, n)
  PROVE  m = n
  <1>1. PICK stem \in Part(StemMax) \ {<<>>}, ext \in Part(ExtMax), j \in Nat :
          Candidate(name, m) = Joined(stem, ext) /\ EndsWith(stem, j, m)
    BY CandidateParts
  <1>2. PICK stem2 \in Part(StemMax) \ {<<>>}, ext2 \in Part(ExtMax), k \in Nat :
          Candidate(name, n) = Joined(stem2, ext2) /\ EndsWith(stem2, k, n)
    BY CandidateParts
  <1>3. stem = stem2
    <2>1. /\ stem \in Seq(Good) /\ ext \in Seq(Good)
          /\ stem2 \in Seq(Good) /\ ext2 \in Seq(Good)
      BY <1>1, <1>2 DEF Part
    <2>2. StemOf(Joined(stem, ext)) = stem /\ StemOf(Joined(stem2, ext2)) = stem2
      BY <2>1, PartsOfJoined
    <2> QED BY <1>1, <1>2, <2>2
  <1> DEFINE a == Digits[m]
             b == Digits[n]
  <1>4. a \in Seq(48..57) /\ b \in Seq(48..57)
    BY NamesAssumption
  <1>5. /\ Len(a) \in Nat /\ Len(b) \in Nat
        /\ \A i \in 1..Len(a) : a[i] \in 48..57
        /\ \A i \in 1..Len(b) : b[i] \in 48..57
    <2> HIDE DEF a, b
    <2> QED BY <1>4, LenProperties, ElementOfSeq
  <1>6. /\ j + 1 + Len(a) = k + 1 + Len(b) /\ stem[j + 1] = Tilde /\ stem[k + 1] = Tilde
        /\ \A i \in 1..Len(a) : stem[j + 1 + i] = a[i]
        /\ \A i \in 1..Len(b) : stem[k + 1 + i] = b[i]
    BY <1>1, <1>2, <1>3 DEF EndsWith
  <1> HIDE DEF a, b
  <1>7. CASE j = k
    <2>1. Len(a) = Len(b) /\ \A i \in 1..Len(a) : a[i] = b[i]
      BY <1>5, <1>6, <1>7
    <2>2. a = b
      BY <1>4, <2>1, SeqEqual
    <2> QED BY <2>2, DigitsAssumption DEF a, b
  <1>8. CASE j < k
    <2> DEFINE i == k - j
    <2>1. i \in 1..Len(a) /\ j + 1 + i = k + 1
      BY <1>5, <1>6, <1>8
    <2> HIDE DEF i
    <2>2. stem[j + 1 + i] = a[i] /\ a[i] \in 48..57
      BY <1>5, <1>6, <2>1
    <2>3. a[i] = Tilde
      BY <1>6, <2>1, <2>2
    <2>4. a[i] \in 48..57
      BY <2>2
    <2> QED BY <2>3, <2>4 DEF Tilde
  <1>9. CASE k < j
    <2> DEFINE i == j - k
    <2>1. i \in 1..Len(b) /\ k + 1 + i = j + 1
      BY <1>5, <1>6, <1>9
    <2> HIDE DEF i
    <2>2. stem[k + 1 + i] = b[i] /\ b[i] \in 48..57
      BY <1>5, <1>6, <2>1
    <2>3. b[i] = Tilde
      BY <1>6, <2>1, <2>2
    <2>4. b[i] \in 48..57
      BY <2>2
    <2> QED BY <2>3, <2>4 DEF Tilde
  <1> QED BY <1>7, <1>8, <1>9

----------------------------------------------------------------------------
(***************************************************************************)
(* What the readers of a name ask of it.                                   *)
(***************************************************************************)
\* The length, the characters and the only dot of a well-shaped name.
LEMMA ShapedProperties ==
  ASSUME NEW s \in Shaped
  PROVE  /\ s \in Seq(Int) /\ Len(s) \in 1..(StemMax + 1 + ExtMax)
         /\ \A i \in 1..Len(s) : s[i] \in Good \cup {Dot}
         /\ s[1] # Dot /\ s[Len(s)] # Dot
         /\ LET n == Len(StemOf(s))
            IN  /\ n \in 1..StemMax /\ n <= Len(s)
                /\ \A i \in 1..n : s[i] \in Good
                /\ LastDot(s) = IF n = Len(s) THEN 0 ELSE n + 1
                /\ n < Len(s) => Len(s) - n - 1 \in 1..ExtMax
                /\ \A i \in 1..Len(s) : s[i] = Dot => i = n + 1
  <1>1. PICK stem \in Part(StemMax) \ {<<>>}, ext \in Part(ExtMax) : s = Joined(stem, ext)
    BY DEF Shaped
  <1>2. /\ stem \in Seq(Good) /\ stem # <<>> /\ Len(stem) \in 1..StemMax
        /\ ext \in Seq(Good) /\ Len(ext) \in 0..ExtMax
    <2>1. stem \in Seq(Good) /\ stem # <<>> /\ Len(stem) <= StemMax
          /\ ext \in Seq(Good) /\ Len(ext) <= ExtMax
      BY <1>1 DEF Part
    <2>2. Len(stem) \in Nat \ {0} /\ Len(ext) \in Nat
      BY <2>1, EmptySeq, LenProperties
    <2> QED BY <2>1, <2>2, NamesAssumption
  <1>3. /\ s \in Seq(Int) /\ StemOf(s) = stem
        /\ LastDot(s) = IF ext = <<>> THEN 0 ELSE Len(stem) + 1
    BY <1>1, <1>2, PartsOfJoined
  <1>4. /\ \A i \in 1..Len(stem) : stem[i] \in Good /\ stem[i] # Dot
        /\ \A i \in 1..Len(ext) : ext[i] \in Good /\ ext[i] # Dot
    BY <1>2, PartProperties
  <1>5. StemMax \in Nat \ {0} /\ ExtMax \in Nat \ {0}
    BY NamesAssumption
  <1>6. CASE ext = <<>>
    <2>1. s = stem
      BY <1>1, <1>6 DEF Joined
    <2> QED BY <1>2, <1>3, <1>4, <1>5, <1>6, <2>1
  <1>7. CASE ext # <<>>
    <2>1. Len(ext) \in 1..ExtMax
      BY <1>2, <1>5, <1>7, EmptySeq
    <2>2. /\ Len(s) = Len(stem) + 1 + Len(ext)
          /\ \A i \in 1..Len(stem) : s[i] = stem[i]
          /\ s[Len(stem) + 1] = Dot
          /\ \A i \in (Len(stem) + 2)..Len(s) : s[i] = ext[i - Len(stem) - 1]
      BY <1>1, <1>2, <1>7, JoinedProperties
    <2>3. Len(s) \in 1..(StemMax + 1 + ExtMax) /\ Len(s) # Len(stem)
      BY <1>2, <1>5, <2>1, <2>2
    <2>4. \A i \in 1..Len(stem) : s[i] \in Good /\ s[i] # Dot
      BY <1>4, <2>2
    <2>5. \A i \in (Len(stem) + 2)..Len(s) : s[i] \in Good /\ s[i] # Dot
      <3>1. \A i \in (Len(stem) + 2)..Len(s) : i - Len(stem) - 1 \in 1..Len(ext)
        BY <1>2, <2>1, <2>2
      <3> QED BY <1>4, <2>2, <3>1
    <2>6. \A i \in 1..Len(s) : \/ i \in 1..Len(stem)
                               \/ i = Len(stem) + 1
                               \/ i \in (Len(stem) + 2)..Len(s)
      BY <1>2, <2>1, <2>2
    <2>7. /\ \A i \in 1..Len(s) : s[i] \in Good \cup {Dot}
          /\ \A i \in 1..Len(s) : s[i] = Dot => i = Len(stem) + 1
      BY <2>2, <2>4, <2>5, <2>6
    <2>8. s[1] # Dot /\ s[Len(s)] # Dot
      <3>1. 1 \in 1..Len(stem) /\ Len(s) \in (Len(stem) + 2)..Len(s)
        BY <1>2, <2>1, <2>2
      <3> QED BY <2>4, <2>5, <3>1
    <2>9. Len(s) - Len(stem) - 1 \in 1..ExtMax
      BY <1>2, <2>1, <2>2
    <2> QED BY <1>2, <1>3, <1>7, <2>3, <2>4, <2>7, <2>8, <2>9, SMTT(60)
  <1> QED BY <1>6, <1>7

\* Case folding does not change a well-shaped name.
LEMMA ShapedUpper ==
  ASSUME NEW s \in Shaped
  PROVE  Upper(s) = s
  <1>1. s \in Seq(Int) /\ \A i \in 1..Len(s) : s[i] \in Good \cup {Dot}
    BY ShapedProperties
  <1>2. \A i \in 1..Len(s) : UpperCode(s[i]) = s[i]
    <2>1. \A c \in Good \cup {Dot} : UpperCode(c) = c
      BY DEF UpperCode, Good, Dot, LowerA, LowerZ
    <2> QED BY <1>1, <2>1
  <1>3. s \in [1..Len(s) -> Int]
    BY <1>1, LenProperties
  <1> QED BY <1>2, <1>3 DEF Upper

\* All three checks accept a stored name.
LEMMA StoredAccepted ==
  ASSUME NEW s \in StoredNames
  PROVE  ReadByHost(s) /\ UnpackedByHost(s) /\ CreatedByStub(s)
  <1> DEFINE n == Len(StemOf(s))
             dots == {i \in DOMAIN s : s[i] = Dot}
  <1>1. s \in Shaped /\ ~IsDosReserved(s)
    BY DEF StoredNames
  <1>2. /\ s \in Seq(Int) /\ Len(s) \in 1..(StemMax + 1 + ExtMax)
        /\ \A i \in 1..Len(s) : s[i] \in Good \cup {Dot}
        /\ s[1] # Dot /\ s[Len(s)] # Dot
        /\ n \in 1..StemMax /\ n <= Len(s)
        /\ \A i \in 1..n : s[i] \in Good
        /\ LastDot(s) = IF n = Len(s) THEN 0 ELSE n + 1
        /\ n < Len(s) => Len(s) - n - 1 \in 1..ExtMax
        /\ \A i \in 1..Len(s) : s[i] = Dot => i = n + 1
    BY <1>1, ShapedProperties
  <1>3. DOMAIN s = 1..Len(s) /\ Len(s) \in Nat /\ s # <<>>
    BY <1>2
  <1>4. \A c \in Good \cup {Dot} : c \in 32..126 \ ILLEGAL /\ c >= 32 /\ c # 127 /\ c # 32
    BY DEF Good, ILLEGAL, Dot
  <1>5. \A i \in 1..Len(s) : s[i] \in 32..126 \ ILLEGAL /\ s[i] >= 32 /\ s[i] # 127 /\ s[i] # 32
    BY <1>2, <1>4
  <1>6. Cardinality(dots) <= 1
    <2>1. dots \in SUBSET {n + 1}
      BY <1>2, <1>3
    <2>2. IsFiniteSet({n + 1}) /\ Cardinality({n + 1}) = 1
      BY FS_Singleton
    <2> HIDE DEF dots, n
    <2> QED BY <2>1, <2>2, FS_Subset
  <1>7. StemMax \in Nat /\ ExtMax \in Nat
    BY NamesAssumption
  <1>8. ReadByHost(s)
    <2>1. LET dot == LastDot(s)
          IN  IF dot = 0 THEN Len(s) <= StemMax
              ELSE dot - 1 \in 1..StemMax /\ Len(s) - dot <= ExtMax
      <3>1. /\ Len(s) \in Nat /\ n \in 1..StemMax /\ n <= Len(s)
            /\ LastDot(s) = IF n = Len(s) THEN 0 ELSE n + 1
            /\ n < Len(s) => Len(s) - n - 1 \in 1..ExtMax
        BY <1>2, <1>3
      <3> HIDE DEF n
      <3>2. CASE n = Len(s)
        BY <1>7, <3>1, <3>2
      <3>3. CASE n < Len(s)
        BY <1>7, <3>1, <3>3
      <3> QED BY <1>7, <3>1, <3>2, <3>3
    <2> QED BY <1>1, <1>2, <1>3, <1>5, <1>6, <2>1 DEF ReadByHost
  <1>9. UnpackedByHost(s)
    BY <1>1, <1>2, <1>3, <1>5 DEF UnpackedByHost
  <1>10. CreatedByStub(s)
    <2>1. s[Len(s)] # 32
      BY <1>2, <1>5
    <2>2. /\ \A i \in 1..n : s[i] \in 32..126 \ ILLEGAL
          /\ n \in 1..StemMax
          /\ n < Len(s) => Len(s) - n - 1 <= ExtMax /\ LastDot(s) = n + 1
      <3>1. /\ Len(s) \in Nat /\ n \in 1..StemMax /\ n <= Len(s)
            /\ LastDot(s) = IF n = Len(s) THEN 0 ELSE n + 1
            /\ n < Len(s) => Len(s) - n - 1 \in 1..ExtMax
            /\ \A i \in 1..n : s[i] \in 32..126 \ ILLEGAL
        BY <1>2, <1>3, <1>4
      <3> HIDE DEF n
      <3>2. n < Len(s) => Len(s) - n - 1 <= ExtMax /\ LastDot(s) = n + 1
        BY <1>7, <3>1
      <3> QED BY <3>1, <3>2
    <2> QED BY <1>1, <1>2, <2>1, <2>2 DEF CreatedByStub
  <1> QED BY <1>8, <1>9, <1>10

----------------------------------------------------------------------------
(***************************************************************************)
(* The invariant.                                                          *)
(***************************************************************************)
Named  == [name : StoredNames, path : DOMAIN Sources, mtime : 1..2]
Packed == [name : StoredNames, data : DOMAIN Sources, stamp : 0..2]

VariablesOK ==
  /\ preserve \in BOOLEAN /\ pack \in 1..2
  /\ stage \in {"stat", "dedupe", "packed", "reserved", "exhausted"}
  /\ argv \in [1..2 -> Seq(DOMAIN Sources)]
  /\ prelim \in Seq(Named) /\ entries \in Seq(Named) /\ files \in Seq(Packed)
Progress ==
  Len(files) <= Len(entries) /\ Len(entries) <= Len(prelim) /\ Len(prelim) <= Len(argv[pack])
Distinct == \A i, j \in 1..Len(entries) : entries[i].name = entries[j].name => i = j

IInv == VariablesOK /\ Progress /\ used = Names /\ Distinct

\* The state a pack starts in.
LEMMA StartOK ==
  ASSUME preserve \in BOOLEAN, pack \in 1..2, stage = "stat",
         argv \in [1..2 -> Seq(DOMAIN Sources)],
         prelim = <<>>, used = {}, entries = <<>>, files = <<>>
  PROVE  IInv
  <1>1. VariablesOK
    BY DEF VariablesOK
  <1>2. Len(argv[pack]) \in Nat
    BY LenProperties
  <1> QED BY <1>1, <1>2 DEF IInv, Progress, Names, Distinct

LEMMA InitOK == Init => IInv
  <1> SUFFICES ASSUME Init PROVE IInv
    OBVIOUS
  <1>1. PICK n \in 0..MaxFiles :
          \E s \in [1..n -> DOMAIN Sources], f \in Bijection(1..n, 1..n) :
            argv = <<s, [k \in 1..n |-> s[f[k]]]>>
    BY DEF Init
  <1>2. PICK s \in [1..n -> DOMAIN Sources], f \in Bijection(1..n, 1..n) :
          argv = <<s, [k \in 1..n |-> s[f[k]]]>>
    BY <1>1
  <1>3. n \in Nat
    BY NamesAssumption
  <1>4. f \in [1..n -> 1..n]
    BY DEF Bijection, Injection
  <1>5. s \in Seq(DOMAIN Sources) /\ [k \in 1..n |-> s[f[k]]] \in Seq(DOMAIN Sources)
    BY <1>3, <1>4
  <1>6. argv \in [1..2 -> Seq(DOMAIN Sources)]
    BY <1>2, <1>5
  <1> QED BY <1>6, StartOK DEF Init

\* A name that goes to the end of entries unused keeps them distinct.
LEMMA TakeNameOK ==
  ASSUME IInv, NEW name \in StoredNames, name \notin used,
         Len(entries) < Len(prelim), TakeName(name)
  PROVE  IInv'
  <1> DEFINE e == [prelim[Len(entries) + 1] EXCEPT !.name = name]
  <1>1. /\ used' = used \cup {name} /\ entries' = Append(entries, e)
        /\ UNCHANGED <<preserve, argv, pack, stage, prelim, files, result>>
    BY DEF TakeName
  <1>2. entries \in Seq(Named) /\ prelim \in Seq(Named) /\ files \in Seq(Packed)
    BY DEF IInv, VariablesOK
  <1>3. Len(entries) \in Nat /\ Len(prelim) \in Nat /\ Len(files) \in Nat
    BY <1>2, LenProperties
  <1>4. prelim[Len(entries) + 1] \in Named
    <2>1. Len(entries) + 1 \in 1..Len(prelim)
      BY <1>3
    <2> QED BY <1>2, <2>1, ElementOfSeq
  <1>5. e \in Named /\ e.name = name
    BY <1>4 DEF Named
  <1> HIDE DEF e
  <1>6. /\ entries' \in Seq(Named) /\ Len(entries') = Len(entries) + 1
        /\ \A i \in 1..Len(entries) : entries'[i] = entries[i]
        /\ entries'[Len(entries) + 1] = e
    BY <1>1, <1>2, <1>5, AppendProperties
  <1>7. VariablesOK'
    BY <1>1, <1>6 DEF IInv, VariablesOK
  <1>8. Progress'
    BY <1>1, <1>3, <1>6 DEF IInv, Progress
  <1>9. used' = Names'
    <2>1. DOMAIN entries = 1..Len(entries) /\ DOMAIN entries' = 1..(Len(entries) + 1)
      BY <1>2, <1>6, LenProperties
    <2>2. used = {entries[i].name : i \in 1..Len(entries)}
      BY <2>1 DEF IInv, Names
    <2>3. {entries'[i].name : i \in 1..(Len(entries) + 1)}
            = {entries[i].name : i \in 1..Len(entries)} \cup {name}
      <3>1. \A i \in 1..(Len(entries) + 1) : i \in 1..Len(entries) \/ i = Len(entries) + 1
        BY <1>3
      <3>2. 1..Len(entries) \subseteq 1..(Len(entries) + 1)
            /\ Len(entries) + 1 \in 1..(Len(entries) + 1)
        BY <1>3
      <3>3. \A i \in 1..Len(entries) : entries'[i].name = entries[i].name
        BY <1>6
      <3>4. entries'[Len(entries) + 1].name = name
        BY <1>5, <1>6
      <3> QED BY <3>1, <3>2, <3>3, <3>4
    <2> QED BY <1>1, <2>1, <2>2, <2>3 DEF Names
  <1>10. Distinct'
    <2> SUFFICES ASSUME NEW i \in 1..(Len(entries) + 1), NEW j \in 1..(Len(entries) + 1),
                        entries'[i].name = entries'[j].name
                 PROVE  i = j
      BY <1>6 DEF Distinct
    <2>1. \A k \in 1..Len(entries) : entries[k].name # name
      <3>1. DOMAIN entries = 1..Len(entries)
        BY <1>2, LenProperties
      <3> QED BY <3>1 DEF IInv, Names
    <2>2. CASE i \in 1..Len(entries) /\ j \in 1..Len(entries)
      BY <1>6, <2>2 DEF IInv, Distinct
    <2>3. CASE i \in 1..Len(entries) /\ j = Len(entries) + 1
      BY <1>5, <1>6, <2>1, <2>3
    <2>4. CASE i = Len(entries) + 1 /\ j \in 1..Len(entries)
      BY <1>5, <1>6, <2>1, <2>4
    <2>5. CASE i = Len(entries) + 1 /\ j = Len(entries) + 1
      BY <2>5
    <2> QED BY <1>3, <2>2, <2>3, <2>4, <2>5
  <1> QED BY <1>7, <1>8, <1>9, <1>10 DEF IInv

\* Only the stage changes.
LEMMA FailOK ==
  ASSUME IInv, NEW why \in {"packed", "reserved", "exhausted"},
         stage' = why, UNCHANGED <<preserve, argv, pack, prelim, used, entries, files>>
  PROVE  IInv'
  BY DEF IInv, VariablesOK, Progress, Names, Distinct

\* Nothing but prelim and the stage changes, and prelim gets no shorter.
LEMMA PrelimOK ==
  ASSUME IInv, prelim' \in Seq(Named), stage' \in {"stat", "dedupe"},
         Len(prelim) <= Len(prelim'), Len(prelim') <= Len(argv[pack]),
         UNCHANGED <<preserve, argv, pack, used, entries, files>>
  PROVE  IInv'
  <1>1. VariablesOK'
    BY DEF IInv, VariablesOK
  <1>2. Progress'
    <2>1. Len(entries) \in Nat /\ Len(prelim) \in Nat /\ Len(prelim') \in Nat
      BY LenProperties DEF IInv, VariablesOK
    <2> QED BY <2>1 DEF IInv, Progress
  <1> QED BY <1>1, <1>2 DEF IInv, Names, Distinct

LEMMA StatOK ==
  ASSUME IInv, Stat
  PROVE  IInv'
  <1> DEFINE path == argv[pack][Len(prelim) + 1]
             name == Mangle(Sources[path])
             e == [name |-> name, path |-> path, mtime |-> pack]
  <1>1. pack \in 1..2 /\ prelim \in Seq(Named) /\ argv[pack] \in Seq(DOMAIN Sources)
    BY DEF IInv, VariablesOK
  <1>2. Len(prelim) \in Nat /\ Len(argv[pack]) \in Nat /\ Len(prelim) < Len(argv[pack])
    BY <1>1, LenProperties DEF Stat
  <1>3. path \in DOMAIN Sources
    <2>1. Len(prelim) + 1 \in 1..Len(argv[pack])
      BY <1>2
    <2> QED BY <1>1, <2>1, ElementOfSeq
  <1>4. Sources[path] \in Seq(Int) /\ Sources[path] # <<>>
    <2>1. Sources[path] \in Seq(Nat) /\ Sources[path] # <<>> /\ Nat \subseteq Int
      BY <1>3, NamesAssumption
    <2> QED BY <2>1, SeqMonotonic
  <1>5. name \in Shaped
    BY <1>4, MangleShapes
  <1>6. CASE IsDosReserved(name)
    <2>1. Fail("reserved")
      BY <1>6 DEF Stat
    <2> QED BY <2>1, FailOK DEF Fail
  <1>7. CASE ~IsDosReserved(name)
    <2>1. /\ prelim' = Append(prelim, e)
          /\ UNCHANGED <<preserve, argv, pack, stage, used, entries, files>>
          /\ stage = "stat"
      BY <1>7 DEF Stat
    <2>2. e \in Named
      BY <1>1, <1>3, <1>5, <1>7 DEF Named, StoredNames
    <2> HIDE DEF e
    <2>3. prelim' \in Seq(Named) /\ Len(prelim') = Len(prelim) + 1
      BY <1>1, <2>1, <2>2, AppendProperties
    <2>4. Len(prelim) <= Len(prelim') /\ Len(prelim') <= Len(argv[pack])
      BY <1>2, <2>3
    <2> QED BY <2>1, <2>3, <2>4, PrelimOK
  <1> QED BY <1>6, <1>7

LEMMA SortOK ==
  ASSUME IInv, Sort
  PROVE  IInv'
  <1>1. /\ UNCHANGED <<preserve, argv, pack, used, entries, files>>
        /\ stage' = "dedupe" /\ Len(prelim) = Len(argv[pack])
        /\ \/ prelim' = prelim
           \/ \E f \in Sortings(prelim) : prelim' = [k \in 1..Len(prelim) |-> prelim[f[k]]]
    BY DEF Sort
  <1>2. prelim \in Seq(Named) /\ Len(prelim) \in Nat /\ DOMAIN prelim = 1..Len(prelim)
    BY LenProperties DEF IInv, VariablesOK
  <1>3. prelim' \in Seq(Named) /\ Len(prelim') = Len(prelim)
    <2>1. CASE prelim' = prelim
      BY <1>2, <2>1
    <2>2. ASSUME NEW f \in Sortings(prelim), prelim' = [k \in 1..Len(prelim) |-> prelim[f[k]]]
          PROVE  prelim' \in Seq(Named) /\ Len(prelim') = Len(prelim)
      <3>1. f \in [1..Len(prelim) -> 1..Len(prelim)]
        BY <1>2 DEF Sortings, Bijection, Injection
      <3>2. \A k \in 1..Len(prelim) : prelim[f[k]] \in Named
        BY <1>2, <3>1, ElementOfSeq
      <3> QED BY <1>2, <2>2, <3>2
    <2> QED BY <1>1, <2>1, <2>2
  <1> QED BY <1>1, <1>2, <1>3, PrelimOK

LEMMA DedupeOK ==
  ASSUME IInv, Dedupe
  PROVE  IInv'
  <1> DEFINE name == prelim[Len(entries) + 1].name
  <1>1. entries \in Seq(Named) /\ prelim \in Seq(Named) /\ Len(entries) < Len(prelim)
    BY DEF IInv, VariablesOK, Dedupe
  <1>2. name \in StoredNames /\ name \in Shaped
    <2>1. Len(entries) + 1 \in 1..Len(prelim)
      BY <1>1, LenProperties
    <2>2. prelim[Len(entries) + 1] \in Named
      BY <1>1, <2>1, ElementOfSeq
    <2> QED BY <2>2 DEF Named, StoredNames
  <1>3. CASE name \notin used
    BY <1>1, <1>2, <1>3, TakeNameOK DEF Dedupe
  <1>4. CASE name \in used /\ Free(name) = {}
    <2>1. Fail("exhausted")
      BY <1>4 DEF Dedupe
    <2> QED BY <2>1, FailOK DEF Fail
  <1>5. CASE name \in used /\ Free(name) # {}
    <2>1. PICK n \in Free(name) : TakeName(Candidate(name, n))
      BY <1>5 DEF Dedupe
    <2>2. n \in 1..MaxSuffix /\ Candidate(name, n) \notin used
      BY <2>1 DEF Free
    <2>3. Candidate(name, n) \in StoredNames
      BY <1>2, <2>2, CandidateStored
    <2> QED BY <1>1, <2>1, <2>2, <2>3, TakeNameOK
  <1> QED BY <1>3, <1>4, <1>5

LEMMA BuildOK ==
  ASSUME IInv, Build
  PROVE  IInv'
  <1> DEFINE e == entries[Len(files) + 1]
             built == [name |-> e.name, data |-> e.path, stamp |-> Timestamp(e)]
  <1>1. /\ UNCHANGED <<preserve, argv, pack, stage, prelim, used, entries>>
        /\ files' = Append(files, built) /\ Len(files) < Len(entries)
    BY DEF Build
  <1>2. entries \in Seq(Named) /\ files \in Seq(Packed)
    BY DEF IInv, VariablesOK
  <1>3. e \in Named
    <2>1. Len(files) + 1 \in 1..Len(entries)
      BY <1>1, <1>2, LenProperties
    <2> QED BY <1>2, <2>1, ElementOfSeq
  <1>4. built \in Packed
    <2>1. Timestamp(e) \in 0..2
      BY <1>3 DEF Timestamp, Named
    <2> QED BY <1>3, <2>1 DEF Named, Packed
  <1> HIDE DEF built
  <1>5. files' \in Seq(Packed) /\ Len(files') = Len(files) + 1
    BY <1>1, <1>2, <1>4, AppendProperties
  <1>6. VariablesOK'
    BY <1>1, <1>5 DEF IInv, VariablesOK
  <1>7. Progress'
    <2>1. Len(files) \in Nat /\ Len(entries) \in Nat
      BY <1>2, LenProperties
    <2> QED BY <1>1, <1>5, <2>1 DEF IInv, Progress
  <1> QED BY <1>1, <1>6, <1>7 DEF IInv, Names, Distinct

LEMMA AgainOK ==
  ASSUME IInv, Again
  PROVE  IInv'
  <1>1. /\ preserve' \in BOOLEAN /\ pack' \in 1..2 /\ stage' = "stat"
        /\ argv' \in [1..2 -> Seq(DOMAIN Sources)]
        /\ prelim' = <<>> /\ used' = {} /\ entries' = <<>> /\ files' = <<>>
    BY DEF IInv, VariablesOK, Again, Fresh
  <1>2. VariablesOK'
    BY <1>1 DEF VariablesOK
  <1>3. Len(argv[pack])' \in Nat
    BY <1>1, LenProperties
  <1> QED BY <1>1, <1>2, <1>3 DEF IInv, Progress, Names, Distinct

\* The names and the list of files are as they should be at every step of every pack.
THEOREM NamesInvariance == Spec => []IInv
  <1>1. IInv /\ [Next]_vars => IInv'
    <2> SUFFICES ASSUME IInv, [Next]_vars PROVE IInv'
      OBVIOUS
    <2>1. CASE Stat
      BY <2>1, StatOK
    <2>2. CASE Sort
      BY <2>2, SortOK
    <2>3. CASE Dedupe
      BY <2>3, DedupeOK
    <2>4. CASE Build
      BY <2>4, BuildOK
    <2>5. CASE WriteSfx
      BY <2>5, FailOK DEF WriteSfx
    <2>6. CASE Again
      BY <2>6, AgainOK
    <2>7. CASE UNCHANGED vars
      BY <2>7 DEF vars, IInv, VariablesOK, Progress, Names, Distinct
    <2> QED BY <2>1, <2>2, <2>3, <2>4, <2>5, <2>6, <2>7 DEF Next, Over
  <1> QED BY <1>1, InitOK, PTL DEF Spec

\* Every entry's name is a stored name.
LEMMA EntryNames ==
  ASSUME IInv
  PROVE  /\ DOMAIN entries = 1..Len(entries)
         /\ \A i \in 1..Len(entries) : entries[i].name \in StoredNames
  <1>1. entries \in Seq(Named)
    BY DEF IInv, VariablesOK
  <1>2. \A i \in 1..Len(entries) : entries[i] \in Named
    BY <1>1, ElementOfSeq
  <1> QED BY <1>1, <1>2, LenProperties DEF Named

\* The type invariant: names fit 8.3, and dedupe's set is the set of names given out.
THEOREM NamesTyped == Spec => []TypeOK
  <1>1. IInv => TypeOK
    <2> SUFFICES ASSUME IInv PROVE TypeOK
      OBVIOUS
    <2>1. \A s \in used : Len(s) <= StemMax + 1 + ExtMax
      <3> SUFFICES ASSUME NEW s \in used PROVE Len(s) <= StemMax + 1 + ExtMax
        OBVIOUS
      <3>1. s \in Shaped
        BY EntryNames DEF IInv, Names, StoredNames
      <3>2. Len(s) \in 1..(StemMax + 1 + ExtMax)
        BY <3>1, ShapedProperties
      <3> QED BY <3>2, NamesAssumption
    <2> QED BY <2>1 DEF IInv, VariablesOK, Progress, TypeOK
  <1> QED BY <1>1, NamesInvariance, PTL

\* No two entries of an archive are one file to DOS.
THEOREM NamesUnique == Spec => []UniqueOnDos
  <1>1. IInv => UniqueOnDos
    <2> SUFFICES ASSUME IInv, NEW i \in DOMAIN entries, NEW j \in DOMAIN entries,
                        Upper(entries[i].name) = Upper(entries[j].name)
                 PROVE  i = j
      BY DEF UniqueOnDos
    <2>1. /\ i \in 1..Len(entries) /\ j \in 1..Len(entries)
          /\ entries[i].name \in Shaped /\ entries[j].name \in Shaped
      BY EntryNames DEF StoredNames
    <2>2. entries[i].name = entries[j].name
      BY <2>1, ShapedUpper
    <2> QED BY <2>1, <2>2 DEF IInv, Distinct
  <1> QED BY <1>1, NamesInvariance, PTL

\* Every stored name passes Archive::read, unpack and the stub.
THEOREM NamesAccepted == Spec => []AcceptedEverywhere
  <1>1. IInv => AcceptedEverywhere
    BY EntryNames, StoredAccepted DEF AcceptedEverywhere
  <1> QED BY <1>1, NamesInvariance, PTL

HasTwins(f, m) == \E x, y \in 1..m : x # y /\ f[x] = f[y]

\* More places than values: two places have the same.
LEMMA TwoAlike ==
  ASSUME NEW m \in Nat, NEW n \in Nat, n < m, NEW f \in [1..m -> 1..n]
  PROVE  HasTwins(f, m)
  <1>1. ASSUME NEW k \in Nat PROVE IsFiniteSet(1..k) /\ Cardinality(1..k) = k
    <2>1. 1 \in Int /\ k \in Int
      OBVIOUS
    <2>2. IsFiniteSet(1..k) /\ Cardinality(1..k) = IF 1 > k THEN 0 ELSE k - 1 + 1
      BY <2>1, FS_Interval
    <2> QED BY <2>2
  <1>2. IsFiniteSet(1..m) /\ IsFiniteSet(1..n)
    BY <1>1
  <1>3. Cardinality(1..n) < Cardinality(1..m)
    BY <1>1
  <1>4. \E x, y \in 1..m : x # y /\ f[x] = f[y]
    BY <1>2, <1>3, FS_PigeonHole, Zenon
  <1> QED BY <1>4 DEF HasTwins

\* A name that dedupe finds no suffix for has all of them among the names given out.
LEMMA NoneFree ==
  ASSUME IInv, NEW name \in Shaped, Free(name) = {}
  PROVE  Len(entries) >= MaxSuffix
  <1>1. /\ Len(entries) \in Nat /\ MaxSuffix \in Nat /\ DOMAIN entries = 1..Len(entries)
    <2>1. entries \in Seq(Named)
      BY DEF IInv, VariablesOK
    <2> QED BY <2>1, LenProperties, NamesAssumption
  <1> DEFINE h == [m \in 1..MaxSuffix |->
                    CHOOSE i \in 1..Len(entries) : entries[i].name = Candidate(name, m)]
  <1>2. ASSUME NEW m \in 1..MaxSuffix
        PROVE  h[m] \in 1..Len(entries) /\ entries[h[m]].name = Candidate(name, m)
    <2>1. Candidate(name, m) \in used
      BY DEF Free
    <2>2. \E i \in 1..Len(entries) : entries[i].name = Candidate(name, m)
      BY <1>1, <2>1 DEF IInv, Names
    <2> QED BY <2>2
  <1>3. h \in [1..MaxSuffix -> 1..Len(entries)]
    BY <1>2
  <1> HIDE DEF h
  <1> SUFFICES ASSUME Len(entries) < MaxSuffix PROVE FALSE
    BY <1>1
  <1> DEFINE len == Len(entries)
  <1>4. len \in Nat /\ len < MaxSuffix /\ h \in [1..MaxSuffix -> 1..len]
    BY <1>1, <1>3
  <1> HIDE DEF len
  <1>5. HasTwins(h, MaxSuffix)
    BY <1>1, <1>4, TwoAlike
  <1>6. PICK m, n \in 1..MaxSuffix : m # n /\ h[m] = h[n]
    BY <1>5 DEF HasTwins
  <1>7. Candidate(name, m) = Candidate(name, n)
    BY <1>2, <1>6
  <1> QED BY <1>6, <1>7, CandidatesDiffer

\* pack gives up on a collision only when as many files are named as there are suffixes
\* (the loop over 1..=9999 in dedupe).
THEOREM GivesUpWhenFull == Spec => []ExhaustedOnlyWhenFull
  <1> DEFINE EInv == IInv /\ ExhaustedOnlyWhenFull
  <1>1. Init => EInv
    BY InitOK DEF Init, ExhaustedOnlyWhenFull
  <1>2. EInv /\ [Next]_vars => EInv'
    <2> SUFFICES ASSUME EInv, [Next]_vars PROVE EInv'
      OBVIOUS
    <2>1. CASE Stat
      BY <2>1, StatOK DEF ExhaustedOnlyWhenFull, Stat, Fail
    <2>2. CASE Sort
      BY <2>2, SortOK DEF ExhaustedOnlyWhenFull, Sort
    <2>3. CASE Dedupe
      <3> DEFINE name == prelim[Len(entries) + 1].name
      <3>1. IInv'
        BY <2>3, DedupeOK
      <3>2. CASE name \notin used
        <4>1. stage = "dedupe" /\ TakeName(name)
          BY <2>3, <3>2 DEF Dedupe
        <4> QED BY <3>1, <4>1 DEF TakeName, ExhaustedOnlyWhenFull
      <3>3. CASE name \in used /\ Free(name) # {}
        <4>1. PICK n \in Free(name) : stage = "dedupe" /\ TakeName(Candidate(name, n))
          BY <2>3, <3>3 DEF Dedupe
        <4> QED BY <3>1, <4>1 DEF TakeName, ExhaustedOnlyWhenFull
      <3>4. CASE name \in used /\ Free(name) = {}
        <4>1. entries' = entries
          BY <2>3, <3>4 DEF Dedupe, Fail
        <4>2. name \in Shaped
          <5>1. name \in Names
            BY <3>4 DEF IInv
          <5> QED BY <5>1, EntryNames DEF Names, StoredNames
        <4>3. Len(entries) >= MaxSuffix
          BY <3>4, <4>2, NoneFree
        <4> QED BY <3>1, <4>1, <4>3 DEF ExhaustedOnlyWhenFull
      <3> QED BY <3>2, <3>3, <3>4
    <2>4. CASE Build
      BY <2>4, BuildOK DEF ExhaustedOnlyWhenFull, Build
    <2>5. CASE WriteSfx
      BY <2>5, FailOK DEF ExhaustedOnlyWhenFull, WriteSfx
    <2>6. CASE Again
      BY <2>6, AgainOK DEF ExhaustedOnlyWhenFull, Again, Fresh
    <2>7. CASE UNCHANGED vars
      BY <2>7 DEF vars, IInv, VariablesOK, Progress, Names, Distinct, ExhaustedOnlyWhenFull
    <2> QED BY <2>1, <2>2, <2>3, <2>4, <2>5, <2>6, <2>7 DEF Next, Over
  <1> QED BY <1>1, <1>2, PTL DEF Spec

----------------------------------------------------------------------------
(* Reproducible archives.  In the default an archive depends on the set of *)
(* the files alone, for any files and any order: the order of names is     *)
(* total, so two sorted lists of the same files are the same list; and     *)
(* every name that dedupe gives depends only on the list before it.        *)

(* String::cmp is a total order.                                           *)

\* s and t are the same up to n, and s ends there or has the smaller character.
Decides(n, s, t) ==
  /\ n \in Nat /\ n <= Len(s) /\ n < Len(t)
  /\ \A i \in 1..n : s[i] = t[i]
  /\ n = Len(s) \/ s[n + 1] < t[n + 1]

LEMMA LessDecides ==
  ASSUME NEW s \in Seq(Int), NEW t \in Seq(Int)
  PROVE  Less(s, t) <=> \E n \in Nat : Decides(n, s, t)
<1>1. ASSUME NEW n \in Nat, n <= Len(s), n < Len(t)
      PROVE  Take(s, n) = Take(t, n) <=> \A i \in 1..n : s[i] = t[i]
  <2>1. /\ Take(s, n) \in Seq(Int) /\ Len(Take(s, n)) = n /\ \A i \in 1..n : Take(s, n)[i] = s[i]
        /\ Take(t, n) \in Seq(Int) /\ Len(Take(t, n)) = n /\ \A i \in 1..n : Take(t, n)[i] = t[i]
    <3>1. Len(s) \in Nat /\ Len(t) \in Nat  BY LenProperties
    <3>2. (IF Len(s) < n THEN Len(s) ELSE n) = n /\ (IF Len(t) < n THEN Len(t) ELSE n) = n
      BY <1>1, <3>1
    <3>3. /\ Take(s, n) \in Seq(Int) /\ Len(Take(s, n)) = n
          /\ \A i \in 1..Len(Take(s, n)) : Take(s, n)[i] = s[i]
      BY <3>2, TakeProperties
    <3>4. /\ Take(t, n) \in Seq(Int) /\ Len(Take(t, n)) = n
          /\ \A i \in 1..Len(Take(t, n)) : Take(t, n)[i] = t[i]
      BY <3>2, TakeProperties
    <3> QED  BY <3>3, <3>4
  <2>2. (\A i \in 1..n : s[i] = t[i]) => \A i \in 1..n : Take(s, n)[i] = Take(t, n)[i]  BY <2>1
  <2>3. (\A i \in 1..n : s[i] = t[i]) => Take(s, n) = Take(t, n)  BY <2>1, <2>2, SeqEqual
  <2> QED  BY <2>1, <2>3
<1>2. Len(s) \in Nat /\ Len(t) \in Nat  BY LenProperties
<1>3. ASSUME Less(s, t) PROVE \E n \in Nat : Decides(n, s, t)
  <2>1. PICK n \in 0..Len(s) : /\ n <= Len(t) /\ Take(s, n) = Take(t, n) /\ n < Len(t)
                               /\ n = Len(s) \/ s[n + 1] < t[n + 1]
    BY <1>3 DEF Less
  <2>2. n \in Nat /\ n <= Len(s)  BY <1>2
  <2>3. \A i \in 1..n : s[i] = t[i]  BY <1>1, <2>1, <2>2
  <2> QED  BY <2>1, <2>2, <2>3 DEF Decides
<1>4. ASSUME NEW n \in Nat, Decides(n, s, t) PROVE Less(s, t)
  <2>1. n \in 0..Len(s) /\ n <= Len(t) /\ n < Len(t) /\ (n = Len(s) \/ s[n + 1] < t[n + 1])
    BY <1>2, <1>4 DEF Decides
  <2>2. Take(s, n) = Take(t, n)  BY <1>1, <1>4 DEF Decides
  <2> QED  BY <2>1, <2>2 DEF Less
<1> QED  BY <1>3, <1>4

LEMMA LessIrreflexive ==
  ASSUME NEW s \in Seq(Int)
  PROVE  ~Less(s, s)
<1> SUFFICES ASSUME NEW n \in Nat, Decides(n, s, s) PROVE FALSE  BY LessDecides
<1>1. Len(s) \in Nat /\ n < Len(s) /\ s[n + 1] < s[n + 1]  BY LenProperties DEF Decides
<1>2. s[n + 1] \in Int
  <2>1. n + 1 \in 1..Len(s)  BY <1>1
  <2> QED  BY <2>1, ElementOfSeq
<1> QED  BY <1>1, <1>2

LEMMA LessTransitive ==
  ASSUME NEW s \in Seq(Int), NEW t \in Seq(Int), NEW u \in Seq(Int), Less(s, t), Less(t, u)
  PROVE  Less(s, u)
<1>1. PICK n \in Nat : Decides(n, s, t)  BY LessDecides
<1>2. PICK m \in Nat : Decides(m, t, u)  BY LessDecides
<1>3. Len(s) \in Nat /\ Len(t) \in Nat /\ Len(u) \in Nat  BY LenProperties
<1>4. /\ \A i \in 1..Len(s) : s[i] \in Int
      /\ \A i \in 1..Len(t) : t[i] \in Int
      /\ \A i \in 1..Len(u) : u[i] \in Int
  BY ElementOfSeq
<1>5. CASE n < m
  <2>1. n <= Len(s) /\ n < Len(u) /\ \A i \in 1..n : s[i] = u[i]
    BY <1>1, <1>2, <1>3, <1>5 DEF Decides
  <2>2. n + 1 \in 1..m /\ t[n + 1] = u[n + 1]  BY <1>2, <1>5 DEF Decides
  <2>3. n = Len(s) \/ s[n + 1] < u[n + 1]  BY <1>1, <2>2 DEF Decides
  <2> QED  BY <2>1, <2>3, LessDecides DEF Decides
<1>6. CASE n = m
  <2>1. n <= Len(s) /\ n < Len(u) /\ \A i \in 1..n : s[i] = u[i]
    BY <1>1, <1>2, <1>3, <1>6 DEF Decides
  <2>2. n = Len(s) \/ s[n + 1] < u[n + 1]
    <3>1. n < Len(t) /\ t[n + 1] < u[n + 1]  BY <1>1, <1>2, <1>3, <1>6 DEF Decides
    <3>2. CASE n = Len(s)  BY <3>2
    <3>3. CASE n # Len(s)
      <4>1. s[n + 1] < t[n + 1] /\ n < Len(s)  BY <1>1, <1>3, <3>3 DEF Decides
      <4>2. n + 1 \in 1..Len(s) /\ n + 1 \in 1..Len(t) /\ n + 1 \in 1..Len(u)
        BY <1>3, <2>1, <3>1, <4>1, SMTT(60)
      <4>3. s[n + 1] \in Int /\ t[n + 1] \in Int /\ u[n + 1] \in Int  BY <1>4, <4>2
      <4>4. \A a, b, c \in Int : a < b /\ b < c => a < c  OBVIOUS
      <4> QED  BY <3>1, <4>1, <4>3, <4>4
    <3> QED  BY <3>2, <3>3
  <2> QED  BY <2>1, <2>2, LessDecides DEF Decides
<1>7. CASE m < n
  <2>1. m <= Len(s) /\ m < Len(u) /\ \A i \in 1..m : s[i] = u[i]
    <3>1. \A i \in 1..m : s[i] = t[i]  BY <1>1, <1>7 DEF Decides
    <3>2. \A i \in 1..m : t[i] = u[i]  BY <1>2 DEF Decides
    <3>3. m <= Len(s) /\ m < Len(u)  BY <1>1, <1>2, <1>3, <1>7 DEF Decides
    <3> QED  BY <3>1, <3>2, <3>3
  <2>2. m + 1 \in 1..n /\ s[m + 1] = t[m + 1] /\ m # Len(t)
    BY <1>1, <1>2, <1>3, <1>7 DEF Decides
  <2>3. s[m + 1] < u[m + 1]  BY <1>2, <2>2 DEF Decides
  <2> QED  BY <2>1, <2>3, LessDecides DEF Decides
<1> QED  BY <1>5, <1>6, <1>7

\* The least number of a set.
LEMMA Smallest ==
  ASSUME NEW T \in SUBSET Nat, T # {}
  PROVE  \E x \in T : \A y \in T : x <= y
<1>1. PICK x \in T : \A y \in T : <<y, x>> \notin OpToRel(<, Nat)
  BY WFMin, NatLessThanWellFounded
<1>2. \A y \in T : ~(y < x)  BY <1>1 DEF OpToRel
<1> QED  BY <1>2

LEMMA LessTotal ==
  ASSUME NEW s \in Seq(Int), NEW t \in Seq(Int), s # t
  PROVE  Less(s, t) \/ Less(t, s)
<1> DEFINE T == {i \in Nat : i > 0 /\ (i > Len(s) \/ i > Len(t) \/ s[i] # t[i])}
<1>1. Len(s) \in Nat /\ Len(t) \in Nat  BY LenProperties
<1>2. T \in SUBSET Nat /\ Len(s) + 1 \in T  BY <1>1
<1>3. PICK x \in T : \A y \in T : x <= y
  <2> HIDE DEF T
  <2> QED  BY <1>2, Smallest
<1>4. x \in Nat /\ x > 0 /\ \A i \in 1..x - 1 : i <= Len(s) /\ i <= Len(t) /\ s[i] = t[i]
  BY <1>1, <1>3
<1>5. x - 1 \in Nat /\ x - 1 <= Len(s) /\ x - 1 <= Len(t)
  <2>1. CASE x = 1  BY <1>1, <2>1
  <2>2. CASE x # 1
    <3>1. x - 1 \in 1..x - 1  BY <1>4, <2>2
    <3> QED  BY <1>4, <3>1
  <2> QED  BY <2>1, <2>2
<1>6. x > Len(s) \/ x > Len(t) \/ s[x] # t[x]  BY <1>3
<1>7. CASE x > Len(s) /\ x > Len(t)
  <2>1. Len(s) = x - 1 /\ Len(t) = x - 1  BY <1>1, <1>4, <1>5, <1>7
  <2>2. s = t  BY <1>4, <2>1, SeqEqual
  <2> QED  BY <2>2
<1>8. CASE x > Len(s) /\ x <= Len(t)
  <2>1. Decides(x - 1, s, t)  BY <1>1, <1>4, <1>5, <1>8 DEF Decides
  <2> QED  BY <1>5, <2>1, LessDecides
<1>9. CASE x <= Len(s) /\ x > Len(t)
  <2>1. Decides(x - 1, t, s)  BY <1>1, <1>4, <1>5, <1>9 DEF Decides
  <2> QED  BY <1>5, <2>1, LessDecides
<1>10. CASE x <= Len(s) /\ x <= Len(t)
  <2>1. s[x] \in Int /\ t[x] \in Int
    <3>1. x \in 1..Len(s) /\ x \in 1..Len(t)  BY <1>1, <1>4, <1>10
    <3> QED  BY <3>1, ElementOfSeq
  <2>2. s[x] # t[x]  BY <1>1, <1>4, <1>6, <1>10
  <2>3. CASE s[x] < t[x]
    <3>1. Decides(x - 1, s, t)  BY <1>1, <1>4, <1>5, <1>10, <2>3 DEF Decides
    <3> QED  BY <1>5, <3>1, LessDecides
  <2>4. CASE t[x] < s[x]
    <3>1. Decides(x - 1, t, s)  BY <1>1, <1>4, <1>5, <1>10, <2>4 DEF Decides
    <3> QED  BY <1>5, <3>1, LessDecides
  <2> QED  BY <2>1, <2>2, <2>3, <2>4
<1> QED  BY <1>1, <1>4, <1>7, <1>8, <1>9, <1>10

----------------------------------------------------------------------------
(* The sort key is a total order of the files.                             *)

Same(a, b) == a.name = b.name /\ a.path = b.path

LEMMA NamedTypes ==
  ASSUME NEW a \in Named
  PROVE  a.name \in Seq(Int) /\ a.path \in Nat
<1>1. a.name \in Shaped /\ a.path \in DOMAIN Sources  BY DEF Named, StoredNames
<1> QED  BY <1>1, ShapedProperties, NamesAssumption

LEMMA BeforeOrders ==
  ASSUME NEW a \in Named, NEW b \in Named, NEW c \in Named
  PROVE  /\ ~(Before(a, b) /\ Before(b, a))
         /\ Before(a, b) /\ Before(b, c) => Before(a, c)
         /\ Before(a, b) \/ Before(b, a) \/ Same(a, b)
         /\ Same(a, b) => (Before(a, c) <=> Before(b, c)) /\ (Before(c, a) <=> Before(c, b))
<1>1. /\ a.name \in Seq(Int) /\ b.name \in Seq(Int) /\ c.name \in Seq(Int)
      /\ a.path \in Nat /\ b.path \in Nat /\ c.path \in Nat
  BY NamedTypes
<1>2. ~Less(a.name, a.name)  BY <1>1, LessIrreflexive
<1>3. Less(a.name, b.name) /\ Less(b.name, a.name) => Less(a.name, a.name)
  BY <1>1, LessTransitive
<1>4. Less(a.name, b.name) /\ Less(b.name, c.name) => Less(a.name, c.name)
  BY <1>1, LessTransitive
<1>5. a.name = b.name \/ Less(a.name, b.name) \/ Less(b.name, a.name)
  BY <1>1, LessTotal
<1>6. ~(Before(a, b) /\ Before(b, a))  BY <1>1, <1>2, <1>3 DEF Before
<1>7. Before(a, b) /\ Before(b, c) => Before(a, c)  BY <1>1, <1>4 DEF Before
<1>8. Before(a, b) \/ Before(b, a) \/ Same(a, b)  BY <1>1, <1>5 DEF Before, Same
<1>9. Same(a, b) => (Before(a, c) <=> Before(b, c)) /\ (Before(c, a) <=> Before(c, b))
  BY DEF Before, Same
<1> QED  BY <1>6, <1>7, <1>8, <1>9

----------------------------------------------------------------------------
(* Two sorted lists of the same files are the same list.                   *)

Sorted(s) == \A j, k \in 1..Len(s) : j < k => ~Before(s[k], s[j])

\* If each file of s is a file of its own in t, none of s comes before the one of t at
\* the same place: k files of s would have to be among the first k - 1 of t otherwise.
LEMMA NotBefore ==
  ASSUME NEW s \in Seq(Named), NEW t \in Seq(Named), NEW n \in Nat, Len(s) = n, Len(t) = n,
         Sorted(s), Sorted(t), NEW h \in [1..n -> 1..n],
         \A i, j \in 1..n : h[i] = h[j] => i = j,
         \A i \in 1..n : Same(s[i], t[h[i]]),
         NEW k \in 1..n
  PROVE  ~Before(s[k], t[k])
<1> SUFFICES ASSUME Before(s[k], t[k]) PROVE FALSE  OBVIOUS
<1>1. \A i \in 1..n : s[i] \in Named /\ t[i] \in Named  BY ElementOfSeq
<1>2. ASSUME NEW i \in 1..k PROVE h[i] \in 1..k - 1
  <2>1. i \in 1..n /\ h[i] \in 1..n  OBVIOUS
  <2>2. ~Before(s[k], s[i])
    <3>1. CASE i < k  BY <2>1, <3>1 DEF Sorted
    <3>2. CASE i = k  BY <1>1, <3>2, BeforeOrders
    <3> QED  BY <3>1, <3>2
  <2>3. Before(s[i], t[k])
    <3>1. Before(s[i], s[k]) \/ Same(s[i], s[k])  BY <1>1, <2>1, <2>2, BeforeOrders
    <3> QED  BY <1>1, <2>1, <3>1, BeforeOrders
  <2>4. Before(t[h[i]], t[k])  BY <1>1, <2>1, <2>3, BeforeOrders
  <2>5. CASE h[i] < k  BY <2>1, <2>5
  <2>6. CASE h[i] = k  BY <1>1, <2>4, <2>6, BeforeOrders
  <2>7. CASE k < h[i]  BY <2>1, <2>4, <2>7 DEF Sorted
  <2> QED  BY <2>1, <2>5, <2>6, <2>7
<1>3. [i \in 1..k |-> h[i]] \in [1..k -> 1..k - 1]  BY <1>2
<1> DEFINE l == k - 1
<1>4. k \in Nat /\ l \in Nat /\ l < k  OBVIOUS
<1>5. PICK i, j \in 1..k : i # j /\ h[i] = h[j]
  <2> DEFINE q == [i \in 1..k |-> h[i]]
  <2>1. \A i \in 1..k : q[i] = h[i]  OBVIOUS
  <2>2. q \in [1..k -> 1..l]  BY <1>3
  <2> HIDE DEF q, l
  <2>3. HasTwins(q, k)  BY <1>4, <2>2, TwoAlike
  <2> QED  BY <2>1, <2>3 DEF HasTwins
<1> QED  BY <1>5

LEMMA OneSorting ==
  ASSUME NEW s \in Seq(Named), NEW t \in Seq(Named), NEW n \in Nat, Len(s) = n, Len(t) = n,
         Sorted(s), Sorted(t),
         NEW g \in [1..n -> 1..n], NEW h \in [1..n -> 1..n],
         \A i, j \in 1..n : g[i] = g[j] => i = j,
         \A i, j \in 1..n : h[i] = h[j] => i = j,
         \A i \in 1..n : Same(s[i], t[h[i]]),
         \A i \in 1..n : Same(t[i], s[g[i]])
  PROVE  \A k \in 1..n : Same(s[k], t[k])
<1> TAKE k \in 1..n
<1>1. s[k] \in Named /\ t[k] \in Named  BY ElementOfSeq
<1>2. ~Before(s[k], t[k])  BY NotBefore
<1>3. ~Before(t[k], s[k])  BY NotBefore
<1> QED  BY <1>1, <1>2, <1>3, BeforeOrders

----------------------------------------------------------------------------
(* What a pack comes to, for a list of paths.                              *)

Permutes(f, n) ==
  /\ f \in [1..n -> 1..n]
  /\ \A i, j \in 1..n : f[i] = f[j] => i = j
  /\ \A j \in 1..n : \E i \in 1..n : f[i] = j

\* An injection that takes each place of one permutation to the place of the same value
\* in another.
Matches(h, f, g, n) ==
  /\ h \in [1..n -> 1..n]
  /\ \A i, j \in 1..n : h[i] = h[j] => i = j
  /\ \A i \in 1..n : g[h[i]] = f[i]

LEMMA Matching ==
  ASSUME NEW n \in Nat, NEW f, NEW g, Permutes(f, n), Permutes(g, n)
  PROVE  \E h : Matches(h, f, g, n)
<1> DEFINE h == [i \in 1..n |-> CHOOSE j \in 1..n : g[j] = f[i]]
<1>1. \A i \in 1..n : f[i] \in 1..n  BY DEF Permutes
<1>2. ASSUME NEW i \in 1..n PROVE h[i] \in 1..n /\ g[h[i]] = f[i]
  <2>1. \E j \in 1..n : g[j] = f[i]  BY <1>1 DEF Permutes
  <2>2. h[i] = CHOOSE j \in 1..n : g[j] = f[i]  OBVIOUS
  <2> HIDE DEF h
  <2> QED  BY <2>1, <2>2
<1>3. h \in [1..n -> 1..n]
  <2>1. h = [i \in 1..n |-> h[i]]  OBVIOUS
  <2> HIDE DEF h
  <2> QED  BY <1>2, <2>1
<1> HIDE DEF h
<1>4. \A i, j \in 1..n : h[i] = h[j] => i = j
  <2> SUFFICES ASSUME NEW i \in 1..n, NEW j \in 1..n, h[i] = h[j] PROVE i = j  OBVIOUS
  <2>1. f[i] = f[j]  BY <1>2
  <2> QED  BY <2>1 DEF Permutes
<1> QED  BY <1>2, <1>3, <1>4 DEF Matches

NameOf(path) == Mangle(Sources[path])
Given(ent, k) == {ent[j].name : j \in 1..k}

\* The name that dedupe gives when these are taken, and that it can give none.
Choice(name, taken, got) ==
  IF name \notin taken THEN got = name
  ELSE \E n \in 1..MaxSuffix :
         /\ got = Candidate(name, n) /\ got \notin taken
         /\ \A m \in 1..MaxSuffix : Candidate(name, m) \notin taken => n <= m
Stuck(name, taken) == name \in taken /\ \A m \in 1..MaxSuffix : Candidate(name, m) \in taken

Deduped(pre, ent) ==
  /\ Len(ent) <= Len(pre)
  /\ \A k \in 1..Len(ent) :
       ent[k].path = pre[k].path /\ Choice(pre[k].name, Given(ent, k - 1), ent[k].name)

Built(ent, fil) ==
  /\ Len(fil) <= Len(ent)
  /\ \A k \in 1..Len(fil) : fil[k] = [name |-> ent[k].name, data |-> ent[k].path, stamp |-> 0]

FromArgs(args, pre) ==
  /\ Len(pre) = Len(args)
  /\ \E f : Permutes(f, Len(args)) /\ \A i \in 1..Len(args) : pre[i].path = args[f[i]]

\* Where a pack of args is, or how it ended.
Outcome(args, pre, ent, fil, end) ==
  /\ args \in Seq(DOMAIN Sources) /\ pre \in Seq(Named) /\ ent \in Seq(Named) /\ fil \in Seq(Packed)
  /\ \A i \in 1..Len(pre) : pre[i].name = NameOf(pre[i].path)
  /\ Deduped(pre, ent) /\ Built(ent, fil)
  /\ end \in {"stat", "reserved"} =>
       /\ Len(pre) <= Len(args) /\ \A i \in 1..Len(pre) : pre[i].path = args[i]
       /\ Len(ent) = 0
  /\ end = "reserved" => \E i \in 1..Len(args) : IsDosReserved(NameOf(args[i]))
  /\ end \in {"dedupe", "packed", "exhausted"} => Sorted(pre) /\ FromArgs(args, pre)
  /\ Len(fil) # 0 => Len(ent) = Len(pre)
  /\ end = "packed" => Len(fil) = Len(ent) /\ Len(ent) = Len(pre)
  /\ end = "exhausted" =>
       Len(ent) < Len(pre) /\ Stuck(pre[Len(ent) + 1].name, Given(ent, Len(ent)))

Finished == {"packed", "reserved", "exhausted"}

LEMMA ChoiceUnique ==
  ASSUME NEW name, NEW taken, NEW a, NEW b, Choice(name, taken, a)
  PROVE  /\ Choice(name, taken, b) => a = b
         /\ ~Stuck(name, taken)
<1>1. CASE name \notin taken  BY <1>1 DEF Choice, Stuck
<1>2. CASE name \in taken
  <2>1. PICK n \in 1..MaxSuffix :
          /\ a = Candidate(name, n) /\ a \notin taken
          /\ \A m \in 1..MaxSuffix : Candidate(name, m) \notin taken => n <= m
    BY <1>2 DEF Choice
  <2>2. ~Stuck(name, taken)  BY <2>1 DEF Stuck
  <2>3. ASSUME Choice(name, taken, b) PROVE a = b
    <3>1. PICK m \in 1..MaxSuffix :
            /\ b = Candidate(name, m) /\ b \notin taken
            /\ \A i \in 1..MaxSuffix : Candidate(name, i) \notin taken => m <= i
      BY <1>2, <2>3 DEF Choice
    <3>2. n <= m /\ m <= n  BY <2>1, <3>1
    <3>3. n = m  BY <3>2
    <3> QED  BY <2>1, <3>1, <3>3
  <2> QED  BY <2>2, <2>3
<1> QED  BY <1>1, <1>2

SamePrefixes(ent, ent2) ==
  \A k \in Nat : k <= Len(ent) /\ k <= Len(ent2) =>
    /\ Given(ent, k) = Given(ent2, k)
    /\ k > 0 => ent[k].name = ent2[k].name /\ ent[k].path = ent2[k].path

\* The names depend on the list of files alone, as far as both packs have come.
LEMMA SameNames ==
  ASSUME NEW pre \in Seq(Named), NEW ent \in Seq(Named),
         NEW pre2 \in Seq(Named), NEW ent2 \in Seq(Named), Len(pre) = Len(pre2),
         \A i \in 1..Len(pre) : Same(pre[i], pre2[i]),
         Deduped(pre, ent), Deduped(pre2, ent2)
  PROVE  SamePrefixes(ent, ent2)
<1> DEFINE T == {i \in Nat : i > 0 /\ i <= Len(ent) /\ i <= Len(ent2) /\ ent[i].name # ent2[i].name}
<1>1. Len(ent) \in Nat /\ Len(ent2) \in Nat /\ Len(pre) \in Nat  BY LenProperties
<1>2. T = {}
  <2> SUFFICES ASSUME T # {} PROVE FALSE  OBVIOUS
  <2>1. T \in SUBSET Nat  OBVIOUS
  <2>2. PICK x \in T : \A y \in T : x <= y
    <3> HIDE DEF T
    <3> QED  BY <2>1, Smallest
  <2>3. x \in 1..Len(ent) /\ x \in 1..Len(ent2) /\ x \in 1..Len(pre) /\ ent[x].name # ent2[x].name
    BY <1>1 DEF Deduped
  <2>4. \A j \in 1..x - 1 : ent[j].name = ent2[j].name
    BY <1>1, <2>2, <2>3, SMTT(60)
  <2>5. Given(ent, x - 1) = Given(ent2, x - 1)  BY <2>4 DEF Given
  <2>6. pre[x].name = pre2[x].name  BY <2>3 DEF Same
  <2>7. /\ Choice(pre[x].name, Given(ent, x - 1), ent[x].name)
        /\ Choice(pre2[x].name, Given(ent2, x - 1), ent2[x].name)
    BY <2>3 DEF Deduped
  <2> QED  BY <2>3, <2>5, <2>6, <2>7, ChoiceUnique
<1>3. \A i \in Nat : i > 0 /\ i <= Len(ent) /\ i <= Len(ent2) => ent[i].name = ent2[i].name
  BY <1>2
<1> HIDE DEF T
<1> SUFFICES ASSUME NEW k \in Nat, k <= Len(ent), k <= Len(ent2)
             PROVE  Given(ent, k) = Given(ent2, k)
                    /\ (k > 0 => ent[k].name = ent2[k].name /\ ent[k].path = ent2[k].path)
  BY DEF SamePrefixes
<1>4. \A j \in 1..k : ent[j].name = ent2[j].name  BY <1>1, <1>3
<1>5. Given(ent, k) = Given(ent2, k)  BY <1>4 DEF Given
<1>6. k > 0 => ent[k].name = ent2[k].name /\ ent[k].path = ent2[k].path
  <2> SUFFICES ASSUME k > 0
               PROVE  ent[k].name = ent2[k].name /\ ent[k].path = ent2[k].path
    OBVIOUS
  <2>1. k \in 1..Len(ent) /\ k \in 1..Len(ent2) /\ k \in 1..Len(pre)  BY <1>1 DEF Deduped
  <2> QED  BY <1>3, <2>1 DEF Deduped, Same
<1> QED  BY <1>5, <1>6

LEMMA NoneReserved ==
  ASSUME NEW args, NEW pre \in Seq(Named), FromArgs(args, pre),
         \A i \in 1..Len(pre) : pre[i].name = NameOf(pre[i].path),
         NEW k \in 1..Len(args)
  PROVE  ~IsDosReserved(NameOf(args[k]))
<1>1. PICK f : Permutes(f, Len(args)) /\ \A i \in 1..Len(args) : pre[i].path = args[f[i]]
  BY DEF FromArgs
<1>2. PICK i \in 1..Len(args) : f[i] = k  BY <1>1 DEF Permutes
<1>3. i \in 1..Len(pre) /\ pre[i].path = args[k]  BY <1>1, <1>2 DEF FromArgs
<1>4. pre[i] \in Named  BY <1>3, ElementOfSeq
<1> QED  BY <1>3, <1>4 DEF Named, StoredNames

Reordered(args, args2) ==
  /\ Len(args2) = Len(args)
  /\ \E g : Permutes(g, Len(args)) /\ \A k \in 1..Len(args) : args2[k] = args[g[k]]

\* Both packs sort their files into the same list.
LEMMA SameLists ==
  ASSUME NEW args \in Seq(DOMAIN Sources), NEW args2 \in Seq(DOMAIN Sources), Reordered(args, args2),
         NEW pre \in Seq(Named), NEW pre2 \in Seq(Named), Sorted(pre), Sorted(pre2),
         FromArgs(args, pre), FromArgs(args2, pre2),
         \A i \in 1..Len(pre) : pre[i].name = NameOf(pre[i].path),
         \A i \in 1..Len(pre2) : pre2[i].name = NameOf(pre2[i].path)
  PROVE  Len(pre) = Len(pre2) /\ \A i \in 1..Len(pre) : Same(pre[i], pre2[i])
<1> DEFINE n == Len(args)
<1>1. n \in Nat /\ Len(args2) = n /\ Len(pre) = n /\ Len(pre2) = n
  BY LenProperties DEF Reordered, FromArgs
<1>2. PICK a : Permutes(a, n) /\ \A i \in 1..n : pre[i].path = args[a[i]]  BY DEF FromArgs
<1>3. PICK b : Permutes(b, n) /\ \A i \in 1..n : pre2[i].path = args2[b[i]]  BY <1>1 DEF FromArgs
<1>4. PICK g : Permutes(g, n) /\ \A k \in 1..n : args2[k] = args[g[k]]  BY DEF Reordered
<1> DEFINE c == [i \in 1..n |-> g[b[i]]]
<1> HIDE DEF n
<1>5. \A i \in 1..n : c[i] = g[b[i]] /\ b[i] \in 1..n /\ c[i] \in 1..n  BY <1>3, <1>4 DEF Permutes
<1>6. Permutes(c, n)
  <2>1. c \in [1..n -> 1..n]  BY <1>5
  <2> HIDE DEF c
  <2>2. \A i, j \in 1..n : c[i] = c[j] => i = j
    <3> SUFFICES ASSUME NEW i \in 1..n, NEW j \in 1..n, c[i] = c[j] PROVE i = j  OBVIOUS
    <3>1. g[b[i]] = g[b[j]] /\ b[i] \in 1..n /\ b[j] \in 1..n  BY <1>5
    <3>2. \A x, y \in 1..n : g[x] = g[y] => x = y  BY <1>4 DEF Permutes
    <3>3. b[i] = b[j]  BY <3>1, <3>2
    <3> QED  BY <1>3, <3>3 DEF Permutes
  <2>3. ASSUME NEW j \in 1..n PROVE \E i \in 1..n : c[i] = j
    <3>1. PICK k \in 1..n : g[k] = j  BY <1>4 DEF Permutes
    <3>2. PICK i \in 1..n : b[i] = k  BY <1>3 DEF Permutes
    <3> QED  BY <1>5, <3>1, <3>2
  <2> QED  BY <2>1, <2>2, <2>3 DEF Permutes
<1>7. \A i \in 1..n : pre2[i].path = args[c[i]]  BY <1>3, <1>4, <1>5
<1> HIDE DEF c
<1>p. n \in Nat /\ Permutes(a, n) /\ Permutes(c, n)  BY <1>1, <1>2, <1>6
<1>8. PICK h : Matches(h, a, c, n)  BY <1>p, Matching
<1>9. PICK k : Matches(k, c, a, n)  BY <1>p, Matching
<1>10. \A i \in 1..n : Same(pre[i], pre2[h[i]])
  <2> TAKE i \in 1..n
  <2>1. h[i] \in 1..n /\ c[h[i]] = a[i]  BY <1>8 DEF Matches
  <2>2. pre[i].path = pre2[h[i]].path  BY <1>2, <1>7, <2>1
  <2> QED  BY <1>1, <2>1, <2>2 DEF Same
<1>11. \A i \in 1..n : Same(pre2[i], pre[k[i]])
  <2> TAKE i \in 1..n
  <2>1. k[i] \in 1..n /\ a[k[i]] = c[i]  BY <1>9 DEF Matches
  <2>2. pre2[i].path = pre[k[i]].path  BY <1>2, <1>7, <2>1
  <2> QED  BY <1>1, <2>1, <2>2 DEF Same
<1> QED  BY <1>1, <1>8, <1>9, <1>10, <1>11, OneSorting DEF Matches

\* Two packs of the same files that have both ended have ended alike.
LEMMA SameOutcome ==
  ASSUME NEW args, NEW args2, Reordered(args, args2),
         NEW pre, NEW ent, NEW fil, NEW end \in Finished, Outcome(args, pre, ent, fil, end),
         NEW pre2, NEW ent2, NEW fil2, NEW end2 \in Finished, Outcome(args2, pre2, ent2, fil2, end2)
  PROVE  end = end2 /\ fil = fil2
<1>1. /\ args \in Seq(DOMAIN Sources) /\ pre \in Seq(Named) /\ ent \in Seq(Named) /\ fil \in Seq(Packed)
      /\ \A i \in 1..Len(pre) : pre[i].name = NameOf(pre[i].path)
      /\ Deduped(pre, ent) /\ Built(ent, fil)
  BY DEF Outcome
<1>2. /\ args2 \in Seq(DOMAIN Sources) /\ pre2 \in Seq(Named) /\ ent2 \in Seq(Named) /\ fil2 \in Seq(Packed)
      /\ \A i \in 1..Len(pre2) : pre2[i].name = NameOf(pre2[i].path)
      /\ Deduped(pre2, ent2) /\ Built(ent2, fil2)
  BY DEF Outcome
<1>3. /\ Len(pre) \in Nat /\ Len(ent) \in Nat /\ Len(fil) \in Nat
      /\ Len(pre2) \in Nat /\ Len(ent2) \in Nat /\ Len(fil2) \in Nat
  BY <1>1, <1>2, LenProperties
<1>4. /\ end # "reserved" => Sorted(pre) /\ FromArgs(args, pre)
      /\ end2 # "reserved" => Sorted(pre2) /\ FromArgs(args2, pre2)
  BY DEF Outcome, Finished
<1>5. PICK g : Permutes(g, Len(args)) /\ \A k \in 1..Len(args) : args2[k] = args[g[k]]
  BY DEF Reordered
<1>6. ASSUME end = "reserved", end2 # "reserved" PROVE FALSE
  <2>1. PICK i \in 1..Len(args) : IsDosReserved(NameOf(args[i]))  BY <1>6 DEF Outcome
  <2>2. PICK k \in 1..Len(args) : g[k] = i  BY <1>5 DEF Permutes
  <2>3. k \in 1..Len(args2) /\ args2[k] = args[i]  BY <1>5, <2>2 DEF Reordered
  <2>4. ~IsDosReserved(NameOf(args2[k]))  BY <1>2, <1>4, <1>6, <2>3, NoneReserved
  <2> QED  BY <2>1, <2>3, <2>4
<1>7. ASSUME end # "reserved", end2 = "reserved" PROVE FALSE
  <2>1. PICK k \in 1..Len(args2) : IsDosReserved(NameOf(args2[k]))  BY <1>7 DEF Outcome
  <2>2. k \in 1..Len(args) /\ g[k] \in 1..Len(args) /\ args2[k] = args[g[k]]
    BY <1>5 DEF Reordered, Permutes
  <2>3. ~IsDosReserved(NameOf(args[g[k]]))  BY <1>1, <1>4, <1>7, <2>2, NoneReserved
  <2> QED  BY <2>1, <2>2, <2>3
<1>8. CASE end = "reserved" /\ end2 = "reserved"
  <2>1. Len(ent) = 0 /\ Len(ent2) = 0  BY <1>8 DEF Outcome
  <2>2. Len(fil) = 0 /\ Len(fil2) = 0  BY <1>1, <1>2, <1>3, <2>1 DEF Built
  <2>3. fil = fil2  BY <1>1, <1>2, <2>2, SeqEqual
  <2> QED  BY <1>8, <2>3
<1>9. CASE end # "reserved" /\ end2 # "reserved"
  <2>1. Len(pre) = Len(pre2) /\ \A i \in 1..Len(pre) : Same(pre[i], pre2[i])
    BY <1>1, <1>2, <1>4, <1>9, SameLists
  <2>2. SamePrefixes(ent, ent2)
    BY <1>1, <1>2, <2>1, SameNames
  <2>3. ASSUME Len(ent) < Len(pre), Stuck(pre[Len(ent) + 1].name, Given(ent, Len(ent)))
        PROVE  Len(ent2) <= Len(ent)
    <3> SUFFICES ASSUME Len(ent) < Len(ent2) PROVE FALSE  BY <1>3
    <3> DEFINE m == Len(ent)
    <3>1. m \in Nat /\ m + 1 \in 1..Len(ent2) /\ m + 1 \in 1..Len(pre) /\ (m + 1) - 1 = m
      BY <1>3, <2>3
    <3>2. Choice(pre2[m + 1].name, Given(ent2, m), ent2[m + 1].name)
      <4>1. Choice(pre2[m + 1].name, Given(ent2, (m + 1) - 1), ent2[m + 1].name)
        BY <1>2, <3>1 DEF Deduped
      <4> QED  BY <3>1, <4>1
    <3>3. pre2[m + 1].name = pre[m + 1].name  BY <2>1, <3>1 DEF Same
    <3>4. Given(ent, m) = Given(ent2, m)  BY <1>3, <2>2 DEF SamePrefixes
    <3>5. Stuck(pre2[m + 1].name, Given(ent2, m))  BY <2>3, <3>3, <3>4
    <3> QED  BY <3>2, <3>5, ChoiceUnique
  <2>4. ASSUME Len(ent2) < Len(pre2), Stuck(pre2[Len(ent2) + 1].name, Given(ent2, Len(ent2)))
        PROVE  Len(ent) <= Len(ent2)
    <3> SUFFICES ASSUME Len(ent2) < Len(ent) PROVE FALSE  BY <1>3
    <3> DEFINE m == Len(ent2)
    <3>1. m \in Nat /\ m + 1 \in 1..Len(ent) /\ m + 1 \in 1..Len(pre) /\ (m + 1) - 1 = m
      BY <1>3, <2>1, <2>4
    <3>2. Choice(pre[m + 1].name, Given(ent, m), ent[m + 1].name)
      <4>1. Choice(pre[m + 1].name, Given(ent, (m + 1) - 1), ent[m + 1].name)
        BY <1>1, <3>1 DEF Deduped
      <4> QED  BY <3>1, <4>1
    <3>3. pre2[m + 1].name = pre[m + 1].name  BY <2>1, <3>1 DEF Same
    <3>4. Given(ent, m) = Given(ent2, m)  BY <1>3, <2>2 DEF SamePrefixes
    <3>5. Stuck(pre[m + 1].name, Given(ent, m))  BY <2>4, <3>3, <3>4
    <3> QED  BY <3>2, <3>5, ChoiceUnique
  <2>5. /\ end = "packed" => Len(fil) = Len(ent) /\ Len(ent) = Len(pre)
        /\ end2 = "packed" => Len(fil2) = Len(ent2) /\ Len(ent2) = Len(pre2)
        /\ end = "exhausted" => Len(ent) < Len(pre) /\ Stuck(pre[Len(ent) + 1].name, Given(ent, Len(ent)))
                                /\ Len(fil) = 0
        /\ end2 = "exhausted" => Len(ent2) < Len(pre2) /\ Stuck(pre2[Len(ent2) + 1].name, Given(ent2, Len(ent2)))
                                 /\ Len(fil2) = 0
    BY <1>3 DEF Outcome
  <2>6. end = end2
    <3>1. CASE end = "packed" /\ end2 = "exhausted"  BY <1>3, <2>1, <2>4, <2>5, <3>1
    <3>2. CASE end = "exhausted" /\ end2 = "packed"  BY <1>3, <2>1, <2>3, <2>5, <3>2
    <3> QED  BY <1>9, <3>1, <3>2 DEF Finished
  <2>7. Len(fil) = Len(fil2)  BY <1>9, <2>1, <2>5, <2>6 DEF Finished
  <2>8. \A k \in 1..Len(fil) : fil[k] = fil2[k]
    <3> TAKE k \in 1..Len(fil)
    <3>1. k \in Nat /\ k > 0 /\ k <= Len(ent) /\ k <= Len(ent2)
      BY <1>1, <1>2, <1>3, <2>7 DEF Built
    <3>2. ent[k].name = ent2[k].name /\ ent[k].path = ent2[k].path  BY <2>2, <3>1 DEF SamePrefixes
    <3>3. k \in 1..Len(fil2)  BY <2>7
    <3>4. /\ fil[k] = [name |-> ent[k].name, data |-> ent[k].path, stamp |-> 0]
          /\ fil2[k] = [name |-> ent2[k].name, data |-> ent2[k].path, stamp |-> 0]
      BY <1>1, <1>2, <3>3 DEF Built
    <3> QED  BY <3>2, <3>4
  <2>9. fil = fil2  BY <1>1, <1>2, <2>7, <2>8, SeqEqual
  <2> QED  BY <2>6, <2>9
<1> QED  BY <1>6, <1>7, <1>8, <1>9

----------------------------------------------------------------------------
(* The packs of a behaviour.                                               *)

\* The state of the running pack, and how the first one ended.
Running == Outcome(argv[pack], prelim, entries, files, stage)
FirstDone ==
  \E pre, ent, fil, end :
    /\ end \in Finished /\ result = [end |-> end, files |-> fil]
    /\ Outcome(argv[1], pre, ent, fil, end)
Determined ==
  ~preserve => /\ Reordered(argv[1], argv[2]) /\ Running
               /\ pack = 2 => FirstDone
RInv == IInv /\ Determined

\* The steps of a pack leave the arguments and the first pack alone.
LEMMA RunningSuffices ==
  ASSUME RInv, IInv', UNCHANGED <<preserve, argv, pack, result>>, ~preserve => Running'
  PROVE  RInv'
<1>1. FirstDone => FirstDone'  BY DEF FirstDone
<1> QED  BY <1>1 DEF RInv, Determined

LEMMA TypesOf ==
  ASSUME IInv
  PROVE  /\ argv[pack] \in Seq(DOMAIN Sources) /\ prelim \in Seq(Named)
         /\ entries \in Seq(Named) /\ files \in Seq(Packed)
         /\ Len(argv[pack]) \in Nat /\ Len(prelim) \in Nat /\ Len(entries) \in Nat /\ Len(files) \in Nat
<1>1. /\ argv[pack] \in Seq(DOMAIN Sources) /\ prelim \in Seq(Named)
      /\ entries \in Seq(Named) /\ files \in Seq(Packed)
  BY DEF IInv, VariablesOK
<1> QED  BY <1>1, LenProperties

\* A pack that has just begun.
LEMMA Begins ==
  ASSUME NEW args \in Seq(DOMAIN Sources)
  PROVE  Outcome(args, <<>>, <<>>, <<>>, "stat")
  BY LenProperties DEF Outcome, Deduped, Built

LEMMA InitRuns == Init => RInv
<1> SUFFICES ASSUME Init PROVE RInv  OBVIOUS
<1>1. IInv  BY InitOK
<1>2. PICK n \in 0..MaxFiles : \E s \in [1..n -> DOMAIN Sources], f \in Bijection(1..n, 1..n) :
        argv = <<s, [k \in 1..n |-> s[f[k]]]>>
  BY DEF Init
<1>3. PICK s \in [1..n -> DOMAIN Sources], f \in Bijection(1..n, 1..n) :
        argv = <<s, [k \in 1..n |-> s[f[k]]]>>
  BY <1>2
<1>4. n \in Nat  BY NamesAssumption
<1>5. Len(s) = n /\ Len([k \in 1..n |-> s[f[k]]]) = n  BY <1>4
<1>6. Permutes(f, n)
  <2>1. f \in [1..n -> 1..n] /\ \A j \in 1..n : \E i \in 1..n : f[i] = j
    BY DEF Bijection, Surjection
  <2>2. \A i, j \in 1..n : f[i] = f[j] => i = j
    BY <2>1 DEF Bijection, Injection, IsInjective
  <2> QED  BY <2>1, <2>2 DEF Permutes
<1>7. argv[1] = s /\ argv[2] = [k \in 1..n |-> s[f[k]]]  BY <1>3
<1>8. Reordered(argv[1], argv[2])  BY <1>5, <1>6, <1>7 DEF Reordered
<1>9. Running
  <2>1. argv[pack] \in Seq(DOMAIN Sources)  BY <1>1, TypesOf
  <2>2. prelim = <<>> /\ entries = <<>> /\ files = <<>> /\ stage = "stat"  BY DEF Init
  <2> QED  BY <2>1, <2>2, Begins DEF Running
<1>10. pack # 2  BY DEF Init
<1> QED  BY <1>1, <1>8, <1>9, <1>10 DEF RInv, Determined

LEMMA StatRuns ==
  ASSUME RInv, ~preserve, Stat
  PROVE  Running'
<1> DEFINE args == argv[pack]
           path == args[Len(prelim) + 1]
           e == [name |-> Mangle(Sources[path]), path |-> path, mtime |-> pack]
<1>1. /\ stage = "stat" /\ Len(prelim) < Len(args) /\ UNCHANGED <<argv, pack, entries, files>>
      /\ Outcome(args, prelim, entries, files, stage)
  BY DEF RInv, Determined, Running, Stat, Fail
<1>2. /\ args \in Seq(DOMAIN Sources) /\ prelim \in Seq(Named)
      /\ Len(args) \in Nat /\ Len(prelim) \in Nat
  BY TypesOf DEF RInv
<1>3. CASE IsDosReserved(Mangle(Sources[path]))
  <2>1. stage' = "reserved" /\ prelim' = prelim  BY <1>3 DEF Stat, Fail
  <2>2. Len(prelim) + 1 \in 1..Len(args)  BY <1>1, <1>2
  <2>3. IsDosReserved(NameOf(args[Len(prelim) + 1]))  BY <1>3 DEF NameOf
  <2> QED  BY <1>1, <2>1, <2>2, <2>3 DEF Running, Outcome
<1>4. CASE ~IsDosReserved(Mangle(Sources[path]))
  <2>1. stage' = "stat" /\ prelim' = Append(prelim, e)  BY <1>1, <1>4 DEF Stat
  <2>2. prelim' \in Seq(Named)
    <3>1. IInv'  BY StatOK DEF RInv
    <3> QED  BY <3>1 DEF IInv, VariablesOK
  <2>3. e.name = NameOf(e.path) /\ e.path = args[Len(prelim) + 1]  BY DEF NameOf
  <2> HIDE DEF e, path, args
  <2>4. /\ Len(prelim') = Len(prelim) + 1
        /\ \A i \in 1..Len(prelim) : prelim'[i] = prelim[i]
        /\ prelim'[Len(prelim) + 1] = e
    BY <1>2, <2>1
  <2>5. /\ \A i \in 1..Len(prelim) : prelim[i].name = NameOf(prelim[i].path)
        /\ \A i \in 1..Len(prelim) : prelim[i].path = args[i]
        /\ Deduped(prelim, entries) /\ Built(entries, files) /\ Len(entries) = 0
        /\ entries \in Seq(Named) /\ files \in Seq(Packed)
    BY <1>1 DEF Outcome
  <2>6. \A i \in 1..Len(prelim') : prelim'[i].name = NameOf(prelim'[i].path) /\ prelim'[i].path = args[i]
    <3> TAKE i \in 1..Len(prelim')
    <3>1. CASE i \in 1..Len(prelim)  BY <2>4, <2>5, <3>1
    <3>2. CASE i = Len(prelim) + 1  BY <2>3, <2>4, <3>2
    <3> QED  BY <1>2, <2>4, <3>1, <3>2
  <2>7. Len(files) = 0  BY <2>5, LenProperties DEF Built
  <2>8. Deduped(prelim', entries)  BY <1>2, <2>4, <2>5 DEF Deduped
  <2>9. Len(prelim') <= Len(args)  BY <1>1, <1>2, <2>4
  <2>10. Outcome(args, prelim', entries, files, "stat")
    BY <1>2, <2>2, <2>5, <2>6, <2>7, <2>8, <2>9 DEF Outcome
  <2> QED  BY <1>1, <2>1, <2>10 DEF Running, args
<1> QED  BY <1>3, <1>4

LEMMA SortRuns ==
  ASSUME RInv, ~preserve, Sort
  PROVE  Running'
<1> DEFINE args == argv[pack]
           n == Len(prelim)
<1>1. /\ stage = "stat" /\ n = Len(args) /\ UNCHANGED <<argv, pack, entries, files>> /\ stage' = "dedupe"
      /\ Outcome(args, prelim, entries, files, stage)
  BY DEF RInv, Determined, Running, Sort
<1>2. /\ args \in Seq(DOMAIN Sources) /\ prelim \in Seq(Named) /\ n \in Nat
      /\ entries \in Seq(Named) /\ files \in Seq(Packed)
  BY TypesOf DEF RInv
<1>3. PICK f \in Sortings(prelim) : prelim' = [k \in 1..n |-> prelim[f[k]]]  BY DEF Sort
<1>4. DOMAIN prelim = 1..n  BY <1>2, LenProperties
<1>5. Permutes(f, n)
  <2>1. f \in Bijection(1..n, 1..n)  BY <1>3, <1>4 DEF Sortings
  <2>2. f \in [1..n -> 1..n] /\ \A j \in 1..n : \E i \in 1..n : f[i] = j
    BY <2>1 DEF Bijection, Surjection
  <2>3. \A i, j \in 1..n : f[i] = f[j] => i = j
    BY <2>1, <2>2 DEF Bijection, Injection, IsInjective
  <2> QED  BY <2>2, <2>3 DEF Permutes
<1> HIDE DEF n
<1>6. prelim' \in Seq(Named)
  <2>1. IInv'  BY SortOK DEF RInv
  <2> QED  BY <2>1 DEF IInv, VariablesOK
<1>7. Len(prelim') = n /\ \A k \in 1..n : prelim'[k] = prelim[f[k]] /\ f[k] \in 1..n
  BY <1>2, <1>3, <1>5 DEF Permutes
<1>8. Sorted(prelim')
  <2> SUFFICES ASSUME NEW j \in 1..n, NEW k \in 1..n, j < k
               PROVE  ~Before(prelim'[k], prelim'[j])
    BY <1>7 DEF Sorted
  <2>1. \/ Before(prelim[f[j]], prelim[f[k]])
        \/ ~Before(prelim[f[k]], prelim[f[j]]) /\ f[j] < f[k]
    BY <1>3, <1>4 DEF Sortings
  <2>2. prelim'[j] \in Named /\ prelim'[k] \in Named  BY <1>6, <1>7, ElementOfSeq
  <2>3. ~(Before(prelim'[j], prelim'[k]) /\ Before(prelim'[k], prelim'[j]))  BY <2>2, BeforeOrders
  <2> QED  BY <1>7, <2>1, <2>3
<1>9. /\ \A i \in 1..n : prelim[i].name = NameOf(prelim[i].path) /\ prelim[i].path = args[i]
      /\ Len(entries) = 0 /\ Built(entries, files)
  BY <1>1 DEF Outcome, n
<1>10. FromArgs(args, prelim')
  <2>1. \A i \in 1..n : prelim'[i].path = args[f[i]]  BY <1>7, <1>9
  <2> QED  BY <1>1, <1>5, <1>7, <2>1 DEF FromArgs
<1>11. \A i \in 1..Len(prelim') : prelim'[i].name = NameOf(prelim'[i].path)  BY <1>7, <1>9
<1>12. Deduped(prelim', entries)  BY <1>2, <1>7, <1>9 DEF Deduped
<1>13. Len(files) = 0  BY <1>2, <1>9, LenProperties DEF Built
<1>14. Outcome(args, prelim', entries, files, "dedupe")
  BY <1>2, <1>6, <1>8, <1>9, <1>10, <1>11, <1>12, <1>13 DEF Outcome
<1> QED  BY <1>1, <1>14 DEF Running

\* dedupe's set is the set of the names given so far.
LEMMA UsedIsGiven ==
  ASSUME IInv
  PROVE  used = Given(entries, Len(entries))
<1>1. DOMAIN entries = 1..Len(entries)  BY EntryNames
<1> QED  BY <1>1 DEF IInv, Names, Given

\* A file gets the name that dedupe chooses for it.
LEMMA TakeNameRuns ==
  ASSUME RInv, ~preserve, stage = "dedupe", Len(entries) < Len(prelim), NEW name, IInv',
         TakeName(name), Choice(prelim[Len(entries) + 1].name, used, name)
  PROVE  Running'
<1> DEFINE m == Len(entries)
           e == [prelim[m + 1] EXCEPT !.name = name]
           args == argv[pack]
<1>1. /\ UNCHANGED <<argv, pack, stage, prelim, files>> /\ entries' = Append(entries, e)
      /\ Outcome(args, prelim, entries, files, "dedupe")
  BY DEF TakeName, RInv, Determined, Running
<1>2. /\ prelim \in Seq(Named) /\ entries \in Seq(Named) /\ files \in Seq(Packed)
      /\ m \in Nat /\ Len(prelim) \in Nat /\ Len(files) \in Nat
  BY TypesOf DEF RInv
<1>3. entries' \in Seq(Named)  BY DEF IInv, VariablesOK
<1>4. e.name = name /\ e.path = prelim[m + 1].path
  <2>1. m + 1 \in 1..Len(prelim)  BY <1>2
  <2>2. prelim[m + 1] \in Named  BY <1>2, <2>1, ElementOfSeq
  <2> QED  BY <2>2 DEF Named
<1>5. used = Given(entries, m)  BY UsedIsGiven DEF RInv
<1>6. Deduped(prelim, entries) /\ Built(entries, files) /\ (Len(files) # 0 => m = Len(prelim))
  BY <1>1 DEF Outcome
<1> HIDE DEF m, e, args
<1>7. Len(entries') = m + 1 /\ entries'[m + 1] = e /\ \A i \in 1..m : entries'[i] = entries[i]
  BY <1>1, <1>2 DEF m
<1>8. \A k \in 0..m : Given(entries', k) = Given(entries, k)
  <2> TAKE k \in 0..m
  <2>1. \A j \in 1..k : entries'[j].name = entries[j].name  BY <1>2, <1>7
  <2> QED  BY <2>1 DEF Given
<1>9. Deduped(prelim, entries')
  <2>1. ASSUME NEW k \in 1..m + 1
        PROVE  /\ entries'[k].path = prelim[k].path
               /\ Choice(prelim[k].name, Given(entries', k - 1), entries'[k].name)
    <3>1. CASE k \in 1..m
      <4>1. /\ entries[k].path = prelim[k].path
            /\ Choice(prelim[k].name, Given(entries, k - 1), entries[k].name)
        BY <1>6, <3>1 DEF Deduped, m
      <4>2. k - 1 \in 0..m  BY <1>2, <3>1
      <4> QED  BY <1>7, <1>8, <3>1, <4>1, <4>2
    <3>2. CASE k = m + 1
      <4>1. k - 1 = m /\ m \in 0..m  BY <1>2, <3>2
      <4>2. Given(entries', k - 1) = used  BY <1>5, <1>8, <4>1
      <4> QED  BY <1>4, <1>7, <3>2, <4>2 DEF m
    <3> QED  BY <1>2, <3>1, <3>2
  <2>2. m + 1 <= Len(prelim)  BY <1>2 DEF m
  <2> QED  BY <1>7, <2>1, <2>2 DEF Deduped
<1>10. Len(files) = 0  BY <1>2, <1>6 DEF m
<1>11. Built(entries', files)  BY <1>2, <1>7, <1>10 DEF Built
<1>12. Outcome(args, prelim, entries', files, "dedupe")
  BY <1>1, <1>3, <1>9, <1>10, <1>11 DEF Outcome
<1> QED  BY <1>1, <1>12 DEF Running, args

LEMMA DedupeRuns ==
  ASSUME RInv, ~preserve, Dedupe
  PROVE  Running'
<1> DEFINE name == prelim[Len(entries) + 1].name
<1>1. stage = "dedupe" /\ Len(entries) < Len(prelim)  BY DEF Dedupe
<1>2. IInv'  BY DedupeOK DEF RInv
<1>3. CASE name \notin used
  <2>1. TakeName(name)  BY <1>3 DEF Dedupe
  <2>2. Choice(name, used, name)  BY <1>3 DEF Choice
  <2> QED  BY <1>1, <1>2, <2>1, <2>2, TakeNameRuns
<1>4. CASE name \in used /\ Free(name) = {}
  <2>1. /\ stage' = "exhausted" /\ UNCHANGED <<argv, pack, prelim, entries, files>>
    BY <1>4 DEF Dedupe, Fail
  <2>2. Outcome(argv[pack], prelim, entries, files, "dedupe")
    BY <1>1 DEF RInv, Determined, Running
  <2>3. Stuck(name, Given(entries, Len(entries)))
    <3>1. used = Given(entries, Len(entries))  BY UsedIsGiven DEF RInv
    <3>2. \A m \in 1..MaxSuffix : Candidate(name, m) \in used  BY <1>4 DEF Free
    <3> QED  BY <1>4, <3>1, <3>2 DEF Stuck
  <2>4. Outcome(argv[pack], prelim, entries, files, "exhausted")
    BY <1>1, <2>2, <2>3 DEF Outcome
  <2> QED  BY <2>1, <2>4 DEF Running
<1>5. CASE name \in used /\ Free(name) # {}
  <2>1. PICK n \in Free(name) : (\A m \in Free(name) : n <= m) /\ TakeName(Candidate(name, n))
    BY <1>5 DEF Dedupe
  <2>2. Choice(name, used, Candidate(name, n))
    BY <1>5, <2>1 DEF Choice, Free
  <2> QED  BY <1>1, <1>2, <2>1, <2>2, TakeNameRuns
<1> QED  BY <1>3, <1>4, <1>5

LEMMA BuildRuns ==
  ASSUME RInv, ~preserve, Build
  PROVE  Running'
<1> DEFINE m == Len(files)
           e == entries[m + 1]
           built == [name |-> e.name, data |-> e.path, stamp |-> 0]
           args == argv[pack]
<1>1. /\ UNCHANGED <<argv, pack, stage, prelim, entries>> /\ stage = "dedupe"
      /\ Len(entries) = Len(prelim) /\ m < Len(entries)
      /\ Outcome(args, prelim, entries, files, "dedupe")
  BY DEF Build, RInv, Determined, Running
<1>2. files' = Append(files, built)  BY DEF Build, Timestamp
<1>3. /\ files \in Seq(Packed) /\ m \in Nat /\ Len(entries) \in Nat  BY TypesOf DEF RInv
<1>4. files' \in Seq(Packed)
  <2>1. IInv'  BY BuildOK DEF RInv
  <2> QED  BY <2>1 DEF IInv, VariablesOK
<1>5. Built(entries, files)  BY <1>1 DEF Outcome
<1> HIDE DEF m, built, args
<1>6. Len(files') = m + 1 /\ files'[m + 1] = built /\ \A i \in 1..m : files'[i] = files[i]
  BY <1>2, <1>3 DEF m
<1>7. Built(entries, files')
  <2>1. ASSUME NEW k \in 1..m + 1
        PROVE  files'[k] = [name |-> entries[k].name, data |-> entries[k].path, stamp |-> 0]
    <3>1. CASE k \in 1..m  BY <1>5, <1>6, <3>1 DEF Built, m
    <3>2. CASE k = m + 1  BY <1>6, <3>2 DEF built
    <3> QED  BY <1>3, <3>1, <3>2
  <2> QED  BY <1>1, <1>3, <1>6, <2>1 DEF Built
<1>8. Outcome(args, prelim, entries, files', "dedupe")
  BY <1>1, <1>4, <1>7 DEF Outcome
<1> QED  BY <1>1, <1>8 DEF Running, args

LEMMA WriteSfxRuns ==
  ASSUME RInv, ~preserve, WriteSfx
  PROVE  Running'
<1>1. /\ stage = "dedupe" /\ stage' = "packed" /\ UNCHANGED <<argv, pack, prelim, entries, files>>
      /\ Len(entries) = Len(prelim) /\ Len(files) = Len(entries)
      /\ Outcome(argv[pack], prelim, entries, files, "dedupe")
  BY DEF WriteSfx, RInv, Determined, Running
<1>2. Outcome(argv[pack], prelim, entries, files, "packed")  BY <1>1 DEF Outcome
<1> QED  BY <1>1, <1>2 DEF Running

LEMMA AgainRuns ==
  ASSUME RInv, Again
  PROVE  RInv'
<1>1. IInv'  BY AgainOK DEF RInv
<1>2. /\ UNCHANGED <<preserve, argv>> /\ pack = 1 /\ stage \in Finished
      /\ result' = [end |-> stage, files |-> files]
      /\ stage' = "stat" /\ prelim' = <<>> /\ entries' = <<>> /\ files' = <<>>
  BY DEF Again, Fresh, Ended, Finished
<1>3. argv[pack]' \in Seq(DOMAIN Sources)  BY <1>1 DEF IInv, VariablesOK
<1>4. Running'  BY <1>2, <1>3, Begins DEF Running
<1>5. ~preserve => FirstDone'
  <2> SUFFICES ASSUME ~preserve PROVE FirstDone'  OBVIOUS
  <2>1. Outcome(argv[1], prelim, entries, files, stage)
    BY <1>2 DEF RInv, Determined, Running
  <2> QED  BY <1>2, <2>1 DEF FirstDone
<1> QED  BY <1>1, <1>2, <1>4, <1>5 DEF RInv, Determined

LEMMA RInvInvariance == Spec => []RInv
<1>1. RInv /\ [Next]_vars => RInv'
  <2> SUFFICES ASSUME RInv, [Next]_vars PROVE RInv'  OBVIOUS
  <2>1. CASE Stat
    <3>1. IInv' /\ UNCHANGED <<preserve, argv, pack, result>>
      BY <2>1, StatOK DEF RInv, Stat, Fail
    <3> QED  BY <2>1, <3>1, StatRuns, RunningSuffices
  <2>2. CASE Sort
    <3>1. IInv' /\ UNCHANGED <<preserve, argv, pack, result>>  BY <2>2, SortOK DEF RInv, Sort
    <3> QED  BY <2>2, <3>1, SortRuns, RunningSuffices
  <2>3. CASE Dedupe
    <3>1. IInv' /\ UNCHANGED <<preserve, argv, pack, result>>
      BY <2>3, DedupeOK DEF RInv, Dedupe, TakeName, Fail
    <3> QED  BY <2>3, <3>1, DedupeRuns, RunningSuffices
  <2>4. CASE Build
    <3>1. IInv' /\ UNCHANGED <<preserve, argv, pack, result>>  BY <2>4, BuildOK DEF RInv, Build
    <3> QED  BY <2>4, <3>1, BuildRuns, RunningSuffices
  <2>5. CASE WriteSfx
    <3>1. IInv' /\ UNCHANGED <<preserve, argv, pack, result>>  BY <2>5, FailOK DEF RInv, WriteSfx
    <3> QED  BY <2>5, <3>1, WriteSfxRuns, RunningSuffices
  <2>6. CASE Again  BY <2>6, AgainRuns
  <2>7. CASE UNCHANGED vars
    BY <2>7 DEF vars, RInv, Determined, Running, FirstDone, IInv, VariablesOK, Progress, Names, Distinct
  <2> QED  BY <2>1, <2>2, <2>3, <2>4, <2>5, <2>6, <2>7 DEF Next, Over
<1> QED  BY <1>1, InitRuns, PTL DEF Spec

\* In the reproducible default, two packs of the same files end alike and leave the same
\* entries, whatever the files are called, in whatever order they are listed and whenever
\* they were touched (sort and dedupe in pack).
THEOREM Rebuilds == Spec => []Reproducible
<1>1. RInv => Reproducible
  <2> SUFFICES ASSUME RInv, ~preserve, pack = 2, Ended
               PROVE  result = [end |-> stage, files |-> files]
    BY DEF Reproducible
  <2>1. /\ Reordered(argv[1], argv[2]) /\ stage \in Finished
        /\ Outcome(argv[2], prelim, entries, files, stage)
    BY DEF RInv, Determined, Running, Ended, Finished
  <2>2. PICK pre, ent, fil, end :
          /\ end \in Finished /\ result = [end |-> end, files |-> fil]
          /\ Outcome(argv[1], pre, ent, fil, end)
    BY DEF RInv, Determined, FirstDone
  <2>3. end = stage /\ fil = files  BY <2>1, <2>2, SameOutcome
  <2> QED  BY <2>2, <2>3
<1> QED  BY <1>1, RInvInvariance, PTL
=============================================================================
