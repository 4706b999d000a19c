-------------------------- MODULE AlgorithmProofs --------------------------
(***************************************************************************)
(* Three algorithms.  The depackers' copy loops: every port of aplib_depack*)
(* copies what a byte-by-byte copy copies, for every block width, match    *)
(* offset and length, and whatever the stream and the buffer hold.  One    *)
(* chunk from pack to extraction: every stream that apultra_write_block    *)
(* can write for it is read back exactly, for every chunk and every way to *)
(* cut it into commands.  And the calendar of fat_time.rs: for every year  *)
(* and every second of a day.                                              *)
(***************************************************************************)
EXTENDS AplibChunk, FatCalendar, SequenceTheorems, FiniteSetTheorems, WellFoundedInduction, TLAPS

\* The least member of a set of numbers.
LEMMA LeastOf ==
  ASSUME NEW T \in SUBSET Nat, T # {}
  PROVE  \E x \in T : \A y \in T : x <= y
<1>1. PICK x \in T : \A y \in T : <<y, x>> \notin OpToRel(<, Nat)
  BY WFMin, NatLessThanWellFounded
<1>2. \A y \in T : ~(y < x)  BY <1>1 DEF OpToRel
<1> QED  BY <1>2

----------------------------------------------------------------------------
(* The depackers.                                                          *)

\* The values of the registers.
RegistersOK ==
  /\ port \in Ports /\ src \in Seq(0..255)
  /\ bits \in [al : 0..255, si : Nat]
  /\ di \in Nat /\ si \in Int /\ cx \in Nat /\ dx \in Nat /\ bx \in {2, 3}
  /\ from \in Nat /\ upto \in Nat

\* While a match is copied, the source runs dx behind the destination, and the block loop
\* is entered only with a whole block to copy from at least a block back.
PointersOK ==
  /\ pc \in {"block", "bytes"} => si = di - dx
  /\ pc = "block" => Width[port] > 0 /\ cx >= Width[port] /\ dx >= Width[port]

CopyInv == RegistersOK /\ PointersOK /\ CopyExact

\* The bytes SrcByte returns.
LEMMA SrcByteType ==
  ASSUME src \in Seq(0..255), NEW n \in Nat
  PROVE  SrcByte(n) \in 0..255
  <1>1. DOMAIN src = 1..Len(src)
    OBVIOUS
  <1>2. n \in DOMAIN src => src[n] \in 0..255
    BY <1>1, ElementOfSeq
  <1> QED BY <1>2 DEF SrcByte

\* Doubling a byte in eight bits, and its top bit.
LEMMA ByteArithmetic ==
  ASSUME NEW a \in 0..255, NEW b \in 0..255
  PROVE  /\ a \div 128 \in {0, 1} /\ b \div 128 \in {0, 1}
         /\ (2 * a) % 256 \in 0..255
         /\ (2 * b + a \div 128) % 256 \in 0..255
  <1>1. a \div 128 \in {0, 1} /\ b \div 128 \in {0, 1}
    OBVIOUS
  <1>2. \A n \in Nat : n % 256 \in 0..255
    OBVIOUS
  <1> QED BY <1>1, <1>2

\* A bit is 0 or 1, and the queue stays a byte.
LEMMA TakeBitType ==
  ASSUME src \in Seq(0..255), NEW q \in [al : 0..255, si : Nat]
  PROVE  /\ TakeBit(q).bit \in {0, 1}
         /\ TakeBit(q).si \in Nat
         /\ Queue(TakeBit(q)) \in [al : 0..255, si : Nat]
  <1>1. SrcByte(q.si) \in 0..255
    BY SrcByteType
  <1>2. TakeBit(q).al \in 0..255 /\ TakeBit(q).bit \in {0, 1} /\ TakeBit(q).si \in Nat
    <2> DEFINE b == SrcByte(q.si)
    <2>1. b \in 0..255 /\ q.al \in 0..255 /\ q.si \in Nat
      BY <1>1
    <2> HIDE DEF b
    <2>2. /\ (2 * q.al) % 256 \in 0..255 /\ q.al \div 128 \in {0, 1} /\ b \div 128 \in {0, 1}
          /\ (2 * b + q.al \div 128) % 256 \in 0..255
      BY <2>1, ByteArithmetic, ZenonT(60)
    <2>4. TakeBit(q) = IF (2 * q.al) % 256 # 0
                       THEN [bit |-> q.al \div 128, al |-> (2 * q.al) % 256, si |-> q.si]
                       ELSE [bit |-> b \div 128, al |-> (2 * b + q.al \div 128) % 256, si |-> q.si + 1]
      BY DEF TakeBit, b
    <2> QED BY <2>1, <2>2, <2>4
  <1> QED BY <1>2 DEF Queue

\* Copying a block of at most dx bytes extends the copied part by exactly that block: the
\* bytes it loads were all there before it stores any.
LEMMA BlockExtends ==
  ASSUME CopyInv, CopyBlock
  PROVE  CopyExact'
  <1> DEFINE width == Width[port]
  <1>1. /\ width \in Nat /\ width > 0 /\ cx >= width /\ dx >= width /\ si = di - dx
        /\ di \in Nat /\ cx \in Nat /\ dx \in Nat /\ from \in Nat /\ upto \in Nat
        /\ from <= di /\ cx = upto - di
        /\ from' = from /\ upto' = upto /\ dx' = dx /\ di' = di + width /\ cx' = cx - width
    BY FormatAssumption DEF CopyInv, RegistersOK, PointersOK, CopyExact, CopyBlock
  <1>2. \A a \in from..(di - 1) : {a, a - dx} \subseteq DOMAIN mem => mem[a] = mem[a - dx]
    BY DEF CopyInv, CopyExact, CopyBlock
  <1>3. mem' = [a \in DOMAIN mem |-> IF a \in di..(di + width - 1) THEN mem[si + (a - di)] ELSE mem[a]]
    BY DEF CopyBlock
  <1>4. DOMAIN mem' = DOMAIN mem
    BY <1>3
  <1> HIDE DEF width
  <1>5. ASSUME NEW a \in from'..(di' - 1), {a, a - dx} \subseteq DOMAIN mem
        PROVE  mem'[a] = mem'[a - dx]
    <2>1. a \in Int /\ a - dx \in Int /\ a >= from /\ a <= di + width - 1 /\ a - dx < di
      BY <1>1, <1>5
    <2>2. mem'[a - dx] = mem[a - dx]
      BY <1>1, <1>3, <1>5, <2>1
    <2>3. CASE a < di
      <3>1. mem'[a] = mem[a]
        BY <1>1, <1>3, <1>5, <2>1, <2>3
      <3>2. a \in from..(di - 1)
        BY <1>1, <2>1, <2>3
      <3> QED BY <1>2, <1>5, <2>2, <3>1, <3>2
    <2>4. CASE a >= di
      <3>1. a \in di..(di + width - 1) /\ si + (a - di) = a - dx
        BY <1>1, <2>1, <2>4
      <3>2. mem'[a] = mem[si + (a - di)]
        BY <1>3, <1>5, <3>1
      <3> QED BY <2>2, <3>1, <3>2
    <2> QED BY <2>1, <2>3, <2>4, <1>1
  <1> QED BY <1>1, <1>4, <1>5 DEF CopyExact

\* Copying one byte extends the copied part by it, also when the match has offset 0.
LEMMA ByteExtends ==
  ASSUME CopyInv, CopyByte
  PROVE  CopyExact'
  <1>1. /\ cx > 0 /\ si = di - dx
        /\ di \in Nat /\ cx \in Nat /\ dx \in Nat /\ from \in Nat /\ upto \in Nat
        /\ from <= di /\ cx = upto - di
        /\ from' = from /\ upto' = upto /\ dx' = dx /\ di' = di + 1 /\ cx' = cx - 1
    BY DEF CopyInv, RegistersOK, PointersOK, CopyExact, CopyByte, PutByte
  <1>2. \A a \in from..(di - 1) : {a, a - dx} \subseteq DOMAIN mem => mem[a] = mem[a - dx]
    BY DEF CopyInv, CopyExact, CopyByte
  <1>3. mem' = [mem EXCEPT ![di] = mem[si]]
    BY DEF CopyByte, PutByte
  <1>4. DOMAIN mem' = DOMAIN mem
    BY <1>3
  <1>5. ASSUME NEW a \in from'..(di' - 1), {a, a - dx} \subseteq DOMAIN mem
        PROVE  mem'[a] = mem'[a - dx]
    <2>1. a \in Int /\ a - dx \in Int /\ a >= from /\ a <= di /\ a - dx <= a
      BY <1>1, <1>5
    <2>2. CASE a < di
      <3>1. mem'[a] = mem[a] /\ mem'[a - dx] = mem[a - dx]
        BY <1>1, <1>3, <1>5, <2>1, <2>2
      <3>2. a \in from..(di - 1)
        BY <1>1, <2>1, <2>2
      <3> QED BY <1>2, <1>5, <3>1, <3>2
    <2>3. CASE a = di
      <3>1. mem'[a] = mem[a - dx]
        BY <1>1, <1>3, <1>5, <2>3
      <3>2. CASE dx = 0
        BY <2>1, <3>2
      <3>3. CASE dx # 0
        <4>1. a - dx # di
          BY <1>1, <2>1, <2>3, <3>3
        <4> QED BY <1>3, <1>5, <3>1, <4>1
      <3> QED BY <3>2, <3>3
    <2> QED BY <1>1, <2>1, <2>2, <2>3
  <1> QED BY <1>1, <1>4, <1>5 DEF CopyExact

\* On entry no match is being copied.
LEMMA CopyInitHolds == DepackInit /\ pc = "literal" /\ port \in Ports /\ src \in Seq(0..255) => CopyInv
  BY DEF DepackInit, CopyInv, RegistersOK, PointersOK, CopyExact

\* The steps that read the stream keep the registers in their ranges and copy nothing.
LEMMA ReadSteps ==
  ASSUME CopyInv, Literal \/ Command \/ HighPart \/ Length \/ ShortMatch \/ ShortLiteral
                 \/ BackHigh \/ BackLow
  PROVE  CopyInv'
  <1> DEFINE t == TakeBit(bits)
             u == TakeBit(Queue(t))
  <1>1. /\ port \in Ports /\ src \in Seq(0..255)
        /\ bits \in [al : 0..255, si : Nat]
        /\ di \in Nat /\ si \in Int /\ cx \in Nat /\ dx \in Nat /\ bx \in {2, 3}
        /\ from \in Nat /\ upto \in Nat
    BY DEF CopyInv, RegistersOK
  <1>2. t.bit \in {0, 1} /\ t.si \in Nat /\ Queue(t) \in [al : 0..255, si : Nat]
    BY <1>1, TakeBitType
  <1>3. u.bit \in {0, 1} /\ u.si \in Nat /\ Queue(u) \in [al : 0..255, si : Nat]
    BY <1>1, <1>2, TakeBitType
  <1>4. \A n \in Nat : SrcByte(n) \in 0..255
    BY <1>1, SrcByteType
  <1> HIDE DEF t, u
  <1>5. ASSUME pc' \notin {"block", "bytes"}
        PROVE  PointersOK' /\ CopyExact'
    BY <1>5 DEF PointersOK, CopyExact
  <1>6. CASE Literal
    <2>1. /\ bits' = [bits EXCEPT !.si = @ + 1] /\ di' = di + 1 /\ bx' = 3
          /\ UNCHANGED <<port, src, si, cx, dx, from, upto>>
      BY <1>6 DEF Literal, PutByte
    <2>2. bits' \in [al : 0..255, si : Nat]
      <3>1. \A q \in [al : 0..255, si : Nat] : [q EXCEPT !.si = @ + 1] \in [al : 0..255, si : Nat]
        OBVIOUS
      <3> QED BY <1>1, <2>1, <3>1
    <2>3. RegistersOK'
      BY <1>1, <2>1, <2>2 DEF RegistersOK
    <2> QED BY <1>5, <1>6, <2>3 DEF Literal, CopyInv
  <1>7. CASE Command
    <2>1. bits' = Queue(t)
      BY <1>7 DEF Command, t
    <2>2. RegistersOK'
      BY <1>1, <1>2, <1>7, <2>1 DEF Command, RegistersOK
    <2>3. pc' \notin {"block", "bytes"}
      BY <1>7 DEF Command
    <2> QED BY <1>5, <2>2, <2>3 DEF CopyInv
  <1>8. CASE HighPart
    <2> DEFINE high == 2 * cx + t.bit
    <2>1. high \in Nat
      BY <1>1, <1>2
    <2>2. /\ pc' \notin {"block", "bytes"}
          /\ cx' \in {high, 1}
          /\ bits' \in {Queue(u), [Queue(u) EXCEPT !.si = @ + 1]}
          /\ dx' = dx \/ (~Repeats(high) /\ dx' = (high - bx) * Radix + SrcByte(u.si))
          /\ UNCHANGED <<port, src, di, si, bx, from, upto>>
      BY <1>8 DEF HighPart, t, u
    <2> HIDE DEF high
    <2>3. bits' \in [al : 0..255, si : Nat]
      BY <1>3, <2>2
    <2>4. dx' \in Nat
      <3>1. CASE dx' = dx
        BY <1>1, <3>1
      <3>2. CASE ~Repeats(high) /\ dx' = (high - bx) * Radix + SrcByte(u.si)
        <4>5. high >= bx
          BY <1>1, <2>1, <3>2 DEF Repeats
        <4>1. high - bx \in Nat
          BY <1>1, <2>1, <4>5
        <4>2. Radix \in Nat
          BY FormatAssumption
        <4>3. SrcByte(u.si) \in Nat
          BY <1>3, <1>4
        <4>4. (high - bx) * Radix \in Nat
          BY <4>1, <4>2
        <4> QED BY <3>2, <4>3, <4>4
      <3> QED BY <2>2, <3>1, <3>2
    <2>5. RegistersOK'
      BY <1>1, <2>1, <2>2, <2>3, <2>4 DEF RegistersOK
    <2> QED BY <1>5, <2>2, <2>5 DEF CopyInv
  <1>9. CASE Length
    <2>1. /\ pc' \notin {"block", "bytes"}
          /\ bits' = Queue(u)
          /\ \/ cx' = 2 * cx + t.bit
             \/ cx' = 2 * cx + t.bit + (IF pc = "length" THEN ImpliedLength(dx) ELSE 0)
          /\ UNCHANGED <<port, src, di, si, dx, bx, from, upto>>
      BY <1>9 DEF Length, t, u
    <2>2. ImpliedLength(dx) \in Nat
      BY DEF ImpliedLength
    <2>3. cx' \in Nat
      BY <1>1, <1>2, <2>1, <2>2
    <2>4. RegistersOK'
      BY <1>1, <1>3, <2>1, <2>3 DEF RegistersOK
    <2> QED BY <1>5, <2>1, <2>4 DEF CopyInv
  <1>10. CASE ShortMatch
    <2> DEFINE b == SrcByte(t.si)
    <2>1. b \in 0..255
      BY <1>2, <1>4
    <2>2. /\ pc' \notin {"block", "bytes"}
          /\ bits' = [Queue(t) EXCEPT !.si = @ + 1]
          /\ dx' = b \div 2
          /\ cx' = cx \/ cx' = 2 + (b % 2)
          /\ UNCHANGED <<port, src, di, si, bx, from, upto>>
      BY <1>10 DEF ShortMatch, t
    <2> HIDE DEF b
    <2>3. b \div 2 \in Nat /\ 2 + (b % 2) \in Nat
      BY <2>1
    <2>4. bits' \in [al : 0..255, si : Nat]
      BY <1>2, <2>2
    <2>5. RegistersOK'
      BY <1>1, <2>2, <2>3, <2>4 DEF RegistersOK
    <2> QED BY <1>5, <2>2, <2>5 DEF CopyInv
  <1>11. CASE ShortLiteral
    <2>1. /\ bits' = Queue(t) /\ cx' = 0
          /\ UNCHANGED <<port, src, di, si, dx, bx, from, upto>>
      BY <1>11 DEF ShortLiteral, t
    <2>2. RegistersOK'
      BY <1>1, <1>2, <2>1 DEF RegistersOK
    <2> QED BY <1>5, <1>11, <2>2 DEF ShortLiteral, CopyInv
  <1>12. CASE BackHigh
    <2>1. bits' = Queue(u) /\ cx' = 2 * t.bit + u.bit
      BY <1>12 DEF BackHigh, t, u
    <2>2. cx' \in Nat
      BY <1>2, <1>3, <2>1
    <2>3. RegistersOK'
      BY <1>1, <1>3, <1>12, <2>1, <2>2 DEF BackHigh, RegistersOK
    <2> QED BY <1>5, <1>12, <2>3 DEF BackHigh, CopyInv
  <1>13. CASE BackLow
    <2>1. /\ bits' = Queue(u) /\ di' = di + 1 /\ bx' = 3 /\ pc' = "command"
          /\ UNCHANGED <<port, src, si, cx, dx, from, upto>>
      BY <1>13 DEF BackLow, PutByte, t, u
    <2>2. RegistersOK'
      BY <1>1, <1>3, <2>1 DEF RegistersOK
    <2> QED BY <1>5, <2>1, <2>2 DEF CopyInv
  <1> QED BY <1>6, <1>7, <1>8, <1>9, <1>10, <1>11, <1>12, <1>13

\* The steps that copy a match.
LEMMA CopySteps ==
  ASSUME CopyInv, StartCopy \/ CopyBlock \/ CopyByte \/ CopyEnds
  PROVE  CopyInv'
  <1>1. /\ port \in Ports /\ src \in Seq(0..255)
        /\ bits \in [al : 0..255, si : Nat]
        /\ di \in Nat /\ si \in Int /\ cx \in Nat /\ dx \in Nat /\ bx \in {2, 3}
        /\ from \in Nat /\ upto \in Nat
        /\ Width[port] \in Nat
    BY FormatAssumption DEF CopyInv, RegistersOK
  <1>2. CASE StartCopy
    <2>1. RegistersOK'
      BY <1>1, <1>2 DEF StartCopy, RegistersOK
    <2>2. PointersOK'
      BY <1>1, <1>2 DEF StartCopy, Blocks, PointersOK
    <2>3. CopyExact'
      BY <1>1, <1>2 DEF StartCopy, CopyExact
    <2> QED BY <2>1, <2>2, <2>3 DEF CopyInv
  <1>3. CASE CopyBlock
    <2>1. /\ si = di - dx /\ Width[port] > 0 /\ cx >= Width[port] /\ dx >= Width[port]
      BY <1>3 DEF CopyInv, PointersOK, CopyBlock
    <2>5. /\ si' = si + Width[port] /\ di' = di + Width[port] /\ cx' = cx - Width[port]
          /\ pc' = IF cx - Width[port] >= Width[port] THEN "block" ELSE "bytes"
          /\ UNCHANGED <<port, src, bits, dx, bx, from, upto>>
      BY <1>3 DEF CopyBlock
    <2>2. RegistersOK'
      BY <1>1, <2>1, <2>5, SMTT(60) DEF RegistersOK
    <2>3. PointersOK'
      BY <1>1, <2>1, <2>5, SMTT(60) DEF PointersOK
    <2>4. CopyExact'
      BY <1>3, BlockExtends
    <2> QED BY <2>2, <2>3, <2>4 DEF CopyInv
  <1>4. CASE CopyByte
    <2>1. RegistersOK'
      BY <1>1, <1>4, SMTT(60) DEF CopyByte, PutByte, RegistersOK
    <2>2. PointersOK'
      BY <1>1, <1>4 DEF CopyByte, PutByte, PointersOK, CopyInv
    <2>3. CopyExact'
      BY <1>4, ByteExtends
    <2> QED BY <2>1, <2>2, <2>3 DEF CopyInv
  <1>5. CASE CopyEnds
    BY <1>1, <1>5 DEF CopyEnds, CopyInv, RegistersOK, PointersOK, CopyExact
  <1> QED BY <1>2, <1>3, <1>4, <1>5

\* Every port of the routine, with blocks of any width or none, called with any bytes in
\* g_src and g_buf, gives each byte of a match the value of the byte dx before it and
\* writes none beyond the end of the match.
THEOREM CopiesMatches == DepackSpec => []CopyExact
  <1>1. DepackInit /\ pc = "literal" /\ port \in Ports /\ src \in Seq(0..255) => CopyInv
    BY CopyInitHolds
  <1>2. CopyInv /\ [Depack]_depackVars => CopyInv'
    <2>1. ASSUME CopyInv, UNCHANGED depackVars
          PROVE  CopyInv'
      BY <2>1 DEF depackVars, CopyInv, RegistersOK, PointersOK, CopyExact
    <2>2. ASSUME CopyInv, Depack
          PROVE  CopyInv'
      BY <2>2, ReadSteps, CopySteps DEF Depack
    <2> QED BY <2>1, <2>2
  <1>3. CopyInv => CopyExact
    BY DEF CopyInv
  <1> QED BY <1>1, <1>2, <1>3, PTL DEF DepackSpec

----------------------------------------------------------------------------
(* One chunk from pack to extraction: the bits of the stream.              *)

\* The powers of two that occur, as a table: the provers know 2^k only for a given k.
Pow(k) ==
  IF k = 0 THEN 1 ELSE IF k = 1 THEN 2 ELSE IF k = 2 THEN 4 ELSE IF k = 3 THEN 8 ELSE
  IF k = 4 THEN 16 ELSE IF k = 5 THEN 32 ELSE IF k = 6 THEN 64 ELSE IF k = 7 THEN 128 ELSE 256

LEMMA Powers == ASSUME NEW k \in 0..8 PROVE 2^k = Pow(k)
  <1>0. k \in {0, 1, 2, 3, 4, 5, 6, 7, 8}
    OBVIOUS
  <1>1. 2^0 = 1 /\ 2^1 = 2 /\ 2^2 = 4 /\ 2^3 = 8 /\ 2^4 = 16 /\ 2^5 = 32 /\ 2^6 = 64 /\ 2^7 = 128 /\ 2^8 = 256
    OBVIOUS
  <1>2. CASE k = 0 BY <1>1, <1>2 DEF Pow
  <1>3. CASE k = 1 BY <1>1, <1>3 DEF Pow
  <1>4. CASE k = 2 BY <1>1, <1>4 DEF Pow
  <1>5. CASE k = 3 BY <1>1, <1>5 DEF Pow
  <1>6. CASE k = 4 BY <1>1, <1>6 DEF Pow
  <1>7. CASE k = 5 BY <1>1, <1>7 DEF Pow
  <1>8. CASE k = 6 BY <1>1, <1>8 DEF Pow
  <1>9. CASE k = 7 BY <1>1, <1>9 DEF Pow
  <1>10. CASE k = 8 BY <1>1, <1>10 DEF Pow
  <1> QED BY <1>0, <1>2, <1>3, <1>4, <1>5, <1>6, <1>7, <1>8, <1>9, <1>10

LEMMA PowType == ASSUME NEW k \in 0..8 PROVE Pow(k) \in Nat /\ Pow(k) > 0
  BY DEF Pow

\* One bit split off a value, in the byte that takes bits and over the end of it.
LEMMA HighPartOfBits ==
  ASSUME NEW k \in 0..5, NEW v \in 0..15
  PROVE  v * Pow(k) = (v \div 2) * Pow(k + 1) + (v % 2) * Pow(k)
  BY DEF Pow

LEMMA SplitBits ==
  ASSUME NEW k \in 2..4, NEW v \in 0..15
  PROVE  /\ (v \div 2) \div Pow(k - 1) = v \div Pow(k)
         /\ ((v \div 2) % Pow(k - 1)) * Pow(9 - k) + (v % 2) * Pow(8 - k) = (v % Pow(k)) * Pow(8 - k)
  BY DEF Pow

\* The writer's streams; a sane one is of bytes, and the bits of the byte that takes bits
\* which are not yet written are zero.
Streams == [out : Seq(Int), at : Nat, shift : -1..6]

Sane(s) ==
  /\ s \in Streams /\ s.out \in Seq(0..255)
  /\ s.shift >= 0 => s.at \in 1..Len(s.out) /\ s.out[s.at] % Pow(s.shift + 1) = 0

\* A stream, and the one with more in one of its bytes.
Stream(q, i, h) == [out |-> q, at |-> i, shift |-> h]
Raise(q, i, x) == [q EXCEPT ![i] = @ + x]

\* PutBits with the powers of two in a form the provers can compute with: when the bits
\* fit into the byte that takes bits, and when they do not.
LEMMA PutBitsFits ==
  ASSUME NEW s \in Streams, NEW n \in 1..4, NEW v \in 0..15, NEW k \in 0..6, k = s.shift + 1 - n
  PROVE  PutBits(s, v, n) = Stream(Raise(s.out, s.at, v * Pow(k)), s.at, s.shift - n)
  <1> DEFINE over == n - (s.shift + 1)
  <1>0. s.shift \in -1..6
    BY DEF Streams
  <1>1. over <= 0 /\ -over = k /\ k \in 0..8
    BY <1>0
  <1>2. PutBits(s, v, n) = [s EXCEPT !.out[s.at] = @ + v * 2^(-over), !.shift = @ - n]
    BY <1>1 DEF PutBits
  <1> HIDE DEF over
  <1>3. 2^k = Pow(k)
    BY <1>1, Powers
  <1>4. PutBits(s, v, n) = [s EXCEPT !.out[s.at] = @ + v * Pow(k), !.shift = @ - n]
    BY <1>1, <1>2, <1>3
  <1> QED BY <1>4 DEF Streams, Stream, Raise

LEMMA PutBitsOverflows ==
  ASSUME NEW s \in Streams, NEW n \in 1..4, NEW v \in 0..15, NEW k \in 1..4, k = n - (s.shift + 1)
  PROVE  PutBits(s, v, n) =
           Stream(Append(IF s.shift = -1 THEN s.out ELSE Raise(s.out, s.at, v \div Pow(k)),
                         (v % Pow(k)) * Pow(8 - k)), Len(s.out) + 1, 7 - k)
  <1> DEFINE over == n - (s.shift + 1)
  <1>0. s.shift \in -1..6
    BY DEF Streams
  <1>1. ~(over <= 0) /\ over = k /\ k \in 0..8 /\ 8 - k \in 0..8
    BY <1>0
  <1>2. PutBits(s, v, n) = Stream(Append(IF s.shift = -1 THEN s.out ELSE Raise(s.out, s.at, v \div 2^over),
                                         (v % 2^over) * 2^(8 - over)), Len(s.out) + 1, 7 - over)
    BY <1>1 DEF PutBits, Stream, Raise
  <1> HIDE DEF over
  <1>3. 2^k = Pow(k)
    BY <1>1, Powers
  <1>4. 2^(8 - k) = Pow(8 - k)
    BY <1>1, Powers, Zenon
  <1> QED BY <1>1, <1>2, <1>3, <1>4

\* One byte of a sequence raised.
LEMMA RaisedOnce ==
  ASSUME NEW q \in Seq(Int), NEW i \in 1..Len(q), NEW z \in Int
  PROVE  /\ Raise(q, i, z) \in Seq(Int) /\ Len(Raise(q, i, z)) = Len(q)
         /\ \A k \in 1..Len(q) : Raise(q, i, z)[k] = IF k = i THEN q[i] + z ELSE q[k]
  <1>1. q \in [1..Len(q) -> Int] /\ Len(q) \in Nat
    BY LenProperties
  <1> DEFINE r == Raise(q, i, z)
  <1>2. r \in [1..Len(q) -> Int]
    BY <1>1 DEF Raise
  <1>3. \A k \in 1..Len(q) : r[k] = IF k = i THEN q[i] + z ELSE q[k]
    BY <1>1 DEF Raise
  <1> HIDE DEF r
  <1>4. r \in Seq(Int) /\ Len(r) = Len(q)
    BY <1>1, <1>2
  <1> QED BY <1>3, <1>4 DEF r

\* And raised again.
LEMMA Raised ==
  ASSUME NEW q \in Seq(Int), NEW i \in 1..Len(q), NEW x \in Int, NEW y \in Int
  PROVE  /\ Raise(q, i, x) \in Seq(Int) /\ Len(Raise(q, i, x)) = Len(q)
         /\ \A k \in 1..Len(q) : Raise(q, i, x)[k] = IF k = i THEN q[i] + x ELSE q[k]
         /\ Raise(Raise(q, i, x), i, y) = Raise(q, i, x + y)
  <1>1. /\ Raise(q, i, x) \in Seq(Int) /\ Len(Raise(q, i, x)) = Len(q)
        /\ \A k \in 1..Len(q) : Raise(q, i, x)[k] = IF k = i THEN q[i] + x ELSE q[k]
    BY RaisedOnce
  <1>2. /\ Raise(q, i, x + y) \in Seq(Int) /\ Len(Raise(q, i, x + y)) = Len(q)
        /\ \A k \in 1..Len(q) : Raise(q, i, x + y)[k] = IF k = i THEN q[i] + (x + y) ELSE q[k]
    BY RaisedOnce
  <1>3. /\ Raise(Raise(q, i, x), i, y) \in Seq(Int) /\ Len(Raise(Raise(q, i, x), i, y)) = Len(q)
        /\ \A k \in 1..Len(q) : Raise(Raise(q, i, x), i, y)[k] = IF k = i THEN Raise(q, i, x)[i] + y ELSE Raise(q, i, x)[k]
    BY <1>1, RaisedOnce
  <1>4. q[i] \in Int /\ Len(q) \in Nat
    BY ElementOfSeq
  <1> DEFINE r == Raise(q, i, x)
             a == Raise(r, i, y)
             b == Raise(q, i, x + y)
  <1>5. \A k \in 1..Len(q) : a[k] = b[k]
    <2>1. r[i] = q[i] + x
      BY <1>1
    <2>2. r[i] + y = q[i] + (x + y)
      BY <1>4, <2>1
    <2> HIDE DEF r, a, b
    <2> QED BY <1>1, <1>2, <1>3, <2>2 DEF r, a, b
  <1>6. a \in Seq(Int) /\ b \in Seq(Int) /\ Len(a) = Len(q) /\ Len(b) = Len(q)
    BY <1>2, <1>3
  <1> HIDE DEF r, a, b
  <1>7. a = b
    BY <1>5, <1>6, SeqEqual
  <1> QED BY <1>1, <1>7 DEF r, a, b

\* Raising the byte that was appended.
LEMMA RaisedLast ==
  ASSUME NEW q \in Seq(Int), NEW x \in Int, NEW y \in Int
  PROVE  Raise(Append(q, x), Len(q) + 1, y) = Append(q, x + y)
  <1>1. /\ Append(q, x) \in Seq(Int) /\ Len(Append(q, x)) = Len(q) + 1 /\ Len(q) \in Nat
        /\ \A k \in 1..Len(q) : Append(q, x)[k] = q[k]
        /\ Append(q, x)[Len(q) + 1] = x
    OBVIOUS
  <1>2. /\ Append(q, x + y) \in Seq(Int) /\ Len(Append(q, x + y)) = Len(q) + 1
        /\ \A k \in 1..Len(q) : Append(q, x + y)[k] = q[k]
        /\ Append(q, x + y)[Len(q) + 1] = x + y
    OBVIOUS
  <1> DEFINE r == Raise(Append(q, x), Len(q) + 1, y)
  <1>3. /\ r \in Seq(Int) /\ Len(r) = Len(q) + 1
        /\ \A k \in 1..(Len(q) + 1) : r[k] = IF k = Len(q) + 1 THEN Append(q, x)[Len(q) + 1] + y ELSE Append(q, x)[k]
    <2> DEFINE p == Append(q, x)
    <2>1. p \in Seq(Int) /\ Len(p) = Len(q) + 1 /\ Len(q) + 1 \in 1..Len(p) /\ p[Len(q) + 1] = x
      BY <1>1
    <2> HIDE DEF p
    <2>2. /\ Raise(p, Len(q) + 1, y) \in Seq(Int) /\ Len(Raise(p, Len(q) + 1, y)) = Len(p)
          /\ \A k \in 1..Len(p) : Raise(p, Len(q) + 1, y)[k] = IF k = Len(q) + 1 THEN p[Len(q) + 1] + y ELSE p[k]
      BY <2>1, RaisedOnce
    <2> QED BY <2>1, <2>2 DEF p
  <1> HIDE DEF r
  <1>4. \A k \in 1..(Len(q) + 1) : r[k] = Append(q, x + y)[k]
    BY <1>1, <1>2, <1>3
  <1>5. r = Append(q, x + y)
    BY <1>2, <1>3, <1>4, SeqEqual
  <1> QED BY <1>5 DEF r

\* Writing n + 1 bits is writing all but the last and then the last.
LEMMA BitByBit ==
  ASSUME NEW s, Sane(s), NEW n \in 1..3, NEW v \in 0..15
  PROVE  PutBits(s, v, n + 1) = PutBits(PutBits(s, v \div 2, n), v % 2, 1)
  <1> DEFINE h == s.shift
             t == PutBits(s, v \div 2, n)
             k == n - h
  <1>1. s \in Streams /\ h \in -1..6 /\ s.out \in Seq(Int) /\ s.at \in Nat /\ Len(s.out) \in Nat
    BY DEF Sane, Streams
  <1>2. h >= 0 => s.at \in 1..Len(s.out)
    BY DEF Sane
  <1>3. v \div 2 \in 0..15 /\ v % 2 \in 0..15 /\ n + 1 \in 1..4
    OBVIOUS
  <1>4. k \in -5..4 /\ n = k + h
    BY <1>1
  <1> HIDE DEF h, t, k
  <1>5. k = (n + 1) - (s.shift + 1) /\ k - 1 = n - (s.shift + 1) /\ s.shift = h
    BY <1>1 DEF k, h
  <1>6. CASE k <= 0
    <2> DEFINE m == -k
               x == (v \div 2) * Pow(m + 1)
               y == (v % 2) * Pow(m)
               q == Raise(s.out, s.at, x)
    <2>0. m \in 0..5 /\ m + 1 \in 0..6 /\ m = s.shift + 1 - (n + 1) /\ m + 1 = s.shift + 1 - n
      <3>1. h \in Int /\ s.shift = h
        BY <1>1 DEF h
      <3>2. m \in 0..5 /\ m + 1 \in 0..6
        BY <1>4, <1>6
      <3>3. m = h - n
        BY <1>4, <3>1
      <3> QED BY <3>1, <3>2, <3>3
    <2> HIDE DEF m
    <2>1. PutBits(s, v, n + 1) = Stream(Raise(s.out, s.at, v * Pow(m)), s.at, h - (n + 1))
      <3>1. m \in 0..6
        BY <2>0
      <3> QED BY <1>1, <1>3, <2>0, <3>1, PutBitsFits DEF h
    <2>2. t = Stream(q, s.at, h - n)
      <3> DEFINE j == m + 1
      <3>1. j \in 0..6 /\ j = s.shift + 1 - n /\ n \in 1..4
        BY <2>0
      <3> HIDE DEF j
      <3>2. t = Stream(Raise(s.out, s.at, (v \div 2) * Pow(j)), s.at, s.shift - n)
        BY <1>1, <1>3, <3>1, PutBitsFits DEF t
      <3> QED BY <3>2 DEF h, j
    <2>3. v * Pow(m) = x + y /\ x \in Int /\ y \in Int
      BY <2>0, HighPartOfBits DEF Pow
    <2>4. s.at \in 1..Len(s.out) /\ h - n \in 0..6
      BY <1>1, <1>2, <1>4, <1>6
    <2> HIDE DEF x
    <2>5. q \in Seq(Int) /\ Raise(q, s.at, y) = Raise(s.out, s.at, x + y)
      <3> HIDE DEF y
      <3> QED BY <1>1, <2>3, <2>4, Raised
    <2> HIDE DEF q
    <2>6. t \in Streams /\ t.out = q /\ t.at = s.at /\ t.shift = h - n
      BY <1>1, <2>2, <2>4, <2>5 DEF Streams, Stream
    <2>7. PutBits(t, v % 2, 1) = Stream(Raise(q, s.at, y), s.at, h - (n + 1))
      <3>1. m = t.shift + 1 - 1 /\ t.shift - 1 = h - (n + 1) /\ m \in 0..6 /\ 1 \in 1..4
        <4>1. m = h - n /\ h \in Int
          BY <1>1, <2>0 DEF h
        <4> QED BY <2>0, <2>6, <4>1
      <3>2. PutBits(t, v % 2, 1) = Stream(Raise(t.out, t.at, (v % 2) * Pow(m)), t.at, t.shift - 1)
        BY <1>3, <2>6, <3>1, PutBitsFits
      <3> QED BY <2>6, <3>1, <3>2
    <2> QED BY <2>1, <2>3, <2>5, <2>7 DEF t
  <1>7. CASE k = 1
    <2> DEFINE q == IF h = -1 THEN s.out ELSE Raise(s.out, s.at, v \div 2)
    <2>0. n = h + 1 /\ h >= 0 /\ k = (n + 1) - (s.shift + 1) /\ k \in 1..4
      <3>1. n = h + 1 /\ h >= 0
        BY <1>1, <1>4, <1>7
      <3> QED BY <1>5, <1>7, <3>1
    <2>1. PutBits(s, v, n + 1) = Stream(Append(q, (v % 2) * 128), Len(s.out) + 1, 6)
      <3>1. PutBits(s, v, n + 1) = Stream(Append(IF s.shift = -1 THEN s.out ELSE Raise(s.out, s.at, v \div Pow(k)),
                         (v % Pow(k)) * Pow(8 - k)), Len(s.out) + 1, 7 - k)
        BY <1>1, <1>3, <2>0, PutBitsOverflows
      <3>2. Pow(k) = 2 /\ Pow(8 - k) = 128 /\ 7 - k = 6
        BY <1>7 DEF Pow
      <3> QED BY <3>1, <3>2 DEF h
    <2>2. t = Stream(q, s.at, -1)
      <3>1. 0 = s.shift + 1 - n /\ 0 \in 0..6 /\ n \in 1..4 /\ h - n = -1
        BY <1>1, <1>5, <2>0
      <3>2. t = Stream(Raise(s.out, s.at, (v \div 2) * Pow(0)), s.at, s.shift - n)
        BY <1>1, <1>3, <3>1, PutBitsFits DEF t
      <3>3. (v \div 2) * Pow(0) = v \div 2
        BY DEF Pow
      <3> QED BY <2>0, <3>1, <3>2, <3>3 DEF h
    <2>3. q \in Seq(Int) /\ Len(q) = Len(s.out)
      <3>1. s.at \in 1..Len(s.out) /\ v \div 2 \in Int
        BY <1>2, <1>3, <2>0
      <3> QED BY <1>1, <2>0, <3>1, RaisedOnce
    <2> HIDE DEF q
    <2>4. t \in Streams /\ t.out = q /\ t.at = s.at /\ t.shift = -1
      BY <1>1, <2>2, <2>3 DEF Streams, Stream
    <2>5. PutBits(t, v % 2, 1) = Stream(Append(q, (v % 2) * 128), Len(s.out) + 1, 6)
      <3>1. 1 = 1 - (t.shift + 1) /\ 1 \in 1..4
        BY <2>4
      <3>2. PutBits(t, v % 2, 1) = Stream(Append(IF t.shift = -1 THEN t.out ELSE Raise(t.out, t.at, (v % 2) \div Pow(1)),
                         ((v % 2) % Pow(1)) * Pow(8 - 1)), Len(t.out) + 1, 7 - 1)
        BY <1>3, <2>4, <3>1, PutBitsOverflows
      <3>3. (v % 2) % Pow(1) = v % 2 /\ Pow(8 - 1) = 128 /\ 7 - 1 = 6
        BY DEF Pow
      <3> QED BY <2>3, <2>4, <3>2, <3>3
    <2> QED BY <2>1, <2>5 DEF t
  <1>8. CASE k >= 2
    <2> DEFINE j == k - 1
               q == IF h = -1 THEN s.out ELSE Raise(s.out, s.at, v \div Pow(k))
               x == ((v \div 2) % Pow(j)) * Pow(8 - j)
               y == (v % 2) * Pow(8 - k)
    <2>0. k \in 1..4 /\ k \in 2..4 /\ j \in 1..4 /\ k = (n + 1) - (s.shift + 1) /\ j = n - (s.shift + 1) /\ n \in 1..4
      BY <1>1, <1>4, <1>5, <1>8
    <2>1. PutBits(s, v, n + 1) = Stream(Append(q, (v % Pow(k)) * Pow(8 - k)), Len(s.out) + 1, 7 - k)
      <3>1. PutBits(s, v, n + 1) = Stream(Append(IF s.shift = -1 THEN s.out ELSE Raise(s.out, s.at, v \div Pow(k)),
                         (v % Pow(k)) * Pow(8 - k)), Len(s.out) + 1, 7 - k)
        <4>1. n + 1 \in 1..4 /\ k \in 1..4 /\ k = (n + 1) - (s.shift + 1)
          BY <1>3, <2>0
        <4> HIDE DEF j, q, x, y
        <4> QED BY <1>1, <4>1, PutBitsOverflows
      <3> QED BY <1>5, <3>1
    <2>2. (v \div 2) \div Pow(j) = v \div Pow(k) /\ x + y = (v % Pow(k)) * Pow(8 - k)
      <3>1. 9 - k = 8 - j
        BY <2>0
      <3> QED BY <2>0, <3>1, SplitBits
    <2>3. t = Stream(Append(q, x), Len(s.out) + 1, 7 - j)
      <3> HIDE DEF j
      <3>1. t = Stream(Append(IF s.shift = -1 THEN s.out ELSE Raise(s.out, s.at, (v \div 2) \div Pow(j)),
                         ((v \div 2) % Pow(j)) * Pow(8 - j)), Len(s.out) + 1, 7 - j)
        <4>1. j \in 1..4 /\ j = n - (s.shift + 1) /\ n \in 1..4
          BY <2>0 DEF j
        <4> QED BY <1>1, <1>3, <4>1, PutBitsOverflows DEF t
      <3> QED BY <1>5, <2>2, <3>1
    <2>4. q \in Seq(Int) /\ Len(q) = Len(s.out)
      <3>1. CASE h = -1
        BY <1>1, <3>1
      <3>2. CASE h >= 0
        <4>1. s.at \in 1..Len(s.out)
          BY <1>2, <3>2
        <4>2. v \div Pow(k) \in Int
          BY <2>0, PowType
        <4> QED BY <1>1, <4>1, <4>2, RaisedOnce
      <3> QED BY <1>1, <3>1, <3>2
    <2>5. x \in Int /\ y \in Int
      <3>1. Pow(8 - j) \in Int /\ Pow(8 - k) \in Int /\ Pow(j) \in Nat /\ Pow(j) > 0
        BY <2>0 DEF Pow
      <3> HIDE DEF j
      <3>2. (v \div 2) % Pow(j) \in Int
        BY <1>3, <3>1
      <3> QED BY <1>3, <3>1, <3>2
    <2>6. 7 - j = 8 - k /\ 8 - k \in 4..6
      BY <2>0
    <2> HIDE DEF q, x, j
    <2>7. t \in Streams /\ t.out = Append(q, x) /\ t.at = Len(s.out) + 1 /\ t.shift = 8 - k
      BY <1>1, <2>3, <2>4, <2>5, <2>6 DEF Streams, Stream
    <2>8. PutBits(t, v % 2, 1) = Stream(Raise(Append(q, x), Len(s.out) + 1, y), Len(s.out) + 1, 7 - k)
      <3> DEFINE i == 8 - k
      <3>1. i = t.shift + 1 - 1 /\ i \in 0..6 /\ 1 \in 1..4 /\ t.shift - 1 = 7 - k
        BY <2>0, <2>6, <2>7
      <3> HIDE DEF i
      <3>2. PutBits(t, v % 2, 1) = Stream(Raise(t.out, t.at, (v % 2) * Pow(i)), t.at, t.shift - 1)
        BY <1>3, <2>7, <3>1, PutBitsFits
      <3> QED BY <2>7, <3>1, <3>2 DEF i
    <2> HIDE DEF y
    <2>9. Raise(Append(q, x), Len(q) + 1, y) = Append(q, x + y)
      BY <2>4, <2>5, RaisedLast
    <2> QED BY <2>1, <2>2, <2>4, <2>8, <2>9 DEF t
  <1> QED BY <1>3, <1>4, <1>6, <1>7, <1>8

\* f continues the stream s: the bytes are the same, but for the free bits of the byte
\* that takes bits.
Begins(s, f) ==
  /\ Len(s.out) <= Len(f)
  /\ \A k \in 1..Len(s.out) :
       IF s.shift >= 0 /\ k = s.at THEN f[k] \div Pow(s.shift + 1) = s.out[k] \div Pow(s.shift + 1)
       ELSE f[k] = s.out[k]

\* The queue with the h + 1 lowest bits of b in it, and the sentinel.
Queued(b, h) == (b % Pow(h + 1)) * Pow(7 - h) + Pow(6 - h)

\* The decoder's queue when it has read all of s, a beginning of f.
Behind(s, f) ==
  [al |-> IF s.shift = -1 THEN 128 ELSE Queued(f[s.at], s.shift),
   si |-> Len(s.out) + 1]

\* The decoder, its queue being q, has read just what is in s.
At(q, s) == Sane(s) /\ Begins(s, src) /\ q = Behind(s, src)

\* A byte with its h + 1 lowest bits free.
LEMMA FreeBits ==
  ASSUME NEW h \in 0..6, NEW v \in 0..1, NEW o \in 0..255, o % Pow(h + 1) = 0
  PROVE  /\ o + v * Pow(h) \in 0..255 /\ (o + v * Pow(h)) % Pow(h) = 0
         /\ (o + v * Pow(h)) \div Pow(h + 1) = o \div Pow(h + 1)
  <1>0. h \in {0, 1, 2, 3, 4, 5, 6} /\ v \in {0, 1}
    OBVIOUS
  <1>1. CASE h = 0 BY <1>1 DEF Pow
  <1>2. CASE h = 1 BY <1>2 DEF Pow
  <1>3. CASE h = 2 BY <1>3 DEF Pow
  <1>4. CASE h = 3 BY <1>4 DEF Pow
  <1>5. CASE h = 4 BY <1>5 DEF Pow
  <1>6. CASE h = 5 BY <1>6 DEF Pow
  <1>7. CASE h = 6 BY <1>7 DEF Pow
  <1> QED BY <1>0, <1>1, <1>2, <1>3, <1>4, <1>5, <1>6, <1>7

\* The bit that was put into it, found again in the byte b it became.
LEMMA FoundBits ==
  ASSUME NEW h \in Nat, h <= 6, NEW v \in Nat, v <= 1, NEW o \in Nat, o <= 255, NEW b \in Nat, b <= 255,
         o % Pow(h + 1) = 0, b \div Pow(h) = (o + v * Pow(h)) \div Pow(h)
  PROVE  /\ b \div Pow(h + 1) = o \div Pow(h + 1)
         /\ Queued(b, h) \div 128 = v
         /\ (2 * Queued(b, h)) % 256 = IF h = 0 THEN 128 ELSE Queued(b, h - 1)
         /\ (2 * Queued(b, h)) % 256 # 0
  <1>0. h \in {0, 1, 2, 3, 4, 5, 6} /\ v \in {0, 1}
    OBVIOUS
  <1>1. CASE h = 0 BY <1>1 DEF Pow, Queued
  <1>2. CASE h = 1 BY <1>2 DEF Pow, Queued
  <1>3. CASE h = 2 BY <1>3 DEF Pow, Queued
  <1>4. CASE h = 3 BY <1>4 DEF Pow, Queued
  <1>5. CASE h = 4 BY <1>5 DEF Pow, Queued
  <1>6. CASE h = 5 BY <1>6 DEF Pow, Queued
  <1>7. CASE h = 6 BY <1>7 DEF Pow, Queued
  <1> QED BY <1>0, <1>1, <1>2, <1>3, <1>4, <1>5, <1>6, <1>7

\* The first bit of a byte.
LEMMA FirstBit ==
  ASSUME NEW v \in 0..1, NEW b \in 0..255, b \div Pow(7) = (v * 128) \div Pow(7)
  PROVE  /\ b \div 128 = v
         /\ (2 * b + 128 \div 128) % 256 = Queued(b, 6)
  BY DEF Pow, Queued

\* What one bit does to the stream.
LEMMA OneBit ==
  ASSUME NEW s, Sane(s), NEW v \in 0..1
  PROVE  LET t == PutBits(s, v, 1)
         IN  /\ s.shift = -1 => /\ t = Stream(Append(s.out, v * 128), Len(s.out) + 1, 6)
             /\ s.shift >= 0 => /\ t = Stream(Raise(s.out, s.at, v * Pow(s.shift)), s.at, s.shift - 1)
  <1>1. s \in Streams /\ s.shift \in -1..6 /\ s.out \in Seq(Int) /\ v \in 0..15 /\ 1 \in 1..4
    BY DEF Sane, Streams
  <1>2. CASE s.shift = -1
    <2>1. 1 \in 1..4 /\ 1 = 1 - (s.shift + 1)
      BY <1>2
    <2>2. PutBits(s, v, 1) = Stream(Append(IF s.shift = -1 THEN s.out ELSE Raise(s.out, s.at, v \div Pow(1)),
                         (v % Pow(1)) * Pow(8 - 1)), Len(s.out) + 1, 7 - 1)
      BY <1>1, <2>1, PutBitsOverflows
    <2>3. (v % Pow(1)) * Pow(8 - 1) = v * 128 /\ 7 - 1 = 6
      BY DEF Pow
    <2> QED BY <1>2, <2>2, <2>3
  <1>3. CASE s.shift >= 0
    <2> DEFINE h == s.shift
    <2>1. h \in 0..6 /\ h = s.shift + 1 - 1
      BY <1>1, <1>3
    <2> HIDE DEF h
    <2>2. PutBits(s, v, 1) = Stream(Raise(s.out, s.at, v * Pow(h)), s.at, s.shift - 1)
      BY <1>1, <2>1, PutBitsFits
    <2> QED BY <1>3, <2>2 DEF h
  <1> QED BY <1>2, <1>3

\* A bit more leaves the stream in order, and a stream that goes on from there goes on
\* from here.
LEMMA BitWritten ==
  ASSUME NEW s, Sane(s), NEW v \in 0..1
  PROVE  /\ Sane(PutBits(s, v, 1))
         /\ \A f \in Seq(0..255) : Begins(PutBits(s, v, 1), f) => Begins(s, f)
  <1> DEFINE h == s.shift
             t == PutBits(s, v, 1)
  <1>1. /\ s \in Streams /\ h \in -1..6 /\ s.out \in Seq(0..255) /\ s.out \in Seq(Int) /\ Len(s.out) \in Nat
        /\ s.at \in Nat /\ (h >= 0 => s.at \in 1..Len(s.out) /\ s.out[s.at] % Pow(h + 1) = 0)
    BY DEF Sane, Streams
  <1>2. \A k \in 1..Len(s.out) : s.out[k] \in 0..255
    BY <1>1, ElementOfSeq
  <1>3. CASE h = -1
    <2> DEFINE q == Append(s.out, v * 128)
    <2>1. t = Stream(q, Len(s.out) + 1, 6)
      BY <1>3, OneBit
    <2>2. v * 128 \in 0..255
      OBVIOUS
    <2>3. /\ q \in Seq(0..255) /\ q \in Seq(Int) /\ Len(q) = Len(s.out) + 1
          /\ \A k \in 1..Len(s.out) : q[k] = s.out[k]
          /\ q[Len(s.out) + 1] = v * 128
      BY <1>1, <2>2
    <2> HIDE DEF q, t, h
    <2>4. t.out = q /\ t.at = Len(s.out) + 1 /\ t.shift = 6
      BY <2>1 DEF Stream
    <2>5. Sane(t)
      <3>1. t \in Streams
        BY <1>1, <2>1, <2>3 DEF Streams, Stream
      <3>2. (v * 128) % Pow(6 + 1) = 0
        BY DEF Pow
      <3> QED BY <1>1, <2>3, <2>4, <3>1, <3>2 DEF Sane
    <2>6. ASSUME NEW f \in Seq(0..255), Begins(t, f)
          PROVE  Begins(s, f)
      <3>1. Len(s.out) <= Len(f) /\ \A k \in 1..Len(s.out) : f[k] = s.out[k]
        <4>1. Len(q) <= Len(f) /\ \A k \in 1..Len(q) : k # Len(s.out) + 1 => f[k] = q[k]
          BY <2>4, <2>6 DEF Begins
        <4>2. Len(f) \in Nat
          BY LenProperties
        <4>3. Len(s.out) <= Len(f)
          BY <1>1, <2>3, <4>1, <4>2
        <4>4. ASSUME NEW k \in 1..Len(s.out)
              PROVE  f[k] = s.out[k]
          <5>1. k \in 1..Len(q) /\ k # Len(s.out) + 1
            BY <1>1, <2>3
          <5> QED BY <2>3, <4>1, <5>1
        <4> QED BY <4>3, <4>4
      <3> QED BY <1>3, <3>1 DEF Begins, h
    <2> QED BY <2>5, <2>6 DEF t
  <1>4. CASE h \in 0..6
    <2> DEFINE q == Raise(s.out, s.at, v * Pow(h))
               o == s.out[s.at]
    <2>1. t = Stream(q, s.at, h - 1)
      BY <1>4, OneBit
    <2>2. o \in 0..255 /\ o % Pow(h + 1) = 0 /\ s.at \in 1..Len(s.out)
      BY <1>1, <1>2, <1>4
    <2> HIDE DEF h
    <2>3. /\ o + v * Pow(h) \in 0..255 /\ (o + v * Pow(h)) % Pow(h) = 0
      <3> HIDE DEF o
      <3> QED BY <1>4, <2>2, FreeBits
    <2>4. v * Pow(h) \in Int
      BY <1>4, PowType
    <2>5. /\ q \in Seq(Int) /\ Len(q) = Len(s.out)
          /\ \A k \in 1..Len(s.out) : q[k] = IF k = s.at THEN o + v * Pow(h) ELSE s.out[k]
      BY <1>1, <2>2, <2>4, RaisedOnce
    <2> HIDE DEF q, t, o
    <2>6. q \in Seq(0..255)
      <3> DEFINE n == Len(s.out)
      <3>1. ASSUME NEW k \in 1..n
            PROVE  q[k] \in 0..255
        <4>1. CASE k = s.at
          BY <2>3, <2>5, <4>1
        <4>2. CASE k # s.at
          BY <1>2, <2>5, <4>2
        <4> QED BY <4>1, <4>2
      <3>2. n \in Nat /\ q \in [1..n -> Int]
        BY <1>1, <2>5, LenProperties
      <3> HIDE DEF n
      <3>3. q \in [1..n -> 0..255]
        BY <3>1, <3>2
      <3> QED BY <3>2, <3>3
    <2>7. t.out = q /\ t.at = s.at /\ t.shift = h - 1
      BY <2>1 DEF Stream
    <2>8. Sane(t)
      <3>1. t \in Streams
        BY <1>1, <1>4, <2>1, <2>5 DEF Streams, Stream
      <3>2. q[s.at] % Pow(h - 1 + 1) = 0
        <4>1. h - 1 + 1 = h
          BY <1>4
        <4> QED BY <2>2, <2>3, <2>5, <4>1
      <3> QED BY <2>2, <2>5, <2>6, <2>7, <3>1, <3>2 DEF Sane
    <2>9. ASSUME NEW f \in Seq(0..255), Begins(t, f)
          PROVE  Begins(s, f)
      <3>1. Len(s.out) <= Len(f)
        BY <2>5, <2>7, <2>9 DEF Begins
      <3>2. ASSUME NEW k \in 1..Len(s.out), k # s.at
            PROVE  f[k] = s.out[k]
        BY <2>5, <2>7, <2>9, <3>2 DEF Begins
      <3>3. f[s.at] \div Pow(h) = (o + v * Pow(h)) \div Pow(h)
        <4>1. CASE h = 0
          <5>1. f[s.at] = o + v * Pow(h)
            BY <1>4, <2>2, <2>5, <2>7, <2>9, <4>1 DEF Begins
          <5> QED BY <5>1
        <4>2. CASE h > 0
          <5>1. h - 1 >= 0 /\ h - 1 + 1 = h
            BY <1>4, <4>2
          <5> QED BY <2>2, <2>5, <2>7, <2>9, <5>1 DEF Begins
        <4> QED BY <1>4, <4>1, <4>2
      <3>4. f[s.at] \in 0..255
        <4>1. s.at \in 1..Len(f)
          BY <1>1, <2>2, <3>1, LenProperties
        <4> QED BY <4>1, ElementOfSeq
      <3>5. f[s.at] \div Pow(h + 1) = o \div Pow(h + 1)
        <4> DEFINE b == f[s.at]
        <4>1. b \in 0..255 /\ b \div Pow(h) = (o + v * Pow(h)) \div Pow(h)
          BY <3>3, <3>4
        <4> HIDE DEF b
        <4>2. b \div Pow(h + 1) = o \div Pow(h + 1)
          <5>1. h \in Nat /\ h <= 6 /\ v \in Nat /\ v <= 1 /\ o \in Nat /\ o <= 255 /\ b \in Nat /\ b <= 255
            BY <1>4, <2>2, <4>1
          <5> QED BY <2>2, <4>1, <5>1, FoundBits
        <4> QED BY <4>2 DEF b
      <3>6. s.shift = h /\ s.out[s.at] = o
        BY DEF h, o
      <3>7. ASSUME NEW k \in 1..Len(s.out)
            PROVE  IF s.shift >= 0 /\ k = s.at THEN f[k] \div Pow(s.shift + 1) = s.out[k] \div Pow(s.shift + 1)
                   ELSE f[k] = s.out[k]
        <4>1. CASE k = s.at
          <5>1. f[k] \div Pow(s.shift + 1) = s.out[k] \div Pow(s.shift + 1)
            BY <3>5, <3>6, <4>1
          <5>2. s.shift >= 0
            BY <1>4, <3>6
          <5> QED BY <4>1, <5>1, <5>2
        <4>2. CASE k # s.at
          BY <3>2, <4>2
        <4> QED BY <4>1, <4>2
      <3> QED BY <3>1, <3>7 DEF Begins
    <2> QED BY <2>8, <2>9 DEF t
  <1> QED BY <1>1, <1>3, <1>4

\* The decoder takes the bit that was put.
LEMMA BitRead ==
  ASSUME src \in Seq(0..255), NEW s, NEW v \in 0..1, NEW q, At(q, s), Begins(PutBits(s, v, 1), src)
  PROVE  TakeBit(q).bit = v /\ At(Queue(TakeBit(q)), PutBits(s, v, 1))
  <1> DEFINE h == s.shift
             t == PutBits(s, v, 1)
             b == TakeBit(q)
  <1>1. /\ Sane(s) /\ h \in -1..6 /\ Len(s.out) \in Nat /\ s.out \in Seq(0..255) /\ s.out \in Seq(Int)
        /\ (h >= 0 => s.at \in 1..Len(s.out) /\ s.out[s.at] % Pow(h + 1) = 0)
    BY DEF At, Sane, Streams
  <1>2. \A k \in 1..Len(s.out) : s.out[k] \in 0..255
    BY <1>1, ElementOfSeq
  <1>3. Sane(t) /\ Begins(s, src)
    BY <1>1, BitWritten
  <1>4. q = Behind(s, src)
    BY DEF At
  <1>5. Len(src) \in Nat /\ Len(s.out) <= Len(src) /\ DOMAIN src = 1..Len(src)
    BY <1>3, LenProperties DEF Begins
  <1>6. CASE h = -1
    <2> DEFINE n == Len(s.out) + 1
               l == SrcByte(n)
    <2>1. t.out = Append(s.out, v * 128) /\ t.at = n /\ t.shift = 6
      BY <1>1, <1>6, OneBit DEF Stream
    <2>2. Len(t.out) = n /\ t.out[n] = v * 128
      BY <1>1, <2>1
    <2> HIDE DEF t
    <2>3. n \in 1..Len(src) /\ src[n] \div Pow(6 + 1) = (v * 128) \div Pow(6 + 1)
      <3>1. n <= Len(src)
        BY <2>2 DEF Begins, t
      <3>2. n \in 1..Len(src) /\ n \in 1..Len(t.out)
        BY <1>1, <1>5, <2>2, <3>1
      <3> HIDE DEF n
      <3> QED BY <2>1, <2>2, <3>2 DEF Begins, t
    <2>4. l = src[n] /\ l \in 0..255
      BY <1>5, <2>3, ElementOfSeq DEF SrcByte
    <2>5. /\ l \div 128 = v
          /\ (2 * l + 128 \div 128) % 256 = Queued(l, 6)
      <3> HIDE DEF l
      <3>1. l \div Pow(7) = (v * 128) \div Pow(7)
        BY <2>3, <2>4
      <3> QED BY <2>4, <3>1, FirstBit
    <2>6. q.al = 128 /\ q.si = n
      BY <1>4, <1>6 DEF Behind
    <2>7. b = [bit |-> l \div 128, al |-> (2 * l + 128 \div 128) % 256, si |-> n + 1]
      BY <2>6 DEF TakeBit
    <2>8. Queue(b) = Behind(t, src)
      <3> HIDE DEF l, n
      <3>1. Behind(t, src) = [al |-> Queued(l, 6), si |-> n + 1]
        BY <2>1, <2>2, <2>4 DEF Behind
      <3> QED BY <2>5, <2>7, <3>1 DEF Queue
    <2> QED BY <1>3, <2>5, <2>7, <2>8 DEF At, t
  <1>7. CASE h \in 0..6
    <2> DEFINE o == s.out[s.at]
               y == src[s.at]
               al == Queued(y, h)
    <2>1. o \in 0..255 /\ o % Pow(h + 1) = 0 /\ s.at \in 1..Len(s.out)
      <3>1. h >= 0
        BY <1>7
      <3>2. s.at \in 1..Len(s.out) /\ o % Pow(h + 1) = 0
        BY <1>1, <3>1
      <3>3. o \in 0..255
        BY <1>2, <3>2
      <3> QED BY <3>2, <3>3
    <2>2. t = Stream(Raise(s.out, s.at, v * Pow(h)), s.at, h - 1)
      BY <1>1, <1>7, OneBit
    <2>3. v * Pow(h) \in Int
      BY <1>7, PowType
    <2>4. /\ Len(Raise(s.out, s.at, v * Pow(h))) = Len(s.out)
          /\ Raise(s.out, s.at, v * Pow(h))[s.at] = o + v * Pow(h)
      BY <1>1, <2>1, <2>3, RaisedOnce
    <2> HIDE DEF t, h
    <2>5. t.at = s.at /\ t.shift = h - 1 /\ Len(t.out) = Len(s.out) /\ t.out[s.at] = o + v * Pow(h)
      BY <2>2, <2>4 DEF Stream
    <2>6. y \in 0..255
      <3>1. s.at \in 1..Len(src)
        BY <1>5, <2>1, <1>1
      <3> QED BY <3>1, ElementOfSeq
    <2>7. y \div Pow(h) = (o + v * Pow(h)) \div Pow(h)
      <3>1. CASE h = 0
        <4>1. y = o + v * Pow(h)
          BY <1>7, <2>1, <2>5, <3>1 DEF Begins, t
        <4> QED BY <4>1
      <3>2. CASE h > 0
        <4>1. h - 1 >= 0 /\ h - 1 + 1 = h
          BY <1>7, <3>2
        <4> QED BY <2>1, <2>5, <4>1 DEF Begins, t
      <3> QED BY <1>7, <3>1, <3>2
    <2>8. /\ al \div 128 = v
          /\ (2 * al) % 256 = IF h = 0 THEN 128 ELSE Queued(y, h - 1)
          /\ (2 * al) % 256 # 0
      <3> HIDE DEF o, y
      <3>1. h \in Nat /\ h <= 6 /\ v \in Nat /\ v <= 1 /\ o \in Nat /\ o <= 255 /\ y \in Nat /\ y <= 255
        BY <1>7, <2>1, <2>6
      <3> QED BY <2>1, <2>7, <3>1, FoundBits
    <2>9. q.al = al /\ q.si = Len(s.out) + 1
      BY <1>4, <1>7 DEF Behind, h
    <2> HIDE DEF al
    <2>10. b = [bit |-> v, al |-> (2 * al) % 256, si |-> Len(s.out) + 1]
      BY <2>8, <2>9 DEF TakeBit
    <2>11. Behind(t, src) = [al |-> IF h = 0 THEN 128 ELSE Queued(y, h - 1),
                             si |-> Len(s.out) + 1]
      <3>1. h - 1 = -1 <=> h = 0
        BY <1>7
      <3>2. h - 1 + 1 = h
        BY <1>7
      <3> QED BY <2>5, <3>1, <3>2 DEF Behind
    <2>12. Queue(b) = Behind(t, src)
      BY <2>8, <2>10, <2>11 DEF Queue
    <2> QED BY <1>3, <2>10, <2>12 DEF At, t
  <1> QED BY <1>1, <1>6, <1>7

\* Going on from s to t keeps the stream in order, and what begins with t begins with s.
Onward(s, t) == Sane(t) /\ \A f \in Seq(0..255) : Begins(t, f) => Begins(s, f)

LEMMA OnwardTwice ==
  ASSUME NEW s, NEW t, NEW u, Onward(s, t), Onward(t, u)
  PROVE  Onward(s, u)
  BY DEF Onward

LEMMA OnwardBit ==
  ASSUME NEW s, Sane(s), NEW v \in 0..1
  PROVE  Onward(s, PutBits(s, v, 1))
  BY BitWritten DEF Onward

\* The three and the four bits of the codes, one after the other.
LEMMA TwoBits ==
  ASSUME NEW s, Sane(s), NEW v \in 0..15
  PROVE  PutBits(s, v, 2) = PutBits(PutBits(s, v \div 2, 1), v % 2, 1)
  <1>1. 1 \in 1..3 /\ 1 + 1 = 2
    OBVIOUS
  <1> QED BY <1>1, BitByBit

LEMMA ThreeBits ==
  ASSUME NEW s, Sane(s), NEW v \in 0..15
  PROVE  PutBits(s, v, 3) = PutBits(PutBits(s, v \div 2, 2), v % 2, 1)
  <1>1. 2 \in 1..3 /\ 2 + 1 = 3
    OBVIOUS
  <1> QED BY <1>1, BitByBit

LEMMA FourBits ==
  ASSUME NEW s, Sane(s), NEW v \in 0..15
  PROVE  PutBits(s, v, 4) = PutBits(PutBits(s, v \div 2, 3), v % 2, 1)
  <1>1. 3 \in 1..3 /\ 3 + 1 = 4
    OBVIOUS
  <1> QED BY <1>1, BitByBit

LEMMA OnwardBits ==
  ASSUME NEW s, Sane(s), NEW v \in 0..15
  PROVE  /\ v <= 3 => Onward(s, PutBits(s, v, 2))
         /\ v <= 7 => Onward(s, PutBits(s, v, 3))
         /\ Onward(s, PutBits(s, v, 4))
  <1>1. ASSUME NEW a \in 0..15, a <= 3
        PROVE  Onward(s, PutBits(s, a, 2))
    <2>1. a \div 2 \in 0..1 /\ a % 2 \in 0..1
      BY <1>1
    <2>2. Onward(s, PutBits(s, a \div 2, 1))
      BY <2>1, OnwardBit
    <2>3. Onward(PutBits(s, a \div 2, 1), PutBits(PutBits(s, a \div 2, 1), a % 2, 1))
      BY <2>1, <2>2, OnwardBit DEF Onward
    <2> QED BY <2>2, <2>3, TwoBits, OnwardTwice
  <1>2. ASSUME NEW a \in 0..15, a <= 7
        PROVE  Onward(s, PutBits(s, a, 3))
    <2>1. a \div 2 \in 0..15 /\ a \div 2 <= 3 /\ a % 2 \in 0..1
      BY <1>2
    <2>2. Onward(s, PutBits(s, a \div 2, 2))
      BY <1>1, <2>1
    <2>3. Onward(PutBits(s, a \div 2, 2), PutBits(PutBits(s, a \div 2, 2), a % 2, 1))
      BY <2>1, <2>2, OnwardBit DEF Onward
    <2> QED BY <2>2, <2>3, ThreeBits, OnwardTwice
  <1>3. Onward(s, PutBits(s, v, 4))
    <2>1. v \div 2 \in 0..15 /\ v \div 2 <= 7 /\ v % 2 \in 0..1
      OBVIOUS
    <2>2. Onward(s, PutBits(s, v \div 2, 3))
      BY <1>2, <2>1
    <2>3. Onward(PutBits(s, v \div 2, 3), PutBits(PutBits(s, v \div 2, 3), v % 2, 1))
      BY <2>1, <2>2, OnwardBit DEF Onward
    <2> QED BY <2>2, <2>3, FourBits, OnwardTwice
  <1> QED BY <1>1, <1>2, <1>3

\* A byte put behind, and the decoder's read pointer moved over it.
Skip(q) == [al |-> q.al, si |-> q.si + 1]

LEMMA PutIs ==
  ASSUME NEW s \in Streams, NEW b \in Int
  PROVE  Put(s, b) = Stream(Append(s.out, b), s.at, s.shift)
  <1> DEFINE z == Append(s.out, b)
  <1>1. Put(s, b) = [s EXCEPT !.out = z]
    BY DEF Put
  <1> HIDE DEF z
  <1>2. [s EXCEPT !.out = z] = Stream(z, s.at, s.shift)
    BY DEF Stream, Streams
  <1> QED BY <1>1, <1>2 DEF z

LEMMA OnwardByte ==
  ASSUME NEW s, Sane(s), NEW b \in 0..255
  PROVE  Onward(s, Put(s, b))
  <1> DEFINE q == s.out
             n == Len(q)
             z == Append(q, b)
             t == Put(s, b)
  <1>1. /\ s \in Streams /\ q \in Seq(0..255) /\ n \in Nat /\ s.at \in Nat /\ s.shift \in -1..6
        /\ (s.shift >= 0 => s.at \in 1..n /\ q[s.at] % Pow(s.shift + 1) = 0)
    BY DEF Sane, Streams
  <1>2. t.out = z /\ t.at = s.at /\ t.shift = s.shift /\ t \in [out : {z}, at : {s.at}, shift : {s.shift}]
    <2>1. b \in Int
      OBVIOUS
    <2> QED BY <1>1, <2>1, PutIs DEF Stream
  <1>3. z \in Seq(0..255) /\ Len(z) = n + 1 /\ \A k \in 1..n : z[k] = q[k]
    BY <1>1
  <1>30. z \in Seq(Int)
    <2>1. q \in Seq(Int) /\ b \in Int
      BY <1>1 DEF Streams
    <2> HIDE DEF q
    <2> QED BY <2>1
  <1> HIDE DEF z, t
  <1>4. Sane(t)
    <2>1. t \in Streams
      BY <1>1, <1>2, <1>30 DEF Streams
    <2>2. s.shift >= 0 => s.at \in 1..(n + 1) /\ z[s.at] % Pow(s.shift + 1) = 0
      BY <1>1, <1>3
    <2> QED BY <1>2, <1>3, <2>1, <2>2 DEF Sane
  <1>5. ASSUME NEW f \in Seq(0..255), Begins(t, f)
        PROVE  Begins(s, f)
    <2>1. Len(f) \in Nat /\ n + 1 <= Len(f)
      BY <1>2, <1>3, <1>5, LenProperties DEF Begins
    <2>2. ASSUME NEW k \in 1..n
          PROVE  IF s.shift >= 0 /\ k = s.at THEN f[k] \div Pow(s.shift + 1) = q[k] \div Pow(s.shift + 1)
                 ELSE f[k] = q[k]
      <3>1. k \in 1..(n + 1) /\ z[k] = q[k]
        BY <1>1, <1>3
      <3> QED BY <1>2, <1>3, <1>5, <3>1 DEF Begins
    <2>3. n <= Len(f)
      BY <1>1, <2>1
    <2> QED BY <2>2, <2>3 DEF Begins
  <1> QED BY <1>4, <1>5 DEF Onward, t

\* The decoder finds the byte and moves over it.
LEMMA ByteRead ==
  ASSUME src \in Seq(0..255), NEW s, NEW b \in 0..255, NEW q, At(q, s), Begins(Put(s, b), src)
  PROVE  SrcByte(q.si) = b /\ At(Skip(q), Put(s, b))
  <1> DEFINE n == Len(s.out)
             z == Append(s.out, b)
             t == Put(s, b)
  <1>1. /\ Sane(s) /\ s \in Streams /\ s.out \in Seq(0..255) /\ n \in Nat /\ q = Behind(s, src)
        /\ s.at \in Nat /\ s.shift \in -1..6 /\ (s.shift >= 0 => s.at \in 1..n)
    BY DEF At, Sane, Streams
  <1>2. t.out = z /\ t.at = s.at /\ t.shift = s.shift
    <2>1. b \in Int
      OBVIOUS
    <2> QED BY <1>1, <2>1, PutIs DEF Stream
  <1>3. Len(z) = n + 1 /\ z[n + 1] = b
    BY <1>1
  <1>4. Onward(s, t)
    BY <1>1, OnwardByte
  <1> HIDE DEF z, t, n
  <1>5. n + 1 \in 1..Len(src) /\ src[n + 1] = b
    <2>1. n + 1 <= Len(src)
      BY <1>2, <1>3 DEF Begins, t
    <2>2. n + 1 \in 1..(n + 1) /\ ~(t.shift >= 0 /\ n + 1 = t.at)
      BY <1>1, <1>2
    <2>3. src[n + 1] = b
      BY <1>2, <1>3, <2>2 DEF Begins, t
    <2>4. Len(src) \in Nat
      BY LenProperties
    <2> QED BY <1>1, <2>1, <2>3, <2>4
  <1>6. q.si = n + 1 /\ Behind(t, src) = Skip(q)
    BY <1>1, <1>2, <1>3 DEF Behind, Skip, n
  <1>7. SrcByte(q.si) = b
    BY <1>5, <1>6 DEF SrcByte
  <1> QED BY <1>4, <1>6, <1>7 DEF At, Onward, t

\* Two bits read one after the other.
LEMMA BitsRead ==
  ASSUME src \in Seq(0..255), NEW s, NEW a \in 0..1, NEW c \in 0..1, NEW q, At(q, s),
         Begins(PutBits(s, 2 * a + c, 2), src)
  PROVE  LET t == TakeBit(q)
             u == TakeBit(Queue(t))
         IN  t.bit = a /\ u.bit = c /\ At(Queue(u), PutBits(s, 2 * a + c, 2))
  <1> DEFINE v == 2 * a + c
             t == TakeBit(q)
             u == TakeBit(Queue(t))
             x == PutBits(s, a, 1)
             y == PutBits(x, c, 1)
  <1>1. v \in 0..15 /\ v \div 2 = a /\ v % 2 = c
    OBVIOUS
  <1>2. Sane(s)
    BY DEF At
  <1> HIDE DEF v
  <1>3. PutBits(s, v, 2) = y
    BY <1>1, <1>2, TwoBits
  <1>4. Onward(s, x)
    BY <1>2, OnwardBit
  <1> HIDE DEF x
  <1>5. Onward(x, y)
    BY <1>4, OnwardBit DEF Onward
  <1>6. Begins(y, src) /\ Begins(x, src)
    BY <1>3, <1>5 DEF Onward, v
  <1> HIDE DEF t
  <1>7. t.bit = a /\ At(Queue(t), x)
    BY <1>6, BitRead DEF t, x
  <1>8. u.bit = c /\ At(Queue(u), y)
    BY <1>6, <1>7, BitRead
  <1> QED BY <1>3, <1>7, <1>8 DEF t, v

----------------------------------------------------------------------------
(* Gamma numbers.                                                          *)

\* A gamma number: its streams turn by turn, up to k.
Turn(A, s, m) == IF m = 1 THEN s ELSE PutBits(A[m \div 2], 2 * (m % 2) + 1, 2)
Reaches(A, s, k) == A = [m \in 1..k |-> Turn(A, s, m)]

LEMMA Halves ==
  ASSUME NEW m \in Nat, m >= 2
  PROVE  m \div 2 \in 1..(m - 1) /\ m % 2 \in 0..1 /\ m = 2 * (m \div 2) + (m % 2)
  <1>1. m \div 2 \in Nat /\ m % 2 \in 0..1 /\ m = 2 * (m \div 2) + (m % 2)
    OBVIOUS
  <1> QED BY <1>1

\* A recursive function on numbers that each turn derives from a smaller one: it exists.
LEMMA TurnsExist ==
  ASSUME NEW s, NEW n \in Nat, n >= 1
  PROVE  \E A : Reaches(A, s, n)
  <1> DEFINE T == {k \in Nat : k >= 1 /\ ~ \E A : Reaches(A, s, k)}
  <1> SUFFICES ASSUME T # {} PROVE FALSE
    OBVIOUS
  <1>1. PICK k \in T : \A y \in T : k <= y
    <2>1. T \in SUBSET Nat
      OBVIOUS
    <2> HIDE DEF T
    <2> QED BY <2>1, LeastOf
  <1>2. CASE k = 1
    <2> DEFINE A == [m \in 1..1 |-> s]
    <2>1. Reaches(A, s, 1)
      BY DEF Reaches, Turn
    <2> QED BY <1>1, <1>2, <2>1
  <1>3. CASE k >= 2
    <2> DEFINE j == k - 1
    <2>1. j \in Nat /\ j >= 1 /\ j \notin T /\ k = j + 1
      BY <1>1, <1>3
    <2>2. PICK A : Reaches(A, s, j)
      BY <2>1
    <2> DEFINE B == [m \in 1..k |-> IF m = k THEN PutBits(A[k \div 2], 2 * (k % 2) + 1, 2) ELSE A[m]]
    <2> HIDE DEF j
    <2>3. ASSUME NEW m \in 1..k
          PROVE  B[m] = Turn(B, s, m)
      <3>1. CASE m = k
        <4>1. k \div 2 \in 1..k /\ k \div 2 # k
          BY <1>3, Halves
        <4>2. B[k \div 2] = A[k \div 2]
          BY <4>1
        <4>3. B[m] = PutBits(B[k \div 2], 2 * (k % 2) + 1, 2)
          BY <3>1, <4>2
        <4> HIDE DEF B
        <4> QED BY <1>3, <3>1, <4>3 DEF Turn
      <3>2. CASE m # k
        <4>1. m \in 1..j
          BY <2>1, <3>2
        <4>2. A[m] = Turn(A, s, m)
          BY <2>2, <4>1 DEF Reaches
        <4>3. m # 1 => B[m \div 2] = A[m \div 2]
          <5>1. m # 1 => m \div 2 \in 1..k /\ m \div 2 # k
            BY <3>2, <4>1, Halves
          <5> QED BY <5>1
        <4>4. B[m] = A[m]
          BY <3>2
        <4> HIDE DEF B
        <4> QED BY <4>2, <4>3, <4>4 DEF Turn
      <3> QED BY <3>1, <3>2
    <2>4. B = [m \in 1..k |-> Turn(B, s, m)]
      <3>1. B = [m \in 1..k |-> B[m]]
        OBVIOUS
      <3> HIDE DEF B
      <3> QED BY <2>3, <3>1
    <2> QED BY <1>1, <2>4 DEF Reaches
  <1> QED BY <1>1, <1>2, <1>3

LEMMA GammaIs ==
  ASSUME NEW s, NEW n \in Nat, n >= 2
  PROVE  \E A : Reaches(A, s, n) /\ PutGamma(s, n) = PutBits(A[n \div 2], 2 * (n % 2), 2)
  <1> DEFINE A == CHOOSE f : f = [m \in 1..n |-> IF m = 1 THEN s ELSE PutBits(f[m \div 2], 2 * (m % 2) + 1, 2)]
  <1>1. \E f : f = [m \in 1..n |-> IF m = 1 THEN s ELSE PutBits(f[m \div 2], 2 * (m % 2) + 1, 2)]
    <2>1. PICK f : Reaches(f, s, n)
      BY TurnsExist
    <2> QED BY <2>1, Zenon DEF Reaches, Turn
  <1>2. A = [m \in 1..n |-> IF m = 1 THEN s ELSE PutBits(A[m \div 2], 2 * (m % 2) + 1, 2)]
    BY <1>1, Zenon
  <1>3. PutGamma(s, n) = PutBits(A[n \div 2], 2 * (n % 2), 2)
    BY DEF PutGamma
  <1> HIDE DEF A
  <1> QED BY <1>2, <1>3 DEF Reaches, Turn

\* Every turn goes on from the first stream, and so does the number as a whole.
LEMMA TurnsOnward ==
  ASSUME NEW s, Sane(s), NEW n \in Nat, NEW A, Reaches(A, s, n)
  PROVE  \A m \in 1..n : Onward(s, A[m])
  <1> DEFINE T == {k \in 1..n : ~Onward(s, A[k])}
  <1> SUFFICES ASSUME T # {} PROVE FALSE
    OBVIOUS
  <1>1. PICK k \in T : \A y \in T : k <= y
    <2>1. T \in SUBSET Nat
      OBVIOUS
    <2> HIDE DEF T
    <2> QED BY <2>1, LeastOf
  <1>2. k \in 1..n /\ A[k] = Turn(A, s, k) /\ ~Onward(s, A[k])
    BY <1>1 DEF Reaches
  <1>3. k # 1
    BY <1>2 DEF Turn, Onward
  <1> DEFINE j == k \div 2
             v == 2 * (k % 2) + 1
  <1>4. j \in 1..n /\ j < k /\ v \in 0..15 /\ v <= 3
    BY <1>2, <1>3, Halves
  <1>5. A[k] = PutBits(A[j], v, 2)
    BY <1>2, <1>3 DEF Turn
  <1>6. Onward(s, A[j])
    <2> HIDE DEF j
    <2> QED BY <1>1, <1>4
  <1> HIDE DEF j, v, T
  <1>7. Onward(A[j], A[k])
    BY <1>4, <1>5, <1>6, OnwardBits DEF Onward
  <1> QED BY <1>2, <1>6, <1>7, OnwardTwice

LEMMA OnwardGamma ==
  ASSUME NEW s, Sane(s), NEW n \in Nat, n >= 2
  PROVE  Onward(s, PutGamma(s, n))
  <1>1. PICK A : Reaches(A, s, n) /\ PutGamma(s, n) = PutBits(A[n \div 2], 2 * (n % 2), 2)
    BY GammaIs
  <1> DEFINE j == n \div 2
             v == 2 * (n % 2)
  <1>2. j \in 1..n /\ v \in 0..15 /\ v <= 3
    BY Halves
  <1> HIDE DEF j, v
  <1>3. Onward(s, A[j])
    BY <1>1, <1>2, TurnsOnward
  <1>4. Onward(A[j], PutBits(A[j], v, 2))
    BY <1>2, <1>3, OnwardBits DEF Onward
  <1> QED BY <1>1, <1>3, <1>4, OnwardTwice DEF j, v

\* The decoder within a gamma number n, whose stream ends as t: it has read c, one of the
\* numbers that the bits of n make from the top on.
Turns(A, C, n, t) ==
  /\ C \subseteq 1..(n \div 2)
  /\ \A m \in C : /\ Sane(A[m]) /\ Begins(A[m], src)
                  /\ \/ m = n \div 2 /\ t = PutBits(A[m], 2 * (n % 2), 2)
                     \/ \E k \in C : k \div 2 = m /\ A[k] = PutBits(A[m], 2 * (k % 2) + 1, 2)
InGamma(q, c, n, t) ==
  Begins(t, src) /\ \E A, C : Turns(A, C, n, t) /\ c \in C /\ At(q, A[c])

\* The numbers read on the way to k.
OnTheWay(A, C, k) ==
  /\ C \subseteq 1..k /\ 1 \in C /\ k \in C
  /\ \A m \in C : /\ Begins(A[m], src)
                  /\ m = k \/ \E j \in C : j \div 2 = m /\ A[j] = PutBits(A[m], 2 * (j % 2) + 1, 2)

\* From any turn back to the first: halving ends at 1.
LEMMA WaysExist ==
  ASSUME src \in Seq(0..255), NEW s, Sane(s), NEW n \in Nat, NEW A, Reaches(A, s, n), NEW c \in 1..n, Begins(A[c], src)
  PROVE  \E C : OnTheWay(A, C, c)
  <1> DEFINE T == {k \in 1..n : Begins(A[k], src) /\ ~ \E C : OnTheWay(A, C, k)}
  <1> SUFFICES ASSUME T # {} PROVE FALSE
    OBVIOUS
  <1>1. PICK k \in T : \A y \in T : k <= y
    <2>1. T \in SUBSET Nat
      OBVIOUS
    <2> HIDE DEF T
    <2> QED BY <2>1, LeastOf
  <1>2. k \in 1..n /\ Begins(A[k], src) /\ A[k] = Turn(A, s, k)
    BY <1>1 DEF Reaches
  <1>3. CASE k = 1
    <2>1. OnTheWay(A, {1}, k)
      BY <1>2, <1>3 DEF OnTheWay
    <2> QED BY <1>1, <2>1
  <1>4. CASE k # 1
    <2> DEFINE j == k \div 2
               v == 2 * (k % 2) + 1
    <2>1. j \in 1..n /\ j < k /\ v \in 0..15 /\ v <= 3
      BY <1>2, <1>4, Halves
    <2>2. A[k] = PutBits(A[j], v, 2)
      BY <1>2, <1>4 DEF Turn
    <2>3. Begins(A[j], src)
      <3> HIDE DEF j, v, T
      <3>1. Sane(A[j])
        BY <2>1, TurnsOnward DEF Onward
      <3>2. Onward(A[j], A[k])
        BY <2>1, <2>2, <3>1, OnwardBits
      <3> QED BY <1>2, <3>2 DEF Onward
    <2>4. PICK C : OnTheWay(A, C, j)
      <3> HIDE DEF j
      <3> QED BY <1>1, <2>1, <2>3
    <2>5. OnTheWay(A, C \cup {k}, k)
      <3>1. C \cup {k} \subseteq 1..k /\ 1 \in C \cup {k} /\ k \in C \cup {k}
        <4> HIDE DEF j
        <4> QED BY <1>2, <2>1, <2>4 DEF OnTheWay
      <3>2. ASSUME NEW m \in C \cup {k}
            PROVE  /\ Begins(A[m], src)
                   /\ m = k \/ \E i \in C \cup {k} : i \div 2 = m /\ A[i] = PutBits(A[m], 2 * (i % 2) + 1, 2)
        <4>1. CASE m = k
          BY <1>2, <4>1
        <4>2. CASE m = j
          <5>1. k \div 2 = m /\ A[k] = PutBits(A[m], 2 * (k % 2) + 1, 2)
            BY <2>2, <4>2
          <5>2. Begins(A[m], src)
            BY <2>3, <4>2
          <5> QED BY <5>1, <5>2
        <4>3. CASE m # k /\ m # j
          <5> HIDE DEF j, v, T
          <5> QED BY <2>4, <4>3 DEF OnTheWay
        <4> QED BY <4>1, <4>2, <4>3
      <3> QED BY <3>1, <3>2 DEF OnTheWay
    <2> QED BY <1>1, <2>5
  <1> QED BY <1>3, <1>4

\* Before the first turn.
LEMMA GammaBegins ==
  ASSUME src \in Seq(0..255), NEW s, NEW q, At(q, s), NEW n \in Nat, n >= 2, Begins(PutGamma(s, n), src)
  PROVE  InGamma(q, 1, n, PutGamma(s, n))
  <1>0. Sane(s)
    BY DEF At
  <1>1. PICK A : Reaches(A, s, n) /\ PutGamma(s, n) = PutBits(A[n \div 2], 2 * (n % 2), 2)
    BY GammaIs
  <1> DEFINE j == n \div 2
             v == 2 * (n % 2)
             t == PutGamma(s, n)
  <1>2. j \in 1..n /\ v \in 0..15 /\ v <= 3
    BY Halves
  <1>3. \A m \in 1..n : Sane(A[m])
    BY <1>0, <1>1, TurnsOnward DEF Onward
  <1>4. Begins(A[j], src)
    <2> HIDE DEF j, v
    <2>1. Sane(A[j])
      BY <1>2, <1>3
    <2>2. Onward(A[j], PutBits(A[j], v, 2))
      BY <1>2, <2>1, OnwardBits
    <2> QED BY <1>1, <2>2 DEF Onward, j, v
  <1>5. PICK C : OnTheWay(A, C, j)
    <2> HIDE DEF j
    <2> QED BY <1>0, <1>1, <1>2, <1>4, WaysExist
  <1>6. Turns(A, C, n, t)
    <2>1. C \subseteq 1..(n \div 2)
      BY <1>5 DEF OnTheWay
    <2>2. ASSUME NEW m \in C
          PROVE  /\ Sane(A[m]) /\ Begins(A[m], src)
                 /\ \/ m = n \div 2 /\ t = PutBits(A[m], 2 * (n % 2), 2)
                    \/ \E k \in C : k \div 2 = m /\ A[k] = PutBits(A[m], 2 * (k % 2) + 1, 2)
      <3>1. Begins(A[m], src) /\ (m = j \/ \E k \in C : k \div 2 = m /\ A[k] = PutBits(A[m], 2 * (k % 2) + 1, 2))
        BY <1>5 DEF OnTheWay
      <3>2. m \in 1..n
        <4>1. m \in 1..j
          BY <2>1
        <4> HIDE DEF j
        <4> QED BY <1>2, <4>1
      <3>3. Sane(A[m])
        BY <1>3, <3>2
      <3>4. CASE m = j
        <4>1. m = n \div 2 /\ t = PutBits(A[m], 2 * (n % 2), 2)
          BY <1>1, <3>4
        <4> QED BY <3>1, <3>3, <4>1
      <3> QED BY <3>1, <3>3, <3>4
    <2> QED BY <2>1, <2>2 DEF Turns
  <1>7. 1 \in C /\ A[1] = s
    <2>1. 1 \in 1..n
      OBVIOUS
    <2> QED BY <1>1, <1>5, <2>1 DEF OnTheWay, Reaches, Turn
  <1> QED BY <1>6, <1>7 DEF InGamma

\* One turn of the decoder's gamma loop: either the number goes on, or it has been read.
LEMMA GammaTurn ==
  ASSUME src \in Seq(0..255), NEW n \in Nat, n >= 2, NEW c, NEW q, NEW t, InGamma(q, c, n, t)
  PROVE  LET u == TakeBit(q)
             more == TakeBit(Queue(u))
             high == 2 * c + u.bit
         IN  /\ c \in 1..(n \div 2)
             /\ \/ more.bit = 1 /\ InGamma(Queue(more), high, n, t)
                \/ more.bit = 0 /\ high = n /\ At(Queue(more), t)
  <1> DEFINE u == TakeBit(q)
             more == TakeBit(Queue(u))
             high == 2 * c + u.bit
  <1>1. PICK A, C : Turns(A, C, n, t) /\ c \in C /\ At(q, A[c])
    BY DEF InGamma
  <1>2. Begins(t, src)
    BY DEF InGamma
  <1>3. c \in 1..(n \div 2)
    BY <1>1 DEF Turns
  <1>4. CASE c = n \div 2 /\ t = PutBits(A[c], 2 * (n % 2), 2)
    <2> DEFINE a == n % 2
    <2>1. a \in 0..1 /\ n = 2 * c + a /\ c \in Nat
      BY <1>3, <1>4, Halves
    <2>2. t = PutBits(A[c], 2 * a + 0, 2)
      BY <1>4, <2>1
    <2> HIDE DEF a
    <2>3. u.bit = a /\ more.bit = 0 /\ At(Queue(more), t)
      <3>1. 0 \in 0..1
        OBVIOUS
      <3> QED BY <1>1, <1>2, <2>1, <2>2, <3>1, BitsRead
    <2> HIDE DEF u, more
    <2> QED BY <1>3, <2>1, <2>3 DEF u, more
  <1>5. CASE \E k \in C : k \div 2 = c /\ A[k] = PutBits(A[c], 2 * (k % 2) + 1, 2)
    <2>1. PICK k \in C : k \div 2 = c /\ A[k] = PutBits(A[c], 2 * (k % 2) + 1, 2)
      BY <1>5
    <2> DEFINE a == k % 2
    <2>2. k \in Nat /\ c \in Nat /\ a \in 0..1 /\ k = 2 * c + a
      <3>1. k \in 1..(n \div 2)
        BY <1>1, <2>1 DEF Turns
      <3> QED BY <2>1, <3>1
    <2> HIDE DEF a
    <2>3. A[k] = PutBits(A[c], 2 * a + 1, 2) /\ Begins(A[k], src)
      BY <1>1, <2>1 DEF Turns, a
    <2>4. u.bit = a /\ more.bit = 1 /\ At(Queue(more), A[k])
      <3>1. 1 \in 0..1
        OBVIOUS
      <3> QED BY <1>1, <2>2, <2>3, <3>1, BitsRead
    <2> HIDE DEF u, more
    <2>5. high = k
      BY <2>2, <2>4
    <2>6. InGamma(Queue(more), high, n, t)
      BY <1>1, <1>2, <2>1, <2>4, <2>5 DEF InGamma
    <2> QED BY <1>3, <2>4, <2>6 DEF u, more
  <1> QED BY <1>1, <1>4, <1>5 DEF Turns

----------------------------------------------------------------------------
(* The writer: the places it has been at.                                  *)

\* A place of the writer: its stream, the bytes it stands for, and what the format
\* remembers of the last command.
Place(s, n, l, r) == [w |-> s, next |-> n, follows |-> l, rep |-> r]
Start == Place([out |-> <<>>, at |-> 0, shift |-> -1], 0, FALSE, 0)
Here == Place(w, next, follows, rep)

\* What holds of every place the writer has been at.
Good(g) == Sane(g.w) /\ g.next \in 0..Len(window) /\ g.rep \in 0..g.next /\ g.follows \in BOOLEAN

\* What the decoder holds in ebx when it stands at a place.
Bx(g) == IF g.next = 0 \/ g.follows THEN 3 ELSE 2

\* What each command does, seen from the places g before and h behind it.
AfterLiteral(g, h) == g.next < Len(window) /\ h.next = g.next + 1 /\ h.follows = TRUE /\ h.rep = g.rep

AfterMatch(g, h) ==
  /\ h.rep \in 1..g.next /\ h.next \in (g.next + 2)..Len(window) /\ h.follows = FALSE
  /\ \A k \in (g.next + 1)..h.next : window[k] = window[k - h.rep]

AsFirst(g, h) == g.next = 0 /\ AfterLiteral(g, h) /\ h.w = Put(g.w, window[1])

AsLiteral(g, h) == g.next > 0 /\ AfterLiteral(g, h) /\ h.w = Put(PutBits(g.w, 0, 1), window[g.next + 1])

FromBack(g, h, back) ==
  /\ back <= g.next
  /\ window[g.next + 1] = IF back = 0 THEN 0 ELSE window[g.next + 1 - back]
  /\ h.w = PutBits(PutBits(g.w, 7, 3), back, 4)

AsShortLiteral(g, h) == g.next > 0 /\ AfterLiteral(g, h) /\ \E back \in 0..15 : FromBack(g, h, back)

AsRepeat(g, h) ==
  /\ g.next > 0 /\ AfterMatch(g, h) /\ g.follows /\ h.rep = g.rep
  /\ h.w = PutGamma(PutBits(PutBits(g.w, 2, 2), 0, 2), h.next - g.next)

AsShortMatch(g, h) ==
  /\ g.next > 0 /\ AfterMatch(g, h) /\ h.rep < Near /\ h.next - g.next <= 3
  /\ h.w = Put(PutBits(g.w, 6, 3), 2 * h.rep + (h.next - g.next) - 2)

Coded(g, h) == h.next - g.next - ImpliedLength(h.rep)
High(g, h) == (h.rep \div Radix) + Bx(g)

AsLargeMatch(g, h) ==
  /\ g.next > 0 /\ AfterMatch(g, h) /\ Coded(g, h) >= 2
  /\ h.w = PutGamma(Put(PutGamma(PutBits(g.w, 2, 2), High(g, h)), h.rep % Radix), Coded(g, h))

\* The writer came from g to h with one command.
Leads(g, h) ==
  \/ AsFirst(g, h) \/ AsLiteral(g, h) \/ AsShortLiteral(g, h)
  \/ AsRepeat(g, h) \/ AsShortMatch(g, h) \/ AsLargeMatch(g, h)

\* While it writes: the places it has been at, each but the last left by a command.
Trail(G) ==
  /\ Start \in G /\ Here \in G
  /\ \A g \in G : Good(g) /\ Onward(g.w, w) /\ (g = Here \/ \E h \in G : Leads(g, h))

\* Meanwhile the decoder has not started.
WriteInv ==
  /\ bits = [al |-> 128, si |-> 1] /\ di = 0 /\ dx = 0 /\ bx = 3 /\ cx = 0
  /\ \E G : Trail(G)

\* g_buf holds what has been decoded and behind it what it held before.
MemOK ==
  /\ di \in 0..Len(window) /\ DOMAIN mem = 0..(BufferSize - 1)
  /\ \A a \in 0..(BufferSize - 1) : mem[a] = IF a < di THEN window[a + 1] ELSE Old

LEMMA WindowType ==
  ASSUME window \in Chunks
  PROVE  /\ window \in Seq(0..255) /\ Len(window) \in Nat /\ Len(window) >= 1 /\ Len(window) <= BufferSize
         /\ BufferSize \in Nat
         /\ \A k \in 1..Len(window) : window[k] \in 0..255
  <1>1. window \in Seq(0..255) /\ Len(window) \in 1..BufferSize /\ BufferSize \in Nat
    BY ChunkAssumption, FormatAssumption
  <1> QED BY <1>1, ElementOfSeq

LEMMA StartIsGood ==
  ASSUME window \in Chunks
  PROVE  Good(Start) /\ Sane(Start.w)
  <1> DEFINE s == [out |-> <<>>, at |-> 0, shift |-> -1]
  <1>1. s \in Streams /\ s.out \in Seq(0..255)
    BY DEF Streams
  <1>2. Sane(s)
    BY <1>1 DEF Sane
  <1> HIDE DEF s
  <1>3. Start = Place(s, 0, FALSE, 0)
    BY DEF Start, s
  <1> QED BY <1>2, <1>3, WindowType DEF Good, Place

\* The places and the ways between them speak of the chunk only.
LEMMA SameWays ==
  ASSUME window' = window
  PROVE  /\ \A g : Good(g)' <=> Good(g)
         /\ \A g, h : Leads(g, h)' <=> Leads(g, h)
  <1>1. \A g : Good(g)' <=> Good(g)
    BY DEF Good
  <1>2. \A g, h : (AfterLiteral(g, h)' <=> AfterLiteral(g, h)) /\ (AfterMatch(g, h)' <=> AfterMatch(g, h))
    BY DEF AfterLiteral, AfterMatch
  <1>3. \A g, h : /\ AsFirst(g, h)' <=> AsFirst(g, h)
                  /\ AsLiteral(g, h)' <=> AsLiteral(g, h)
    BY <1>2 DEF AsFirst, AsLiteral
  <1>4. \A g, h : AsShortLiteral(g, h)' <=> AsShortLiteral(g, h)
    BY <1>2 DEF AsShortLiteral, FromBack
  <1>5. \A g, h : /\ AsRepeat(g, h)' <=> AsRepeat(g, h)
                  /\ AsShortMatch(g, h)' <=> AsShortMatch(g, h)
                  /\ AsLargeMatch(g, h)' <=> AsLargeMatch(g, h)
    BY <1>2 DEF AsRepeat, AsShortMatch, AsLargeMatch, Coded, High, Bx
  <1> QED BY <1>1, <1>3, <1>4, <1>5 DEF Leads

LEMMA HereIs ==
  /\ Here.w = w /\ Here.next = next /\ Here.follows = follows /\ Here.rep = rep
  /\ Here' = Place(w', next', follows', rep')
  /\ (Here').w = w' /\ (Here').next = next' /\ (Here').follows = follows' /\ (Here').rep = rep'
  BY DEF Here, Place

\* A command that leads from the place it begins at to the next one prolongs the trail.
LEMMA GoesOn ==
  ASSUME WriteInv, window' = window, UNCHANGED depackVars,
         Leads(Here, Here'), Good(Here'), Onward(w, w')
  PROVE  WriteInv'
  <1>1. PICK G : Trail(G)
    BY DEF WriteInv
  <1>0. PICK z : z = Here'
    OBVIOUS
  <1> DEFINE H == G \cup {z}
  <1>2. Start \in H /\ z \in H /\ Start' = Start
    BY <1>1 DEF Trail, Start, Place
  <1>3. z.w = w'
    BY <1>0, HereIs
  <1>4. Good(z) /\ Leads(Here, z)
    BY <1>0
  <1>5. ASSUME NEW g \in H
        PROVE  Good(g) /\ Onward(g.w, w') /\ (g = z \/ \E h \in H : Leads(g, h))
    <2>1. CASE g = z
      BY <1>3, <1>4, <2>1 DEF Onward, Good
    <2>2. CASE g \in G
      <3>1. Good(g) /\ Onward(g.w, w) /\ (g = Here \/ \E h \in G : Leads(g, h))
        BY <1>1, <2>2 DEF Trail
      <3>2. Onward(g.w, w')
        BY <3>1, OnwardTwice
      <3> QED BY <1>2, <1>4, <3>1, <3>2
    <2> QED BY <2>1, <2>2
  <1> HIDE DEF H
  <1>6. \A g \in H : Good(g)' /\ Onward(g.w, w)' /\ (g = z \/ \E h \in H : Leads(g, h)')
    <2>1. \A g : Onward(g.w, w)' <=> Onward(g.w, w')
      BY DEF Onward, Sane, Begins, Streams
    <2>2. ASSUME NEW g \in H
          PROVE  Good(g)' /\ Onward(g.w, w)' /\ (g = z \/ \E h \in H : Leads(g, h)')
      BY <1>5, <2>1, SameWays
    <2> QED BY <2>2
  <1>7. Trail(H)'
    BY <1>0, <1>2, <1>6 DEF Trail
  <1>8. (bits = [al |-> 128, si |-> 1] /\ di = 0 /\ dx = 0 /\ bx = 3 /\ cx = 0)'
    BY DEF WriteInv, depackVars
  <1> QED BY <1>7, <1>8 DEF WriteInv

LEMMA GoodNext ==
  ASSUME Sane(w'), next' \in 0..Len(window), rep' \in 0..next', follows' \in BOOLEAN
  PROVE  Good(Here')
  BY HereIs DEF Good

\* Where the writer is.
LEMMA HereIsGood ==
  ASSUME WriteInv, window \in Chunks
  PROVE  /\ Good(Here) /\ Sane(w) /\ next \in Nat /\ next <= Len(window) /\ rep \in 0..next /\ follows \in BOOLEAN
         /\ Left \in Nat /\ Left = Len(window) - next
  <1>1. Good(Here)
    BY DEF WriteInv, Trail
  <1>2. Len(window) \in Nat
    BY WindowType
  <1> QED BY <1>1, <1>2, HereIs DEF Good, Left

LEMMA OnwardCoded ==
  ASSUME NEW s, Sane(s), NEW v \in 0..7, NEW b \in 0..255
  PROVE  /\ v <= 1 => Onward(s, Put(PutBits(s, v, 1), b))
         /\ v <= 7 => Onward(s, Put(PutBits(s, v, 3), b))
  <1>1. ASSUME NEW t, Onward(s, t)
        PROVE  Onward(s, Put(t, b))
    <2>1. Onward(t, Put(t, b))
      BY <1>1, OnwardByte DEF Onward
    <2> QED BY <1>1, <2>1, OnwardTwice
  <1>2. v <= 1 => Onward(s, PutBits(s, v, 1))
    <2>1. v <= 1 => v \in 0..1
      OBVIOUS
    <2> QED BY <2>1, OnwardBit
  <1>3. v <= 7 => Onward(s, PutBits(s, v, 3))
    <2>1. v \in 0..15
      OBVIOUS
    <2> QED BY <2>1, OnwardBits
  <1> QED BY <1>1, <1>2, <1>3

\* The commands of the writer, one by one.
LEMMA FirstHolds ==
  ASSUME WriteInv, window \in Chunks, WriteFirst
  PROVE  WriteInv'
  <1>1. Good(Here) /\ Sane(w) /\ rep \in 0..next
    BY HereIsGood
  <1>2. next = 0 /\ w' = Put(w, window[1]) /\ next' = 1 /\ follows' = TRUE /\ window' = window /\ rep' = rep
        /\ UNCHANGED depackVars
    BY DEF WriteFirst
  <1>3. Len(window) \in Nat /\ Len(window) >= 1 /\ window[1] \in 0..255
    BY WindowType
  <1>4. Onward(w, w')
    BY <1>1, <1>2, <1>3, OnwardByte
  <1>5. Leads(Here, Here')
    <2>0. next' = next + 1 /\ next < Len(window)
      BY <1>2, <1>3
    <2>1. AfterLiteral(Here, Here')
      BY <1>2, <2>0, HereIs DEF AfterLiteral
    <2>2. AsFirst(Here, Here')
      BY <1>2, <2>1, HereIs DEF AsFirst
    <2> QED BY <2>2 DEF Leads
  <1>6. Good(Here')
    BY <1>1, <1>2, <1>3, <1>4, GoodNext DEF Onward
  <1> QED BY <1>2, <1>4, <1>5, <1>6, GoesOn

LEMMA LiteralHolds ==
  ASSUME WriteInv, window \in Chunks, WriteLiteral
  PROVE  WriteInv'
  <1>1. Good(Here) /\ Sane(w) /\ next \in Nat /\ rep \in 0..next /\ Left = Len(window) - next
    BY HereIsGood
  <1>2. next > 0 /\ Left > 0 /\ w' = Put(PutBits(w, 0, 1), window[next + 1]) /\ next' = next + 1
        /\ follows' = TRUE /\ window' = window /\ rep' = rep /\ UNCHANGED depackVars
    BY DEF WriteLiteral
  <1>3. Len(window) \in Nat /\ next < Len(window) /\ window[next + 1] \in 0..255
    BY <1>1, <1>2, WindowType
  <1>4. Onward(w, w')
    <2>1. 0 \in 0..7 /\ 0 <= 1
      OBVIOUS
    <2> QED BY <1>1, <1>2, <1>3, <2>1, OnwardCoded
  <1>5. Leads(Here, Here')
    <2>1. AfterLiteral(Here, Here')
      BY <1>2, <1>3, HereIs DEF AfterLiteral
    <2>2. AsLiteral(Here, Here')
      BY <1>2, <2>1, HereIs DEF AsLiteral
    <2> QED BY <2>2 DEF Leads
  <1>6. Good(Here')
    BY <1>1, <1>2, <1>3, <1>4, GoodNext DEF Onward
  <1> QED BY <1>2, <1>4, <1>5, <1>6, GoesOn

LEMMA ShortLiteralHolds ==
  ASSUME WriteInv, window \in Chunks, WriteShortLiteral
  PROVE  WriteInv'
  <1>1. Good(Here) /\ Sane(w) /\ next \in Nat /\ rep \in 0..next /\ Left = Len(window) - next
    BY HereIsGood
  <1>2. next > 0 /\ Left > 0 /\ next' = next + 1
        /\ follows' = TRUE /\ window' = window /\ rep' = rep /\ UNCHANGED depackVars
    BY DEF WriteShortLiteral
  <1>3. PICK back \in 0..15 : /\ IF back = 0 THEN window[next + 1] = 0 ELSE TrueMatch(back, 1)
                              /\ w' = PutBits(PutBits(w, 7, 3), back, 4)
    BY DEF WriteShortLiteral
  <1>4. Len(window) \in Nat /\ next < Len(window)
    BY <1>1, <1>2, WindowType
  <1>5. Onward(w, w')
    <2>1. 7 \in 0..15 /\ 7 <= 7
      OBVIOUS
    <2>2. Onward(w, PutBits(w, 7, 3))
      BY <1>1, <2>1, OnwardBits
    <2>3. Onward(PutBits(w, 7, 3), w')
      BY <1>3, <2>2, OnwardBits DEF Onward
    <2> QED BY <2>2, <2>3, OnwardTwice
  <1>6. back <= next /\ window[next + 1] = IF back = 0 THEN 0 ELSE window[next + 1 - back]
    <2>1. CASE back = 0
      BY <1>1, <1>3, <2>1
    <2>2. CASE back # 0
      <3>1. back \in 1..next /\ \A k \in 1..1 : window[next + k] = window[next + k - back]
        BY <1>3, <2>2 DEF TrueMatch
      <3>2. window[next + 1] = window[next + 1 - back]
        BY <3>1
      <3> QED BY <2>2, <3>1, <3>2
    <2> QED BY <2>1, <2>2
  <1>7. AsShortLiteral(Here, Here')
    <2>1. AfterLiteral(Here, Here')
      BY <1>2, <1>4, HereIs DEF AfterLiteral
    <2>2. FromBack(Here, Here', back)
      BY <1>3, <1>6, HereIs DEF FromBack
    <2> QED BY <1>2, <2>1, <2>2, HereIs DEF AsShortLiteral
  <1>8. Good(Here')
    BY <1>1, <1>2, <1>4, <1>5, GoodNext DEF Onward
  <1>9. Leads(Here, Here')
    BY <1>7 DEF Leads
  <1> QED BY <1>2, <1>5, <1>8, <1>9, GoesOn

\* What a match leaves behind, whatever its code.
LEMMA MatchLeads ==
  ASSUME WriteInv, window \in Chunks, NEW offset \in Nat, NEW length \in Nat, length >= 2, NEW stream,
         WriteMatch(offset, length, stream), Onward(w, stream)
  PROVE  /\ window' = window /\ UNCHANGED depackVars /\ next > 0
         /\ Onward(w, w') /\ Good(Here') /\ AfterMatch(Here, Here')
         /\ w' = stream /\ rep' = offset /\ next' = next + length
  <1>1. Good(Here) /\ Sane(w) /\ next \in Nat /\ Left = Len(window) - next /\ Len(window) \in Nat
    BY HereIsGood, WindowType
  <1>2. window' = window /\ UNCHANGED depackVars /\ next > 0 /\ w' = stream /\ rep' = offset
        /\ next' = next + length /\ follows' = FALSE /\ TrueMatch(offset, length)
    BY DEF WriteMatch
  <1>3. offset \in 1..next /\ length <= Len(window) - next
        /\ \A k \in 1..length : window[next + k] = window[next + k - offset]
    BY <1>1, <1>2 DEF TrueMatch
  <1>4. next' \in (next + 2)..Len(window)
    BY <1>1, <1>2, <1>3
  <1>5. \A k \in (next + 1)..next' : window[k] = window[k - offset]
    <2> SUFFICES ASSUME NEW k \in (next + 1)..next' PROVE window[k] = window[k - offset]
      OBVIOUS
    <2> DEFINE j == k - next
    <2>1. j \in 1..length /\ next + j = k
      BY <1>1, <1>2
    <2> HIDE DEF j
    <2>2. window[next + j] = window[next + j - offset]
      BY <1>3, <2>1
    <2>3. next + j - offset = k - offset
      BY <1>1, <1>3, <2>1
    <2> QED BY <2>1, <2>2, <2>3
  <1>6. AfterMatch(Here, Here')
    BY <1>2, <1>3, <1>4, <1>5, HereIs DEF AfterMatch
  <1>7. Good(Here')
    <2>1. next' \in 0..Len(window) /\ rep' \in 0..next'
      BY <1>1, <1>2, <1>3, <1>4
    <2>2. Sane(w') /\ follows' \in BOOLEAN
      BY <1>2 DEF Onward
    <2> QED BY <2>1, <2>2, GoodNext
  <1> QED BY <1>2, <1>6, <1>7

LEMMA RepeatHolds ==
  ASSUME WriteInv, window \in Chunks, WriteRepeat
  PROVE  WriteInv'
  <1>1. Sane(w) /\ next \in Nat /\ rep \in Nat /\ Left \in Nat
    BY HereIsGood
  <1> DEFINE s == PutBits(PutBits(w, 2, 2), 0, 2)
  <1>2. PICK length \in 2..Left : Repeated(rep) /\ WriteMatch(rep, length, PutGamma(s, length))
    BY DEF WriteRepeat
  <1>3. Onward(w, PutGamma(s, length))
    <2>1. 2 \in 0..15 /\ 2 <= 3 /\ 0 \in 0..15 /\ 0 <= 3
      OBVIOUS
    <2>2. Onward(w, PutBits(w, 2, 2))
      BY <1>1, <2>1, OnwardBits
    <2>3. Onward(PutBits(w, 2, 2), s)
      BY <2>1, <2>2, OnwardBits DEF Onward
    <2>4. Onward(w, s)
      BY <2>2, <2>3, OnwardTwice
    <2> HIDE DEF s
    <2>5. Onward(s, PutGamma(s, length))
      <3>1. length \in Nat /\ length >= 2
        BY <1>1
      <3> QED BY <2>4, <3>1, OnwardGamma DEF Onward
    <2> QED BY <2>4, <2>5, OnwardTwice
  <1> HIDE DEF s
  <1>4. /\ window' = window /\ UNCHANGED depackVars /\ next > 0
        /\ Onward(w, w') /\ Good(Here') /\ AfterMatch(Here, Here')
        /\ w' = PutGamma(s, length) /\ rep' = rep /\ next' = next + length
    <2>1. length \in Nat /\ length >= 2
      BY <1>1
    <2> QED BY <1>1, <1>2, <1>3, <2>1, MatchLeads
  <1>5. next' - next = length /\ follows
    BY <1>1, <1>2, <1>4 DEF Repeated
  <1>6. Leads(Here, Here')
    BY <1>4, <1>5, HereIs DEF Leads, AsRepeat, s
  <1> QED BY <1>4, <1>6, GoesOn

LEMMA ShortMatchHolds ==
  ASSUME WriteInv, window \in Chunks, WriteShortMatch
  PROVE  WriteInv'
  <1>1. Sane(w) /\ next \in Nat
    BY HereIsGood
  <1>2. PICK offset \in 1..next, length \in 2..3 :
          /\ FitsShort(offset, length)
          /\ WriteMatch(offset, length, Put(PutBits(w, 6, 3), 2 * offset + length - 2))
    BY DEF WriteShortMatch
  <1> DEFINE b == 2 * offset + length - 2
  <1>3. b \in 0..255 /\ offset < Near
    <2>1. offset < Near /\ Near \in Nat /\ Near <= 128
      BY <1>2, FormatAssumption, NumbersAssumption DEF FitsShort
    <2> QED BY <1>1, <2>1
  <1>4. Onward(w, Put(PutBits(w, 6, 3), b))
    <2>1. 6 \in 0..7 /\ 6 <= 7
      OBVIOUS
    <2> HIDE DEF b
    <2> QED BY <1>1, <1>3, <2>1, OnwardCoded
  <1>5. /\ window' = window /\ UNCHANGED depackVars /\ next > 0
        /\ Onward(w, w') /\ Good(Here') /\ AfterMatch(Here, Here')
        /\ w' = Put(PutBits(w, 6, 3), b) /\ rep' = offset /\ next' = next + length
    <2>1. offset \in Nat /\ length \in Nat /\ length >= 2
      BY <1>1
    <2> QED BY <1>2, <1>4, <2>1, MatchLeads
  <1>6. next' - next = length /\ length <= 3 /\ 2 * offset + (next' - next) - 2 = b
    BY <1>1, <1>5
  <1> HIDE DEF b
  <1>7. Leads(Here, Here')
    BY <1>3, <1>5, <1>6, HereIs DEF Leads, AsShortMatch
  <1> QED BY <1>5, <1>7, GoesOn

\* The writer and the decoder agree about the length that goes without saying.
LEMMA SameImplied ==
  ASSUME NEW offset \in Nat
  PROVE  ImpliedByWriter(offset) = ImpliedLength(offset) /\ ImpliedLength(offset) \in 0..2
  <1>1. Near \in Nat /\ Min3 \in Nat /\ Min4 \in Nat /\ Near <= Min3
    BY FormatAssumption, NumbersAssumption
  <1> QED BY <1>1 DEF ImpliedByWriter, ImpliedLength

LEMMA ParameterTypes ==
  /\ Radix \in Nat /\ Radix >= 1 /\ Radix <= 256
  /\ \A x \in Nat : x \div Radix \in Nat /\ x % Radix \in 0..255 /\ x = Radix * (x \div Radix) + (x % Radix)
                    /\ x \div Radix <= x
  <1>1. Radix \in Nat /\ Radix >= 1 /\ Radix <= 256
    BY NumbersAssumption
  <1>2. ASSUME NEW x \in Nat
        PROVE  x \div Radix \in Nat /\ x % Radix \in 0..255 /\ x = Radix * (x \div Radix) + (x % Radix)
               /\ x \div Radix <= x
    <2> DEFINE d == x \div Radix
               r == x % Radix
    <2>1. d \in Int /\ r \in 0..(Radix - 1) /\ x = Radix * d + r
      BY <1>1
    <2>2. d >= 0
      BY <1>1
    <2>3. Radix * d >= d
      BY <1>1, <2>1, <2>2
    <2> HIDE DEF d, r
    <2> QED BY <1>1, <2>1, <2>2, <2>3 DEF d, r
  <1> QED BY <1>1, <1>2

LEMMA LargeMatchHolds ==
  ASSUME WriteInv, window \in Chunks, WriteLargeMatch
  PROVE  WriteInv'
  <1>1. Sane(w) /\ next \in Nat /\ Left \in Nat /\ follows \in BOOLEAN
    BY HereIsGood
  <1> DEFINE more == IF follows THEN 3 ELSE 2
  <1>2. PICK offset \in 1..next, length \in 2..Left :
          /\ length - ImpliedByWriter(offset) >= 2
          /\ WriteMatch(offset, length,
               PutGamma(Put(PutGamma(PutBits(w, 2, 2), (offset \div Radix) + more), offset % Radix),
                        length - ImpliedByWriter(offset)))
    BY DEF WriteLargeMatch
  <1> DEFINE high == (offset \div Radix) + more
             low == offset % Radix
             rest == length - ImpliedByWriter(offset)
             s == PutBits(w, 2, 2)
             t == PutGamma(s, high)
             u == Put(t, low)
             z == PutGamma(u, rest)
  <1>3. offset \in Nat /\ length \in Nat /\ length >= 2
    BY <1>1
  <1>4. more \in 2..3
    BY <1>1
  <1>5. high \in Nat /\ high >= 2 /\ low \in 0..255
    <2>1. offset \div Radix \in Nat /\ offset % Radix \in 0..255
      BY <1>3, ParameterTypes
    <2> HIDE DEF more
    <2> QED BY <1>4, <2>1
  <1>6. rest \in Nat /\ rest >= 2 /\ ImpliedByWriter(offset) = ImpliedLength(offset)
    <2>1. ImpliedByWriter(offset) = ImpliedLength(offset) /\ ImpliedLength(offset) \in 0..2
      BY <1>3, SameImplied
    <2> QED BY <1>2, <1>3, <2>1
  <1> HIDE DEF rest, high, low
  <1>7. Onward(w, z)
    <2>1. 2 \in 0..15 /\ 2 <= 3
      OBVIOUS
    <2>2. Onward(w, s)
      BY <1>1, <2>1, OnwardBits
    <2> HIDE DEF s
    <2>3. Onward(s, t)
      BY <1>5, <2>2, OnwardGamma DEF Onward
    <2> HIDE DEF t
    <2>4. Onward(t, u)
      BY <1>5, <2>3, OnwardByte DEF Onward
    <2> HIDE DEF u
    <2>5. Onward(u, z)
      BY <1>6, <2>4, OnwardGamma DEF Onward
    <2> HIDE DEF z
    <2> QED BY <2>2, <2>3, <2>4, <2>5, OnwardTwice
  <1> HIDE DEF z
  <1>8. /\ window' = window /\ UNCHANGED depackVars /\ next > 0
        /\ Onward(w, w') /\ Good(Here') /\ AfterMatch(Here, Here')
        /\ w' = z /\ rep' = offset /\ next' = next + length
    <2>1. WriteMatch(offset, length, z)
      BY <1>2 DEF z, rest, high, low
    <2> QED BY <1>3, <1>7, <2>1, MatchLeads
  <1>9. next' - next = length /\ Bx(Here) = more
    BY <1>1, <1>8, HereIs DEF Bx
  <1>10. Coded(Here, Here') = rest /\ High(Here, Here') = high
    BY <1>6, <1>8, <1>9, HereIs DEF Coded, High, rest, high
  <1>11. AsLargeMatch(Here, Here')
    <2>1. (Here').w = PutGamma(Put(PutGamma(PutBits(Here.w, 2, 2), high), (Here').rep % Radix), rest)
      BY <1>8, HereIs DEF z, low
    <2> QED BY <1>6, <1>8, <1>10, <2>1, HereIs DEF AsLargeMatch
  <1>12. Leads(Here, Here')
    BY <1>11 DEF Leads
  <1> QED BY <1>8, <1>12, GoesOn

----------------------------------------------------------------------------
(* The decoder: where it is on the map.                                    *)

\* While it reads: the end mark is at the last place.
Ends(g) == g.next = Len(window) /\ g.next > 0 /\ src = Put(PutBits(g.w, 6, 3), 0).out

\* The places are now a map of the stream: each is left by a command, or is the last.
Map(G) ==
  /\ Start \in G
  /\ \A g \in G : Good(g) /\ Begins(g.w, src) /\ (Ends(g) \/ \E h \in G : Leads(g, h))

\* The decoder at a place, and on the way to the next.
AtPlace(g) == di = g.next /\ di > 0 /\ dx = g.rep /\ bx = Bx(g)

\* A byte of the chunk is next in the stream; or a match of it is to be copied.
LiteralAhead(h) ==
  /\ \E s : At(bits, s) /\ h.w = Put(s, window[di + 1])
  /\ di < Len(window) /\ h.next = di + 1 /\ h.follows = TRUE /\ h.rep = dx

MatchAhead(h) ==
  /\ dx = h.rep /\ dx \in 1..di /\ h.next \in di..Len(window) /\ h.follows = FALSE
  /\ \A k \in (di + 1)..h.next : window[k] = window[k - dx]

\* Within the first gamma number of a match.
OnTurn(g, h) ==
  \/ AsRepeat(g, h) /\ InGamma(bits, cx, 2, PutBits(PutBits(g.w, 2, 2), 0, 2))
  \/ AsLargeMatch(g, h) /\ InGamma(bits, cx, High(g, h), PutGamma(PutBits(g.w, 2, 2), High(g, h)))

\* Where the decoder is, label by label.
AtLiteral(G) == \E h \in G : LiteralAhead(h)
AtCommand(G) == \E g \in G : AtPlace(g) /\ At(bits, g.w)
AtMatch(G) ==
  \E g \in G : /\ AtPlace(g) /\ At(bits, PutBits(g.w, 1, 1)) /\ cx = 1
               /\ Ends(g) \/ \E h \in G : AsShortLiteral(g, h) \/ AsRepeat(g, h) \/ AsShortMatch(g, h) \/ AsLargeMatch(g, h)
AtHigh(G) == \E g, h \in G : AtPlace(g) /\ OnTurn(g, h)
AtLength(G) ==
  \E h \in G, n \in Nat : /\ n >= 2 /\ MatchAhead(h) /\ InGamma(bits, cx, n, h.w)
                          /\ h.next = di + n + ImpliedLength(dx)
AtRepeat(G) == \E h \in G, n \in Nat : n >= 2 /\ MatchAhead(h) /\ InGamma(bits, cx, n, h.w) /\ h.next = di + n
AtOther(G) ==
  \E g \in G : /\ AtPlace(g) /\ At(bits, PutBits(g.w, 3, 2))
               /\ Ends(g) \/ \E h \in G : AsShortLiteral(g, h) \/ AsShortMatch(g, h)
AtBackHigh(G) ==
  \E g, h \in G, back \in 0..15 : /\ AtPlace(g) /\ AfterLiteral(g, h) /\ FromBack(g, h, back)
                                  /\ At(bits, PutBits(g.w, 7, 3))
AtBackLow(G) ==
  \E g, h \in G, back \in 0..15 : /\ AtPlace(g) /\ AfterLiteral(g, h) /\ FromBack(g, h, back)
                                  /\ cx = back \div 4 /\ At(bits, PutBits(PutBits(g.w, 7, 3), back \div 4, 2))
AtCopy(G) == \E h \in G : At(bits, h.w) /\ MatchAhead(h) /\ h.next = di + cx
InBlocks == Width[port] > 0 /\ cx >= Width[port] /\ dx >= Width[port]
AtDone == bits.si = Len(src) + 1 /\ di = Len(window) /\ \E s : At(bits, s)

Stage(G) ==
  /\ pc = "literal" => AtLiteral(G)
  /\ pc = "command" => AtCommand(G)
  /\ pc = "match" => AtMatch(G)
  /\ pc = "high" => AtHigh(G)
  /\ pc = "length" => AtLength(G)
  /\ pc = "repeat" => AtRepeat(G)
  /\ pc = "other" => AtOther(G)
  /\ pc = "back high" => AtBackHigh(G)
  /\ pc = "back low" => AtBackLow(G)
  /\ pc = "copy" => AtCopy(G)
  /\ pc \in {"block", "bytes"} => AtCopy(G) /\ si = di - dx
  /\ pc = "block" => InBlocks
  /\ pc = "done" => AtDone

Labels ==
  {"literal", "command", "match", "high", "length", "repeat", "other",
   "back high", "back low", "copy", "block", "bytes", "done"}

Registers ==
  /\ port \in Ports /\ bx \in {2, 3} /\ dx \in 0..BufferSize /\ cx \in 0..(BufferSize + 1)

Reading(G) == pc \in Labels /\ src \in Seq(0..255) /\ Map(G) /\ Stage(G)

\* The inductive invariant of the chunk.
ChunkInv ==
  /\ window \in Chunks /\ Sane(w) /\ MemOK /\ Registers
  /\ \/ pc = "writing" /\ WriteInv
     \/ \E G : Reading(G)

LEMMA BeginsItself ==
  ASSUME NEW s, Sane(s)
  PROVE  Begins(s, s.out)
  <1>1. Len(s.out) \in Nat
    BY LenProperties DEF Sane
  <1> QED BY <1>1 DEF Begins

\* The codes, bit by bit.
LEMMA Codes ==
  ASSUME NEW s, Sane(s), NEW a, NEW b, a = PutBits(s, 1, 1), b = PutBits(s, 3, 2)
  PROVE  /\ PutBits(s, 2, 2) = PutBits(a, 0, 1) /\ b = PutBits(a, 1, 1)
         /\ PutBits(s, 6, 3) = PutBits(b, 0, 1) /\ PutBits(s, 7, 3) = PutBits(b, 1, 1)
         /\ Onward(s, a) /\ Onward(a, PutBits(s, 2, 2)) /\ Onward(a, b)
         /\ Onward(b, PutBits(s, 6, 3)) /\ Onward(b, PutBits(s, 7, 3))
         /\ Onward(a, PutBits(s, 6, 3)) /\ Onward(a, PutBits(s, 7, 3))
  <1>0. 0 \in 0..1 /\ 1 \in 0..1
    OBVIOUS
  <1>1. PutBits(s, 2, 2) = PutBits(a, 0, 1)
    <2>1. 2 \in 0..15 /\ 2 \div 2 = 1 /\ 2 % 2 = 0
      OBVIOUS
    <2> QED BY <2>1, TwoBits
  <1>2. b = PutBits(a, 1, 1)
    <2>1. 3 \in 0..15 /\ 3 \div 2 = 1 /\ 3 % 2 = 1
      OBVIOUS
    <2> QED BY <2>1, TwoBits
  <1>3. PutBits(s, 6, 3) = PutBits(b, 0, 1)
    <2>1. 6 \in 0..15 /\ 6 \div 2 = 3 /\ 6 % 2 = 0
      OBVIOUS
    <2> QED BY <2>1, ThreeBits
  <1>4. PutBits(s, 7, 3) = PutBits(b, 1, 1)
    <2>1. 7 \in 0..15 /\ 7 \div 2 = 3 /\ 7 % 2 = 1
      OBVIOUS
    <2> QED BY <2>1, ThreeBits
  <1>5. Onward(s, a)
    BY <1>0, OnwardBit
  <1>6. Onward(a, PutBits(s, 2, 2)) /\ Onward(a, b)
    BY <1>0, <1>1, <1>2, <1>5, OnwardBit DEF Onward
  <1>7. Onward(b, PutBits(s, 6, 3)) /\ Onward(b, PutBits(s, 7, 3))
    BY <1>0, <1>3, <1>4, <1>6, OnwardBit DEF Onward
  <1> QED BY <1>1, <1>2, <1>3, <1>4, <1>5, <1>6, <1>7, OnwardTwice

LEMMA SmallGamma ==
  ASSUME NEW s
  PROVE  PutGamma(s, 2) = PutBits(s, 0, 2)
  <1>1. 2 \in Nat /\ 2 >= 2 /\ 2 \div 2 = 1 /\ 2 * (2 % 2) = 0 /\ 1 \in 1..2
    OBVIOUS
  <1>2. PICK A : Reaches(A, s, 2) /\ PutGamma(s, 2) = PutBits(A[2 \div 2], 2 * (2 % 2), 2)
    BY <1>1, GammaIs
  <1>3. A[1] = s
    BY <1>1, <1>2 DEF Reaches, Turn
  <1> QED BY <1>1, <1>2, <1>3

LEMMA InGammaType ==
  ASSUME NEW n \in Nat, NEW c, NEW q, NEW t, InGamma(q, c, n, t)
  PROVE  c \in 1..(n \div 2)
  BY DEF InGamma, Turns

\* The stream through the code of the command that leaves a place.
LEMMA AtEnd ==
  ASSUME NEW g, Good(g), Ends(g), src \in Seq(0..255)
  PROVE  /\ Begins(Put(PutBits(g.w, 6, 3), 0), src) /\ Begins(PutBits(g.w, 6, 3), src)
         /\ Sane(Put(PutBits(g.w, 6, 3), 0))
  <1>1. Sane(g.w)
    BY DEF Good
  <1>2. 6 \in 0..15 /\ 6 <= 7 /\ 0 \in 0..255
    OBVIOUS
  <1> DEFINE t == PutBits(g.w, 6, 3)
             u == Put(t, 0)
  <1>3. Onward(g.w, t)
    BY <1>1, <1>2, OnwardBits
  <1>4. Onward(t, u)
    BY <1>2, <1>3, OnwardByte DEF Onward
  <1>5. Begins(u, src)
    BY <1>4, BeginsItself DEF Ends, Onward
  <1> QED BY <1>4, <1>5 DEF Onward

LEMMA AtShortMatch ==
  ASSUME NEW g, Good(g), NEW h, Good(h), AsShortMatch(g, h), Begins(h.w, src), src \in Seq(0..255)
  PROVE  /\ Begins(PutBits(g.w, 6, 3), src)
         /\ 2 * h.rep + (h.next - g.next) - 2 \in 0..255
         /\ h.rep \in 1..g.next /\ h.next - g.next \in 2..3 /\ g.next \in Nat
  <1>1. Sane(g.w) /\ g.next \in Nat /\ Near \in Nat /\ Near <= 128
    BY FormatAssumption, NumbersAssumption DEF Good
  <1>2. h.rep \in 1..g.next /\ h.next - g.next \in 2..3 /\ h.rep < Near
    BY <1>1 DEF AsShortMatch, AfterMatch
  <1> DEFINE b == 2 * h.rep + (h.next - g.next) - 2
             t == PutBits(g.w, 6, 3)
  <1>3. b \in 0..255
    <2> DEFINE r == h.rep
               l == h.next - g.next
    <2>1. r \in Nat /\ r >= 1 /\ r < 128 /\ l \in 2..3
      BY <1>1, <1>2
    <2> HIDE DEF r, l
    <2>2. 2 * r + l - 2 \in 0..255
      BY <2>1
    <2> QED BY <2>2 DEF r, l
  <1>4. Onward(g.w, t)
    <2>1. 6 \in 0..15 /\ 6 <= 7
      OBVIOUS
    <2> QED BY <1>1, <2>1, OnwardBits
  <1> HIDE DEF b, t
  <1>5. Onward(t, Put(t, b)) /\ h.w = Put(t, b)
    BY <1>3, <1>4, OnwardByte DEF Onward, AsShortMatch, t, b
  <1>6. Begins(t, src)
    BY <1>5 DEF Onward
  <1> QED BY <1>1, <1>2, <1>3, <1>6 DEF t, b

LEMMA FromBackBegins ==
  ASSUME NEW g, Good(g), NEW h, NEW back \in 0..15, FromBack(g, h, back), Begins(h.w, src), src \in Seq(0..255)
  PROVE  LET s == PutBits(g.w, 7, 3)
             t == PutBits(s, back \div 4, 2)
         IN  Begins(s, src) /\ Begins(t, src) /\ Sane(s) /\ Sane(t) /\ h.w = PutBits(t, back % 4, 2)
  <1> DEFINE s == PutBits(g.w, 7, 3)
             t == PutBits(s, back \div 4, 2)
             u == PutBits(s, back \div 2, 3)
             v == PutBits(t, (back \div 2) % 2, 1)
  <1>1. Onward(g.w, s) /\ Sane(s)
    <2>1. 7 \in 0..15 /\ 7 <= 7
      OBVIOUS
    <2> QED BY <2>1, OnwardBits DEF Good, Onward
  <1>2. /\ back \div 2 \in 0..15 /\ (back \div 2) \div 2 = back \div 4 /\ back \div 4 \in 0..15 /\ back \div 4 <= 3
        /\ back % 4 \in 0..15 /\ back % 4 <= 3 /\ (back % 4) \div 2 = (back \div 2) % 2 /\ (back % 4) % 2 = back % 2
    OBVIOUS
  <1> HIDE DEF s
  <1>3. h.w = PutBits(s, back, 4)
    BY DEF FromBack, s
  <1>4. PutBits(s, back, 4) = PutBits(u, back % 2, 1)
    BY <1>1, FourBits
  <1>5. u = v
    BY <1>1, <1>2, ThreeBits
  <1>6. Onward(s, t) /\ Sane(t)
    BY <1>1, <1>2, OnwardBits DEF Onward
  <1> HIDE DEF t
  <1>7. PutBits(t, back % 4, 2) = PutBits(PutBits(t, (back % 4) \div 2, 1), (back % 4) % 2, 1)
    BY <1>2, <1>6, TwoBits
  <1>8. h.w = PutBits(t, back % 4, 2)
    BY <1>2, <1>3, <1>4, <1>5, <1>7
  <1>9. Onward(t, h.w)
    BY <1>2, <1>6, <1>8, OnwardBits
  <1>10. Begins(t, src) /\ Begins(s, src)
    BY <1>6, <1>9 DEF Onward
  <1> QED BY <1>1, <1>6, <1>8, <1>10 DEF s, t

LEMMA AtRepeatMatch ==
  ASSUME NEW g, Good(g), NEW h, Good(h), AsRepeat(g, h), Begins(h.w, src), src \in Seq(0..255)
  PROVE  LET s == PutBits(g.w, 2, 2)
             t == PutBits(s, 0, 2)
         IN  /\ Begins(s, src) /\ Begins(t, src) /\ PutGamma(s, 2) = t
             /\ h.next - g.next \in Nat /\ h.next - g.next >= 2 /\ h.w = PutGamma(t, h.next - g.next)
  <1> DEFINE s == PutBits(g.w, 2, 2)
             t == PutBits(s, 0, 2)
             n == h.next - g.next
  <1>0. 2 \in 0..15 /\ 2 <= 3 /\ 0 \in 0..15 /\ 0 <= 3
    OBVIOUS
  <1>1. Onward(g.w, s)
    BY <1>0, OnwardBits DEF Good
  <1>2. n \in Nat /\ n >= 2 /\ h.w = PutGamma(t, n)
    <2>1. g.next \in Nat /\ h.next \in (g.next + 2)..Len(window)
      BY DEF Good, AsRepeat, AfterMatch
    <2>2. h.w = PutGamma(t, n)
      BY DEF AsRepeat
    <2> QED BY <2>1, <2>2
  <1> HIDE DEF s, n
  <1>3. Onward(s, t) /\ PutGamma(s, 2) = t
    BY <1>0, <1>1, OnwardBits, SmallGamma DEF Onward
  <1> HIDE DEF t
  <1>4. Onward(t, h.w)
    BY <1>2, <1>3, OnwardGamma DEF Onward
  <1>5. Begins(t, src) /\ Begins(s, src)
    BY <1>3, <1>4 DEF Onward
  <1> QED BY <1>2, <1>3, <1>5 DEF s, t, n

LEMMA AtLargeMatch ==
  ASSUME window \in Chunks, NEW g, Good(g), NEW h, Good(h), AsLargeMatch(g, h), Begins(h.w, src), src \in Seq(0..255)
  PROVE  LET s == PutBits(g.w, 2, 2)
             t == PutGamma(s, High(g, h))
             u == Put(t, h.rep % Radix)
         IN  /\ Begins(s, src) /\ Begins(t, src) /\ Begins(u, src)
             /\ High(g, h) \in Nat /\ High(g, h) >= Bx(g) /\ Bx(g) \in {2, 3}
             /\ High(g, h) <= BufferSize + 1 /\ h.rep % Radix \in 0..255
             /\ (High(g, h) - Bx(g)) * Radix + (h.rep % Radix) = h.rep
             /\ h.rep \in 1..g.next /\ ImpliedLength(h.rep) \in 0..2 /\ g.next \in Nat
             /\ Coded(g, h) \in Nat /\ Coded(g, h) >= 2 /\ h.w = PutGamma(u, Coded(g, h))
             /\ h.next = g.next + Coded(g, h) + ImpliedLength(h.rep)
  <1> DEFINE s == PutBits(g.w, 2, 2)
             t == PutGamma(s, High(g, h))
             u == Put(t, h.rep % Radix)
  <1>0. 2 \in 0..15 /\ 2 <= 3
    OBVIOUS
  <1>1. /\ g.next \in Nat /\ h.rep \in 1..g.next /\ h.rep \in Nat /\ h.next \in (g.next + 2)..Len(window)
        /\ Len(window) \in Nat /\ Len(window) <= BufferSize /\ BufferSize \in Nat
    BY WindowType DEF Good, AsLargeMatch, AfterMatch
  <1>2. ImpliedLength(h.rep) \in 0..2
    BY <1>1, SameImplied
  <1>3. /\ Coded(g, h) \in Nat /\ Coded(g, h) >= 2
        /\ h.next = g.next + Coded(g, h) + ImpliedLength(h.rep)
    <2> DEFINE x == h.next
               y == g.next
               i == ImpliedLength(h.rep)
    <2>1. x \in Nat /\ y \in Nat /\ i \in 0..2
      BY <1>1, <1>2
    <2>2. Coded(g, h) = x - y - i /\ Coded(g, h) >= 2
      BY DEF AsLargeMatch, Coded
    <2> HIDE DEF x, y, i
    <2>3. Coded(g, h) \in Nat /\ x = y + Coded(g, h) + i
      BY <2>1, <2>2
    <2> QED BY <2>2, <2>3 DEF x, y, i
  <1>4. Bx(g) \in {2, 3}
    BY DEF Bx
  <1>5. /\ High(g, h) \in Nat /\ High(g, h) >= Bx(g) /\ High(g, h) <= BufferSize + 1
        /\ (High(g, h) - Bx(g)) * Radix + (h.rep % Radix) = h.rep /\ h.rep % Radix \in 0..255
    <2> DEFINE d == h.rep \div Radix
               r == h.rep % Radix
               x == Bx(g)
    <2>1. d \in Nat /\ r \in 0..255 /\ h.rep = Radix * d + r /\ d <= h.rep /\ Radix \in Nat
      BY <1>1, ParameterTypes
    <2>2. High(g, h) = d + x /\ x \in {2, 3}
      BY <1>4 DEF High
    <2> HIDE DEF d, r, x
    <2>3. High(g, h) \in Nat /\ High(g, h) >= x /\ High(g, h) <= BufferSize + 1 /\ High(g, h) - x = d
      BY <1>1, <2>1, <2>2
    <2>4. d * Radix + r = h.rep
      BY <2>1
    <2> QED BY <2>1, <2>3, <2>4 DEF d, r, x
  <1>6. h.w = PutGamma(u, Coded(g, h))
    BY DEF AsLargeMatch
  <1>7. High(g, h) >= 2
    BY <1>4, <1>5
  <1>8. Onward(g.w, s)
    BY <1>0, OnwardBits DEF Good
  <1> HIDE DEF s
  <1>9. Onward(s, t)
    BY <1>5, <1>7, <1>8, OnwardGamma DEF Onward
  <1> HIDE DEF t
  <1>10. Onward(t, u)
    BY <1>5, <1>9, OnwardByte DEF Onward
  <1> HIDE DEF u
  <1>11. Onward(u, h.w)
    BY <1>3, <1>6, <1>10, OnwardGamma DEF Onward
  <1>12. Begins(u, src) /\ Begins(t, src) /\ Begins(s, src)
    BY <1>9, <1>10, <1>11 DEF Onward
  <1> QED BY <1>1, <1>2, <1>3, <1>4, <1>5, <1>6, <1>12 DEF s, t, u

----------------------------------------------------------------------------
(* Its steps.                                                              *)

\* The invariant while the decoder runs, with the map named.
Holding(G) == window \in Chunks /\ MemOK /\ Registers /\ Reading(G)

\* What a step of the decoder leaves alone.
LEMMA SameMap ==
  ASSUME window' = window, src' = src
  PROVE  \A G : Map(G) => Map(G)'
  <1> SUFFICES ASSUME NEW G, Map(G) PROVE Map(G)'
    OBVIOUS
  <1>1. Start' = Start
    BY DEF Start, Place
  <1>2. ASSUME NEW g \in G
        PROVE  Good(g)' /\ Begins(g.w, src)' /\ (Ends(g)' \/ \E h \in G : Leads(g, h)')
    <2>1. Good(g)'
      BY SameWays DEF Map
    <2>2. Begins(g.w, src)'
      BY DEF Map, Begins
    <2>3. Ends(g) => Ends(g)'
      BY DEF Ends
    <2>4. Ends(g) \/ \E h \in G : Leads(g, h)
      BY DEF Map
    <2> QED BY <2>1, <2>2, <2>3, <2>4, SameWays
  <1> QED BY <1>1, <1>2 DEF Map

LEMMA SameStream ==
  ASSUME src' = src
  PROVE  /\ \A s : At(bits', s) => At(bits, s)'
         /\ \A n, t : InGamma(bits', cx', n, t) => InGamma(bits, cx, n, t)'
  <1>1. \A s : (Sane(s)' <=> Sane(s)) /\ (Begins(s, src)' <=> Begins(s, src)) /\ Behind(s, src)' = Behind(s, src)
    BY DEF Sane, Begins, Behind, Streams
  <1>2. \A s : At(bits', s) => At(bits, s)'
    BY <1>1 DEF At
  <1>3. \A A, C, n, t : Turns(A, C, n, t)' <=> Turns(A, C, n, t)
    BY <1>1 DEF Turns
  <1>4. ASSUME NEW n, NEW t, InGamma(bits', cx', n, t)
        PROVE  InGamma(bits, cx, n, t)'
    <2>1. PICK A, C : Turns(A, C, n, t) /\ cx' \in C /\ At(bits', A[cx'])
      BY <1>4 DEF InGamma
    <2>2. Turns(A, C, n, t)'
      BY <1>3, <2>1
    <2>3. At(bits, A[cx])'
      BY <1>1, <2>1 DEF At
    <2>4. Begins(t, src)'
      BY <1>1, <1>4 DEF InGamma
    <2> QED BY <2>1, <2>2, <2>3, <2>4 DEF InGamma
  <1> QED BY <1>2, <1>4

LEMMA SameCommands ==
  ASSUME window' = window
  PROVE  \A g, h : /\ AfterLiteral(g, h)' <=> AfterLiteral(g, h)
                   /\ \A back : FromBack(g, h, back)' <=> FromBack(g, h, back)
                   /\ AsShortLiteral(g, h)' <=> AsShortLiteral(g, h)
                   /\ AsRepeat(g, h)' <=> AsRepeat(g, h)
                   /\ AsShortMatch(g, h)' <=> AsShortMatch(g, h)
                   /\ AsLargeMatch(g, h)' <=> AsLargeMatch(g, h)
                   /\ High(g, h)' = High(g, h)
  <1>1. \A g, h : (AfterLiteral(g, h)' <=> AfterLiteral(g, h)) /\ (AfterMatch(g, h)' <=> AfterMatch(g, h))
    BY DEF AfterLiteral, AfterMatch
  <1>2. \A g, h, back : FromBack(g, h, back)' <=> FromBack(g, h, back)
    BY DEF FromBack
  <1>3. \A g, h : AsShortLiteral(g, h)' <=> AsShortLiteral(g, h)
    BY <1>1, <1>2 DEF AsShortLiteral
  <1>4. \A g, h : High(g, h)' = High(g, h)
    BY DEF High, Bx
  <1>5. \A g, h : /\ AsRepeat(g, h)' <=> AsRepeat(g, h)
                  /\ AsShortMatch(g, h)' <=> AsShortMatch(g, h)
                  /\ AsLargeMatch(g, h)' <=> AsLargeMatch(g, h)
    BY <1>1, <1>4 DEF AsRepeat, AsShortMatch, AsLargeMatch, Coded
  <1> QED BY <1>1, <1>2, <1>3, <1>4, <1>5

\* So a step of the decoder has to show this much.
LEMMA HoldsOn ==
  ASSUME NEW G, Holding(G), UNCHANGED <<window, src, port>>, pc' \in Labels, MemOK',
         bx' \in {2, 3}, dx' \in 0..BufferSize, cx' \in 0..(BufferSize + 1), Stage(G)'
  PROVE  Holding(G)'
  <1>1. Map(G)'
    BY SameMap DEF Holding, Reading
  <1>2. Registers'
    BY DEF Holding, Registers
  <1>3. Reading(G)'
    BY <1>1 DEF Holding, Reading, Labels
  <1> QED BY <1>2, <1>3 DEF Holding

LEMMA MemKept ==
  ASSUME MemOK, UNCHANGED <<window, mem, di>>
  PROVE  MemOK'
  BY DEF MemOK

\* The next byte of the chunk put into g_buf.
LEMMA BytePut ==
  ASSUME MemOK, window \in Chunks, window' = window, di < Len(window), NEW b, b = window[di + 1], PutByte(b)
  PROVE  MemOK' /\ di' = di + 1
  <1>1. di \in Nat /\ DOMAIN mem = 0..(BufferSize - 1) /\ Len(window) <= BufferSize /\ Len(window) \in Nat
        /\ BufferSize \in Nat
        /\ \A a \in 0..(BufferSize - 1) : mem[a] = IF a < di THEN window[a + 1] ELSE Old
    BY WindowType DEF MemOK
  <1>2. mem' = [mem EXCEPT ![di] = b] /\ di' = di + 1
    BY DEF PutByte
  <1>3. DOMAIN mem' = DOMAIN mem /\ di \in DOMAIN mem /\ di' \in 0..Len(window)
    BY <1>1, <1>2
  <1>4. ASSUME NEW a \in 0..(BufferSize - 1)
        PROVE  mem'[a] = IF a < di + 1 THEN window[a + 1] ELSE Old
    <2>1. CASE a = di
      <3>1. mem'[a] = b /\ a < di + 1
        BY <1>1, <1>2, <1>3, <2>1
      <3> QED BY <2>1, <3>1
    <2>2. CASE a # di
      <3>1. mem'[a] = mem[a]
        BY <1>1, <1>2, <2>2
      <3>2. a < di <=> a < di + 1
        BY <1>1, <2>2
      <3> QED BY <1>1, <3>1, <3>2
    <2> QED BY <2>1, <2>2
  <1> QED BY <1>1, <1>2, <1>3, <1>4 DEF MemOK

\* The facts that every step starts from.
LEMMA Facts ==
  ASSUME NEW G, Holding(G)
  PROVE  /\ window \in Chunks /\ MemOK /\ Registers /\ src \in Seq(0..255) /\ Map(G) /\ Stage(G)
         /\ di \in Nat /\ di <= Len(window) /\ Len(window) \in Nat /\ Len(window) <= BufferSize /\ BufferSize \in Nat
         /\ \A k \in 1..Len(window) : window[k] \in 0..255
         /\ \A g \in G : Good(g) /\ Begins(g.w, src) /\ Sane(g.w) /\ g.next \in Nat /\ g.next <= Len(window)
                         /\ g.rep \in 0..g.next
  BY WindowType DEF Holding, Reading, Map, MemOK, Good

\* WriteEnd hands the stream over: the trail is the map, and the first byte is ahead.
LEMMA BeginHolds ==
  ASSUME window \in Chunks, MemOK, Registers, WriteInv, WriteEnd
  PROVE  \E G : Holding(G)'
  <1>1. PICK G : Trail(G)
    BY DEF WriteInv
  <1>2. /\ next > 0 /\ Left = 0 /\ w' = Put(PutBits(w, 6, 3), 0) /\ src' = w'.out /\ port' \in Ports
        /\ pc' = "literal" /\ UNCHANGED <<window, mem, bits, di, dx, cx, bx>>
    BY DEF WriteEnd
  <1>3. Good(Here) /\ Sane(w) /\ next \in Nat /\ Left = Len(window) - next /\ Len(window) \in Nat
    BY HereIsGood, WindowType
  <1> DEFINE s == Put(PutBits(w, 6, 3), 0)
  <1>4. Onward(w, s) /\ Sane(s)
    <2>1. 6 \in 0..7 /\ 0 \in 0..255 /\ 6 <= 7
      OBVIOUS
    <2> QED BY <1>3, <2>1, OnwardCoded DEF Onward
  <1> HIDE DEF s
  <1>5. src' = s.out /\ s.out \in Seq(0..255)
    BY <1>2, <1>4 DEF s, Sane
  <1>6. Map(G)'
    <2>1. Start' = Start /\ Start \in G
      BY <1>1 DEF Start, Place, Trail
    <2>2. ASSUME NEW g \in G
          PROVE  Good(g)' /\ Begins(g.w, src)' /\ (Ends(g)' \/ \E h \in G : Leads(g, h)')
      <3>1. Good(g) /\ Onward(g.w, w) /\ (g = Here \/ \E h \in G : Leads(g, h))
        BY <1>1 DEF Trail
      <3>2. Good(g)'
        BY <1>2, <3>1, SameWays
      <3>3. Begins(g.w, src)'
        <4>1. Begins(s, s.out)
          BY <1>4, BeginsItself
        <4>2. Begins(g.w, s.out)
          BY <1>4, <1>5, <3>1, <4>1 DEF Onward
        <4> QED BY <1>5, <4>2 DEF Begins
      <3>4. g = Here => Ends(g)'
        <4>1. next = Len(window)
          BY <1>2, <1>3
        <4>2. PICK z : z = Here
          OBVIOUS
        <4>3. z.w = w /\ z.next = next
          BY <4>2, HereIs
        <4>4. Ends(z)'
          BY <1>2, <1>5, <4>1, <4>3 DEF Ends, s
        <4> QED BY <4>2, <4>4
      <3> QED BY <1>2, <3>1, <3>2, <3>3, <3>4, SameWays
    <2> QED BY <2>1, <2>2 DEF Map
  <1>7. Start \in G /\ Start.next = 0 /\ Start.rep = 0 /\ Start.w = [out |-> <<>>, at |-> 0, shift |-> -1]
        /\ Start # Here
    <2>1. Start.next = 0 /\ Start.rep = 0 /\ Start.w = [out |-> <<>>, at |-> 0, shift |-> -1]
      BY DEF Start, Place
    <2> QED BY <1>1, <1>2, <2>1, HereIs DEF Trail
  <1>8. PICK h \in G : Leads(Start, h)
    BY <1>1, <1>7 DEF Trail
  <1>9. AfterLiteral(Start, h) /\ h.w = Put(Start.w, window[1])
    BY <1>7, <1>8 DEF Leads, AsFirst, AsLiteral, AsShortLiteral, AsRepeat, AsShortMatch, AsLargeMatch
  <1>10. bits = [al |-> 128, si |-> 1] /\ di = 0 /\ dx = 0 /\ bx = 3 /\ cx = 0
    BY DEF WriteInv
  <1>11. At(bits, Start.w)'
    <2>1. Sane(Start.w)
      BY StartIsGood
    <2>2. PICK z : z = Start.w
      OBVIOUS
    <2>3. z = [out |-> <<>>, at |-> 0, shift |-> -1] /\ Sane(z)
      BY <1>7, <2>1, <2>2
    <2>4. Begins(z, s.out)
      <3>1. Len(s.out) \in Nat /\ z.out = <<>> /\ Len(z.out) = 0
        BY <1>5, <2>3, LenProperties
      <3> QED BY <3>1 DEF Begins
    <2>5. Behind(z, s.out) = [al |-> 128, si |-> 1]
      BY <2>3 DEF Behind
    <2>6. At(bits, z)'
      BY <1>2, <1>5, <1>10, <2>3, <2>4, <2>5 DEF At, Sane, Begins, Behind, Streams
    <2>7. Start' = Start
      BY DEF Start, Place
    <2> QED BY <2>2, <2>6, <2>7
  <1>12. LiteralAhead(h)'
    <2>1. PICK z : z = Start.w
      OBVIOUS
    <2>2. At(bits, z)'
      <3>1. Start' = Start
        BY DEF Start, Place
      <3> QED BY <1>11, <2>1, <3>1
    <2>3. di' + 1 = 1 /\ window' = window
      BY <1>2, <1>10
    <2>4. h.w = Put(z, window'[di' + 1])
      BY <1>9, <2>1, <2>3
    <2>5. (di < Len(window) /\ h.next = di + 1 /\ h.follows = TRUE /\ h.rep = dx)'
      BY <1>2, <1>7, <1>9, <1>10 DEF AfterLiteral
    <2> QED BY <2>2, <2>4, <2>5 DEF LiteralAhead
  <1>13. Stage(G)'
    BY <1>2, <1>8, <1>12 DEF Stage, AtLiteral
  <1>14. MemOK' /\ Registers'
    BY <1>2, MemKept DEF Registers
  <1>15. Reading(G)'
    BY <1>2, <1>5, <1>6, <1>13 DEF Reading, Labels
  <1> QED BY <1>2, <1>14, <1>15 DEF Holding

\* The steps of the decoder, one by one.
LEMMA ReadLiteral ==
  ASSUME NEW G, Holding(G), Literal, UNCHANGED writeVars
  PROVE  Holding(G)'
  <1>1. /\ pc = "literal" /\ pc' = "command" /\ PutByte(SrcByte(bits.si)) /\ bits' = [bits EXCEPT !.si = @ + 1]
        /\ bx' = 3 /\ UNCHANGED <<port, src, cx, dx, window>>
    BY DEF Literal, writeVars
  <1>2. PICK h \in G : LiteralAhead(h)
    BY <1>1, Facts DEF Stage, AtLiteral
  <1>3. PICK s : At(bits, s) /\ h.w = Put(s, window[di + 1])
    BY <1>2 DEF LiteralAhead
  <1>4. di < Len(window) /\ h.next = di + 1 /\ h.follows = TRUE /\ h.rep = dx
    BY <1>2 DEF LiteralAhead
  <1> DEFINE b == window[di + 1]
  <1>5. b \in 0..255
    <2>1. di + 1 \in 1..Len(window)
      BY <1>4, Facts
    <2> QED BY <2>1, Facts
  <1> HIDE DEF b
  <1>6. SrcByte(bits.si) = b /\ At(Skip(bits), h.w)
    <2>1. h.w = Put(s, b) /\ Begins(Put(s, b), src) /\ src \in Seq(0..255)
      BY <1>3, Facts DEF b
    <2> QED BY <1>3, <1>5, <2>1, ByteRead
  <1>7. bits' = Skip(bits)
    <2>1. bits = Behind(s, src)
      BY <1>3 DEF At
    <2> QED BY <1>1, <2>1 DEF Skip, Behind
  <1>8. MemOK' /\ di' = di + 1
    <2>1. PutByte(b) /\ b = window[di + 1]
      BY <1>1, <1>6 DEF b
    <2> QED BY <1>1, <1>4, <2>1, BytePut, Facts
  <1>9. Stage(G)'
    <2>1. At(bits, h.w)'
      BY <1>1, <1>6, <1>7, SameStream
    <2>2. Bx(h) = 3
      BY <1>4 DEF Bx
    <2>3. AtPlace(h)'
      <3>1. di' > 0
        BY <1>8, Facts
      <3> QED BY <1>1, <1>4, <1>8, <2>2, <3>1 DEF AtPlace, Bx
    <2>4. AtCommand(G)'
      BY <2>1, <2>3 DEF AtCommand
    <2> QED BY <1>1, <2>4 DEF Stage
  <1>10. pc' \in Labels /\ bx' \in {2, 3} /\ dx' \in 0..BufferSize /\ cx' \in 0..(BufferSize + 1)
    BY <1>1, Facts DEF Registers, Labels
  <1> QED BY <1>1, <1>8, <1>9, <1>10, HoldsOn

LEMMA ReadFirstBit ==
  ASSUME NEW G, Holding(G), Command, pc = "command", UNCHANGED writeVars
  PROVE  Holding(G)'
  <1> DEFINE t == TakeBit(bits)
  <1>1. /\ pc' = (IF t.bit = 0 THEN "literal" ELSE "match") /\ bits' = Queue(t) /\ cx' = 1
        /\ UNCHANGED <<port, src, mem, di, dx, bx, window>>
    BY DEF Command, writeVars
  <1>2. PICK g \in G : AtPlace(g) /\ At(bits, g.w)
    BY Facts DEF Stage, AtCommand
  <1>3. Good(g) /\ Sane(g.w) /\ src \in Seq(0..255) /\ window \in Chunks /\ g.next = di /\ di > 0 /\ g.rep = dx
    BY <1>2, Facts DEF AtPlace
  <1> DEFINE x == PutBits(g.w, 1, 1)
             y == PutBits(g.w, 3, 2)
  <1>4. 0 \in 0..1 /\ 1 \in 0..1
    OBVIOUS
  <1> HIDE DEF t
  <1>5. CASE \E h \in G : AsLiteral(g, h)
    <2>1. PICK h \in G : AsLiteral(g, h)
      BY <1>5
    <2> DEFINE s == PutBits(g.w, 0, 1)
               b == window[di + 1]
    <2>2. AfterLiteral(g, h) /\ h.w = Put(s, b) /\ b \in 0..255 /\ Begins(h.w, src)
      <3>1. AfterLiteral(g, h) /\ h.w = Put(s, b)
        BY <1>3, <2>1 DEF AsLiteral
      <3>2. di + 1 \in 1..Len(window)
        BY <1>3, <3>1, Facts DEF AfterLiteral
      <3> QED BY <3>1, <3>2, Facts
    <2> HIDE DEF s, b
    <2>3. Onward(g.w, s)
      BY <1>3, <1>4, OnwardBit DEF s
    <2>4. Begins(s, src)
      <3>1. Onward(s, Put(s, b))
        BY <2>2, <2>3, OnwardByte DEF Onward
      <3> QED BY <1>3, <2>2, <3>1 DEF Onward
    <2>5. t.bit = 0 /\ At(bits', s)
      BY <1>1, <1>2, <1>3, <1>4, <2>4, BitRead DEF s, t
    <2>6. LiteralAhead(h)'
      <3>1. At(bits, s)'
        BY <1>1, <2>5, SameStream
      <3>2. h.w = Put(s, window'[di' + 1])
        BY <1>1, <2>2 DEF b
      <3>3. (di < Len(window) /\ h.next = di + 1 /\ h.follows = TRUE /\ h.rep = dx)'
        BY <1>1, <1>3, <2>2 DEF AfterLiteral
      <3> QED BY <3>1, <3>2, <3>3 DEF LiteralAhead
    <2>7. pc' = "literal"
      BY <1>1, <2>5
    <2>8. Stage(G)'
      BY <2>6, <2>7 DEF Stage, AtLiteral
    <2>9. MemOK' /\ pc' \in Labels /\ bx' \in {2, 3} /\ dx' \in 0..BufferSize /\ cx' \in 0..(BufferSize + 1)
      BY <1>1, <2>7, Facts, MemKept DEF Registers, Labels
    <2> QED BY <1>1, <2>8, <2>9, HoldsOn
  <1>6. CASE \/ Ends(g)
             \/ \E h \in G : AsShortLiteral(g, h) \/ AsRepeat(g, h) \/ AsShortMatch(g, h) \/ AsLargeMatch(g, h)
    <2> HIDE DEF x, y
    <2>1. Onward(x, PutBits(g.w, 2, 2)) /\ Onward(x, PutBits(g.w, 6, 3)) /\ Onward(x, PutBits(g.w, 7, 3)) /\ Onward(g.w, x)
      BY <1>3, Codes DEF x, y
    <2>2. Begins(PutBits(g.w, 2, 2), src) \/ Begins(PutBits(g.w, 6, 3), src) \/ Begins(PutBits(g.w, 7, 3), src)
      <3>1. CASE Ends(g)
        BY <1>3, <3>1, AtEnd
      <3>2. ASSUME NEW h \in G, AsShortLiteral(g, h)
            PROVE  Begins(PutBits(g.w, 7, 3), src)
        <4>1. PICK back \in 0..15 : FromBack(g, h, back)
          BY <3>2 DEF AsShortLiteral
        <4> QED BY <1>3, <4>1, Facts, FromBackBegins
      <3>3. ASSUME NEW h \in G, AsRepeat(g, h)
            PROVE  Begins(PutBits(g.w, 2, 2), src)
        BY <1>3, <3>3, Facts, AtRepeatMatch
      <3>4. ASSUME NEW h \in G, AsShortMatch(g, h)
            PROVE  Begins(PutBits(g.w, 6, 3), src)
        BY <1>3, <3>4, Facts, AtShortMatch
      <3>5. ASSUME NEW h \in G, AsLargeMatch(g, h)
            PROVE  Begins(PutBits(g.w, 2, 2), src)
        BY <1>3, <3>5, Facts, AtLargeMatch
      <3> QED BY <1>6, <3>1, <3>2, <3>3, <3>4, <3>5
    <2>3. Begins(x, src)
      BY <1>3, <2>1, <2>2 DEF Onward
    <2>4. t.bit = 1 /\ At(bits', x)
      BY <1>1, <1>2, <1>3, <1>4, <2>3, BitRead DEF x, t
    <2>5. pc' = "match"
      BY <1>1, <2>4
    <2>6. AtMatch(G)'
      <3>1. At(bits, x)'
        BY <1>1, <2>4, SameStream
      <3>2. AtPlace(g)' /\ cx' = 1
        BY <1>1, <1>2 DEF AtPlace, Bx
      <3>3. (Ends(g) \/ \E h \in G : AsShortLiteral(g, h) \/ AsRepeat(g, h) \/ AsShortMatch(g, h) \/ AsLargeMatch(g, h))'
        <4>1. Ends(g) => Ends(g)'
          BY <1>1 DEF Ends
        <4> QED BY <1>1, <1>6, <4>1, SameCommands
      <3> QED BY <3>1, <3>2, <3>3 DEF AtMatch, x
    <2>7. Stage(G)'
      BY <2>5, <2>6 DEF Stage
    <2>8. MemOK' /\ pc' \in Labels /\ bx' \in {2, 3} /\ dx' \in 0..BufferSize /\ cx' \in 0..(BufferSize + 1)
      BY <1>1, <2>5, Facts, MemKept DEF Registers, Labels
    <2> QED BY <1>1, <2>7, <2>8, HoldsOn
  <1>7. Ends(g) \/ \E h \in G : Leads(g, h)
    BY Facts DEF Map
  <1> QED BY <1>3, <1>5, <1>6, <1>7 DEF Leads, AsFirst

\* A match of one of the codes is the match the decoder copies.
LEMMA MatchFound ==
  ASSUME NEW g, Good(g), NEW h, AfterMatch(g, h), di = g.next, di > 0, window' = window, di' = di, dx' = h.rep
  PROVE  MatchAhead(h)'
  <1>1. g.next \in Nat /\ h.rep \in 1..g.next /\ h.next \in (g.next + 2)..Len(window) /\ h.follows = FALSE
        /\ \A k \in (g.next + 1)..h.next : window[k] = window[k - h.rep]
    BY DEF Good, AfterMatch
  <1>2. h.next \in di..Len(window)
    BY <1>1
  <1> QED BY <1>1, <1>2 DEF MatchAhead

LEMMA ReadSecondBit ==
  ASSUME NEW G, Holding(G), Command, pc = "match", UNCHANGED writeVars
  PROVE  Holding(G)'
  <1> DEFINE t == TakeBit(bits)
  <1>1. /\ pc' = (IF t.bit = 0 THEN "high" ELSE "other") /\ bits' = Queue(t) /\ cx' = 1
        /\ UNCHANGED <<port, src, mem, di, dx, bx, window>>
    BY DEF Command, writeVars
  <1> HIDE DEF t
  <1>2. PICK g \in G :
          /\ AtPlace(g) /\ At(bits, PutBits(g.w, 1, 1))
          /\ Ends(g) \/ \E h \in G : AsShortLiteral(g, h) \/ AsRepeat(g, h) \/ AsShortMatch(g, h) \/ AsLargeMatch(g, h)
    BY Facts DEF Stage, AtMatch
  <1> DEFINE x == PutBits(g.w, 1, 1)
             y == PutBits(g.w, 3, 2)
             s == PutBits(g.w, 2, 2)
  <1>3. Good(g) /\ Sane(g.w) /\ src \in Seq(0..255) /\ window \in Chunks
    BY <1>2, Facts
  <1>4. 0 \in 0..1 /\ 1 \in 0..1
    OBVIOUS
  <1>5. s = PutBits(x, 0, 1) /\ y = PutBits(x, 1, 1) /\ Onward(y, PutBits(g.w, 6, 3)) /\ Onward(y, PutBits(g.w, 7, 3))
    BY <1>3, Codes
  <1>6. At(bits, x) /\ AtPlace(g)'
    BY <1>1, <1>2 DEF AtPlace, Bx
  <1> HIDE DEF x, y, s
  <1>7. ASSUME NEW h \in G, AsRepeat(g, h) \/ AsLargeMatch(g, h)
        PROVE  Holding(G)'
    <2>1. Good(h) /\ Begins(h.w, src)
      BY Facts
    <2>2. Begins(s, src)
      BY <1>3, <1>7, <2>1, AtRepeatMatch, AtLargeMatch DEF s
    <2>3. t.bit = 0 /\ At(bits', s)
      BY <1>1, <1>3, <1>4, <1>5, <1>6, <2>2, BitRead DEF t
    <2>4. OnTurn(g, h)'
      <3>1. CASE AsRepeat(g, h)
        <4>1. 2 \in Nat /\ 2 >= 2 /\ Begins(PutGamma(s, 2), src) /\ PutGamma(s, 2) = PutBits(s, 0, 2)
          BY <1>3, <2>1, <3>1, AtRepeatMatch DEF s
        <4>2. InGamma(bits', cx', 2, PutBits(s, 0, 2))
          BY <1>1, <1>3, <2>3, <4>1, GammaBegins
        <4>3. InGamma(bits, cx, 2, PutBits(s, 0, 2))'
          BY <1>1, <4>2, SameStream
        <4> QED BY <1>1, <3>1, <4>3, SameCommands DEF OnTurn, s
      <3>2. CASE AsLargeMatch(g, h)
        <4> DEFINE n == High(g, h)
        <4>1. n \in Nat /\ n >= 2 /\ Begins(PutGamma(s, n), src)
          <5>1. n \in Nat /\ n >= Bx(g) /\ Bx(g) \in {2, 3} /\ Begins(PutGamma(s, n), src)
            BY <1>3, <2>1, <3>2, AtLargeMatch DEF s
          <5> QED BY <5>1
        <4> HIDE DEF n
        <4>2. InGamma(bits', cx', n, PutGamma(s, n))
          BY <1>1, <1>3, <2>3, <4>1, GammaBegins
        <4>3. InGamma(bits, cx, n, PutGamma(s, n))'
          BY <1>1, <4>2, SameStream
        <4>4. High(g, h)' = n
          BY <1>1, SameCommands DEF n
        <4>5. AsLargeMatch(g, h)'
          BY <1>1, <3>2, SameCommands
        <4> QED BY <4>3, <4>4, <4>5 DEF OnTurn, s
      <3> QED BY <1>7, <3>1, <3>2
    <2>5. pc' = "high"
      BY <1>1, <2>3
    <2>6. Stage(G)'
      BY <1>6, <2>4, <2>5 DEF Stage, AtHigh
    <2>7. MemOK' /\ pc' \in Labels /\ bx' \in {2, 3} /\ dx' \in 0..BufferSize /\ cx' \in 0..(BufferSize + 1)
      BY <1>1, <2>5, Facts, MemKept DEF Registers, Labels
    <2> QED BY <1>1, <2>6, <2>7, HoldsOn
  <1>8. CASE Ends(g) \/ \E h \in G : AsShortLiteral(g, h) \/ AsShortMatch(g, h)
    <2>1. Begins(PutBits(g.w, 6, 3), src) \/ Begins(PutBits(g.w, 7, 3), src)
      <3>1. CASE Ends(g)
        BY <1>3, <3>1, AtEnd
      <3>2. ASSUME NEW h \in G, AsShortLiteral(g, h)
            PROVE  Begins(PutBits(g.w, 7, 3), src)
        <4>1. PICK back \in 0..15 : FromBack(g, h, back)
          BY <3>2 DEF AsShortLiteral
        <4> QED BY <1>3, <4>1, Facts, FromBackBegins
      <3>3. ASSUME NEW h \in G, AsShortMatch(g, h)
            PROVE  Begins(PutBits(g.w, 6, 3), src)
        BY <1>3, <3>3, Facts, AtShortMatch
      <3> QED BY <1>8, <3>1, <3>2, <3>3
    <2>2. Begins(y, src)
      BY <1>3, <1>5, <2>1 DEF Onward
    <2>3. t.bit = 1 /\ At(bits', y)
      BY <1>1, <1>3, <1>4, <1>5, <1>6, <2>2, BitRead DEF t
    <2>4. pc' = "other"
      BY <1>1, <2>3
    <2>5. AtOther(G)'
      <3>1. At(bits, y)'
        BY <1>1, <2>3, SameStream
      <3>2. (Ends(g) \/ \E h \in G : AsShortLiteral(g, h) \/ AsShortMatch(g, h))'
        <4>1. Ends(g) => Ends(g)'
          BY <1>1 DEF Ends
        <4> QED BY <1>1, <1>8, <4>1, SameCommands
      <3> QED BY <1>6, <3>1, <3>2 DEF AtOther, y
    <2>6. Stage(G)'
      BY <2>4, <2>5 DEF Stage
    <2>7. MemOK' /\ pc' \in Labels /\ bx' \in {2, 3} /\ dx' \in 0..BufferSize /\ cx' \in 0..(BufferSize + 1)
      BY <1>1, <2>4, Facts, MemKept DEF Registers, Labels
    <2> QED BY <1>1, <2>6, <2>7, HoldsOn
  <1> QED BY <1>2, <1>7, <1>8

\* The high part of a large offset, or the 2 that stands for the last offset.
LEMMA ReadHighPart ==
  ASSUME NEW G, Holding(G), HighPart, UNCHANGED writeVars
  PROVE  Holding(G)'
  <1> DEFINE t == TakeBit(bits)
             more == TakeBit(Queue(t))
             high == 2 * cx + t.bit
  <1>1. /\ pc = "high" /\ UNCHANGED <<port, src, mem, di, bx, window>>
        /\ IF more.bit = 1
           THEN cx' = high /\ bits' = Queue(more) /\ pc' = pc /\ dx' = dx
           ELSE /\ cx' = 1
                /\ IF high < bx
                   THEN pc' = "repeat" /\ bits' = Queue(more) /\ dx' = dx
                   ELSE pc' = "length" /\ bits' = [Queue(more) EXCEPT !.si = @ + 1]
                        /\ dx' = (high - bx) * Radix + SrcByte(more.si)
    BY DEF HighPart, writeVars, Repeats
  <1>2. PICK g \in G, h \in G : AtPlace(g) /\ OnTurn(g, h)
    BY <1>1, Facts DEF Stage, AtHigh
  <1>3. /\ Good(g) /\ Sane(g.w) /\ src \in Seq(0..255) /\ window \in Chunks /\ Good(h) /\ Begins(h.w, src)
        /\ di = g.next /\ di > 0 /\ dx = g.rep /\ bx = Bx(g) /\ di \in Nat /\ BufferSize \in Nat
        /\ dx \in 0..BufferSize /\ bx \in {2, 3} /\ MemOK'
    BY <1>1, <1>2, Facts, MemKept DEF AtPlace, Registers
  <1> DEFINE s == PutBits(g.w, 2, 2)
  <1>4. ASSUME NEW n \in Nat, n >= 2, n <= BufferSize + 1, NEW z, InGamma(bits, cx, n, z)
        PROVE  \/ more.bit = 1 /\ InGamma(Queue(more), high, n, z) /\ high \in 0..(BufferSize + 1)
               \/ more.bit = 0 /\ high = n /\ At(Queue(more), z)
    <2>1. \/ more.bit = 1 /\ InGamma(Queue(more), high, n, z)
          \/ more.bit = 0 /\ high = n /\ At(Queue(more), z)
      BY <1>3, <1>4, GammaTurn
    <2> HIDE DEF high, more
    <2>2. InGamma(Queue(more), high, n, z) => high \in 0..(BufferSize + 1)
      <3>1. InGamma(Queue(more), high, n, z) => high \in 1..(n \div 2)
        BY InGammaType
      <3>2. n \div 2 <= n
        BY <1>4
      <3> QED BY <1>3, <1>4, <3>1, <3>2
    <2> QED BY <2>1, <2>2
  <1>5. AtPlace(g) => (bits' = Queue(more) /\ dx' = dx => AtPlace(g)')
    BY <1>1 DEF AtPlace, Bx
  <1> HIDE DEF s
  <1>6. CASE AsRepeat(g, h) /\ InGamma(bits, cx, 2, PutBits(s, 0, 2))
    <2> DEFINE z == PutBits(s, 0, 2)
               n == h.next - g.next
    <2>1. n \in Nat /\ n >= 2 /\ h.w = PutGamma(z, n) /\ g.follows
      BY <1>3, <1>6, AtRepeatMatch DEF s, AsRepeat
    <2>2. 2 \in Nat /\ 2 >= 2 /\ 2 <= BufferSize + 1
      <3>1. n <= BufferSize
        BY <1>3, Facts DEF Good
      <3> QED BY <1>3, <2>1, <3>1
    <2> HIDE DEF z, n
    <2>3. \/ more.bit = 1 /\ InGamma(Queue(more), high, 2, z) /\ high \in 0..(BufferSize + 1)
          \/ more.bit = 0 /\ high = 2 /\ At(Queue(more), z)
      BY <1>4, <1>6, <2>2 DEF z
    <2> HIDE DEF more, high
    <2>4. CASE more.bit = 1 /\ InGamma(Queue(more), high, 2, z) /\ high \in 0..(BufferSize + 1)
      <3>1. cx' = high /\ bits' = Queue(more) /\ pc' = "high" /\ dx' = dx
        BY <1>1, <2>4
      <3>2. InGamma(bits, cx, 2, z)'
        BY <1>1, <2>4, <3>1, SameStream
      <3>3. OnTurn(g, h)'
        BY <1>1, <1>6, <3>2, SameCommands DEF OnTurn, z, s
      <3>4. Stage(G)'
        BY <1>2, <1>5, <3>1, <3>3 DEF Stage, AtHigh
      <3> QED BY <1>1, <1>3, <2>4, <3>1, <3>4, HoldsOn DEF Labels
    <2>5. CASE more.bit = 0 /\ high = 2 /\ At(Queue(more), z)
      <3>1. bx = 3
        BY <1>3, <2>1 DEF Bx
      <3>2. cx' = 1 /\ pc' = "repeat" /\ bits' = Queue(more) /\ dx' = dx
        BY <1>1, <2>5, <3>1
      <3>3. InGamma(bits', cx', n, h.w)
        BY <1>3, <2>1, <2>5, <3>2, GammaBegins
      <3>4. InGamma(bits, cx, n, h.w)'
        BY <1>1, <3>3, SameStream
      <3>5. MatchAhead(h)'
        <4>1. AfterMatch(g, h) /\ h.rep = g.rep
          BY <1>6 DEF AsRepeat
        <4> QED BY <1>1, <1>3, <3>2, <4>1, MatchFound
      <3>6. h.next = di' + n
        <4>1. h.next \in Nat /\ g.next \in Nat
          BY Facts
        <4> QED BY <1>1, <1>3, <4>1 DEF n
      <3>7. Stage(G)'
        <4>1. AtRepeat(G)'
          BY <2>1, <3>4, <3>5, <3>6 DEF AtRepeat
        <4> QED BY <3>2, <4>1 DEF Stage
      <3>8. cx' \in 0..(BufferSize + 1)
        BY <1>3, <3>2
      <3> QED BY <1>1, <1>3, <3>2, <3>7, <3>8, HoldsOn DEF Labels
    <2> QED BY <2>3, <2>4, <2>5
  <1>7. CASE AsLargeMatch(g, h) /\ InGamma(bits, cx, High(g, h), PutGamma(s, High(g, h)))
    <2> DEFINE n == High(g, h)
               z == PutGamma(s, n)
               low == h.rep % Radix
               u == Put(z, low)
               l == Coded(g, h)
    <2>1. /\ Begins(u, src) /\ n \in Nat /\ n >= bx /\ n <= BufferSize + 1 /\ low \in 0..255
          /\ (n - bx) * Radix + low = h.rep /\ h.rep \in 1..g.next /\ ImpliedLength(h.rep) \in 0..2
          /\ l \in Nat /\ l >= 2 /\ h.w = PutGamma(u, l) /\ h.next = g.next + l + ImpliedLength(h.rep)
      BY <1>3, <1>7, AtLargeMatch DEF s
    <2>2. n >= 2
      BY <1>3, <2>1
    <2> HIDE DEF n, z, low, u, l
    <2>3. \/ more.bit = 1 /\ InGamma(Queue(more), high, n, z) /\ high \in 0..(BufferSize + 1)
          \/ more.bit = 0 /\ high = n /\ At(Queue(more), z)
      BY <1>4, <1>7, <2>1, <2>2 DEF z, n
    <2> HIDE DEF more, high
    <2>4. CASE more.bit = 1 /\ InGamma(Queue(more), high, n, z) /\ high \in 0..(BufferSize + 1)
      <3>1. cx' = high /\ bits' = Queue(more) /\ pc' = "high" /\ dx' = dx
        BY <1>1, <2>4
      <3>2. InGamma(bits, cx, n, z)'
        BY <1>1, <2>4, <3>1, SameStream
      <3>3. OnTurn(g, h)'
        <4>1. High(g, h)' = n /\ AsLargeMatch(g, h)'
          BY <1>1, <1>7, SameCommands DEF n
        <4> QED BY <3>2, <4>1 DEF OnTurn, z, s
      <3>4. Stage(G)'
        BY <1>2, <1>5, <3>1, <3>3 DEF Stage, AtHigh
      <3> QED BY <1>1, <1>3, <2>4, <3>1, <3>4, HoldsOn DEF Labels
    <2>5. CASE more.bit = 0 /\ high = n /\ At(Queue(more), z)
      <3>1. ~(high < bx)
        BY <1>3, <2>1, <2>5
      <3>2. cx' = 1 /\ pc' = "length" /\ bits' = [Queue(more) EXCEPT !.si = @ + 1]
            /\ dx' = (n - bx) * Radix + SrcByte(more.si)
        BY <1>1, <2>5, <3>1
      <3>3. SrcByte(more.si) = low /\ At(Skip(Queue(more)), u)
        <4>1. SrcByte(Queue(more).si) = low /\ At(Skip(Queue(more)), u)
          BY <1>3, <2>1, <2>5, ByteRead DEF u
        <4> QED BY <4>1 DEF Queue
      <3>4. bits' = Skip(Queue(more)) /\ dx' = h.rep
        BY <2>1, <3>2, <3>3 DEF Skip, Queue
      <3>5. InGamma(bits', cx', l, h.w)
        BY <1>3, <2>1, <3>2, <3>3, <3>4, GammaBegins
      <3>6. InGamma(bits, cx, l, h.w)'
        BY <1>1, <3>5, SameStream
      <3>7. MatchAhead(h)'
        <4>1. AfterMatch(g, h)
          BY <1>7 DEF AsLargeMatch
        <4> QED BY <1>1, <1>3, <3>4, <4>1, MatchFound
      <3>8. h.next = di' + l + ImpliedLength(dx')
        BY <1>1, <1>3, <2>1, <3>4
      <3>9. Stage(G)'
        <4>1. (h.next = di + l + ImpliedLength(dx))'
          BY <3>8 DEF ImpliedLength
        <4>2. AtLength(G)'
          BY <2>1, <3>6, <3>7, <4>1 DEF AtLength
        <4> QED BY <3>2, <4>2 DEF Stage
      <3>10. cx' \in 0..(BufferSize + 1) /\ dx' \in 0..BufferSize
        <4>1. g.next <= BufferSize /\ g.next \in Nat
          BY Facts
        <4> QED BY <1>3, <2>1, <3>2, <3>4, <4>1
      <3> QED BY <1>1, <1>3, <3>2, <3>9, <3>10, HoldsOn DEF Labels
    <2> QED BY <2>3, <2>4, <2>5
  <1> QED BY <1>2, <1>6, <1>7 DEF OnTurn, s

\* The length of a match, with or without the part that its offset implies.
LEMMA ReadLength ==
  ASSUME NEW G, Holding(G), Length, UNCHANGED writeVars
  PROVE  Holding(G)'
  <1> DEFINE t == TakeBit(bits)
             more == TakeBit(Queue(t))
             length == 2 * cx + t.bit
             extra == IF pc = "length" THEN ImpliedLength(dx) ELSE 0
  <1>1. /\ pc \in {"length", "repeat"} /\ bits' = Queue(more) /\ UNCHANGED <<port, src, mem, di, dx, bx, window>>
        /\ IF more.bit = 1 THEN cx' = length /\ pc' = pc ELSE cx' = length + extra /\ pc' = "copy"
    BY DEF Length, writeVars
  <1>2. PICK h \in G, n \in Nat : n >= 2 /\ MatchAhead(h) /\ InGamma(bits, cx, n, h.w) /\ h.next = di + n + extra
    <2>1. CASE pc = "length"
      BY <2>1, Facts DEF Stage, AtLength
    <2>2. CASE pc = "repeat"
      <3>1. PICK h \in G, n \in Nat : n >= 2 /\ MatchAhead(h) /\ InGamma(bits, cx, n, h.w) /\ h.next = di + n
        BY <2>2, Facts DEF Stage, AtRepeat
      <3>2. extra = 0 /\ di + n \in Nat
        BY <2>2, Facts
      <3>3. h.next = di + n + extra
        BY <3>1, <3>2
      <3> QED BY <3>1, <3>3
    <2> QED BY <1>1, <2>1, <2>2
  <1>3. /\ src \in Seq(0..255) /\ di \in Nat /\ dx \in Nat /\ BufferSize \in Nat /\ dx \in 0..BufferSize
        /\ bx \in {2, 3} /\ MemOK' /\ h.next \in Nat /\ h.next <= BufferSize
    BY <1>1, Facts, MemKept DEF Registers
  <1>4. extra \in 0..2
    BY <1>3, SameImplied
  <1>5. n <= BufferSize
    BY <1>2, <1>3, <1>4
  <1>6. \/ more.bit = 1 /\ InGamma(Queue(more), length, n, h.w)
        \/ more.bit = 0 /\ length = n /\ At(Queue(more), h.w)
    BY <1>2, <1>3, GammaTurn
  <1>7. MatchAhead(h)'
    BY <1>1, <1>2 DEF MatchAhead
  <1> HIDE DEF t, more, length
  <1>8. CASE more.bit = 1 /\ InGamma(Queue(more), length, n, h.w)
    <2>1. cx' = length /\ pc' = pc
      BY <1>1, <1>8
    <2>2. InGamma(bits, cx, n, h.w)'
      BY <1>1, <1>8, <2>1, SameStream
    <2>3. cx' \in 0..(BufferSize + 1)
      <3>1. length \in 1..(n \div 2)
        BY <1>8, InGammaType
      <3> QED BY <1>3, <1>5, <2>1, <3>1
    <2>4. Stage(G)'
      <3>1. CASE pc = "length"
        <4>1. (h.next = di + n + ImpliedLength(dx))'
          BY <1>1, <1>2, <3>1 DEF ImpliedLength
        <4>2. AtLength(G)'
          BY <1>2, <1>7, <2>2, <4>1 DEF AtLength
        <4> QED BY <2>1, <3>1, <4>2 DEF Stage
      <3>2. CASE pc = "repeat"
        <4>1. (h.next = di + n)'
          BY <1>1, <1>2, <1>3, <3>2
        <4>2. AtRepeat(G)'
          BY <1>2, <1>7, <2>2, <4>1 DEF AtRepeat
        <4> QED BY <2>1, <3>2, <4>2 DEF Stage
      <3> QED BY <1>1, <3>1, <3>2
    <2> QED BY <1>1, <1>3, <2>1, <2>3, <2>4, HoldsOn DEF Labels
  <1>9. CASE more.bit = 0 /\ length = n /\ At(Queue(more), h.w)
    <2>1. cx' = n + extra /\ pc' = "copy"
      BY <1>1, <1>9
    <2>2. At(bits, h.w)'
      BY <1>1, <1>9, SameStream
    <2>3. h.next = di' + cx' /\ cx' \in 0..(BufferSize + 1)
      <3> HIDE DEF extra
      <3>1. h.next = di + (n + extra) /\ n + extra \in 0..(BufferSize + 1)
        BY <1>2, <1>3, <1>4
      <3> QED BY <1>1, <2>1, <3>1
    <2>4. Stage(G)'
      BY <1>7, <2>1, <2>2, <2>3 DEF Stage, AtCopy
    <2> QED BY <1>1, <1>3, <2>1, <2>3, <2>4, HoldsOn DEF Labels
  <1> QED BY <1>6, <1>8, <1>9

\* A short match; the offset 0 is the end mark.
LEMMA ReadShortMatch ==
  ASSUME NEW G, Holding(G), ShortMatch, UNCHANGED writeVars
  PROVE  Holding(G)'
  <1> DEFINE t == TakeBit(bits)
             b == SrcByte(t.si)
  <1>1. /\ pc = "other" /\ t.bit = 0 /\ UNCHANGED <<port, src, mem, di, bx, window>>
        /\ bits' = [Queue(t) EXCEPT !.si = @ + 1] /\ dx' = b \div 2
        /\ IF b \div 2 = 0 THEN pc' = "done" /\ cx' = cx ELSE pc' = "copy" /\ cx' = 2 + (b % 2)
    BY DEF ShortMatch, writeVars
  <1> HIDE DEF t, b
  <1>2. PICK g \in G : /\ AtPlace(g) /\ At(bits, PutBits(g.w, 3, 2))
                       /\ Ends(g) \/ \E h \in G : AsShortLiteral(g, h) \/ AsShortMatch(g, h)
    BY <1>1, Facts DEF Stage, AtOther
  <1>3. /\ Good(g) /\ Sane(g.w) /\ src \in Seq(0..255) /\ window \in Chunks /\ di = g.next /\ di > 0 /\ di \in Nat
        /\ BufferSize \in Nat /\ bx \in {2, 3} /\ MemOK' /\ cx \in 0..(BufferSize + 1) /\ g.next <= BufferSize
    BY <1>1, <1>2, Facts, MemKept DEF AtPlace, Registers
  <1> DEFINE y == PutBits(g.w, 3, 2)
             z == PutBits(g.w, 6, 3)
  <1>4. z = PutBits(y, 0, 1) /\ PutBits(g.w, 7, 3) = PutBits(y, 1, 1) /\ 0 \in 0..1 /\ 1 \in 0..1 /\ At(bits, y)
    BY <1>2, <1>3, Codes
  <1> HIDE DEF y, z
  <1>5. ASSUME Begins(z, src), NEW c \in 0..255, Begins(Put(z, c), src)
        PROVE  b = c /\ bits' = Skip(Queue(t)) /\ At(bits', Put(z, c))
    <2>1. At(Queue(t), z)
      BY <1>3, <1>4, <1>5, BitRead DEF t
    <2>2. SrcByte(Queue(t).si) = c /\ At(Skip(Queue(t)), Put(z, c))
      BY <1>3, <1>5, <2>1, ByteRead
    <2>3. bits' = Skip(Queue(t)) /\ Queue(t).si = t.si
      BY <1>1 DEF Skip, Queue
    <2> QED BY <2>2, <2>3 DEF b
  <1>6. CASE Ends(g)
    <2>1. Begins(Put(z, 0), src) /\ Begins(z, src) /\ 0 \in 0..255
      BY <1>3, <1>6, AtEnd DEF z
    <2>2. b = 0 /\ At(bits', Put(z, 0))
      BY <1>5, <2>1
    <2>3. b \div 2 = 0
      BY <2>2
    <2>4. pc' = "done" /\ cx' = cx /\ dx' = 0
      BY <1>1, <2>3
    <2>5. AtDone'
      <3>1. At(bits, Put(z, 0))'
        BY <1>1, <2>2, SameStream
      <3>2. bits'.si = Len(Put(z, 0).out) + 1
        BY <2>2 DEF At, Behind
      <3>3. src = Put(z, 0).out /\ g.next = Len(window)
        BY <1>6 DEF Ends, z
      <3> QED BY <1>1, <1>3, <3>1, <3>2, <3>3 DEF AtDone
    <2>6. Stage(G)'
      BY <2>4, <2>5 DEF Stage
    <2>7. dx' \in 0..BufferSize
      BY <1>3, <2>4
    <2> QED BY <1>1, <1>3, <2>4, <2>6, <2>7, HoldsOn DEF Labels
  <1>7. ASSUME NEW h \in G, AsShortMatch(g, h)
        PROVE  Holding(G)'
    <2>1. Good(h) /\ Begins(h.w, src) /\ h.next \in Nat /\ h.next <= BufferSize
      BY Facts
    <2> DEFINE c == 2 * h.rep + (h.next - g.next) - 2
               l == h.next - g.next
               r == h.rep
    <2>2. Begins(z, src) /\ c \in 0..255 /\ r \in 1..g.next /\ l \in 2..3 /\ g.next \in Nat
      BY <1>3, <1>7, <2>1, AtShortMatch DEF z
    <2>3. h.w = Put(z, c) /\ AfterMatch(g, h)
      BY <1>7 DEF AsShortMatch, z
    <2>4. c = 2 * r + l - 2
      OBVIOUS
    <2>50. h.next = g.next + l
      BY <2>1, <2>2
    <2> HIDE DEF c, l, r
    <2>5. b = c /\ At(bits', h.w)
      BY <1>5, <2>1, <2>2, <2>3
    <2>6. c \div 2 = r /\ 2 + (c % 2) = l
      BY <2>2, <2>4
    <2>7. b \div 2 = r /\ r # 0
      BY <2>2, <2>5, <2>6
    <2>8. pc' = "copy" /\ cx' = l /\ dx' = h.rep
      BY <1>1, <2>5, <2>6, <2>7 DEF r
    <2>9. MatchAhead(h)'
      BY <1>1, <1>3, <2>3, <2>8, MatchFound
    <2>10. h.next = di' + cx'
      BY <1>1, <1>3, <2>8, <2>50
    <2>11. At(bits, h.w)'
      BY <1>1, <2>5, SameStream
    <2>12. Stage(G)'
      BY <2>8, <2>9, <2>10, <2>11 DEF Stage, AtCopy
    <2>13. dx' \in 0..BufferSize /\ cx' \in 0..(BufferSize + 1)
      BY <1>3, <2>1, <2>2, <2>8, <2>50 DEF r
    <2> QED BY <1>1, <1>3, <2>8, <2>12, <2>13, HoldsOn DEF Labels
  <1>8. ASSUME NEW h \in G, AsShortLiteral(g, h)
        PROVE  FALSE
    <2>1. PICK back \in 0..15 : FromBack(g, h, back)
      BY <1>8 DEF AsShortLiteral
    <2>2. Begins(PutBits(g.w, 7, 3), src)
      BY <1>3, <2>1, Facts, FromBackBegins
    <2>3. t.bit = 1
      BY <1>3, <1>4, <2>2, BitRead DEF t
    <2> QED BY <1>1, <2>3
  <1> QED BY <1>2, <1>6, <1>7, <1>8

LEMMA ReadShortLiteral ==
  ASSUME NEW G, Holding(G), ShortLiteral, UNCHANGED writeVars
  PROVE  Holding(G)'
  <1> DEFINE t == TakeBit(bits)
  <1>1. /\ pc = "other" /\ t.bit = 1 /\ UNCHANGED <<port, src, mem, di, dx, bx, window>>
        /\ bits' = Queue(t) /\ cx' = 0 /\ pc' = "back high"
    BY DEF ShortLiteral, writeVars
  <1> HIDE DEF t
  <1>2. PICK g \in G : /\ AtPlace(g) /\ At(bits, PutBits(g.w, 3, 2))
                       /\ Ends(g) \/ \E h \in G : AsShortLiteral(g, h) \/ AsShortMatch(g, h)
    BY <1>1, Facts DEF Stage, AtOther
  <1>3. Good(g) /\ Sane(g.w) /\ src \in Seq(0..255) /\ window \in Chunks /\ BufferSize \in Nat
    BY <1>2, Facts
  <1> DEFINE y == PutBits(g.w, 3, 2)
  <1>4. /\ PutBits(g.w, 6, 3) = PutBits(y, 0, 1) /\ PutBits(g.w, 7, 3) = PutBits(y, 1, 1)
        /\ 0 \in 0..1 /\ 1 \in 0..1 /\ At(bits, y)
    BY <1>2, <1>3, Codes
  <1> HIDE DEF y
  <1>5. ~Begins(PutBits(g.w, 6, 3), src)
    <2> SUFFICES ASSUME Begins(PutBits(g.w, 6, 3), src) PROVE FALSE
      OBVIOUS
    <2>1. t.bit = 0
      BY <1>3, <1>4, BitRead DEF t
    <2>2. t.bit = 1
      BY <1>1
    <2> QED BY <2>1, <2>2
  <1>6. PICK h \in G : AsShortLiteral(g, h)
    <2>1. ~Ends(g)
      BY <1>3, <1>5, AtEnd
    <2>2. \A h \in G : ~AsShortMatch(g, h)
      BY <1>3, <1>5, Facts, AtShortMatch
    <2> QED BY <1>2, <2>1, <2>2
  <1>7. PICK back \in 0..15 : FromBack(g, h, back)
    BY <1>6 DEF AsShortLiteral
  <1>8. At(bits', PutBits(g.w, 7, 3))
    <2>1. Begins(PutBits(g.w, 7, 3), src)
      BY <1>3, <1>7, Facts, FromBackBegins
    <2> QED BY <1>1, <1>3, <1>4, <2>1, BitRead DEF t
  <1>9. AtBackHigh(G)'
    <2>1. At(bits, PutBits(g.w, 7, 3))'
      BY <1>1, <1>8, SameStream
    <2>2. AtPlace(g)'
      BY <1>1, <1>2 DEF AtPlace, Bx
    <2>3. AfterLiteral(g, h)' /\ FromBack(g, h, back)'
      BY <1>1, <1>6, <1>7, SameCommands DEF AsShortLiteral
    <2> QED BY <2>1, <2>2, <2>3 DEF AtBackHigh
  <1>10. Stage(G)'
    BY <1>1, <1>9 DEF Stage
  <1>11. MemOK' /\ bx' \in {2, 3} /\ dx' \in 0..BufferSize /\ cx' \in 0..(BufferSize + 1)
    <2>1. MemOK' /\ bx' \in {2, 3} /\ dx' \in 0..BufferSize
      BY <1>1, Facts, MemKept DEF Registers
    <2>2. cx' = 0
      BY <1>1
    <2>3. cx' \in 0..(BufferSize + 1)
      BY <1>3, <2>2
    <2> QED BY <2>1, <2>3
  <1> QED BY <1>1, <1>10, <1>11, HoldsOn DEF Labels

\* The four bits of a short literal.
LEMMA ReadBackHigh ==
  ASSUME NEW G, Holding(G), BackHigh, UNCHANGED writeVars
  PROVE  Holding(G)'
  <1> DEFINE t == TakeBit(bits)
             u == TakeBit(Queue(t))
  <1>1. /\ pc = "back high" /\ UNCHANGED <<port, src, mem, di, dx, bx, window>>
        /\ bits' = Queue(u) /\ cx' = 2 * t.bit + u.bit /\ pc' = "back low"
    BY DEF BackHigh, writeVars
  <1>2. PICK g \in G, h \in G, back \in 0..15 : /\ AtPlace(g) /\ AfterLiteral(g, h) /\ FromBack(g, h, back)
                                                /\ At(bits, PutBits(g.w, 7, 3))
    BY <1>1, Facts DEF Stage, AtBackHigh
  <1>3. /\ Good(g) /\ Sane(g.w) /\ src \in Seq(0..255) /\ window \in Chunks /\ BufferSize \in Nat
        /\ g.next < Len(window) /\ di = g.next /\ di > 0 /\ di \in Nat /\ Len(window) \in Nat /\ Len(window) <= BufferSize
    BY <1>2, Facts DEF AfterLiteral, AtPlace
  <1> DEFINE s == PutBits(g.w, 7, 3)
             a == (back \div 4) \div 2
             c == (back \div 4) % 2
  <1>4. Begins(PutBits(s, back \div 4, 2), src) /\ At(bits, s)
    BY <1>2, <1>3, Facts, FromBackBegins
  <1>5. a \in 0..1 /\ c \in 0..1 /\ back \div 4 = 2 * a + c /\ back \div 4 \in 0..3
    OBVIOUS
  <1> HIDE DEF s, a, c
  <1>6. t.bit = a /\ u.bit = c /\ At(Queue(u), PutBits(s, back \div 4, 2))
    BY <1>3, <1>4, <1>5, BitsRead
  <1> HIDE DEF t, u
  <1>7. cx' = back \div 4
    BY <1>1, <1>5, <1>6
  <1>8. AtBackLow(G)'
    <2>1. At(bits, PutBits(s, back \div 4, 2))'
      BY <1>1, <1>6, SameStream
    <2>2. AtPlace(g)'
      BY <1>1, <1>2 DEF AtPlace, Bx
    <2>3. AfterLiteral(g, h)' /\ FromBack(g, h, back)'
      BY <1>1, <1>2, SameCommands
    <2> QED BY <1>7, <2>1, <2>2, <2>3 DEF AtBackLow, s
  <1>9. Stage(G)'
    BY <1>1, <1>8 DEF Stage
  <1>10. cx' \in 0..(BufferSize + 1)
    <2>1. BufferSize >= 2
      BY <1>3
    <2> QED BY <1>3, <1>5, <1>7, <2>1
  <1>11. MemOK' /\ bx' \in {2, 3} /\ dx' \in 0..BufferSize
    BY <1>1, <1>3, Facts, MemKept DEF Registers
  <1> QED BY <1>1, <1>9, <1>10, <1>11, HoldsOn DEF Labels

LEMMA ReadBackLow ==
  ASSUME NEW G, Holding(G), BackLow, UNCHANGED writeVars
  PROVE  Holding(G)'
  <1> DEFINE t == TakeBit(bits)
             u == TakeBit(Queue(t))
             far == 4 * cx + 2 * t.bit + u.bit
             b == IF far = 0 THEN 0 ELSE mem[di - far]
  <1>1. /\ pc = "back low" /\ UNCHANGED <<port, src, cx, dx, window>>
        /\ bits' = Queue(u) /\ PutByte(b) /\ bx' = 3 /\ pc' = "command"
    BY DEF BackLow, writeVars
  <1>2. PICK g \in G, h \in G, back \in 0..15 :
          /\ AtPlace(g) /\ AfterLiteral(g, h) /\ FromBack(g, h, back)
          /\ cx = back \div 4 /\ At(bits, PutBits(PutBits(g.w, 7, 3), back \div 4, 2))
    BY <1>1, Facts DEF Stage, AtBackLow
  <1>3. /\ Good(g) /\ src \in Seq(0..255) /\ window \in Chunks /\ BufferSize \in Nat /\ MemOK
        /\ g.next < Len(window) /\ di = g.next /\ di > 0 /\ di \in Nat /\ Len(window) \in Nat /\ Len(window) <= BufferSize
        /\ Begins(h.w, src) /\ dx = g.rep
    BY <1>2, Facts DEF AfterLiteral, AtPlace
  <1> DEFINE s == PutBits(PutBits(g.w, 7, 3), back \div 4, 2)
             a == (back % 4) \div 2
             c == (back % 4) % 2
  <1>4. h.w = PutBits(s, back % 4, 2) /\ At(bits, s)
    BY <1>2, <1>3, FromBackBegins
  <1>5. a \in 0..1 /\ c \in 0..1 /\ back % 4 = 2 * a + c /\ back = 4 * (back \div 4) + 2 * a + c
    OBVIOUS
  <1> HIDE DEF s, a, c
  <1>6. t.bit = a /\ u.bit = c /\ At(Queue(u), h.w)
    BY <1>3, <1>4, <1>5, BitsRead
  <1> HIDE DEF t, u
  <1>7. far = back
    BY <1>2, <1>5, <1>6
  <1>8. b = window[di + 1]
    <2>1. back <= di /\ window[di + 1] = IF back = 0 THEN 0 ELSE window[di + 1 - back]
      BY <1>2, <1>3 DEF FromBack
    <2>2. CASE back = 0
      BY <1>7, <2>1, <2>2
    <2>3. CASE back # 0
      <3> DEFINE d == di - back
      <3>0. back \in Nat /\ back >= 1 /\ back <= di
        BY <2>1, <2>3
      <3>1. d \in 0..(BufferSize - 1) /\ d < di /\ d + 1 = di + 1 - back
        BY <1>3, <3>0
      <3> HIDE DEF d
      <3>2. mem[d] = window[d + 1]
        BY <1>3, <3>1 DEF MemOK
      <3>3. b = mem[d] /\ window[di + 1] = window[d + 1]
        BY <1>7, <2>1, <2>3, <3>1 DEF d
      <3> QED BY <3>2, <3>3
    <2> QED BY <2>2, <2>3
  <1> HIDE DEF far, b
  <1>9. MemOK' /\ di' = di + 1
    BY <1>1, <1>3, <1>8, BytePut
  <1>10. AtCommand(G)'
    <2>1. At(bits, h.w)'
      BY <1>1, <1>6, SameStream
    <2>2. h.next = di + 1 /\ h.follows = TRUE /\ h.rep = dx
      BY <1>2, <1>3 DEF AfterLiteral
    <2>3. Bx(h) = 3
      BY <2>2 DEF Bx
    <2>4. AtPlace(h)'
      <3>1. di' > 0
        BY <1>3, <1>9
      <3> QED BY <1>1, <1>9, <2>2, <2>3, <3>1 DEF AtPlace, Bx
    <2> QED BY <2>1, <2>4 DEF AtCommand
  <1>11. Stage(G)'
    BY <1>1, <1>10 DEF Stage
  <1>12. bx' \in {2, 3} /\ dx' \in 0..BufferSize /\ cx' \in 0..(BufferSize + 1)
    BY <1>1, Facts DEF Registers
  <1> QED BY <1>1, <1>9, <1>11, <1>12, HoldsOn DEF Labels

LEMMA BeginsCopy ==
  ASSUME NEW G, Holding(G), StartCopy, UNCHANGED writeVars
  PROVE  Holding(G)'
  <1>1. /\ pc = "copy" /\ UNCHANGED <<port, src, mem, bits, di, cx, dx, bx, window>> /\ si' = di - dx
        /\ pc' = IF Blocks THEN "block" ELSE "bytes"
    BY DEF StartCopy, writeVars
  <1>2. PICK h \in G : At(bits, h.w) /\ MatchAhead(h) /\ h.next = di + cx
    BY <1>1, Facts DEF Stage, AtCopy
  <1>3. (At(bits, h.w) /\ MatchAhead(h) /\ h.next = di + cx)'
    <2>1. At(bits, h.w)'
      BY <1>1, <1>2, SameStream
    <2>2. MatchAhead(h)'
      BY <1>1, <1>2 DEF MatchAhead
    <2> QED BY <1>1, <1>2, <2>1, <2>2
  <1>4. pc' = "block" => InBlocks'
    BY <1>1 DEF Blocks, InBlocks
  <1>5. AtCopy(G)' /\ (si = di - dx)'
    BY <1>1, <1>3 DEF AtCopy
  <1>6. pc' \in {"block", "bytes"}
    BY <1>1
  <1>7. Stage(G)'
    BY <1>4, <1>5, <1>6 DEF Stage
  <1>8. MemOK' /\ bx' \in {2, 3} /\ dx' \in 0..BufferSize /\ cx' \in 0..(BufferSize + 1)
    BY <1>1, Facts, MemKept DEF Registers
  <1> QED BY <1>1, <1>6, <1>7, <1>8, HoldsOn DEF Labels

\* Part of the match copied: the rest of it is still a match of what is there.
LEMMA Copied ==
  ASSUME NEW G, Holding(G), pc \in {"block", "bytes"}, NEW h \in G, At(bits, h.w), MatchAhead(h), h.next = di + cx,
         NEW n \in Nat, n <= cx, di' = di + n, cx' = cx - n, si' = si + n,
         UNCHANGED <<port, src, bits, dx, bx, window>>
  PROVE  AtCopy(G)' /\ (si = di - dx)' /\ cx' \in 0..(BufferSize + 1) /\ dx' \in 0..BufferSize /\ bx' \in {2, 3}
  <1>1. di \in Nat /\ cx \in 0..(BufferSize + 1) /\ BufferSize \in Nat /\ dx \in Nat /\ dx \in 0..BufferSize
        /\ bx \in {2, 3} /\ si = di - dx /\ Len(window) \in Nat
    <2>1. di \in Nat /\ cx \in 0..(BufferSize + 1) /\ BufferSize \in Nat /\ dx \in 0..BufferSize
          /\ bx \in {2, 3} /\ Len(window) \in Nat
      BY Facts DEF Registers
    <2>2. si = di - dx
      BY Facts DEF Stage
    <2> QED BY <2>1, <2>2
  <1>2. dx = h.rep /\ dx \in 1..di /\ h.next \in di..Len(window) /\ h.follows = FALSE
        /\ \A k \in (di + 1)..h.next : window[k] = window[k - dx]
    BY DEF MatchAhead
  <1>3. dx \in 1..(di + n) /\ h.next \in (di + n)..Len(window)
    BY <1>1, <1>2
  <1>4. \A k \in (di + n + 1)..h.next : window[k] = window[k - dx]
    BY <1>1, <1>2
  <1>5. MatchAhead(h)'
    BY <1>2, <1>3, <1>4 DEF MatchAhead
  <1>6. At(bits, h.w)'
    BY SameStream
  <1>7. h.next = di' + cx' /\ si' = di' - dx' /\ cx' \in 0..(BufferSize + 1)
    BY <1>1
  <1> QED BY <1>1, <1>5, <1>6, <1>7 DEF AtCopy

\* A block reads only bytes of g_buf that are already there, since it is no wider than the
\* offset; the match says that they are the bytes wanted.
LEMMA CopiesBlock ==
  ASSUME NEW G, Holding(G), CopyBlock, UNCHANGED writeVars
  PROVE  Holding(G)'
  <1> DEFINE n == Width[port]
  <1>1. /\ pc = "block" /\ UNCHANGED <<port, src, bits, dx, bx, window>>
        /\ mem' = [a \in DOMAIN mem |-> IF a \in di..(di + n - 1) THEN mem[si + (a - di)] ELSE mem[a]]
        /\ si' = si + n /\ di' = di + n /\ cx' = cx - n
        /\ pc' = IF cx - n >= n THEN "block" ELSE "bytes"
    BY DEF CopyBlock, writeVars
  <1>2. PICK h \in G : At(bits, h.w) /\ MatchAhead(h) /\ h.next = di + cx
    BY <1>1, Facts DEF Stage, AtCopy
  <1>3. n > 0 /\ n <= cx /\ n <= dx /\ n \in Nat
    <2>1. n \in Nat /\ cx \in Nat /\ dx \in Nat
      BY Facts, FormatAssumption DEF Registers
    <2>2. n > 0 /\ cx >= n /\ dx >= n
      BY <1>1, Facts DEF Stage, InBlocks
    <2> QED BY <2>1, <2>2
  <1> HIDE DEF n
  <1>4. AtCopy(G)' /\ (si = di - dx)' /\ cx' \in 0..(BufferSize + 1) /\ dx' \in 0..BufferSize /\ bx' \in {2, 3}
    BY <1>1, <1>2, <1>3, Copied
  <1>5. MemOK'
    <2>1. /\ di \in Nat /\ cx \in Nat /\ dx \in 1..di /\ h.next \in di..Len(window) /\ si = di - dx
          /\ Len(window) \in Nat /\ Len(window) <= BufferSize /\ BufferSize \in Nat
          /\ DOMAIN mem = 0..(BufferSize - 1)
          /\ \A a \in 0..(BufferSize - 1) : mem[a] = IF a < di THEN window[a + 1] ELSE Old
          /\ \A k \in (di + 1)..h.next : window[k] = window[k - dx]
      BY <1>1, <1>2, Facts DEF Stage, MatchAhead, MemOK, Registers
    <2>2. di + n \in 0..Len(window)
      BY <1>2, <1>3, <2>1
    <2>3. ASSUME NEW a \in 0..(BufferSize - 1)
          PROVE  mem'[a] = IF a < di + n THEN window[a + 1] ELSE Old
      <3>1. CASE a \in di..(di + n - 1)
        <4> DEFINE d == a - dx
        <4>1. d \in 0..(BufferSize - 1) /\ d < di /\ d = si + (a - di) /\ a < di + n
          BY <1>3, <2>1, <3>1
        <4>2. a + 1 \in (di + 1)..h.next /\ d + 1 = (a + 1) - dx
          BY <1>2, <1>3, <2>1, <3>1
        <4> HIDE DEF d
        <4>3. mem[d] = window[d + 1] /\ window[a + 1] = window[d + 1]
          BY <2>1, <4>1, <4>2
        <4>4. mem'[a] = mem[d]
          BY <1>1, <2>1, <3>1, <4>1
        <4> QED BY <4>1, <4>3, <4>4
      <3>2. CASE a \notin di..(di + n - 1)
        <4>1. mem'[a] = mem[a]
          BY <1>1, <2>1, <3>2
        <4>2. a < di + n <=> a < di
          BY <1>3, <2>1, <3>2
        <4> QED BY <2>1, <4>1, <4>2
      <3> QED BY <3>1, <3>2
    <2>4. DOMAIN mem' = 0..(BufferSize - 1)
      BY <1>1, <2>1
    <2> QED BY <1>1, <2>2, <2>3, <2>4 DEF MemOK
  <1>6. pc' = "block" => InBlocks'
    BY <1>1, <1>3 DEF InBlocks, n
  <1>7. pc' \in {"block", "bytes"}
    BY <1>1
  <1>8. Stage(G)'
    BY <1>4, <1>6, <1>7 DEF Stage
  <1> QED BY <1>1, <1>4, <1>5, <1>7, <1>8, HoldsOn DEF Labels

LEMMA CopiesByte ==
  ASSUME NEW G, Holding(G), CopyByte, UNCHANGED writeVars
  PROVE  Holding(G)'
  <1>1. /\ pc = "bytes" /\ pc' = "bytes" /\ cx > 0 /\ UNCHANGED <<port, src, bits, dx, bx, window>>
        /\ PutByte(mem[si]) /\ si' = si + 1 /\ cx' = cx - 1
    BY DEF CopyByte, writeVars
  <1>2. PICK h \in G : At(bits, h.w) /\ MatchAhead(h) /\ h.next = di + cx
    BY <1>1, Facts DEF Stage, AtCopy
  <1>3. /\ di \in Nat /\ cx \in Nat /\ dx \in 1..di /\ h.next \in di..Len(window) /\ si = di - dx
        /\ Len(window) \in Nat /\ Len(window) <= BufferSize /\ BufferSize \in Nat /\ MemOK /\ window \in Chunks
        /\ \A k \in (di + 1)..h.next : window[k] = window[k - dx]
    BY <1>1, <1>2, Facts DEF Stage, MatchAhead, Registers
  <1>4. mem[si] = window[di + 1] /\ di < Len(window)
    <2>1. si \in 0..(BufferSize - 1) /\ si < di /\ di + 1 \in (di + 1)..h.next /\ di + 1 - dx = si + 1 /\ di < Len(window)
      BY <1>1, <1>2, <1>3
    <2>2. mem[si] = window[si + 1]
      BY <1>3, <2>1 DEF MemOK
    <2>3. window[di + 1] = window[di + 1 - dx]
      BY <1>3, <2>1
    <2> QED BY <2>1, <2>2, <2>3
  <1>5. MemOK' /\ di' = di + 1
    BY <1>1, <1>3, <1>4, BytePut
  <1>6. AtCopy(G)' /\ (si = di - dx)' /\ cx' \in 0..(BufferSize + 1) /\ dx' \in 0..BufferSize /\ bx' \in {2, 3}
    <2>1. 1 \in Nat /\ 1 <= cx
      BY <1>1, <1>3
    <2> QED BY <1>1, <1>2, <1>5, <2>1, Copied
  <1>7. Stage(G)'
    BY <1>1, <1>6 DEF Stage
  <1> QED BY <1>1, <1>5, <1>6, <1>7, HoldsOn DEF Labels

LEMMA EndsCopy ==
  ASSUME NEW G, Holding(G), CopyEnds, UNCHANGED writeVars
  PROVE  Holding(G)'
  <1>1. /\ pc = "bytes" /\ cx = 0 /\ bx' = 2 /\ pc' = "command"
        /\ UNCHANGED <<port, src, mem, bits, di, cx, dx, window>>
    BY DEF CopyEnds, writeVars
  <1>2. PICK h \in G : At(bits, h.w) /\ MatchAhead(h) /\ h.next = di + cx
    BY <1>1, Facts DEF Stage, AtCopy
  <1>3. di \in Nat /\ di > 0 /\ dx = h.rep /\ h.follows = FALSE
    BY <1>2, Facts DEF MatchAhead
  <1>4. h.next = di
    BY <1>1, <1>2, <1>3
  <1>5. Bx(h) = 2
    BY <1>3, <1>4 DEF Bx
  <1>6. AtPlace(h)'
    BY <1>1, <1>3, <1>4, <1>5 DEF AtPlace, Bx
  <1>7. At(bits, h.w)'
    BY <1>1, <1>2, SameStream
  <1>8. Stage(G)'
    BY <1>1, <1>6, <1>7 DEF Stage, AtCommand
  <1>9. MemOK' /\ dx' \in 0..BufferSize /\ cx' \in 0..(BufferSize + 1)
    BY <1>1, Facts, MemKept DEF Registers
  <1> QED BY <1>1, <1>8, <1>9, HoldsOn DEF Labels

----------------------------------------------------------------------------
(* The chunk.                                                              *)

\* The invariant is inductive.
LEMMA ChunkInitHolds == Init => ChunkInv
  <1> SUFFICES ASSUME Init PROVE ChunkInv
    OBVIOUS
  <1>1. /\ window \in Chunks /\ next = 0 /\ w = [out |-> <<>>, at |-> 0, shift |-> -1] /\ rep = 0 /\ follows = FALSE
        /\ port \in {CHOOSE p \in Ports : TRUE} /\ mem = [a \in 0..(BufferSize - 1) |-> Old] /\ pc = "writing"
        /\ bits = [al |-> 128, si |-> 1] /\ di = 0 /\ cx = 0 /\ dx = 0 /\ bx = 3
    BY DEF Init, DepackInit
  <1>2. BufferSize \in Nat /\ Len(window) \in Nat
    BY <1>1, WindowType
  <1>3. port \in Ports
    BY <1>1, NumbersAssumption
  <1>4. Registers
    BY <1>1, <1>2, <1>3 DEF Registers
  <1>5. MemOK
    BY <1>1, <1>2 DEF MemOK
  <1>6. Good(Start) /\ Sane(Start.w) /\ Here = Start /\ Start.w = w
    BY <1>1, StartIsGood DEF Here, Start, Place
  <1>7. \A f \in Seq(0..255) : Begins(w, f) => Begins(w, f)
    OBVIOUS
  <1>8. Onward(Start.w, w)
    BY <1>6, <1>7 DEF Onward
  <1>9. Trail({Start})
    BY <1>6, <1>8 DEF Trail
  <1>10. WriteInv
    BY <1>1, <1>9 DEF WriteInv
  <1> QED BY <1>1, <1>4, <1>5, <1>6, <1>10 DEF ChunkInv

LEMMA WriteHolds ==
  ASSUME ChunkInv, Write
  PROVE  ChunkInv'
  <1>1. pc = "writing" /\ window \in Chunks /\ MemOK /\ Registers
    BY DEF ChunkInv, Write, WriteFirst, WriteLiteral, WriteShortLiteral, WriteRepeat, WriteShortMatch, WriteLargeMatch,
           WriteEnd, Writing
  <1>2. WriteInv
    BY <1>1 DEF ChunkInv, Reading, Labels
  <1>3. CASE WriteEnd
    <2>1. \E G : Holding(G)'
      BY <1>1, <1>2, <1>3, BeginHolds
    <2>2. Sane(w')
      <3>1. w' = Put(PutBits(w, 6, 3), 0)
        BY <1>3 DEF WriteEnd
      <3>2. 6 \in 0..7 /\ 0 \in 0..255 /\ 6 <= 7
        OBVIOUS
      <3> QED BY <1>1, <1>2, <3>1, <3>2, HereIsGood, OnwardCoded DEF Onward
    <2>3. Sane(w)'
      BY <2>2 DEF Sane, Streams
    <2> QED BY <2>1, <2>3 DEF Holding, ChunkInv
  <1>4. CASE WriteFirst \/ WriteLiteral \/ WriteShortLiteral \/ WriteRepeat \/ WriteShortMatch \/ WriteLargeMatch
    <2>1. WriteInv'
      BY <1>1, <1>2, <1>4, FirstHolds, LiteralHolds, ShortLiteralHolds, RepeatHolds, ShortMatchHolds, LargeMatchHolds
    <2>2. UNCHANGED <<window, port, mem, pc, di, cx, dx, bx>>
      BY <1>4 DEF WriteFirst, WriteLiteral, WriteShortLiteral, WriteRepeat, WriteShortMatch, WriteLargeMatch,
                  WriteMatch, depackVars
    <2>3. Registers' /\ MemOK'
      BY <1>1, <2>2, MemKept DEF Registers
    <2>4. Sane(w)'
      <3>1. PICK G : Trail(G)'
        BY <2>1 DEF WriteInv
      <3>2. PICK z : z = Here'
        OBVIOUS
      <3>3. z \in G /\ Good(z)'
        BY <3>1, <3>2 DEF Trail
      <3>4. z.w = w'
        BY <3>2, HereIs
      <3> QED BY <3>3, <3>4 DEF Good, Sane, Streams
    <2> QED BY <1>1, <2>1, <2>2, <2>3, <2>4 DEF ChunkInv
  <1> QED BY <1>3, <1>4 DEF Write

LEMMA ReadHolds ==
  ASSUME NEW G, Holding(G), Depack, UNCHANGED writeVars
  PROVE  Holding(G)'
  <1>1. CASE Command
    BY <1>1, ReadFirstBit, ReadSecondBit DEF Command
  <1> QED BY <1>1, ReadLiteral, ReadHighPart, ReadLength, ReadShortMatch, ReadShortLiteral, ReadBackHigh, ReadBackLow,
             BeginsCopy, CopiesBlock, CopiesByte, EndsCopy DEF Depack

LEMMA ChunkStutterHolds ==
  ASSUME ChunkInv, UNCHANGED vars
  PROVE  ChunkInv'
  <1>1. /\ UNCHANGED <<window, next, w, rep, follows, matches, shorts>>
        /\ UNCHANGED <<port, src, mem, pc, bits, di, si, cx, dx, bx, from, upto>>
    BY DEF vars, writeVars, depackVars
  <1>2. window \in Chunks /\ window' \in Chunks /\ MemOK /\ MemOK' /\ Registers /\ Registers' /\ Sane(w) /\ Sane(w)'
    BY <1>1, MemKept DEF ChunkInv, Registers, Sane, Streams
  <1>3. CASE pc = "writing" /\ WriteInv
    <2>1. PICK G : Trail(G)
      BY <1>3 DEF WriteInv
    <2>2. Here' = Here /\ Start' = Start
      BY <1>1 DEF Here, Start, Place
    <2>3. \A g : Onward(g.w, w)' <=> Onward(g.w, w)
      BY <1>1 DEF Onward, Sane, Begins, Streams
    <2>4. Trail(G)'
      <3>1. ASSUME NEW g \in G
            PROVE  Good(g)' /\ Onward(g.w, w)' /\ (g = Here \/ \E h \in G : Leads(g, h)')
        BY <1>1, <2>1, <2>3, SameWays DEF Trail
      <3> QED BY <2>1, <2>2, <3>1 DEF Trail
    <2>5. WriteInv'
      BY <1>1, <1>3, <2>4 DEF WriteInv
    <2> QED BY <1>1, <1>2, <1>3, <2>5 DEF ChunkInv
  <1>4. ASSUME NEW G, Reading(G)
        PROVE  ChunkInv'
    <2>1. Stage(G) /\ Holding(G)
      BY <1>2, <1>4 DEF Reading, Holding
    <2>2. \A s : At(bits, s) => At(bits, s)'
      BY <1>1, SameStream
    <2>3. \A n, t : InGamma(bits, cx, n, t) => InGamma(bits, cx, n, t)'
      BY <1>1, SameStream
    <2>4. \A g : (AtPlace(g) => AtPlace(g)') /\ (MatchAhead(g) => MatchAhead(g)') /\ (Ends(g) => Ends(g)')
      BY <1>1 DEF AtPlace, Bx, MatchAhead, Ends
    <2>5. AtLiteral(G) => AtLiteral(G)'
      <3>1. \A h : LiteralAhead(h) => LiteralAhead(h)'
        BY <1>1, <2>2 DEF LiteralAhead
      <3> QED BY <3>1 DEF AtLiteral
    <2>6. AtCommand(G) => AtCommand(G)'
      BY <2>2, <2>4 DEF AtCommand
    <2>7. AtMatch(G) => AtMatch(G)'
      <3> SUFFICES ASSUME AtMatch(G) PROVE AtMatch(G)'
        OBVIOUS
      <3>1. PICK g \in G :
          /\ AtPlace(g) /\ At(bits, PutBits(g.w, 1, 1)) /\ cx = 1
          /\ Ends(g) \/ \E h \in G : AsShortLiteral(g, h) \/ AsRepeat(g, h) \/ AsShortMatch(g, h) \/ AsLargeMatch(g, h)
        BY DEF AtMatch
      <3>2. (Ends(g) \/ \E h \in G : AsShortLiteral(g, h) \/ AsRepeat(g, h) \/ AsShortMatch(g, h) \/ AsLargeMatch(g, h))'
        BY <1>1, <2>4, <3>1, SameCommands
      <3>3. (AtPlace(g) /\ At(bits, PutBits(g.w, 1, 1)) /\ cx = 1)'
        BY <1>1, <2>2, <2>4, <3>1
      <3> QED BY <3>2, <3>3 DEF AtMatch
    <2>8. AtHigh(G) => AtHigh(G)'
      <3> SUFFICES ASSUME AtHigh(G) PROVE AtHigh(G)'
        OBVIOUS
      <3>1. PICK g \in G, h \in G : AtPlace(g) /\ OnTurn(g, h)
        BY DEF AtHigh
      <3>2. CASE AsRepeat(g, h) /\ InGamma(bits, cx, 2, PutBits(PutBits(g.w, 2, 2), 0, 2))
        <4>1. OnTurn(g, h)'
          BY <1>1, <2>3, <3>2, SameCommands DEF OnTurn
        <4> QED BY <2>4, <3>1, <4>1 DEF AtHigh
      <3>3. CASE AsLargeMatch(g, h) /\ InGamma(bits, cx, High(g, h), PutGamma(PutBits(g.w, 2, 2), High(g, h)))
        <4> DEFINE n == High(g, h)
                   z == PutGamma(PutBits(g.w, 2, 2), n)
        <4>1. InGamma(bits, cx, n, z)
          BY <3>3
        <4> HIDE DEF n
        <4>2. InGamma(bits, cx, n, z)' /\ High(g, h)' = n /\ AsLargeMatch(g, h)'
          BY <1>1, <2>3, <3>3, <4>1, SameCommands DEF n
        <4>3. OnTurn(g, h)'
          BY <4>2 DEF OnTurn
        <4> QED BY <2>4, <3>1, <4>3 DEF AtHigh
      <3> QED BY <3>1, <3>2, <3>3 DEF OnTurn
    <2>9. (AtLength(G) => AtLength(G)') /\ (AtRepeat(G) => AtRepeat(G)')
      <3>1. AtLength(G) => AtLength(G)'
        BY <1>1, <2>3, <2>4 DEF AtLength, ImpliedLength
      <3>2. AtRepeat(G) => AtRepeat(G)'
        BY <1>1, <2>3, <2>4 DEF AtRepeat
      <3> QED BY <3>1, <3>2
    <2>10. AtOther(G) => AtOther(G)'
      <3> SUFFICES ASSUME AtOther(G) PROVE AtOther(G)'
        OBVIOUS
      <3>1. PICK g \in G : /\ AtPlace(g) /\ At(bits, PutBits(g.w, 3, 2))
                           /\ Ends(g) \/ \E h \in G : AsShortLiteral(g, h) \/ AsShortMatch(g, h)
        BY DEF AtOther
      <3>2. (Ends(g) \/ \E h \in G : AsShortLiteral(g, h) \/ AsShortMatch(g, h))'
        BY <1>1, <2>4, <3>1, SameCommands
      <3>3. (AtPlace(g) /\ At(bits, PutBits(g.w, 3, 2)))'
        BY <2>2, <2>4, <3>1
      <3> QED BY <3>2, <3>3 DEF AtOther
    <2>11. (AtBackHigh(G) => AtBackHigh(G)') /\ (AtBackLow(G) => AtBackLow(G)')
      <3>1. AtBackHigh(G) => AtBackHigh(G)'
        <4> SUFFICES ASSUME AtBackHigh(G) PROVE AtBackHigh(G)'
          OBVIOUS
        <4>1. PICK g \in G, h \in G, back \in 0..15 : /\ AtPlace(g) /\ AfterLiteral(g, h) /\ FromBack(g, h, back)
                                                      /\ At(bits, PutBits(g.w, 7, 3))
          BY DEF AtBackHigh
        <4>2. (AtPlace(g) /\ AfterLiteral(g, h) /\ FromBack(g, h, back) /\ At(bits, PutBits(g.w, 7, 3)))'
          BY <1>1, <2>2, <2>4, <4>1, SameCommands
        <4> QED BY <4>2 DEF AtBackHigh
      <3>2. AtBackLow(G) => AtBackLow(G)'
        <4> SUFFICES ASSUME AtBackLow(G) PROVE AtBackLow(G)'
          OBVIOUS
        <4>1. PICK g \in G, h \in G, back \in 0..15 :
                /\ AtPlace(g) /\ AfterLiteral(g, h) /\ FromBack(g, h, back)
                /\ cx = back \div 4 /\ At(bits, PutBits(PutBits(g.w, 7, 3), back \div 4, 2))
          BY DEF AtBackLow
        <4>2. (/\ AtPlace(g) /\ AfterLiteral(g, h) /\ FromBack(g, h, back)
               /\ cx = back \div 4 /\ At(bits, PutBits(PutBits(g.w, 7, 3), back \div 4, 2)))'
          BY <1>1, <2>2, <2>4, <4>1, SameCommands
        <4> QED BY <4>2 DEF AtBackLow
      <3> QED BY <3>1, <3>2
    <2>12. AtCopy(G) => AtCopy(G)'
      BY <1>1, <2>2, <2>4 DEF AtCopy
    <2>13. (AtDone => AtDone') /\ (InBlocks => InBlocks')
      BY <1>1, <2>2 DEF AtDone, InBlocks
    <2>14. Stage(G)'
      <3>1. (/\ pc = "literal" => AtLiteral(G)
             /\ pc = "command" => AtCommand(G)
             /\ pc = "match" => AtMatch(G)
             /\ pc = "high" => AtHigh(G)
             /\ pc = "length" => AtLength(G)
             /\ pc = "repeat" => AtRepeat(G))'
        BY <1>1, <2>1, <2>5, <2>6, <2>7, <2>8, <2>9 DEF Stage
      <3>2. (/\ pc = "other" => AtOther(G)
             /\ pc = "back high" => AtBackHigh(G)
             /\ pc = "back low" => AtBackLow(G)
             /\ pc = "copy" => AtCopy(G)
             /\ pc \in {"block", "bytes"} => AtCopy(G) /\ si = di - dx
             /\ pc = "block" => InBlocks
             /\ pc = "done" => AtDone)'
        BY <1>1, <2>1, <2>10, <2>11, <2>12, <2>13 DEF Stage
      <3> QED BY <3>1, <3>2 DEF Stage
    <2>15. Map(G)'
      BY <1>1, <1>4, SameMap DEF Reading
    <2>16. Reading(G)'
      BY <1>1, <1>4, <2>14, <2>15 DEF Reading, Labels
    <2> QED BY <1>2, <2>16 DEF ChunkInv
  <1> QED BY <1>3, <1>4 DEF ChunkInv

LEMMA ChunkNextHolds == ChunkInv /\ [Next]_vars => ChunkInv'
  <1> SUFFICES ASSUME ChunkInv, [Next]_vars PROVE ChunkInv'
    OBVIOUS
  <1>1. CASE Depack /\ UNCHANGED writeVars
    <2>1. pc # "writing"
      BY <1>1 DEF Depack, Literal, Command, HighPart, Length, ShortMatch, ShortLiteral, BackHigh, BackLow,
                  StartCopy, CopyBlock, CopyByte, CopyEnds
    <2>2. PICK G : Holding(G)
      BY <2>1 DEF ChunkInv, Holding
    <2>3. Holding(G)'
      BY <1>1, <2>2, ReadHolds
    <2>4. Sane(w)'
      BY <1>1 DEF ChunkInv, writeVars, Sane, Streams
    <2> QED BY <2>3, <2>4 DEF ChunkInv, Holding
  <1> QED BY <1>1, WriteHolds, ChunkStutterHolds DEF Next, Stopped

\* The bit queue lies within the stream.
LEMMA QueueType ==
  ASSUME src \in Seq(0..255), NEW q, NEW s, At(q, s)
  PROVE  q.al \in 0..255 /\ q.si \in 1..(Len(src) + 1)
  <1>1. /\ Len(s.out) \in Nat /\ Len(src) \in Nat /\ Len(s.out) <= Len(src) /\ s.shift \in -1..6
        /\ (s.shift >= 0 => s.at \in 1..Len(s.out)) /\ q = Behind(s, src)
    BY LenProperties DEF At, Sane, Streams, Begins
  <1>2. q.si = Len(s.out) + 1 /\ q.al = IF s.shift = -1 THEN 128 ELSE Queued(src[s.at], s.shift)
    BY <1>1 DEF Behind
  <1>4. q.si \in 1..(Len(src) + 1)
    <2> DEFINE n == Len(s.out)
               m == Len(src)
    <2>1. n \in Nat /\ m \in Nat /\ n <= m /\ q.si = n + 1
      BY <1>1, <1>2
    <2> HIDE DEF n, m
    <2>2. q.si \in 1..(m + 1)
      BY <2>1
    <2> QED BY <2>2 DEF m
  <1>3. CASE s.shift # -1
    <2> DEFINE b == src[s.at]
               h == s.shift
    <2>1. b \in 0..255
      <3>1. s.at \in 1..Len(src)
        BY <1>1, <1>3
      <3> QED BY <3>1, ElementOfSeq
    <2>2. h \in 0..6
      BY <1>1, <1>3
    <2> HIDE DEF b, h
    <2>3. Queued(b, h) \in 0..255
      <3>1. CASE h = 0 BY <2>1, <3>1 DEF Queued, Pow
      <3>2. CASE h = 1 BY <2>1, <3>2 DEF Queued, Pow
      <3>3. CASE h = 2 BY <2>1, <3>3 DEF Queued, Pow
      <3>4. CASE h = 3 BY <2>1, <3>4 DEF Queued, Pow
      <3>5. CASE h = 4 BY <2>1, <3>5 DEF Queued, Pow
      <3>6. CASE h = 5 BY <2>1, <3>6 DEF Queued, Pow
      <3>7. CASE h = 6 BY <2>1, <3>7 DEF Queued, Pow
      <3> QED BY <2>2, <3>1, <3>2, <3>3, <3>4, <3>5, <3>6, <3>7
    <2>4. q.al = Queued(b, h)
      BY <1>2, <1>3 DEF b, h
    <2> QED BY <1>4, <2>3, <2>4
  <1>5. CASE s.shift = -1
    <2>1. q.al = 128
      BY <1>2, <1>5
    <2> QED BY <1>4, <2>1
  <1> QED BY <1>3, <1>5

\* Whatever the decoder does next, its queue stands at a place of the stream.
LEMMA Synced ==
  ASSUME NEW G, Reading(G)
  PROVE  \E s : At(bits, s)
  <1>1. Stage(G) /\ pc \in Labels
    BY DEF Reading
  <1>2. CASE pc = "literal"
    BY <1>1, <1>2 DEF Stage, AtLiteral, LiteralAhead
  <1>3. CASE pc = "command"
    BY <1>1, <1>3 DEF Stage, AtCommand
  <1>4. CASE pc = "match"
    BY <1>1, <1>4 DEF Stage, AtMatch
  <1>5. CASE pc = "high"
    BY <1>1, <1>5 DEF Stage, AtHigh, OnTurn, InGamma
  <1>6. CASE pc \in {"length", "repeat"}
    BY <1>1, <1>6 DEF Stage, AtLength, AtRepeat, InGamma
  <1>7. CASE pc = "other"
    BY <1>1, <1>7 DEF Stage, AtOther
  <1>8. CASE pc \in {"back high", "back low"}
    BY <1>1, <1>8 DEF Stage, AtBackHigh, AtBackLow
  <1>9. CASE pc \in {"copy", "block", "bytes"}
    BY <1>1, <1>9 DEF Stage, AtCopy
  <1>10. CASE pc = "done"
    BY <1>1, <1>10 DEF Stage, AtDone
  <1> QED BY <1>1, <1>2, <1>3, <1>4, <1>5, <1>6, <1>7, <1>8, <1>9, <1>10 DEF Labels

LEMMA TypeFollows == ChunkInv => TypeOK
  <1> SUFFICES ASSUME ChunkInv PROVE TypeOK
    OBVIOUS
  <1>1. w.shift \in -1..7 /\ \A k \in 1..Len(w.out) : w.out[k] \in 0..255
    <2>1. w.shift \in -1..6 /\ w.out \in Seq(0..255)
      BY DEF ChunkInv, Sane, Streams
    <2> DEFINE q == w.out
    <2>2. q \in Seq(0..255)
      BY <2>1
    <2> HIDE DEF q
    <2>3. \A k \in 1..Len(q) : q[k] \in 0..255
      BY <2>2, ElementOfSeq
    <2> QED BY <2>1, <2>3 DEF q
  <1>2. bits.al \in 0..255 /\ bits.si \in 1..(Len(src) + 1) \union {1}
    <2>1. CASE WriteInv
      BY <2>1 DEF WriteInv
    <2>2. ASSUME NEW G, Reading(G)
          PROVE  bits.al \in 0..255 /\ bits.si \in 1..(Len(src) + 1)
      BY <2>2, Synced, QueueType DEF Reading
    <2> QED BY <2>1, <2>2 DEF ChunkInv
  <1>3. pc \in {"writing", "literal", "command", "match", "high", "length", "repeat", "other",
                "back high", "back low", "copy", "block", "bytes", "done"}
    BY DEF ChunkInv, Reading, Labels
  <1> QED BY <1>1, <1>2, <1>3 DEF TypeOK, ChunkInv, Registers

LEMMA DecodedFollows == ChunkInv => DecodedExact
  <1> SUFFICES ASSUME ChunkInv PROVE DecodedExact
    OBVIOUS
  <1>1. /\ di \in Nat /\ di <= Len(window) /\ Len(window) \in Nat /\ Len(window) <= BufferSize /\ BufferSize \in Nat
        /\ \A a \in 0..(BufferSize - 1) : mem[a] = IF a < di THEN window[a + 1] ELSE Old
    BY WindowType DEF ChunkInv, MemOK
  <1>2. \A a \in 0..(di - 1) : mem[a] = window[a + 1]
    BY <1>1
  <1>3. \A a \in di..(BufferSize - 1) : mem[a] = Old
    BY <1>1
  <1> QED BY <1>1, <1>2, <1>3 DEF DecodedExact

LEMMA DoneFollows == ChunkInv => WholeChunkDone
  BY DEF ChunkInv, Reading, Stage, AtDone, WholeChunkDone

\* The registers of the depacker and the writer keep their ranges: the gamma numbers of a
\* stream that apultra_write_block wrote are never longer than the buffer.
THEOREM ChunkTypes == Spec => []TypeOK
  <1> QED BY ChunkInitHolds, ChunkNextHolds, TypeFollows, PTL DEF Spec

\* For every chunk, every way to cut it into literals and matches and every port of the
\* depacker, g_buf holds at every moment exactly a beginning of the chunk.
THEOREM ChunkComesBack == Spec => []DecodedExact
  <1> QED BY ChunkInitHolds, ChunkNextHolds, DecodedFollows, PTL DEF Spec

\* And the depacker stops with the whole chunk, having read all of the stream and nothing
\* behind it.
THEOREM WholeStreamRead == Spec => []WholeChunkDone
  <1> QED BY ChunkInitHolds, ChunkNextHolds, DoneFollows, PTL DEF Spec

----------------------------------------------------------------------------
(* The calendar.                                                           *)

\* The inductive invariant: the day number is the closed form of the date.

\* The leap years from year 1 to y, and the days that precede March of year y.
Leaps(y) == y \div 4 - y \div 100 + y \div 400
Elapsed(y) == 365 * y + Leaps(y)

\* The year that begins in March, and the place of the month in it.
MarchYear(d) == IF d.month <= 2 THEN d.year - 1 ELSE d.year
MarchPlace(m) == IF m <= 2 THEN m + 9 ELSE m - 3

DayInYear(d) == (153 * MarchPlace(d.month) + 2) \div 5 + d.day - 1
DayNumber(d) == Elapsed(MarchYear(d)) + DayInYear(d) - 719468

Valid(d) ==
  /\ d \in [year: Int, month: 1..12, day: 1..31]
  /\ d.day <= MonthLength(d.year, d.month)

CalendarInv == Valid(date) /\ mtime \in Moments /\ mtime.day = DayNumber(date)

----------------------------------------------------------------------------
\* Years.

Extra(y) == IF Leap(y) THEN 1 ELSE 0

LEMMA OneYear ==
  ASSUME NEW y \in Int
  PROVE  Leaps(y) = Leaps(y - 1) + Extra(y)
BY DEF Leaps, Extra, Leap

LEMMA Upwards ==
  ASSUME NEW S, 0 \in S, \A k \in Nat : k \in S => k + 1 \in S
  PROVE  \A k \in Nat : k \in S
<1> DEFINE T == {k \in Nat : k \notin S}
<1> SUFFICES ASSUME T # {} PROVE FALSE  OBVIOUS
<1>1. PICK x \in T : \A y \in T : x <= y
  <2>1. T \in SUBSET Nat  OBVIOUS
  <2> HIDE DEF T
  <2> QED  BY <2>1, LeastOf
<1>2. x # 0  BY <1>1
<1>3. x - 1 \in Nat /\ x - 1 \notin T  BY <1>1, <1>2
<1> QED  BY <1>1, <1>3

\* The leap years of an interval.
LeapYears(a, b) == {k \in a..b : Leap(k)}

LEMMA LeapYearsCounted ==
  ASSUME NEW a \in Int, NEW b \in Int, NEW c \in Int, c = a - 1, c <= b
  PROVE  Cardinality(LeapYears(a, b)) = Leaps(b) - Leaps(c)
<1> DEFINE Counted(m) == /\ IsFiniteSet(LeapYears(a, a + m - 1))
                         /\ Cardinality(LeapYears(a, a + m - 1)) = Leaps(a + m - 1) - Leaps(a - 1)
           S == {m \in Nat : Counted(m)}
<1>1. \A y \in Int : Leaps(y) \in Int  BY DEF Leaps
<1>2. 0 \in S
  <2>1. LeapYears(a, a + 0 - 1) = {}  BY DEF LeapYears
  <2>2. a + 0 - 1 = a - 1  OBVIOUS
  <2>3. Leaps(a - 1) - Leaps(a - 1) = 0  BY <1>1
  <2> QED  BY <2>1, <2>2, <2>3, FS_EmptySet
<1>3. ASSUME NEW m \in Nat, m \in S PROVE m + 1 \in S
  <2> DEFINE y == a + m
             before == LeapYears(a, y - 1)
  <2>1. a + m - 1 = y - 1 /\ a + (m + 1) - 1 = y /\ y \in Int /\ a <= y  OBVIOUS
  <2>2. IsFiniteSet(before) /\ Cardinality(before) = Leaps(y - 1) - Leaps(a - 1)
    BY <1>3, <2>1
  <2>3. Leaps(y) = Leaps(y - 1) + Extra(y)  BY OneYear
  <2>4. y \notin before  BY DEF LeapYears
  <2>5. LeapYears(a, y) = IF Leap(y) THEN before \cup {y} ELSE before
    BY <2>1 DEF LeapYears
  <2> HIDE DEF before, y
  <2>6. Leaps(y) \in Int /\ Leaps(y - 1) \in Int /\ Leaps(a - 1) \in Int  BY <1>1, <2>1
  <2>7. IsFiniteSet(LeapYears(a, y)) /\ Cardinality(LeapYears(a, y)) = Leaps(y) - Leaps(a - 1)
    <3>1. CASE Leap(y)
      <4>1. LeapYears(a, y) = before \cup {y}  BY <2>5, <3>1
      <4>2. IsFiniteSet(before \cup {y}) /\ Cardinality(before \cup {y}) = Cardinality(before) + 1
        BY <2>2, <2>4, FS_AddElement
      <4> QED  BY <2>2, <2>3, <2>6, <3>1, <4>1, <4>2 DEF Extra
    <3>2. CASE ~Leap(y)
      <4>1. LeapYears(a, y) = before  BY <2>5, <3>2
      <4> QED  BY <2>2, <2>3, <2>6, <3>2, <4>1 DEF Extra
    <3> QED  BY <3>1, <3>2
  <2> QED  BY <2>1, <2>7
<1> HIDE DEF S
<1>4. \A m \in Nat : m \in S  BY <1>2, <1>3, Upwards
<1> DEFINE n == b - c
<1>5. n \in Nat /\ a + n - 1 = b  OBVIOUS
<1> HIDE DEF n
<1>6. Counted(n)  BY <1>4, <1>5 DEF S
<1> QED  BY <1>5, <1>6

\* The walks begin on the days that their day numbers say.
LEMMA NewYear ==
  ASSUME NEW y \in Int
  PROVE  NewYearsDay(y) = Elapsed(y - 1) + 306 - 719468
<1>1. \A k \in Int : Leaps(k) \in Int  BY DEF Leaps
<1>2. Leaps(1969) = 477  BY DEF Leaps
<1>3. CASE y < 1970
  <2>1. y - 1 \in Int /\ y - 1 <= 1969  BY <1>3
  <2>2. Cardinality(LeapYears(y, 1969)) = Leaps(1969) - Leaps(y - 1)
    BY <2>1, LeapYearsCounted
  <2>3. NewYearsDay(y) = -365 * (1970 - y) - Cardinality(LeapYears(y, 1969))
    BY <1>3 DEF NewYearsDay, LeapYears
  <2> QED  BY <1>1, <1>2, <2>2, <2>3 DEF Elapsed
<1>4. CASE y >= 1970
  <2>1. y - 1 \in Int /\ 1969 <= y - 1  BY <1>4
  <2>2. Cardinality(LeapYears(1970, y - 1)) = Leaps(y - 1) - Leaps(1969)
    BY <2>1, LeapYearsCounted
  <2>3. NewYearsDay(y) = 365 * (y - 1970) + Cardinality(LeapYears(1970, y - 1))
    BY <1>4 DEF NewYearsDay, LeapYears
  <2> QED  BY <1>1, <1>2, <2>2, <2>3 DEF Elapsed
<1> QED  BY <1>3, <1>4

----------------------------------------------------------------------------
\* Months.

LEMMA Places ==
  /\ MarchPlace(1) = 10 /\ MarchPlace(2) = 11 /\ MarchPlace(3) = 0 /\ MarchPlace(4) = 1
  /\ MarchPlace(5) = 2 /\ MarchPlace(6) = 3 /\ MarchPlace(7) = 4 /\ MarchPlace(8) = 5
  /\ MarchPlace(9) = 6 /\ MarchPlace(10) = 7 /\ MarchPlace(11) = 8 /\ MarchPlace(12) = 9
BY DEF MarchPlace

LEMMA Lengths ==
  ASSUME NEW y \in Int
  PROVE  /\ MonthLength(y, 1) = 31 /\ MonthLength(y, 2) = 28 + Extra(y) /\ MonthLength(y, 3) = 31
         /\ MonthLength(y, 4) = 30 /\ MonthLength(y, 5) = 31 /\ MonthLength(y, 6) = 30
         /\ MonthLength(y, 7) = 31 /\ MonthLength(y, 8) = 31 /\ MonthLength(y, 9) = 30
         /\ MonthLength(y, 10) = 31 /\ MonthLength(y, 11) = 30 /\ MonthLength(y, 12) = 31
BY DEF MonthLength, Extra

\* The days of the year at which the months begin, and what follows on the last of each.
LEMMA MonthStarts ==
  /\ (153 * 0 + 2) \div 5 = 0 /\ (153 * 1 + 2) \div 5 = 31 /\ (153 * 2 + 2) \div 5 = 61
  /\ (153 * 3 + 2) \div 5 = 92 /\ (153 * 4 + 2) \div 5 = 122 /\ (153 * 5 + 2) \div 5 = 153
  /\ (153 * 6 + 2) \div 5 = 184 /\ (153 * 7 + 2) \div 5 = 214 /\ (153 * 8 + 2) \div 5 = 245
  /\ (153 * 9 + 2) \div 5 = 275 /\ (153 * 10 + 2) \div 5 = 306 /\ (153 * 11 + 2) \div 5 = 337
OBVIOUS

\* A day of a year that begins in March, with what MarchMonth and the rest make of it.
LEMMA DayInYearIs ==
  ASSUME NEW d, Valid(d)
  PROVE  /\ DayInYear(d) \in Nat
         /\ DayInYear(d) <= 364 + Extra(MarchYear(d) + 1)
         /\ MarchMonth(DayInYear(d)) = MarchPlace(d.month)
         /\ DayInYear(d) - (153 * MarchPlace(d.month) + 2) \div 5 + 1 = d.day
<1>1. /\ d.year \in Int /\ d.month \in 1..12 /\ d.day \in Int /\ d.day >= 1
      /\ d.day <= MonthLength(d.year, d.month) /\ Extra(MarchYear(d) + 1) \in {0, 1}
  BY DEF Valid, Extra
<1> DEFINE Shown(doy, p) == /\ doy \in Nat /\ doy <= 364 + Extra(MarchYear(d) + 1)
                            /\ MarchMonth(doy) = p /\ doy - (153 * p + 2) \div 5 + 1 = d.day
<1>2. Shown(DayInYear(d), MarchPlace(d.month))
  <2>1. CASE d.month = 1  BY <1>1, <2>1, Places, Lengths, MonthStarts DEF DayInYear, MarchMonth
  <2>2. CASE d.month = 2
    <3>1. MarchYear(d) + 1 = d.year  BY <1>1, <2>2 DEF MarchYear
    <3> QED  BY <1>1, <2>2, <3>1, Places, Lengths, MonthStarts DEF DayInYear, MarchMonth
  <2>3. CASE d.month = 3
    <3>1. MarchPlace(d.month) = 0 /\ d.day <= 31 /\ DayInYear(d) = d.day - 1
      BY <1>1, <2>3, Places, Lengths, MonthStarts DEF DayInYear
    <3>2. (5 * (d.day - 1) + 2) \div 153 = 0  BY <1>1, <3>1
    <3> QED  BY <1>1, <3>1, <3>2, MonthStarts DEF MarchMonth
  <2>4. CASE d.month = 4  BY <1>1, <2>4, Places, Lengths, MonthStarts DEF DayInYear, MarchMonth
  <2>5. CASE d.month = 5  BY <1>1, <2>5, Places, Lengths, MonthStarts DEF DayInYear, MarchMonth
  <2>6. CASE d.month = 6  BY <1>1, <2>6, Places, Lengths, MonthStarts DEF DayInYear, MarchMonth
  <2>7. CASE d.month = 7  BY <1>1, <2>7, Places, Lengths, MonthStarts DEF DayInYear, MarchMonth
  <2>8. CASE d.month = 8  BY <1>1, <2>8, Places, Lengths, MonthStarts DEF DayInYear, MarchMonth
  <2>9. CASE d.month = 9  BY <1>1, <2>9, Places, Lengths, MonthStarts DEF DayInYear, MarchMonth
  <2>10. CASE d.month = 10  BY <1>1, <2>10, Places, Lengths, MonthStarts DEF DayInYear, MarchMonth
  <2>11. CASE d.month = 11  BY <1>1, <2>11, Places, Lengths, MonthStarts DEF DayInYear, MarchMonth
  <2>12. CASE d.month = 12  BY <1>1, <2>12, Places, Lengths, MonthStarts DEF DayInYear, MarchMonth
  <2>13. d.month \in {1, 2, 3, 4, 5, 6, 7, 8, 9, 10, 11, 12}  BY <1>1
  <2> QED  BY <2>1, <2>2, <2>3, <2>4, <2>5, <2>6, <2>7, <2>8, <2>9, <2>10, <2>11, <2>12, <2>13
<1> QED  BY <1>2

----------------------------------------------------------------------------
\* Eras.

\* A day of an era: whole centuries, whole groups of four years, years, days.
EraDay(c, q, u, doy) == 36524 * c + 1461 * q + 365 * u + doy

LEMMA YearOfEraIs ==
  ASSUME NEW c \in Int, c >= 0, c <= 3, NEW q \in Int, q >= 0, q <= 24,
         NEW u \in Int, u >= 0, u <= 3, NEW doy \in Int, doy >= 0,
         doy <= 365, doy = 365 => u = 3 /\ (q = 24 => c = 3)
  PROVE  /\ EraDay(c, q, u, doy) >= 0 /\ EraDay(c, q, u, doy) < 146097
         /\ YearOfEra(EraDay(c, q, u, doy)) = 100 * c + 4 * q + u
         /\ DayOfYear(EraDay(c, q, u, doy)) = doy
<1> DEFINE doe == EraDay(c, q, u, doy)
           days == 365 * u + doy
           carry == (24 * c + q + days) \div 1460
           last == IF c = 3 /\ q = 24 /\ days = 1460 THEN 1 ELSE 0
<1>1. days \in Int /\ 0 <= days /\ days <= 1460 /\ (days = 1460 => u = 3 /\ doy = 365 /\ (q = 24 => c = 3))
  OBVIOUS
<1>2. doe \in Int /\ doe = 36524 * c + 1461 * q + days /\ doe >= 0 /\ doe < 146097
  BY <1>1 DEF EraDay
<1>3. doe = 1460 * (25 * c + q) + (24 * c + q + days)  BY <1>1, <1>2
<1> HIDE DEF days, doe
<1>4. carry \in {0, 1} /\ (carry = 1 <=> 24 * c + q + days >= 1460)  BY <1>1
<1>5. doe \div 1460 = 25 * c + q + carry
  <2> DEFINE k == 25 * c + q
             rest == 24 * c + q + days
  <2>1. k \in Int /\ rest \in Int /\ doe = 1460 * k + rest  BY <1>1, <1>3
  <2> HIDE DEF k, rest
  <2>2. doe \div 1460 = k + rest \div 1460  BY <2>1
  <2> QED  BY <2>2 DEF k, rest
<1>6. doe \div 36524 = c + last
  <2>1. 1461 * q + days <= 36524 /\ (1461 * q + days = 36524 <=> q = 24 /\ days = 1460)  BY <1>1
  <2>2. CASE last = 1
    <3>1. doe = 146096  BY <1>2, <2>2
    <3> QED  BY <2>2, <3>1
  <2>3. CASE last = 0
    <3>1. 1461 * q + days < 36524  BY <1>1, <2>1, <2>3
    <3> QED  BY <1>1, <1>2, <2>3, <3>1
  <2> QED  BY <2>2, <2>3
<1>7. doe \div 146096 = last
  <2>1. doe = 146096 <=> last = 1  BY <1>1, <1>2
  <2> QED  BY <1>2, <2>1
<1> HIDE DEF carry, last
<1>8. last \in {0, 1} /\ (last = 1 <=> c = 3 /\ q = 24 /\ days = 1460)  BY DEF last
<1>9. doe - doe \div 1460 + doe \div 36524 - doe \div 146096
        = 365 * (100 * c + 4 * q) + (days - carry)
  BY <1>1, <1>2, <1>4, <1>5, <1>6, <1>7, <1>8
<1>10. days - carry >= 365 * u /\ days - carry <= 365 * u + 364
  <2>1. CASE doy = 365
    <3>1. days = 1460 /\ u = 3  BY <2>1 DEF days
    <3>2. carry = 1  BY <1>4, <3>1
    <3> QED  BY <3>1, <3>2
  <2>2. CASE doy # 365
    <3>1. days = 365 * u + doy /\ doy <= 364  BY <2>2 DEF days
    <3>2. carry = 1 => doy >= 1  BY <1>4, <3>1
    <3> QED  BY <1>4, <3>1, <3>2
  <2> QED  BY <2>1, <2>2
<1>11. YearOfEra(doe) = 100 * c + 4 * q + u
  <2> DEFINE n == doe - doe \div 1460 + doe \div 36524 - doe \div 146096
             y == 100 * c + 4 * q + u
  <2>1. n \in Int /\ y \in Int /\ 365 * y <= n /\ n < 365 * y + 365  BY <1>1, <1>4, <1>9, <1>10
  <2> HIDE DEF n, y
  <2>2. n \div 365 = y  BY <2>1
  <2> QED  BY <2>2 DEF n, y, YearOfEra
<1>12. DayOfYear(doe) = doy
  <2> DEFINE y == 100 * c + 4 * q + u
  <2>1. y \div 4 = 25 * c + q /\ y \div 100 = c  OBVIOUS
  <2>2. doe - (365 * y + y \div 4 - y \div 100) = doy  BY <1>2, <2>1 DEF days
  <2>3. YearOfEra(doe) = y  BY <1>11
  <2> HIDE DEF y
  <2> QED  BY <2>2, <2>3 DEF DayOfYear
<1> QED  BY <1>2, <1>11, <1>12 DEF doe

\* civil_from_unix finds the date back from the number of the day.
LEMMA CivilDateOf ==
  ASSUME NEW d, Valid(d)
  PROVE  CivilDate(DayNumber(d)) = d
<1> DEFINE y == MarchYear(d)
           e == y \div 400
           c == (y % 400) \div 100
           q == (y % 100) \div 4
           u == y % 4
           doy == DayInYear(d)
           doe == EraDay(c, q, u, doy)
           day == DayNumber(d)
<1>1. d \in [year: Int, month: 1..12, day: 1..31] /\ y \in Int  BY DEF Valid, MarchYear
<1> HIDE DEF y
<1>2. /\ e \in Int /\ c \in Int /\ q \in Int /\ u \in Int
      /\ c >= 0 /\ c <= 3 /\ q >= 0 /\ q <= 24 /\ u >= 0 /\ u <= 3
      /\ y = 400 * e + 100 * c + 4 * q + u
      /\ y \div 4 = 100 * e + 25 * c + q /\ y \div 100 = 4 * e + c
  BY <1>1
<1>3. Leap(y + 1) <=> u = 3 /\ (q = 24 => c = 3)
  BY <1>1 DEF Leap
<1>4. /\ doy \in Int /\ doy >= 0 /\ doy <= 365 /\ (doy = 365 => u = 3 /\ (q = 24 => c = 3))
      /\ MarchMonth(doy) = MarchPlace(d.month)
      /\ doy - (153 * MarchPlace(d.month) + 2) \div 5 + 1 = d.day
  BY <1>1, <1>3, DayInYearIs DEF Extra, y
<1> HIDE DEF e, c, q, u, doy
<1>5. /\ doe \in Int /\ doe >= 0 /\ doe < 146097
      /\ YearOfEra(doe) = 100 * c + 4 * q + u /\ DayOfYear(doe) = doy
  <2>1. doe \in Int  BY <1>2, <1>4 DEF EraDay
  <2>2. /\ c \in Int /\ c >= 0 /\ c <= 3 /\ q \in Int /\ q >= 0 /\ q <= 24
        /\ u \in Int /\ u >= 0 /\ u <= 3
    BY <1>2
  <2>3. doy \in Int /\ doy >= 0 /\ doy <= 365 /\ (doy = 365 => u = 3 /\ (q = 24 => c = 3))
    BY <1>4
  <2> QED  BY <2>1, <2>2, <2>3, YearOfEraIs
<1>6. day + 719468 = 146097 * e + doe
  <2>1. day = 365 * y + (y \div 4 - y \div 100 + y \div 400) + doy - 719468
    BY DEF DayNumber, Elapsed, Leaps, y, doy
  <2>2. y \div 400 = e  BY DEF e
  <2> QED  BY <1>1, <1>2, <1>4, <2>1, <2>2 DEF EraDay
<1>7. day \in Int  BY <1>1, <1>2, <1>4 DEF DayNumber, Elapsed, Leaps, y, doy
<1> HIDE DEF doe, day
<1>8. DayOfEra(day) = doe /\ Era(day) = e
  BY <1>2, <1>5, <1>6, <1>7 DEF DayOfEra, Era
<1> DEFINE place == MarchPlace(d.month)
           month == IF place < 10 THEN place + 3 ELSE place - 9
           year == 100 * c + 4 * q + u + 400 * e
<1>9. month = d.month  BY <1>1 DEF MarchPlace
<1>10. year = y  BY <1>1, <1>2
<1>11. (IF month <= 2 THEN year + 1 ELSE year) = d.year
  BY <1>1, <1>9, <1>10 DEF y, MarchYear
<1>12. CivilDate(day) = [year |-> IF month <= 2 THEN year + 1 ELSE year, month |-> month,
                         day |-> doy - (153 * place + 2) \div 5 + 1]
  <2> HIDE DEF place
  <2> QED  BY <1>4, <1>5, <1>8 DEF CivilDate, place
<1>13. CivilDate(day) = [year |-> d.year, month |-> d.month, day |-> d.day]
  BY <1>4, <1>9, <1>11, <1>12
<1> QED  BY <1>1, <1>13 DEF day

----------------------------------------------------------------------------
\* The next day.

LEMMA NextDateIsNext ==
  ASSUME NEW d, Valid(d)
  PROVE  Valid(NextDate(d)) /\ DayNumber(NextDate(d)) = DayNumber(d) + 1
<1> DEFINE n == NextDate(d)
<1>1. /\ d \in [year: Int, month: 1..12, day: 1..31] /\ d.day <= MonthLength(d.year, d.month)
      /\ d.year \in Int /\ d.month \in 1..12 /\ d.day \in 1..31
  BY DEF Valid
<1>2. \A y \in Int : Leaps(y) \in Int /\ Extra(y) \in {0, 1}  BY DEF Leaps, Extra
<1>3. CASE d.day < MonthLength(d.year, d.month)
  <2>1. n = [d EXCEPT !.day = @ + 1]  BY <1>3 DEF NextDate
  <2>2. /\ n.year = d.year /\ n.month = d.month /\ n.day = d.day + 1
        /\ n \in [year: Int, month: 1..12, day: Int]
    BY <1>1, <2>1
  <2> HIDE DEF n
  <2>3. MonthLength(d.year, d.month) <= 31 /\ MonthLength(d.year, d.month) \in Int
    BY DEF MonthLength
  <2>4. n.day \in 1..31  BY <1>1, <1>3, <2>2, <2>3
  <2>5. n \in [year: Int, month: 1..12, day: 1..31]  BY <2>2, <2>4
  <2>6. Valid(n)  BY <1>1, <1>3, <2>2, <2>3, <2>5 DEF Valid
  <2>7. MarchYear(n) = MarchYear(d) /\ MarchPlace(n.month) = MarchPlace(d.month)
    BY <2>2 DEF MarchYear
  <2>8. MarchPlace(d.month) \in Int /\ MarchYear(d) \in Int  BY <1>1 DEF MarchPlace, MarchYear
  <2>9. DayInYear(n) = DayInYear(d) + 1 /\ DayInYear(d) \in Int
    BY <1>1, <2>2, <2>7, <2>8 DEF DayInYear
  <2>10. Elapsed(MarchYear(d)) \in Int  BY <1>2, <2>8 DEF Elapsed
  <2>11. DayNumber(n) = DayNumber(d) + 1  BY <2>7, <2>9, <2>10 DEF DayNumber
  <2> QED  BY <2>6, <2>11 DEF n
<1>4. CASE ~(d.day < MonthLength(d.year, d.month)) /\ d.month < 12
  <2>1. n = [d EXCEPT !.month = @ + 1, !.day = 1]  BY <1>4 DEF NextDate
  <2>2. /\ n.year = d.year /\ n.month = d.month + 1 /\ n.day = 1
        /\ n \in [year: Int, month: 1..12, day: 1..31]
    <3>1. d.month + 1 \in 1..12 /\ 1 \in 1..31  BY <1>1, <1>4
    <3> QED  BY <1>1, <2>1, <3>1
  <2> HIDE DEF n
  <2>3. MonthLength(n.year, n.month) \in Int /\ MonthLength(n.year, n.month) >= 1
    BY DEF MonthLength
  <2>4. Valid(n)  BY <2>2, <2>3 DEF Valid
  <2>5. MonthLength(d.year, d.month) \in Int  BY DEF MonthLength
  <2>6. d.day = MonthLength(d.year, d.month)  BY <1>1, <1>4, <2>5
  <2> DEFINE Follows == /\ MarchYear(d) \in Int /\ MarchYear(n) \in Int
                        /\ DayInYear(d) \in Int /\ DayInYear(n) \in Int
                        /\ IF d.month = 2
                           THEN MarchYear(n) = MarchYear(d) + 1 /\ DayInYear(n) = 0
                                /\ DayInYear(d) = 364 + Extra(MarchYear(n))
                           ELSE MarchYear(n) = MarchYear(d) /\ DayInYear(n) = DayInYear(d) + 1
  <2>7. Follows
    <3>1. /\ MarchYear(d) = (IF d.month <= 2 THEN d.year - 1 ELSE d.year)
          /\ MarchYear(n) = (IF d.month <= 1 THEN d.year - 1 ELSE d.year)
      BY <1>1, <2>2 DEF MarchYear
    <3>2. /\ DayInYear(d) = (153 * MarchPlace(d.month) + 2) \div 5
                              + MonthLength(d.year, d.month) - 1
          /\ DayInYear(n) = (153 * MarchPlace(d.month + 1) + 2) \div 5
      BY <1>1, <2>2, <2>6 DEF DayInYear, MarchPlace
    <3>3. CASE d.month = 1  BY <1>1, <3>1, <3>2, <3>3, Places, Lengths, MonthStarts
    <3>4. CASE d.month = 2
      <4>1. MarchYear(d) = d.year - 1 /\ MarchYear(n) = d.year  BY <3>1, <3>4
      <4>2. MonthLength(d.year, d.month) = 28 + Extra(d.year) /\ Extra(d.year) \in {0, 1}
        BY <1>1, <1>2, <3>4, Lengths
      <4>3. DayInYear(d) = 337 + (28 + Extra(d.year)) - 1 /\ DayInYear(n) = 0
        BY <3>2, <3>4, <4>2, Places, MonthStarts
      <4> QED  BY <1>1, <3>4, <4>1, <4>2, <4>3
    <3>5. CASE d.month = 3  BY <1>1, <3>1, <3>2, <3>5, Places, Lengths, MonthStarts
    <3>6. CASE d.month = 4  BY <1>1, <3>1, <3>2, <3>6, Places, Lengths, MonthStarts
    <3>7. CASE d.month = 5  BY <1>1, <3>1, <3>2, <3>7, Places, Lengths, MonthStarts
    <3>8. CASE d.month = 6  BY <1>1, <3>1, <3>2, <3>8, Places, Lengths, MonthStarts
    <3>9. CASE d.month = 7  BY <1>1, <3>1, <3>2, <3>9, Places, Lengths, MonthStarts
    <3>10. CASE d.month = 8  BY <1>1, <3>1, <3>2, <3>10, Places, Lengths, MonthStarts
    <3>11. CASE d.month = 9  BY <1>1, <3>1, <3>2, <3>11, Places, Lengths, MonthStarts
    <3>12. CASE d.month = 10  BY <1>1, <3>1, <3>2, <3>12, Places, Lengths, MonthStarts
    <3>13. CASE d.month = 11  BY <1>1, <3>1, <3>2, <3>13, Places, Lengths, MonthStarts
    <3>14. d.month \in {1, 2, 3, 4, 5, 6, 7, 8, 9, 10, 11}  BY <1>1, <1>4
    <3> QED  BY <3>3, <3>4, <3>5, <3>6, <3>7, <3>8, <3>9, <3>10, <3>11, <3>12, <3>13, <3>14
  <2>8. d.month = 2 => Leaps(MarchYear(n)) = Leaps(MarchYear(d)) + Extra(MarchYear(n))
    <3>1. d.month = 2 => MarchYear(n) - 1 = MarchYear(d)  BY <2>7
    <3> QED  BY <2>7, <3>1, OneYear
  <2>9. DayNumber(n) = DayNumber(d) + 1
    <3>1. CASE d.month = 2  BY <1>2, <2>7, <2>8, <3>1 DEF DayNumber, Elapsed
    <3>2. CASE d.month # 2  BY <1>2, <2>7, <3>2 DEF DayNumber, Elapsed
    <3> QED  BY <3>1, <3>2
  <2> QED  BY <2>4, <2>9 DEF n
<1>5. CASE ~(d.day < MonthLength(d.year, d.month)) /\ ~(d.month < 12)
  <2>1. n = [year |-> d.year + 1, month |-> 1, day |-> 1]  BY <1>5 DEF NextDate
  <2>2. n.year = d.year + 1 /\ n.month = 1 /\ n.day = 1 /\ d.month = 12
    BY <1>1, <1>5, <2>1
  <2>3. d.day = 31  BY <1>1, <1>5, <2>2, Lengths
  <2>4. n \in [year: Int, month: 1..12, day: 1..31]  BY <1>1, <2>1
  <2>5. MonthLength(n.year, n.month) = 31  BY <1>1, <2>2, Lengths
  <2> HIDE DEF n
  <2>6. Valid(n)  BY <2>2, <2>4, <2>5 DEF Valid
  <2>7. MarchYear(n) = d.year /\ MarchYear(d) = d.year  BY <1>1, <2>2 DEF MarchYear
  <2>8. DayInYear(n) = 306 /\ DayInYear(d) = 305
    BY <2>2, <2>3, Places, MonthStarts DEF DayInYear
  <2>9. DayNumber(n) = DayNumber(d) + 1  BY <1>1, <1>2, <2>7, <2>8 DEF DayNumber, Elapsed
  <2> QED  BY <2>6, <2>9 DEF n
<1> QED  BY <1>3, <1>4, <1>5

----------------------------------------------------------------------------
\* The range of FAT.

LEMMA YearBounds ==
  ASSUME NEW d, Valid(d)
  PROVE  /\ DayNumber(d) \in Int
         /\ Elapsed(d.year - 1) + 306 <= DayNumber(d) + 719468
         /\ DayNumber(d) + 719468 < Elapsed(d.year) + 306
<1>1. d.year \in Int /\ d.month \in 1..12 /\ d.day \in 1..31  BY DEF Valid
<1>2. Elapsed(d.year) = Elapsed(d.year - 1) + 365 + Extra(d.year)
  <2>1. Leaps(d.year) = Leaps(d.year - 1) + Extra(d.year)  BY <1>1, OneYear
  <2>2. Leaps(d.year - 1) \in Int /\ Extra(d.year) \in Int  BY <1>1 DEF Leaps, Extra
  <2> QED  BY <1>1, <2>1, <2>2 DEF Elapsed
<1>3. Elapsed(d.year - 1) \in Int /\ Elapsed(d.year) \in Int /\ Extra(d.year) \in {0, 1}
  BY <1>1 DEF Elapsed, Leaps, Extra
<1>4. DayInYear(d) \in Nat /\ DayInYear(d) <= 364 + Extra(MarchYear(d) + 1)  BY DayInYearIs
<1>5. CASE d.month <= 2
  <2>1. MarchYear(d) = d.year - 1 /\ MarchYear(d) + 1 = d.year  BY <1>1, <1>5 DEF MarchYear
  <2>2. DayInYear(d) >= 306
    <3>1. MarchPlace(d.month) \in {10, 11}  BY <1>1, <1>5 DEF MarchPlace
    <3> QED  BY <1>1, <3>1, MonthStarts DEF DayInYear
  <2> QED  BY <1>2, <1>3, <1>4, <2>1, <2>2 DEF DayNumber
<1>6. CASE ~(d.month <= 2)
  <2>1. MarchYear(d) = d.year  BY <1>1, <1>6 DEF MarchYear
  <2>2. DayInYear(d) <= 305
    <3>1. MarchPlace(d.month) = d.month - 3  BY <1>1, <1>6 DEF MarchPlace
    <3>2. d.day = MonthLength(d.year, d.month) \/ d.day < MonthLength(d.year, d.month)
      BY DEF Valid, MonthLength
    <3>3. d.month \in {3, 4, 5, 6, 7, 8, 9, 10, 11, 12}  BY <1>1, <1>6
    <3>4. DayInYear(d) = (153 * (d.month - 3) + 2) \div 5 + d.day - 1  BY <3>1 DEF DayInYear
    <3>5. MonthLength(d.year, 12) = 31 /\ d.day <= 31  BY <1>1, Lengths
    <3> QED  BY <1>1, <3>3, <3>4, <3>5
  <2> QED  BY <1>2, <1>3, <1>4, <2>1, <2>2 DEF DayNumber
<1> QED  BY <1>5, <1>6

\* The first of January 2108, which FAT_MAX_UNIX takes for the last day of 2107.
Late == [year |-> 2108, month |-> 1, day |-> 1]

LEMMA LateDay == Valid(Late) /\ DayNumber(Late) = 50403
<1>1. Late.year = 2108 /\ Late.month = 1 /\ Late.day = 1 /\ Late \in [year: Int, month: 1..12, day: 1..31]
  BY DEF Late
<1>2. MonthLength(2108, 1) = 31  BY Lengths
<1>3. Valid(Late)  BY <1>1, <1>2 DEF Valid
<1>4. MarchYear(Late) = 2107 /\ DayInYear(Late) = 306
  BY <1>1, Places, MonthStarts DEF MarchYear, DayInYear
<1>5. DayNumber(Late) = 50403  BY <1>4 DEF DayNumber, Elapsed, Leaps
<1> QED  BY <1>3, <1>5

LEMMA RangeOfFat ==
  ASSUME NEW d, Valid(d)
  PROVE  /\ d.year < 1980 => DayNumber(d) < 3652
         /\ d.year >= 1980 => DayNumber(d) >= 3652
         /\ d.year <= 2107 => DayNumber(d) < 50403
         /\ d.year > 2107 => DayNumber(d) >= 50403
         /\ d.year > 2107 /\ ~Unclamped(d) => DayNumber(d) > 50403
<1>1. d.year \in Int  BY DEF Valid
<1>2. /\ Elapsed(1979) = 722814 /\ Elapsed(2107) = 769565
      /\ \A y \in Int : Elapsed(y) \in Int
  BY DEF Elapsed, Leaps
<1>3. /\ d.year <= 1979 => Elapsed(d.year) <= Elapsed(1979)
      /\ d.year - 1 >= 1979 => Elapsed(d.year - 1) >= Elapsed(1979)
      /\ d.year <= 2107 => Elapsed(d.year) <= Elapsed(2107)
      /\ d.year - 1 >= 2107 => Elapsed(d.year - 1) >= Elapsed(2107)
  BY <1>1 DEF Elapsed, Leaps
<1>4. /\ d.year < 1980 => DayNumber(d) < 3652
      /\ d.year >= 1980 => DayNumber(d) >= 3652
      /\ d.year <= 2107 => DayNumber(d) < 50403
      /\ d.year > 2107 => DayNumber(d) >= 50403
  BY <1>1, <1>2, <1>3, YearBounds
<1>5. ASSUME DayNumber(d) = 50403 PROVE Unclamped(d)
  <2>1. CivilDate(50403) = d  BY <1>5, CivilDateOf
  <2>2. CivilDate(50403) = Late  BY LateDay, CivilDateOf
  <2> QED  BY <2>1, <2>2 DEF Unclamped, Late
<1>6. d.year > 2107 /\ ~Unclamped(d) => DayNumber(d) > 50403
  BY <1>4, <1>5, YearBounds
<1> QED  BY <1>4, <1>6

\* What a file of a day gets.
Stamped(m) == EntryStamp(TRUE, m)

LEMMA StampOf ==
  ASSUME NEW d, Valid(d), NEW m \in Moments, m.day = DayNumber(d)
  PROVE  /\ d.year < 1980 => Stamped(m) = FirstStamp
         /\ d.year >= 1980 /\ d.year <= 2107 => Stamped(m) = Stamp(d, Clock(m.sec))
         /\ d.year > 2107 /\ ~Unclamped(d) => Stamped(m) = LastStamp
         /\ Unclamped(d) => Stamped(m) \in {Stamp(d, Clock(m.sec)), LastStamp}
<1> DEFINE t == MtimeSecs(m)
           e == Stamped(m)
           exact == Stamp(d, Clock(m.sec))
<1>1. e = UnixToFat(t)  BY DEF Stamped, EntryStamp
<1> HIDE DEF e
<1>2. m.day \in Int /\ m.sec \in Int /\ m.sec >= 0 /\ d.year \in Int  BY DEF Moments, Valid
<1>3. d.year < 1980 => e = FirstStamp
  <2> SUFFICES ASSUME d.year < 1980 PROVE e = FirstStamp  OBVIOUS
  <2>1. m.day < 3652  BY RangeOfFat
  <2>2. t.day < 3652  BY <1>2, <2>1 DEF MtimeSecs, Moment
  <2>3. Earlier(t, FatEpoch)  BY <2>2 DEF Earlier, FatEpoch, Moment
  <2> HIDE DEF t
  <2>4. UnixToFat(t) = FirstStamp  BY <2>3 DEF UnixToFat
  <2> QED  BY <1>1, <2>4
<1>4. d.year >= 1980 => e = IF Earlier(FatMax, m) THEN LastStamp ELSE exact
  <2> SUFFICES ASSUME d.year >= 1980
               PROVE  e = IF Earlier(FatMax, m) THEN LastStamp ELSE exact
    OBVIOUS
  <2>1. m.day >= 3652  BY RangeOfFat
  <2>2. t = m  BY <1>2, <2>1 DEF MtimeSecs
  <2> HIDE DEF t
  <2>3. ~Earlier(t, FatEpoch)  BY <1>2, <2>1, <2>2 DEF Earlier, FatEpoch, Moment
  <2>4. CivilDate(m.day) = d  BY CivilDateOf
  <2>5. UnixToFat(m) = IF Earlier(FatMax, m) THEN LastStamp ELSE Stamp(d, Clock(m.sec))
    BY <2>2, <2>3, <2>4 DEF UnixToFat
  <2> QED  BY <1>1, <2>2, <2>5
<1>5. d.year <= 2107 => ~Earlier(FatMax, m)
  <2>1. d.year <= 2107 => m.day < 50403  BY RangeOfFat
  <2> QED  BY <1>2, <2>1 DEF Earlier, FatMax, Moment
<1>6. d.year > 2107 /\ ~Unclamped(d) => Earlier(FatMax, m)
  <2>1. d.year > 2107 /\ ~Unclamped(d) => m.day > 50403  BY RangeOfFat
  <2> QED  BY <1>2, <2>1 DEF Earlier, FatMax, Moment
<1>7. Unclamped(d) => d.year = 2108  BY DEF Unclamped
<1> HIDE DEF e, exact
<1>8. d.year >= 1980 /\ d.year <= 2107 => e = exact  BY <1>4, <1>5
<1>9. d.year > 2107 => d.year >= 1980  BY <1>2
<1>10. d.year > 2107 /\ ~Unclamped(d) => e = LastStamp  BY <1>4, <1>6, <1>9
<1>11. Unclamped(d) => e \in {exact, LastStamp}  BY <1>4, <1>7
<1> QED  BY <1>3, <1>8, <1>10, <1>11 DEF e, exact

----------------------------------------------------------------------------
\* The two words.

\* Three fields in a word, as DOS takes them apart.
LEMMA DateFields ==
  ASSUME NEW a \in Int, NEW b \in Int, b >= 0, b < 16, NEW c \in Int, c >= 0, c < 32,
         NEW word \in Int, word = 512 * a + 32 * b + c
  PROVE  word \div 512 = a /\ (word \div 32) % 16 = b /\ word % 32 = c
<1>1. word \div 512 = a  OBVIOUS
<1>2. word \div 32 = 16 * a + b /\ word % 32 = c  OBVIOUS
<1>3. (16 * a + b) % 16 = b  OBVIOUS
<1> QED  BY <1>1, <1>2, <1>3

LEMMA TimeFields ==
  ASSUME NEW a \in Int, NEW b \in Int, b >= 0, b < 64, NEW c \in Int, c >= 0, c < 32,
         NEW word \in Int, word = 2048 * a + 32 * b + c
  PROVE  word \div 2048 = a /\ (word \div 32) % 64 = b /\ word % 32 = c
<1>1. word \div 2048 = a  OBVIOUS
<1>2. word \div 32 = 64 * a + b /\ word % 32 = c  OBVIOUS
<1>3. (64 * a + b) % 64 = b  OBVIOUS
<1> QED  BY <1>1, <1>2, <1>3

\* Hours, minutes and a rest of seconds in a number of seconds.
LEMMA ClockFields ==
  ASSUME NEW a \in Int, NEW b \in Int, b >= 0, b < 60, NEW c \in Int, c >= 0, c < 60,
         NEW s \in Int, s = 3600 * a + 60 * b + c
  PROVE  /\ s \div 3600 = a /\ (s \div 60) % 60 = b /\ s % 60 = c
         /\ s % 3600 = 60 * b + c /\ (s % 3600) \div 60 = b
<1>1. s \div 3600 = a /\ s % 3600 = 60 * b + c  OBVIOUS
<1>2. s \div 60 = 60 * a + b /\ s % 60 = c  OBVIOUS
<1>3. (60 * a + b) % 60 = b  OBVIOUS
<1>4. (60 * b + c) \div 60 = b  OBVIOUS
<1> QED  BY <1>1, <1>2, <1>3, <1>4

LEMMA DateWord ==
  ASSUME NEW d, Valid(d), d.year >= 1980, d.year <= 2107, NEW clock
  PROVE  /\ DosDate(d) = 512 * (d.year - 1980) + 32 * d.month + d.day
         /\ ShownDate(Stamp(d, clock)) = d
<1>1. /\ d \in [year: Int, month: 1..12, day: 1..31]
      /\ d.year \in Int /\ d.month \in 1..12 /\ d.day \in 1..31
  BY DEF Valid
<1>2. (512 * (d.year - 1980)) % 65536 = 512 * (d.year - 1980)  BY <1>1
<1>3. DosDate(d) = 512 * (d.year - 1980) + 32 * d.month + d.day  BY <1>2 DEF DosDate
<1> DEFINE word == DosDate(d)
<1>4. word \div 512 = d.year - 1980 /\ (word \div 32) % 16 = d.month /\ word % 32 = d.day
  <2> DEFINE a == d.year - 1980
  <2>1. /\ a \in Int /\ d.month \in Int /\ d.month >= 0 /\ d.month < 16
        /\ d.day \in Int /\ d.day >= 0 /\ d.day < 32
        /\ word \in Int /\ word = 512 * a + 32 * d.month + d.day
    BY <1>1, <1>3
  <2> HIDE DEF a, word
  <2>2. word \div 512 = a /\ (word \div 32) % 16 = d.month /\ word % 32 = d.day
    BY <2>1, DateFields
  <2> QED  BY <2>2 DEF a
<1> HIDE DEF word
<1>5. Stamp(d, clock).date = word  BY DEF Stamp, word
<1>6. ShownDate(Stamp(d, clock)) = [year |-> d.year, month |-> d.month, day |-> d.day]
  BY <1>1, <1>4, <1>5 DEF ShownDate
<1> QED  BY <1>1, <1>3, <1>6 DEF word

\* A second of the day, taken apart.
Hour(sec) == sec \div 3600
Minute(sec) == (sec \div 60) % 60
EvenSecond(sec) == (sec % 60) \div 2
Odd(sec) == sec % 2

LEMMA SecondParts ==
  ASSUME NEW sec \in Int, sec >= 0, sec < 86400
  PROVE  /\ Hour(sec) \in Int /\ Hour(sec) >= 0 /\ Hour(sec) < 24
         /\ Minute(sec) \in Int /\ Minute(sec) >= 0 /\ Minute(sec) < 60
         /\ EvenSecond(sec) \in Int /\ EvenSecond(sec) >= 0 /\ EvenSecond(sec) < 30
         /\ Odd(sec) \in Int /\ Odd(sec) >= 0 /\ Odd(sec) < 2
         /\ sec = 3600 * Hour(sec) + 60 * Minute(sec) + 2 * EvenSecond(sec) + Odd(sec)
         /\ DosTime(Clock(sec)) = 2048 * Hour(sec) + 32 * Minute(sec) + EvenSecond(sec)
<1> DEFINE r == sec \div 60
           c == sec % 60
           h == r \div 60
           m == r % 60
           k == c \div 2
           b == c % 2
<1>1. r \in Int /\ c \in Int /\ c >= 0 /\ c < 60 /\ sec = 60 * r + c  OBVIOUS
<1>2. c % 2 = sec % 2  BY <1>1
<1>3. Minute(sec) = m /\ EvenSecond(sec) = k /\ Odd(sec) = b  BY <1>2 DEF Minute, EvenSecond, Odd
<1> HIDE DEF r, c
<1>4. h \in Int /\ m \in Int /\ m >= 0 /\ m < 60 /\ r = 60 * h + m  BY <1>1
<1>5. k \in Int /\ k >= 0 /\ k < 30 /\ b \in Int /\ b >= 0 /\ b < 2 /\ c = 2 * k + b
  BY <1>1
<1> HIDE DEF h, m, k, b
<1>6. sec = 3600 * h + 60 * m + c  BY <1>1, <1>4
<1>7. h >= 0 /\ h < 24  BY <1>1, <1>4, <1>6
<1>8. /\ sec \div 3600 = h /\ (sec \div 60) % 60 = m /\ sec % 60 = c
  BY <1>1, <1>4, <1>6, ClockFields
<1>9. Hour(sec) = h  BY <1>8 DEF Hour
<1>10. Clock(sec) = [hour |-> h, minute |-> m, second |-> c]  BY <1>8 DEF Clock
<1>11. DosTime(Clock(sec)) = 2048 * h + 32 * m + k  BY <1>10 DEF DosTime, k
<1>12. sec = 3600 * h + 60 * m + 2 * k + b  BY <1>1, <1>4, <1>5, <1>6
<1> QED  BY <1>3, <1>4, <1>5, <1>7, <1>9, <1>11, <1>12

LEMMA TimeWord ==
  ASSUME NEW d, NEW sec \in Int, sec >= 0, sec < 86400
  PROVE  LET s == 2 * (sec \div 2)
             clock == ShownClock(Stamp(d, Clock(sec)))
         IN /\ clock = [hour |-> s \div 3600, minute |-> (s % 3600) \div 60, second |-> s % 60]
            /\ clock.hour < 24 /\ clock.minute < 60 /\ clock.second < 60
<1> DEFINE h == Hour(sec)
           m == Minute(sec)
           k == EvenSecond(sec)
           b == Odd(sec)
           s == 2 * (sec \div 2)
           c == 2 * k
           word == DosTime(Clock(sec))
<1>1. /\ h \in Int /\ h >= 0 /\ h < 24 /\ m \in Int /\ m >= 0 /\ m < 60
      /\ k \in Int /\ k >= 0 /\ k < 30 /\ b \in Int /\ b >= 0 /\ b < 2
      /\ sec = 3600 * h + 60 * m + 2 * k + b /\ word = 2048 * h + 32 * m + k
  BY SecondParts
<1> HIDE DEF h, m, k, b, word
<1>2. sec \div 2 = 1800 * h + 30 * m + k  BY <1>1
<1>3. c \in Int /\ c >= 0 /\ c < 60 /\ s \in Int /\ s = 3600 * h + 60 * m + c
      /\ word \in Nat /\ m < 64 /\ k < 32
  BY <1>1, <1>2
<1> HIDE DEF s, c
<1>4. word \div 2048 = h /\ (word \div 32) % 64 = m /\ word % 32 = k  BY <1>1, <1>3, TimeFields
<1>5. s \div 3600 = h /\ (s % 3600) \div 60 = m /\ s % 60 = c  BY <1>1, <1>3, ClockFields
<1>6. Stamp(d, Clock(sec)).time = word  BY DEF Stamp, word
<1>7. ShownClock(Stamp(d, Clock(sec))) = [hour |-> h, minute |-> m, second |-> c]
  BY <1>4, <1>6 DEF ShownClock, c
<1>8. ShownClock(Stamp(d, Clock(sec)))
        = [hour |-> s \div 3600, minute |-> (s % 3600) \div 60, second |-> s % 60]
  BY <1>5, <1>7
<1> QED  BY <1>1, <1>3, <1>7, <1>8 DEF s

LEMMA TimeIsNatural ==
  ASSUME NEW sec \in Int, sec >= 0, sec < 86400
  PROVE  DosTime(Clock(sec)) \in Int /\ DosTime(Clock(sec)) >= 0
<1> DEFINE h == Hour(sec)
           m == Minute(sec)
           k == EvenSecond(sec)
<1>1. /\ h \in Int /\ h >= 0 /\ m \in Int /\ m >= 0 /\ k \in Int /\ k >= 0
      /\ DosTime(Clock(sec)) = 2048 * h + 32 * m + k
  BY SecondParts
<1> HIDE DEF h, m, k
<1> QED  BY <1>1

LEMMA TimeGrows ==
  ASSUME NEW a \in Int, NEW z \in Int, a >= 0, a <= z, z < 86400
  PROVE  /\ DosTime(Clock(a)) \in Int /\ DosTime(Clock(z)) \in Int
         /\ DosTime(Clock(a)) <= DosTime(Clock(z))
<1> DEFINE h == Hour(a)
           m == Minute(a)
           k == EvenSecond(a)
           b == Odd(a)
           h2 == Hour(z)
           m2 == Minute(z)
           k2 == EvenSecond(z)
           b2 == Odd(z)
<1>1. /\ h \in Int /\ h >= 0 /\ h < 24 /\ m \in Int /\ m >= 0 /\ m < 60
      /\ k \in Int /\ k >= 0 /\ k < 30 /\ b \in Int /\ b >= 0 /\ b < 2
      /\ a = 3600 * h + 60 * m + 2 * k + b
      /\ DosTime(Clock(a)) = 2048 * h + 32 * m + k
  BY SecondParts
<1>2. /\ h2 \in Int /\ h2 >= 0 /\ h2 < 24 /\ m2 \in Int /\ m2 >= 0 /\ m2 < 60
      /\ k2 \in Int /\ k2 >= 0 /\ k2 < 30 /\ b2 \in Int /\ b2 >= 0 /\ b2 < 2
      /\ z = 3600 * h2 + 60 * m2 + 2 * k2 + b2
      /\ DosTime(Clock(z)) = 2048 * h2 + 32 * m2 + k2
  BY SecondParts
<1> HIDE DEF h, m, k, b, h2, m2, k2, b2
<1>3. h <= h2  BY <1>1, <1>2
<1>4. h = h2 => m <= m2  BY <1>1, <1>2
<1>5. h = h2 /\ m = m2 => k <= k2  BY <1>1, <1>2
<1>6. 2048 * h + 32 * m + k <= 2048 * h2 + 32 * m2 + k2  BY <1>1, <1>2, <1>3, <1>4, <1>5
<1> QED  BY <1>1, <1>2, <1>6

LEMMA EndStamps ==
  /\ FirstStamp.date = 33 /\ FirstStamp.time = 0
  /\ LastStamp.date = 65439 /\ LastStamp.time = 49021
  /\ ShownDate(FirstStamp) = [year |-> 1980, month |-> 1, day |-> 1]
  /\ ShownClock(FirstStamp) = [hour |-> 0, minute |-> 0, second |-> 0]
  /\ ShownDate(LastStamp) = [year |-> 2107, month |-> 12, day |-> 31]
  /\ ShownClock(LastStamp) = [hour |-> 23, minute |-> 59, second |-> 58]
<1>1. FirstStamp.date = 33 /\ FirstStamp.time = 0  BY DEF FirstStamp, Stamp, DosDate, DosTime
<1>2. LastStamp.date = 65439 /\ LastStamp.time = 49021  BY DEF LastStamp, Stamp, DosDate, DosTime
<1>3. /\ 33 \div 512 = 0 /\ (33 \div 32) % 16 = 1 /\ 33 % 32 = 1
      /\ 0 \div 2048 = 0 /\ (0 \div 32) % 64 = 0 /\ 0 % 32 = 0
  OBVIOUS
<1>4. /\ 65439 \div 512 = 127 /\ (65439 \div 32) % 16 = 12 /\ 65439 % 32 = 31
      /\ 49021 \div 2048 = 23 /\ (49021 \div 32) % 64 = 59 /\ 49021 % 32 = 29
  OBVIOUS
<1>5. /\ ShownDate(FirstStamp) = [year |-> 1980, month |-> 1, day |-> 1]
      /\ ShownClock(FirstStamp) = [hour |-> 0, minute |-> 0, second |-> 0]
  BY <1>1, <1>3 DEF ShownDate, ShownClock
<1>6. /\ ShownDate(LastStamp) = [year |-> 2107, month |-> 12, day |-> 31]
      /\ ShownClock(LastStamp) = [hour |-> 23, minute |-> 59, second |-> 58]
  BY <1>2, <1>4 DEF ShownDate, ShownClock
<1> QED  BY <1>1, <1>2, <1>5, <1>6

----------------------------------------------------------------------------
\* The walk.

\* The seconds of a day are those of Moments.
LEMMA SecondsOf ==
  /\ \A m \in Moments : m.sec \in Int /\ m.sec >= 0 /\ m.sec < 86400
  /\ \A n \in Int : Moment(n, 0) \in Moments /\ Moment(n, 0).day = n
<1>1. SecondsPerDay = 86400  BY DEF SecondsPerDay
<1>2. SecondsPerDay \in Int /\ SecondsPerDay > 0  BY <1>1
<1>3. ASSUME NEW m \in Moments PROVE m.sec \in Int /\ m.sec >= 0 /\ m.sec < 86400
  <2>1. m.sec \in 0..SecondsPerDay - 1  BY DEF Moments
  <2>2. m.sec \in Int /\ m.sec >= 0 /\ m.sec < SecondsPerDay  BY <1>2, <2>1
  <2> QED  BY <1>1, <2>2
<1>4. ASSUME NEW n \in Int PROVE Moment(n, 0) \in Moments /\ Moment(n, 0).day = n
  <2>1. 0 \in 0..SecondsPerDay - 1  BY <1>2
  <2> QED  BY <2>1 DEF Moment, Moments
<1> QED  BY <1>3, <1>4

LEMMA WalkInitHolds == WalkInit => CalendarInv
<1> SUFFICES ASSUME WalkInit PROVE CalendarInv  OBVIOUS
<1>1. PICK y \in FirstYear..LastYear :
        /\ date = [year |-> y - 1, month |-> 12, day |-> 31]
        /\ mtime = Moment(NewYearsDay(y) - 1, 0)
  BY DEF WalkInit
<1>2. y \in Int  BY <1>1, CalendarAssumption
<1>3. MonthLength(y - 1, 12) = 31  BY <1>2, Lengths
<1>4. Valid(date)  BY <1>1, <1>2, <1>3 DEF Valid
<1>5. MarchYear(date) = y - 1 /\ DayInYear(date) = 305
  BY <1>1, <1>2, Places, MonthStarts DEF MarchYear, DayInYear
<1>6. Elapsed(y - 1) \in Int  BY <1>2 DEF Elapsed, Leaps
<1>7. NewYearsDay(y) - 1 = DayNumber(date)  BY <1>2, <1>5, <1>6, NewYear DEF DayNumber
<1>8. DayNumber(date) \in Int  BY <1>5, <1>6 DEF DayNumber
<1>9. mtime \in Moments /\ mtime.day = DayNumber(date)
  BY <1>1, <1>7, <1>8, SecondsOf
<1> QED  BY <1>4, <1>9 DEF CalendarInv

LEMMA WalkNextHolds == CalendarInv /\ [WalkNext]_walkVars => CalendarInv'
<1> SUFFICES ASSUME CalendarInv, [WalkNext]_walkVars PROVE CalendarInv'  OBVIOUS
<1>1. CASE Later
  <2>1. PICK s \in Seconds : s > mtime.sec /\ mtime' = [mtime EXCEPT !.sec = s]  BY <1>1 DEF Later
  <2>2. s \in 0..SecondsPerDay - 1  BY <2>1, CalendarAssumption
  <2>3. mtime' \in Moments /\ mtime'.day = mtime.day  BY <2>1, <2>2 DEF CalendarInv, Moments
  <2>4. date' = date  BY <1>1 DEF Later
  <2> QED  BY <2>3, <2>4 DEF CalendarInv, Valid
<1>2. CASE NextDay
  <2>1. date' = NextDate(date) /\ mtime' = Moment(mtime.day + 1, 0)  BY <1>2 DEF NextDay
  <2>2. Valid(date') /\ DayNumber(date') = mtime.day + 1
    BY <2>1, NextDateIsNext DEF CalendarInv
  <2>3. mtime.day \in Int  BY DEF CalendarInv, Moments
  <2>4. mtime' \in Moments /\ mtime'.day = mtime.day + 1
    BY <2>1, <2>3, SecondsOf
  <2> QED  BY <2>2, <2>4 DEF CalendarInv, Valid
<1>3. CASE UNCHANGED walkVars  BY <1>3 DEF walkVars, CalendarInv, Valid
<1> QED  BY <1>1, <1>2, <1>3 DEF WalkNext

THEOREM DaysAreCounted == WalkSpec => []CalendarInv
<1>1. WalkInit => CalendarInv  BY WalkInitHolds
<1>2. CalendarInv /\ [WalkNext]_walkVars => CalendarInv'  BY WalkNextHolds
<1> QED  BY <1>1, <1>2, PTL DEF WalkSpec

\* What Now stands for.
LEMMA NowIs == Now = Stamped(mtime) /\ Now' = Stamped(mtime')
BY DEF Now, Stamped

\* DOS shows every file of the years 1980 to 2107 with its date and time in UTC, and
\* every other but those of one day at an end of the range: for all years, leap or not.
THEOREM StampsShowTheCalendar == WalkSpec => []ShowsTheCalendar
<1>1. CalendarInv => ShowsTheCalendar
  <2> SUFFICES ASSUME CalendarInv, ~Unclamped(date) PROVE ShowsTheCalendar  BY DEF ShowsTheCalendar
  <2>1. Valid(date) /\ mtime \in Moments /\ mtime.day = DayNumber(date)  BY DEF CalendarInv
  <2>2. date.year \in Int  BY <2>1 DEF Valid
  <2>3. CASE date.year < 1980
    <3>1. Now = FirstStamp  BY <2>1, <2>3, StampOf, NowIs
    <3> QED  BY <2>2, <2>3, <3>1 DEF ShowsTheCalendar
  <2>4. CASE date.year > 2107
    <3>1. Now = LastStamp  BY <2>1, <2>4, StampOf, NowIs
    <3> QED  BY <2>2, <2>4, <3>1 DEF ShowsTheCalendar
  <2>5. CASE date.year >= 1980 /\ date.year <= 2107
    <3>1. Now = Stamp(date, Clock(mtime.sec))  BY <2>1, <2>5, StampOf, NowIs
    <3>2. ShownDate(Now) = date  BY <2>1, <2>5, <3>1, DateWord
    <3>3. ShownClock(Now) = LET s == 2 * (mtime.sec \div 2)
                            IN [hour |-> s \div 3600, minute |-> (s % 3600) \div 60, second |-> s % 60]
      BY <2>1, <3>1, SecondsOf, TimeWord
    <3>4. ~(date.year < 1980) /\ ~(date.year > 2107)  BY <2>2, <2>5
    <3> HIDE DEF Now
    <3> QED  BY <3>2, <3>3, <3>4 DEF ShowsTheCalendar
  <2> QED  BY <2>2, <2>3, <2>4, <2>5
<1> QED  BY <1>1, DaysAreCounted, PTL

\* Every file with preserved times gets words that DOS can show, and never the 0 that
\* tells the stub to leave the time alone, whatever its mtime.
THEOREM StampsAreDates == WalkSpec => []AlwaysADosDate
<1> DEFINE Dated(s) ==
             /\ s # NoStamp
             /\ ShownDate(s).month \in 1..12 /\ ShownDate(s).day \in 1..31
             /\ ShownClock(s).hour < 24 /\ ShownClock(s).minute < 60 /\ ShownClock(s).second < 60
<1>1. ASSUME CalendarInv PROVE Dated(Now)
  <2>1. Valid(date) /\ mtime \in Moments /\ mtime.day = DayNumber(date)  BY <1>1 DEF CalendarInv
  <2>2. date.year \in Int /\ date.month \in 1..12 /\ date.day \in 1..31  BY <2>1 DEF Valid
  <2>3. Dated(FirstStamp) /\ Dated(LastStamp)
    <3>1. FirstStamp # NoStamp /\ LastStamp # NoStamp  BY EndStamps DEF NoStamp
    <3> QED  BY <3>1, EndStamps
  <2> DEFINE exact == Stamp(date, Clock(mtime.sec))
  <2>4. ShownClock(exact).hour < 24 /\ ShownClock(exact).minute < 60 /\ ShownClock(exact).second < 60
    BY <2>1, SecondsOf, TimeWord
  <2>5. CASE date.year >= 1980 /\ date.year <= 2107
    <3>1. Now = exact  BY <2>1, <2>5, StampOf, NowIs
    <3>2. ShownDate(exact) = date  BY <2>1, <2>5, DateWord
    <3>3. DosDate(date) >= 33  BY <2>1, <2>2, <2>5, DateWord
    <3>4. exact # NoStamp  BY <3>3 DEF Stamp, NoStamp
    <3> HIDE DEF exact
    <3> QED  BY <2>2, <2>4, <3>1, <3>2, <3>4
  <2>6. CASE Unclamped(date)
    <3>1. Now \in {exact, LastStamp}  BY <2>1, <2>6, StampOf, NowIs
    <3>2. DosDate(date) = 33
      <4>1. date.year = 2108 /\ date.month = 1 /\ date.day = 1  BY <2>6 DEF Unclamped
      <4> QED  BY <4>1 DEF DosDate
    <3>3. exact.date = 33  BY <3>2 DEF Stamp
    <3> HIDE DEF exact
    <3>4. exact # NoStamp /\ ShownDate(exact).month = 1 /\ ShownDate(exact).day = 1
      <4>1. (33 \div 32) % 16 = 1 /\ 33 % 32 = 1  OBVIOUS
      <4> QED  BY <3>3, <4>1 DEF NoStamp, ShownDate
    <3>5. Dated(exact)  BY <2>4, <3>4
    <3> QED  BY <2>3, <3>1, <3>5
  <2>7. CASE date.year < 1980
    <3>1. Now = FirstStamp  BY <2>1, <2>7, StampOf, NowIs
    <3> QED  BY <2>3, <3>1
  <2>8. CASE date.year > 2107 /\ ~Unclamped(date)
    <3>1. Now = LastStamp  BY <2>1, <2>8, StampOf, NowIs
    <3> QED  BY <2>3, <3>1
  <2> QED  BY <2>2, <2>5, <2>6, <2>7, <2>8
<1>2. CalendarInv => AlwaysADosDate  BY <1>1 DEF AlwaysADosDate
<1> QED  BY <1>2, DaysAreCounted, PTL

\* The next day has the greater date word.
LEMMA DateGrows ==
  ASSUME NEW d, Valid(d), d.year >= 1980, NextDate(d).year <= 2107
  PROVE  DosDate(d) < DosDate(NextDate(d))
<1> DEFINE n == NextDate(d)
<1>1. Valid(n)  BY NextDateIsNext
<1>2. /\ d.year \in Int /\ d.month \in Int /\ d.day \in Int /\ d.month >= 1 /\ d.month <= 12
      /\ d.day >= 1 /\ d.day <= 31
      /\ n.year \in Int /\ n.month \in Int /\ n.day \in Int
      /\ d \in [year: Int, month: 1..12, day: 1..31]
  BY <1>1 DEF Valid
<1>3. \/ n.year = d.year /\ n.month = d.month /\ n.day = d.day + 1
      \/ n.year = d.year /\ n.month = d.month + 1 /\ n.day = 1
      \/ n.year = d.year + 1 /\ n.month = 1 /\ n.day = 1
  BY <1>2 DEF NextDate
<1> HIDE DEF n
<1>4. n.year >= 1980 /\ d.year <= n.year  BY <1>2, <1>3
<1>5. n.year <= 2107 /\ d.year <= 2107  BY <1>2, <1>4 DEF n
<1>6. /\ DosDate(d) = 512 * (d.year - 1980) + 32 * d.month + d.day
      /\ DosDate(n) = 512 * (n.year - 1980) + 32 * n.month + n.day
  BY <1>1, <1>4, <1>5, DateWord
<1>7. DosDate(d) < DosDate(n)  BY <1>2, <1>3, <1>6
<1> QED  BY <1>7 DEF n

\* A later file has no earlier timestamp, over the end of every month and year and over
\* both ends of the range.
THEOREM StampsNeverGoBack == WalkSpec => NeverGoesBack
<1> DEFINE NotBefore(a, b) == a.date < b.date \/ (a.date = b.date /\ a.time <= b.time)
<1>1. ASSUME CalendarInv, CalendarInv', WalkNext, ~Unclamped(date), ~Unclamped(date') PROVE NotBefore(Now, Now')
  <2>1. /\ Valid(date) /\ mtime \in Moments /\ mtime.day = DayNumber(date)
        /\ Valid(date') /\ mtime' \in Moments /\ mtime'.day = DayNumber(date')
    BY <1>1 DEF CalendarInv, Valid
  <2>2. date.year \in Int /\ date'.year \in Int  BY <2>1 DEF Valid
  <2>3. (date' = date /\ mtime'.sec >= mtime.sec) \/ date' = NextDate(date)
    <3>1. ASSUME Later PROVE date' = date /\ mtime'.sec >= mtime.sec
      <4>1. PICK s \in Seconds : s > mtime.sec /\ mtime' = [mtime EXCEPT !.sec = s]
        BY <3>1 DEF Later
      <4>2. s \in 0..SecondsPerDay - 1  BY <4>1, CalendarAssumption
      <4>3. SecondsPerDay \in Int  BY DEF SecondsPerDay
      <4>4. mtime'.sec = s  BY <2>1, <4>1 DEF Moments
      <4> QED  BY <2>1, <3>1, <4>1, <4>2, <4>3, <4>4, SecondsOf DEF Later
    <3> QED  BY <1>1, <3>1 DEF WalkNext, NextDay
  <2>4. /\ mtime.sec \in Int /\ mtime.sec >= 0 /\ mtime.sec < 86400
        /\ mtime'.sec \in Int /\ mtime'.sec >= 0 /\ mtime'.sec < 86400
    BY <2>1, SecondsOf
  <2> DEFINE a == Stamp(date, Clock(mtime.sec))
             b == Stamp(date', Clock(mtime'.sec))
  <2>5. /\ a.date = DosDate(date) /\ a.time = DosTime(Clock(mtime.sec))
        /\ b.date = DosDate(date') /\ b.time = DosTime(Clock(mtime'.sec))
    BY DEF Stamp
  <2>6. /\ date.year < 1980 => Now = FirstStamp
        /\ date.year >= 1980 /\ date.year <= 2107 => Now = a
        /\ date.year > 2107 => Now = LastStamp
    BY <1>1, <2>1, StampOf, NowIs
  <2>7. /\ date'.year < 1980 => Now' = FirstStamp
        /\ date'.year >= 1980 /\ date'.year <= 2107 => Now' = b
        /\ date'.year > 2107 => Now' = LastStamp
    BY <1>1, <2>1, StampOf, NowIs
  <2> HIDE DEF a, b
  <2>8. NotBefore(FirstStamp, FirstStamp) /\ NotBefore(LastStamp, LastStamp)  BY EndStamps
  <2>9. date.year <= date'.year /\ date'.year <= date.year + 1
    <3>1. ASSUME date' = NextDate(date)
          PROVE  date'.year \in {date.year, date.year + 1}
      <4>1. date \in [year: Int, month: 1..12, day: 1..31]  BY <2>1 DEF Valid
      <4> QED  BY <3>1, <4>1 DEF NextDate
    <3> QED  BY <2>2, <2>3, <3>1
  <2>10. date.year <= 2107 /\ date'.year > 2107 => FALSE
    <3> SUFFICES ASSUME date.year <= 2107, date'.year > 2107 PROVE FALSE  OBVIOUS
    <3>1. date' = NextDate(date)  BY <2>2, <2>3
    <3>2. DayNumber(date) < 50403 /\ DayNumber(date') > 50403  BY <1>1, <2>1, RangeOfFat
    <3>3. DayNumber(date') = DayNumber(date) + 1  BY <2>1, <3>1, NextDateIsNext
    <3>4. DayNumber(date) \in Int  BY <2>1, YearBounds
    <3> QED  BY <3>2, <3>3, <3>4
  <2>11. CASE date'.year < 1980
    <3>1. date.year < 1980  BY <2>2, <2>9, <2>11
    <3> QED  BY <2>6, <2>7, <2>8, <2>11, <3>1
  <2>12. CASE date.year < 1980 /\ date'.year >= 1980
    <3>1. date'.year <= 2107  BY <2>2, <2>9, <2>12
    <3>2. Now = FirstStamp /\ Now' = b  BY <2>6, <2>7, <2>12, <3>1
    <3>3. b.date >= 33 /\ b.date \in Int
      <4>1. b.date = 512 * (date'.year - 1980) + 32 * date'.month + date'.day
        BY <2>1, <2>5, <2>12, <3>1, DateWord
      <4>2. date'.month \in 1..12 /\ date'.day \in 1..31  BY <2>1 DEF Valid
      <4> QED  BY <2>2, <2>12, <4>1, <4>2
    <3>4. b.time \in Int /\ b.time >= 0
      <4>1. DosTime(Clock(mtime'.sec)) \in Int /\ DosTime(Clock(mtime'.sec)) >= 0
        BY <2>4, TimeIsNatural
      <4> QED  BY <2>5, <4>1
    <3> QED  BY <3>2, <3>3, <3>4, EndStamps
  <2>13. CASE date.year >= 1980 /\ date'.year <= 2107
    <3>1. date.year <= 2107 /\ date'.year >= 1980  BY <2>2, <2>9, <2>13
    <3>2. Now = a /\ Now' = b  BY <2>6, <2>7, <2>13, <3>1
    <3>3. CASE date' = NextDate(date)
      <4>1. DosDate(date) < DosDate(date')  BY <2>1, <2>13, <3>3, DateGrows
      <4> QED  BY <2>5, <3>2, <4>1
    <3>4. CASE date' = date /\ mtime'.sec >= mtime.sec
      <4>1. a.time <= b.time  BY <2>4, <2>5, <3>4, TimeGrows
      <4> QED  BY <2>5, <3>2, <3>4, <4>1
    <3> QED  BY <2>3, <3>3, <3>4
  <2>14. CASE date'.year > 2107
    <3>1. date.year > 2107  BY <2>2, <2>10, <2>14
    <3> QED  BY <2>6, <2>7, <2>8, <2>14, <3>1
  <2> QED  BY <2>2, <2>11, <2>12, <2>13, <2>14
<1>2. CalendarInv /\ CalendarInv' /\ [WalkNext]_walkVars =>
        [~Unclamped(date) /\ ~Unclamped(date') =>
           LET a == Now
               b == Now'
           IN a.date < b.date \/ (a.date = b.date /\ a.time <= b.time)]_walkVars
  BY <1>1
<1> QED  BY <1>2, DaysAreCounted, PTL DEF WalkSpec, NeverGoesBack
=============================================================================
