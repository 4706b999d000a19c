--------------------------- MODULE RunAfterProofs ---------------------------
(***************************************************************************)
(* The run-after command, for every buffer size, every command and every   *)
(* length of the stub: the two checks of the host agree, and so do the     *)
(* host and the stub about what runs.                                      *)
(***************************************************************************)
EXTENDS RunAfter, WellFoundedInduction, TLAPS

USE SizeAssumption

Byte == 0..255

----------------------------------------------------------------------------
\* The first place of a byte.

LEMMA Least ==
  ASSUME NEW T \in SUBSET Nat, T # {}
  PROVE  \E x \in T : \A y \in T : x <= y
<1>1. PICK x \in T : \A y \in T : <<y, x>> \notin OpToRel(<, Nat)
  BY WFMin, NatLessThanWellFounded
<1>2. \A y \in T : ~(y < x)  BY <1>1 DEF OpToRel
<1> QED  BY <1>2

LEMMA PlaceIsFirst ==
  ASSUME NEW b \in Byte, NEW s \in Seq(Byte), NEW i \in Nat \ {0}, \E k \in i..Len(s) : s[k] = b
  PROVE  /\ Place(b, s, i) \in i..Len(s)
         /\ s[Place(b, s, i)] = b
         /\ \A j \in i..Place(b, s, i) - 1 : s[j] # b
<1> DEFINE T == {k \in i..Len(s) : s[k] = b}
<1>1. PICK x \in T : \A y \in T : x <= y
  <2>1. T \in SUBSET Nat /\ T # {}  OBVIOUS
  <2> HIDE DEF T
  <2> QED  BY <2>1, Least
<1>2. x \in i..Len(s) /\ s[x] = b /\ \A j \in i..x - 1 : s[j] # b  BY <1>1
<1> QED  BY <1>2 DEF Place

LEMMA PlaceIs ==
  ASSUME NEW b \in Byte, NEW s \in Seq(Byte), NEW i \in Nat \ {0}, NEW k \in i..Len(s),
         s[k] = b, \A j \in i..k - 1 : s[j] # b
  PROVE  Place(b, s, i) = k
<1>1. /\ Place(b, s, i) \in i..Len(s)
      /\ s[Place(b, s, i)] = b
      /\ \A j \in i..Place(b, s, i) - 1 : s[j] # b
  BY PlaceIsFirst
<1> QED  BY <1>1

LEMMA SameBytes ==
  ASSUME NEW s \in Seq(Byte), NEW f \in Seq(Byte), NEW i \in Nat \ {0}, NEW e \in Nat,
         e <= Len(s), e <= Len(f), \A j \in i..e : s[j] = f[j]
  PROVE  SubSeq(s, i, e) = SubSeq(f, i, e)
  BY SMTT(60)

\* A string that is the same as f up to its NUL.
LEMMA CStringIs ==
  ASSUME NEW s \in Seq(Byte), NEW f \in Seq(Byte), NEW i \in Nat \ {0}, NEW k \in i..Len(s),
         k <= Len(f), s[k] = NUL, \A j \in i..k - 1 : s[j] = f[j] /\ s[j] # NUL
  PROVE  CString(s, i) = SubSeq(f, i, k - 1)
<1>1. NUL \in Byte  BY DEF Byte, NUL
<1>2. Place(NUL, s, i) = k  BY <1>1, PlaceIs
<1>3. SubSeq(s, i, k - 1) = SubSeq(f, i, k - 1)
  <2>1. k - 1 \in Nat /\ k - 1 <= Len(s) /\ k - 1 <= Len(f)  OBVIOUS
  <2>2. \A j \in i..k - 1 : s[j] = f[j]  OBVIOUS
  <2> QED  BY <2>1, <2>2, SameBytes, SMTT(60)
<1>4. CString(s, i) = SubSeq(s, i, k - 1)  BY <1>2, Zenon DEF CString
<1> QED  BY <1>3, <1>4, Zenon

----------------------------------------------------------------------------
\* A file that begins with a command.

Begins(f, k) ==
  /\ f \in Seq(Byte) /\ k \in 2..MaxLen /\ k <= Len(f)
  /\ f[k] = NUL /\ \A i \in 1..k - 1 : f[i] \in Printable

LEMMA PrintableNotNul ==
  ASSUME NEW x \in Printable PROVE x # NUL
  BY DEF Printable, NUL

\* The stub's buffer holds the whole command and its NUL, whatever its length.
LEMMA SlurpHolds ==
  ASSUME NEW f, NEW k, Begins(f, k)
  PROVE  /\ Slurp(f) \in [1..MaxLen -> Byte]
         /\ Slurp(f) \in Seq(Byte) /\ Len(Slurp(f)) = MaxLen
         /\ \A i \in 1..k : Slurp(f)[i] = f[i]
         /\ \A i \in 1..MaxLen : Slurp(f)[i] = NUL \/ (i <= Len(f) /\ Slurp(f)[i] = f[i])
<1>1. \A i \in 1..MaxLen : i <= Len(f) => f[i] \in Byte  BY DEF Begins
<1>2. Slurp(f) \in [1..MaxLen -> Byte]  BY <1>1 DEF Slurp, Byte, NUL
<1>3. Slurp(f) \in Seq(Byte) /\ Len(Slurp(f)) = MaxLen  BY <1>2
<1>4. \A i \in 1..k : Slurp(f)[i] = f[i]
  <2>1. k \in 2..MaxLen /\ k <= Len(f) /\ f[k] = NUL  BY DEF Begins
  <2> QED  BY <2>1 DEF Slurp
<1>5. \A i \in 1..MaxLen : Slurp(f)[i] = NUL \/ (i <= Len(f) /\ Slurp(f)[i] = f[i])
  BY DEF Slurp
<1> QED  BY <1>2, <1>3, <1>4, <1>5

LEMMA MeantIs ==
  ASSUME NEW f, NEW k, Begins(f, k)
  PROVE  /\ Meant(SubSeq(f, 1, k)) = SubSeq(f, 1, k - 1)
         /\ SubSeq(f, 1, k - 1) \in Seq(Byte)
         /\ Len(SubSeq(f, 1, k - 1)) = k - 1
         /\ \A i \in 1..k - 1 : SubSeq(f, 1, k - 1)[i] = f[i]
  BY DEF Meant, Begins

\* A command with a blank: the program ends in front of it, the arguments behind.
LEMMA SplitAtBlank ==
  ASSUME NEW f, NEW k, Begins(f, k), NEW p \in 1..k - 1, f[p] = Blank,
         \A j \in 1..p - 1 : f[j] # Blank
  PROVE  /\ Program(Slurp(f)) = SubSeq(f, 1, p - 1)
         /\ Args(Slurp(f)) = SubSeq(f, p + 1, k - 1)
         /\ MeantProgram(Meant(SubSeq(f, 1, k))) = SubSeq(f, 1, p - 1)
         /\ MeantArgs(Meant(SubSeq(f, 1, k))) = SubSeq(f, p + 1, k - 1)
<1> DEFINE buf == Slurp(f)
           cut == [buf EXCEPT ![p] = NUL]
           m == SubSeq(f, 1, k - 1)
           a == p + 1
<1>0. buf \in Seq(Byte) /\ Len(buf) = MaxLen /\ f \in Seq(Byte)
  BY SlurpHolds DEF Begins
<1>1. /\ Len(buf) = MaxLen /\ \A i \in 1..k : buf[i] = f[i]
      /\ k \in 2..MaxLen /\ f \in Seq(Byte) /\ k <= Len(f)
      /\ f[k] = NUL /\ \A i \in 1..k - 1 : f[i] # NUL
  BY SlurpHolds, PrintableNotNul DEF Begins
<1>2. buf \in [1..MaxLen -> Byte]  BY SlurpHolds
<1>3. Blank \in Byte  BY DEF Blank, Byte
<1> HIDE DEF buf
<1>4. a \in Nat \ {0} /\ k \in a..Len(buf) /\ a > p  BY <1>1
<1>a. a = p + 1  OBVIOUS
<1> HIDE DEF a
<1>5. Occurs(Blank, buf) /\ Place(Blank, buf, 1) = p
  <2>1. p \in 1..Len(buf) /\ buf[p] = Blank /\ \A j \in 1..p - 1 : buf[j] # Blank  BY <1>1
  <2>2. Place(Blank, buf, 1) = p  BY <1>0, <1>3, <2>1, PlaceIs
  <2> QED  BY <2>1, <2>2 DEF Occurs
<1>6. CString(cut, 1) = SubSeq(f, 1, p - 1)
  <2>1. cut \in Seq(Byte) /\ Len(cut) = MaxLen  BY <1>1, <1>2 DEF Byte, NUL
  <2>2. cut[p] = NUL /\ \A j \in 1..p - 1 : cut[j] = f[j] /\ cut[j] # NUL  BY <1>1, <1>2
  <2> HIDE DEF cut
  <2>3. p \in 1..Len(cut) /\ p <= Len(f) /\ 1 \in Nat \ {0}  BY <1>1, <2>1
  <2> QED  BY <1>0, <2>1, <2>2, <2>3, CStringIs, ZenonT(60)
<1>7. CString(buf, a) = SubSeq(f, a, k - 1)
  <2>1. buf[k] = NUL /\ \A j \in a..k - 1 : buf[j] = f[j] /\ buf[j] # NUL  BY <1>1, <1>4
  <2>2. k <= Len(f)  BY <1>1
  <2> QED  BY <1>0, <1>4, <2>1, <2>2, CStringIs, ZenonT(60)
<1>8. Meant(SubSeq(f, 1, k)) = m /\ m \in Seq(Byte) /\ Len(m) = k - 1 /\ \A i \in 1..k - 1 : m[i] = f[i]
  BY MeantIs
<1> HIDE DEF m
<1>9. Occurs(Blank, m) /\ Place(Blank, m, 1) = p
  <2>1. p \in 1..Len(m)  BY <1>1, <1>8
  <2>2. m[p] = Blank /\ \A j \in 1..p - 1 : m[j] # Blank  BY <1>1, <1>8
  <2>3. Place(Blank, m, 1) = p  BY <1>3, <1>8, <2>1, <2>2, PlaceIs
  <2> QED  BY <2>1, <2>2, <2>3 DEF Occurs
<1>10. SubSeq(m, 1, p - 1) = SubSeq(f, 1, p - 1)
  <2>1. p - 1 \in Nat /\ p - 1 <= Len(m) /\ p - 1 <= Len(f)  BY <1>1, <1>8
  <2> QED  BY <1>1, <1>8, <2>1, SameBytes
<1>11. SubSeq(m, a, k - 1) = SubSeq(f, a, k - 1)
  <2>1. k - 1 \in Nat /\ k - 1 <= Len(m) /\ k - 1 <= Len(f)  BY <1>1, <1>8
  <2>2. \A j \in a..k - 1 : m[j] = f[j]  BY <1>1, <1>4, <1>8
  <2> QED  BY <1>1, <1>4, <1>8, <2>1, <2>2, SameBytes
<1>12. Program(buf) = CString(cut, 1) /\ Args(buf) = CString(buf, a)
  BY <1>a, <1>5 DEF Program, Args
<1>13. MeantProgram(m) = SubSeq(m, 1, p - 1) /\ MeantArgs(m) = SubSeq(m, a, k - 1)
  BY <1>a, <1>8, <1>9 DEF MeantProgram, MeantArgs
<1> QED  BY <1>a, <1>6, <1>7, <1>8, <1>10, <1>11, <1>12, <1>13 DEF buf

\* A command without a blank is the program; a blank behind its NUL does not change that.
LEMMA ProgramOnly ==
  ASSUME NEW f, NEW k, Begins(f, k), \A j \in 1..k - 1 : f[j] # Blank
  PROVE  /\ Program(Slurp(f)) = SubSeq(f, 1, k - 1)
         /\ (\A j \in k + 1..Len(f) : f[j] # Blank) => Args(Slurp(f)) = <<>>
         /\ MeantProgram(Meant(SubSeq(f, 1, k))) = SubSeq(f, 1, k - 1)
         /\ MeantArgs(Meant(SubSeq(f, 1, k))) = <<>>
<1> DEFINE buf == Slurp(f)
           q == Place(Blank, buf, 1)
           cut == [buf EXCEPT ![q] = NUL]
           m == SubSeq(f, 1, k - 1)
<1>0. buf \in Seq(Byte) /\ Len(buf) = MaxLen /\ f \in Seq(Byte)
  BY SlurpHolds DEF Begins
<1>1. /\ Len(buf) = MaxLen /\ \A i \in 1..k : buf[i] = f[i]
      /\ k \in 2..MaxLen /\ f \in Seq(Byte) /\ k <= Len(f)
      /\ f[k] = NUL /\ \A i \in 1..k - 1 : f[i] # NUL
  BY SlurpHolds, PrintableNotNul DEF Begins
<1>2. buf \in [1..MaxLen -> Byte]  BY SlurpHolds
<1>3. \A i \in 1..MaxLen : buf[i] = NUL \/ (i <= Len(f) /\ buf[i] = f[i])  BY SlurpHolds
<1>4. Blank \in Byte /\ Blank # NUL  BY DEF Blank, Byte, NUL
<1> HIDE DEF buf
<1>5. CString(buf, 1) = SubSeq(f, 1, k - 1)
  <2>1. k \in 1..Len(buf) /\ buf[k] = NUL /\ \A j \in 1..k - 1 : buf[j] = f[j] /\ buf[j] # NUL
    BY <1>1
  <2>2. k <= Len(f)  BY <1>1
  <2> QED  BY <1>0, <2>1, <2>2, CStringIs
<1>6. ASSUME Occurs(Blank, buf) PROVE CString(cut, 1) = SubSeq(f, 1, k - 1)
  <2>1. q \in 1..Len(buf) /\ buf[q] = Blank
    <3>1. \E i \in 1..Len(buf) : buf[i] = Blank  BY <1>6 DEF Occurs
    <3> QED  BY <1>0, <1>4, <3>1, PlaceIsFirst
  <2> HIDE DEF q
  <2>2. q > k  BY <1>1, <1>4, <2>1
  <2>3. cut \in Seq(Byte) /\ Len(cut) = MaxLen  BY <1>1, <1>2, <2>1 DEF Byte, NUL
  <2>4. \A j \in 1..k : cut[j] = buf[j]  BY <1>1, <1>2, <2>1, <2>2
  <2> HIDE DEF cut
  <2>5. k \in 1..Len(cut) /\ cut[k] = NUL /\ \A j \in 1..k - 1 : cut[j] = f[j] /\ cut[j] # NUL
    BY <1>1, <2>3, <2>4
  <2>6. k <= Len(f) /\ 1 \in Nat \ {0}  BY <1>1
  <2> QED  BY <1>0, <2>3, <2>5, <2>6, CStringIs, ZenonT(60)
<1>7. Program(buf) = SubSeq(f, 1, k - 1)  BY <1>5, <1>6 DEF Program
<1>8. (\A j \in k + 1..Len(f) : f[j] # Blank) => ~Occurs(Blank, buf)
  BY <1>1, <1>3, <1>4 DEF Occurs
<1>9. Meant(SubSeq(f, 1, k)) = m /\ Len(m) = k - 1 /\ \A i \in 1..k - 1 : m[i] = f[i]
  BY MeantIs
<1>10. ~Occurs(Blank, m)  BY <1>9 DEF Occurs
<1> QED  BY <1>7, <1>8, <1>9, <1>10 DEF MeantProgram, MeantArgs, Args, buf

\* The command line: the arguments of a command that fits leave room for the blank, the
\* count and the CR.
LEMMA LineHolds ==
  ASSUME NEW args \in Seq(Byte), Len(args) + 2 < MaxLen
  PROVE  Receives(CommandLine(args), args)
<1> DEFINE line == CommandLine(args)
           n == Len(args)
<1>1. n \in Nat  OBVIOUS
<1>2. CASE n = 0
  <2>1. args = <<>>  BY <1>2
  <2>2. line = [i \in 0..MaxLen + 1 |-> IF i = 1 THEN CR ELSE NUL]  BY <1>2 DEF CommandLine
  <2>3. line[0] = 0 /\ line[1] = CR  BY <2>2 DEF NUL
  <2> QED  BY <1>2, <2>1, <2>3 DEF Receives
<1>3. CASE n > 0
  <2>1. args # <<>>  BY <1>3
  <2>2. ~(n > MaxLen - 2)  BY <1>1
  <2>3. (IF n > MaxLen - 2 THEN MaxLen - 2 ELSE n) = n  BY <2>2
  <2>4. line[0] = n + 1 /\ line[1] = Blank /\ line[n + 2] = CR
    BY <1>1, <1>3, <2>3 DEF CommandLine
  <2>5. \A i \in 1..n : line[i + 1] = args[i]
    BY <1>1, <1>3, <2>3 DEF CommandLine
  <2> QED  BY <1>1, <1>3, <2>1, <2>4, <2>5 DEF Receives, line
<1> QED  BY <1>1, <1>2, <1>3

\* What the stub makes of a file that begins with a command is what is meant by it.
LEMMA SplitIsMeant ==
  ASSUME NEW f, NEW k, Begins(f, k)
  PROVE  LET c == SubSeq(f, 1, k)
         IN /\ Split(f).program = MeantProgram(Meant(c))
            /\ (Occurs(Blank, c) \/ \A j \in k + 1..Len(f) : f[j] # Blank) =>
                 (MeantProgram(Meant(c)) # <<>> => Receives(Split(f).line, MeantArgs(Meant(c))))
<1> DEFINE c == SubSeq(f, 1, k)
<1>1. /\ k \in 2..MaxLen /\ f \in Seq(Byte) /\ k <= Len(f) /\ f[k] = NUL
      /\ Len(c) = k /\ \A i \in 1..k : c[i] = f[i]
  BY DEF Begins
<1>2. Split(f).program = Program(Slurp(f)) /\ Split(f).line = CommandLine(Args(Slurp(f)))
  BY DEF Split
<1>3. CASE \E j \in 1..k - 1 : f[j] = Blank
  <2>1. PICK p \in 1..k - 1 : f[p] = Blank /\ \A j \in 1..p - 1 : f[j] # Blank
    <3> DEFINE T == {j \in 1..k - 1 : f[j] = Blank}
    <3>1. PICK x \in T : \A y \in T : x <= y
      <4>1. T \in SUBSET Nat /\ T # {}  BY <1>1, <1>3
      <4> HIDE DEF T
      <4> QED  BY <4>1, Least
    <3> QED  BY <3>1, <1>1
  <2>2. /\ Program(Slurp(f)) = SubSeq(f, 1, p - 1)
        /\ Args(Slurp(f)) = SubSeq(f, p + 1, k - 1)
        /\ MeantProgram(Meant(c)) = SubSeq(f, 1, p - 1)
        /\ MeantArgs(Meant(c)) = SubSeq(f, p + 1, k - 1)
    BY <2>1, SplitAtBlank
  <2> DEFINE args == SubSeq(f, p + 1, k - 1)
  <2>3. ASSUME SubSeq(f, 1, p - 1) # <<>> PROVE Receives(CommandLine(args), args)
    <3>1. p # 1  BY <2>3, <1>1
    <3>2. args \in Seq(Byte) /\ Len(args) = k - 1 - p  BY <1>1, <2>1
    <3> HIDE DEF args
    <3>3. Len(args) + 2 < MaxLen  BY <1>1, <3>1, <3>2
    <3> QED  BY <3>2, <3>3, LineHolds
  <2> QED  BY <1>2, <2>2, <2>3
<1>4. CASE \A j \in 1..k - 1 : f[j] # Blank
  <2>1. /\ Program(Slurp(f)) = SubSeq(f, 1, k - 1)
        /\ (\A j \in k + 1..Len(f) : f[j] # Blank) => Args(Slurp(f)) = <<>>
        /\ MeantProgram(Meant(c)) = SubSeq(f, 1, k - 1)
        /\ MeantArgs(Meant(c)) = <<>>
    BY <1>4, ProgramOnly
  <2>2. ~Occurs(Blank, c)  BY <1>1, <1>4 DEF Occurs, NUL, Blank
  <2>3. ASSUME SubSeq(f, 1, k - 1) # <<>>, Args(Slurp(f)) = <<>>
        PROVE  Receives(CommandLine(Args(Slurp(f))), <<>>)
    <3>1. CASE MaxLen > 2
      <4>1. <<>> \in Seq(Byte) /\ Len(<<>>) + 2 < MaxLen  BY <3>1
      <4>2. Receives(CommandLine(<<>>), <<>>)  BY <4>1, LineHolds
      <4> QED  BY <2>3, <4>2
    <3>2. CASE MaxLen = 2
      <4>1. CommandLine(<<>>) = [i \in 0..MaxLen + 1 |-> IF i = 1 THEN CR ELSE NUL]  BY DEF CommandLine
      <4>2. CommandLine(<<>>)[0] = 0 /\ CommandLine(<<>>)[1] = CR  BY <4>1, <3>2 DEF NUL
      <4> QED  BY <2>3, <3>2, <4>2 DEF Receives
    <3> QED  BY <3>1, <3>2
  <2> QED  BY <1>2, <2>1, <2>2, <2>3
<1> QED  BY <1>3, <1>4

----------------------------------------------------------------------------
\* The two checks of the host.

LEMMA AcceptedCommand ==
  ASSUME NEW c \in Seq(Byte), ValidateRunAfterBytes(c) = "Ok"
  PROVE  /\ Len(c) \in 2..MaxLen /\ c[Len(c)] = NUL
         /\ \A i \in 1..Len(c) - 1 : c[i] \in Printable
<1>1. c # <<>> /\ ~(Len(c) > MaxLen) /\ Len(c) # 1  BY Zenon DEF ValidateRunAfterBytes
<1>2. ~(c[Len(c)] # NUL) /\ ~(\E i \in 1..Len(c) - 1 : c[i] \notin Printable)
  BY Zenon DEF ValidateRunAfterBytes
<1>3. Len(c) \in Nat /\ (c # <<>> => Len(c) # 0)  OBVIOUS
<1>4. Len(c) \in 2..MaxLen  BY <1>1, <1>3
<1> QED  BY <1>2, <1>4

LEMMA ChecksAgree ==
  ASSUME NEW c \in Seq(Byte)
  PROVE  ValidateRunAfterBytes(Append(c, NUL)) = "Ok" <=> SetRunAfterVerdict(c) = "Ok"
<1> DEFINE d == Append(c, NUL)
<1>1. d \in Seq(Byte)  BY DEF Byte, NUL
<1>2. Len(d) = Len(c) + 1 /\ d[Len(d)] = NUL /\ \A i \in 1..Len(c) : d[i] = c[i]  OBVIOUS
<1> HIDE DEF d
<1>3. ASSUME SetRunAfterVerdict(c) = "Ok" PROVE ValidateRunAfterBytes(d) = "Ok"
  <2>1. c # <<>> /\ Len(c) + 1 <= MaxLen /\ \A i \in 1..Len(c) : c[i] \in Printable /\ c[i] # NUL
    BY <1>3 DEF SetRunAfterVerdict, Occurs
  <2>2. d # <<>> /\ Len(d) <= MaxLen /\ Len(d) # 1  BY <1>1, <1>2, <2>1
  <2>3. \A i \in 1..Len(d) - 1 : d[i] \in Printable /\ d[i] # NUL  BY <1>2, <2>1
  <2> QED  BY <1>1, <1>2, <2>2, <2>3 DEF ValidateRunAfterBytes
<1>4. ASSUME ValidateRunAfterBytes(d) = "Ok" PROVE SetRunAfterVerdict(c) = "Ok"
  <2>1. Len(d) \in 2..MaxLen /\ \A i \in 1..Len(d) - 1 : d[i] \in Printable
    BY <1>1, <1>4, AcceptedCommand
  <2>2. c # <<>> /\ Len(c) + 1 <= MaxLen  BY <1>2, <2>1
  <2>3. \A i \in 1..Len(c) : c[i] \in Printable /\ c[i] # NUL  BY <1>2, <2>1, PrintableNotNul
  <2> QED  BY <2>2, <2>3 DEF SetRunAfterVerdict, Occurs
<1> QED  BY <1>3, <1>4 DEF d

\* What Archive::read returns is accepted only when it is the command at the file's
\* beginning.
LEMMA ReadBegins ==
  ASSUME NEW f \in Seq(Byte), ValidateRunAfterBytes(ReadCommand(f)) = "Ok"
  PROVE  \E k \in Nat : Begins(f, k) /\ ReadCommand(f) = SubSeq(f, 1, k)
<1> DEFINE k == Place(NUL, f, 1)
<1>1. NUL \in Byte  BY DEF Byte, NUL
<1>2. \E i \in 1..Len(f) : i <= MaxLen /\ f[i] = NUL
  BY DEF ReadCommand, ValidateRunAfterBytes
<1>3. k \in 1..Len(f) /\ f[k] = NUL /\ \A j \in 1..k - 1 : f[j] # NUL
  BY <1>1, <1>2, PlaceIsFirst
<1>4. ReadCommand(f) = SubSeq(f, 1, k)  BY <1>2 DEF ReadCommand
<1> HIDE DEF k
<1> DEFINE c == SubSeq(f, 1, k)
<1>5. c \in Seq(Byte) /\ Len(c) = k /\ \A j \in 1..k : c[j] = f[j]  BY <1>3
<1> HIDE DEF c
<1>6. Len(c) \in 2..MaxLen /\ \A i \in 1..Len(c) - 1 : c[i] \in Printable
  BY <1>4, <1>5, AcceptedCommand DEF c
<1>7. k \in 2..MaxLen /\ \A i \in 1..k - 1 : f[i] \in Printable  BY <1>5, <1>6
<1> QED  BY <1>3, <1>4, <1>7 DEF Begins, c

LEMMA ReadsBack ==
  ASSUME NEW f, NEW k, Begins(f, k) PROVE ReadCommand(f) = SubSeq(f, 1, k)
<1>1. f \in Seq(Byte) /\ k \in 1..Len(f) /\ k <= MaxLen /\ f[k] = NUL /\ \A j \in 1..k - 1 : f[j] # NUL
  BY PrintableNotNul DEF Begins
<1>2. NUL \in Byte  BY DEF Byte, NUL
<1>3. Place(NUL, f, 1) = k  BY <1>1, <1>2, PlaceIs
<1> QED  BY <1>1, <1>3 DEF ReadCommand

----------------------------------------------------------------------------
\* The inductive invariant.

TypeOK ==
  /\ asked \in Commands /\ bypass \in BOOLEAN
  /\ stage \in {"asked", "set", "written", "refused"}
  /\ command \in Seq(Byte) /\ file \in Seq(Byte)
  /\ damaged \in BOOLEAN

\* What is refused was refused by the first check already, unless that was passed by.
Checked ==
  /\ stage = "set" /\ ~bypass => command = Append(asked, NUL) /\ SetRunAfterVerdict(asked) = "Ok"
  /\ stage = "refused" /\ ~bypass => SetRunAfterVerdict(asked) # "Ok"
  /\ stage = "written" => ValidateRunAfterBytes(command) = "Ok"

\* The command stands at the file's beginning, and no blank behind it.
InFile ==
  stage = "written" =>
    /\ Len(command) <= Len(file)
    /\ ~damaged => \A i \in 1..Len(command) : file[i] = command[i]
    /\ \A i \in Len(command) + 1..Len(file) : file[i] # Blank

\* Nobody changes the file once it was looked at.
Seen ==
  /\ stage # "written" => shown = <<>> /\ child = <<>>
  /\ shown # <<>> => shown = ReadCommand(file) /\ ValidateRunAfterBytes(shown) = "Ok"
  /\ child # <<>> => child = Split(file)

IInv == TypeOK /\ Checked /\ InFile /\ Seen

LEMMA InitHolds ==
  ASSUME Init PROVE IInv
<1>1. <<>> \in Seq(Byte)  OBVIOUS
<1>2. TypeOK  BY <1>1, Zenon DEF Init, TypeOK
<1> QED  BY <1>2 DEF Init, IInv, Checked, InFile, Seen

LEMMA SetRunAfterHolds ==
  ASSUME IInv, SetRunAfter PROVE IInv'
<1>1. asked \in Seq(Byte)  BY CommandsAssumption DEF IInv, TypeOK, Byte
<1>2. Append(asked, NUL) \in Seq(Byte)  BY <1>1 DEF Byte, NUL
<1> QED  BY <1>2 DEF IInv, TypeOK, Checked, InFile, Seen, SetRunAfter

LEMMA AssignFieldHolds ==
  ASSUME IInv, AssignField PROVE IInv'
<1>1. asked \in Seq(Byte)  BY CommandsAssumption DEF IInv, TypeOK, Byte
<1> QED  BY <1>1 DEF IInv, TypeOK, Checked, InFile, Seen, AssignField

LEMMA WriteHolds ==
  ASSUME IInv, Write PROVE IInv'
<1> USE DEF IInv
<1>1. CASE ValidateRunAfterBytes(command) = "Ok"
  <2>1. PICK offset \in Offsets : file' = command \o Magic \o offset  BY <1>1 DEF Write
  <2>2. command \in Seq(Byte) /\ Magic \in Seq(Byte) /\ Len(Magic) = 4  BY DEF TypeOK, Magic, Byte
  <2>3. offset \in Seq(Byte) /\ \A i \in 1..Len(offset) : offset[i] # Blank
    BY OffsetsAssumption DEF Byte
  <2>4. \A i \in 1..Len(Magic) : Magic[i] # Blank  BY DEF Magic, Blank
  <2>5. file' \in Seq(Byte) /\ Len(file') = Len(command) + Len(Magic) + Len(offset)
    <3> DEFINE head == command \o Magic
    <3>1. head \in Seq(Byte)  BY <2>2
    <3>2. Len(head) = Len(command) + Len(Magic)
      <4>1. command \in Seq(Byte) /\ Magic \in Seq(Byte)  BY <2>2
      <4> QED  BY <4>1
    <3>3. file' = head \o offset  BY <2>1
    <3> HIDE DEF head
    <3>4. file' \in Seq(Byte)  BY <2>3, <3>1, <3>3
    <3>5. Len(file') = Len(head) + Len(offset)  BY <2>3, <3>1, <3>3
    <3> QED  BY <3>2, <3>4, <3>5
  <2>6. \A i \in 1..Len(command) : file'[i] = command[i]  BY <2>1, <2>2, <2>3
  <2>7. \A i \in Len(command) + 1..Len(file') : file'[i] # Blank
    <3>1. TAKE i \in Len(command) + 1..Len(file')
    <3>2. CASE i <= Len(command) + Len(Magic)
      <4>1. i - Len(command) \in 1..Len(Magic) /\ file'[i] = Magic[i - Len(command)]
        BY <2>1, <2>2, <2>3, <2>5, <3>2
      <4> QED  BY <2>4, <4>1
    <3>3. CASE i > Len(command) + Len(Magic)
      <4>1. /\ i - Len(command) - Len(Magic) \in 1..Len(offset)
            /\ file'[i] = offset[i - Len(command) - Len(Magic)]
        BY <2>1, <2>2, <2>3, <2>5, <3>3
      <4> QED  BY <2>3, <4>1
    <3> QED  BY <2>2, <2>5, <3>2, <3>3
  <2>8. stage' = "written" /\ UNCHANGED <<asked, bypass, command, damaged, shown, child>>
        /\ shown = <<>> /\ child = <<>>
    BY <1>1 DEF Write, Seen
  <2> QED  BY <1>1, <2>2, <2>5, <2>6, <2>7, <2>8 DEF TypeOK, Checked, InFile, Seen
<1>2. CASE ValidateRunAfterBytes(command) # "Ok"
  <2>1. /\ stage = "set" /\ stage' = "refused"
        /\ UNCHANGED <<asked, bypass, command, file, damaged, shown, child>>
    BY <1>2 DEF Write
  <2>2. asked \in Seq(Byte)  BY CommandsAssumption DEF TypeOK, Byte
  <2>3. ~bypass => FALSE  BY <1>2, <2>1, <2>2, ChecksAgree DEF Checked
  <2> QED  BY <2>1, <2>3 DEF TypeOK, Checked, InFile, Seen
<1> QED  BY <1>1, <1>2

LEMMA RotHolds ==
  ASSUME IInv, Rot PROVE IInv'
<1> USE DEF IInv
<1>1. PICK i \in 1..Len(command), b \in Damage : file' = [file EXCEPT ![i] = b]  BY DEF Rot
<1>2. /\ stage = "written" /\ shown = <<>> /\ child = <<>> /\ damaged' = TRUE
      /\ UNCHANGED <<asked, bypass, stage, command, shown, child>>
  BY DEF Rot
<1>3. b \in Byte /\ file \in Seq(Byte) /\ command \in Seq(Byte) /\ Len(command) <= Len(file)
  BY <1>2, DamageAssumption DEF TypeOK, InFile, Byte
<1>4. file' \in Seq(Byte) /\ Len(file') = Len(file)  BY <1>1, <1>3
<1>5. \A j \in Len(command) + 1..Len(file') : file'[j] # Blank
  BY <1>1, <1>2, <1>3, <1>4 DEF InFile
<1> QED  BY <1>2, <1>3, <1>4, <1>5 DEF TypeOK, Checked, InFile, Seen

LEMMA ReadHolds ==
  ASSUME IInv, Read PROVE IInv'
  BY DEF IInv, TypeOK, Checked, InFile, Seen, Read

LEMMA ExecHolds ==
  ASSUME IInv, Exec PROVE IInv'
  BY DEF IInv, TypeOK, Checked, InFile, Seen, Exec

\* The invariant holds of every reachable state.
THEOREM Invariant == Spec => []IInv
<1>1. Init => IInv  BY InitHolds
<1>2. IInv /\ [Next]_vars => IInv'
  <2> SUFFICES ASSUME IInv, [Next]_vars PROVE IInv'  OBVIOUS
  <2>1. CASE Next
    BY <2>1, SetRunAfterHolds, AssignFieldHolds, WriteHolds, RotHolds, ReadHolds, ExecHolds DEF Next
  <2>2. CASE UNCHANGED vars
    BY <2>2 DEF vars, IInv, TypeOK, Checked, InFile, Seen
  <2> QED  BY <2>1, <2>2
<1> QED  BY <1>1, <1>2, PTL DEF Spec

\* An undamaged file begins with the command.
LEMMA UndamagedBegins ==
  ASSUME IInv, stage = "written", ~damaged
  PROVE  Begins(file, Len(command)) /\ SubSeq(file, 1, Len(command)) = command
<1> USE DEF IInv
<1>1. command \in Seq(Byte) /\ file \in Seq(Byte)  BY DEF TypeOK
<1>2. Len(command) \in 2..MaxLen /\ command[Len(command)] = NUL
      /\ \A i \in 1..Len(command) - 1 : command[i] \in Printable
  BY <1>1, AcceptedCommand DEF Checked
<1>3. Len(command) <= Len(file) /\ \A i \in 1..Len(command) : file[i] = command[i]  BY DEF InFile
<1>4. SubSeq(file, 1, Len(command)) = command  BY <1>1, <1>2, <1>3
<1> QED  BY <1>1, <1>2, <1>3, <1>4 DEF Begins

----------------------------------------------------------------------------
\* set_run_after and validate_run_after_bytes draw the same line, for every command and
\* every limit, and what passes is read back as it was written.
THEOREM OneLine == Spec => []OneVerdict
<1>1. IInv => OneVerdict
  <2> SUFFICES ASSUME IInv PROVE OneVerdict  OBVIOUS
  <2>1. stage = "refused" /\ ~bypass => SetRunAfterVerdict(asked) # "Ok"  BY DEF IInv, Checked
  <2>2. ASSUME stage = "written"
        PROVE  /\ command[Len(command)] = NUL
               /\ SetRunAfterVerdict(SubSeq(command, 1, Len(command) - 1)) = "Ok"
    <3> DEFINE c == SubSeq(command, 1, Len(command) - 1)
    <3>1. command \in Seq(Byte) /\ ValidateRunAfterBytes(command) = "Ok"
      BY <2>2 DEF IInv, TypeOK, Checked
    <3>2. Len(command) \in 2..MaxLen /\ command[Len(command)] = NUL  BY <3>1, AcceptedCommand
    <3>3. c \in Seq(Byte) /\ Append(c, NUL) = command  BY <3>1, <3>2
    <3> HIDE DEF c
    <3>4. SetRunAfterVerdict(c) = "Ok"  BY <3>1, <3>3, ChecksAgree
    <3> QED  BY <3>2, <3>4 DEF c
  <2>3. stage = "written" /\ ~damaged => ReadCommand(file) = command
    BY UndamagedBegins, ReadsBack
  <2> QED  BY <2>1, <2>2, <2>3 DEF OneVerdict
<1> QED  BY <1>1, Invariant, PTL

\* The stub starts the program that was asked for, with all of its arguments, for
\* every command that the host accepts, every buffer and every trailer without a blank.
THEOREM CommandRuns == Spec => []RunsTheCommand
<1>1. IInv => RunsTheCommand
  <2> SUFFICES ASSUME IInv, child # <<>>, ~damaged PROVE StartsProgram(command) /\ PassesArgs(command)
    BY DEF RunsTheCommand
  <2>1. stage = "written" /\ child = Split(file)  BY DEF IInv, Seen
  <2>2. Begins(file, Len(command)) /\ SubSeq(file, 1, Len(command)) = command  BY <2>1, UndamagedBegins
  <2>3. \A j \in Len(command) + 1..Len(file) : file[j] # Blank  BY <2>1 DEF IInv, InFile
  <2> QED  BY <2>1, <2>2, <2>3, SplitIsMeant DEF StartsProgram, PassesArgs
<1> QED  BY <1>1, Invariant, PTL

\* Whatever byte of the command is damaged: what inspect shows is what the stub runs.
THEOREM ShownIsRun == Spec => []HostAndStubAgree
<1>1. IInv => HostAndStubAgree
  <2> SUFFICES ASSUME IInv, child # <<>>, shown # <<>>
               PROVE  /\ StartsProgram(shown)
                      /\ Occurs(Blank, shown) \/ Len(shown) >= Len(command) => PassesArgs(shown)
    BY DEF HostAndStubAgree
  <2>1. /\ stage = "written" /\ child = Split(file) /\ shown = ReadCommand(file)
        /\ ValidateRunAfterBytes(ReadCommand(file)) = "Ok" /\ file \in Seq(Byte) /\ command \in Seq(Byte)
    BY DEF IInv, Seen, TypeOK
  <2>2. PICK k \in Nat : Begins(file, k) /\ shown = SubSeq(file, 1, k)  BY <2>1, ReadBegins
  <2>3. Len(shown) = k  BY <2>1, <2>2 DEF Begins
  <2>4. Len(shown) >= Len(command) => \A j \in k + 1..Len(file) : file[j] # Blank
    BY <2>1, <2>3 DEF IInv, InFile
  <2> QED  BY <2>1, <2>2, <2>4, SplitIsMeant DEF StartsProgram, PassesArgs
<1> QED  BY <1>1, Invariant, PTL
=============================================================================
