----------------------------- MODULE RunAfter -----------------------------
(***************************************************************************)
(* The run-after command, byte for byte: the checks it passes on the host, *)
(* the bytes that stand behind it in the file, what inspect shows of it    *)
(* and what the stub makes of it for INT 21h/4Bh.                          *)
(*                                                                         *)
(* The stub reads a buffer full from the command's offset, so that it also *)
(* holds the trailer, whose last four bytes are the length of the stub     *)
(* (the archive's offset in the file).                                     *)
(***************************************************************************)
EXTENDS Integers, Sequences

CONSTANTS
  MaxLen,     \* 128: RUN_AFTER_MAX_LEN and RUN_AFTER_BUF
  Commands,   \* what may be asked for, as bytes
  Offsets,    \* the stub's length, as the four bytes of the trailer
  Damage      \* the values a byte may take when it rots

VARIABLES
  asked,      \* opts.run_after
  bypass,     \* the caller assigns run_after_command instead of calling set_run_after
  stage,
  command,    \* Archive::run_after_command
  file,       \* the file's bytes from run_after_offset on
  damaged,
  shown,      \* the command that Archive::read returns, or <<>>
  child       \* the program and the command line given to DOS, or <<>>

vars == <<asked, bypass, stage, command, file, damaged, shown, child>>

NUL == 0
CR == 13
Blank == 32
Printable == 32..126

ASSUME SizeAssumption == MaxLen \in Nat \ {0, 1}
ASSUME CommandsAssumption == Commands \subseteq Seq(0..255)
\* A blank among these bytes would be taken for the one behind the program's name:
\* none of the blobs in the repository has such a length.
ASSUME OffsetsAssumption == Offsets \subseteq Seq(0..255 \ {Blank})
ASSUME DamageAssumption == Damage \subseteq 0..255

Magic == <<68, 75, 84, 82>>   \* TRAILER_MAGIC, "DKTR"

Occurs(b, s) == \E i \in 1..Len(s) : s[i] = b
\* The first place at or after i, when there is one.
Place(b, s, i) ==
  CHOOSE k \in i..Len(s) : s[k] = b /\ \A j \in i..k - 1 : s[j] # b

----------------------------------------------------------------------------
(* The host.                                                               *)

\* Mutant: the length is compared without the NUL.
SetRunAfterVerdictNoNul(c) ==
  IF c = <<>> THEN "Empty"
  ELSE IF Occurs(NUL, c) THEN "ContainsNul"
  ELSE IF Len(c) > MaxLen THEN "TooLong"
  ELSE IF \E i \in 1..Len(c) : c[i] \notin Printable THEN "BadByte"
  ELSE "Ok"

SetRunAfterVerdict(c) ==
  IF c = <<>> THEN "Empty"
  ELSE IF Occurs(NUL, c) THEN "ContainsNul"
  ELSE IF Len(c) + 1 > MaxLen THEN "TooLong"
  ELSE IF \E i \in 1..Len(c) : c[i] \notin Printable THEN "BadByte"
  ELSE "Ok"

ValidateRunAfterBytes(c) ==
  IF c = <<>> THEN "Empty"
  ELSE IF Len(c) > MaxLen THEN "TooLong"
  ELSE IF c[Len(c)] # NUL THEN "MissingNul"
  ELSE IF Len(c) = 1 THEN "Empty"
  ELSE IF \E i \in 1..Len(c) - 1 : c[i] = NUL THEN "ContainsNul"
  ELSE IF \E i \in 1..Len(c) - 1 : c[i] \notin Printable THEN "BadByte"
  ELSE "Ok"

\* Archive::read's loop: to the NUL, the limit or the end of the file.
ReadCommand(f) ==
  IF \E k \in 1..Len(f) : k <= MaxLen /\ f[k] = NUL
  THEN SubSeq(f, 1, Place(NUL, f, 1)) ELSE <<>>

----------------------------------------------------------------------------
(* The stub.                                                               *)

\* Mutant: one byte less is read than the host lets through.
SlurpShort(f) ==
  [i \in 1..MaxLen |-> IF i < MaxLen - 1 /\ i <= Len(f) THEN f[i] ELSE NUL]

\* g_run_after is zero before the read, and its last byte is made zero after it.
Slurp(f) ==
  [i \in 1..MaxLen |-> IF i < MaxLen /\ i <= Len(f) THEN f[i] ELSE NUL]

CString(s, i) == SubSeq(s, i, Place(NUL, s, i) - 1)

\* Mutant: the blank stays in the program's name.
ProgramUncut(buf) == CString(buf, 1)

Program(buf) ==
  CString(IF Occurs(Blank, buf) THEN [buf EXCEPT ![Place(Blank, buf, 1)] = NUL] ELSE buf, 1)

Args(buf) ==
  IF Occurs(Blank, buf) THEN CString(buf, Place(Blank, buf, 1) + 1) ELSE <<>>

\* g_exec_cmdline: the count, a blank and the arguments, CR.
CommandLine(args) ==
  LET n == IF Len(args) > MaxLen - 2 THEN MaxLen - 2 ELSE Len(args)
  IN IF n > 0
     THEN [i \in 0..MaxLen + 1 |->
             CASE i = 0 -> n + 1
               [] i = 1 -> Blank
               [] i \in 2..n + 1 -> args[i - 1]
               [] i = n + 2 -> CR
               [] OTHER -> NUL]
     ELSE [i \in 0..MaxLen + 1 |-> IF i = 1 THEN CR ELSE NUL]

Split(f) == [program |-> Program(Slurp(f)), line |-> CommandLine(Args(Slurp(f)))]

----------------------------------------------------------------------------
Init ==
  /\ asked \in Commands /\ bypass \in BOOLEAN
  /\ stage = "asked" /\ command = <<>> /\ file = <<>>
  /\ damaged = FALSE /\ shown = <<>> /\ child = <<>>

\* pack, with the error of --run-after.
SetRunAfter ==
  /\ stage = "asked" /\ ~bypass
  /\ IF SetRunAfterVerdict(asked) = "Ok"
     THEN stage' = "set" /\ command' = Append(asked, NUL)
     ELSE stage' = "refused" /\ UNCHANGED command
  /\ UNCHANGED <<asked, bypass, file, damaged, shown, child>>

\* The field is public.
AssignField ==
  /\ stage = "asked" /\ bypass
  /\ stage' = "set" /\ command' = asked
  /\ UNCHANGED <<asked, bypass, file, damaged, shown, child>>

\* Archive::write checks again; write_sfx puts the trailer behind the command.
Write ==
  /\ stage = "set"
  /\ IF ValidateRunAfterBytes(command) = "Ok"
     THEN /\ stage' = "written"
          /\ \E offset \in Offsets : file' = command \o Magic \o offset
     ELSE stage' = "refused" /\ UNCHANGED file
  /\ UNCHANGED <<asked, bypass, command, damaged, shown, child>>

\* A byte of the command changes on the way to the user.
Rot ==
  /\ stage = "written" /\ ~damaged /\ shown = <<>> /\ child = <<>>
  /\ \E i \in 1..Len(command), b \in Damage :
       b # file[i] /\ file' = [file EXCEPT ![i] = b]
  /\ damaged' = TRUE
  /\ UNCHANGED <<asked, bypass, stage, command, shown, child>>

\* inspect and unpack: Archive::read.
Read ==
  /\ stage = "written" /\ shown = <<>>
  /\ ValidateRunAfterBytes(ReadCommand(file)) = "Ok"
  /\ shown' = ReadCommand(file)
  /\ UNCHANGED <<asked, bypass, stage, command, file, damaged, child>>

\* The end of the stub's main(), once all files are there.
Exec ==
  /\ stage = "written" /\ child = <<>>
  /\ child' = Split(file)
  /\ UNCHANGED <<asked, bypass, stage, command, file, damaged, shown>>

Next == SetRunAfter \/ AssignField \/ Write \/ Rot \/ Read \/ Exec
Spec == Init /\ [][Next]_vars

----------------------------------------------------------------------------
\* What the user means: the program up to the first blank, and what follows it.
MeantProgram(c) == IF Occurs(Blank, c) THEN SubSeq(c, 1, Place(Blank, c, 1) - 1) ELSE c
MeantArgs(c) == IF Occurs(Blank, c) THEN SubSeq(c, Place(Blank, c, 1) + 1, Len(c)) ELSE <<>>

\* What the program finds in its PSP: DOS copies MaxLen bytes of the command line
\* there, the count, the tail and the CR at its end.
Receives(line, args) ==
  LET n == IF args = <<>> THEN 0 ELSE Len(args) + 1
  IN /\ line[0] = n
     /\ n + 1 < MaxLen /\ line[n + 1] = CR
     /\ n > 0 => line[1] = Blank
     /\ \A i \in 1..Len(args) : line[i + 1] = args[i]

Meant(c) == SubSeq(c, 1, Len(c) - 1)   \* without the NUL
StartsProgram(c) == child.program = MeantProgram(Meant(c))
PassesArgs(c) == MeantProgram(Meant(c)) # <<>> => Receives(child.line, MeantArgs(Meant(c)))

\* The stub starts the program that was asked for with all of its arguments and none
\* of the trailer's bytes: no command that the host accepts, of any length, loses its
\* end to the buffer or to the 126 characters of a DOS command tail.
RunsTheCommand ==
  child # <<>> /\ ~damaged => StartsProgram(command) /\ PassesArgs(command)

\* Damaged or not, a command that inspect shows is the one that the stub runs.  There
\* is one exception, in the arguments: memchr does not stop at a NUL, so when damage
\* ends the command within the program's name the stub still finds the blank behind.
HostAndStubAgree ==
  child # <<>> /\ shown # <<>> =>
    /\ StartsProgram(shown)
    /\ Occurs(Blank, shown) \/ Len(shown) >= Len(command) => PassesArgs(shown)

\* set_run_after and validate_run_after_bytes take the same commands: what the first
\* accepts is written and read back, and nothing else gets into a file around it.
OneVerdict ==
  /\ stage = "refused" /\ ~bypass => SetRunAfterVerdict(asked) # "Ok"
  /\ stage = "written" =>
       /\ command[Len(command)] = NUL
       /\ SetRunAfterVerdict(SubSeq(command, 1, Len(command) - 1)) = "Ok"
       /\ ~damaged => ReadCommand(file) = command
=============================================================================
