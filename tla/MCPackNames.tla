---------------------------- MODULE MCPackNames ----------------------------
(***************************************************************************)
(* Names of four characters and an extension of one, and two suffixes of   *)
(* different lengths (the second stands for ~10).                          *)
(***************************************************************************)
EXTENDS PackNames

MCDigits == <<  <<49>>, <<49, 48>>  >>
MCReserved == {<<67, 79, 78>>}                  \* CON
MCSources == <<
  <<97, 98, 99, 100, 46, 116>>,                 \* abcd.t
  <<65, 66, 67, 68, 69, 46, 84>>,               \* ABCDE.T: cut to ABCD.T
  <<65, 66, 126, 49, 46, 84>>,                  \* AB~1.T: the first name dedupe makes
  <<65, 66, 67, 68, 46, 84>>,                   \* ABCD.T
  <<65, 126, 49, 48, 46, 84>>,                  \* A~10.T: the second
  <<99, 111, 110, 46, 116>>,                    \* con.t
  <<65, 66, 88, 46, 84>>,                       \* ABX.T
  <<46, 233, 46, 32, 46, 98, 98>>,              \* three dots, a letter beyond ASCII, a space
  <<46, 97>> >>                                 \* .a: no extension
=============================================================================
