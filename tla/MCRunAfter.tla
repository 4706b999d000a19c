---------------------------- MODULE MCRunAfter ----------------------------
(***************************************************************************)
(* Ten bytes for 128: the whole trailer still fits behind a command of one *)
(* character.  Short commands of every kind of byte, and all mixtures of   *)
(* blanks and letters around the limit.                                    *)
(***************************************************************************)
EXTENDS RunAfter

Texts(chars, lengths) == UNION {[1..n -> chars] : n \in lengths}
MCCommands ==
  Texts({NUL, CR, Blank, 65}, 0..3) \cup Texts({Blank, 65}, {MaxLen - 2, MaxLen - 1, MaxLen})
  \cup {Append(c, NUL) : c \in Texts({Blank, 65}, {MaxLen - 1, MaxLen})}
\* 7082 and 17224, the least and the greatest length of a blob; the second ends in
\* printable bytes.
MCOffsets == {<<170, 27, 0, 0>>, <<72, 67, 0, 0>>}
MCDamage == {NUL, Blank, 97, 255}
=============================================================================
