---------------------------- MODULE MCPackTree ----------------------------
(***************************************************************************)
(* A tree with links to a file, to a directory and back to its own root, a *)
(* fifo, the output of an earlier run with a second name, and a directory  *)
(* outside.  Inodes from 50 on have no name yet; others may give them one. *)
(***************************************************************************)
EXTENDS PackTree, TLC

MCTree ==
   0 :> (1 :> 1 @@ 2 :> 2 @@ 6 :> 6 @@ 9 :> 3)
@@ 1 :> (1 :> 10 @@ 2 :> 4 @@ 3 :> 20 @@ 4 :> 21 @@ 5 :> 30 @@ 8 :> 11)
@@ 2 :> (1 :> 12 @@ 2 :> 10)
@@ 3 :> (1 :> 13)
@@ 4 :> (1 :> 14 @@ 2 :> 5 @@ 8 :> 11)
@@ 5 :> (1 :> 15 @@ 2 :> 22)
@@ 6 :> (1 :> 17 @@ 2 :> 7)
@@ 7 :> (6 :> 18)
@@ 56 :> (1 :> 16)

MCDest == 20 :> <<9>> @@ 21 :> <<9, 1>> @@ 22 :> <<1>> @@ 50 :> <<9>> @@ 51 :> <<9, 1>>

Dirs == 0..7 \cup {56}
Links == {20, 21, 22, 50, 51}
Files == 10..18 \cup {52}
MCKind == [i \in Dirs |-> "dir"] @@ [i \in Links |-> "link"] @@ [i \in Files |-> "file"] @@ 30 :> "other"

\* 8 goes to the front, 1 and 2 get one name; 6 is a name that is refused.
MCMangled == 1 :> 3 @@ 2 :> 3 @@ 8 :> 2
MCUnnamed == {6}

Quiet(inputs, output, max, system, preserve) ==
  [inputs |-> inputs, output |-> output, max |-> max, system |-> system, preserve |-> preserve,
   rewrites |-> {}, swaps |-> {}]

Inputs == {
  << <<1>> >>, << <<1>>, <<2>> >>, << <<2>>, <<1, 2>>, <<1>> >>, << <<1, 1>>, <<1, 1>> >>,
  << <<1, 8>> >>,                       \* the output itself, or its second name
  << <<1, 3>>, <<1, 3, 1>> >>,          \* a link, and a file reached through it
  << <<2>>, <<1, 5>> >>, << <<2>>, <<7>> >>,
  << <<6>>, <<2>> >> }                  \* with a name that is refused, but for max = 1
Outputs == {
  <<1, 8>>, <<1, 2, 8>>, <<2, 8>>,      \* there, there under its other name, not yet there
  <<1, 4>>, <<1, 3, 8>>, <<1, 3, 1>>,   \* a link, and files in a linked directory
  <<1, 2>>, <<1, 5>>, <<7, 8>> }        \* a directory, a fifo, and nowhere
MCScenarios ==
  {Quiet(i, o, m, s, p) : i \in Inputs, o \in Outputs, m \in 0..2, s \in {"unix", "windows"}, p \in BOOLEAN}
  \cup {[Quiet(<< <<1>> >>, o, 0, s, p) EXCEPT
           !.rewrites = {10, 14},
           !.swaps = {<<1, 1, 51>>, <<1, 1, 52>>, <<1, 2, 50>>, <<1, 2, 56>>, <<4, 1, 51>>, <<4, 1, 56>>, <<4, 2, Missing>>,
                      <<1, 3, 52>>, <<1, 8, 51>>}]
        : o \in {<<1, 8>>, <<2, 8>>}, s \in {"unix", "windows"}, p \in BOOLEAN}
=============================================================================
