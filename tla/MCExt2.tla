------------------------------- MODULE MCExt2 -------------------------------
(* An instance of Ext2: an image with a directory, a file that ends within  *)
(* a block, one that has more than the direct blocks and an empty one.      *)
EXTENDS Ext2

MCCandidates == << [named |-> FALSE, magic |-> TRUE], [named |-> TRUE, magic |-> FALSE],
                   [named |-> TRUE, magic |-> TRUE] >>

I(mode, size, blocks, block) ==
  [mode |-> mode, size |-> size, blocks |-> blocks, block |-> block]
E(name, n) == [name |-> name, inode |-> n]

MCInodes ==
  << I(0, 0, 0, <<0, 0, 0, 0>>),
     I(16877, 6, 8, <<1, 2, 11, 0>>),      \* 40755: the root
     I(16877, 2, 2, <<3, 0, 0, 0>>),      \* d
     I(33188, 5, 6, <<4, 5, 6, 0>>),      \* 100644: f
     I(33188, 7, 10, <<7, 8, 9, 10>>),    \* bg
     I(33188, 0, 0, <<0, 0, 0, 0>>) >>    \* e

MCData == [b \in 0..11 |-> <<10 * b, (10 * b) + 1>>]
MCChars == {"/", ".", "b", "d", "e", "f", "g", "l", "x"}
dot == <<".">>
up == <<".", ".">>
MCEntries ==
  [b \in {1, 2, 3, 11} |->
     CASE b = 1 -> <<E(dot, 2), E(up, 2), E(<<"d">>, 3), E(<<"x", "d">>, 9)>>
       [] b = 2 -> <<E(<<"f">>, 4), E(<<"b", "g">>, 5), E(<<"x">>, 7)>>
       [] b = 3 -> <<E(dot, 3), E(up, 2), E(<<".", "x">>, 5), E(<<"f">>, 5)>>
       [] b = 11 -> <<E(<<"e">>, 6), E(<<"g">>, 0), E(<<"l">>, 4)>>]
MCPaths ==
  {<<"/">>, <<"/", "d", "/">>, <<"/", "d", "/", "f">>, dot, up, <<"b", "g">>,
   <<".", "/", "d">>} \cup {<<c>> : c \in {"d", "f", "x", "e", "l"}}
MCReads == (0..7) \X (1..8)
=============================================================================
