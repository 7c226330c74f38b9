------------------------------ MODULE MCRamFS -------------------------------
(***************************************************************************)
(* Archives of a few entries, a pool that the writes can exhaust, and names *)
(* of at most three characters where the code has 31.                      *)
(***************************************************************************)
EXTENDS RamFS

MCChar == {".", "/", "T", "a", "b", "c", "d", "e", "f"}
Item(n, d) == [kind |-> "entry", name |-> n, data |-> d]
Trailer == [kind |-> "trailer", name |-> <<"T">>, data |-> <<>>]

\* Two files, one with "./", directories, more than the table holds, a file
\* for which the pool has no room, and one behind it that would have fitted.
MCArchive ==
  << Item(<<".", "/", "a">>, <<1, 2>>),
     Item(<<"d", "/">>, <<>>),
     Item(<<"e", "/">>, <<>>),
     Item(<<"b">>, <<3>>),
     Item(<<"f">>, [k \in 1..18 |-> 1]),
     Item(<<"c">>, <<1>>),
     Trailer >>

\* A name that does not fit with its "./".
LongArchive ==
  << Item(<<".", "/", "a", "b">>, <<1, 2>>), Trailer >>

MCNames == { <<"a">>, <<".", "/", "b">>, <<"c", "c", "c", "c">>, <<"d">>, <<"/">> }

NewNames == { <<"c">>, <<"e">> }

\* Writes that overlap the old end, start behind it, or need a new buffer;
\* none ends exactly at a capacity.
OddWrites == { <<0, <<4>> >>, <<2, <<4>> >>, <<3, <<4, 4>> >> }

\* A write that fills a new file exactly.
FullWrites == { <<0, <<4>> >>, <<2, <<4, 4>> >> }
=============================================================================
