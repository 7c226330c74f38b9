------------------------------- MODULE MCText -------------------------------
(* An instance of Text: short buffers, and texts that fill and outgrow them. *)
EXTENDS Text

Texts(chars, n) == UNION {[1 .. k -> chars] : k \in 1 .. n}

MCPathValues == {<<>>} \cup Texts({"a", ":", "/"}, 4) \cup {<<"a", ":", "a", "a", ":", "a">>}
MCCommands == {<<"b">>, <<"b", "b">>}
MCCdPaths == Texts({"a", "/"}, 3)
MCEntries == Texts({"a", ".", "/"}, 5)
=============================================================================
