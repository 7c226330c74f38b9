------------------------------ MODULE MCShell ------------------------------
(* An instance of Shell: three or four slots, one name that is cut. *)
EXTENDS Shell

MCUsers == <<"user", "sudo">>
MCLines ==
  {<<"export", "a", "v">>, <<"export", "along", "v">>, <<"export", "PATH", "p">>,
   <<"export", "USER", "v">>, <<"export", ">", "v", "b", "v">>, <<"export", "a">>,
   <<"unset", "a">>, <<"unset", "PATH">>, <<"unset", "USER">>, <<"unset">>,
   <<"su", "sudo">>, <<"su", "v">>, <<"exit">>, <<"reboot">>, <<"gui">>, <<"ls">>,
   <<"prog", ">>", "v">>, <<"v">>, <<">", "v", "export", "a", "v">>}
MCWord == UNION {{l[k] : k \in DOMAIN l} : l \in MCLines}
            \cup {"user", "default", "/bin", "."}
MCStored == [w \in MCWord |-> IF w = "along" THEN "a" ELSE w]
MCDirs == [w \in MCWord |-> CASE w = "default" -> <<"/bin", "v", ".">>
                              [] w = "p" -> <<"v", ".">> [] OTHER -> <<w>>]
MCOpens == {<<"/bin", "prog">>, <<".", "prog">>}
=============================================================================
