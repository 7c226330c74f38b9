------------------------------- MODULE Shell --------------------------------
(***************************************************************************)
(* The shell's commands (shell.c): the table of variables, the built-ins,   *)
(* redirection, and the search for a program along PATH.  A program does    *)
(* not return; when it faults, isr_handler starts the shell again, whose    *)
(* variables are static.  Lines come split into words, as ShellLine shows.  *)
(***************************************************************************)
EXTENDS Naturals, Sequences, FiniteSets

CONSTANTS
  Word,             \* names of variables and other words
  Stored,           \* what is left of a name in SHELL_MAX_ENV_NAME characters
  SHELL_MAX_ENV_VARS,
  Users,            \* user_list; the first is the user at the start
  DefaultPath,      \* the value "/bin:/usr/bin:."
  Dirs,             \* the directories that a value stands for as PATH
  Opens,            \* pairs of a directory and a command that fs_open finds
  Lines             \* the command lines

VARIABLES
  pc,               \* "prompt", "search", "user", "gui", "halted", "done"
  env_vars, current_user,
  cmd,              \* the first word of the last line
  argv,             \* its arguments, without redirection
  rest,             \* directories that are still to be searched
  ran               \* the directory of the program that runs or ran last

vars == <<pc, env_vars, current_user, cmd, argv, rest, ran>>

Free == "free slot"
None == "no value"
Slots == 1..SHELL_MAX_ENV_VARS

ASSUME ShellAssumption ==
  /\ SHELL_MAX_ENV_VARS \in Nat
  /\ Users \in Seq(Word) \ {<<>>} /\ {"USER", "PATH", DefaultPath} \subseteq Word
  /\ Free \notin Word /\ None \notin Word
  /\ Stored \in [Word -> Word] /\ \A w \in Word : Stored[Stored[w]] = Stored[w]
  /\ Stored["USER"] = "USER" /\ Stored["PATH"] = "PATH"
  /\ \A v \in Word : Dirs[v] \in Seq(Word)
  /\ Opens \subseteq Word \X Word
  /\ Lines \subseteq Seq(Word) \ {<<>>}
-----------------------------------------------------------------------------
Holding(e, n) == {s \in Slots : e[s].name = n}
First(S) == CHOOSE s \in S : \A t \in S : s <= t

get_env_var(e, n) ==
  IF Holding(e, n) = {} THEN None ELSE e[First(Holding(e, n))].value

Empty == [name |-> Free, value |-> None]

\* The table after set_env_var: a slot that has the name, else a free one,
\* which gets what fits of the name; else nothing.
set_env_var(e, n, v) ==
  IF Holding(e, n) # {} THEN [e EXCEPT ![First(Holding(e, n))].value = v]
  ELSE IF Holding(e, Free) # {}
  THEN [e EXCEPT ![First(Holding(e, Free))] = [name |-> Stored[n], value |-> v]]
  ELSE e

\* Mutant: unset stops at the first slot with the name.
Mutunset_env_var(e, n) ==
  IF Holding(e, n) = {} THEN e ELSE [e EXCEPT ![First(Holding(e, n))] = Empty]

unset_env_var(e, n) == [s \in Slots |-> IF e[s].name = n THEN Empty ELSE e[s]]

\* Mutant: the table is cleared first.
Mutinit_default_env(e) ==
  set_env_var(set_env_var([s \in Slots |-> Empty], "PATH", DefaultPath),
              "USER", current_user)

init_default_env(e) ==
  set_env_var(set_env_var(e, "PATH", DefaultPath), "USER", current_user)

Init ==
  /\ pc = "prompt" /\ current_user = Users[1]
  /\ env_vars = set_env_var(set_env_var([s \in Slots |-> Empty], "PATH", DefaultPath),
                            "USER", Users[1])
  /\ cmd = None /\ argv = <<>> /\ rest = <<>> /\ ran = None
-----------------------------------------------------------------------------
Redirections == {">", ">>"}

\* parse_redirection: the first operator that has a word behind it goes, and
\* that word with it.
Redirected(a) ==
  LET ops == {k \in 1..(Len(a) - 1) : a[k] \in Redirections} IN
  IF ops = {} THEN a
  ELSE SubSeq(a, 1, First(ops) - 1) \o SubSeq(a, First(ops) + 2, Len(a))

\* A line is executed: cmd is its first word, also when that is an operator
\* that was removed.
Command(line, name) ==
  /\ pc = "prompt" /\ line[1] = name
  /\ cmd' = name /\ argv' = Redirected(line)
argc == Len(argv')

export(line) ==
  /\ Command(line, "export")
  /\ env_vars' = IF argc < 3 THEN env_vars
                 ELSE set_env_var(env_vars, argv'[2], argv'[3])
  /\ UNCHANGED <<pc, current_user, rest, ran>>

unset(line) ==
  /\ Command(line, "unset")
  /\ env_vars' = IF argc < 2 THEN env_vars ELSE unset_env_var(env_vars, argv'[2])
  /\ UNCHANGED <<pc, current_user, rest, ran>>

su(line) ==
  /\ Command(line, "su")
  /\ IF argc >= 2 /\ argv'[2] \in {Users[k] : k \in DOMAIN Users}
     THEN /\ current_user' = argv'[2]
          /\ env_vars' = set_env_var(env_vars, "USER", argv'[2])
     ELSE UNCHANGED <<current_user, env_vars>>
  /\ UNCHANGED <<pc, rest, ran>>

\* exit leaves shell_run, reboot stops the machine, gui does not return.
Leave(line) ==
  /\ \/ Command(line, "exit") /\ pc' = "done"
     \/ Command(line, "reboot") /\ pc' = "halted"
     \/ Command(line, "gui") /\ pc' = "gui"
  /\ UNCHANGED <<env_vars, current_user, rest, ran>>

BuiltIn == {"export", "unset", "su", "exit", "reboot", "gui", "help", "clear", "pwd",
            "cd", "ls", "chmod", "set"}

\* The built-ins that print, and those that work on the registry only.
Other(line) ==
  /\ line[1] \in BuiltIn \ {"export", "unset", "su", "exit", "reboot", "gui"}
  /\ Command(line, line[1])
  /\ UNCHANGED <<pc, env_vars, current_user, rest, ran>>
-----------------------------------------------------------------------------
\* Mutant: the default is searched, whatever PATH is.
MutSearchStart(line) ==
  /\ line[1] \notin BuiltIn /\ Command(line, line[1])
  /\ pc' = "search" /\ rest' = <<line[1]>> \o Dirs[DefaultPath]
  /\ UNCHANGED <<env_vars, current_user, ran>>

\* Any other command is searched for along PATH, or the default without it.
SearchStart(line) ==
  /\ line[1] \notin BuiltIn /\ Command(line, line[1])
  /\ pc' = "search"
  /\ LET path == get_env_var(env_vars, "PATH") IN
       rest' = <<line[1]>> \o Dirs[IF path = None THEN DefaultPath ELSE path]
  /\ UNCHANGED <<env_vars, current_user, ran>>

\* Mutant: strtok is not called for the next directory.
MutSearchNext ==
  /\ pc = "search" /\ Len(rest) > 1 /\ <<rest[2], rest[1]>> \notin Opens
  /\ UNCHANGED vars

\* rest is the command and the directories that are left.
SearchNext ==
  /\ pc = "search" /\ Len(rest) > 1 /\ <<rest[2], rest[1]>> \notin Opens
  /\ rest' = <<rest[1]>> \o SubSeq(rest, 3, Len(rest))
  /\ UNCHANGED <<pc, env_vars, current_user, cmd, argv, ran>>

SearchFails ==
  /\ pc = "search" /\ Len(rest) = 1
  /\ pc' = "prompt" /\ rest' = <<>>
  /\ UNCHANGED <<env_vars, current_user, cmd, argv, ran>>

\* exec_elf comes back only when it cannot load the file.
Execute ==
  /\ pc = "search" /\ Len(rest) > 1 /\ <<rest[2], rest[1]>> \in Opens
  /\ pc' \in {"user", "prompt"} /\ ran' = rest[2] /\ rest' = <<>>
  /\ UNCHANGED <<env_vars, current_user, cmd, argv>>

\* The program faults and isr_handler calls shell_run.
Restart ==
  /\ pc = "user"
  /\ pc' = "prompt" /\ env_vars' = init_default_env(env_vars)
  /\ UNCHANGED <<current_user, cmd, argv, rest, ran>>
-----------------------------------------------------------------------------
Search == SearchNext \/ SearchFails \/ Execute
Next ==
  \/ \E line \in Lines : export(line) \/ unset(line) \/ su(line) \/ Leave(line)
                           \/ Other(line) \/ SearchStart(line)
  \/ Search \/ Restart

Spec == Init /\ [][Next]_vars
FairSpec == Spec /\ WF_vars(Search)
-----------------------------------------------------------------------------
TypeOK ==
  /\ pc \in {"prompt", "search", "user", "gui", "halted", "done"}
  /\ env_vars \in [Slots -> [name : Word, value : Word] \cup {Empty}]
  /\ current_user \in Word /\ cmd \in Word \cup {None}
  /\ argv \in Seq(Word) /\ rest \in Seq(Word) /\ ran \in Word \cup {None}

Value(n) == get_env_var(env_vars, n)
\* A variable has a value, or there was no slot for it.
Took(n, v) == Value(n) = v \/ (Value(n) = None /\ Holding(env_vars, Free) = {})

\* What a command is for holds when it is done.  unset: the variable has no
\* value, also when cut names left several slots for it (shell.c:91-98).
\* export, "Set env variable" (shell.c:257): it has the value, if there is a
\* slot and the name fits.  su: the user is one of the list and USER tells who
\* it is, whatever was exported before (shell.c:347-358).  A name has one slot,
\* whatever was set and removed before, so that no old value comes back; two
\* slots are left by a name that was cut, which is not found again by its full
\* length (shell.c:71-89).
CommandTakesEffect ==
  /\ TypeOK
  /\ \A s, t \in Slots :
       s # t /\ env_vars[s].name = env_vars[t].name /\ env_vars[s].name # Free =>
         \E w \in Word : w # Stored[w] /\ Stored[w] = env_vars[s].name
  /\ \E k \in DOMAIN Users : current_user = Users[k]
  /\ pc = "prompt" /\ Len(argv) >= 2 =>
       /\ cmd = "unset" => Value(argv[2]) = None
       /\ cmd = "export" /\ Len(argv) >= 3 /\ Stored[argv[2]] = argv[2] =>
            Took(argv[2], argv[3])
       /\ cmd = "su" /\ argv[2] = current_user => Took("USER", current_user)

\* shell.c:100-103: a program that faults gives back a shell with the
\* default PATH, USER for the current user, and what else was exported.
RestartKeepsTheRest ==
  [][pc = "user" =>
       /\ Took("USER", current_user)' /\ Took("PATH", DefaultPath)'
       /\ \A n \in Word \ {"USER", "PATH"} : Value(n)' = Value(n)]_vars

\* shell.c:186-220: the program that runs is the first one that PATH, or its
\* default, leads to.
FirstOfPath ==
  pc = "user" =>
    LET path == Dirs[IF Value("PATH") = None THEN DefaultPath ELSE Value("PATH")]
        hits == {k \in DOMAIN path : <<path[k], cmd>> \in Opens}
    IN hits # {} /\ ran = path[First(hits)]

\* Every search ends, with a program or at the prompt.
SearchEnds == pc = "search" ~> pc # "search"
=============================================================================
