----------------------------- MODULE ShellProofs -----------------------------
(***************************************************************************)
(* The shell's table of variables, its commands and its search for a       *)
(* program, for every size of the table, every set of lines and every PATH; *)
(* the split of its line; and the buffers of the search, of cd and of       *)
(* fs_open, with the library functions that fill them.                      *)
(***************************************************************************)
EXTENDS Shell, ShellLine, Text, TLAPS, FiniteSetTheorems, WellFoundedInduction

Pairs == [name : Word, value : Word]
Table == [Slots -> Pairs \cup {Empty}]
UserSet == {Users[k] : k \in DOMAIN Users}

\* Two slots have one name only when it is what is left of a longer one.
Distinct(e) ==
  \A s, t \in Slots :
    s # t /\ e[s].name = e[t].name /\ e[s].name # Free =>
      \E w \in Word : w # Stored[w] /\ Stored[w] = e[s].name

\* Took, of any table.
TookIn(e, n, v) == get_env_var(e, n) = v \/ (get_env_var(e, n) = None /\ Holding(e, Free) = {})
-----------------------------------------------------------------------------
\* The least slot of a set of slots.
LEMMA FirstLeast ==
  ASSUME NEW S \in SUBSET Nat, S # {}
  PROVE  First(S) \in S /\ \A t \in S : First(S) <= t
<1>1. PICK m \in S : \A x \in S : ~ (<<x, m>> \in OpToRel(<, Nat))
  BY WFMin, NatLessThanWellFounded
<1>2. \A x \in S : ~ (x < m)
  BY <1>1 DEF OpToRel
<1>3. \A x \in S : m <= x
  BY <1>2
<1>. QED  BY <1>3 DEF First

LEMMA SlotsNat == \A e, n : Holding(e, n) \in SUBSET Nat /\ Holding(e, n) \subseteq Slots
BY ShellAssumption DEF Holding, Slots

LEMMA FirstHolding ==
  ASSUME NEW e, NEW n, Holding(e, n) # {}
  PROVE  /\ First(Holding(e, n)) \in Slots
         /\ e[First(Holding(e, n))].name = n
<1>1. First(Holding(e, n)) \in Holding(e, n)
  BY SlotsNat, FirstLeast
<1>. QED  BY <1>1 DEF Holding

\* A slot is empty or has a name and a value.
LEMMA SlotKinds ==
  ASSUME NEW e \in Table, NEW s \in Slots
  PROVE  /\ e[s].name = Free => e[s] = Empty
         /\ e[s].name # Free => /\ e[s] \in Pairs /\ e[s].name \in Word /\ e[s].value \in Word
                                /\ e[s] = [name |-> e[s].name, value |-> e[s].value]
<1>1. e[s] \in Pairs \/ e[s] = Empty
  BY DEF Table
<1>2. Empty.name = Free
  BY DEF Empty
<1>3. \A r \in Pairs : r.name \in Word /\ r.value \in Word
                          /\ r = [name |-> r.name, value |-> r.value]
  BY DEF Pairs
<1>. QED  BY <1>1, <1>2, <1>3, ShellAssumption

LEMMA LookupType ==
  ASSUME NEW e \in Table, NEW n \in Word
  PROVE  /\ get_env_var(e, n) \in Word \cup {None}
         /\ get_env_var(e, n) = None <=> Holding(e, n) = {}
<1>1. CASE Holding(e, n) = {}
  BY <1>1 DEF get_env_var
<1>2. CASE Holding(e, n) # {}
  <2>1. n # Free /\ None \notin Word
    BY ShellAssumption
  <2>2. e[First(Holding(e, n))].value \in Word
    <3> DEFINE k == First(Holding(e, n))
    <3>1. k \in Slots /\ e[k].name # Free
      BY <1>2, <2>1, FirstHolding
    <3>. QED  BY <3>1, SlotKinds
  <2>. QED  BY <1>2, <2>1, <2>2 DEF get_env_var
<1>. QED  BY <1>1, <1>2

LEMMA LookupSame ==
  ASSUME NEW e, NEW f, NEW n, Holding(f, n) = Holding(e, n),
         \A s \in Holding(e, n) : f[s].value = e[s].value
  PROVE  get_env_var(f, n) = get_env_var(e, n)
<1>1. CASE Holding(e, n) = {}
  BY <1>1 DEF get_env_var
<1>2. CASE Holding(e, n) # {}
  <2>1. First(Holding(e, n)) \in Holding(e, n)
    BY <1>2, SlotsNat, FirstLeast
  <2>. QED  BY <1>2, <2>1 DEF get_env_var
<1>. QED  BY <1>1, <1>2

\* What set_env_var does to the table: the variable has its value or there is
\* no slot for it, other variables have theirs, and no name gets a second slot.
LEMMA SetVariable ==
  ASSUME NEW e \in Table, NEW n \in Word, NEW v \in Word
  PROVE  LET f == set_env_var(e, n, v) IN
         /\ f \in Table
         /\ Stored[n] = n => TookIn(f, n, v)
         /\ Holding(f, Free) \subseteq Holding(e, Free)
         /\ \A m \in Word \ {n, Stored[n]} : get_env_var(f, m) = get_env_var(e, m)
         /\ Distinct(e) => Distinct(f)
<1> DEFINE f == set_env_var(e, n, v)
           Goal == /\ f \in Table
                   /\ Stored[n] = n => TookIn(f, n, v)
                   /\ Holding(f, Free) \subseteq Holding(e, Free)
                   /\ \A m \in Word \ {n, Stored[n]} : get_env_var(f, m) = get_env_var(e, m)
                   /\ Distinct(e) => Distinct(f)
<1>0. Stored[n] \in Word /\ Free \notin Word /\ n # Free
  BY ShellAssumption
<1>1. CASE Holding(e, n) # {}
  <2> DEFINE k == First(Holding(e, n))
  <2>1. k \in Slots /\ e[k].name = n
    BY <1>1, FirstHolding
  <2>2. f = [e EXCEPT ![k].value = v]
    BY <1>1 DEF set_env_var
  <2>3. e[k] = [name |-> n, value |-> e[k].value]
    BY <1>0, <2>1, SlotKinds
  <2>. HIDE DEF k, f
  <2>4. f[k] = [name |-> n, value |-> v] /\ \A s \in Slots \ {k} : f[s] = e[s]
    <3>1. f[k] = [e[k] EXCEPT !.value = v] /\ \A s \in Slots \ {k} : f[s] = e[s]
      BY <2>1, <2>2 DEF Table
    <3>2. f[k] = [[name |-> n, value |-> e[k].value] EXCEPT !.value = v]
      BY <2>3, <3>1
    <3>. QED  BY <3>1, <3>2
  <2>5. f \in Table
    <3>1. f = [s \in Slots |-> f[s]]
      BY <2>2 DEF Table
    <3>2. f[k] \in Pairs
      BY <2>4 DEF Pairs
    <3>3. \A s \in Slots : f[s] \in Pairs \cup {Empty}
      BY <2>4, <3>2 DEF Table
    <3>. QED  BY <3>1, <3>3 DEF Table
  <2>6. /\ \A s \in Slots : f[s].name = e[s].name
        /\ f[k].value = v /\ \A s \in Slots \ {k} : f[s].value = e[s].value
    BY <2>1, <2>4
  <2>7. \A m : Holding(f, m) = Holding(e, m)
    BY <2>6 DEF Holding
  <2>8. get_env_var(f, n) = v
    BY <1>1, <2>6, <2>7 DEF get_env_var, k
  <2>9. \A m \in Word \ {n, Stored[n]} : get_env_var(f, m) = get_env_var(e, m)
    <3> SUFFICES ASSUME NEW m \in Word \ {n, Stored[n]}
                 PROVE  get_env_var(f, m) = get_env_var(e, m)
      OBVIOUS
    <3>1. \A s \in Holding(e, m) : s \in Slots \ {k}
      BY <2>1 DEF Holding
    <3>2. \A s \in Holding(e, m) : f[s].value = e[s].value
      BY <2>6, <3>1
    <3>. QED  BY <2>7, <3>2, LookupSame
  <2>10. Distinct(e) => Distinct(f)
    BY <2>6 DEF Distinct
  <2>. QED  BY <2>5, <2>7, <2>8, <2>9, <2>10 DEF f, TookIn
<1>2. CASE Holding(e, n) = {} /\ Holding(e, Free) # {}
  <2> DEFINE k == First(Holding(e, Free))
             q == Stored[n]
  <2>1. k \in Slots /\ e[k].name = Free
    BY <1>2, FirstHolding
  <2>2. f = [e EXCEPT ![k] = [name |-> q, value |-> v]]
    BY <1>2 DEF set_env_var
  <2>. HIDE DEF k, f
  <2>3. f[k] = [name |-> q, value |-> v] /\ \A s \in Slots \ {k} : f[s] = e[s]
    BY <2>1, <2>2 DEF Table
  <2>4. f \in Table
    <3>1. [name |-> q, value |-> v] \in Pairs
      BY <1>0 DEF Pairs
    <3>. QED  BY <2>2, <3>1 DEF Table
  <2>5. f[k].name = q /\ f[k].value = v
    BY <2>3
  <2>6. \A m : m # q => Holding(f, m) = Holding(e, m) \ {k}
    BY <2>3, <2>5 DEF Holding
  <2>7. Holding(f, Free) \subseteq Holding(e, Free)
    BY <1>0, <2>6
  <2>8. q = n => TookIn(f, n, v)
    <3> SUFFICES ASSUME q = n PROVE get_env_var(f, n) = v
      BY DEF TookIn
    <3>1. Holding(f, n) = {k}
      BY <1>2, <2>1, <2>3, <2>5 DEF Holding
    <3>2. First({k}) = k
      <4>1. {k} \in SUBSET Nat
        BY <2>1, ShellAssumption DEF Slots
      <4>. QED  BY <4>1, FirstLeast
    <3>. QED  BY <2>5, <3>1, <3>2 DEF get_env_var
  <2>9. \A m \in Word \ {n, q} : get_env_var(f, m) = get_env_var(e, m)
    <3> SUFFICES ASSUME NEW m \in Word \ {n, q} PROVE get_env_var(f, m) = get_env_var(e, m)
      OBVIOUS
    <3>1. k \notin Holding(e, m)
      BY <1>0, <2>1 DEF Holding
    <3>2. Holding(f, m) = Holding(e, m)
      BY <2>6, <3>1
    <3>3. \A s \in Holding(e, m) : f[s].value = e[s].value
      BY <2>3, <3>1 DEF Holding
    <3>. QED  BY <3>2, <3>3, LookupSame
  <2>10. Distinct(e) => Distinct(f)
    <3> SUFFICES ASSUME Distinct(e), NEW s \in Slots, NEW t \in Slots,
                        s # t, f[s].name = f[t].name, f[s].name # Free
                 PROVE  \E w \in Word : w # Stored[w] /\ Stored[w] = f[s].name
      BY DEF Distinct
    <3>1. CASE s # k /\ t # k
      BY <2>3, <3>1 DEF Distinct
    <3>2. CASE s = k \/ t = k
      <4>1. f[s].name = q
        BY <2>5, <3>2
      <4>2. PICK u \in Slots : e[u].name = q
        BY <2>3, <2>5, <3>2
      <4>3. q # n
        BY <1>2, <4>2 DEF Holding
      <4>. QED  BY <4>1, <4>3
    <3>. QED  BY <3>1, <3>2
  <2>. QED  BY <2>4, <2>7, <2>8, <2>9, <2>10 DEF f
<1>3. CASE Holding(e, n) = {} /\ Holding(e, Free) = {}
  <2>1. f = e
    BY <1>3 DEF set_env_var
  <2>2. get_env_var(e, n) = None
    BY <1>3 DEF get_env_var
  <2>. QED  BY <1>3, <2>1, <2>2 DEF TookIn
<1>. QED  BY <1>1, <1>2, <1>3

LEMMA UnsetVariable ==
  ASSUME NEW e \in Table, NEW n \in Word
  PROVE  LET f == unset_env_var(e, n) IN
         /\ f \in Table /\ get_env_var(f, n) = None
         /\ Distinct(e) => Distinct(f)
<1> DEFINE f == unset_env_var(e, n)
<1>1. \A s \in Slots : f[s] = IF e[s].name = n THEN Empty ELSE e[s]
  BY DEF unset_env_var
<1>2. f \in Table
  BY DEF unset_env_var, Table
<1>3. Empty.name = Free /\ Free # n
  BY ShellAssumption DEF Empty
<1>. HIDE DEF f
<1>4. Holding(f, n) = {}
  BY <1>1, <1>3 DEF Holding
<1>5. get_env_var(f, n) = None
  BY <1>4 DEF get_env_var
<1>6. Distinct(e) => Distinct(f)
  <2>1. \A s \in Slots : f[s].name = Free \/ f[s].name = e[s].name
    BY <1>1, <1>3
  <2>. QED  BY <2>1 DEF Distinct
<1>. QED  BY <1>2, <1>5, <1>6 DEF f
-----------------------------------------------------------------------------
LEMMA SubSequence ==
  ASSUME NEW T, NEW s \in Seq(T), NEW m \in Nat \ {0}, NEW n \in Nat, n <= Len(s)
  PROVE  SubSeq(s, m, n) \in Seq(T)
OBVIOUS

LEMMA SubSequencePlaces ==
  ASSUME NEW T, NEW s \in Seq(T), NEW m \in Nat \ {0}, NEW n \in Nat, n <= Len(s), m <= n + 1
  PROVE  /\ Len(SubSeq(s, m, n)) = n + 1 - m
         /\ \A k \in 1..(n + 1 - m) : SubSeq(s, m, n)[k] = s[m + k - 1]
OBVIOUS

LEMMA RedirectedType == ASSUME NEW a \in Seq(Word) PROVE Redirected(a) \in Seq(Word)
<1> DEFINE ops == {k \in 1..(Len(a) - 1) : a[k] \in Redirections}
<1>1. CASE ops = {}
  BY <1>1 DEF Redirected
<1>2. CASE ops # {}
  <2> DEFINE op == First(ops)
  <2>1. ops \in SUBSET Nat
    OBVIOUS
  <2>2. op \in ops
    BY <1>2, <2>1, FirstLeast
  <2>3. op \in 1..(Len(a) - 1) /\ Len(a) \in Nat
    BY <2>2
  <2>4. Redirected(a) = SubSeq(a, 1, op - 1) \o SubSeq(a, op + 2, Len(a))
    BY <1>2 DEF Redirected
  <2>. HIDE DEF op
  <2>5. SubSeq(a, 1, op - 1) \in Seq(Word) /\ SubSeq(a, op + 2, Len(a)) \in Seq(Word)
    BY <2>3, SubSequence
  <2>6. \A s, t \in Seq(Word) : s \o t \in Seq(Word)
    OBVIOUS
  <2>. QED  BY <2>4, <2>5, <2>6, Zenon
<1>. QED  BY <1>1, <1>2

LEMMA CommandType ==
  ASSUME NEW line \in Lines, NEW name, Command(line, name)
  PROVE  /\ pc = "prompt" /\ cmd' = line[1] /\ line[1] = name /\ cmd' \in Word
         /\ argv' \in Seq(Word) /\ Len(argv') \in Nat
         /\ \A k \in 1..Len(argv') : argv'[k] \in Word
<1>1. line \in Seq(Word) /\ line # <<>>
  BY ShellAssumption
<1>2. line[1] \in Word
  BY <1>1
<1>3. argv' \in Seq(Word)
  BY <1>1, RedirectedType DEF Command
<1>. QED  BY <1>2, <1>3 DEF Command
-----------------------------------------------------------------------------
Path(e) ==
  Dirs[IF get_env_var(e, "PATH") = None THEN DefaultPath ELSE get_env_var(e, "PATH")]

\* While PATH is searched, rest is the command and the directories from some
\* place on, and none before that place has the program.
Searching ==
  pc = "search" =>
    \E j \in 1..(Len(Path(env_vars)) + 1) :
      /\ Len(rest) = Len(Path(env_vars)) + 2 - j /\ rest[1] = cmd
      /\ \A k \in 2..Len(rest) : rest[k] = Path(env_vars)[j + k - 2]
      /\ \A k \in 1..(j - 1) : <<Path(env_vars)[k], cmd>> \notin Opens

\* The program that runs is the first one found.
Running ==
  pc = "user" =>
    \E j \in DOMAIN Path(env_vars) :
      /\ <<Path(env_vars)[j], cmd>> \in Opens /\ ran = Path(env_vars)[j]
      /\ \A k \in 1..(j - 1) : <<Path(env_vars)[k], cmd>> \notin Opens

Types ==
  /\ pc \in {"prompt", "search", "user", "gui", "halted", "done"}
  /\ env_vars \in Table /\ current_user \in UserSet
  /\ cmd \in Word \cup {None} /\ argv \in Seq(Word) /\ rest \in Seq(Word)
  /\ ran \in Word \cup {None}
  /\ pc \in {"search", "user"} => cmd \in Word \ BuiltIn

Effect ==
  pc = "prompt" /\ Len(argv) >= 2 =>
    /\ cmd = "unset" => get_env_var(env_vars, argv[2]) = None
    /\ cmd = "export" /\ Len(argv) >= 3 /\ Stored[argv[2]] = argv[2] =>
         TookIn(env_vars, argv[2], argv[3])
    /\ cmd = "su" /\ argv[2] = current_user => TookIn(env_vars, "USER", current_user)

ShellInv == Types /\ Distinct(env_vars) /\ Effect /\ Searching /\ Running
-----------------------------------------------------------------------------
LEMMA UsersAreWords == UserSet \subseteq Word /\ Users[1] \in UserSet
BY ShellAssumption DEF UserSet

LEMMA PathType == ASSUME NEW e \in Table PROVE Path(e) \in Seq(Word)
<1>1. "PATH" \in Word /\ DefaultPath \in Word
  BY ShellAssumption
<1>2. get_env_var(e, "PATH") \in Word \cup {None}
  BY <1>1, LookupType
<1>. QED  BY <1>1, <1>2, ShellAssumption DEF Path

\* The environment a shell starts with.
LEMMA DefaultEnv ==
  ASSUME NEW e \in Table, NEW u \in Word
  PROVE  LET f == set_env_var(set_env_var(e, "PATH", DefaultPath), "USER", u) IN
         /\ f \in Table
         /\ Distinct(e) => Distinct(f)
         /\ TookIn(f, "PATH", DefaultPath) /\ TookIn(f, "USER", u)
         /\ \A n \in Word \ {"USER", "PATH"} : get_env_var(f, n) = get_env_var(e, n)
<1> DEFINE g == set_env_var(e, "PATH", DefaultPath)
           f == set_env_var(g, "USER", u)
<1>0. /\ "PATH" \in Word /\ "USER" \in Word /\ DefaultPath \in Word
      /\ Stored["PATH"] = "PATH" /\ Stored["USER"] = "USER"
  BY ShellAssumption
<1>1. /\ g \in Table /\ TookIn(g, "PATH", DefaultPath)
      /\ \A m \in Word \ {"PATH"} : get_env_var(g, m) = get_env_var(e, m)
      /\ Distinct(e) => Distinct(g)
  BY <1>0, SetVariable, SMTT(30)
<1>. HIDE DEF g
<1>2. /\ f \in Table /\ TookIn(f, "USER", u)
      /\ Holding(f, Free) \subseteq Holding(g, Free)
      /\ \A m \in Word \ {"USER"} : get_env_var(f, m) = get_env_var(g, m)
      /\ Distinct(g) => Distinct(f)
  <2>1. /\ f \in Table
        /\ Stored["USER"] = "USER" => TookIn(f, "USER", u)
        /\ Holding(f, Free) \subseteq Holding(g, Free)
        /\ \A m \in Word \ {"USER", Stored["USER"]} : get_env_var(f, m) = get_env_var(g, m)
        /\ Distinct(g) => Distinct(f)
    BY <1>0, <1>1, SetVariable
  <2>2. {"USER", Stored["USER"]} = {"USER"}
    BY <1>0
  <2>. HIDE DEF f
  <2>. QED  BY <1>0, <2>1, <2>2
<1>. HIDE DEF f
<1>3. TookIn(f, "PATH", DefaultPath)
  <2>1. "PATH" # "USER"
    OBVIOUS
  <2>2. get_env_var(f, "PATH") = get_env_var(g, "PATH")
    BY <1>0, <1>2, <2>1
  <2>. QED  BY <1>1, <1>2, <2>2 DEF TookIn
<1>4. \A n \in Word \ {"USER", "PATH"} : get_env_var(f, n) = get_env_var(e, n)
  BY <1>1, <1>2
<1>. QED  BY <1>1, <1>2, <1>3, <1>4 DEF f, g

LEMMA ShellInit == Init => ShellInv
<1> SUFFICES ASSUME Init PROVE ShellInv
  OBVIOUS
<1> DEFINE e == [s \in Slots |-> Empty]
<1>1. e \in Table /\ Distinct(e)
  BY DEF Table, Distinct, Empty
<1>2. Users[1] \in Word /\ Users[1] \in UserSet
  BY UsersAreWords
<1>3. env_vars = set_env_var(set_env_var(e, "PATH", DefaultPath), "USER", Users[1])
  BY DEF Init
<1>. HIDE DEF e
<1>4. env_vars \in Table /\ Distinct(env_vars)
  BY <1>1, <1>2, <1>3, DefaultEnv
<1>. QED  BY <1>2, <1>4 DEF Init, ShellInv, Types, Effect, Searching, Running
-----------------------------------------------------------------------------
\* The built-ins that change the table or the user, and those that do not.
LEMMA SetStep ==
  ASSUME ShellInv, NEW line \in Lines, export(line) \/ unset(line) \/ su(line)
  PROVE  ShellInv'
<1>0. /\ Types /\ Distinct(env_vars) /\ env_vars \in Table
      /\ current_user \in UserSet /\ current_user \in Word
  BY UsersAreWords DEF ShellInv, Types
<1>1. /\ pc = "prompt" /\ pc' = "prompt" /\ UNCHANGED <<rest, ran>>
      /\ cmd' \in Word /\ argv' \in Seq(Word)
  BY CommandType DEF export, unset, su, Command
<1>2. /\ env_vars' \in Table /\ Distinct(env_vars') /\ current_user' \in UserSet /\ Effect'
  <2>1. CASE export(line)
    <3>1. cmd' = "export" /\ current_user' = current_user /\ \A k \in 1..Len(argv') : argv'[k] \in Word
      BY <2>1, CommandType DEF export
    <3>2. CASE Len(argv') < 3
      <4>1. env_vars' = env_vars
        BY <2>1, <3>2 DEF export, argc
      <4>2. ~ (Len(argv') >= 3)
        BY <3>2, <1>1
      <4>. QED  BY <1>0, <3>1, <4>1, <4>2 DEF Effect
    <3>3. CASE ~ (Len(argv') < 3)
      <4>1. env_vars' = set_env_var(env_vars, argv'[2], argv'[3])
        BY <2>1, <3>3 DEF export, argc
      <4>2. argv'[2] \in Word /\ argv'[3] \in Word
        BY <1>1, <3>1, <3>3
      <4>3. /\ env_vars' \in Table /\ Distinct(env_vars')
            /\ Stored[argv'[2]] = argv'[2] => TookIn(env_vars', argv'[2], argv'[3])
        BY <1>0, <4>1, <4>2, SetVariable
      <4>. QED  BY <1>0, <3>1, <4>3 DEF Effect
    <3>. QED  BY <3>2, <3>3
  <2>2. CASE unset(line)
    <3>1. cmd' = "unset" /\ current_user' = current_user /\ \A k \in 1..Len(argv') : argv'[k] \in Word
      BY <2>2, CommandType DEF unset
    <3>2. CASE Len(argv') < 2
      <4>1. env_vars' = env_vars
        BY <2>2, <3>2 DEF unset, argc
      <4>2. ~ (Len(argv') >= 2)
        BY <3>2, <1>1
      <4>. QED  BY <1>0, <3>1, <4>1, <4>2 DEF Effect
    <3>3. CASE ~ (Len(argv') < 2)
      <4>1. env_vars' = unset_env_var(env_vars, argv'[2])
        BY <2>2, <3>3 DEF unset, argc
      <4>2. argv'[2] \in Word
        BY <1>1, <3>1, <3>3
      <4>3. /\ env_vars' \in Table /\ Distinct(env_vars')
            /\ get_env_var(env_vars', argv'[2]) = None
        BY <1>0, <4>1, <4>2, UnsetVariable
      <4>. QED  BY <1>0, <3>1, <4>3 DEF Effect
    <3>. QED  BY <3>2, <3>3
  <2>3. CASE su(line)
    <3>1. cmd' = "su"
      BY <2>3, CommandType DEF su
    <3>2. CASE Len(argv') >= 2 /\ argv'[2] \in UserSet
      <4>1. current_user' = argv'[2] /\ env_vars' = set_env_var(env_vars, "USER", argv'[2])
        BY <2>3, <3>2 DEF su, UserSet, argc
      <4>2. argv'[2] \in Word /\ "USER" \in Word /\ Stored["USER"] = "USER"
        BY <3>2, UsersAreWords, ShellAssumption
      <4>3. /\ env_vars' \in Table /\ Distinct(env_vars')
            /\ TookIn(env_vars', "USER", argv'[2])
        BY <1>0, <4>1, <4>2, SetVariable
      <4>. QED  BY <3>1, <3>2, <4>1, <4>3 DEF Effect
    <3>3. CASE ~ (Len(argv') >= 2 /\ argv'[2] \in UserSet)
      <4>1. current_user' = current_user /\ env_vars' = env_vars
        BY <2>3, <3>3 DEF su, UserSet, argc
      <4>. QED  BY <1>0, <3>1, <3>3, <4>1 DEF Effect
    <3>. QED  BY <3>2, <3>3
  <2>. QED  BY <2>1, <2>2, <2>3
<1>. QED  BY <1>0, <1>1, <1>2 DEF ShellInv, Types, Searching, Running

LEMMA BuiltInStep ==
  ASSUME ShellInv, NEW line \in Lines, Leave(line) \/ Other(line)
  PROVE  ShellInv'
<1>1. /\ pc' # "search" /\ pc' # "user" /\ UNCHANGED <<env_vars, current_user, rest, ran>>
      /\ pc' \in {"prompt", "gui", "halted", "done"}
      /\ cmd' \in Word /\ argv' \in Seq(Word)
      /\ pc' = "prompt" => cmd' \notin {"export", "unset", "su"}
  <2>1. CASE Leave(line)
    BY <2>1, CommandType DEF Leave
  <2>2. CASE Other(line)
    BY <2>2, CommandType DEF Other
  <2>. QED  BY <2>1, <2>2
<1>. QED  BY <1>1 DEF ShellInv, Types, Effect, Searching, Running

LEMMA SearchStartStep ==
  ASSUME ShellInv, NEW line \in Lines, SearchStart(line)
  PROVE  ShellInv'
<1> DEFINE path == Path(env_vars)
<1>0. Types /\ path \in Seq(Word) /\ Len(path) \in Nat
  BY PathType DEF ShellInv, Types
<1>1. /\ line[1] \notin BuiltIn /\ pc' = "search" /\ cmd' = line[1] /\ cmd' \in Word
      /\ argv' \in Seq(Word) /\ UNCHANGED <<env_vars, current_user, ran>>
      /\ rest' = <<cmd'>> \o path
  BY CommandType DEF SearchStart, Path
<1>2. /\ rest' \in Seq(Word) /\ Len(rest') = Len(path) + 1 /\ rest'[1] = cmd'
      /\ \A k \in 2..Len(rest') : rest'[k] = path[k - 1]
  <2>. HIDE DEF path
  <2>1. \A c \in Word, s \in Seq(Word) :
          /\ <<c>> \o s \in Seq(Word) /\ Len(<<c>> \o s) = Len(s) + 1 /\ (<<c>> \o s)[1] = c
          /\ \A k \in 2..Len(s) + 1 : (<<c>> \o s)[k] = s[k - 1]
    OBVIOUS
  <2>. QED  BY <1>0, <1>1, <2>1
<1>3. Searching'
  <2>1. Path(env_vars') = path
    BY <1>1
  <2>. HIDE DEF path
  <2>2. /\ 1 \in 1..(Len(path) + 1) /\ Len(rest') = Len(path) + 2 - 1
        /\ \A k \in 2..Len(rest') : 1 + k - 2 = k - 1
        /\ 1..(1 - 1) = {}
    BY <1>0, <1>2
  <2>3. \A k \in 2..Len(rest') : rest'[k] = path[1 + k - 2]
    BY <1>2, <2>2
  <2>. QED  BY <1>1, <1>2, <2>1, <2>2, <2>3 DEF Searching
<1>. QED  BY <1>0, <1>1, <1>2, <1>3 DEF ShellInv, Types, Effect, Running

LEMMA SearchStep == ASSUME ShellInv, Search PROVE ShellInv'
<1> DEFINE path == Path(env_vars)
<1>0. /\ Types /\ path \in Seq(Word) /\ Len(path) \in Nat /\ rest \in Seq(Word)
      /\ Len(rest) \in Nat
  BY PathType DEF ShellInv, Types
<1>1. pc = "search" /\ UNCHANGED <<env_vars, current_user, cmd, argv>>
  BY DEF Search, SearchNext, SearchFails, Execute
<1>2. PICK j \in 1..(Len(path) + 1) :
        /\ Len(rest) = Len(path) + 2 - j /\ rest[1] = cmd
        /\ \A k \in 2..Len(rest) : rest[k] = path[j + k - 2]
        /\ \A k \in 1..(j - 1) : <<path[k], cmd>> \notin Opens
  BY <1>1 DEF ShellInv, Searching
<1>3. Path(env_vars') = path /\ cmd' \notin {"export", "unset", "su"}
  BY <1>0, <1>1 DEF Types, BuiltIn
<1>. HIDE DEF path
<1>4. Len(rest) > 1 => rest[2] = path[j] /\ j \in 1..Len(path)
  <2> SUFFICES ASSUME Len(rest) > 1 PROVE rest[2] = path[j] /\ j \in 1..Len(path)
    OBVIOUS
  <2>1. 2 \in 2..Len(rest) /\ j + 2 - 2 = j /\ j \in 1..Len(path)
    BY <1>0, <1>2
  <2>. QED  BY <1>2, <2>1
<1>5. CASE SearchNext
  <2>1. /\ Len(rest) > 1 /\ <<rest[2], rest[1]>> \notin Opens /\ pc' = pc /\ ran' = ran
        /\ rest' = <<rest[1]>> \o SubSeq(rest, 3, Len(rest))
    BY <1>5 DEF SearchNext
  <2>2. /\ rest' \in Seq(Word) /\ Len(rest') = Len(rest) - 1 /\ rest'[1] = cmd
        /\ \A k \in 2..Len(rest') : rest'[k] = rest[k + 1]
    <3>1. ASSUME NEW s \in Seq(Word), Len(s) > 1
          PROVE  /\ s[1] \in Word /\ SubSeq(s, 3, Len(s)) \in Seq(Word)
                 /\ Len(SubSeq(s, 3, Len(s))) = Len(s) - 2
                 /\ \A k \in 1..Len(s) - 2 : SubSeq(s, 3, Len(s))[k] = s[k + 2]
      <4>1. Len(s) \in Nat /\ 1 \in 1..Len(s) /\ 3 <= Len(s) + 1 /\ Len(s) + 1 - 3 = Len(s) - 2
        BY <3>1
      <4>2. s[1] \in Word
        BY <4>1
      <4>3. SubSeq(s, 3, Len(s)) \in Seq(Word)
        BY <4>1, SubSequence
      <4>4. /\ Len(SubSeq(s, 3, Len(s))) = Len(s) + 1 - 3
            /\ \A k \in 1..(Len(s) + 1 - 3) : SubSeq(s, 3, Len(s))[k] = s[3 + k - 1]
        BY <4>1, SubSequencePlaces
      <4>5. \A k \in 1..(Len(s) - 2) : 3 + k - 1 = k + 2
        OBVIOUS
      <4>. QED  BY <4>1, <4>2, <4>3, <4>4, <4>5
    <3>2. \A c \in Word, s \in Seq(Word) :
            /\ <<c>> \o s \in Seq(Word) /\ Len(<<c>> \o s) = Len(s) + 1 /\ (<<c>> \o s)[1] = c
            /\ \A k \in 2..Len(s) + 1 : (<<c>> \o s)[k] = s[k - 1]
      OBVIOUS
    <3> DEFINE t == SubSeq(rest, 3, Len(rest))
    <3>3. /\ rest[1] \in Word /\ t \in Seq(Word) /\ Len(t) = Len(rest) - 2
          /\ \A k \in 1..Len(rest) - 2 : t[k] = rest[k + 2]
      BY <1>0, <2>1, <3>1
    <3>4. /\ rest' \in Seq(Word) /\ Len(rest') = Len(t) + 1 /\ rest'[1] = rest[1]
          /\ \A k \in 2..Len(t) + 1 : rest'[k] = t[k - 1]
      BY <2>1, <3>2, <3>3
    <3>. HIDE DEF t
    <3>5. Len(rest') = Len(rest) - 1
      BY <1>0, <3>3, <3>4
    <3>6. ASSUME NEW k \in 2..Len(rest') PROVE rest'[k] = rest[k + 1]
      <4>1. k - 1 \in 1..Len(rest) - 2 /\ k \in 2..Len(t) + 1 /\ k - 1 + 2 = k + 1
        BY <1>0, <3>3, <3>5
      <4>. QED  BY <3>3, <3>4, <4>1
    <3>. QED  BY <1>2, <3>4, <3>5, <3>6
  <2>3. Searching'
    <3>1. <<path[j], cmd>> \notin Opens
      BY <1>2, <1>4, <2>1
    <3>2. j + 1 \in 1..(Len(path) + 1) /\ Len(rest') = Len(path) + 2 - (j + 1)
      BY <1>0, <1>2, <1>4, <2>1, <2>2
    <3>3. ASSUME NEW k \in 2..Len(rest') PROVE rest'[k] = path[(j + 1) + k - 2]
      <4>1. k + 1 \in 2..Len(rest) /\ j + (k + 1) - 2 = (j + 1) + k - 2
        BY <1>0, <2>2
      <4>. QED  BY <1>2, <2>2, <4>1
    <3>4. \A k \in 1..(j + 1) - 1 : <<path[k], cmd>> \notin Opens
      <4>1. \A k \in 1..(j + 1) - 1 : k \in 1..(j - 1) \/ k = j
        OBVIOUS
      <4>. QED  BY <1>2, <3>1, <4>1
    <3>. QED  BY <1>1, <1>3, <2>2, <3>2, <3>3, <3>4 DEF Searching
  <2>. QED  BY <1>0, <1>1, <2>1, <2>2, <2>3 DEF ShellInv, Types, Effect, Running
<1>6. CASE SearchFails
  <2>1. pc' = "prompt" /\ rest' = <<>> /\ ran' = ran
    BY <1>6 DEF SearchFails
  <2>. QED  BY <1>0, <1>1, <1>3, <2>1 DEF ShellInv, Types, Effect, Searching, Running
<1>7. CASE Execute
  <2>1. /\ Len(rest) > 1 /\ <<rest[2], rest[1]>> \in Opens
        /\ pc' \in {"user", "prompt"} /\ ran' = rest[2] /\ rest' = <<>>
    BY <1>7 DEF Execute
  <2>2. j \in DOMAIN path /\ ran' = path[j] /\ <<path[j], cmd>> \in Opens /\ ran' \in Word
    <3>1. j \in DOMAIN path
      BY <1>0, <1>4, <2>1
    <3>2. path[j] \in Word
      BY <1>0, <3>1
    <3>. QED  BY <1>2, <1>4, <2>1, <3>1, <3>2
  <2>3. Running'
    BY <1>1, <1>2, <1>3, <2>2 DEF Running
  <2>. QED  BY <1>0, <1>1, <1>3, <2>1, <2>2, <2>3 DEF ShellInv, Types, Effect, Searching
<1>. QED  BY <1>5, <1>6, <1>7 DEF Search

LEMMA RestartStep ==
  ASSUME ShellInv, Restart
  PROVE  /\ ShellInv'
         /\ TookIn(env_vars', "PATH", DefaultPath) /\ TookIn(env_vars', "USER", current_user')
         /\ \A n \in Word \ {"USER", "PATH"} :
              get_env_var(env_vars', n) = get_env_var(env_vars, n)
<1>0. Types /\ Distinct(env_vars) /\ env_vars \in Table /\ current_user \in Word
  BY UsersAreWords DEF ShellInv, Types
<1>1. /\ pc = "user" /\ pc' = "prompt" /\ UNCHANGED <<current_user, cmd, argv, rest, ran>>
      /\ env_vars' = set_env_var(set_env_var(env_vars, "PATH", DefaultPath), "USER", current_user)
  BY DEF Restart, init_default_env
<1>2. /\ env_vars' \in Table /\ Distinct(env_vars')
      /\ TookIn(env_vars', "PATH", DefaultPath) /\ TookIn(env_vars', "USER", current_user)
      /\ \A n \in Word \ {"USER", "PATH"} :
           get_env_var(env_vars', n) = get_env_var(env_vars, n)
  BY <1>0, <1>1, DefaultEnv
<1>3. cmd \notin {"export", "unset", "su"}
  BY <1>0, <1>1 DEF Types, BuiltIn
<1>. QED  BY <1>0, <1>1, <1>2, <1>3 DEF ShellInv, Types, Effect, Searching, Running

LEMMA ShellStep == ShellInv /\ [Next]_vars => ShellInv'
<1> SUFFICES ASSUME ShellInv, [Next]_vars PROVE ShellInv'
  OBVIOUS
<1>1. CASE \E line \in Lines : export(line) \/ unset(line) \/ su(line)
  BY <1>1, SetStep
<1>2. CASE \E line \in Lines : Leave(line) \/ Other(line)
  BY <1>2, BuiltInStep
<1>3. CASE \E line \in Lines : SearchStart(line)
  BY <1>3, SearchStartStep
<1>4. CASE Search
  BY <1>4, SearchStep
<1>5. CASE Restart
  BY <1>5, RestartStep
<1>6. CASE UNCHANGED vars
  BY <1>6 DEF vars, ShellInv, Types, Effect, Searching, Running
<1>. QED  BY <1>1, <1>2, <1>3, <1>4, <1>5, <1>6 DEF Next

LEMMA ShellInvHolds == Spec => []ShellInv
BY ShellInit, ShellStep, PTL DEF Spec
-----------------------------------------------------------------------------
\* What export, unset and su are for holds when they are done; no name gets two
\* slots but one that was cut (shell.c:71-98, 257, 347-358).
THEOREM CommandsTakeEffect == Spec => []CommandTakesEffect
<1>1. ShellInv => CommandTakesEffect
  <2> SUFFICES ASSUME ShellInv PROVE CommandTakesEffect
    OBVIOUS
  <2>1. TypeOK
    BY UsersAreWords DEF ShellInv, Types, TypeOK, Table, Pairs
  <2>2. \A s, t \in Slots :
          s # t /\ env_vars[s].name = env_vars[t].name /\ env_vars[s].name # Free =>
            \E w \in Word : w # Stored[w] /\ Stored[w] = env_vars[s].name
    BY DEF ShellInv, Distinct
  <2>3. \E k \in DOMAIN Users : current_user = Users[k]
    BY DEF ShellInv, Types, UserSet
  <2>. QED  BY <2>1, <2>2, <2>3 DEF ShellInv, Effect, TookIn, CommandTakesEffect, Took, Value
<1>. QED  BY <1>1, ShellInvHolds, PTL

\* The program that runs is the first one that PATH, or its default, leads to
\* (shell.c:186-220).
THEOREM FirstOfPathHolds == Spec => []FirstOfPath
<1>1. ShellInv => FirstOfPath
  <2> SUFFICES ASSUME ShellInv, pc = "user"
               PROVE  LET hits == {k \in DOMAIN Path(env_vars) : <<Path(env_vars)[k], cmd>> \in Opens}
                      IN  hits # {} /\ ran = Path(env_vars)[First(hits)]
    BY DEF FirstOfPath, Path, Value
  <2> DEFINE path == Path(env_vars)
             hits == {k \in DOMAIN path : <<path[k], cmd>> \in Opens}
  <2>1. path \in Seq(Word)
    BY PathType DEF ShellInv, Types
  <2>2. PICK j \in DOMAIN path :
          /\ <<path[j], cmd>> \in Opens /\ ran = path[j]
          /\ \A k \in 1..(j - 1) : <<path[k], cmd>> \notin Opens
    BY DEF ShellInv, Running
  <2>. HIDE DEF path
  <2>3. hits \in SUBSET Nat /\ j \in hits
    BY <2>1, <2>2
  <2>4. First(hits) \in hits /\ First(hits) <= j
    BY <2>3, FirstLeast
  <2>5. First(hits) \notin 1..(j - 1) /\ First(hits) \in Nat \ {0} /\ j \in Nat \ {0}
    <3>1. First(hits) \notin 1..(j - 1)
      BY <2>2, <2>4
    <3>. QED  BY <2>1, <2>2, <2>4, <3>1
  <2>6. First(hits) = j
    BY <2>4, <2>5
  <2>. QED  BY <2>2, <2>3, <2>6 DEF path
<1>. QED  BY <1>1, ShellInvHolds, PTL

\* A program that faults gives back a shell with the default PATH, USER for the
\* current user, and what else was exported (shell.c:100-103).
THEOREM RestartsKeepTheRest == Spec => RestartKeepsTheRest
<1>1. ShellInv /\ [Next]_vars =>
        [pc = "user" =>
           /\ Took("USER", current_user)' /\ Took("PATH", DefaultPath)'
           /\ \A n \in Word \ {"USER", "PATH"} : Value(n)' = Value(n)]_vars
  <2> SUFFICES ASSUME ShellInv, Next, pc = "user"
               PROVE  /\ Took("USER", current_user)' /\ Took("PATH", DefaultPath)'
                      /\ \A n \in Word \ {"USER", "PATH"} : Value(n)' = Value(n)
    OBVIOUS
  <2>1. Restart
    BY DEF Next, export, unset, su, Leave, Other, SearchStart, Command, Search, SearchNext,
           SearchFails, Execute
  <2>. QED  BY <2>1, RestartStep DEF Took, TookIn, Value
<1>. QED  BY <1>1, ShellInvHolds, PTL DEF RestartKeepsTheRest, Spec
-----------------------------------------------------------------------------
\* How many places of S are before k.
Rank(S, k) == Cardinality({l \in S : l < k})

\* How many places of S lie below one is a number, and that many it has before the next.
LEMMA RankType ==
  ASSUME NEW S \in SUBSET Nat, IsFiniteSet(S), NEW k \in Nat
  PROVE  /\ IsFiniteSet({l \in S : l < k}) /\ Rank(S, k) \in Nat
         /\ Rank(S, k) <= Cardinality(S) /\ (k \in S => Rank(S, k) < Cardinality(S))
<1>. DEFINE T == {l \in S : l < k}
<1>1. T \in SUBSET S
  OBVIOUS
<1>. HIDE DEF T
<1>2. IsFiniteSet(T) /\ Cardinality(T) <= Cardinality(S) /\ (Cardinality(S) = Cardinality(T) => S = T)
  BY <1>1, FS_Subset
<1>3. Cardinality(T) \in Nat /\ Cardinality(S) \in Nat
  BY <1>2, FS_CardinalityType
<1>4. k \in S => S # T
  BY DEF T
<1>5. Rank(S, k) = Cardinality(T)
  BY DEF Rank, T
<1>6. IsFiniteSet({l \in S : l < k})
  BY <1>2 DEF T
<1>. QED  BY <1>2, <1>3, <1>4, <1>5, <1>6

\* A place of S counts for all that lie behind it.
LEMMA RankGrows ==
  ASSUME NEW S \in SUBSET Nat, IsFiniteSet(S), NEW k \in S, NEW m \in Nat, k < m
  PROVE  Rank(S, k) < Rank(S, m)
<1>. DEFINE A == {l \in S : l < k}
            B == {l \in S : l < m}
<1>1. A \in SUBSET B /\ A # B
  <2>1. k \in Nat /\ \A l \in S : l \in Nat
    OBVIOUS
  <2>2. \A l \in S : l < k => l < m
    BY <2>1
  <2>3. ~ (k < k)
    BY <2>1
  <2>4. k \in B /\ k \notin A
    BY <2>3
  <2>. QED  BY <2>2, <2>4
<1>2. IsFiniteSet(B)
  BY RankType
<1>. HIDE DEF A, B
<1>3. Cardinality(A) <= Cardinality(B) /\ Cardinality(A) # Cardinality(B)
  BY <1>1, <1>2, FS_Subset
<1>4. Rank(S, k) = Cardinality(A) /\ Rank(S, m) = Cardinality(B)
  BY DEF A, B, Rank
<1>5. Rank(S, k) \in Nat /\ Rank(S, m) \in Nat
  BY RankType
<1>. QED  BY <1>3, <1>4, <1>5

\* Nth counts the places in their order.
LEMMA NthIs ==
  ASSUME NEW S \in SUBSET Nat, IsFiniteSet(S), NEW k \in S, NEW n, Rank(S, k) = n - 1
  PROVE  Nth(S, n) = k
<1>. DEFINE Good(j) == Rank(S, j) = n - 1
<1>1. ASSUME NEW j \in S, Good(j) PROVE j = k
  <2>1. Rank(S, j) = Rank(S, k)
    BY <1>1
  <2>0. j \in Nat /\ k \in Nat
    OBVIOUS
  <2>2. j < k => Rank(S, j) < Rank(S, k)
    BY <2>0, RankGrows
  <2>3. k < j => Rank(S, k) < Rank(S, j)
    BY <2>0, RankGrows
  <2>4. Rank(S, k) \in Nat
    BY <2>0, RankType
  <2>5. ~ (j < k) /\ ~ (k < j)
    BY <2>1, <2>2, <2>3, <2>4
  <2>. QED  BY <2>0, <2>5
<1>2. Good(k)
  OBVIOUS
<1>3. (CHOOSE j \in S : Good(j)) = k
  <2>. HIDE DEF Good
  <2>. QED  BY <1>1, <1>2
<1>4. Nth(S, n) = CHOOSE j \in S : Good(j)
  BY Zenon DEF Nth, Rank
<1>. QED  BY <1>3, <1>4

\* There is an n-th place for every n up to the number of places.
LEMMA NthExists ==
  ASSUME NEW S \in SUBSET Nat, IsFiniteSet(S), NEW n \in 1 .. Cardinality(S)
  PROVE  Nth(S, n) \in S /\ Rank(S, Nth(S, n)) = n - 1
<1>. DEFINE N == Cardinality(S)
            f == [k \in S |-> Rank(S, k) + 1]
<1>0. N \in Nat
  BY FS_CardinalityType
<1>1. f \in [S -> 1 .. N]
  <2>1. ASSUME NEW k \in S PROVE Rank(S, k) + 1 \in 1 .. N
    <3>1. k \in Nat
      OBVIOUS
    <3>2. Rank(S, k) \in Nat /\ Rank(S, k) < N
      BY <3>1, RankType
    <3>. QED  BY <1>0, <3>2
  <2>. QED  BY <2>1
<1>2. ASSUME NEW j \in S, NEW k \in S, f[j] = f[k] PROVE j = k
  <2>0. j \in Nat /\ k \in Nat
    OBVIOUS
  <2>1. Rank(S, j) \in Nat /\ Rank(S, k) \in Nat
    BY <2>0, RankType
  <2>2. Rank(S, j) = Rank(S, k)
    BY <1>2, <2>1
  <2>. DEFINE n1 == Rank(S, j) + 1
  <2>3. Rank(S, j) = n1 - 1
    BY <2>1
  <2>. HIDE DEF n1
  <2>4. Nth(S, n1) = j /\ Nth(S, n1) = k
    BY <2>2, <2>3, NthIs
  <2>. QED  BY <2>4
<1>3. f \in Injection(S, 1 .. N)
  BY <1>1, <1>2 DEF Injection, IsInjective
<1>4. IsFiniteSet(1 .. N) /\ Cardinality(1 .. N) = N
  BY <1>0, FS_Interval
<1>5. f \in Surjection(S, 1 .. N)
  BY <1>3, <1>4, FS_Injection
<1>6. PICK k \in S : f[k] = n
  BY <1>5 DEF Surjection
<1>7. Rank(S, k) + 1 = n
  BY <1>6
<1>9. Rank(S, k) \in Nat
  <2>1. k \in Nat
    OBVIOUS
  <2>. QED  BY <2>1, RankType
<1>10. Rank(S, k) = n - 1
  BY <1>7, <1>9
<1>8. Nth(S, n) = k
  BY <1>10, NthIs
<1>. QED  BY <1>8, <1>10

\* The part of a sequence at some places is a sequence, one element for each.
LEMMA AtType ==
  ASSUME NEW S \in SUBSET Nat, IsFiniteSet(S), NEW s, NEW V, \A k \in S : s[k] \in V
  PROVE  At(s, S) \in Seq(V) /\ Len(At(s, S)) = Cardinality(S)
<1>1. Cardinality(S) \in Nat
  BY FS_CardinalityType
<1>2. \A n \in 1 .. Cardinality(S) : s[Nth(S, n)] \in V
  BY NthExists
<1>. QED  BY <1>1, <1>2 DEF At

\* There is nothing at no place.
LEMMA AtNone == \A s : At(s, {}) = <<>>
<1>1. Cardinality({}) = 0
  BY FS_EmptySet
<1>. QED  BY <1>1 DEF At

\* Only what is at the places matters.
LEMMA AtSame ==
  ASSUME NEW S \in SUBSET Nat, IsFiniteSet(S), NEW s, NEW t, \A k \in S : s[k] = t[k]
  PROVE  At(s, S) = At(t, S)
<1>1. \A n \in 1 .. Cardinality(S) : s[Nth(S, n)] = t[Nth(S, n)]
  BY NthExists
<1>. QED  BY <1>1 DEF At

\* The first places of T are those of S.
LEMMA AtPrefix ==
  ASSUME NEW T \in SUBSET Nat, IsFiniteSet(T), NEW S \in SUBSET T,
         \A k \in S, l \in T \ S : k < l, NEW s
  PROVE  /\ IsFiniteSet(S) /\ Cardinality(S) \in Nat /\ Cardinality(T) \in Nat
         /\ Cardinality(S) <= Cardinality(T)
         /\ \A n \in 1 .. Cardinality(S) : Nth(T, n) = Nth(S, n)
         /\ At(s, S) = SubSeq(At(s, T), 1, Cardinality(S))
<1>1. IsFiniteSet(S) /\ Cardinality(S) <= Cardinality(T)
  BY FS_Subset
<1>2. Cardinality(S) \in Nat /\ Cardinality(T) \in Nat
  BY <1>1, FS_CardinalityType
<1>3. ASSUME NEW n \in 1 .. Cardinality(S) PROVE Nth(T, n) = Nth(S, n)
  <2>. DEFINE k == Nth(S, n)
  <2>1. k \in S /\ Rank(S, k) = n - 1
    BY <1>1, NthExists
  <2>. HIDE DEF k
  <2>2. {l \in T : l < k} = {l \in S : l < k}
    <3>1. \A l \in T : l < k => l \in S
      BY <2>1
    <3>. QED  BY <3>1
  <2>3. Rank(T, k) = n - 1
    BY <2>1, <2>2 DEF Rank
  <2>4. Nth(T, n) = k
    BY <2>1, <2>3, NthIs
  <2>. QED  BY <2>4 DEF k
<1>. DEFINE V == {s[k] : k \in T}
<1>4. At(s, T) \in Seq(V) /\ Len(At(s, T)) = Cardinality(T)
  BY AtType
<1>5. SubSeq(At(s, T), 1, Cardinality(S)) = [n \in 1 .. Cardinality(S) |-> At(s, T)[n]]
  <2>. HIDE DEF V
  <2>. QED  BY <1>1, <1>2, <1>4
<1>6. \A n \in 1 .. Cardinality(S) : At(s, T)[n] = s[Nth(S, n)]
  BY <1>1, <1>2, <1>3 DEF At
<1>. QED  BY <1>1, <1>2, <1>3, <1>5, <1>6 DEF At

\* One more place, behind all others.
LEMMA AtGrows ==
  ASSUME NEW S \in SUBSET Nat, IsFiniteSet(S), NEW m \in Nat, \A k \in S : k < m, NEW s
  PROVE  /\ IsFiniteSet(S \cup {m}) /\ Cardinality(S \cup {m}) = Cardinality(S) + 1
         /\ At(s, S \cup {m}) = Append(At(s, S), s[m])
<1>. DEFINE T == S \cup {m}
            V == {s[k] : k \in T}
            N == Cardinality(S)
<1>1. T \in SUBSET Nat /\ S \in SUBSET T /\ (\A k \in S, l \in T \ S : k < l) /\ m \notin S /\ m \in T
  OBVIOUS
<1>2. IsFiniteSet(T) /\ Cardinality(T) = N + 1
  BY <1>1, FS_AddElement
<1>3. N \in Nat
  BY FS_CardinalityType
<1>4. \A n \in 1 .. N : Nth(T, n) = Nth(S, n)
  <2>. HIDE DEF T
  <2>. QED  BY <1>1, <1>2, AtPrefix
<1>5. Nth(T, N + 1) = m
  <2>1. {l \in T : l < m} = S
    <3>1. ~ (m < m)
      OBVIOUS
    <3>. QED  BY <3>1
  <2>. DEFINE n1 == N + 1
  <2>2. N = n1 - 1
    BY <1>3
  <2>. HIDE DEF T, n1
  <2>4. Rank(T, m) = n1 - 1
    BY <2>1, <2>2 DEF Rank
  <2>3. Nth(T, n1) = m
    BY <1>1, <1>2, <2>4, NthIs
  <2>. QED  BY <2>3 DEF n1
<1>6. At(s, S) \in Seq(V) /\ Len(At(s, S)) = N
  BY AtType
<1>7. s[m] \in V
  OBVIOUS
<1>8. Append(At(s, S), s[m]) = [n \in 1 .. N + 1 |-> IF n = N + 1 THEN s[m] ELSE At(s, S)[n]]
  <2>. HIDE DEF V, N
  <2>. QED  BY <1>3, <1>6, <1>7
<1>9. At(s, T) = [n \in 1 .. N + 1 |-> s[Nth(T, n)]]
  BY <1>2 DEF At
<1>10. \A n \in 1 .. N + 1 : s[Nth(T, n)] = IF n = N + 1 THEN s[m] ELSE At(s, S)[n]
  <2>. TAKE n \in 1 .. N + 1
  <2>1. CASE n = N + 1
    BY <1>5, <2>1
  <2>2. CASE n # N + 1
    <3>. HIDE DEF T
    <3>1. n \in 1 .. N
      BY <1>3, <2>2
    <3>2. At(s, S)[n] = s[Nth(S, n)]
      BY <3>1 DEF At
    <3>. QED  BY <1>4, <2>2, <3>1, <3>2
  <2>. QED  BY <2>1, <2>2
<1>. QED  BY <1>2, <1>8, <1>9, <1>10
-----------------------------------------------------------------------------
\* What the split has done when it comes to place i.
Meant == [k \in Line |-> Expanded(Limit(Piece(k)))]
Splits ==
  /\ in_quotes = Open(i)
  /\ i <= Len(buffer) + 1 => arg = Limit(Piece(i))
  /\ args = At(Meant, {k \in WordEnds : k < i})

\* What holds of the line at all times, and of the split as far as it has come.
LineInv ==
  /\ LineTypeOK
  /\ Len(buffer) < SHELL_BUFSZ /\ Len(arg) < SHELL_MAX_ARG_LEN
  /\ \A k \in DOMAIN args : Len(args[k]) < SHELL_MAX_ARG_LEN
  /\ mode = "split" => Splits
  /\ mode = "exec" =>
       args = SubSeq(Words, 1, IF Len(Words) < SHELL_MAX_ARGS THEN Len(Words) ELSE SHELL_MAX_ARGS)
-----------------------------------------------------------------------------
\* The sizes of the line's buffers, and the values of the environment.
LEMMA LineSizes ==
  /\ SHELL_BUFSZ \in Nat \ {0} /\ SHELL_MAX_ARGS \in Nat \ {0} /\ SHELL_MAX_ARG_LEN \in Nat \ {0, 1}
  /\ \A n \in DOMAIN Env : Env[n] \in Seq(Typed)
BY ShellLineAssumption

\* Limit cuts to what arg_bufs has room for.
LEMMA LimitType ==
  ASSUME NEW w \in Seq(Typed)
  PROVE  /\ Limit(w) \in Seq(Typed) /\ Len(Limit(w)) < SHELL_MAX_ARG_LEN
         /\ Limit(w) = <<>> <=> w = <<>>
<1>1. CASE Len(w) < SHELL_MAX_ARG_LEN
  BY <1>1 DEF Limit
<1>2. CASE ~ (Len(w) < SHELL_MAX_ARG_LEN)
  <2>. DEFINE m == SHELL_MAX_ARG_LEN - 1
  <2>1. m \in 1 .. Len(w)
    BY <1>2, LineSizes
  <2>2. Limit(w) = SubSeq(w, 1, m)
    BY <1>2 DEF Limit
  <2>. HIDE DEF m
  <2>3. SubSeq(w, 1, m) \in Seq(Typed) /\ Len(SubSeq(w, 1, m)) = m
    BY <2>1
  <2>4. m < SHELL_MAX_ARG_LEN
    BY LineSizes DEF m
  <2>. QED  BY <2>1, <2>2, <2>3, <2>4
<1>. QED  BY <1>1, <1>2

\* A character more is taken while arg_bufs has room for it.
LEMMA LimitGrows ==
  ASSUME NEW w \in Seq(Typed), NEW ch \in Typed
  PROVE  Limit(Append(w, ch)) = IF Len(Limit(w)) >= SHELL_MAX_ARG_LEN - 1 THEN Limit(w)
                                ELSE Append(Limit(w), ch)
<1>. DEFINE m == SHELL_MAX_ARG_LEN - 1
            u == Append(w, ch)
<1>0. m \in Nat /\ SHELL_MAX_ARG_LEN = m + 1
  BY LineSizes
<1>1. u \in Seq(Typed) /\ Len(u) = Len(w) + 1 /\ Len(w) \in Nat /\ \A k \in 1 .. Len(w) : u[k] = w[k]
  OBVIOUS
<1>2. CASE Len(w) < m
  <2>1. Limit(w) = w /\ Limit(u) = u
    BY <1>0, <1>1, <1>2 DEF Limit
  <2>. QED  BY <1>0, <1>1, <1>2, <2>1
<1>3. CASE Len(w) >= m
  <2>1. Limit(u) = SubSeq(u, 1, m)
    BY <1>0, <1>1, <1>3 DEF Limit
  <2>2. Limit(w) = SubSeq(w, 1, m)
    <3>1. CASE Len(w) = m
      <4>1. Limit(w) = w
        BY <1>0, <3>1 DEF Limit
      <4>2. SubSeq(w, 1, Len(w)) = w
        OBVIOUS
      <4>. QED  BY <3>1, <4>1, <4>2
    <3>2. CASE Len(w) > m
      BY <1>0, <1>1, <3>2 DEF Limit
    <3>. QED  BY <1>0, <1>1, <1>3, <3>1, <3>2
  <2>3. SubSeq(u, 1, m) = SubSeq(w, 1, m)
    <3>. HIDE DEF u, m
    <3>1. \A k \in 1 .. m : u[k] = w[k]
      BY <1>0, <1>1, <1>3
    <3>2. SubSeq(u, 1, m) = [k \in 1 .. m |-> u[k]] /\ SubSeq(w, 1, m) = [k \in 1 .. m |-> w[k]]
      BY <1>0, <1>1, <1>3
    <3>. QED  BY <3>1, <3>2
  <2>4. Len(Limit(w)) = m
    BY <1>0, <1>1, <1>3, <2>2
  <2>5. Len(Limit(w)) >= SHELL_MAX_ARG_LEN - 1
    BY <1>0, <2>4
  <2>6. Limit(u) = Limit(w)
    BY <2>1, <2>2, <2>3
  <2>. QED  BY <2>5, <2>6
<1>. QED  BY <1>0, <1>1, <1>2, <1>3

\* An argument has room whether it was replaced or not.
LEMMA ExpandedType ==
  ASSUME NEW w \in Seq(Typed), Len(w) < SHELL_MAX_ARG_LEN
  PROVE  Expanded(w) \in Seq(Typed) /\ Len(Expanded(w)) < SHELL_MAX_ARG_LEN
BY LimitType, LineSizes DEF Expanded
-----------------------------------------------------------------------------
\* The quotes before a place, and the places that make up a piece.
Marks(k) == {j \in DOMAIN buffer : j < k /\ buffer[j] = Quote}
Chars(k) == {j \in 1 .. k - 1 : buffer[j] # Quote /\ \A l \in j .. k - 1 : l \notin Cuts}

\* There are finitely many quotes.
LEMMA MarksFinite ==
  ASSUME buffer \in Seq(Typed), NEW k
  PROVE  Marks(k) \in SUBSET Nat /\ IsFiniteSet(Marks(k)) /\ Cardinality(Marks(k)) \in Nat
<1>1. Len(buffer) \in Nat /\ DOMAIN buffer = 1 .. Len(buffer)
  OBVIOUS
<1>2. Marks(k) \in SUBSET (1 .. Len(buffer))
  BY <1>1 DEF Marks
<1>3. IsFiniteSet(1 .. Len(buffer))
  BY <1>1, FS_Interval
<1>4. IsFiniteSet(Marks(k))
  BY <1>2, <1>3, FS_Subset
<1>5. Marks(k) \in SUBSET Nat
  BY <1>1, <1>2
<1>. QED  BY <1>4, <1>5, FS_CardinalityType

\* A place has an open quote if there is an odd number before it.
LEMMA OpenIs == \A k : Open(k) <=> Cardinality(Marks(k)) % 2 = 1
BY DEF Open, Marks

\* The number of quotes is odd behind a quote if it is even before it.
LEMMA OpenNext ==
  ASSUME buffer \in Seq(Typed), NEW k \in DOMAIN buffer
  PROVE  Open(k + 1) <=> IF buffer[k] = Quote THEN ~ Open(k) ELSE Open(k)
<1>0. k \in Nat /\ DOMAIN buffer = 1 .. Len(buffer) /\ Len(buffer) \in Nat
  OBVIOUS
<1>1. \A j \in DOMAIN buffer : j < k + 1 <=> j < k \/ j = k
  BY <1>0
<1>2. CASE buffer[k] = Quote
  <2>1. Marks(k + 1) = Marks(k) \cup {k}
    BY <1>0, <1>1, <1>2 DEF Marks
  <2>2. k \notin Marks(k)
    BY <1>0 DEF Marks
  <2>3. Cardinality(Marks(k + 1)) = Cardinality(Marks(k)) + 1
    BY <2>1, <2>2, MarksFinite, FS_AddElement
  <2>4. \A n \in Nat : (n + 1) % 2 = 1 <=> ~ (n % 2 = 1)
    OBVIOUS
  <2>. QED  BY <1>2, <2>3, <2>4, OpenIs, MarksFinite
<1>3. CASE buffer[k] # Quote
  <2>1. Marks(k + 1) = Marks(k)
    BY <1>0, <1>1, <1>3 DEF Marks
  <2>. QED  BY <1>3, <2>1, OpenIs
<1>. QED  BY <1>2, <1>3

\* No quote is open at the start, and the NUL opens none.
LEMMA OpenEnds ==
  ASSUME buffer \in Seq(Typed)
  PROVE  ~ Open(1) /\ (Open(Len(buffer) + 2) <=> Open(Len(buffer) + 1))
<1>0. DOMAIN buffer = 1 .. Len(buffer) /\ Len(buffer) \in Nat
  OBVIOUS
<1>1. Marks(1) = {}
  BY <1>0 DEF Marks
<1>2. Cardinality({}) = 0 /\ ~ (0 % 2 = 1)
  BY FS_EmptySet
<1>3. Marks(Len(buffer) + 2) = Marks(Len(buffer) + 1)
  <2>1. \A j \in DOMAIN buffer : j < Len(buffer) + 2 /\ j < Len(buffer) + 1
    BY <1>0
  <2>. QED  BY <2>1 DEF Marks
<1>. QED  BY <1>1, <1>2, <1>3, OpenIs

\* A piece is what the line has at its places.
LEMMA PieceIs == \A k : Piece(k) = At(buffer, Chars(k))
BY DEF Piece, Chars

\* The places of a piece lie before its end.
LEMMA CharsFinite ==
  ASSUME buffer \in Seq(Typed), NEW k \in Line
  PROVE  /\ Chars(k) \in SUBSET Nat /\ IsFiniteSet(Chars(k)) /\ (\A j \in Chars(k) : j < k)
         /\ Piece(k) \in Seq(Typed)
<1>0. k \in Nat /\ k >= 1 /\ k <= Len(buffer) + 1 /\ Len(buffer) \in Nat
  BY DEF Line
<1>1. Chars(k) \in SUBSET (1 .. k - 1)
  BY DEF Chars
<1>2. IsFiniteSet(1 .. k - 1)
  BY <1>0, FS_Interval
<1>3. IsFiniteSet(Chars(k))
  BY <1>1, <1>2, FS_Subset
<1>4. \A j \in 1 .. k - 1 : j \in Nat /\ j < k /\ j \in 1 .. Len(buffer)
  BY <1>0
<1>5. \A j \in Chars(k) : buffer[j] \in Typed
  BY <1>1, <1>4
<1>6. Chars(k) \in SUBSET Nat /\ \A j \in Chars(k) : j < k
  BY <1>1, <1>4
<1>7. At(buffer, Chars(k)) \in Seq(Typed)
  BY <1>3, <1>5, <1>6, AtType
<1>. QED  BY <1>3, <1>6, <1>7, PieceIs

\* The piece that ends at the next place.
LEMMA PieceFirst == buffer \in Seq(Typed) => Piece(1) = <<>>
<1>1. Chars(1) = {}
  BY DEF Chars
<1>. QED  BY <1>1, AtNone, PieceIs

\* A character joins its piece, a quote does not, and a cut begins another.
LEMMA PieceNext ==
  ASSUME buffer \in Seq(Typed), NEW k \in DOMAIN buffer
  PROVE  Piece(k + 1) = IF k \in Cuts THEN <<>> ELSE IF buffer[k] = Quote THEN Piece(k)
                        ELSE Append(Piece(k), buffer[k])
<1>0. k \in Nat /\ k >= 1 /\ DOMAIN buffer = 1 .. Len(buffer) /\ Len(buffer) \in Nat /\ k \in Line
  BY DEF Line
<1>1. 1 .. (k + 1) - 1 = (1 .. k - 1) \cup {k}
  BY <1>0
<1>2. \A j \in 1 .. (k + 1) - 1 : j .. (k + 1) - 1 = (j .. k - 1) \cup {k}
  BY <1>0
<1>3. CASE k \in Cuts
  <2>1. Chars(k + 1) = {}
    BY <1>2, <1>3 DEF Chars
  <2>. QED  BY <1>3, <2>1, AtNone, PieceIs
<1>4. CASE k \notin Cuts
  <2>0. k .. k - 1 = {}
    BY <1>0
  <2>1. Chars(k + 1) = IF buffer[k] = Quote THEN Chars(k) ELSE Chars(k) \cup {k}
    <3>1. ASSUME NEW j \in 1 .. k - 1 PROVE j \in Chars(k + 1) <=> j \in Chars(k)
      <4>1. j .. (k + 1) - 1 = (j .. k - 1) \cup {k}
        BY <1>1, <1>2
      <4>. QED  BY <1>1, <1>4, <4>1 DEF Chars
    <3>2. k \in Chars(k + 1) <=> buffer[k] # Quote
      <4>1. k .. (k + 1) - 1 = {k} /\ k \in 1 .. (k + 1) - 1
        BY <1>0
      <4>. QED  BY <1>4, <4>1 DEF Chars
    <3>3. Chars(k) \subseteq 1 .. k - 1 /\ Chars(k + 1) \subseteq (1 .. k - 1) \cup {k}
      BY <1>1 DEF Chars
    <3>4. k \notin 1 .. k - 1
      BY <1>0
    <3>5. \A j \in Chars(k + 1) : j # k => j \in Chars(k)
      BY <3>1, <3>3
    <3>6. \A j \in Chars(k) : j \in Chars(k + 1) /\ j # k
      BY <3>1, <3>3, <3>4
    <3>7. CASE buffer[k] = Quote
      <4>1. \A j : j \in Chars(k + 1) <=> j \in Chars(k)
        BY <3>2, <3>5, <3>6, <3>7
      <4>2. Chars(k + 1) = Chars(k)
        BY <4>1
      <4>. QED  BY <3>7, <4>2
    <3>8. CASE buffer[k] # Quote
      <4>1. \A j : j \in Chars(k + 1) <=> j \in Chars(k) \cup {k}
        BY <3>2, <3>5, <3>6, <3>8
      <4>2. Chars(k + 1) = Chars(k) \cup {k}
        BY <4>1
      <4>. QED  BY <3>8, <4>2
    <3>. QED  BY <3>7, <3>8
  <2>2. At(buffer, Chars(k) \cup {k}) = Append(At(buffer, Chars(k)), buffer[k])
    BY <1>0, CharsFinite, AtGrows
  <2>. QED  BY <1>4, <2>1, <2>2, PieceIs
<1>. QED  BY <1>3, <1>4
-----------------------------------------------------------------------------
\* The words that end before place k.
Ended(k) == {l \in WordEnds : l < k}

\* There are finitely many words.
LEMMA EndsFinite ==
  ASSUME buffer \in Seq(Typed)
  PROVE  /\ WordEnds \in SUBSET Line /\ WordEnds \in SUBSET Nat /\ IsFiniteSet(WordEnds)
         /\ \A k \in Nat : Ended(k) \in SUBSET WordEnds /\ IsFiniteSet(Ended(k))
                         /\ Ended(k) \in SUBSET Nat /\ \A l \in Ended(k) : l < k
<1>1. WordEnds \in SUBSET Line
  BY DEF WordEnds, Cuts
<1>2. IsFiniteSet(Line) /\ Line \in SUBSET Nat
  BY FS_Interval DEF Line
<1>3. IsFiniteSet(WordEnds) /\ WordEnds \in SUBSET Nat
  BY <1>1, <1>2, FS_Subset
<1>4. ASSUME NEW k \in Nat PROVE Ended(k) \in SUBSET WordEnds /\ \A l \in Ended(k) : l < k
  BY DEF Ended
<1>5. \A k \in Nat : IsFiniteSet(Ended(k))
  BY <1>3, <1>4, FS_Subset
<1>. QED  BY <1>1, <1>3, <1>4, <1>5

\* One place further, the words that have ended.
LEMMA EndedNext ==
  ASSUME buffer \in Seq(Typed), NEW k \in Line
  PROVE  At(Meant, Ended(k + 1)) = IF k \in WordEnds
                                   THEN Append(At(Meant, Ended(k)), Expanded(Limit(Piece(k))))
                                   ELSE At(Meant, Ended(k))
<1>0. k \in Nat
  BY DEF Line
<1>1. \A l \in WordEnds : l < k + 1 <=> l < k \/ l = k
  BY <1>0, EndsFinite
<1>2. CASE k \in WordEnds
  <2>1. Ended(k + 1) = Ended(k) \cup {k}
    BY <1>1, <1>2 DEF Ended
  <2>2. At(Meant, Ended(k) \cup {k}) = Append(At(Meant, Ended(k)), Meant[k])
    BY <1>0, EndsFinite, AtGrows
  <2>. QED  BY <1>2, <2>1, <2>2 DEF Meant
<1>3. CASE k \notin WordEnds
  <2>1. Ended(k + 1) = Ended(k)
    BY <1>1, <1>3 DEF Ended
  <2>. QED  BY <1>3, <2>1
<1>. QED  BY <1>2, <1>3

\* A place is a cut, or ends a word, by what the split knows of it.
LEMMA CutAt ==
  ASSUME buffer \in Seq(Typed), NEW k \in Line, Open(k) \in BOOLEAN
  PROVE  /\ k = Len(buffer) + 1 => k \in Cuts /\ (k \in WordEnds <=> ~ Open(k))
         /\ k # Len(buffer) + 1 =>
              /\ k \in DOMAIN buffer
              /\ k \in Cuts <=> buffer[k] = " " /\ ~ Open(k)
              /\ k \in WordEnds <=> k \in Cuts /\ Piece(k) # <<>>
<1>1. k = Len(buffer) + 1 => k \notin DOMAIN buffer
  BY DEF Line
<1>2. k # Len(buffer) + 1 => k \in DOMAIN buffer
  BY DEF Line
<1>3. k \in Cuts <=> (k \in DOMAIN buffer => buffer[k] = " " /\ ~ Open(k))
  BY DEF Cuts
<1>4. k \in WordEnds <=> k \in Cuts /\ IF k = Len(buffer) + 1 THEN ~ Open(k) ELSE Piece(k) # <<>>
  BY DEF WordEnds
<1>. QED  BY <1>1, <1>2, <1>3, <1>4

\* The line's own definitions depend on nothing but the line.
LEMMA SameLine ==
  ASSUME buffer' = buffer
  PROVE  /\ Cuts' = Cuts /\ WordEnds' = WordEnds /\ Meant' = Meant /\ Words' = Words
         /\ \A k : Open(k)' = Open(k) /\ Piece(k)' = Piece(k)
<1>1. \A k : Open(k)' = Open(k)
  BY DEF Open
<1>2. Cuts' = Cuts /\ Line' = Line
  BY <1>1 DEF Cuts, Line
<1>3. \A k : Piece(k)' = Piece(k)
  BY <1>2 DEF Piece
<1>4. WordEnds' = WordEnds /\ Meant' = Meant
  BY <1>1, <1>2, <1>3 DEF WordEnds, Meant
<1>. QED  BY <1>1, <1>2, <1>3, <1>4 DEF Words, Meant
-----------------------------------------------------------------------------
\* The first line is empty.
LEMMA LineInitInv == LineInit => LineInv
<1>. SUFFICES ASSUME LineInit PROVE LineInv
  OBVIOUS
<1>1. /\ mode = "read" /\ buffer = <<>> /\ i = 1 /\ in_quotes = FALSE /\ arg = <<>> /\ args = <<>>
  BY DEF LineInit
<1>2. /\ <<>> \in Seq(Typed) /\ <<>> \in Seq(Seq(Typed)) /\ Len(<<>>) = 0 /\ DOMAIN <<>> = {}
      /\ 0 < SHELL_BUFSZ /\ 0 < SHELL_MAX_ARG_LEN /\ 0 <= SHELL_MAX_ARGS
  BY LineSizes
<1>3. LineTypeOK
  BY <1>1, <1>2 DEF LineTypeOK
<1>4. mode # "split" /\ mode # "exec"
  BY <1>1
<1>. QED  BY <1>1, <1>2, <1>3, <1>4 DEF LineInv

\* Typing stops one character before the buffer is full.
LEMMA EditInv ==
  ASSUME LineInv, Type \/ Backspace
  PROVE  LineInv'
<1>0. LineTypeOK
  BY DEF LineInv
<1>1. mode = "read" /\ Len(buffer) < SHELL_BUFSZ - 1 /\ UNCHANGED <<mode, i, in_quotes, arg, args>>
  BY DEF Type, Backspace, Reading
<1>2. buffer' \in Seq(Typed) /\ Len(buffer') < SHELL_BUFSZ
  <2>1. CASE Type
    BY <1>0, <1>1, <2>1, LineSizes DEF Type, LineTypeOK
  <2>2. CASE Backspace
    <3>1. Len(buffer) - 1 \in 0 .. Len(buffer) /\ buffer' = SubSeq(buffer, 1, Len(buffer) - 1)
      BY <1>0, <2>2 DEF Backspace, Front, LineTypeOK
    <3>. DEFINE m == Len(buffer) - 1
    <3>2. buffer' \in Seq(Typed) /\ Len(buffer') = Len(buffer) - 1
      <4>1. buffer \in Seq(Typed)
        BY <1>0 DEF LineTypeOK
      <4>2. m \in 0 .. Len(buffer) /\ buffer' = SubSeq(buffer, 1, m)
        BY <3>1
      <4>. HIDE DEF m
      <4>3. buffer' \in Seq(Typed) /\ Len(buffer') = m
        BY <4>1, <4>2
      <4>. QED  BY <4>3 DEF m
    <3>. QED  BY <1>0, <1>1, <3>2, LineSizes DEF LineTypeOK
  <2>. QED  BY <2>1, <2>2
<1>. QED  BY <1>0, <1>1, <1>2 DEF LineInv, LineTypeOK

\* The split begins at the first character, with no argument.
LEMMA EndLineInv ==
  ASSUME LineInv, EndLine
  PROVE  LineInv'
<1>0. LineTypeOK /\ Len(buffer) < SHELL_BUFSZ
  BY DEF LineInv
<1>1. /\ mode' = "split" /\ i' = 1 /\ in_quotes' = FALSE /\ arg' = <<>> /\ args' = <<>> /\ buffer' = buffer
  BY DEF EndLine, StartSplit
<1>2. buffer \in Seq(Typed) /\ Len(buffer) \in Nat
  BY <1>0 DEF LineTypeOK
<1>3. LineTypeOK'
  <2>1. 1 \in 1 .. (Len(buffer) + 2) \cup {1}
    BY <1>2
  <2>2. <<>> \in Seq(Typed) /\ <<>> \in Seq(Seq(Typed)) /\ Len(<<>>) <= SHELL_MAX_ARGS
    BY LineSizes
  <2>. QED  BY <1>1, <1>2, <2>1, <2>2 DEF LineTypeOK
<1>4. Splits'
  <2>1. Ended(1) = {}
    <3>1. \A l \in WordEnds : l \in Line
      BY <1>2, EndsFinite
    <3>2. \A l \in WordEnds : ~ (l < 1)
      BY <3>1 DEF Line
    <3>. QED  BY <3>2 DEF Ended
  <2>2. At(Meant, Ended(1)) = <<>>
    BY <2>1, AtNone
  <2>3. Limit(Piece(1)) = <<>> /\ ~ Open(1)
    <3>1. Piece(1) = <<>> /\ <<>> \in Seq(Typed)
      BY <1>2, PieceFirst
    <3>2. Limit(<<>>) = <<>>
      BY <3>1, LimitType
    <3>. QED  BY <1>2, <3>1, <3>2, OpenEnds
  <2>4. Open(1)' = Open(1) /\ Piece(1)' = Piece(1) /\ Meant' = Meant /\ WordEnds' = WordEnds
    BY <1>1, SameLine
  <2>5. in_quotes' = Open(i)' /\ arg' = Limit(Piece(i))' 
    <3>1. Open(i)' = Open(1)' /\ Limit(Piece(i))' = Limit(Piece(1))'
      BY <1>1 DEF Open, Piece, Limit
    <3>2. Limit(Piece(1))' = Limit(Piece(1))
      BY <2>4 DEF Limit
    <3>3. Open(1) \in BOOLEAN
      BY DEF Open
    <3>. QED  BY <1>1, <2>3, <2>4, <3>1, <3>2, <3>3
  <2>6. args' = At(Meant, {k \in WordEnds : k < i})'
    <3>1. At(Meant, {k \in WordEnds : k < i})' = At(Meant', {k \in WordEnds' : k < i'})
      OBVIOUS
    <3>2. {k \in WordEnds' : k < i'} = Ended(1)
      BY <1>1, <2>4 DEF Ended
    <3>. QED  BY <1>1, <2>2, <2>4, <3>1, <3>2
  <2>. QED  BY <2>5, <2>6 DEF Splits
<1>. QED
  <2>1. Len(<<>>) < SHELL_MAX_ARG_LEN
    BY LineSizes
  <2>. QED  BY <1>0, <1>1, <1>3, <1>4, <2>1 DEF LineInv

\* A step of the split at place k, from what it does to the argument and to
\* the arguments.
LEMMA SplitInv ==
  ASSUME LineInv, Splitting, Next1,
         in_quotes' = Open(i + 1),
         i # Len(buffer) + 1 => arg' = Limit(Piece(i + 1)),
         i = Len(buffer) + 1 => arg' \in {arg, <<>>},
         args' = At(Meant, Ended(i + 1))
  PROVE  LineInv'
<1>0. LineTypeOK /\ Len(buffer) < SHELL_BUFSZ /\ Len(arg) < SHELL_MAX_ARG_LEN /\ Splits
  BY DEF LineInv, Splitting
<1>1. mode = "split" /\ mode' = "split" /\ i' = i + 1 /\ buffer' = buffer /\ i <= Len(buffer) + 1
      /\ Len(args) < SHELL_MAX_ARGS
  BY DEF Splitting, Next1
<1>2. buffer \in Seq(Typed) /\ Len(buffer) \in Nat /\ arg \in Seq(Typed) /\ args \in Seq(Seq(Typed))
  BY <1>0 DEF LineTypeOK
<1>3. i \in Line /\ i \in Nat
  BY <1>0, <1>1, <1>2 DEF LineTypeOK, Line
<1>4. i + 1 \in 1 .. Len(buffer) + 2 /\ (i # Len(buffer) + 1 => i + 1 \in Line)
  BY <1>2, <1>3 DEF Line
<1>5. arg' \in Seq(Typed) /\ Len(arg') < SHELL_MAX_ARG_LEN
  <2>1. CASE i # Len(buffer) + 1
    <3>1. Piece(i + 1) \in Seq(Typed)
      BY <1>2, <1>4, <2>1, CharsFinite
    <3>. QED  BY <2>1, <3>1, LimitType
  <2>2. CASE i = Len(buffer) + 1
    <3>1. <<>> \in Seq(Typed) /\ Len(<<>>) < SHELL_MAX_ARG_LEN
      BY LineSizes
    <3>. QED  BY <1>0, <1>2, <2>2, <3>1
  <2>. QED  BY <2>1, <2>2
<1>6. /\ args' \in Seq(Seq(Typed)) /\ Len(args') <= SHELL_MAX_ARGS
      /\ \A k \in DOMAIN args' : Len(args'[k]) < SHELL_MAX_ARG_LEN
  <2>. DEFINE V == {w \in Seq(Typed) : Len(w) < SHELL_MAX_ARG_LEN}
              x == Expanded(Limit(Piece(i)))
  <2>1. x \in V
    <3>1. Piece(i) \in Seq(Typed)
      BY <1>2, <1>3, CharsFinite
    <3>. QED  BY <3>1, LimitType, ExpandedType
  <2>2. args = At(Meant, Ended(i))
    BY <1>0 DEF Splits, Ended
  <2>3. args' = args \/ args' = Append(args, x)
    BY <1>2, <1>3, <2>2, EndedNext
  <2>4. args \in Seq(V)
    <3>1. \A k \in DOMAIN args : args[k] \in V
      BY <1>2 DEF LineInv
    <3>. QED  BY <1>2, <3>1
  <2>. HIDE DEF x, V
  <2>5. args' \in Seq(V) /\ Len(args') <= SHELL_MAX_ARGS
    BY <1>1, <2>1, <2>3, <2>4, LineSizes
  <2>6. \A k \in DOMAIN args' : args'[k] \in V
    BY <2>5
  <2>. QED  BY <2>5, <2>6 DEF V
<1>7. in_quotes' \in BOOLEAN
  BY DEF Open
<1>8. LineTypeOK'
  BY <1>1, <1>2, <1>4, <1>5, <1>6, <1>7 DEF LineTypeOK
<1>9. Splits'
  <2>1. /\ \A k : Open(k)' = Open(k) /\ Piece(k)' = Piece(k)
        /\ Meant' = Meant /\ WordEnds' = WordEnds
    BY <1>1, SameLine
  <2>2. Open(i)' = Open(i + 1)
    <3>1. Open(i)' <=> Cardinality({j \in DOMAIN buffer' : j < i' /\ buffer'[j] = Quote}) % 2 = 1
      BY DEF Open
    <3>. QED  BY <1>1, <3>1 DEF Open
  <2>3. Limit(Piece(i))' = Limit(Piece(i + 1))
    <3>1. Piece(i)' = At(buffer', {j \in 1 .. i' - 1 : buffer'[j] # Quote /\ \A l \in j .. i' - 1 : l \notin Cuts'})
      BY DEF Piece
    <3>2. Cuts' = Cuts
      BY <1>1, SameLine
    <3>3. Piece(i)' = Piece(i + 1)
      BY <1>1, <3>1, <3>2 DEF Piece
    <3>. QED  BY <3>3 DEF Limit
  <2>4. At(Meant, {k \in WordEnds : k < i})' = At(Meant, Ended(i + 1))
    BY <1>1, <2>1 DEF Ended
  <2>5. i' <= Len(buffer') + 1 => i # Len(buffer) + 1
    BY <1>1, <1>2
  <2>. QED  BY <2>2, <2>3, <2>4, <2>5 DEF Splits
<1>. QED  BY <1>0, <1>1, <1>5, <1>6, <1>8, <1>9 DEF LineInv
\* A quote.
LEMMA ToggleInv ==
  ASSUME LineInv, ToggleQuotes
  PROVE  LineInv'
<1>0. LineTypeOK /\ Splits
  BY DEF LineInv, ToggleQuotes, Splitting
<1>1. /\ Splitting /\ Next1 /\ i # Len(buffer) + 1 /\ buffer[i] = Quote
      /\ in_quotes' = ~ in_quotes /\ arg' = arg /\ args' = args
  BY DEF ToggleQuotes, Sees, AtEnd
<1>2. buffer \in Seq(Typed) /\ Len(buffer) \in Nat /\ i \in Line
  BY <1>0, <1>1 DEF LineTypeOK, Line, Splitting
<1>3. i \in DOMAIN buffer /\ Open(i) \in BOOLEAN /\ Quote # " "
  <2>1. i \in DOMAIN buffer
    BY <1>1, <1>2 DEF Line
  <2>. QED  BY <2>1 DEF Open, Quote
<1>4. i \notin Cuts /\ i \notin WordEnds
  BY <1>1, <1>2, <1>3, CutAt
<1>5. in_quotes' = Open(i + 1)
  <2>1. Open(i + 1) <=> ~ Open(i)
    BY <1>1, <1>2, <1>3, OpenNext
  <2>2. Open(i + 1) \in BOOLEAN
    BY DEF Open
  <2>. QED  BY <1>0, <1>1, <1>3, <2>1, <2>2 DEF Splits
<1>6. arg' = Limit(Piece(i + 1))
  <2>1. Piece(i + 1) = Piece(i)
    BY <1>1, <1>2, <1>3, <1>4, PieceNext
  <2>2. i <= Len(buffer) + 1
    BY <1>2 DEF Line
  <2>. QED  BY <1>0, <1>1, <2>1, <2>2 DEF Splits
<1>7. args' = At(Meant, Ended(i + 1))
  BY <1>0, <1>1, <1>2, <1>4, EndedNext DEF Splits, Ended
<1>. QED  BY <1>1, <1>5, <1>6, <1>7, SplitInv

\* A space, or the end of the line, outside quotes.
LEMMA SeparatorInv ==
  ASSUME LineInv, Separator
  PROVE  LineInv'
<1>0. LineTypeOK /\ Splits
  BY DEF LineInv, Separator, Splitting
<1>1. /\ Splitting /\ Next1 /\ Ends /\ ~ in_quotes /\ in_quotes' = in_quotes
      /\ IF arg # <<>> \/ AtEnd
         THEN args' = Append(args, Expanded(arg)) /\ arg' = <<>>
         ELSE arg' = arg /\ args' = args
  BY DEF Separator
<1>2. buffer \in Seq(Typed) /\ Len(buffer) \in Nat /\ i \in Line /\ i \in Nat /\ i <= Len(buffer) + 1
  BY <1>0, <1>1 DEF LineTypeOK, Line, Splitting
<1>3. ~ Open(i) /\ Open(i) \in BOOLEAN /\ arg = Limit(Piece(i)) /\ args = At(Meant, Ended(i))
  BY <1>0, <1>1, <1>2 DEF Splits, Open, Ended
<1>4. arg = <<>> <=> Piece(i) = <<>>
  <2>1. Piece(i) \in Seq(Typed)
    BY <1>2, CharsFinite
  <2>. QED  BY <1>3, <2>1, LimitType
<1>5. CASE AtEnd
  <2>1. i = Len(buffer) + 1 /\ i \in WordEnds
    BY <1>2, <1>3, <1>5, CutAt DEF AtEnd
  <2>2. in_quotes' = Open(i + 1)
    <3>1. ~ Open(i + 1) /\ Open(i + 1) \in BOOLEAN
      <4>1. i + 1 = Len(buffer) + 2
        BY <1>2, <2>1
      <4>2. Open(Len(buffer) + 2) <=> Open(Len(buffer) + 1)
        BY <1>2, OpenEnds
      <4>. QED  BY <1>3, <2>1, <4>1, <4>2 DEF Open
    <3>2. in_quotes' = FALSE
      BY <1>0, <1>1 DEF LineTypeOK
    <3>. QED  BY <3>1, <3>2
  <2>3. args' = At(Meant, Ended(i + 1)) /\ arg' = <<>>
    BY <1>1, <1>2, <1>3, <1>5, <2>1, EndedNext
  <2>. QED  BY <1>1, <2>1, <2>2, <2>3, SplitInv
<1>6. CASE ~ AtEnd
  <2>1. i # Len(buffer) + 1 /\ buffer[i] = " "
    BY <1>1, <1>6 DEF AtEnd, Ends, Sees
  <2>2. i \in DOMAIN buffer /\ i \in Cuts /\ (i \in WordEnds <=> Piece(i) # <<>>)
    BY <1>2, <1>3, <2>1, CutAt
  <2>3. in_quotes' = Open(i + 1)
    <3>1. buffer[i] # Quote
      BY <2>1 DEF Quote
    <3>2. ~ Open(i + 1) /\ Open(i + 1) \in BOOLEAN
      <4>1. Open(i + 1) <=> Open(i)
        BY <1>2, <2>2, <3>1, OpenNext
      <4>. QED  BY <1>3, <4>1 DEF Open
    <3>3. in_quotes' = FALSE
      BY <1>0, <1>1 DEF LineTypeOK
    <3>. QED  BY <3>2, <3>3
  <2>4. arg' = Limit(Piece(i + 1))
    <3>1. Piece(i + 1) = <<>> /\ <<>> \in Seq(Typed)
      BY <1>2, <2>2, PieceNext
    <3>2. Limit(<<>>) = <<>>
      BY <3>1, LimitType
    <3>3. arg' = <<>>
      BY <1>1, <1>6
    <3>. QED  BY <3>1, <3>2, <3>3
  <2>5. args' = At(Meant, Ended(i + 1))
    <3>1. CASE arg = <<>>
      <4>1. i \notin WordEnds /\ args' = args
        BY <1>1, <1>4, <1>6, <2>2, <3>1
      <4>. QED  BY <1>2, <1>3, <4>1, EndedNext
    <3>2. CASE arg # <<>>
      <4>1. i \in WordEnds /\ args' = Append(args, Expanded(arg))
        BY <1>1, <1>4, <2>2, <3>2
      <4>. QED  BY <1>2, <1>3, <4>1, EndedNext
    <3>. QED  BY <3>1, <3>2
  <2>. QED  BY <1>1, <2>1, <2>3, <2>4, <2>5, SplitInv
<1>. QED  BY <1>5, <1>6

\* Any other character, and the end of the line inside quotes.
LEMMA CollectInv ==
  ASSUME LineInv, Collect
  PROVE  LineInv'
<1>0. LineTypeOK /\ Splits
  BY DEF LineInv, Collect, Splitting
<1>1. /\ Splitting /\ Next1 /\ ~ Sees(Quote) /\ (Ends => in_quotes) /\ in_quotes' = in_quotes /\ args' = args
      /\ arg' = IF AtEnd \/ Len(arg) >= SHELL_MAX_ARG_LEN - 1 THEN arg ELSE Append(arg, buffer[i])
  BY DEF Collect
<1>2. buffer \in Seq(Typed) /\ Len(buffer) \in Nat /\ i \in Line /\ i \in Nat /\ i <= Len(buffer) + 1
  BY <1>0, <1>1 DEF LineTypeOK, Line, Splitting
<1>3. in_quotes = Open(i) /\ Open(i) \in BOOLEAN /\ arg = Limit(Piece(i)) /\ args = At(Meant, Ended(i))
  BY <1>0, <1>2 DEF Splits, Open, Ended
<1>4. CASE AtEnd
  <2>1. i = Len(buffer) + 1 /\ Open(i) /\ i \notin WordEnds /\ arg' = arg
    BY <1>1, <1>2, <1>3, <1>4, CutAt DEF AtEnd, Ends
  <2>2. in_quotes' = Open(i + 1)
    <3>1. i + 1 = Len(buffer) + 2
      BY <1>2, <2>1
    <3>2. Open(Len(buffer) + 2) <=> Open(Len(buffer) + 1)
      BY <1>2, OpenEnds
    <3>3. Open(Len(buffer) + 2) \in BOOLEAN
      BY DEF Open
    <3>. QED  BY <1>1, <1>3, <2>1, <3>1, <3>2, <3>3
  <2>3. args' = At(Meant, Ended(i + 1))
    BY <1>1, <1>2, <1>3, <2>1, EndedNext
  <2>. QED  BY <1>1, <2>1, <2>2, <2>3, SplitInv
<1>5. CASE ~ AtEnd
  <2>1. i # Len(buffer) + 1 /\ buffer[i] # Quote /\ (buffer[i] = " " => Open(i))
    BY <1>1, <1>3, <1>5 DEF AtEnd, Ends, Sees
  <2>2. i \in DOMAIN buffer /\ i \notin Cuts /\ i \notin WordEnds
    BY <1>2, <1>3, <2>1, CutAt
  <2>3. in_quotes' = Open(i + 1)
    <3>1. Open(i + 1) <=> Open(i)
      BY <1>2, <2>1, <2>2, OpenNext
    <3>2. Open(i + 1) \in BOOLEAN
      BY DEF Open
    <3>. QED  BY <1>1, <1>3, <3>1, <3>2
  <2>4. arg' = Limit(Piece(i + 1))
    <3>1. Piece(i + 1) = Append(Piece(i), buffer[i])
      BY <1>2, <2>1, <2>2, PieceNext
    <3>2. Piece(i) \in Seq(Typed) /\ buffer[i] \in Typed
      BY <1>2, <2>2, CharsFinite
    <3>3. Limit(Piece(i + 1)) = IF Len(arg) >= SHELL_MAX_ARG_LEN - 1 THEN arg ELSE Append(arg, buffer[i])
      BY <1>3, <3>1, <3>2, LimitGrows
    <3>. QED  BY <1>1, <1>5, <3>3
  <2>5. args' = At(Meant, Ended(i + 1))
    BY <1>1, <1>2, <1>3, <2>2, EndedNext
  <2>. QED  BY <1>1, <2>1, <2>3, <2>4, <2>5, SplitInv
<1>. QED  BY <1>4, <1>5

\* The split ends at the end of the line or with the last argument there is room for.
LEMMA DoneInv ==
  ASSUME LineInv, SplitDone
  PROVE  LineInv'
<1>0. LineTypeOK /\ Splits /\ Len(buffer) < SHELL_BUFSZ /\ Len(arg) < SHELL_MAX_ARG_LEN
      /\ \A k \in DOMAIN args : Len(args[k]) < SHELL_MAX_ARG_LEN
  BY DEF LineInv, SplitDone
<1>1. mode' = "exec" /\ mode = "split" /\ ~ Splitting /\ UNCHANGED <<buffer, i, in_quotes, arg, args>>
  BY DEF SplitDone
<1>2. buffer \in Seq(Typed) /\ Len(buffer) \in Nat /\ i \in 1 .. Len(buffer) + 2
      /\ Len(args) \in Nat /\ Len(args) <= SHELL_MAX_ARGS
  BY <1>0, <1>1 DEF LineTypeOK
<1>3. LineTypeOK'
  BY <1>0, <1>1 DEF LineTypeOK
<1>. DEFINE N == Cardinality(Ended(i))
<1>4. args = At(Meant, Ended(i)) /\ Words = At(Meant, WordEnds)
  BY <1>0 DEF Splits, Ended, Words, Meant
<1>5. /\ args = SubSeq(Words, 1, N) /\ Len(args) = N /\ Len(Words) = Cardinality(WordEnds)
      /\ N \in Nat /\ Len(Words) \in Nat /\ N <= Len(Words)
  <2>0. i \in Nat
    BY <1>2
  <2>1. /\ Ended(i) \in SUBSET WordEnds /\ WordEnds \in SUBSET Nat /\ IsFiniteSet(WordEnds)
        /\ IsFiniteSet(Ended(i)) /\ Ended(i) \in SUBSET Nat
    BY <1>2, <2>0, EndsFinite
  <2>2. \A k \in Ended(i), l \in WordEnds \ Ended(i) : k < l
    <3>1. \A k \in Ended(i) : k < i
      BY DEF Ended
    <3>2. \A l \in WordEnds \ Ended(i) : ~ (l < i)
      BY DEF Ended
    <3>3. \A k \in Ended(i), l \in WordEnds \ Ended(i) : k \in Nat /\ l \in Nat
      BY <2>1
    <3>. QED  BY <2>0, <3>1, <3>2, <3>3
  <2>3. /\ N \in Nat /\ Cardinality(WordEnds) \in Nat /\ N <= Cardinality(WordEnds)
        /\ At(Meant, Ended(i)) = SubSeq(At(Meant, WordEnds), 1, N)
    BY <2>1, <2>2, AtPrefix
  <2>. DEFINE V == {Meant[k] : k \in WordEnds}
  <2>4. \A k \in WordEnds : Meant[k] \in V
    OBVIOUS
  <2>. HIDE DEF V
  <2>5. Len(At(Meant, WordEnds)) = Cardinality(WordEnds) /\ At(Meant, WordEnds) \in Seq(V)
    BY <2>1, <2>4, AtType
  <2>6. Len(At(Meant, Ended(i))) = N
    <3>1. \A k \in Ended(i) : Meant[k] \in V
      BY <2>1, <2>4
    <3>. QED  BY <2>1, <3>1, AtType
  <2>. QED  BY <1>4, <2>3, <2>5, <2>6
<1>6. args = SubSeq(Words, 1, IF Len(Words) < SHELL_MAX_ARGS THEN Len(Words) ELSE SHELL_MAX_ARGS)
  <2>1. CASE Len(args) = SHELL_MAX_ARGS
    BY <1>5, <2>1
  <2>2. CASE Len(args) # SHELL_MAX_ARGS
    <3>1. Len(args) < SHELL_MAX_ARGS
      BY <1>2, <2>2, LineSizes
    <3>2. i = Len(buffer) + 2
      BY <1>1, <1>2, <3>1 DEF Splitting
    <3>3. Ended(i) = WordEnds
      <4>1. \A l \in WordEnds : l \in Line
        BY <1>2, EndsFinite
      <4>2. \A l \in WordEnds : l < i
        BY <1>2, <3>2, <4>1 DEF Line
      <4>. QED  BY <4>2 DEF Ended
    <3>. QED  BY <1>5, <3>1, <3>3
  <2>. QED  BY <2>1, <2>2
<1>7. Words' = Words
  BY <1>1, SameLine
<1>. QED  BY <1>0, <1>1, <1>3, <1>6, <1>7 DEF LineInv

\* The prompt.
LEMMA PromptInv ==
  ASSUME LineInv, Prompt
  PROVE  LineInv'
<1>1. LineTypeOK /\ Len(arg) < SHELL_MAX_ARG_LEN
  BY DEF LineInv
<1>2. mode' = "read" /\ buffer' = <<>> /\ args' = <<>> /\ UNCHANGED <<i, in_quotes, arg>>
  BY DEF Prompt
<1>3. /\ <<>> \in Seq(Typed) /\ <<>> \in Seq(Seq(Typed)) /\ Len(<<>>) = 0 /\ DOMAIN <<>> = {}
      /\ 0 < SHELL_BUFSZ /\ 0 <= SHELL_MAX_ARGS
  BY LineSizes
<1>4. LineTypeOK'
  BY <1>1, <1>2, <1>3 DEF LineTypeOK
<1>. QED  BY <1>1, <1>2, <1>3, <1>4 DEF LineInv

\* The invariant is about the line's variables only.
LEMMA LineStill == LineInv /\ UNCHANGED linevars => LineInv'
<1>. SUFFICES ASSUME LineInv, UNCHANGED linevars PROVE LineInv'
  OBVIOUS
<1>1. mode' = mode /\ UNCHANGED <<buffer, i, in_quotes, arg, args>>
  BY DEF linevars
<1>2. LineTypeOK'
  BY <1>1 DEF LineInv, LineTypeOK
<1>3. Splits => Splits'
  <2>1. /\ Open(i)' = Open(i) /\ Piece(i)' = Piece(i) /\ Meant' = Meant /\ WordEnds' = WordEnds
    <3>1. Open(i)' = Open(i)
      BY <1>1 DEF Open
    <3>2. Piece(i)' = Piece(i)
      <4>1. Cuts' = Cuts
        BY <1>1, SameLine
      <4>. QED  BY <1>1, <4>1 DEF Piece
    <3>. QED  BY <1>1, <3>1, <3>2, SameLine
  <2>2. At(Meant, {k \in WordEnds : k < i})' = At(Meant, {k \in WordEnds : k < i})
    BY <1>1, <2>1
  <2>. QED  BY <1>1, <2>1, <2>2 DEF Splits, Limit
<1>4. Words' = Words
  BY <1>1, SameLine
<1>. QED  BY <1>1, <1>2, <1>3, <1>4 DEF LineInv

\* What is kept is more than what is claimed.
LEMMA LineInvGives == LineInv => ArgumentsAreWords
BY DEF LineInv, ArgumentsAreWords

\* What a command gets as its arguments are the words of the line, and the line
\* and the arguments are within their buffers (shell.c:423-449).
THEOREM LineGivesItsWords == LineSpec => []ArgumentsAreWords
<1>1. LineInv /\ [LineNext]_linevars => LineInv'
  <2>. SUFFICES ASSUME LineInv, [LineNext]_linevars PROVE LineInv'
    OBVIOUS
  <2>1. CASE Type \/ Backspace
    BY <2>1, EditInv
  <2>2. CASE EndLine
    BY <2>2, EndLineInv
  <2>3. CASE ToggleQuotes
    BY <2>3, ToggleInv
  <2>4. CASE Separator
    BY <2>4, SeparatorInv
  <2>5. CASE Collect
    BY <2>5, CollectInv
  <2>6. CASE SplitDone
    BY <2>6, DoneInv
  <2>7. CASE Prompt
    BY <2>7, PromptInv
  <2>8. CASE UNCHANGED linevars
    BY <2>8, LineStill
  <2>. QED  BY <2>1, <2>2, <2>3, <2>4, <2>5, <2>6, <2>7, <2>8 DEF LineNext, Split
<1>. QED  BY <1>1, LineInitInv, LineInvGives, PTL DEF LineSpec
-----------------------------------------------------------------------------
\* Characters, those named by the model among them; texts; sizes of buffers.
Char == STRING \cup {NUL, SLASH, Untouched}
Texts == {s \in Seq(Char) : \A k \in 1 .. Len(s) : s[k] # NUL}
Sizes == 2 .. SizeMod - 1

\* A buffer of d bytes.
IsBuf(b, d) == d \in Nat /\ b \in [0 .. d - 1 -> Char]

\* At place p the buffer has the text s and its terminator.
Holds(b, p, s) ==
  /\ p + Len(s) \in DOMAIN b /\ b[p + Len(s)] = NUL
  /\ \A k \in 1 .. Len(s) : b[p + k - 1] = s[k]

\* A sequence over a set is one over any larger set.
LEMMA SeqWithin ==
  ASSUME NEW S, NEW T, S \subseteq T, NEW s \in Seq(S)
  PROVE  s \in Seq(T)
OBVIOUS

\* The characters that the model stores itself.
LEMMA CharIs == NUL \in Char /\ SLASH \in Char /\ Untouched \in Char
BY DEF Char

\* The sizes are those of buffers, below the number at which sizes wrap around.
LEMMA TextSizes ==
  /\ SizeMod \in Nat /\ SizeMod > 2 /\ Behind \in Nat /\ Sizes \subseteq Nat
  /\ PathSize \in Sizes /\ FS_MAX_PATH \in Sizes /\ NameSize \in Sizes
BY TextAssumption DEF Sizes

\* What the operations are given has no NUL in it, and cd gets no empty path.
LEMMA GivenTexts ==
  /\ \A s \in PathValues \cup Commands \cup CdPaths \cup Entries : s \in Texts
  /\ \A s \in CdPaths : s # <<>>
<1>. SUFFICES ASSUME NEW s \in PathValues \cup Commands \cup CdPaths \cup Entries PROVE s \in Texts
  BY TextAssumption
<1>1. s \in Seq(STRING) /\ \A k \in DOMAIN s : s[k] # NUL
  BY TextAssumption
<1>2. \A X : X \subseteq Char => Seq(X) \subseteq Seq(Char)
  BY SeqWithin
<1>3. \A X : X \subseteq X \cup {NUL, SLASH, Untouched}
  OBVIOUS
<1>4. STRING \subseteq Char
  BY <1>3, Zenon DEF Char
<1>5. s \in Seq(Char)
  BY <1>1, <1>2, <1>4, Zenon
<1>6. \A k \in 1 .. Len(s) : s[k] # NUL
  BY <1>1, <1>5
<1>. QED  BY <1>5, <1>6 DEF Texts

\* A set of numbers that is not empty has a least one.
LEMMA LeastNat ==
  ASSUME NEW S \in SUBSET Nat, S # {}
  PROVE  Least(S) \in S /\ \A l \in S : Least(S) <= l
<1>1. PICK m \in S : \A x \in S : ~ (<<x, m>> \in OpToRel(<, Nat))
  BY WFMin, NatLessThanWellFounded
<1>2. \A x \in S : ~ (x < m)
  BY <1>1 DEF OpToRel
<1>3. \A x \in S : m <= x
  BY <1>2
<1>. QED  BY <1>3 DEF Least

\* The least number is the one that no other is below.
LEMMA LeastIs ==
  ASSUME NEW S \in SUBSET Nat, NEW m \in S, \A l \in S : m <= l
  PROVE  Least(S) = m
<1>. DEFINE n == Least(S)
<1>1. n \in S /\ \A l \in S : n <= l
  BY LeastNat
<1>. HIDE DEF n
<1>2. n \in Nat /\ m \in Nat /\ n <= m /\ m <= n
  BY <1>1
<1>3. n = m
  BY <1>2
<1>. QED  BY <1>3 DEF n

\* A text is a sequence of characters, none of them NUL.
LEMMA TextType ==
  ASSUME NEW s \in Texts
  PROVE  /\ s \in Seq(Char) /\ Len(s) \in Nat /\ DOMAIN s = 1 .. Len(s)
         /\ \A k \in 1 .. Len(s) : s[k] \in Char /\ s[k] # NUL
BY DEF Texts
-----------------------------------------------------------------------------
\* strlen counts to the first NUL, or to the end of what is looked at.
Nuls(b, p) == {k \in DOMAIN b : k >= p /\ b[k] = NUL} \cup {Cardinality(DOMAIN b)}

\* The bytes of a buffer are counted from 0.
LEMMA BufDomain ==
  ASSUME NEW b, NEW d, IsBuf(b, d)
  PROVE  d \in Nat /\ DOMAIN b = 0 .. d - 1 /\ Cardinality(DOMAIN b) = d /\ \A k \in 0 .. d - 1 : b[k] \in Char
<1>1. d \in Nat /\ b \in [0 .. d - 1 -> Char]
  BY DEF IsBuf
<1>2. Cardinality(0 .. d - 1) = d
  BY <1>1, FS_Interval
<1>. QED  BY <1>1, <1>2

\* strlen stops at the first NUL, if there is one.
LEMMA StrlenIs ==
  ASSUME NEW b, NEW d, IsBuf(b, d), NEW p \in 0 .. d
  PROVE  /\ strlen(b, p) \in 0 .. d - p
         /\ \A k \in p .. p + strlen(b, p) - 1 : b[k] # NUL
         /\ p + strlen(b, p) < d => b[p + strlen(b, p)] = NUL
<1>. DEFINE S == Nuls(b, p)
            m == Least(S)
<1>1. d \in Nat /\ DOMAIN b = 0 .. d - 1 /\ Cardinality(DOMAIN b) = d
  BY BufDomain
<1>2. S = {k \in 0 .. d - 1 : k >= p /\ b[k] = NUL} \cup {d}
  BY <1>1 DEF Nuls
<1>3. S \in SUBSET Nat /\ S # {} /\ d \in S
  BY <1>1, <1>2
<1>. HIDE DEF S
<1>4. m \in S /\ \A l \in S : m <= l
  BY <1>3, LeastNat
<1>5. strlen(b, p) = m - p
  BY DEF strlen, S, Nuls
<1>. HIDE DEF m
<1>6. m \in p .. d /\ (m < d => b[m] = NUL)
  BY <1>1, <1>2, <1>3, <1>4
<1>7. ASSUME NEW k \in p .. m - 1 PROVE b[k] # NUL
  <2>1. k \in 0 .. d - 1 /\ k >= p /\ ~ (m <= k)
    BY <1>1, <1>6
  <2>2. k \notin S
    BY <1>4, <2>1
  <2>. QED  BY <1>2, <2>1, <2>2
<1>8. p + (m - p) = m /\ m - p \in 0 .. d - p
  BY <1>1, <1>6
<1>. QED  BY <1>5, <1>6, <1>7, <1>8

\* The text at a place has the bytes up to the NUL.
LEMMA StrIs ==
  ASSUME NEW b, NEW d, IsBuf(b, d), NEW p \in 0 .. d
  PROVE  /\ Str(b, p) \in Texts /\ Len(Str(b, p)) = strlen(b, p)
         /\ \A k \in 1 .. strlen(b, p) : Str(b, p)[k] = b[p + k - 1]
<1>. DEFINE n == strlen(b, p)
<1>1. n \in 0 .. d - p /\ (\A k \in p .. p + n - 1 : b[k] # NUL)
  BY StrlenIs
<1>2. d \in Nat /\ \A k \in 0 .. d - 1 : b[k] \in Char
  BY BufDomain
<1>. DEFINE s == [k \in 1 .. n |-> b[p + k - 1]]
<1>3. Str(b, p) = s
  BY DEF Str
<1>. HIDE DEF n
<1>4. \A k \in 1 .. n : p + k - 1 \in p .. p + n - 1 /\ p + k - 1 \in 0 .. d - 1
  BY <1>1, <1>2
<1>5. \A k \in 1 .. n : b[p + k - 1] \in Char /\ b[p + k - 1] # NUL
  BY <1>1, <1>2, <1>4
<1>6. n \in Nat
  BY <1>1, <1>2
<1>7. s \in Seq(Char) /\ Len(s) = n /\ \A k \in 1 .. n : s[k] = b[p + k - 1]
  BY <1>5, <1>6
<1>. HIDE DEF s
<1>8. s \in Texts
  BY <1>5, <1>7 DEF Texts
<1>. QED  BY <1>3, <1>7, <1>8 DEF n

\* What begins with the bytes of s is at least as long.
LEMMA BeginsWith ==
  ASSUME NEW b, NEW d, IsBuf(b, d), NEW p \in 0 .. d, NEW s \in Texts, p + Len(s) <= d,
         \A k \in 1 .. Len(s) : b[p + k - 1] = s[k]
  PROVE  strlen(b, p) >= Len(s)
<1>. DEFINE n == strlen(b, p)
<1>0. d \in Nat
  BY BufDomain
<1>1. n \in 0 .. d - p /\ (p + n < d => b[p + n] = NUL)
  BY StrlenIs
<1>. HIDE DEF n
<1>2. ASSUME n < Len(s) PROVE FALSE
  <2>1. n + 1 \in 1 .. Len(s) /\ p + (n + 1) - 1 = p + n /\ p + n < d
    BY <1>0, <1>1, <1>2, TextType
  <2>2. b[p + n] = s[n + 1] /\ s[n + 1] # NUL
    BY <2>1, TextType
  <2>. QED  BY <1>1, <2>1, <2>2
<1>3. n \in Nat /\ Len(s) \in Nat
  BY <1>0, <1>1, TextType
<1>. QED  BY <1>2, <1>3 DEF n

\* A buffer that holds a text gives it back.
LEMMA HoldsStr ==
  ASSUME NEW b, NEW d, IsBuf(b, d), NEW p \in Nat, NEW s \in Texts, Holds(b, p, s)
  PROVE  strlen(b, p) = Len(s) /\ Str(b, p) = s /\ p \in 0 .. d /\ p + Len(s) < d
<1>0. d \in Nat /\ DOMAIN b = 0 .. d - 1 /\ Len(s) \in Nat /\ s \in Seq(Char)
  BY BufDomain, TextType
<1>1. p + Len(s) \in 0 .. d - 1 /\ b[p + Len(s)] = NUL /\ \A k \in 1 .. Len(s) : b[p + k - 1] = s[k]
  BY <1>0 DEF Holds
<1>2. p \in 0 .. d /\ p + Len(s) <= d /\ p + Len(s) < d
  BY <1>0, <1>1
<1>. DEFINE n == strlen(b, p)
<1>3. n \in 0 .. d - p /\ \A k \in p .. p + n - 1 : b[k] # NUL
  BY <1>2, StrlenIs
<1>4. n >= Len(s)
  BY <1>1, <1>2, BeginsWith
<1>5. n = Len(s)
  <2>. HIDE DEF n
  <2>1. ASSUME n > Len(s) PROVE FALSE
    <3>1. p + Len(s) \in p .. p + n - 1
      BY <1>0, <1>3, <2>1
    <3>. QED  BY <1>1, <1>3, <3>1
  <2>. QED  BY <1>0, <1>3, <1>4, <2>1
<1>6. Str(b, p) = s
  <2>1. Str(b, p) \in Texts /\ Len(Str(b, p)) = Len(s) /\ \A k \in 1 .. Len(s) : Str(b, p)[k] = s[k]
    BY <1>1, <1>2, <1>5, StrIs
  <2>2. Str(b, p) \in Seq(Char)
    BY <2>1, TextType
  <2>. QED  BY <1>0, <2>1, <2>2
<1>. QED  BY <1>2, <1>5, <1>6
-----------------------------------------------------------------------------
\* A store changes the bytes from its place on and no other.
LEMMA StoreIs ==
  ASSUME NEW b, NEW d, IsBuf(b, d), NEW p \in Nat, NEW s \in Seq(Char)
  PROVE  /\ IsBuf(Store(b, p, s), d)
         /\ \A k \in 0 .. d - 1 : Store(b, p, s)[k] = IF k >= p /\ k < p + Len(s) THEN s[k - p + 1] ELSE b[k]
<1>0. d \in Nat /\ DOMAIN b = 0 .. d - 1 /\ \A k \in 0 .. d - 1 : b[k] \in Char
  BY BufDomain
<1>1. Store(b, p, s) = [k \in 0 .. d - 1 |-> IF k >= p /\ k < p + Len(s) THEN s[k - p + 1] ELSE b[k]]
  BY <1>0 DEF Store
<1>2. ASSUME NEW k \in 0 .. d - 1, k >= p, k < p + Len(s) PROVE s[k - p + 1] \in Char
  <2>1. k - p + 1 \in 1 .. Len(s)
    BY <1>0, <1>2
  <2>. QED  BY <2>1
<1>. QED  BY <1>0, <1>1, <1>2 DEF IsBuf

\* A NUL that is stored changes one byte.
LEMMA SetNulIs ==
  ASSUME NEW b, NEW d, IsBuf(b, d), NEW p \in Nat
  PROVE  /\ IsBuf(SetNul(b, p), d)
         /\ \A k \in 0 .. d - 1 : SetNul(b, p)[k] = IF k = p THEN NUL ELSE b[k]
<1>0. d \in Nat /\ NUL \in Char
  BY BufDomain, CharIs
<1>. DEFINE s == <<NUL>>
<1>1. s \in Seq(Char) /\ Len(s) = 1 /\ s[1] = NUL
  BY <1>0
<1>. HIDE DEF s
<1>2. SetNul(b, p) = Store(b, p, s)
  BY DEF SetNul, s
<1>3. IsBuf(Store(b, p, s), d)
  BY <1>1, StoreIs
<1>4. ASSUME NEW k \in 0 .. d - 1 PROVE Store(b, p, s)[k] = IF k = p THEN NUL ELSE b[k]
  <2>0. \A j \in 0 .. d - 1 : Store(b, p, s)[j] = IF j >= p /\ j < p + Len(s) THEN s[j - p + 1] ELSE b[j]
    BY <1>1, StoreIs, ZenonT(30)
  <2>1. Store(b, p, s)[k] = IF k >= p /\ k < p + 1 THEN s[k - p + 1] ELSE b[k]
    BY <1>1, <2>0
  <2>2. (k >= p /\ k < p + 1 <=> k = p) /\ (k = p => k - p + 1 = 1)
    BY <1>0
  <2>. QED  BY <1>1, <2>1, <2>2
<1>. QED  BY <1>2, <1>3, <1>4
-----------------------------------------------------------------------------
\* Two texts are the same if their characters are.
LEMMA SameText ==
  ASSUME NEW s \in Texts, NEW t \in Texts, Len(s) = Len(t), \A k \in 1 .. Len(s) : s[k] = t[k]
  PROVE  s = t
<1>1. s \in Seq(Char) /\ t \in Seq(Char)
  BY TextType
<1>. QED  BY <1>1

\* Characters without a NUL make a text.
LEMMA MakeText ==
  ASSUME NEW n \in Nat, NEW f, NEW s, s = [k \in 1 .. n |-> f[k]], \A k \in 1 .. n : f[k] \in Char /\ f[k] # NUL
  PROVE  s \in Texts /\ Len(s) = n /\ \A k \in 1 .. n : s[k] = f[k]
<1>1. s \in Seq(Char) /\ Len(s) = n /\ \A k \in 1 .. n : s[k] = f[k]
  OBVIOUS
<1>. QED  BY <1>1 DEF Texts

\* The part of a text from one place to another.
LEMMA PartIs ==
  ASSUME NEW s \in Texts, NEW m \in 1 .. Len(s) + 1, NEW n \in m - 1 .. Len(s)
  PROVE  /\ SubSeq(s, m, n) \in Texts /\ Len(SubSeq(s, m, n)) = n - m + 1
         /\ \A k \in 1 .. n - m + 1 : SubSeq(s, m, n)[k] = s[m + k - 1]
<1>. DEFINE t == SubSeq(s, m, n)
<1>1. s \in Seq(Char) /\ Len(s) \in Nat /\ \A k \in 1 .. Len(s) : s[k] # NUL
  BY TextType
<1>2. t \in Seq(Char) /\ Len(t) = n - m + 1 /\ \A k \in 1 .. n - m + 1 : t[k] = s[m + k - 1]
  BY <1>1
<1>. HIDE DEF t
<1>3. \A k \in 1 .. n - m + 1 : m + k - 1 \in 1 .. Len(s)
  BY <1>1
<1>4. \A k \in 1 .. Len(t) : t[k] # NUL
  BY <1>1, <1>2, <1>3
<1>5. t \in Texts
  BY <1>2, <1>4 DEF Texts
<1>. QED  BY <1>2, <1>5 DEF t

\* What strncat takes of a text.
LEMMA TakeIs ==
  ASSUME NEW s \in Texts, NEW n \in Nat
  PROVE  /\ Take(s, n) \in Texts /\ Len(Take(s, n)) = IF n < Len(s) THEN n ELSE Len(s)
         /\ \A k \in 1 .. Len(Take(s, n)) : Take(s, n)[k] = s[k]
<1>0. Len(s) \in Nat
  BY TextType
<1>1. CASE n < Len(s)
  <2>1. Take(s, n) = SubSeq(s, 1, n)
    BY <1>1 DEF Take
  <2>2. 1 \in 1 .. Len(s) + 1 /\ n \in 1 - 1 .. Len(s) /\ n - 1 + 1 = n
    BY <1>0, <1>1
  <2>3. SubSeq(s, 1, n) \in Texts /\ Len(SubSeq(s, 1, n)) = n
    BY <2>2, PartIs
  <2>4. \A k \in 1 .. n : SubSeq(s, 1, n)[k] = s[1 + k - 1] /\ 1 + k - 1 = k
    BY <2>2, PartIs
  <2>. QED  BY <1>1, <2>1, <2>3, <2>4
<1>2. CASE ~ (n < Len(s))
  BY <1>2 DEF Take
<1>. QED  BY <1>1, <1>2

\* What a buffer has room for, of a text.
LEMMA CutIs ==
  ASSUME NEW s \in Texts, NEW size \in Sizes
  PROVE  /\ Cut(s, size) \in Texts /\ Len(Cut(s, size)) = IF size <= Len(s) THEN size - 1 ELSE Len(s)
         /\ \A k \in 1 .. Len(Cut(s, size)) : Cut(s, size)[k] = s[k]
<1>1. size \in Nat /\ size - 1 \in Nat /\ Len(s) \in Nat
  BY TextSizes, TextType DEF Sizes
<1>2. size - 1 < Len(s) <=> size <= Len(s)
  BY <1>1
<1>. QED  BY <1>1, <1>2, TakeIs DEF Cut

\* Cutting two texts that agree on what is left gives one text.
LEMMA CutSame ==
  ASSUME NEW s \in Texts, NEW t \in Texts, NEW size \in Sizes,
         Len(Cut(s, size)) = Len(Cut(t, size)), \A k \in 1 .. Len(Cut(s, size)) : s[k] = t[k]
  PROVE  Cut(s, size) = Cut(t, size)
BY CutIs, SameText

\* Two texts one behind the other.
LEMMA JoinIs ==
  ASSUME NEW s \in Texts, NEW t \in Texts
  PROVE  /\ s \o t \in Texts /\ Len(s \o t) = Len(s) + Len(t)
         /\ \A k \in 1 .. Len(s) + Len(t) : (s \o t)[k] = IF k <= Len(s) THEN s[k] ELSE t[k - Len(s)]
<1>. DEFINE u == s \o t
<1>0. s \in Seq(Char) /\ t \in Seq(Char) /\ Len(s) \in Nat /\ Len(t) \in Nat
  BY TextType
<1>1. u \in Seq(Char) /\ Len(u) = Len(s) + Len(t)
      /\ \A k \in 1 .. Len(s) + Len(t) : u[k] = IF k <= Len(s) THEN s[k] ELSE t[k - Len(s)]
  BY <1>0
<1>. HIDE DEF u
<1>2. \A k \in 1 .. Len(u) : u[k] # NUL
  <2>. TAKE k \in 1 .. Len(u)
  <2>1. (k <= Len(s) => k \in 1 .. Len(s)) /\ (~ (k <= Len(s)) => k - Len(s) \in 1 .. Len(t))
    BY <1>0, <1>1
  <2>. QED  BY <1>1, <2>1, TextType
<1>3. u \in Texts
  BY <1>1, <1>2 DEF Texts
<1>. QED  BY <1>1, <1>3 DEF u

\* The text of a slash, and the one of nothing.
LEMMA SlashIs == <<SLASH>> \in Texts /\ Len(<<SLASH>>) = 1 /\ <<SLASH>>[1] = SLASH /\ SLASH # NUL /\ COLON # NUL /\ <<>> \in Texts
<1>1. SLASH # NUL /\ COLON # NUL
  BY DEF SLASH, NUL, COLON
<1>2. \A x \in Char : <<x>> \in Seq(Char) /\ Len(<<x>>) = 1 /\ <<x>>[1] = x
  OBVIOUS
<1>3. \A x \in Char \ {NUL} : <<x>> \in Texts
  BY <1>2 DEF Texts
<1>4. <<>> \in Seq(Char) /\ Len(<<>>) = 0
  OBVIOUS
<1>5. <<>> \in Texts
  BY <1>4 DEF Texts
<1>. QED  BY <1>1, <1>2, <1>3, <1>5, CharIs
-----------------------------------------------------------------------------
\* With the terminator counted no room wraps around, but that of a full buffer.
LEMMA RoomIs ==
  ASSUME NEW size \in Sizes, NEW len \in 0 .. size
  PROVE  /\ Room(size, len) \in Nat
         /\ len < size => Room(size, len) = size - len - 1
         /\ len = size => Room(size, len) = SizeMod - 1
<1>1. \A a \in Int : a % SizeMod \in 0 .. SizeMod - 1
  BY TextSizes
<1>2. \A a \in 0 .. SizeMod - 1 : a % SizeMod = a
  BY TextSizes
<1>3. -1 % SizeMod = SizeMod - 1
  BY TextSizes
<1>4. size - len \in 0 .. SizeMod - 1 /\ size \in Nat /\ SizeMod \in Nat
  BY TextSizes DEF Sizes
<1>5. Room(size, len) = (size - len - 1) % SizeMod
  BY <1>2, <1>4 DEF Room, Minus
<1>6. Room(size, len) \in Nat
  BY <1>1, <1>4, <1>5
<1>7. ASSUME len < size PROVE Room(size, len) = size - len - 1
  <2>1. size - len - 1 \in 0 .. SizeMod - 1
    BY <1>4, <1>7
  <2>. QED  BY <1>2, <1>5, <2>1
<1>8. ASSUME len = size PROVE Room(size, len) = SizeMod - 1
  <2>1. size - len - 1 = -1
    BY <1>4, <1>8
  <2>. QED  BY <1>3, <1>5, <2>1
<1>. QED  BY <1>6, <1>7, <1>8

\* A buffer on the stack that nothing was stored in.
LEMMA BufferIs ==
  ASSUME NEW size \in Sizes, NEW d, d = size + Behind
  PROVE  IsBuf(Buffer(size), d) /\ \A k \in 0 .. d - 1 : Buffer(size)[k] = Untouched
<1>1. size \in Nat /\ d \in Nat /\ size + Behind - 1 = d - 1
  BY TextSizes
<1>2. Buffer(size) = [k \in 0 .. d - 1 |-> Untouched]
  BY <1>1, Zenon DEF Buffer
<1>. QED  BY <1>1, <1>2, CharIs DEF IsBuf

\* strncpy and the terminator: what there is room for, and nothing behind the buffer.
LEMMA CopyCutIs ==
  ASSUME NEW size \in Sizes, NEW s \in Texts
  PROVE  /\ IsBuf(CopyCut(size, s), size + Behind) /\ Within(CopyCut(size, s), size)
         /\ Holds(CopyCut(size, s), 0, Cut(s, size))
         /\ Cut(s, size) \in Texts /\ Len(Cut(s, size)) < size
<1>. DEFINE m == size - 1
            d == size + Behind
            t == [k \in 1 .. m |-> IF k <= Len(s) THEN s[k] ELSE NUL]
            b == Store(Buffer(size), 0, t)
            c == SetNul(b, m)
<1>0. size \in Nat /\ m \in Nat /\ d \in Nat /\ m < d /\ m < size /\ Len(s) \in Nat /\ 0 \in Nat /\ size <= d
  BY TextSizes, TextType DEF Sizes
<1>14. IsBuf(Buffer(size), d) /\ \A k \in 0 .. d - 1 : Buffer(size)[k] = Untouched
  BY BufferIs
<1>. HIDE DEF d
<1>1. CopyCut(size, s) = c
  BY DEF CopyCut, strncpy
<1>2. t \in Seq(Char) /\ Len(t) = m /\ \A k \in 1 .. m : t[k] = IF k <= Len(s) THEN s[k] ELSE NUL
  <2>1. \A k \in 1 .. m : (IF k <= Len(s) THEN s[k] ELSE NUL) \in Char
    BY <1>0, TextType, CharIs
  <2>. HIDE DEF m
  <2>. QED  BY <1>0, <2>1
<1>3. IsBuf(b, d) /\ \A k \in 0 .. d - 1 : b[k] = IF k >= 0 /\ k < 0 + m THEN t[k - 0 + 1] ELSE Buffer(size)[k]
  <2>. HIDE DEF t, m
  <2>1. t \in Seq(Char) /\ 0 \in Nat /\ Len(t) = m
    BY <1>0, <1>2
  <2>2. IsBuf(Buffer(size), d)
    BY <1>14
  <2>3. IsBuf(b, d)
    BY <2>1, <2>2, StoreIs
  <2>4. \A k \in 0 .. d - 1 : b[k] = IF k >= 0 /\ k < 0 + Len(t) THEN t[k - 0 + 1] ELSE Buffer(size)[k]
    BY <2>1, <2>2, StoreIs
  <2>. QED  BY <2>1, <2>3, <2>4
<1>. HIDE DEF b
<1>4. IsBuf(c, d) /\ \A k \in 0 .. d - 1 : c[k] = IF k = m THEN NUL ELSE b[k]
  <2>. HIDE DEF m
  <2>. QED  BY <1>0, <1>3, SetNulIs
<1>. HIDE DEF c, t
<1>5. DOMAIN c = 0 .. d - 1
  BY <1>4, BufDomain
<1>6. Within(c, size)
  <2>. SUFFICES ASSUME NEW k \in 0 .. d - 1, k >= size PROVE c[k] = Untouched
    BY <1>5 DEF Within
  <2>1. k # m /\ ~ (k < 0 + m)
    BY <1>0
  <2>2. c[k] = b[k]
    BY <1>4, <2>1
  <2>3. b[k] = Buffer(size)[k]
    BY <1>3, <2>1
  <2>. QED  BY <1>14, <2>2, <2>3
<1>. DEFINE u == Cut(s, size)
<1>7. u \in Texts /\ Len(u) = (IF size <= Len(s) THEN m ELSE Len(s)) /\ \A k \in 1 .. Len(u) : u[k] = s[k]
  BY CutIs
<1>. HIDE DEF u
<1>8. Len(u) \in Nat /\ Len(u) <= m /\ Len(u) < size /\ 0 + Len(u) \in 0 .. d - 1
  BY <1>0, <1>7
<1>9. \A k \in 0 .. m - 1 : c[k] = IF k + 1 <= Len(s) THEN s[k + 1] ELSE NUL
  <2>. TAKE k \in 0 .. m - 1
  <2>1. k \in 0 .. d - 1 /\ k # m /\ k >= 0 /\ k < 0 + m /\ k - 0 + 1 = k + 1 /\ k + 1 \in 1 .. m
    BY <1>0
  <2>2. c[k] = t[k + 1]
    BY <1>3, <1>4, <2>1
  <2>. QED  BY <1>2, <2>1, <2>2
<1>10. c[m] = NUL
  BY <1>0, <1>4
<1>11. c[0 + Len(u)] = NUL
  <2>1. CASE Len(u) = m
    BY <1>0, <1>10, <2>1
  <2>2. CASE Len(u) # m
    <3>1. 0 + Len(u) \in 0 .. m - 1 /\ ~ (0 + Len(u) + 1 <= Len(s))
      BY <1>0, <1>7, <1>8, <2>2
    <3>. QED  BY <1>9, <3>1
  <2>. QED  BY <2>1, <2>2
<1>12. \A k \in 1 .. Len(u) : c[0 + k - 1] = u[k]
  <2>. TAKE k \in 1 .. Len(u)
  <2>1. 0 + k - 1 \in 0 .. m - 1 /\ 0 + k - 1 + 1 = k /\ k <= Len(s)
    BY <1>0, <1>7, <1>8
  <2>2. c[0 + k - 1] = s[k]
    BY <1>9, <2>1
  <2>. QED  BY <1>7, <2>2
<1>13. Holds(c, 0, u)
  BY <1>5, <1>8, <1>11, <1>12 DEF Holds
<1>. QED  BY <1>1, <1>4, <1>6, <1>7, <1>8, <1>13 DEF u, d
-----------------------------------------------------------------------------
\* strncat stores the text, as far as n goes, and a terminator.
LEMMA StrncatIs ==
  ASSUME NEW b, NEW d, IsBuf(b, d), NEW s \in Texts, Holds(b, 0, s), NEW t \in Texts, NEW n \in Nat,
         NEW m, m = Len(Take(t, n))
  PROVE  /\ IsBuf(strncat(b, t, n), d)
         /\ \A k \in 0 .. d - 1 : strncat(b, t, n)[k] =
              IF k < Len(s) \/ k > Len(s) + m THEN b[k]
              ELSE IF k = Len(s) + m THEN NUL ELSE t[k - Len(s) + 1]
<1>. DEFINE u == Take(t, n)
            v == Append(u, NUL)
            l == Len(s)
<1>0. strlen(b, 0) = l /\ l \in Nat /\ d \in Nat
  BY HoldsStr, TextType, BufDomain
<1>1. u \in Texts /\ u \in Seq(Char) /\ m \in Nat /\ Len(u) = m /\ \A k \in 1 .. m : u[k] = t[k]
  BY TakeIs, TextType
<1>2. strncat(b, t, n) = Store(b, l, v)
  BY <1>0 DEF strncat
<1>. HIDE DEF u
<1>3. v \in Seq(Char) /\ Len(v) = m + 1 /\ \A k \in 1 .. m + 1 : v[k] = IF k = m + 1 THEN NUL ELSE u[k]
  BY <1>1, CharIs
<1>. HIDE DEF v, l
<1>4. IsBuf(Store(b, l, v), d)
  BY <1>0, <1>3, StoreIs
<1>5. \A k \in 0 .. d - 1 : Store(b, l, v)[k] = IF k >= l /\ k < l + Len(v) THEN v[k - l + 1] ELSE b[k]
  BY <1>0, <1>3, StoreIs, ZenonT(30)
<1>6. ASSUME NEW k \in 0 .. d - 1
      PROVE  Store(b, l, v)[k] = IF k < l \/ k > l + m THEN b[k] ELSE IF k = l + m THEN NUL ELSE t[k - l + 1]
  <2>1. CASE k < l \/ k > l + m
    <3>1. ~ (k >= l /\ k < l + Len(v))
      BY <1>0, <1>1, <1>3, <2>1
    <3>. QED  BY <1>5, <2>1, <3>1
  <2>2. CASE k = l + m
    <3>1. k >= l /\ k < l + Len(v) /\ k - l + 1 = m + 1 /\ m + 1 \in 1 .. m + 1 /\ ~ (k < l \/ k > l + m)
      BY <1>0, <1>1, <1>3, <2>2
    <3>. QED  BY <1>3, <1>5, <2>2, <3>1
  <2>3. CASE k >= l /\ k < l + m
    <3>1. k < l + Len(v) /\ k - l + 1 \in 1 .. m /\ k - l + 1 \in 1 .. m + 1 /\ k - l + 1 # m + 1
          /\ ~ (k < l \/ k > l + m) /\ k # l + m
      BY <1>0, <1>1, <1>3, <2>3
    <3>2. v[k - l + 1] = t[k - l + 1]
      BY <1>1, <1>3, <3>1
    <3>. QED  BY <1>5, <2>3, <3>1, <3>2
  <2>4. (k < l \/ k > l + m) \/ k = l + m \/ (k >= l /\ k < l + m)
    BY <1>0, <1>1
  <2>. QED  BY <2>1, <2>2, <2>3, <2>4
<1>. QED  BY <1>2, <1>4, <1>6 DEF l

\* With the room that is left, what fits of the longer text.
LEMMA AppendIs ==
  ASSUME NEW size \in Sizes, NEW b, IsBuf(b, size + Behind), Within(b, size),
         NEW s \in Texts, Len(s) < size, Holds(b, 0, s), NEW t \in Texts,
         NEW c, c = strncat(b, t, Room(size, Len(s)))
  PROVE  IsBuf(c, size + Behind) /\ Within(c, size) /\ Holds(c, 0, Cut(s \o t, size))
<1>. DEFINE l == Len(s)
            n == size - l - 1
            u == Take(t, n)
            m == Len(u)
            d == size + Behind
            v == Cut(s \o t, size)
<1>0. l \in Nat /\ size \in Nat /\ n \in Nat /\ d \in Nat /\ size <= d /\ l < size /\ Len(t) \in Nat
  BY TextSizes, TextType DEF Sizes
<1>1. Room(size, Len(s)) = n
  BY <1>0, RoomIs
<1>2. IsBuf(b, d)
  OBVIOUS
<1>. HIDE DEF n, d
<1>3. m \in Nat /\ m = IF n < Len(t) THEN n ELSE Len(t)
  BY <1>0, TakeIs, TextType
<1>. HIDE DEF m
<1>4. m = Len(Take(t, n))
  BY DEF m
<1>5. IsBuf(c, d) /\ \A k \in 0 .. d - 1 : c[k] =
              IF k < Len(s) \/ k > Len(s) + m THEN b[k]
              ELSE IF k = Len(s) + m THEN NUL ELSE t[k - Len(s) + 1]
  <2>1. c = strncat(b, t, n)
    BY <1>1
  <2>2. IsBuf(strncat(b, t, n), d)
    BY <1>0, <1>2, <1>4, StrncatIs
  <2>3. \A k \in 0 .. d - 1 : strncat(b, t, n)[k] =
              IF k < Len(s) \/ k > Len(s) + m THEN b[k]
              ELSE IF k = Len(s) + m THEN NUL ELSE t[k - Len(s) + 1]
    BY <1>0, <1>2, <1>4, StrncatIs
  <2>. QED  BY <2>1, <2>2, <2>3
<1>6. DOMAIN c = 0 .. d - 1 /\ DOMAIN b = 0 .. d - 1
  BY <1>2, <1>5, BufDomain
<1>7. Within(c, size)
  <2>. SUFFICES ASSUME NEW k \in 0 .. d - 1, k >= size PROVE c[k] = Untouched
    BY <1>6 DEF Within
  <2>1. k > Len(s) + m
    BY <1>0, <1>3 DEF n
  <2>2. c[k] = b[k]
    BY <1>5, <2>1
  <2>. QED  BY <1>6, <2>2 DEF Within
<1>8. s \o t \in Texts /\ Len(s \o t) = l + Len(t)
      /\ \A k \in 1 .. l + Len(t) : (s \o t)[k] = IF k <= l THEN s[k] ELSE t[k - l]
  BY JoinIs
<1>9. v \in Texts /\ Len(v) = (IF size <= Len(s \o t) THEN size - 1 ELSE Len(s \o t))
      /\ \A k \in 1 .. Len(v) : v[k] = (s \o t)[k]
  BY <1>8, CutIs
<1>. HIDE DEF v
<1>10. Len(v) = l + m /\ l + m < size /\ l + m <= l + Len(t)
  BY <1>0, <1>3, <1>8, <1>9 DEF n
<1>. HIDE DEF l
<1>11. 0 + Len(v) \in 0 .. d - 1 /\ c[0 + Len(v)] = NUL
  <2>1. 0 + Len(v) \in 0 .. d - 1 /\ 0 + Len(v) = l + m /\ ~ (l + m < l \/ l + m > l + m)
    BY <1>0, <1>3, <1>10
  <2>. QED  BY <1>5, <2>1 DEF l
<1>12. ASSUME NEW k \in 1 .. Len(v) PROVE c[0 + k - 1] = v[k]
  <2>0. 0 + k - 1 \in 0 .. d - 1 /\ 0 + k - 1 = k - 1 /\ k \in 1 .. l + Len(t) /\ k <= l + m
    BY <1>0, <1>3, <1>10
  <2>1. v[k] = IF k <= l THEN s[k] ELSE t[k - l]
    BY <1>8, <1>9, <2>0
  <2>2. CASE k <= l
    <3>1. c[k - 1] = b[k - 1]
      <4>1. k - 1 < l
        BY <1>0, <2>2
      <4>. QED  BY <1>5, <2>0, <4>1 DEF l
    <3>2. b[0 + k - 1] = s[k]
      <4>1. k \in 1 .. Len(s)
        BY <1>0, <2>2 DEF l
      <4>. QED  BY <4>1 DEF Holds
    <3>. QED  BY <2>0, <2>1, <2>2, <3>1, <3>2
  <2>3. CASE ~ (k <= l)
    <3>1. ~ (k - 1 < l \/ k - 1 > l + m) /\ k - 1 # l + m /\ k - 1 - l + 1 = k - l
      BY <1>0, <1>3, <2>0, <2>3
    <3>2. c[k - 1] = t[k - 1 - l + 1]
      BY <1>5, <2>0, <3>1 DEF l
    <3>. QED  BY <2>0, <2>1, <2>3, <3>1, <3>2
  <2>. QED  BY <2>2, <2>3
<1>13. Holds(c, 0, v)
  BY <1>6, <1>11, <1>12 DEF Holds
<1>. QED  BY <1>5, <1>7, <1>13 DEF v, d

\* It does not matter if a text was cut before the next was put behind it.
LEMMA CutCut ==
  ASSUME NEW x \in Texts, NEW y \in Texts, NEW size \in Sizes
  PROVE  /\ Cut(Cut(x, size) \o y, size) = Cut(x \o y, size)
         /\ Len(x) < size => Cut(x, size) = x
<1>. DEFINE z == Cut(x, size)
            p == z \o y
            q == x \o y
<1>0. size \in Nat /\ size >= 2 /\ Len(x) \in Nat /\ Len(y) \in Nat
  BY TextSizes, TextType DEF Sizes
<1>1. z \in Texts /\ Len(z) = (IF size <= Len(x) THEN size - 1 ELSE Len(x)) /\ \A k \in 1 .. Len(z) : z[k] = x[k]
  BY CutIs
<1>2. Len(x) < size => z = x
  BY <1>0, <1>1, SameText
<1>. HIDE DEF z
<1>3. p \in Texts /\ Len(p) = Len(z) + Len(y) /\ \A k \in 1 .. Len(z) + Len(y) : p[k] = IF k <= Len(z) THEN z[k] ELSE y[k - Len(z)]
  BY <1>1, JoinIs
<1>4. q \in Texts /\ Len(q) = Len(x) + Len(y) /\ \A k \in 1 .. Len(x) + Len(y) : q[k] = IF k <= Len(x) THEN x[k] ELSE y[k - Len(x)]
  BY JoinIs
<1>5. CASE Len(x) < size
  BY <1>2, <1>5 DEF z
<1>6. CASE ~ (Len(x) < size)
  <2>. HIDE DEF p, q
  <2>1. Len(z) = size - 1
    BY <1>0, <1>1, <1>6
  <2>2. Len(Cut(p, size)) = size - 1 /\ Len(Cut(q, size)) = size - 1
    <3>1. Len(p) >= size - 1 /\ Len(q) >= size
      BY <1>0, <1>3, <1>4, <1>6, <2>1
    <3>2. \A r \in Texts : Len(Cut(r, size)) = IF size <= Len(r) THEN size - 1 ELSE Len(r)
      BY CutIs
    <3>3. Len(p) \in Nat /\ Len(q) \in Nat
      BY <1>3, <1>4, TextType
    <3>. QED  BY <1>0, <1>3, <1>4, <3>1, <3>2, <3>3
  <2>3. ASSUME NEW k \in 1 .. Len(Cut(p, size)) PROVE p[k] = q[k]
    <3>1. k \in 1 .. Len(z) /\ k <= Len(x) /\ k \in 1 .. Len(z) + Len(y) /\ k \in 1 .. Len(x) + Len(y) /\ k <= Len(z)
      BY <1>0, <1>6, <2>1, <2>2, <2>3
    <3>2. p[k] = z[k]
      BY <1>3, <3>1
    <3>3. q[k] = x[k]
      BY <1>4, <3>1
    <3>. QED  BY <1>1, <3>1, <3>2, <3>3
  <2>4. Cut(p, size) = Cut(q, size)
    BY <1>3, <1>4, <2>2, <2>3, CutSame
  <2>. QED  BY <1>6, <1>0, <2>4 DEF p, q, z
<1>. QED  BY <1>5, <1>6, <1>2 DEF z
-----------------------------------------------------------------------------
\* A directory and a name have one slash between them.
LEMMA JoinedIs ==
  ASSUME NEW dir \in Texts, NEW name \in Texts
  PROVE  /\ Joined(dir, name) \in Texts /\ Len(Joined(dir, name)) >= Len(dir)
         /\ dir[Len(dir)] = SLASH => Joined(dir, name) = dir \o name
         /\ dir[Len(dir)] # SLASH => Joined(dir, name) = (dir \o <<SLASH>>) \o name
<1>0. dir \in Seq(Char) /\ <<SLASH>> \in Texts /\ Len(dir) \in Nat /\ Len(name) \in Nat /\ Len(<<SLASH>>) = 1
  BY TextType, SlashIs
<1>1. \A q \in Seq(Char) : q \o <<>> = q
  OBVIOUS
<1>2. dir \o <<>> = dir
  BY <1>0, <1>1
<1>3. dir \o name \in Texts /\ Len(dir \o name) = Len(dir) + Len(name)
  BY JoinIs
<1>4. dir \o <<SLASH>> \in Texts /\ Len(dir \o <<SLASH>>) = Len(dir) + 1
  BY <1>0, JoinIs
<1>5. (dir \o <<SLASH>>) \o name \in Texts /\ Len((dir \o <<SLASH>>) \o name) = Len(dir) + 1 + Len(name)
  BY <1>4, JoinIs
<1>6. CASE dir[Len(dir)] = SLASH
  <2>1. Joined(dir, name) = dir \o name
    BY <1>2, <1>6, Zenon DEF Joined, Last
  <2>. QED  BY <1>0, <1>3, <1>6, <2>1
<1>7. CASE dir[Len(dir)] # SLASH
  <2>1. Joined(dir, name) = (dir \o <<SLASH>>) \o name
    BY <1>7, Zenon DEF Joined, Last
  <2>. QED  BY <1>0, <1>5, <1>7, <2>1
<1>. QED  BY <1>6, <1>7

\* The first and the last byte of a text in a buffer.
LEMMA FirstBytes ==
  ASSUME NEW b, NEW s \in Texts, Len(s) > 0, Holds(b, 0, s)
  PROVE  b[Len(s) - 1] = s[Len(s)] /\ b[0] = s[1]
<1>0. Len(s) \in Nat /\ Len(s) \in 1 .. Len(s) /\ 1 \in 1 .. Len(s) /\ 0 + Len(s) - 1 = Len(s) - 1 /\ 0 + 1 - 1 = 0
  BY TextType
<1>. QED  BY <1>0 DEF Holds

\* path_buffer holds the directory with the command behind it, as far as it fits.
LEMMA CandidateIs ==
  ASSUME NEW dir \in Texts, 0 < Len(dir), Len(dir) < PathSize, NEW name \in Texts
  PROVE  /\ IsBuf(Candidate(dir, name), PathSize + Behind) /\ Within(Candidate(dir, name), PathSize)
         /\ Holds(Candidate(dir, name), 0, Cut(Joined(dir, name), PathSize))
<1>. DEFINE size == PathSize
            b == CopyCut(size, dir)
            len == strlen(b, 0)
            x == IF dir[Len(dir)] = SLASH THEN dir ELSE dir \o <<SLASH>>
            y == Cut(x, size)
            c == IF len # 0 /\ b[len - 1] # SLASH THEN strncat(b, <<SLASH>>, Room(size, len)) ELSE b
            r == strncat(c, name, Room(size, strlen(c, 0)))
<1>0. size \in Sizes /\ size \in Nat /\ size + Behind \in Nat /\ Len(dir) \in Nat /\ 0 \in Nat
  BY TextSizes, TextType
<1>1. Candidate(dir, name) = r
  BY DEF Candidate
<1>. HIDE DEF size
<1>2. Len(dir) < size
  BY DEF size
<1>3. Cut(dir, size) = dir
  <2>1. <<>> \in Texts
    BY SlashIs
  <2>. QED  BY <1>0, <1>2, <2>1, CutCut
<1>4. IsBuf(b, size + Behind) /\ Within(b, size) /\ Holds(b, 0, dir)
  BY <1>0, <1>3, CopyCutIs
<1>. HIDE DEF b
<1>5. len = Len(dir)
  BY <1>0, <1>4, HoldsStr
<1>6. b[len - 1] = dir[Len(dir)]
  BY <1>4, <1>5, FirstBytes
<1>. HIDE DEF len
<1>7. x \in Texts
  BY SlashIs, JoinIs
<1>8. IsBuf(c, size + Behind) /\ Within(c, size) /\ Holds(c, 0, y)
  <2>1. CASE dir[Len(dir)] = SLASH
    <3>1. c = b /\ y = dir
      BY <1>3, <1>6, <2>1
    <3>. QED  BY <1>4, <3>1
  <2>2. CASE dir[Len(dir)] # SLASH
    <3>1. c = strncat(b, <<SLASH>>, Room(size, Len(dir))) /\ x = dir \o <<SLASH>>
      BY <1>0, <1>5, <1>6, <2>2
    <3>. HIDE DEF x, c
    <3>2. <<SLASH>> \in Texts
      BY SlashIs
    <3>. QED  BY <1>0, <1>2, <1>4, <3>1, <3>2, AppendIs
  <2>. QED  BY <2>1, <2>2
<1>. HIDE DEF c, x, y
<1>9. y \in Texts /\ Len(y) < size
  <2>1. y \in Texts /\ Len(y) = (IF size <= Len(x) THEN size - 1 ELSE Len(x))
    BY <1>0, <1>7, CutIs DEF y
  <2>2. Len(x) \in Nat
    BY <1>7, TextType
  <2>. QED  BY <1>0, <2>1, <2>2
<1>10. strlen(c, 0) = Len(y)
  BY <1>0, <1>8, <1>9, HoldsStr
<1>11. r = strncat(c, name, Room(size, Len(y)))
  BY <1>10
<1>. HIDE DEF r
<1>12. IsBuf(r, size + Behind) /\ Within(r, size) /\ Holds(r, 0, Cut(y \o name, size))
  BY <1>0, <1>8, <1>9, <1>11, AppendIs
<1>13. Cut(y \o name, size) = Cut(x \o name, size)
  BY <1>0, <1>7, CutCut DEF y
<1>14. x \o name = Joined(dir, name)
  BY JoinedIs DEF x
<1>. QED  BY <1>1, <1>12, <1>13, <1>14 DEF size
-----------------------------------------------------------------------------
\* What cd makes of a path in the directory w.
Target(w, path) == IF path[1] = SLASH THEN path ELSE Joined(w, path)

\* The slash that has no place is counted.
NoPlace(w, path) == Len(w) = FS_MAX_PATH - 1 /\ SLASH \notin {Last(w), path[1]}

\* A buffer that holds a text has a terminator.
LEMMA HoldsNul ==
  ASSUME NEW size \in Sizes, NEW b, IsBuf(b, size + Behind), NEW s \in Texts, Len(s) < size, Holds(b, 0, s)
  PROVE  \E k \in 0 .. size - 1 : b[k] = NUL
<1>1. Len(s) \in 0 .. size - 1 /\ 0 + Len(s) = Len(s)
  BY TextSizes, TextType
<1>. QED  BY <1>1 DEF Holds

\* What is cut is shorter than the buffer.
LEMMA CutText ==
  ASSUME NEW s \in Texts, NEW size \in Sizes
  PROVE  /\ Cut(s, size) \in Texts /\ Len(Cut(s, size)) < size
         /\ Cut(Cut(s, size), size) = Cut(s, size)
         /\ Len(s) > 0 => Len(Cut(s, size)) > 0
<1>1. Cut(s, size) \in Texts /\ Len(Cut(s, size)) = (IF size <= Len(s) THEN size - 1 ELSE Len(s))
  BY CutIs
<1>2. size \in Nat /\ size >= 2 /\ Len(s) \in Nat
  BY TextSizes, TextType DEF Sizes
<1>3. Len(Cut(s, size)) < size
  BY <1>1, <1>2
<1>4. <<>> \in Texts
  BY SlashIs
<1>. QED  BY <1>1, <1>2, <1>3, <1>4, CutCut

\* A full fs.current_dir: the slash has no place, and what is stored behind abs_path
\* is cut off again when the walk copies it.
LEMMA FullIs ==
  ASSUME NEW w \in Texts, Len(w) = FS_MAX_PATH - 1, NEW path \in Texts, Len(path) > 0, w[Len(w)] # SLASH,
         NEW b, IsBuf(b, FS_MAX_PATH + Behind), Within(b, FS_MAX_PATH), Holds(b, 0, w),
         NEW r, r = strncat(strncat(b, <<SLASH>>, Room(FS_MAX_PATH, Len(w))), path, Room(FS_MAX_PATH, Len(w) + 1))
  PROVE  IsBuf(r, FS_MAX_PATH + Behind) /\ Cut(Str(r, 0), FS_MAX_PATH) = Cut(Joined(w, path), FS_MAX_PATH)
<1>. DEFINE size == FS_MAX_PATH
            d == size + Behind
            c == strncat(b, <<SLASH>>, Room(size, Len(w)))
            n == Room(size, Len(w) + 1)
            m == Len(Take(path, n))
            t == Joined(w, path)
<1>0. size \in Sizes /\ size \in Nat /\ size >= 2 /\ d \in Nat /\ d >= size /\ Len(w) \in Nat /\ 0 \in Nat /\ 0 \in 0 .. d
      /\ Len(w) < size /\ Len(w) + 1 \in 0 .. size
  BY TextSizes, TextType DEF Sizes
<1>1. <<SLASH>> \in Texts
  BY SlashIs
<1>2. Cut(w \o <<SLASH>>, size) = w
  <2>1. w \o <<SLASH>> \in Texts /\ Len(w \o <<SLASH>>) = Len(w) + 1 /\ \A k \in 1 .. Len(w) : (w \o <<SLASH>>)[k] = w[k]
    <3>1. \A k \in 1 .. Len(w) : k \in 1 .. Len(w) + 1 /\ k <= Len(w)
      BY <1>0
    <3>2. Len(<<SLASH>>) = 1
      BY SlashIs
    <3>. QED  BY <1>1, <3>1, <3>2, JoinIs
  <2>. DEFINE x == w \o <<SLASH>>
  <2>. HIDE DEF x, size
  <2>2. x \in Texts /\ size <= Len(x) /\ \A k \in 1 .. Len(w) : x[k] = w[k]
    BY <1>0, <2>1 DEF x, size
  <2>3. Cut(x, size) \in Texts /\ Len(Cut(x, size)) = Len(w) /\ \A k \in 1 .. Len(w) : Cut(x, size)[k] = x[k]
    <3>1. Len(w) = size - 1
      BY DEF size
    <3>. QED  BY <1>0, <2>2, <3>1, CutIs
  <2>4. Cut(x, size) = w
    BY <2>2, <2>3, SameText
  <2>. QED  BY <2>4 DEF x
<1>3. IsBuf(c, d) /\ Holds(c, 0, w)
  BY <1>0, <1>1, <1>2, AppendIs
<1>4. n \in Nat
  BY <1>0, RoomIs
<1>5. r = strncat(c, path, n)
  OBVIOUS
<1>. HIDE DEF c, n, m, d
<1>6. IsBuf(r, d) /\ \A k \in 0 .. d - 1 : r[k] =
              IF k < Len(w) \/ k > Len(w) + m THEN c[k]
              ELSE IF k = Len(w) + m THEN NUL ELSE path[k - Len(w) + 1]
  <2>1. m = Len(Take(path, n))
    BY DEF m
  <2>2. IsBuf(strncat(c, path, n), d)
    BY <1>3, <1>4, <2>1, StrncatIs
  <2>3. \A k \in 0 .. d - 1 : strncat(c, path, n)[k] =
              IF k < Len(w) \/ k > Len(w) + m THEN c[k]
              ELSE IF k = Len(w) + m THEN NUL ELSE path[k - Len(w) + 1]
    BY <1>3, <1>4, <2>1, StrncatIs
  <2>. QED  BY <1>5, <2>2, <2>3
<1>7. \A k \in 1 .. Len(w) : r[0 + k - 1] = w[k]
  <2>. TAKE k \in 1 .. Len(w)
  <2>1. 0 + k - 1 \in 0 .. d - 1 /\ 0 + k - 1 < Len(w)
    BY <1>0
  <2>2. r[0 + k - 1] = c[0 + k - 1]
    BY <1>6, <2>1
  <2>. QED  BY <1>3, <2>2 DEF Holds
<1>8. strlen(r, 0) >= Len(w)
  <2>1. 0 + Len(w) <= d
    BY <1>0
  <2>. QED  BY <1>0, <1>6, <1>7, <2>1, BeginsWith
<1>9. Str(r, 0) \in Texts /\ Len(Str(r, 0)) = strlen(r, 0) /\ \A k \in 1 .. strlen(r, 0) : Str(r, 0)[k] = r[0 + k - 1]
  BY <1>0, <1>6, StrIs
<1>10. \A k \in 1 .. Len(w) : Str(r, 0)[k] = w[k]
  <2>1. strlen(r, 0) \in Nat
    BY <1>9, TextType
  <2>2. \A k \in 1 .. Len(w) : k \in 1 .. strlen(r, 0)
    BY <1>0, <1>8, <2>1
  <2>. QED  BY <1>7, <1>9, <2>2
<1>11. t \in Texts /\ Len(t) > Len(w) /\ \A k \in 1 .. Len(w) : t[k] = w[k]
  <2>. DEFINE x == w \o <<SLASH>>
  <2>1. x \in Texts /\ Len(x) = Len(w) + 1 /\ \A k \in 1 .. Len(w) + 1 : x[k] = IF k <= Len(w) THEN w[k] ELSE <<SLASH>>[k - Len(w)]
    BY <1>1, SlashIs, JoinIs
  <2>2. t = x \o path
    BY JoinedIs
  <2>. HIDE DEF x, t
  <2>3. t \in Texts /\ Len(t) = Len(x) + Len(path) /\ \A k \in 1 .. Len(x) + Len(path) : t[k] = IF k <= Len(x) THEN x[k] ELSE path[k - Len(x)]
    BY <2>1, <2>2, JoinIs
  <2>4. Len(path) \in Nat
    BY TextType
  <2>5. \A k \in 1 .. Len(w) : k \in 1 .. Len(w) + 1 /\ k <= Len(w) /\ k <= Len(x) /\ k \in 1 .. Len(x) + Len(path)
    BY <1>0, <2>1, <2>4
  <2>6. \A k \in 1 .. Len(w) : t[k] = w[k]
    BY <2>1, <2>3, <2>5
  <2>7. Len(t) > Len(w)
    BY <1>0, <2>1, <2>3, <2>4
  <2>. QED  BY <2>3, <2>6, <2>7
<1>. DEFINE u == Str(r, 0)
<1>12. u \in Texts /\ Len(u) >= Len(w) /\ (\A k \in 1 .. Len(w) : u[k] = w[k]) /\ Len(u) \in Nat
  BY <1>8, <1>9, <1>10, TextType
<1>. HIDE DEF u, t, size
<1>13. \A z \in Texts : Len(z) >= Len(w) => Len(Cut(z, size)) = Len(w)
  <2>1. Len(w) = size - 1
    BY DEF size
  <2>2. \A z \in Texts : Len(z) \in Nat /\ Len(Cut(z, size)) = IF size <= Len(z) THEN size - 1 ELSE Len(z)
    BY <1>0, CutIs, TextType
  <2>. QED  BY <1>0, <2>1, <2>2
<1>14. Len(Cut(u, size)) = Len(w) /\ Len(Cut(t, size)) = Len(w)
  <2>1. Len(t) >= Len(w)
    BY <1>0, <1>11, TextType
  <2>. QED  BY <1>11, <1>12, <1>13, <2>1
<1>15. \A k \in 1 .. Len(Cut(u, size)) : u[k] = t[k]
  BY <1>11, <1>12, <1>14
<1>16. Cut(u, size) = Cut(t, size)
  BY <1>0, <1>11, <1>12, <1>14, <1>15, CutSame
<1>. QED  BY <1>6, <1>16 DEF u, t, size, d

\* abs_path is what cd means, cut to what there is room for.
LEMMA AbsoluteIs ==
  ASSUME NEW w \in Texts, 0 < Len(w), Len(w) < FS_MAX_PATH, current_dir = w,
         NEW path \in Texts, Len(path) > 0
  PROVE  /\ IsBuf(Absolute(path), FS_MAX_PATH + Behind)
         /\ Cut(Str(Absolute(path), 0), FS_MAX_PATH) = Cut(Target(w, path), FS_MAX_PATH)
         /\ ~ NoPlace(w, path) => /\ Within(Absolute(path), FS_MAX_PATH)
                                  /\ \E k \in 0 .. FS_MAX_PATH - 1 : Absolute(path)[k] = NUL
<1>. DEFINE size == FS_MAX_PATH
            b == CopyCut(size, w)
            len == strlen(b, 0)
            Good(r) == /\ IsBuf(r, size + Behind) /\ Within(r, size)
                       /\ \E s \in Texts : Len(s) < size /\ Holds(r, 0, s) /\ Cut(s, size) = Cut(Target(w, path), size)
<1>0. size \in Sizes /\ size \in Nat /\ size + Behind \in Nat /\ Len(w) \in Nat /\ 0 \in Nat /\ <<SLASH>> \in Texts
  BY TextSizes, TextType, SlashIs
<1>. HIDE DEF size
<1>1. Len(w) < size
  BY DEF size
<1>2. ASSUME NEW r, Good(r)
      PROVE  IsBuf(r, size + Behind) /\ Cut(Str(r, 0), size) = Cut(Target(w, path), size)
             /\ Within(r, size) /\ \E k \in 0 .. size - 1 : r[k] = NUL
  <2>1. PICK s \in Texts : Len(s) < size /\ Holds(r, 0, s) /\ Cut(s, size) = Cut(Target(w, path), size)
    BY <1>2
  <2>2. IsBuf(r, size + Behind) /\ Within(r, size)
    BY <1>2
  <2>3. Str(r, 0) = s
    BY <1>0, <2>1, <2>2, HoldsStr
  <2>4. \E k \in 0 .. size - 1 : r[k] = NUL
    BY <1>0, <2>1, <2>2, HoldsNul
  <2>. QED  BY <2>1, <2>2, <2>3, <2>4
<1>3. CASE path[1] = SLASH
  <2>1. Absolute(path) = CopyCut(size, path)
    BY <1>3 DEF Absolute, size
  <2>2. Target(w, path) = path
    BY <1>3 DEF Target
  <2>. DEFINE r == CopyCut(size, path)
              s == Cut(path, size)
  <2>3. IsBuf(r, size + Behind) /\ Within(r, size) /\ Holds(r, 0, s) /\ s \in Texts /\ Len(s) < size
    BY <1>0, CopyCutIs
  <2>4. Cut(s, size) = Cut(path, size)
    BY <1>0, CutText
  <2>. HIDE DEF r, s
  <2>5. Good(r)
    BY <2>2, <2>3, <2>4
  <2>. HIDE DEF Good
  <2>6. Good(Absolute(path))
    BY <2>1, <2>5 DEF r
  <2>. QED  BY <1>2, <2>6 DEF size
<1>4. CASE path[1] # SLASH
  <2>1. Target(w, path) = Joined(w, path)
    BY <1>4 DEF Target
  <2>2. Cut(w, size) = w
    BY <1>0, <1>1, CutCut
  <2>3. IsBuf(b, size + Behind) /\ Within(b, size) /\ Holds(b, 0, w)
    BY <1>0, <2>2, CopyCutIs
  <2>4. Absolute(path) = IF len = 0 \/ b[len - 1] # SLASH
          THEN strncat(strncat(b, <<SLASH>>, Room(size, len)), path, Room(size, len + 1))
          ELSE strncat(b, path, Room(size, len))
    BY <1>4 DEF Absolute, size
  <2>. HIDE DEF b
  <2>5. len = Len(w)
    BY <1>0, <2>3, HoldsStr
  <2>6. b[len - 1] = w[Len(w)]
    BY <2>3, <2>5, FirstBytes
  <2>. HIDE DEF len
  <2>7. CASE w[Len(w)] = SLASH
    <3>1. Absolute(path) = strncat(b, path, Room(size, Len(w)))
      BY <1>0, <2>4, <2>5, <2>6, <2>7
    <3>2. IsBuf(Absolute(path), size + Behind) /\ Within(Absolute(path), size) /\ Holds(Absolute(path), 0, Cut(w \o path, size))
      BY <1>0, <1>1, <2>3, <3>1, AppendIs
    <3>3. w \o path \in Texts /\ Joined(w, path) = w \o path
      BY <2>7, JoinedIs, JoinIs
    <3>. DEFINE s == Cut(w \o path, size)
    <3>4. s \in Texts /\ Len(s) < size /\ Cut(s, size) = Cut(w \o path, size)
      BY <1>0, <3>3, CutText
    <3>. HIDE DEF s
    <3>5. Good(Absolute(path))
      BY <2>1, <3>2, <3>3, <3>4 DEF s
    <3>. HIDE DEF Good
    <3>. QED  BY <1>2, <3>5 DEF size
  <2>8. CASE w[Len(w)] # SLASH /\ Len(w) + 1 < size
    <3>. DEFINE x == w \o <<SLASH>>
                c == strncat(b, <<SLASH>>, Room(size, Len(w)))
    <3>1. Absolute(path) = strncat(c, path, Room(size, Len(w) + 1))
      BY <1>0, <2>4, <2>5, <2>6, <2>8
    <3>2. x \in Texts /\ Len(x) = Len(w) + 1
      BY <1>0, SlashIs, JoinIs
    <3>3. Joined(w, path) = x \o path
      BY <2>8, JoinedIs
    <3>4. IsBuf(c, size + Behind) /\ Within(c, size) /\ Holds(c, 0, Cut(x, size))
      BY <1>0, <1>1, <2>3, AppendIs
    <3>. HIDE DEF x, c
    <3>5. Cut(x, size) = x
      BY <1>0, <2>8, <3>2, CutCut
    <3>. DEFINE s == Cut(x \o path, size)
                r == Absolute(path)
    <3>9. r = strncat(c, path, Room(size, Len(x)))
      BY <3>1, <3>2
    <3>. HIDE DEF r
    <3>6. IsBuf(r, size + Behind) /\ Within(r, size) /\ Holds(r, 0, s)
      <4>1. Len(x) < size /\ Holds(c, 0, x)
        BY <2>8, <3>2, <3>4, <3>5
      <4>. QED  BY <1>0, <3>2, <3>4, <3>9, <4>1, AppendIs
    <3>7. s \in Texts /\ Len(s) < size /\ Cut(s, size) = Cut(x \o path, size)
      <4>1. x \o path \in Texts
        BY <3>2, JoinIs
      <4>. QED  BY <1>0, <4>1, CutText
    <3>. HIDE DEF s
    <3>8. Good(r)
      BY <2>1, <3>3, <3>6, <3>7 DEF s
    <3>. HIDE DEF Good
    <3>. QED  BY <1>2, <3>8 DEF size, r
  <2>9. CASE w[Len(w)] # SLASH /\ ~ (Len(w) + 1 < size)
    <3>1. Len(w) = FS_MAX_PATH - 1
      BY <1>0, <1>1, <2>9 DEF size
    <3>2. NoPlace(w, path)
      BY <1>4, <2>9, <3>1 DEF NoPlace, Last
    <3>3. Absolute(path) = strncat(strncat(b, <<SLASH>>, Room(size, Len(w))), path, Room(size, Len(w) + 1))
      BY <1>0, <2>4, <2>5, <2>6, <2>9
    <3>. DEFINE r == Absolute(path)
    <3>4. r = strncat(strncat(b, <<SLASH>>, Room(FS_MAX_PATH, Len(w))), path, Room(FS_MAX_PATH, Len(w) + 1))
      BY <3>3 DEF size
    <3>5. IsBuf(b, FS_MAX_PATH + Behind) /\ Within(b, FS_MAX_PATH)
      BY <2>3 DEF size
    <3>. HIDE DEF r
    <3>6. IsBuf(r, FS_MAX_PATH + Behind) /\ Cut(Str(r, 0), FS_MAX_PATH) = Cut(Joined(w, path), FS_MAX_PATH)
      BY <2>3, <2>9, <3>1, <3>4, <3>5, FullIs
    <3>. QED  BY <2>1, <3>2, <3>6 DEF r
  <2>. QED  BY <2>7, <2>8, <2>9
<1>. QED  BY <1>3, <1>4
-----------------------------------------------------------------------------
\* From p on the buffer has what the text has.
Rest(b, s, p) ==
  /\ p \in 0 .. Len(s) /\ Len(s) \in DOMAIN b /\ b[Len(s)] = NUL
  /\ \A k \in p .. Len(s) - 1 : b[k] = s[k + 1]

\* A buffer that holds a text has all of it.
LEMMA RestAll ==
  ASSUME NEW b, NEW s \in Texts, Holds(b, 0, s)
  PROVE  Rest(b, s, 0)
<1>1. Len(s) \in Nat /\ 0 + Len(s) = Len(s)
  BY TextType
<1>2. ASSUME NEW k \in 0 .. Len(s) - 1 PROVE b[k] = s[k + 1]
  <2>1. k + 1 \in 1 .. Len(s) /\ 0 + (k + 1) - 1 = k
    BY <1>1
  <2>2. \A j \in 1 .. Len(s) : b[0 + j - 1] = s[j]
    BY DEF Holds
  <2>3. b[0 + (k + 1) - 1] = s[k + 1]
    BY <2>1, <2>2
  <2>. QED  BY <2>1, <2>3
<1>. QED  BY <1>1, <1>2 DEF Rest, Holds

\* What is left of a text is a text.
LEMMA RestIs ==
  ASSUME NEW b, NEW d, IsBuf(b, d), NEW s \in Texts, NEW p, Rest(b, s, p)
  PROVE  /\ p \in 0 .. Len(s) /\ Len(s) < d /\ Len(s) \in Nat /\ p \in 0 .. d
         /\ strlen(b, p) = Len(s) - p
         /\ Str(b, p) = SubSeq(s, p + 1, Len(s))
<1>0. d \in Nat /\ DOMAIN b = 0 .. d - 1 /\ Len(s) \in Nat
  BY BufDomain, TextType
<1>1. p \in 0 .. Len(s) /\ Len(s) \in 0 .. d - 1 /\ b[Len(s)] = NUL /\ \A k \in p .. Len(s) - 1 : b[k] = s[k + 1]
  BY <1>0 DEF Rest
<1>. DEFINE t == SubSeq(s, p + 1, Len(s))
<1>2. t \in Texts /\ Len(t) = Len(s) - p /\ \A k \in 1 .. Len(s) - p : t[k] = s[p + k]
  <2>1. p + 1 \in 1 .. Len(s) + 1 /\ Len(s) \in p + 1 - 1 .. Len(s) /\ Len(s) - (p + 1) + 1 = Len(s) - p
    BY <1>0, <1>1
  <2>2. t \in Texts /\ Len(t) = Len(s) - (p + 1) + 1 /\ \A k \in 1 .. Len(s) - (p + 1) + 1 : t[k] = s[p + 1 + k - 1]
    BY <2>1, PartIs
  <2>3. \A k \in 1 .. Len(s) - p : p + 1 + k - 1 = p + k
    BY <1>1
  <2>. QED  BY <2>1, <2>2, <2>3
<1>. HIDE DEF t
<1>3. Holds(b, p, t)
  <2>1. p + Len(t) = Len(s)
    BY <1>0, <1>1, <1>2
  <2>2. ASSUME NEW k \in 1 .. Len(t) PROVE b[p + k - 1] = t[k]
    <3>1. p + k - 1 \in p .. Len(s) - 1 /\ p + k - 1 + 1 = p + k /\ k \in 1 .. Len(s) - p
      BY <1>0, <1>1, <1>2
    <3>. QED  BY <1>1, <1>2, <3>1
  <2>. QED  BY <1>0, <1>1, <2>1, <2>2 DEF Holds
<1>4. strlen(b, p) = Len(t) /\ Str(b, p) = t
  <2>1. p \in Nat
    BY <1>0, <1>1
  <2>. QED  BY <1>2, <1>3, <2>1, HoldsStr
<1>. QED  BY <1>0, <1>1, <1>2, <1>4 DEF t

\* The first c from p on is at e.
Hit(s, p, c, e) ==
  \/ e = NULL /\ \A k \in p + 1 .. Len(s) : s[k] # c
  \/ /\ e # NULL /\ e \in p .. Len(s) - 1 /\ s[e + 1] = c
     /\ \A k \in p + 1 .. e : s[k] # c

\* strpbrk finds the first c.
LEMMA StrpbrkIs ==
  ASSUME NEW b, NEW d, IsBuf(b, d), NEW s \in Texts, NEW p, Rest(b, s, p), NEW c
  PROVE  Hit(s, p, c, strpbrk(b, p, {c}))
<1>. DEFINE e == strpbrk(b, p, {c})
<1>. SUFFICES \/ e = NULL /\ \A k \in p + 1 .. Len(s) : s[k] # c
              \/ /\ e # NULL /\ e \in p .. Len(s) - 1 /\ s[e + 1] = c
                 /\ \A k \in p + 1 .. e : s[k] # c
  BY Zenon DEF Hit
<1>. DEFINE hits == {k \in p .. p + strlen(b, p) - 1 : b[k] \in {c}}
<1>0. p \in 0 .. Len(s) /\ Len(s) \in Nat /\ p + strlen(b, p) - 1 = Len(s) - 1
  BY RestIs
<1>1. e = IF hits = {} THEN NULL ELSE Least(hits)
  BY DEF strpbrk
<1>2. hits = {k \in p .. Len(s) - 1 : s[k + 1] = c}
  <2>1. \A k \in p .. Len(s) - 1 : b[k] = s[k + 1]
    BY DEF Rest
  <2>2. hits = {k \in p .. Len(s) - 1 : b[k] = c}
    BY <1>0
  <2>. QED  BY <2>1, <2>2
<1>. HIDE DEF hits, e
<1>3. CASE hits = {}
  <2>1. ASSUME NEW k \in p + 1 .. Len(s), s[k] = c PROVE FALSE
    <3>1. k - 1 \in p .. Len(s) - 1 /\ k - 1 + 1 = k
      BY <1>0
    <3>. QED  BY <1>2, <1>3, <2>1, <3>1
  <2>. QED  BY <1>1, <1>3, <2>1
<1>4. CASE hits # {}
  <2>1. hits \in SUBSET Nat
    BY <1>0, <1>2
  <2>2. e \in hits /\ \A l \in hits : e <= l
    BY <1>1, <1>4, <2>1, LeastNat
  <2>3. e \in p .. Len(s) - 1 /\ s[e + 1] = c
    BY <1>2, <2>2
  <2>4. ASSUME NEW k \in p + 1 .. e, s[k] = c PROVE FALSE
    <3>1. k - 1 \in p .. Len(s) - 1 /\ k - 1 + 1 = k /\ ~ (e <= k - 1)
      BY <1>0, <2>3
    <3>. QED  BY <1>2, <2>2, <2>4, <3>1
  <2>5. e # NULL
    BY <1>0, <2>3 DEF NULL
  <2>. QED  BY <2>3, <2>4, <2>5
<1>. QED  BY <1>3, <1>4

\* From p on there is nothing but c up to q.
Past(s, p, c, q) ==
  /\ q \in p .. Len(s) /\ \A k \in p + 1 .. q : s[k] = c
  /\ q < Len(s) => s[q + 1] # c

\* strspn goes past every c.
LEMMA StrspnIs ==
  ASSUME NEW b, NEW d, IsBuf(b, d), NEW s \in Texts, NEW p, Rest(b, s, p), NEW c, c # NUL
  PROVE  Past(s, p, c, p + strspn(b, p, {c}))
<1>. DEFINE q == p + strspn(b, p, {c})
<1>. DEFINE n == Len(s) - p
            S == {k \in 0 .. strlen(b, p) : b[p + k] \notin {c}}
<1>0. p \in 0 .. Len(s) /\ Len(s) \in Nat /\ strlen(b, p) = n /\ n \in Nat /\ p + n = Len(s)
  BY RestIs
<1>. HIDE DEF n
<1>1. b[Len(s)] = NUL /\ \A k \in p .. Len(s) - 1 : b[k] = s[k + 1]
  BY DEF Rest
<1>2. S = {k \in 0 .. n : b[p + k] # c} /\ n \in S
  <2>1. S = {k \in 0 .. n : b[p + k] # c}
    BY <1>0
  <2>2. b[p + n] # c /\ n \in 0 .. n
    <3>1. b[p + n] = NUL
      BY <1>0, <1>1
    <3>2. n \in 0 .. n
      BY <1>0
    <3>. QED  BY <3>1, <3>2
  <2>. HIDE DEF S
  <2>. QED  BY <2>1, <2>2
<1>. DEFINE m == Least(S)
<1>3. q = p + m
  BY DEF strspn
<1>. HIDE DEF S
<1>4. m \in S /\ \A l \in S : m <= l
  <2>1. S \in SUBSET Nat /\ S # {}
    BY <1>2
  <2>. QED  BY <2>1, LeastNat
<1>. HIDE DEF m, q
<1>5. m \in 0 .. n /\ b[p + m] # c
  BY <1>2, <1>4
<1>6. q \in p .. Len(s)
  BY <1>0, <1>3, <1>5
<1>7. ASSUME NEW k \in p + 1 .. q PROVE s[k] = c
  <2>1. k - 1 - p \in 0 .. n /\ ~ (m <= k - 1 - p) /\ p + (k - 1 - p) = k - 1 /\ k - 1 \in p .. Len(s) - 1 /\ k - 1 + 1 = k
    BY <1>0, <1>3, <1>5
  <2>2. b[k - 1] = c
    BY <1>2, <1>4, <2>1
  <2>. QED  BY <1>1, <2>1, <2>2
<1>8. ASSUME q < Len(s) PROVE s[q + 1] # c
  <2>1. q \in p .. Len(s) - 1
    BY <1>0, <1>6, <1>8
  <2>. QED  BY <1>1, <1>3, <1>5, <2>1
<1>. QED  BY <1>6, <1>7, <1>8 DEF Past, q
-----------------------------------------------------------------------------
\* Separators are counted from 0, before the text, to the place behind it.
LEMMA SeparatorsAre ==
  ASSUME NEW s \in Texts, NEW c
  PROVE  /\ Separators(s, c) \in SUBSET Nat /\ Len(s) \in Nat
         /\ \A k : k \in Separators(s, c) <=> k \in 0 .. Len(s) + 1 /\ (k = 0 \/ k = Len(s) + 1 \/ s[k] = c)
BY TextType DEF Separators

\* A field goes to the next separator.
LEMMA FieldIs ==
  ASSUME NEW s \in Texts, NEW c, NEW k \in 0 .. Len(s), NEW e \in k + 1 .. Len(s) + 1,
         \A l \in k + 1 .. e - 1 : s[l] # c, e = Len(s) + 1 \/ s[e] = c
  PROVE  FieldBehind(s, c, k) = SubSeq(s, k + 1, e - 1)
<1>. DEFINE S == {l \in Separators(s, c) : l > k}
<1>0. Len(s) \in Nat
  BY TextType
<1>1. e \in S
  <2>1. e \in 0 .. Len(s) + 1 /\ e > k
    BY <1>0
  <2>. QED  BY <2>1, SeparatorsAre
<1>2. \A l \in S : e <= l
  <2>. SUFFICES ASSUME NEW l \in Separators(s, c), l > k, ~ (e <= l) PROVE FALSE
    OBVIOUS
  <2>1. l \in 0 .. Len(s) + 1 /\ (l = 0 \/ l = Len(s) + 1 \/ s[l] = c)
    BY SeparatorsAre
  <2>2. l \in k + 1 .. e - 1 /\ l # 0 /\ l # Len(s) + 1
    BY <1>0, <2>1
  <2>. QED  BY <2>1, <2>2
<1>3. S \in SUBSET Nat
  BY SeparatorsAre
<1>. HIDE DEF S
<1>4. Least(S) = e
  BY <1>1, <1>2, <1>3, LeastIs
<1>. QED  BY <1>4 DEF FieldBehind, S

\* A field is a text, and no longer than the one it is part of.
LEMMA FieldType ==
  ASSUME NEW s \in Texts, NEW c, NEW k \in 0 .. Len(s)
  PROVE  /\ FieldBehind(s, c, k) \in Texts /\ Len(FieldBehind(s, c, k)) <= Len(s)
         /\ Len(FieldBehind(s, c, k)) > 0 <=> (k < Len(s) /\ s[k + 1] # c)
         /\ FieldBehind(s, c, k) # <<>> <=> Len(FieldBehind(s, c, k)) > 0
<1>. DEFINE S == {l \in Separators(s, c) : l > k}
            e == Least(S)
            f == FieldBehind(s, c, k)
<1>0. Len(s) \in Nat
  BY TextType
<1>1. Len(s) + 1 \in S /\ S \in SUBSET Nat
  <2>1. Len(s) + 1 \in 0 .. Len(s) + 1 /\ Len(s) + 1 > k
    BY <1>0
  <2>. QED  BY <2>1, SeparatorsAre
<1>2. e \in S /\ \A l \in S : e <= l
  <2>. HIDE DEF S
  <2>. QED  BY <1>1, LeastNat
<1>3. f = SubSeq(s, k + 1, e - 1)
  BY DEF FieldBehind
<1>. HIDE DEF e, f
<1>4. e \in k + 1 .. Len(s) + 1 /\ (e = Len(s) + 1 \/ s[e] = c)
  <2>1. e > k /\ e \in 0 .. Len(s) + 1 /\ (e = 0 \/ e = Len(s) + 1 \/ s[e] = c)
    BY <1>2, SeparatorsAre
  <2>. QED  BY <1>0, <2>1
<1>5. f \in Texts /\ Len(f) = e - 1 - k
  <2>1. k + 1 \in 1 .. Len(s) + 1 /\ e - 1 \in k + 1 - 1 .. Len(s) /\ (e - 1) - (k + 1) + 1 = e - 1 - k
    BY <1>0, <1>4
  <2>2. f \in Texts /\ Len(f) = (e - 1) - (k + 1) + 1
    BY <1>3, <2>1, PartIs
  <2>. QED  BY <2>1, <2>2
<1>6. e = k + 1 <=> ~ (k < Len(s) /\ s[k + 1] # c)
  <2>1. ASSUME k < Len(s), s[k + 1] = c PROVE e = k + 1
    <3>1. k + 1 \in 0 .. Len(s) + 1 /\ k + 1 > k
      BY <1>0, <2>1
    <3>2. k + 1 \in S
      BY <2>1, <3>1, SeparatorsAre
    <3>3. e <= k + 1
      BY <1>2, <3>2
    <3>. QED  BY <1>0, <1>4, <3>3
  <2>2. ~ (k < Len(s)) => e = k + 1
    BY <1>0, <1>4
  <2>3. ASSUME e = k + 1, k < Len(s) PROVE s[k + 1] = c
    <3>1. e # Len(s) + 1
      BY <1>0, <2>3
    <3>. QED  BY <1>4, <2>3, <3>1
  <2>. QED  BY <2>1, <2>2, <2>3
<1>7. Len(f) > 0 <=> e # k + 1
  BY <1>0, <1>4, <1>5
<1>8. Len(f) <= Len(s)
  BY <1>0, <1>4, <1>5
<1>9. f # <<>> <=> Len(f) > 0
  <2>1. f \in Seq(Char)
    BY <1>5, TextType
  <2>2. \A q \in Seq(Char) : q # <<>> <=> Len(q) > 0
    OBVIOUS
  <2>. QED  BY <2>1, <2>2
<1>. QED  BY <1>5, <1>6, <1>7, <1>8, <1>9 DEF f

\* There are finitely many fields, and none begins at the end of the text.
LEMMA BeginsAre ==
  ASSUME NEW s \in Texts, NEW c
  PROVE  /\ Begins(s, c) \in SUBSET Nat /\ IsFiniteSet(Begins(s, c))
         /\ \A k : k \in Begins(s, c) <=> k \in 0 .. Len(s) /\ k < Len(s) /\ (k = 0 \/ s[k] = c) /\ s[k + 1] # c
<1>0. Len(s) \in Nat
  BY TextType
<1>1. \A k : k \in Begins(s, c) <=> k \in Separators(s, c) /\ k <= Len(s) /\ FieldBehind(s, c, k) # <<>>
  BY DEF Begins
<1>2. \A k : k \in Separators(s, c) /\ k <= Len(s) <=> k \in 0 .. Len(s) /\ (k = 0 \/ s[k] = c)
  <2>. TAKE k
  <2>1. k \in 0 .. Len(s) + 1 /\ k <= Len(s) <=> k \in 0 .. Len(s)
    BY <1>0
  <2>2. k \in 0 .. Len(s) => k # Len(s) + 1
    BY <1>0
  <2>. QED  BY <2>1, <2>2, SeparatorsAre
<1>3. \A k \in 0 .. Len(s) : FieldBehind(s, c, k) # <<>> <=> (k < Len(s) /\ s[k + 1] # c)
  BY FieldType
<1>4. \A k : k \in Begins(s, c) <=> k \in 0 .. Len(s) /\ k < Len(s) /\ (k = 0 \/ s[k] = c) /\ s[k + 1] # c
  BY <1>1, <1>2, <1>3
<1>5. Begins(s, c) \subseteq 0 .. Len(s) /\ 0 .. Len(s) \subseteq Nat
  BY <1>0, <1>4
<1>6. IsFiniteSet(0 .. Len(s))
  BY <1>0, FS_Interval
<1>. QED  BY <1>4, <1>5, <1>6, FS_Subset
-----------------------------------------------------------------------------
\* a is b but for the terminator at p.
NulAt(a, b, d, p) ==
  IsBuf(a, d) /\ \A k \in 0 .. d - 1 : a[k] = IF k = p THEN NUL ELSE b[k]

\* A NUL that is stored is the only difference.
LEMMA SetNulAt ==
  ASSUME NEW b, NEW d, IsBuf(b, d), NEW p \in Nat
  PROVE  NulAt(SetNul(b, p), b, d, p)
<1>1. IsBuf(SetNul(b, p), d)
  BY SetNulIs
<1>2. \A k \in 0 .. d - 1 : SetNul(b, p)[k] = IF k = p THEN NUL ELSE b[k]
  BY SetNulIs
<1>. QED  BY <1>1, <1>2, Zenon DEF NulAt

\* No field begins in any of these places.
NoneBegins(s, c, m, n) == \A k \in Begins(s, c) : ~ (m <= k /\ k <= n)

\* Where there is no separator no field begins.
LEMMA NoBegins ==
  ASSUME NEW s \in Texts, NEW c, NEW m \in Nat \ {0}, NEW n, \A k \in m .. n : s[k] # c
  PROVE  n \in Nat => NoneBegins(s, c, m, n)
<1>. SUFFICES ASSUME n \in Nat, NEW k \in Begins(s, c), m <= k, k <= n PROVE FALSE
  BY DEF NoneBegins
<1>1. k \in Nat /\ (k = 0 \/ s[k] = c)
  BY BeginsAre
<1>2. k # 0 /\ k \in m .. n
  BY <1>1
<1>. QED  BY <1>1, <1>2

\* The terminator of the field that begins at p is stored.
LEMMA CutFieldIs ==
  ASSUME NEW size \in Sizes, NEW b, IsBuf(b, size + Behind), Within(b, size),
         NEW s \in Texts, Len(s) < size, NEW p, Rest(b, s, p), NEW c,
         NEW e, e = strpbrk(b, p, {c})
  PROVE  \/ /\ e = NULL
            /\ Str(b, p) = FieldBehind(s, c, p) /\ NoneBegins(s, c, p + 1, Len(s))
         \/ /\ e # NULL /\ e \in p .. Len(s) - 1 /\ s[e + 1] = c
            /\ IsBuf(SetNul(b, e), size + Behind) /\ Within(SetNul(b, e), size)
            /\ Rest(SetNul(b, e), s, e + 1)
            /\ Str(SetNul(b, e), p) = FieldBehind(s, c, p) /\ NoneBegins(s, c, p + 1, e)
<1>. DEFINE d == size + Behind
            a == SetNul(b, e)
            f == FieldBehind(s, c, p)
<1>0. p \in 0 .. Len(s) /\ Len(s) \in Nat /\ size \in Nat /\ d \in Nat /\ Len(s) < d
  BY RestIs, TextType, TextSizes DEF Sizes
<1>1. IsBuf(b, d) /\ DOMAIN b = 0 .. d - 1
  <2>1. IsBuf(b, d)
    OBVIOUS
  <2>. HIDE DEF d
  <2>. QED  BY <2>1, BufDomain
<1>2. Rest(b, s, p)
  OBVIOUS
<1>. HIDE DEF d
<1>3. \/ e = NULL /\ \A k \in p + 1 .. Len(s) : s[k] # c
      \/ /\ e # NULL /\ e \in p .. Len(s) - 1 /\ s[e + 1] = c
         /\ \A k \in p + 1 .. e : s[k] # c
  <2>1. Hit(s, p, c, e)
    BY <1>1, <1>2, StrpbrkIs
  <2>. QED  BY <2>1, Zenon DEF Hit
<1>4. CASE e = NULL
  <2>1. ~ (e # NULL)
    BY <1>4
  <2>2. \A k \in p + 1 .. Len(s) : s[k] # c
    BY <1>3, <2>1
  <2>3. p + 1 \in Nat \ {0}
    BY <1>0
  <2>4. NoneBegins(s, c, p + 1, Len(s))
    BY <1>0, <2>2, <2>3, NoBegins
  <2>5. FieldBehind(s, c, p) = SubSeq(s, p + 1, Len(s))
    <3>. DEFINE z == Len(s) + 1
    <3>1. z \in p + 1 .. Len(s) + 1 /\ z - 1 = Len(s) /\ z = Len(s) + 1
      BY <1>0
    <3>. HIDE DEF z
    <3>. QED  BY <1>0, <2>2, <3>1, FieldIs
  <2>6. Str(b, p) = SubSeq(s, p + 1, Len(s))
    BY <1>1, RestIs
  <2>. QED  BY <1>4, <2>4, <2>5, <2>6
<1>5. CASE e # NULL
  <2>1. e \in p .. Len(s) - 1 /\ s[e + 1] = c /\ \A k \in p + 1 .. e : s[k] # c
    BY <1>3, <1>5
  <2>2. e \in Nat /\ p + 1 \in Nat \ {0} /\ e < size
    BY <1>0, <2>1
  <2>3. NoneBegins(s, c, p + 1, e)
    BY <2>1, <2>2, NoBegins
  <2>4. f = SubSeq(s, p + 1, e)
    <3>. DEFINE z == e + 1
    <3>1. z \in p + 1 .. Len(s) + 1 /\ z - 1 = e /\ z = e + 1
      BY <1>0, <2>1
    <3>. HIDE DEF z
    <3>2. FieldBehind(s, c, p) = SubSeq(s, p + 1, z - 1)
      BY <1>0, <2>1, <3>1, FieldIs
    <3>. QED  BY <3>1, <3>2
  <2>5. IsBuf(a, d) /\ \A k \in 0 .. d - 1 : a[k] = IF k = e THEN NUL ELSE b[k]
    <3>1. NulAt(a, b, d, e)
      BY <1>1, <2>2, SetNulAt
    <3>. QED  BY <3>1, Zenon DEF NulAt
  <2>. HIDE DEF a, f
  <2>6. DOMAIN a = 0 .. d - 1
    BY <2>5, BufDomain
  <2>7. Within(a, size)
    <3>. SUFFICES ASSUME NEW k \in 0 .. d - 1, k >= size PROVE a[k] = Untouched
      BY <2>6 DEF Within
    <3>1. k # e
      BY <1>0, <2>2
    <3>2. a[k] = b[k]
      BY <2>5, <3>1
    <3>. QED  BY <1>1, <3>2 DEF Within
  <2>8. b[Len(s)] = NUL /\ \A k \in p .. Len(s) - 1 : b[k] = s[k + 1]
    BY DEF Rest
  <2>9. \A k \in p .. Len(s) - 1 : k # e => a[k] = s[k + 1]
    <3>1. \A k \in p .. Len(s) - 1 : k \in 0 .. d - 1
      BY <1>0
    <3>. QED  BY <2>5, <2>8, <3>1
  <2>10. a[Len(s)] = NUL /\ a[e] = NUL
    <3>1. Len(s) \in 0 .. d - 1 /\ e \in 0 .. d - 1
      BY <1>0, <2>1
    <3>. QED  BY <2>5, <2>8, <3>1
  <2>11. Rest(a, s, e + 1)
    <3>1. e + 1 \in 0 .. Len(s) /\ Len(s) \in 0 .. d - 1 /\ \A k \in e + 1 .. Len(s) - 1 : k \in p .. Len(s) - 1 /\ k # e
      <4>1. e \in Nat /\ p \in Nat /\ p <= e /\ e < Len(s)
        BY <1>0, <2>1
      <4>2. e + 1 \in 0 .. Len(s) /\ Len(s) \in 0 .. d - 1
        BY <1>0, <4>1
      <4>3. ASSUME NEW k \in e + 1 .. Len(s) - 1 PROVE k \in p .. Len(s) - 1 /\ k # e
        BY <1>0, <4>1
      <4>. QED  BY <4>2, <4>3
    <3>. QED  BY <2>6, <2>9, <2>10, <3>1 DEF Rest
  <2>12. Str(a, p) = f
    <3>1. e - (p + 1) + 1 = e - p
      BY <1>0, <2>1
    <3>2. f \in Texts /\ Len(f) = e - (p + 1) + 1 /\ \A k \in 1 .. e - (p + 1) + 1 : f[k] = s[p + 1 + k - 1]
      <4>. DEFINE m == p + 1
      <4>1. m \in 1 .. Len(s) + 1 /\ e \in m - 1 .. Len(s) /\ f = SubSeq(s, m, e)
        <5>1. f = SubSeq(s, m, e)
          BY <2>4, Zenon
        <5>2. m \in 1 .. Len(s) + 1 /\ e \in m - 1 .. Len(s)
          BY <1>0, <2>1
        <5>. QED  BY <5>1, <5>2, Zenon
      <4>. HIDE DEF m
      <4>2. f \in Texts /\ Len(f) = e - m + 1
        BY <4>1, PartIs
      <4>3. \A k \in 1 .. e - m + 1 : f[k] = s[m + k - 1]
        BY <4>1, PartIs
      <4>. QED  BY <4>2, <4>3, Zenon DEF m
    <3>3. Len(f) = e - p
      BY <3>1, <3>2
    <3>4. p + Len(f) = e /\ e \in 0 .. d - 1
      BY <1>0, <2>1, <3>3
    <3>5. ASSUME NEW k \in 1 .. Len(f) PROVE a[p + k - 1] = f[k]
      <4>1. p + k - 1 \in p .. Len(s) - 1 /\ p + k - 1 # e /\ p + k - 1 + 1 = p + k /\ p + 1 + k - 1 = p + k /\ k \in 1 .. e - (p + 1) + 1
        BY <1>0, <2>1, <3>1, <3>3
      <4>2. a[p + k - 1] = s[p + k]
        BY <2>9, <4>1
      <4>. QED  BY <3>2, <4>1, <4>2
    <3>6. Holds(a, p, f)
      BY <2>6, <2>10, <3>4, <3>5 DEF Holds
    <3>7. p \in Nat
      BY <1>0
    <3>. QED  BY <2>5, <3>2, <3>6, <3>7, HoldsStr
  <2>. QED  BY <1>5, <2>1, <2>3, <2>5, <2>7, <2>11, <2>12 DEF a, d, f
<1>. QED  BY <1>4, <1>5
-----------------------------------------------------------------------------
\* Where strtok's next call begins: at the start, at the end, or behind a
\* separator.
Boundary(s, c, p) == p \in 0 .. Len(s) /\ (p = 0 \/ p = Len(s) \/ s[p] = c)

\* What a step over the fields leaves behind.
Ready(b, s, c, t, save, size) ==
  /\ IsBuf(b, size + Behind) /\ Within(b, size) /\ Rest(b, s, save) /\ Boundary(s, c, save)
  /\ t # NULL => /\ t \in 0 .. Len(s) /\ t < save /\ Str(b, t) = FieldBehind(s, c, t)
                 /\ NoneBegins(s, c, t + 1, save - 1)

\* strtok_r yields the next field, and leaves off where the one behind it may begin.
LEMMA TokIs ==
  ASSUME NEW size \in Sizes, NEW b, IsBuf(b, size + Behind), Within(b, size),
         NEW s \in Texts, Len(s) < size, NEW p, Rest(b, s, p), NEW c, c # NUL, Boundary(s, c, p),
         NEW r, r = strtok_r(b, p, {c})
  PROVE  /\ Ready(r.b, s, c, r.tok, r.save, size)
         /\ r.tok = NULL => NoneBegins(s, c, p, Len(s))
         /\ r.tok # NULL => r.tok \in Begins(s, c) /\ p <= r.tok /\ NoneBegins(s, c, p, r.tok - 1)
<1>. DEFINE d == size + Behind
            q == p + strspn(b, p, {c})
            e == strpbrk(b, q, {c})
<1>0. p \in 0 .. Len(s) /\ Len(s) \in Nat /\ size \in Nat /\ d \in Nat /\ Len(s) < d /\ (p = 0 \/ p = Len(s) \/ s[p] = c)
  BY RestIs, TextType, TextSizes DEF Sizes, Boundary
<1>1. r = Field(b, q, {c})
  BY DEF strtok_r
<1>2. q \in p .. Len(s) /\ (\A k \in p + 1 .. q : s[k] = c) /\ (q < Len(s) => s[q + 1] # c)
  <2>1. Past(s, p, c, q)
    BY StrspnIs
  <2>. QED  BY <2>1, Zenon DEF Past
<1>. HIDE DEF q
<1>3. q \in 0 .. Len(s)
  BY <1>0, <1>2
<1>4. q = Len(s) \/ q = 0 \/ s[q] = c
  <2>1. CASE q = p
    BY <1>0, <2>1
  <2>2. CASE q # p
    <3>1. q \in p + 1 .. q
      BY <1>0, <1>2, <2>2
    <3>. QED  BY <1>2, <3>1
  <2>. QED  BY <2>1, <2>2
<1>5. NoneBegins(s, c, p, q - 1)
  <2>. SUFFICES ASSUME NEW k \in Begins(s, c), p <= k, k <= q - 1 PROVE FALSE
    BY DEF NoneBegins
  <2>1. k \in 0 .. Len(s) /\ s[k + 1] # c
    BY BeginsAre
  <2>2. k + 1 \in p + 1 .. q
    BY <1>0, <1>2, <2>1
  <2>. QED  BY <1>2, <2>1, <2>2
<1>6. Rest(b, s, q)
  <2>1. \A k \in q .. Len(s) - 1 : k \in p .. Len(s) - 1
    BY <1>0, <1>2
  <2>. QED  BY <1>3, <2>1 DEF Rest
<1>7. b[Len(s)] = NUL /\ \A k \in p .. Len(s) - 1 : b[k] = s[k + 1]
  BY DEF Rest
<1>8. CASE q = Len(s)
  <2>1. r = [b |-> b, save |-> q, tok |-> NULL]
    BY <1>1, <1>7, <1>8 DEF Field
  <2>2. r.b = b /\ r.save = q /\ r.tok = NULL
    BY <2>1
  <2>3. NoneBegins(s, c, p, Len(s))
    <3>. SUFFICES ASSUME NEW k \in Begins(s, c), p <= k, k <= Len(s) PROVE FALSE
      BY DEF NoneBegins
    <3>1. k \in Nat /\ k < Len(s)
      BY BeginsAre
    <3>2. k <= q - 1
      BY <1>0, <1>8, <3>1
    <3>. QED  BY <1>5, <3>2 DEF NoneBegins
  <2>4. Boundary(s, c, q)
    BY <1>3, <1>8 DEF Boundary
  <2>. QED  BY <1>6, <2>2, <2>3, <2>4 DEF Ready
<1>9. CASE q # Len(s)
  <2>1. q < Len(s) /\ q \in p .. Len(s) - 1 /\ q + 1 \in 1 .. Len(s)
    BY <1>0, <1>2, <1>9
  <2>2. b[q] # NUL
    <3>1. b[q] = s[q + 1]
      BY <1>7, <2>1
    <3>. QED  BY <2>1, <3>1, TextType
  <2>3. r = IF e = NULL THEN [b |-> b, save |-> q + strlen(b, q), tok |-> q]
            ELSE [b |-> SetNul(b, e), save |-> e + 1, tok |-> q]
    BY <1>1, <2>2 DEF Field
  <2>. HIDE DEF e
  <2>4. q # NULL
    BY <1>3 DEF NULL
  <2>5. q \in Begins(s, c) /\ p <= q
    <3>1. q \in 0 .. Len(s) /\ q < Len(s) /\ (q = 0 \/ s[q] = c) /\ s[q + 1] # c
      BY <1>2, <1>3, <1>4, <1>9, <2>1
    <3>2. p <= q
      BY <1>0, <1>2
    <3>. QED  BY <3>1, <3>2, BeginsAre
  <2>6. \/ /\ e = NULL
           /\ Str(b, q) = FieldBehind(s, c, q) /\ NoneBegins(s, c, q + 1, Len(s))
        \/ /\ e # NULL /\ e \in q .. Len(s) - 1 /\ s[e + 1] = c
           /\ IsBuf(SetNul(b, e), size + Behind) /\ Within(SetNul(b, e), size)
           /\ Rest(SetNul(b, e), s, e + 1)
           /\ Str(SetNul(b, e), q) = FieldBehind(s, c, q) /\ NoneBegins(s, c, q + 1, e)
    BY <1>6, CutFieldIs DEF e
  <2>7. CASE e = NULL
    <3>1. r.b = b /\ r.save = q + strlen(b, q) /\ r.tok = q
      BY <2>3, <2>7
    <3>2. q + strlen(b, q) = Len(s)
      <4>1. strlen(b, q) = Len(s) - q
        BY <1>6, RestIs
      <4>. QED  BY <1>0, <1>3, <4>1
    <3>3. Rest(b, s, Len(s)) /\ Boundary(s, c, Len(s))
      <4>1. Len(s) \in 0 .. Len(s) /\ \A k : k \notin Len(s) .. Len(s) - 1
        BY <1>0
      <4>. QED  BY <4>1 DEF Rest, Boundary
    <3>4. NoneBegins(s, c, q + 1, Len(s) - 1)
      <4>1. NoneBegins(s, c, q + 1, Len(s))
        BY <2>6, <2>7
      <4>2. \A k \in Begins(s, c) : k <= Len(s) - 1 => k <= Len(s)
        BY <1>0, BeginsAre
      <4>. QED  BY <4>1, <4>2 DEF NoneBegins
    <3>5. Ready(b, s, c, q, Len(s), size)
      BY <1>3, <2>1, <2>6, <2>7, <3>3, <3>4 DEF Ready
    <3>. QED  BY <1>5, <2>4, <2>5, <3>1, <3>2, <3>5
  <2>8. CASE e # NULL
    <3>1. r.b = SetNul(b, e) /\ r.save = e + 1 /\ r.tok = q
      BY <2>3, <2>8
    <3>2. e \in q .. Len(s) - 1 /\ s[e + 1] = c /\ NoneBegins(s, c, q + 1, e)
      BY <2>6, <2>8
    <3>3. e + 1 \in 0 .. Len(s) /\ q < e + 1 /\ e + 1 - 1 = e
      BY <1>0, <1>3, <3>2
    <3>4. Boundary(s, c, e + 1)
      BY <3>2, <3>3 DEF Boundary
    <3>5. Ready(SetNul(b, e), s, c, q, e + 1, size)
      BY <1>3, <2>6, <2>8, <3>2, <3>3, <3>4 DEF Ready
    <3>. QED  BY <1>5, <2>4, <2>5, <3>1, <3>5
  <2>. QED  BY <2>7, <2>8
<1>. QED  BY <1>8, <1>9
-----------------------------------------------------------------------------
\* Counting up from 0.
LEMMA CountUp ==
  ASSUME NEW n \in Nat, NEW S, 0 \in S, \A k \in 1 .. n : k - 1 \in S => k \in S
  PROVE  0 .. n \subseteq S
<1>. DEFINE T == (0 .. n) \ S
<1>1. ASSUME T # {} PROVE FALSE
  <2>1. T \in SUBSET Nat
    OBVIOUS
  <2>. DEFINE m == Least(T)
  <2>2. m \in T /\ \A x \in T : m <= x
    <3>. HIDE DEF T
    <3>. QED  BY <1>1, <2>1, LeastNat
  <2>. HIDE DEF m
  <2>3. m \in 1 .. n /\ m - 1 \in 0 .. n /\ ~ (m <= m - 1)
    BY <2>2
  <2>4. m - 1 \in S
    BY <2>2, <2>3
  <2>. QED  BY <2>2, <2>3, <2>4
<1>. QED  BY <1>1

\* memmove to the front, by two bytes.
LEMMA MemmoveIs ==
  ASSUME NEW b, NEW d, IsBuf(b, d), NEW n \in Nat, n + 2 <= d
  PROVE  memmove(b, 0, 2, n) = [x \in 0 .. d - 1 |-> IF x < n THEN b[x + 2] ELSE b[x]]
<1>. DEFINE Round(f, k) == LET at == IF 2 > 0 THEN k - 1 ELSE n - k
                           IN [f[k - 1] EXCEPT ![0 + at] = f[k - 1][2 + at]]
            Is(f) == f = [k \in 0 .. n |-> IF k = 0 THEN b ELSE Round(f, k)]
            moved == CHOOSE f : Is(f)
            Part(k) == [x \in 0 .. d - 1 |-> IF x < k THEN b[x + 2] ELSE b[x]]
            F == [k \in 0 .. n |-> Part(k)]
<1>0. d \in Nat /\ DOMAIN b = 0 .. d - 1 /\ b = [x \in 0 .. d - 1 |-> b[x]]
  BY BufDomain DEF IsBuf
<1>1. Part(0) = b
  <2>1. \A x \in 0 .. d - 1 : ~ (x < 0)
    BY <1>0
  <2>. QED  BY <1>0, <2>1
<1>2. ASSUME NEW f, NEW k \in 1 .. n, f[k - 1] = Part(k - 1) PROVE Round(f, k) = Part(k)
  <2>. DEFINE g == Part(k - 1)
  <2>1. k - 1 \in 0 .. d - 1 /\ k + 1 \in 0 .. d - 1 /\ ~ (k + 1 < k - 1) /\ 2 + (k - 1) = k + 1 /\ 0 + (k - 1) = k - 1 /\ k \in Nat
    BY <1>0
  <2>2. Round(f, k) = [g EXCEPT ![k - 1] = g[k + 1]]
    <3>1. Round(f, k) = [f[k - 1] EXCEPT ![0 + (k - 1)] = f[k - 1][2 + (k - 1)]]
      OBVIOUS
    <3>. HIDE DEF g, Part, Round
    <3>2. f[k - 1] = g
      BY <1>2 DEF g
    <3>. QED  BY <2>1, <3>1, <3>2
  <2>3. g[k + 1] = b[k + 1]
    BY <2>1
  <2>4. DOMAIN g = 0 .. d - 1 /\ \A x \in 0 .. d - 1 : g[x] = IF x < k - 1 THEN b[x + 2] ELSE b[x]
    OBVIOUS
  <2>. HIDE DEF g, Round
  <2>5. [g EXCEPT ![k - 1] = g[k + 1]] = [x \in 0 .. d - 1 |-> IF x = k - 1 THEN b[k + 1] ELSE g[x]]
    BY <2>3, <2>4
  <2>6. \A x \in 0 .. d - 1 : (IF x = k - 1 THEN b[k + 1] ELSE g[x]) = IF x < k THEN b[x + 2] ELSE b[x]
    <3>. TAKE x \in 0 .. d - 1
    <3>1. CASE x = k - 1
      <4>1. x < k /\ x + 2 = k + 1
        BY <2>1, <3>1
      <4>. QED  BY <3>1, <4>1
    <3>2. CASE x # k - 1
      <4>1. x < k <=> x < k - 1
        BY <1>0, <2>1, <3>2
      <4>. QED  BY <2>4, <3>2, <4>1
    <3>. QED  BY <3>1, <3>2
  <2>. QED  BY <2>2, <2>5, <2>6
<1>. HIDE DEF Round, Part
<1>3. Is(F)
  <2>1. ASSUME NEW k \in 0 .. n PROVE F[k] = IF k = 0 THEN b ELSE Round(F, k)
    <3>1. CASE k = 0
      BY <1>1, <3>1
    <3>2. CASE k # 0
      <4>1. k \in 1 .. n /\ k - 1 \in 0 .. n
        BY <3>2
      <4>2. F[k - 1] = Part(k - 1)
        BY <4>1
      <4>3. Round(F, k) = Part(k)
        BY <1>2, <4>1, <4>2
      <4>. QED  BY <3>2, <4>3
    <3>. QED  BY <3>1, <3>2
  <2>. QED  BY <2>1
<1>4. Is(moved)
  <2>. HIDE DEF Is
  <2>. QED  BY <1>3
<1>5. memmove(b, 0, 2, n) = moved[n]
  BY DEF memmove, Round
<1>. HIDE DEF moved, F
<1>. DEFINE S == {k \in 0 .. n : moved[k] = Part(k)}
<1>6. 0 .. n \subseteq S
  <2>1. 0 \in S
    BY <1>1, <1>4
  <2>2. ASSUME NEW k \in 1 .. n, k - 1 \in S PROVE k \in S
    <3>1. k \in 0 .. n /\ k # 0
      OBVIOUS
    <3>2. moved[k] = Round(moved, k)
      BY <1>4, <3>1
    <3>3. Round(moved, k) = Part(k)
      BY <1>2, <2>2
    <3>. QED  BY <3>1, <3>2, <3>3
  <2>. HIDE DEF S
  <2>. QED  BY <2>1, <2>2, CountUp
<1>7. moved[n] = Part(n)
  BY <1>6
<1>. QED  BY <1>5, <1>7 DEF Part

\* fs_open's name of an entry.
Stripped(n) == IF IsPrefix(<<DOT, SLASH>>, n) THEN SubSeq(n, 3, Len(n)) ELSE n

\* The first two of a sequence.
LEMMA FirstTwo ==
  ASSUME NEW T, NEW t \in Seq(T), Len(t) >= 2, NEW x, NEW y, x = t[1], y = t[2]
  PROVE  SubSeq(t, 1, 2) = <<x, y>>
<1>. DEFINE a == SubSeq(t, 1, 2)
            S == {x, y}
            u == <<x, y>>
<1>1. a \in Seq(T) /\ Len(a) = 2 /\ a[1] = t[1] /\ a[2] = t[2]
  OBVIOUS
<1>. HIDE DEF a
<1>2. u \in Seq(S) /\ Len(u) = 2 /\ u[1] = x /\ u[2] = y
  OBVIOUS
<1>. HIDE DEF u, S
<1>3. \A k \in 1 .. 2 : a[k] = u[k]
  BY <1>1, <1>2
<1>4. a = u
  BY <1>1, <1>2, <1>3
<1>. QED  BY <1>4 DEF a, u

\* What begins with ./ does so in its first two characters.
LEMMA DotSlash ==
  ASSUME NEW n \in Texts
  PROVE  IsPrefix(<<DOT, SLASH>>, n) <=> Len(n) >= 2 /\ n[1] = DOT /\ n[2] = SLASH
<1>. DEFINE t == <<DOT, SLASH>>
<1>0. n \in Seq(Char) /\ Len(n) \in Nat /\ Len(t) = 2 /\ t[1] = DOT /\ t[2] = SLASH
  BY TextType
<1>1. SubSeq(t, 1, 2) = t
  <2>1. t \in Seq({DOT, SLASH})
    OBVIOUS
  <2>2. Len(t) >= 2
    BY <1>0
  <2>3. \A x, y : x = t[1] /\ y = t[2] => SubSeq(t, 1, 2) = <<x, y>>
    <3>. HIDE DEF t
    <3>. QED  BY <2>1, <2>2, FirstTwo
  <2>. QED  BY <1>0, <2>3, Zenon
<1>2. ASSUME Len(n) >= 2 PROVE SubSeq(n, 1, 2) = <<n[1], n[2]>>
  BY <1>0, <1>2, FirstTwo
<1>3. IsPrefix(t, n) <=> 2 <= Len(n) /\ t = SubSeq(n, 1, 2)
  BY <1>0, <1>1, Zenon DEF IsPrefix
<1>4. \A x, y : <<DOT, SLASH>> = <<x, y>> <=> x = DOT /\ y = SLASH
  OBVIOUS
<1>5. Len(n) >= 2 <=> 2 <= Len(n)
  BY <1>0
<1>. QED  BY <1>2, <1>3, <1>4, <1>5, Zenon

\* The name of an entry is within its buffer, and is the entry without its ./ .
LEMMA StripIs ==
  ASSUME NEW entry \in Texts, NEW b, b = CopyCut(NameSize, entry), NEW len, len = strlen(b, 0),
         NEW r, r = IF len >= 2 /\ b[0] = DOT /\ b[1] = SLASH
                    THEN SetNul(memmove(b, 0, 2, len - 1), len - 2) ELSE b
  PROVE  /\ Within(r, NameSize) /\ \E k \in 0 .. NameSize - 1 : r[k] = NUL
         /\ Str(r, 0) = Stripped(Cut(entry, NameSize))
<1>. DEFINE size == NameSize
            d == size + Behind
            n == Cut(entry, size)
<1>0. size \in Sizes /\ size \in Nat /\ d \in Nat /\ size <= d /\ 0 \in Nat
  BY TextSizes, TextType
<1>1. IsBuf(b, d) /\ Within(b, size) /\ Holds(b, 0, n) /\ n \in Texts /\ Len(n) < size
  BY <1>0, CopyCutIs
<1>. HIDE DEF n
<1>2. Len(n) \in Nat /\ DOMAIN b = 0 .. d - 1
  BY <1>1, TextType, BufDomain
<1>3. len = Len(n) /\ Str(b, 0) = n
  BY <1>0, <1>1, HoldsStr
<1>. HIDE DEF d
<1>4. \A k \in 1 .. Len(n) : b[k - 1] = n[k]
  <2>. TAKE k \in 1 .. Len(n)
  <2>1. b[0 + k - 1] = n[k]
    BY <1>1 DEF Holds
  <2>2. 0 + k - 1 = k - 1
    BY <1>2
  <2>. QED  BY <2>1, <2>2
<1>5. b[Len(n)] = NUL
  <2>1. 0 + Len(n) = Len(n)
    BY <1>2
  <2>. QED  BY <1>1, <2>1 DEF Holds
<1>6. Len(n) >= 2 => b[0] = n[1] /\ b[1] = n[2]
  <2>. SUFFICES ASSUME Len(n) >= 2 PROVE b[0] = n[1] /\ b[1] = n[2]
    OBVIOUS
  <2>1. 1 \in 1 .. Len(n) /\ 2 \in 1 .. Len(n) /\ 1 - 1 = 0 /\ 2 - 1 = 1
    BY <1>2
  <2>. QED  BY <1>4, <2>1
<1>. DEFINE P == Len(n) >= 2 /\ n[1] = DOT /\ n[2] = SLASH
<1>7. P <=> len >= 2 /\ b[0] = DOT /\ b[1] = SLASH
  BY <1>3, <1>6
<1>8. P <=> IsPrefix(<<DOT, SLASH>>, n)
  BY <1>1, DotSlash
<1>9. CASE ~ P
  <2>. HIDE DEF P
  <2>1. r = b
    BY <1>7, <1>9
  <2>2. Stripped(n) = n
    BY <1>8, <1>9, Zenon DEF Stripped
  <2>3. \E k \in 0 .. size - 1 : b[k] = NUL
    <3>1. Len(n) \in 0 .. size - 1
      BY <1>0, <1>1, <1>2
    <3>. QED  BY <1>5, <3>1
  <2>. QED  BY <1>1, <1>3, <2>1, <2>2, <2>3 DEF n
<1>10. CASE P
  <2>. DEFINE m == Len(n) - 1
              z == Len(n) - 2
              a == [x \in 0 .. d - 1 |-> IF x < m THEN b[x + 2] ELSE b[x]]
              u == SubSeq(n, 3, Len(n))
  <2>1. m \in Nat /\ z \in Nat /\ z < m /\ m < size /\ m + 2 <= d /\ Len(n) >= 2 /\ m + 2 = Len(n) + 1 /\ z + 2 = Len(n)
    BY <1>0, <1>1, <1>2, <1>10
  <2>2. r = SetNul(memmove(b, 0, 2, m), z)
    BY <1>3, <1>7, <1>10
  <2>. HIDE DEF m, z, P
  <2>3. memmove(b, 0, 2, m) = a
    BY <1>1, <2>1, MemmoveIs DEF d
  <2>4. IsBuf(a, d)
    <3>1. \A x \in 0 .. d - 1 : b[x] \in Char
      BY <1>1, BufDomain DEF d
    <3>2. \A x \in 0 .. d - 1 : x < m => x + 2 \in 0 .. d - 1
      <4>1. d \in Nat
        BY <1>0 DEF d
      <4>. QED  BY <2>1, <4>1
    <3>3. \A x \in 0 .. d - 1 : (IF x < m THEN b[x + 2] ELSE b[x]) \in Char
      BY <3>1, <3>2
    <3>4. d \in Nat
      BY <1>0 DEF d
    <3>. QED  BY <3>3, <3>4 DEF IsBuf
  <2>5. \A x \in 0 .. d - 1 : a[x] = IF x < m THEN b[x + 2] ELSE b[x]
    OBVIOUS
  <2>. HIDE DEF a
  <2>6. NulAt(r, a, d, z)
    <3>1. r = SetNul(a, z)
      BY <2>2, <2>3
    <3>. QED  BY <2>1, <2>4, <3>1, SetNulAt
  <2>7. IsBuf(r, d) /\ \A x \in 0 .. d - 1 : r[x] = IF x = z THEN NUL ELSE a[x]
    BY <2>6, Zenon DEF NulAt
  <2>8. DOMAIN r = 0 .. d - 1
    BY <2>7, BufDomain
  <2>9. d \in Nat /\ size <= d
    BY <1>0 DEF d
  <2>10. Within(r, size)
    <3>. SUFFICES ASSUME NEW k \in 0 .. d - 1, k >= size PROVE r[k] = Untouched
      BY <2>8 DEF Within
    <3>1. k # z /\ ~ (k < m)
      BY <1>0, <2>1
    <3>2. r[k] = b[k]
      BY <2>5, <2>7, <3>1
    <3>. QED  BY <1>1, <1>2, <3>2 DEF Within, d
  <2>11. z \in 0 .. size - 1 /\ z \in 0 .. d - 1 /\ r[z] = NUL
    <3>1. z \in 0 .. size - 1 /\ z \in 0 .. d - 1
      BY <1>0, <2>1, <2>9
    <3>. QED  BY <2>7, <3>1
  <2>12. u \in Texts /\ Len(u) = z /\ \A k \in 1 .. z : u[k] = n[k + 2]
    <3>1. 3 \in 1 .. Len(n) + 1 /\ Len(n) \in 3 - 1 .. Len(n) /\ Len(n) - 3 + 1 = z
      BY <1>2, <2>1
    <3>2. u \in Texts /\ Len(u) = Len(n) - 3 + 1
      BY <1>1, <3>1, PartIs
    <3>3. \A k \in 1 .. Len(n) - 3 + 1 : u[k] = n[3 + k - 1]
      BY <1>1, <3>1, PartIs
    <3>4. \A k \in 1 .. z : 3 + k - 1 = k + 2
      BY <2>1
    <3>. QED  BY <3>1, <3>2, <3>3, <3>4
  <2>. HIDE DEF u
  <2>13. ASSUME NEW k \in 1 .. Len(u) PROVE r[0 + k - 1] = u[k]
    <3>0. 0 + k - 1 = k - 1 /\ k - 1 \in 0 .. d - 1 /\ k - 1 # z /\ k - 1 < m /\ k - 1 + 2 = k + 1 /\ k + 2 \in 1 .. Len(n) /\ k + 2 - 1 = k + 1 /\ k \in 1 .. z
      BY <1>2, <2>1, <2>9, <2>12
    <3>1. r[k - 1] = a[k - 1]
      BY <2>7, <3>0
    <3>2. a[k - 1] = b[k + 1]
      BY <2>5, <3>0
    <3>3. b[k + 2 - 1] = n[k + 2]
      BY <1>4, <3>0
    <3>. QED  BY <2>12, <3>0, <3>1, <3>2, <3>3
  <2>14. Holds(r, 0, u)
    <3>1. 0 + Len(u) = z
      BY <2>1, <2>12
    <3>. QED  BY <2>8, <2>11, <2>13, <3>1 DEF Holds
  <2>15. Str(r, 0) = u
    BY <1>0, <2>7, <2>12, <2>14, HoldsStr
  <2>16. Stripped(n) = u
    BY <1>8, <1>10, Zenon DEF Stripped, u
  <2>. QED  BY <2>10, <2>11, <2>15, <2>16 DEF n
<1>. QED  BY <1>9, <1>10
-----------------------------------------------------------------------------
\* The fields that begin before a place.
Upto(s, c, u) == {k \in Begins(s, c) : k < u}

\* All fields begin before the end of the text.
LEMMA UptoIs ==
  ASSUME NEW s \in Texts, NEW c, NEW u \in Nat
  PROVE  /\ Upto(s, c, u) \in SUBSET Nat /\ IsFiniteSet(Upto(s, c, u))
         /\ \A k \in Upto(s, c, u) : k < u
         /\ Upto(s, c, u) \subseteq Begins(s, c)
         /\ u >= Len(s) => Upto(s, c, u) = Begins(s, c)
<1>1. Begins(s, c) \in SUBSET Nat /\ IsFiniteSet(Begins(s, c)) /\ \A k \in Begins(s, c) : k < Len(s)
  BY BeginsAre
<1>2. Upto(s, c, u) \subseteq Begins(s, c) /\ \A k \in Upto(s, c, u) : k < u
  BY DEF Upto
<1>3. IsFiniteSet(Upto(s, c, u))
  BY <1>1, <1>2, FS_Subset
<1>4. ASSUME u >= Len(s) PROVE Upto(s, c, u) = Begins(s, c)
  <2>1. Len(s) \in Nat
    BY TextType
  <2>2. \A k \in Begins(s, c) : k < u
    BY <1>1, <1>4, <2>1
  <2>. QED  BY <2>2 DEF Upto
<1>. QED  BY <1>1, <1>2, <1>3, <1>4

\* From a place to the next there is one more field, if it begins there.
LEMMA VisitStep ==
  ASSUME NEW s \in Texts, NEW c, NEW G, NEW t \in Nat, NEW u \in Nat, t < u, NoneBegins(s, c, t + 1, u - 1)
  PROVE  /\ t \in Begins(s, c) => At(G, Upto(s, c, u)) = Append(At(G, Upto(s, c, t)), G[t])
         /\ t \notin Begins(s, c) => At(G, Upto(s, c, u)) = At(G, Upto(s, c, t))
<1>1. \A k \in Begins(s, c) : k < u <=> k < t \/ k = t
  <2>. TAKE k \in Begins(s, c)
  <2>1. k \in Nat
    BY BeginsAre
  <2>2. ~ (t + 1 <= k /\ k <= u - 1)
    BY DEF NoneBegins
  <2>. QED  BY <2>1, <2>2
<1>2. CASE t \in Begins(s, c)
  <2>. DEFINE S == Upto(s, c, t)
  <2>1. Upto(s, c, u) = S \cup {t}
    BY <1>1, <1>2 DEF Upto
  <2>2. S \in SUBSET Nat /\ IsFiniteSet(S) /\ \A k \in S : k < t
    BY UptoIs
  <2>. HIDE DEF S
  <2>3. At(G, S \cup {t}) = Append(At(G, S), G[t])
    BY <2>2, AtGrows
  <2>. QED  BY <1>2, <2>1, <2>3 DEF S
<1>3. CASE t \notin Begins(s, c)
  <2>1. \A k \in Begins(s, c) : k # t
    BY <1>3
  <2>2. Upto(s, c, u) = Upto(s, c, t)
    BY <1>1, <2>1, Zenon DEF Upto
  <2>. QED  BY <1>3, <2>2
<1>. QED  BY <1>2, <1>3

\* Before the first field nothing was looked up.
LEMMA NoVisit ==
  ASSUME NEW s \in Texts, NEW c, NEW G, NEW p \in Nat, NEW u \in Nat, NoneBegins(s, c, p, u - 1),
         \A k \in Begins(s, c) : p <= k
  PROVE  At(G, Upto(s, c, u)) = <<>>
<1>1. \A k \in Begins(s, c) : ~ (k < u)
  <2>. TAKE k \in Begins(s, c)
  <2>1. k \in Nat /\ p <= k
    BY BeginsAre
  <2>2. ~ (p <= k /\ k <= u - 1)
    BY DEF NoneBegins
  <2>. QED  BY <2>1, <2>2
<1>2. Upto(s, c, u) = {}
  BY <1>1 DEF Upto
<1>. QED  BY <1>2, AtNone

\* No field in two parts, none in the whole.
LEMMA JoinNone ==
  ASSUME NEW s \in Texts, NEW c, NEW m \in Nat, NEW n \in Nat, NEW u \in Nat, m <= n,
         NoneBegins(s, c, m, n - 1), NoneBegins(s, c, n, u)
  PROVE  NoneBegins(s, c, m, u)
<1>. SUFFICES ASSUME NEW k \in Begins(s, c), m <= k, k <= u PROVE FALSE
  BY DEF NoneBegins
<1>1. k \in Nat
  BY BeginsAre
<1>2. ~ (k <= n - 1) /\ ~ (n <= k)
  BY DEF NoneBegins
<1>. QED  BY <1>1, <1>2

\* What was looked up so far comes first in all there is.
LEMMA PrefixIs ==
  ASSUME NEW s \in Texts, NEW c, NEW G, NEW u \in Nat
  PROVE  IsPrefix(At(G, Upto(s, c, u)), At(G, Begins(s, c)))
<1>. DEFINE S == Upto(s, c, u)
            T == Begins(s, c)
            a == At(G, S)
            b == At(G, T)
            V == {G[k] : k \in T}
<1>1. T \in SUBSET Nat /\ IsFiniteSet(T)
  BY BeginsAre
<1>2. S \in SUBSET T /\ S \in SUBSET Nat /\ IsFiniteSet(S)
  BY UptoIs
<1>3. \A k \in S, l \in T \ S : k < l
  <2>1. \A k \in S : k < u
    BY DEF Upto
  <2>2. \A l \in T \ S : ~ (l < u)
    BY DEF Upto
  <2>. QED  BY <1>1, <1>2, <2>1, <2>2
<1>. HIDE DEF S, T
<1>4. Cardinality(S) \in Nat /\ Cardinality(T) \in Nat /\ Cardinality(S) <= Cardinality(T)
      /\ a = SubSeq(b, 1, Cardinality(S))
  <2>. HIDE DEF V
  <2>1. Cardinality(S) \in Nat /\ Cardinality(T) \in Nat /\ Cardinality(S) <= Cardinality(T)
    BY <1>1, <1>2, <1>3, AtPrefix
  <2>2. a = SubSeq(b, 1, Cardinality(S))
    BY <1>1, <1>2, <1>3, AtPrefix
  <2>. QED  BY <2>1, <2>2
<1>5. a \in Seq(V) /\ Len(a) = Cardinality(S)
  BY <1>2, AtType, SMTT(30)
<1>6. b \in Seq(V) /\ Len(b) = Cardinality(T)
  BY <1>1, AtType
<1>. HIDE DEF a, b, V
<1>7. SubSeq(a, 1, Len(a)) = a
  BY <1>5
<1>8. IsPrefix(a, b)
  BY <1>4, <1>5, <1>6, <1>7, Zenon DEF IsPrefix
<1>. QED  BY <1>8 DEF a, b, S, T
-----------------------------------------------------------------------------
\* The field that the walk is at.
WalkReady(b, s, t, save) ==
  /\ IsBuf(b, FS_MAX_PATH + Behind) /\ Within(b, FS_MAX_PATH)
  /\ t \in 0 .. Len(s) - 1 /\ (t = 0 \/ s[t] = SLASH) /\ Str(b, t) = FieldBehind(s, SLASH, t)
  /\ save = NULL => NoneBegins(s, SLASH, t + 1, Len(s))
  /\ save # NULL => /\ Rest(b, s, save) /\ s[save] = SLASH /\ save \in t + 1 .. Len(s)
                    /\ NoneBegins(s, SLASH, t + 1, save - 1)

\* The walk's component is the field behind a slash, which may be empty.
LEMMA ComponentIs ==
  ASSUME NEW s \in Texts, Len(s) < FS_MAX_PATH, NEW b, IsBuf(b, FS_MAX_PATH + Behind), Within(b, FS_MAX_PATH),
         NEW p, Rest(b, s, p), p < Len(s), p = 0 \/ s[p] = SLASH, NEW r, r = Component(b, p)
  PROVE  r.tok = p /\ r.tok # NULL /\ WalkReady(r.b, s, r.tok, r.save)
<1>. DEFINE size == FS_MAX_PATH
            e == strpbrk(b, p, {SLASH})
<1>0. size \in Sizes /\ Len(s) \in Nat /\ p \in 0 .. Len(s) /\ p \in 0 .. Len(s) - 1
  BY TextSizes, TextType DEF Rest
<1>1. r = IF e = NULL THEN [b |-> b, save |-> NULL, tok |-> p]
          ELSE [b |-> SetNul(b, e), save |-> e + 1, tok |-> p]
  BY DEF Component
<1>. HIDE DEF e
<1>2. \/ /\ e = NULL
         /\ Str(b, p) = FieldBehind(s, SLASH, p) /\ NoneBegins(s, SLASH, p + 1, Len(s))
      \/ /\ e # NULL /\ e \in p .. Len(s) - 1 /\ s[e + 1] = SLASH
         /\ IsBuf(SetNul(b, e), size + Behind) /\ Within(SetNul(b, e), size)
         /\ Rest(SetNul(b, e), s, e + 1)
         /\ Str(SetNul(b, e), p) = FieldBehind(s, SLASH, p) /\ NoneBegins(s, SLASH, p + 1, e)
  BY <1>0, CutFieldIs DEF e
<1>3. p # NULL
  BY <1>0 DEF NULL
<1>4. CASE e = NULL
  <2>1. r.b = b /\ r.save = NULL /\ r.tok = p
    BY <1>1, <1>4
  <2>2. WalkReady(b, s, p, NULL)
    BY <1>0, <1>2, <1>4 DEF WalkReady
  <2>. QED  BY <1>3, <2>1, <2>2
<1>5. CASE e # NULL
  <2>1. r.b = SetNul(b, e) /\ r.save = e + 1 /\ r.tok = p
    BY <1>1, <1>5
  <2>2. e \in p .. Len(s) - 1 /\ s[e + 1] = SLASH /\ NoneBegins(s, SLASH, p + 1, e) /\ Rest(SetNul(b, e), s, e + 1)
        /\ IsBuf(SetNul(b, e), size + Behind) /\ Within(SetNul(b, e), size) /\ Str(SetNul(b, e), p) = FieldBehind(s, SLASH, p)
    BY <1>2, <1>5, Zenon
  <2>3. e + 1 \in p + 1 .. Len(s) /\ e + 1 - 1 = e /\ e + 1 # NULL
    BY <1>0, <2>2 DEF NULL
  <2>4. WalkReady(SetNul(b, e), s, p, e + 1)
    BY <1>0, <2>2, <2>3 DEF WalkReady
  <2>. QED  BY <1>3, <2>1, <2>4
<1>. QED  BY <1>4, <1>5

\* An empty component is where no field begins; any other is one.
LEMMA EmptyIs ==
  ASSUME NEW s \in Texts, Len(s) < FS_MAX_PATH, NEW b, NEW t, NEW save, WalkReady(b, s, t, save)
  PROVE  /\ t \in 0 .. Len(s) - 1 /\ Len(s) \in Nat
         /\ b[t] = NUL <=> t \notin Begins(s, SLASH)
<1>. DEFINE d == FS_MAX_PATH + Behind
            f == FieldBehind(s, SLASH, t)
<1>0. IsBuf(b, d) /\ t \in 0 .. Len(s) - 1 /\ (t = 0 \/ s[t] = SLASH) /\ Str(b, t) = f /\ Len(s) \in Nat
  BY TextType DEF WalkReady
<1>1. t \in 0 .. d /\ t < d /\ t \in 0 .. Len(s) /\ t < Len(s)
  BY <1>0, TextSizes
<1>. HIDE DEF d
<1>2. Len(f) > 0 <=> s[t + 1] # SLASH
  <2>1. Len(f) > 0 <=> (t < Len(s) /\ s[t + 1] # SLASH)
    BY <1>1, FieldType
  <2>. QED  BY <1>1, <2>1
<1>3. t \in Begins(s, SLASH) <=> s[t + 1] # SLASH
  BY <1>0, <1>1, BeginsAre
<1>. HIDE DEF f
<1>4. Len(f) = strlen(b, t)
  BY <1>0, <1>1, StrIs
<1>5. strlen(b, t) \in 0 .. d - t /\ (\A k \in t .. t + strlen(b, t) - 1 : b[k] # NUL)
      /\ (t + strlen(b, t) < d => b[t + strlen(b, t)] = NUL)
  BY <1>0, <1>1, StrlenIs
<1>. DEFINE n == strlen(b, t)
<1>. HIDE DEF n
<1>6. n \in Nat /\ t \in Nat
  <2>1. d \in Nat
    BY <1>0, BufDomain
  <2>. QED  BY <1>0, <1>1, <1>5, <2>1 DEF n
<1>7. n > 0 => b[t] # NUL
  <2>. SUFFICES ASSUME n > 0 PROVE b[t] # NUL
    OBVIOUS
  <2>1. t \in t .. t + n - 1
    BY <1>6
  <2>. QED  BY <1>5, <2>1 DEF n
<1>8. ~ (n > 0) => b[t] = NUL
  <2>. SUFFICES ASSUME ~ (n > 0) PROVE b[t] = NUL
    OBVIOUS
  <2>1. n = 0 /\ t + n = t
    BY <1>6
  <2>. QED  BY <1>1, <1>5, <2>1 DEF n
<1>. QED  BY <1>0, <1>2, <1>3, <1>4, <1>7, <1>8 DEF n
-----------------------------------------------------------------------------
\* There is a terminator.
HasNul(b, size) == \E k \in 0 .. size - 1 : b[k] = NUL

\* What is searched and tried, of the texts g that the operation was given.
Searched(g) == Cut(g[1], PathSize)
Tried(g) == [k \in Begins(Searched(g), COLON) |->
               Cut(Joined(FieldBehind(Searched(g), COLON, k), g[2]), PathSize)]

\* What is walked, and the names that are looked up.
Walked(g) == Cut(Target(g[1], g[2]), FS_MAX_PATH)
LookedUp(g) == [k \in Begins(Walked(g), SLASH) |-> FieldBehind(Walked(g), SLASH, k)]

\* The search: what is left of paths_copy, and what was tried.
SearchState(g, b, save, t, o, v) ==
  /\ g[1] \in Texts /\ g[2] \in Texts
  /\ Ready(b, Searched(g), COLON, t, save, PathSize)
  /\ t = NULL => v = At(Tried(g), Begins(Searched(g), COLON))
  /\ t # NULL => t \in Begins(Searched(g), COLON) /\ v = At(Tried(g), Upto(Searched(g), COLON, t))
  /\ v # <<>> => Within(o, PathSize) /\ HasNul(o, PathSize)

\* The walk: what cd was given, what abs_path holds of it, what is left of
\* path_copy, and what was looked up.
WalkState(g, b, save, t, o, v) ==
  /\ g[1] \in Texts /\ g[2] \in Texts
  /\ 0 < Len(g[1]) /\ Len(g[1]) < FS_MAX_PATH /\ 0 < Len(g[2])
  /\ IsBuf(o, FS_MAX_PATH + Behind) /\ Cut(Str(o, 0), FS_MAX_PATH) = Walked(g)
  /\ ~ NoPlace(g[1], g[2]) => Within(o, FS_MAX_PATH) /\ HasNul(o, FS_MAX_PATH)
  /\ t = NULL => v = At(LookedUp(g), Begins(Walked(g), SLASH))
  /\ t # NULL => WalkReady(b, Walked(g), t, save) /\ v = At(LookedUp(g), Upto(Walked(g), SLASH, t))

\* The strip: the name that was made.
StripState(g, o) ==
  Within(o, NameSize) /\ HasNul(o, NameSize) /\ Str(o, 0) = Stripped(Cut(g[1], NameSize))

\* fs.current_dir, which is never empty.
InDir(w) == w \in Texts /\ 0 < Len(w) /\ Len(w) < FS_MAX_PATH

\* What an operation has done so far, whichever is going on.
TextInv ==
  /\ doing \in {"idle", "search", "walk", "strip"}
  /\ InDir(current_dir)
  /\ doing = "search" => SearchState(given, copy, saveptr, tok, out, visited)
  /\ doing = "walk" => WalkState(given, copy, saveptr, tok, out, visited)
  /\ doing = "strip" => StripState(given, out)

\* paths_copy holds PATH as far as it fits.
LEMMA SearchedIs ==
  ASSUME NEW x \in Texts
  PROVE  Cut(x, PathSize) \in Texts /\ Len(Cut(x, PathSize)) < PathSize /\ PathSize \in Sizes
<1>1. PathSize \in Sizes
  BY TextSizes
<1>. QED  BY <1>1, CutText

\* cd's path is not empty.
LEMMA WalkedIs ==
  ASSUME NEW w \in Texts, 0 < Len(w), NEW path \in Texts, 0 < Len(path)
  PROVE  /\ Target(w, path) \in Texts /\ Len(Cut(Target(w, path), FS_MAX_PATH)) > 0
         /\ Cut(Target(w, path), FS_MAX_PATH) \in Texts /\ Len(Cut(Target(w, path), FS_MAX_PATH)) < FS_MAX_PATH
<1>0. FS_MAX_PATH \in Sizes /\ Len(w) \in Nat /\ Len(path) \in Nat
  BY TextSizes, TextType
<1>. DEFINE x == Target(w, path)
<1>1. x \in Texts /\ Len(x) > 0
  <2>1. CASE path[1] = SLASH
    BY <2>1 DEF Target
  <2>2. CASE path[1] # SLASH
    <3>1. Joined(w, path) \in Texts /\ Len(Joined(w, path)) >= Len(w)
      BY JoinedIs
    <3>2. Len(Joined(w, path)) \in Nat
      BY <3>1, TextType
    <3>. QED  BY <1>0, <2>2, <3>1, <3>2 DEF Target
  <2>. QED  BY <2>1, <2>2
<1>. HIDE DEF x
<1>2. Cut(x, FS_MAX_PATH) \in Texts /\ Len(Cut(x, FS_MAX_PATH)) < FS_MAX_PATH /\ Len(Cut(x, FS_MAX_PATH)) > 0
  BY <1>0, <1>1, CutText
<1>. QED  BY <1>1, <1>2 DEF x

\* The first directory of PATH.
LEMMA SearchBegins ==
  ASSUME NEW paths \in Texts, NEW name \in Texts, NEW r,
         r = strtok_r(CopyCut(PathSize, paths), 0, {COLON}), NEW o
  PROVE  SearchState(<<paths, name>>, r.b, r.save, r.tok, o, <<>>)
<1>. DEFINE g == <<paths, name>>
            s == Cut(paths, PathSize)
            b == CopyCut(PathSize, paths)
<1>0. g[1] = paths /\ g[2] = name /\ Searched(g) = s
  BY DEF Searched
<1>. HIDE DEF g
<1>1. s \in Texts /\ Len(s) < PathSize /\ PathSize \in Sizes /\ Len(s) \in Nat /\ 0 \in Nat
  BY SearchedIs, TextType
<1>2. IsBuf(b, PathSize + Behind) /\ Within(b, PathSize) /\ Holds(b, 0, s)
  BY <1>1, CopyCutIs
<1>3. r = strtok_r(b, 0, {COLON})
  OBVIOUS
<1>. HIDE DEF s, b
<1>4. Rest(b, s, 0)
  BY <1>1, <1>2, RestAll
<1>5. Boundary(s, COLON, 0)
  BY <1>1 DEF Boundary
<1>6. COLON # NUL
  BY SlashIs
<1>7. /\ Ready(r.b, s, COLON, r.tok, r.save, PathSize)
      /\ r.tok = NULL => NoneBegins(s, COLON, 0, Len(s))
      /\ r.tok # NULL => r.tok \in Begins(s, COLON) /\ 0 <= r.tok /\ NoneBegins(s, COLON, 0, r.tok - 1)
  BY <1>1, <1>2, <1>3, <1>4, <1>5, <1>6, TokIs
<1>8. \A k \in Begins(s, COLON) : k \in Nat /\ 0 <= k /\ k <= Len(s)
  <2>1. \A k \in Begins(s, COLON) : k \in 0 .. Len(s)
    BY <1>1, BeginsAre
  <2>. QED  BY <1>1, <2>1
<1>9. ASSUME r.tok = NULL PROVE <<>> = At(Tried(g), Begins(s, COLON))
  <2>1. \A k \in Begins(s, COLON) : FALSE
    BY <1>7, <1>8, <1>9 DEF NoneBegins
  <2>2. Begins(s, COLON) = {}
    BY <2>1
  <2>. QED  BY <2>2, AtNone
<1>10. ASSUME r.tok # NULL PROVE <<>> = At(Tried(g), Upto(s, COLON, r.tok))
  <2>1. r.tok \in Nat /\ NoneBegins(s, COLON, 0, r.tok - 1)
    BY <1>7, <1>8, <1>10
  <2>. DEFINE u == r.tok
  <2>. HIDE DEF u
  <2>2. At(Tried(g), Upto(s, COLON, u)) = <<>>
    BY <1>1, <1>8, <2>1, NoVisit DEF u
  <2>. QED  BY <2>2 DEF u
<1>11. SearchState(g, r.b, r.save, r.tok, o, <<>>)
  BY <1>0, <1>7, <1>9, <1>10 DEF SearchState
<1>. QED  BY <1>11 DEF g

\* From one directory of PATH to the next.
LEMMA SearchGoesOn ==
  ASSUME NEW g, NEW b, NEW save, NEW t, NEW o, NEW v, SearchState(g, b, save, t, o, v), t # NULL,
         NEW r, r = strtok_r(b, save, {COLON}), NEW c, c = Candidate(Str(b, t), g[2])
  PROVE  SearchState(g, r.b, r.save, r.tok, c, Append(v, Str(c, 0)))
<1>. DEFINE s == Searched(g)
            G == Tried(g)
            f == FieldBehind(s, COLON, t)
            y == Cut(Joined(f, g[2]), PathSize)
<1>0. g[1] \in Texts /\ g[2] \in Texts /\ Ready(b, s, COLON, t, save, PathSize)
      /\ t \in Begins(s, COLON) /\ v = At(G, Upto(s, COLON, t))
  BY DEF SearchState
<1>1. s \in Texts /\ Len(s) < PathSize /\ PathSize \in Sizes /\ Len(s) \in Nat
  BY <1>0, SearchedIs, TextType DEF Searched
<1>2. G[t] = y
  BY <1>0 DEF Tried
<1>. HIDE DEF s, G
<1>3. IsBuf(b, PathSize + Behind) /\ Within(b, PathSize) /\ Rest(b, s, save) /\ Boundary(s, COLON, save)
      /\ t \in 0 .. Len(s) /\ t < save /\ Str(b, t) = f /\ NoneBegins(s, COLON, t + 1, save - 1)
  BY <1>0 DEF Ready
<1>4. save \in 0 .. Len(s) /\ save \in Nat /\ t \in Nat /\ t + 1 \in Nat /\ t + 1 <= save /\ t < Len(s)
  <2>1. save \in 0 .. Len(s)
    BY <1>3 DEF Boundary
  <2>. QED  BY <1>1, <1>3, <2>1
<1>5. f \in Texts /\ 0 < Len(f) /\ Len(f) < PathSize
  <2>1. f \in Texts /\ Len(f) <= Len(s)
    BY <1>1, <1>3, FieldType
  <2>2. f # <<>>
    BY <1>0 DEF Begins
  <2>3. Len(f) > 0
    BY <1>1, <1>3, <2>2, FieldType
  <2>4. Len(f) \in Nat /\ PathSize \in Nat
    BY <2>1, TextType, TextSizes
  <2>. QED  BY <1>1, <2>1, <2>3, <2>4
<1>. HIDE DEF f
<1>6. IsBuf(c, PathSize + Behind) /\ Within(c, PathSize) /\ Holds(c, 0, y)
  <2>1. c = Candidate(f, g[2])
    BY <1>3
  <2>. QED  BY <1>0, <1>5, <2>1, CandidateIs
<1>7. y \in Texts /\ Len(y) < PathSize
  <2>1. Joined(f, g[2]) \in Texts
    BY <1>0, <1>5, JoinedIs
  <2>. QED  BY <2>1, SearchedIs
<1>. HIDE DEF y
<1>8. Str(c, 0) = y
  BY <1>6, <1>7, HoldsStr
<1>9. HasNul(c, PathSize)
  BY <1>1, <1>6, <1>7, HoldsNul DEF HasNul
<1>10. COLON # NUL
  BY SlashIs
<1>11. /\ Ready(r.b, s, COLON, r.tok, r.save, PathSize)
       /\ r.tok = NULL => NoneBegins(s, COLON, save, Len(s))
       /\ r.tok # NULL => r.tok \in Begins(s, COLON) /\ save <= r.tok /\ NoneBegins(s, COLON, save, r.tok - 1)
  BY <1>1, <1>3, <1>10, TokIs
<1>12. ASSUME NEW u \in Nat, t < u, NoneBegins(s, COLON, save, u - 1), u - 1 \in Nat
       PROVE  At(G, Upto(s, COLON, u)) = Append(v, Str(c, 0))
  <2>1. NoneBegins(s, COLON, t + 1, u - 1)
    BY <1>1, <1>3, <1>4, <1>12, JoinNone
  <2>2. At(G, Upto(s, COLON, u)) = Append(At(G, Upto(s, COLON, t)), G[t])
    BY <1>0, <1>1, <1>4, <1>12, <2>1, VisitStep
  <2>. QED  BY <1>0, <1>2, <1>8, <2>2
<1>13. ASSUME r.tok = NULL PROVE Append(v, Str(c, 0)) = At(G, Begins(s, COLON))
  <2>. DEFINE u == Len(s) + 1
  <2>1. u \in Nat /\ t < u /\ u - 1 = Len(s) /\ u >= Len(s)
    BY <1>1, <1>4
  <2>. HIDE DEF u
  <2>2. NoneBegins(s, COLON, save, u - 1) /\ u - 1 \in Nat
    BY <1>1, <1>11, <1>13, <2>1
  <2>3. At(G, Upto(s, COLON, u)) = Append(v, Str(c, 0))
    BY <1>12, <2>1, <2>2
  <2>4. Upto(s, COLON, u) = Begins(s, COLON)
    BY <1>1, <2>1, UptoIs
  <2>. QED  BY <2>3, <2>4
<1>14. ASSUME r.tok # NULL PROVE Append(v, Str(c, 0)) = At(G, Upto(s, COLON, r.tok))
  <2>. DEFINE u == r.tok
  <2>0. u \in Begins(s, COLON) /\ save <= u /\ NoneBegins(s, COLON, save, u - 1)
    BY <1>11, <1>14
  <2>. HIDE DEF u
  <2>1. u \in Nat
    BY <1>1, <2>0, BeginsAre
  <2>2. t < u /\ u - 1 \in Nat
    BY <1>3, <1>4, <2>0, <2>1
  <2>3. At(G, Upto(s, COLON, u)) = Append(v, Str(c, 0))
    BY <1>12, <2>0, <2>1, <2>2
  <2>. QED  BY <2>3 DEF u
<1>. QED  BY <1>0, <1>6, <1>9, <1>11, <1>13, <1>14 DEF SearchState, s, G
-----------------------------------------------------------------------------
\* A number of a range that is not its last.
LEMMA NotYet ==
  ASSUME NEW x, NEW y \in Nat, x \in 0 .. y, x # y
  PROVE  x < y /\ x \in 0 .. y - 1 /\ x + 1 \in 1 .. y
OBVIOUS

\* The walk of an absolute path begins.
LEMMA WalkBegins ==
  ASSUME NEW w, InDir(w), current_dir = w, NEW path \in Texts, 0 < Len(path),
         NEW o, o = Absolute(path), NEW b, b = CopyCut(FS_MAX_PATH, Str(o, 0)),
         NEW p, p = IF b[0] = SLASH THEN 1 ELSE 0,
         NEW r, r = IF b[p] = NUL THEN [b |-> b, save |-> NULL, tok |-> NULL] ELSE Component(b, p)
  PROVE  WalkState(<<w, path>>, r.b, r.save, r.tok, o, <<>>)
<1>. DEFINE g == <<w, path>>
            s == Cut(Target(w, path), FS_MAX_PATH)
            G == LookedUp(g)
            size == FS_MAX_PATH
            d == size + Behind
<1>0. g[1] = w /\ g[2] = path /\ Walked(g) = s
  BY DEF Walked
<1>. HIDE DEF g
<1>1. w \in Texts /\ 0 < Len(w) /\ Len(w) < size /\ size \in Sizes /\ size \in Nat /\ d \in Nat /\ 0 \in 0 .. d /\ 0 \in Nat
  BY TextSizes DEF InDir
<1>2. s \in Texts /\ Len(s) > 0 /\ Len(s) < size /\ Len(s) \in Nat
  BY <1>1, WalkedIs, TextType
<1>3. IsBuf(o, d) /\ Cut(Str(o, 0), size) = s
      /\ (~ NoPlace(w, path) => Within(o, size) /\ HasNul(o, size))
  <2>1. IsBuf(Absolute(path), FS_MAX_PATH + Behind)
    BY <1>1, AbsoluteIs
  <2>2. Cut(Str(Absolute(path), 0), FS_MAX_PATH) = Cut(Target(w, path), FS_MAX_PATH)
    BY <1>1, AbsoluteIs
  <2>3. ~ NoPlace(w, path) => Within(Absolute(path), FS_MAX_PATH) /\ HasNul(Absolute(path), FS_MAX_PATH)
    BY <1>1, AbsoluteIs DEF HasNul
  <2>. QED  BY <2>1, <2>2, <2>3
<1>4. Str(o, 0) \in Texts
  BY <1>1, <1>3, StrIs
<1>. HIDE DEF s, G, size
<1>5. IsBuf(b, d) /\ Within(b, size) /\ Holds(b, 0, s)
  <2>1. b = CopyCut(size, Str(o, 0))
    BY DEF size
  <2>. QED  BY <1>1, <1>3, <1>4, <2>1, CopyCutIs
<1>6. Rest(b, s, 0) /\ b[0] = s[1]
  BY <1>2, <1>5, RestAll, FirstBytes
<1>7. b[Len(s)] = NUL /\ \A k \in 0 .. Len(s) - 1 : b[k] = s[k + 1]
  BY <1>6 DEF Rest
<1>8. p \in 0 .. Len(s) /\ p \in Nat /\ (p = 0 \/ s[p] = SLASH)
  BY <1>2, <1>6
<1>9. \A k \in Begins(s, SLASH) : k \in Nat /\ p <= k /\ k < Len(s)
  <2>. TAKE k \in Begins(s, SLASH)
  <2>1. k \in 0 .. Len(s) /\ k < Len(s) /\ s[k + 1] # SLASH
    BY <1>2, BeginsAre
  <2>2. CASE b[0] = SLASH
    <3>1. k # 0
      <4>. SUFFICES ASSUME k = 0 PROVE FALSE
        OBVIOUS
      <4>1. k + 1 = 1
        OBVIOUS
      <4>. QED  BY <1>6, <2>1, <2>2, <4>1, Zenon
    <3>. QED  BY <2>1, <2>2, <3>1
  <2>3. CASE b[0] # SLASH
    BY <2>1, <2>3
  <2>. QED  BY <2>2, <2>3
<1>10. Rest(b, s, p)
  <2>1. \A k \in p .. Len(s) - 1 : k \in 0 .. Len(s) - 1
    BY <1>2, <1>8
  <2>. QED  BY <1>6, <1>8, <2>1 DEF Rest
<1>11. CASE b[p] = NUL
  <2>1. r.b = b /\ r.save = NULL /\ r.tok = NULL
    BY <1>11
  <2>2. p = Len(s)
    <3>. SUFFICES ASSUME p # Len(s) PROVE FALSE
      OBVIOUS
    <3>1. p \in 0 .. Len(s) - 1 /\ p + 1 \in 1 .. Len(s)
      BY <1>2, <1>8, NotYet
    <3>2. b[p] = s[p + 1] /\ s[p + 1] # NUL
      BY <1>2, <1>7, <3>1, TextType
    <3>. QED  BY <1>11, <3>2
  <2>3. \A k \in Begins(s, SLASH) : FALSE
    BY <1>2, <1>9, <2>2
  <2>4. Begins(s, SLASH) = {}
    BY <2>3
  <2>5. At(G, Begins(s, SLASH)) = <<>>
    BY <2>4, AtNone
  <2>6. WalkState(g, b, NULL, NULL, o, <<>>)
    BY <1>0, <1>1, <1>3, <2>5 DEF WalkState, G, size
  <2>. QED  BY <2>1, <2>6 DEF g
<1>12. CASE b[p] # NUL
  <2>1. r = Component(b, p)
    BY <1>12
  <2>2. p < Len(s)
    <3>1. p # Len(s)
      BY <1>7, <1>12
    <3>. QED  BY <1>2, <1>8, <3>1, NotYet
  <2>3. r.tok = p /\ r.tok # NULL /\ WalkReady(r.b, s, r.tok, r.save)
    BY <1>2, <1>5, <1>8, <1>10, <2>1, <2>2, ComponentIs DEF size
  <2>4. At(G, Upto(s, SLASH, p)) = <<>>
    <3>1. NoneBegins(s, SLASH, p, p - 1)
      <4>1. \A k \in Begins(s, SLASH) : ~ (p <= k /\ k <= p - 1)
        BY <1>8, <1>9
      <4>. QED  BY <4>1 DEF NoneBegins
    <3>. QED  BY <1>2, <1>8, <1>9, <3>1, NoVisit
  <2>. DEFINE rb == r.b
              rs == r.save
              t == r.tok
  <2>5. t = p /\ t # NULL /\ WalkReady(rb, s, t, rs)
    BY <2>3
  <2>. HIDE DEF rb, rs, t
  <2>6. WalkState(g, rb, rs, t, o, <<>>)
    BY <1>0, <1>1, <1>3, <2>4, <2>5 DEF WalkState, G, size
  <2>. QED  BY <2>6 DEF g, rb, rs, t
<1>. QED  BY <1>11, <1>12

\* One component is looked up, unless it is empty.
LEMMA WalkGoesOn ==
  ASSUME NEW g, NEW b, NEW save, NEW t, NEW o, NEW v, WalkState(g, b, save, t, o, v), t # NULL,
         NEW v2, v2 = IF b[t] = NUL THEN v ELSE Append(v, Str(b, t)),
         NEW r, r = Component(b, save)
  PROVE  IF save = NULL \/ b[save] = NUL THEN WalkState(g, b, save, NULL, o, v2)
         ELSE WalkState(g, r.b, r.save, r.tok, o, v2)
<1>. DEFINE s == Walked(g)
            G == LookedUp(g)
            Same == /\ g[1] \in Texts /\ g[2] \in Texts
                    /\ 0 < Len(g[1]) /\ Len(g[1]) < FS_MAX_PATH /\ 0 < Len(g[2])
                    /\ IsBuf(o, FS_MAX_PATH + Behind) /\ Cut(Str(o, 0), FS_MAX_PATH) = s
                    /\ ~ NoPlace(g[1], g[2]) => Within(o, FS_MAX_PATH) /\ HasNul(o, FS_MAX_PATH)
<1>1. Same /\ WalkReady(b, s, t, save) /\ v = At(G, Upto(s, SLASH, t))
  BY DEF WalkState
<1>2. s \in Texts /\ Len(s) < FS_MAX_PATH /\ Len(s) \in Nat
  BY <1>1, WalkedIs, TextType DEF Walked
<1>3. \A k \in Begins(s, SLASH) : G[k] = FieldBehind(s, SLASH, k)
  BY DEF LookedUp
<1>. HIDE DEF s, G, Same
<1>4. t \in 0 .. Len(s) - 1 /\ (b[t] = NUL <=> t \notin Begins(s, SLASH)) /\ Str(b, t) = FieldBehind(s, SLASH, t)
  BY <1>1, <1>2, EmptyIs DEF WalkReady
<1>5. IsBuf(b, FS_MAX_PATH + Behind) /\ Within(b, FS_MAX_PATH)
      /\ (save = NULL => NoneBegins(s, SLASH, t + 1, Len(s)))
      /\ (save # NULL => /\ Rest(b, s, save) /\ s[save] = SLASH /\ save \in t + 1 .. Len(s)
                         /\ NoneBegins(s, SLASH, t + 1, save - 1))
  BY <1>1 DEF WalkReady
<1>6. t \in Nat /\ t < Len(s)
  BY <1>2, <1>4
<1>7. ASSUME NEW u \in Nat, t < u, NoneBegins(s, SLASH, t + 1, u - 1)
      PROVE  v2 = At(G, Upto(s, SLASH, u))
  <2>1. t \in Begins(s, SLASH) => At(G, Upto(s, SLASH, u)) = Append(At(G, Upto(s, SLASH, t)), G[t])
    BY <1>2, <1>6, <1>7, VisitStep
  <2>2. t \notin Begins(s, SLASH) => At(G, Upto(s, SLASH, u)) = At(G, Upto(s, SLASH, t))
    BY <1>2, <1>6, <1>7, VisitStep
  <2>. QED  BY <1>1, <1>3, <1>4, <2>1, <2>2
<1>8. ASSUME save = NULL \/ b[save] = NUL PROVE WalkState(g, b, save, NULL, o, v2)
  <2>1. NoneBegins(s, SLASH, t + 1, Len(s) - 1)
    <3>1. CASE save = NULL
      <4>1. NoneBegins(s, SLASH, t + 1, Len(s))
        BY <1>5, <3>1
      <4>2. \A k \in Begins(s, SLASH) : k <= Len(s) - 1 => k <= Len(s)
        BY <1>2, BeginsAre
      <4>. QED  BY <4>1, <4>2 DEF NoneBegins
    <3>2. CASE save # NULL
      <4>1. save \in t + 1 .. Len(s) /\ Rest(b, s, save) /\ NoneBegins(s, SLASH, t + 1, save - 1) /\ b[save] = NUL
        BY <1>5, <1>8, <3>2
      <4>2. save = Len(s)
        <5>. SUFFICES ASSUME save # Len(s) PROVE FALSE
          OBVIOUS
        <5>1. save \in save .. Len(s) - 1 /\ save + 1 \in 1 .. Len(s)
          BY <1>2, <1>6, <4>1
        <5>2. b[save] = s[save + 1]
          BY <4>1, <5>1 DEF Rest
        <5>. QED  BY <1>2, <4>1, <5>1, <5>2, TextType
      <4>. QED  BY <4>1, <4>2
    <3>. QED  BY <3>1, <3>2
  <2>. DEFINE u == Len(s)
  <2>2. u \in Nat /\ t < u /\ u >= Len(s) /\ NoneBegins(s, SLASH, t + 1, u - 1)
    BY <1>2, <1>6, <2>1
  <2>. HIDE DEF u
  <2>3. v2 = At(G, Upto(s, SLASH, u))
    BY <1>7, <2>2
  <2>4. Upto(s, SLASH, u) = Begins(s, SLASH)
    BY <1>2, <2>2, UptoIs
  <2>5. v2 = At(G, Begins(s, SLASH))
    BY <2>3, <2>4
  <2>. QED  BY <1>1, <2>5 DEF WalkState, Same, s, G
<1>9. ASSUME ~ (save = NULL \/ b[save] = NUL)
      PROVE  WalkState(g, r.b, r.save, r.tok, o, v2)
  <2>1. save \in t + 1 .. Len(s) /\ Rest(b, s, save) /\ s[save] = SLASH /\ NoneBegins(s, SLASH, t + 1, save - 1)
    BY <1>5, <1>9
  <2>2. save < Len(s) /\ save \in Nat /\ t < save
    <3>1. b[Len(s)] = NUL
      BY <2>1 DEF Rest
    <3>2. save # Len(s)
      BY <1>9, <3>1
    <3>. QED  BY <1>2, <1>6, <2>1, <3>2
  <2>3. r.tok = save /\ r.tok # NULL /\ WalkReady(r.b, s, r.tok, r.save)
    BY <1>2, <1>5, <1>9, <2>1, <2>2, ComponentIs
  <2>4. v2 = At(G, Upto(s, SLASH, save))
    BY <1>7, <2>1, <2>2
  <2>. DEFINE rb == r.b
              rs == r.save
              rt == r.tok
  <2>5. rt = save /\ rt # NULL /\ WalkReady(rb, s, rt, rs)
    BY <2>3
  <2>. HIDE DEF rb, rs, rt
  <2>6. WalkState(g, rb, rs, rt, o, v2)
    BY <1>1, <2>4, <2>5 DEF WalkState, Same, s, G
  <2>. QED  BY <2>6 DEF rb, rs, rt
<1>. QED  BY <1>8, <1>9

\* cd is done.
LEMMA WalkEnds ==
  ASSUME NEW g, NEW b, NEW save, NEW t, NEW o, NEW v, WalkState(g, b, save, t, o, v)
  PROVE  InDir(Str(CopyCut(FS_MAX_PATH, Str(o, 0)), 0))
<1>. DEFINE d == FS_MAX_PATH + Behind
            x == Str(o, 0)
            c == CopyCut(FS_MAX_PATH, x)
            s == Walked(g)
<1>1. IsBuf(o, d) /\ Cut(x, FS_MAX_PATH) = s /\ g[1] \in Texts /\ g[2] \in Texts /\ 0 < Len(g[1]) /\ 0 < Len(g[2])
  BY DEF WalkState
<1>2. d \in Nat /\ 0 \in 0 .. d /\ 0 \in Nat /\ FS_MAX_PATH \in Sizes
  BY TextSizes
<1>3. s \in Texts /\ Len(s) > 0 /\ Len(s) < FS_MAX_PATH
  BY <1>1, WalkedIs DEF Walked
<1>4. x \in Texts
  BY <1>1, <1>2, StrIs
<1>. HIDE DEF x, s
<1>5. IsBuf(c, d) /\ Holds(c, 0, s)
  BY <1>1, <1>2, <1>4, CopyCutIs
<1>. HIDE DEF c
<1>6. Str(c, 0) = s
  BY <1>2, <1>3, <1>5, HoldsStr
<1>7. Len(s) \in Nat
  BY <1>3, TextType
<1>8. InDir(s)
  BY <1>3, <1>7 DEF InDir
<1>. QED  BY <1>6, <1>8 DEF c, x
-----------------------------------------------------------------------------
\* Nothing is going on, in the root directory.
LEMMA TextInitInv == TextInit => TextInv
<1>. SUFFICES ASSUME TextInit PROVE TextInv
  OBVIOUS
<1>1. doing = "idle" /\ current_dir = <<SLASH>>
  BY DEF TextInit
<1>2. <<SLASH>> \in Texts /\ Len(<<SLASH>>) = 1
  BY SlashIs
<1>3. FS_MAX_PATH \in Nat /\ 1 < FS_MAX_PATH
  BY TextSizes DEF Sizes
<1>4. InDir(current_dir)
  BY <1>1, <1>2, <1>3 DEF InDir
<1>. QED  BY <1>1, <1>4 DEF TextInv

\* When an operation is over only the current directory is left.
LEMMA IdleInv == ASSUME TextInv, Idle, InDir(current_dir') PROVE TextInv'
<1>1. doing' = "idle"
  BY DEF Idle
<1>. QED  BY <1>1 DEF TextInv

\* PATH is copied and its first directory taken.
LEMMA PathStartInv ==
  ASSUME TextInv, NEW v \in PathValues, NEW c \in Commands, PathStart(v, c)
  PROVE  TextInv'
<1>. DEFINE r == strtok_r(CopyCut(PathSize, v), 0, {COLON})
<1>1. doing' = "search" /\ given' = <<v, c>> /\ visited' = <<>> /\ current_dir' = current_dir
      /\ copy' = r.b /\ saveptr' = r.save /\ tok' = r.tok
  BY DEF PathStart, Token
<1>2. v \in Texts /\ c \in Texts
  BY GivenTexts
<1>3. r = strtok_r(CopyCut(PathSize, v), 0, {COLON})
  OBVIOUS
<1>. HIDE DEF r
<1>4. SearchState(<<v, c>>, r.b, r.save, r.tok, out', <<>>)
  BY <1>2, <1>3, SearchBegins
<1>5. SearchState(given', copy', saveptr', tok', out', visited')
  BY <1>1, <1>4
<1>. QED  BY <1>1, <1>5 DEF TextInv

\* A candidate is tried and the next directory taken.
LEMMA PathNextInv == ASSUME TextInv, PathNext PROVE TextInv'
<1>. DEFINE r == strtok_r(copy, saveptr, {COLON})
            c == Candidate(Str(copy, tok), given[2])
<1>1. doing = "search" /\ tok # NULL /\ doing' = "search" /\ given' = given /\ current_dir' = current_dir
      /\ out' = c /\ visited' = Append(visited, Str(c, 0))
      /\ copy' = r.b /\ saveptr' = r.save /\ tok' = r.tok
  BY DEF PathNext, Token
<1>2. r = strtok_r(copy, saveptr, {COLON}) /\ c = Candidate(Str(copy, tok), given[2])
  OBVIOUS
<1>. HIDE DEF r, c
<1>3. SearchState(given, copy, saveptr, tok, out, visited)
  BY <1>1 DEF TextInv
<1>4. SearchState(given, r.b, r.save, r.tok, c, Append(visited, Str(c, 0)))
  BY <1>1, <1>2, <1>3, SearchGoesOn
<1>5. SearchState(given', copy', saveptr', tok', out', visited')
  BY <1>1, <1>4
<1>. QED  BY <1>1, <1>5 DEF TextInv

\* The absolute path is made, and its first component taken.
LEMMA CdStartInv == ASSUME TextInv, NEW path \in CdPaths, CdStart(path) PROVE TextInv'
<1>. DEFINE o == Absolute(path)
            b == CopyCut(FS_MAX_PATH, Str(o, 0))
            p == IF b[0] = SLASH THEN 1 ELSE 0
            r == IF b[p] = NUL THEN [b |-> b, save |-> NULL, tok |-> NULL] ELSE Component(b, p)
<1>1. doing' = "walk" /\ out' = o /\ given' = <<current_dir, path>> /\ visited' = <<>> /\ current_dir' = current_dir
  BY DEF CdStart
<1>2. copy' = r.b /\ saveptr' = r.save /\ tok' = r.tok
  <2>1. IF b[p] = NUL THEN Token([b |-> b, save |-> NULL, tok |-> NULL]) ELSE Token(Component(b, p))
    <3>1. out' = o
      BY <1>1
    <3>2. LET b_1 == CopyCut(FS_MAX_PATH, Str(out', 0))
              p_1 == IF b_1[0] = SLASH THEN 1 ELSE 0
          IN IF b_1[p_1] = NUL THEN Token([b |-> b_1, save |-> NULL, tok |-> NULL])
             ELSE Token(Component(b_1, p_1))
      BY DEF CdStart
    <3>. HIDE DEF o
    <3>. QED  BY <3>1, <3>2
  <2>. HIDE DEF b, p
  <2>. QED  BY <2>1 DEF Token
<1>3. path \in Texts /\ 0 < Len(path)
  <2>1. path \in Texts /\ path # <<>>
    BY GivenTexts
  <2>2. path \in Seq(Char)
    BY <2>1, TextType
  <2>. QED  BY <2>1, <2>2
<1>4. InDir(current_dir)
  BY DEF TextInv
<1>5. o = Absolute(path) /\ b = CopyCut(FS_MAX_PATH, Str(o, 0)) /\ p = IF b[0] = SLASH THEN 1 ELSE 0
  OBVIOUS
<1>6. r = IF b[p] = NUL THEN [b |-> b, save |-> NULL, tok |-> NULL] ELSE Component(b, p)
  OBVIOUS
<1>. HIDE DEF o, b, p, r
<1>7. WalkState(<<current_dir, path>>, r.b, r.save, r.tok, o, <<>>)
  BY <1>3, <1>4, <1>5, <1>6, WalkBegins
<1>8. WalkState(given', copy', saveptr', tok', out', visited')
  BY <1>1, <1>2, <1>7
<1>. QED  BY <1>1, <1>4, <1>8 DEF TextInv

\* A component is looked up and the next taken.
LEMMA WalkNextInv == ASSUME TextInv, WalkNext PROVE TextInv'
<1>. DEFINE v == IF copy[tok] = NUL THEN visited ELSE Append(visited, Str(copy, tok))
            r == Component(copy, saveptr)
            End == saveptr = NULL \/ copy[saveptr] = NUL
<1>1. doing = "walk" /\ tok # NULL /\ doing' = "walk" /\ out' = out /\ given' = given /\ current_dir' = current_dir
      /\ visited' = v
  BY DEF WalkNext
<1>2. IF End THEN tok' = NULL /\ copy' = copy /\ saveptr' = saveptr
      ELSE copy' = r.b /\ saveptr' = r.save /\ tok' = r.tok
  BY DEF WalkNext, Token
<1>3. v = IF copy[tok] = NUL THEN visited ELSE Append(visited, Str(copy, tok))
  OBVIOUS
<1>. HIDE DEF v
<1>4. WalkState(given, copy, saveptr, tok, out, visited)
  BY <1>1 DEF TextInv
<1>5. r = Component(copy, saveptr)
  OBVIOUS
<1>. HIDE DEF r
<1>6. IF End THEN WalkState(given, copy, saveptr, NULL, out, v)
      ELSE WalkState(given, r.b, r.save, r.tok, out, v)
  BY <1>1, <1>3, <1>4, <1>5, WalkGoesOn
<1>7. WalkState(given', copy', saveptr', tok', out', visited')
  BY <1>1, <1>2, <1>6
<1>. QED  BY <1>1, <1>7 DEF TextInv

\* The current directory becomes the path that was walked.
LEMMA CdDoneInv == ASSUME TextInv, CdDone PROVE TextInv'
<1>1. doing = "walk" /\ current_dir' = Str(CopyCut(FS_MAX_PATH, Str(out, 0)), 0) /\ Idle
  BY DEF CdDone
<1>2. WalkState(given, copy, saveptr, tok, out, visited)
  BY <1>1 DEF TextInv
<1>3. InDir(Str(CopyCut(FS_MAX_PATH, Str(out, 0)), 0))
  BY <1>2, WalkEnds
<1>4. InDir(current_dir')
  BY <1>1, <1>3
<1>. QED  BY <1>1, <1>4, IdleInv

\* cd / .
LEMMA CdRootInv == ASSUME TextInv, CdRoot PROVE TextInv'
<1>1. doing' = "idle" /\ current_dir' = <<SLASH>>
  BY DEF CdRoot
<1>2. <<SLASH>> \in Texts /\ Len(<<SLASH>>) = 1
  BY SlashIs
<1>3. FS_MAX_PATH \in Nat /\ 1 < FS_MAX_PATH
  BY TextSizes DEF Sizes
<1>4. InDir(current_dir')
  BY <1>1, <1>2, <1>3 DEF InDir
<1>. QED  BY <1>1, <1>4 DEF TextInv

\* The name of an entry.
LEMMA StripInv == ASSUME TextInv, NEW entry \in Entries, Strip(entry) PROVE TextInv'
<1>. DEFINE b == CopyCut(NameSize, entry)
            len == strlen(b, 0)
            r == IF len >= 2 /\ b[0] = DOT /\ b[1] = SLASH
                 THEN SetNul(memmove(b, 0, 2, len - 1), len - 2) ELSE b
<1>1. doing' = "strip" /\ given' = <<entry>> /\ current_dir' = current_dir /\ out' = r
  BY DEF Strip
<1>2. entry \in Texts
  BY GivenTexts
<1>3. b = CopyCut(NameSize, entry) /\ len = strlen(b, 0)
      /\ r = IF len >= 2 /\ b[0] = DOT /\ b[1] = SLASH
             THEN SetNul(memmove(b, 0, 2, len - 1), len - 2) ELSE b
  OBVIOUS
<1>. HIDE DEF b, len, r
<1>4. Within(r, NameSize) /\ HasNul(r, NameSize) /\ Str(r, 0) = Stripped(Cut(entry, NameSize))
  <2>1. Within(r, NameSize)
    BY <1>2, <1>3, StripIs
  <2>2. \E k \in 0 .. NameSize - 1 : r[k] = NUL
    BY <1>2, <1>3, StripIs
  <2>3. Str(r, 0) = Stripped(Cut(entry, NameSize))
    BY <1>2, <1>3, StripIs
  <2>. QED  BY <2>1, <2>2, <2>3 DEF HasNul
<1>5. StripState(<<entry>>, r)
  <2>1. <<entry>>[1] = entry
    OBVIOUS
  <2>. QED  BY <1>4, <2>1, Zenon DEF StripState
<1>6. StripState(given', out')
  BY <1>1, <1>5
<1>. QED  BY <1>1, <1>6 DEF TextInv

\* The invariant is about the model's variables only.
LEMMA TextStill == TextInv /\ UNCHANGED textvars => TextInv'
BY DEF TextInv, textvars

\* Every step of the search, the walk and the strip keeps the invariant.
LEMMA TextStep == TextInv /\ [TextNext]_textvars => TextInv'
<1>. SUFFICES ASSUME TextInv, [TextNext]_textvars PROVE TextInv'
  OBVIOUS
<1>0. InDir(current_dir)
  BY DEF TextInv
<1>1. ASSUME NEW v \in PathValues, NEW c \in Commands, PathStart(v, c) PROVE TextInv'
  BY <1>1, PathStartInv
<1>2. CASE PathNext
  BY <1>2, PathNextInv
<1>3. CASE PathFound \/ PathFails \/ WalkFails \/ StripDone
  <2>1. Idle /\ current_dir' = current_dir
    BY <1>3 DEF PathFound, PathFails, WalkFails, StripDone
  <2>. QED  BY <1>0, <2>1, IdleInv
<1>4. CASE CdRoot
  BY <1>4, CdRootInv
<1>5. ASSUME NEW p \in CdPaths, CdStart(p) PROVE TextInv'
  BY <1>5, CdStartInv
<1>6. CASE WalkNext
  BY <1>6, WalkNextInv
<1>7. CASE CdDone
  BY <1>7, CdDoneInv
<1>8. ASSUME NEW e \in Entries, Strip(e) PROVE TextInv'
  BY <1>8, StripInv
<1>9. CASE UNCHANGED textvars
  BY <1>9, TextStill
<1>. QED  BY <1>1, <1>2, <1>3, <1>4, <1>5, <1>6, <1>7, <1>8, <1>9 DEF TextNext

\* The invariant holds in every state.
LEMMA TextInvHolds == TextSpec => []TextInv
BY TextInitInv, TextStep, PTL DEF TextSpec
-----------------------------------------------------------------------------
\* InBuffers: whatever is cut, and after any sequence of cd, the string
\* functions store nothing behind paths_copy, path_buffer, path_copy, abs_path
\* and processed_entry, and leave a terminator in each (shell.c:183-202,
\* fs.c:159-181 and 222-239), but where fs.current_dir was full.
THEOREM StaysInBuffers == TextSpec => []InBuffers
<1>1. ASSUME TextInv PROVE InBuffers
  <2>1. Len(current_dir) < FS_MAX_PATH
    BY <1>1 DEF TextInv, InDir
  <2>2. ASSUME doing = "search" PROVE Within(copy, PathSize) /\ (visited # <<>> => Within(out, PathSize) /\ HasNul(out, PathSize))
    BY <1>1, <2>2 DEF TextInv, SearchState, Ready
  <2>3. ASSUME doing = "walk", ~ Full PROVE Within(out, FS_MAX_PATH) /\ HasNul(out, FS_MAX_PATH)
    <3>1. WalkState(given, copy, saveptr, tok, out, visited)
      BY <1>1, <2>3 DEF TextInv
    <3>2. ~ NoPlace(given[1], given[2])
      BY <2>3 DEF NoPlace, Full
    <3>. QED  BY <3>1, <3>2 DEF WalkState
  <2>4. ASSUME doing = "strip" PROVE Within(out, NameSize) /\ HasNul(out, NameSize)
    BY <1>1, <2>4 DEF TextInv, StripState
  <2>5. doing \in {"idle", "search", "walk", "strip"}
    BY <1>1 DEF TextInv
  <2>6. /\ doing = "search" => SizeOf = PathSize
        /\ doing = "walk" => SizeOf = FS_MAX_PATH
        /\ doing = "strip" => SizeOf = NameSize
    BY DEF SizeOf
  <2>. QED  BY <2>1, <2>2, <2>3, <2>4, <2>5, <2>6 DEF InBuffers, HasNul
<1>. QED  BY <1>1, TextInvHolds, PTL

\* What VisitsFields asks for, of the texts that the operation was given.
LEMMA WantedIs ==
  ASSUME TextInv
  PROVE  /\ doing = "search" => Wanted = At(Tried(given), Begins(Searched(given), COLON))
         /\ doing = "walk" => Wanted = At(LookedUp(given), Begins(Walked(given), SLASH))
<1>1. ASSUME doing = "search" PROVE Wanted = At(Tried(given), Begins(Searched(given), COLON))
  <2>. DEFINE s == Searched(given)
              S == Begins(s, COLON)
              G == Tried(given)
              H == [k \in S |-> FieldBehind(s, COLON, k)]
              f == Fields(s, COLON)
              N == Cardinality(S)
  <2>0. s = Cut(given[1], PathSize)
    BY DEF Searched
  <2>1. Wanted = [k \in DOMAIN f |-> Cut(Joined(f[k], given[2]), PathSize)]
    BY <1>1, <2>0 DEF Wanted
  <2>2. f = [n \in 1 .. N |-> H[Nth(S, n)]]
    BY DEF Fields, At
  <2>3. At(G, S) = [n \in 1 .. N |-> G[Nth(S, n)]]
    BY DEF At
  <2>4. \A k \in S : G[k] = Cut(Joined(H[k], given[2]), PathSize)
    BY DEF Tried
  <2>5. \A n \in 1 .. N : Nth(S, n) \in S
    <3>1. s \in Texts
      BY <1>1, SearchedIs DEF TextInv, SearchState, Searched
    <3>2. S \in SUBSET Nat /\ IsFiniteSet(S)
      <4>. HIDE DEF s
      <4>. QED  BY <3>1, BeginsAre
    <3>. HIDE DEF S
    <3>. QED  BY <3>2, NthExists
  <2>. HIDE DEF S, G, H, N, f
  <2>6. \A n \in 1 .. N : Cut(Joined(f[n], given[2]), PathSize) = G[Nth(S, n)]
    BY <2>2, <2>4, <2>5
  <2>7. DOMAIN f = 1 .. N
    BY <2>2
  <2>8. Wanted = At(G, S)
    BY <2>1, <2>3, <2>6, <2>7
  <2>. QED  BY <2>8 DEF G, S
<1>2. ASSUME doing = "walk" PROVE Wanted = At(LookedUp(given), Begins(Walked(given), SLASH))
  <2>1. Wanted = Fields(Walked(given), SLASH)
    BY <1>2 DEF Wanted, Walked, Target
  <2>. QED  BY <2>1, Zenon DEF Fields, LookedUp
<1>. QED  BY <1>1, <1>2

\* VisitsFields: the search of PATH and the walk of a path look up every field
\* that is not empty, once and in its place, though both cut the text they
\* walk (shell.c:195-217, ext2.c:146-240), and the name that is moved over
\* itself is the name without its ./ (fs.c:231-238).
THEOREM EveryFieldIsVisited == TextSpec => []VisitsFields
<1>1. ASSUME TextInv PROVE VisitsFields
  <2>1. ASSUME doing = "search" PROVE IF tok = NULL THEN visited = Wanted ELSE IsPrefix(visited, Wanted)
    <3>. DEFINE s == Searched(given)
    <3>1. SearchState(given, copy, saveptr, tok, out, visited)
      BY <1>1, <2>1 DEF TextInv
    <3>2. Wanted = At(Tried(given), Begins(s, COLON))
      BY <1>1, <2>1, WantedIs
    <3>3. s \in Texts
      BY <3>1, SearchedIs DEF SearchState, Searched
    <3>4. tok = NULL => visited = At(Tried(given), Begins(s, COLON))
      BY <3>1 DEF SearchState
    <3>5. tok # NULL => tok \in Begins(s, COLON) /\ visited = At(Tried(given), Upto(s, COLON, tok))
      BY <3>1 DEF SearchState
    <3>. HIDE DEF s
    <3>6. tok # NULL => tok \in Nat
      BY <3>3, <3>5, BeginsAre
    <3>7. tok # NULL => IsPrefix(visited, Wanted)
      BY <3>2, <3>3, <3>5, <3>6, PrefixIs
    <3>. QED  BY <3>2, <3>4, <3>7
  <2>2. ASSUME doing = "walk" PROVE IF tok = NULL THEN visited = Wanted ELSE IsPrefix(visited, Wanted)
    <3>. DEFINE s == Walked(given)
    <3>1. WalkState(given, copy, saveptr, tok, out, visited)
      BY <1>1, <2>2 DEF TextInv
    <3>2. Wanted = At(LookedUp(given), Begins(s, SLASH))
      BY <1>1, <2>2, WantedIs
    <3>3. s \in Texts
      BY <3>1, WalkedIs DEF WalkState, Walked
    <3>4. tok = NULL => visited = At(LookedUp(given), Begins(s, SLASH))
      BY <3>1 DEF WalkState
    <3>5. tok # NULL => tok \in 0 .. Len(s) - 1 /\ visited = At(LookedUp(given), Upto(s, SLASH, tok))
      BY <3>1 DEF WalkState, WalkReady
    <3>. HIDE DEF s
    <3>6. tok # NULL => tok \in Nat
      BY <3>5
    <3>7. tok # NULL => IsPrefix(visited, Wanted)
      BY <3>2, <3>3, <3>5, <3>6, PrefixIs
    <3>. QED  BY <3>2, <3>4, <3>7
  <2>3. ASSUME doing = "strip" PROVE Str(out, 0) = Stripped(Cut(given[1], NameSize))
    BY <1>1, <2>3 DEF TextInv, StripState
  <2>. QED  BY <2>1, <2>2, <2>3 DEF VisitsFields, Stripped
<1>. QED  BY <1>1, TextInvHolds, PTL
=============================================================================
