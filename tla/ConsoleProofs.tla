--------------------------- MODULE ConsoleProofs ----------------------------
(***************************************************************************)
(* The keyboard driver decodes bytes with the modifiers of their time, its *)
(* two readers leave it as it is, and the line that a reader gets is what  *)
(* was typed for it.                                                       *)
(***************************************************************************)
EXTENDS Console, TLAPS, FiniteSetTheorems

FlagNames == {"ctrl", "shift", "alt"}

\* Byte b, sent when the flags went from old to new, changes at most the flag
\* of its own key, and as it says, unless the other key of the pair is down.
Follows(b, old, new, mixed) ==
  \A f \in FlagNames :
    IF b.key \in DOMAIN Modifier /\ Modifier[b.key] = f
    THEN IF b.up THEN f \notin mixed => ~ new[f] ELSE new[f]
    ELSE new[f] = old[f]

\* Every pending byte follows the flags before it, and the driver has those
\* before the first of them.
Chain(bytes, flags, mixed) ==
  \A i \in 1 .. Len(bytes) : Follows(bytes[i], flags[i], flags[i + 1], mixed)
Current(ks, now, mixed) ==
  \A f \in FlagNames : (ks[f] => now[f]) /\ (f \notin mixed => ks[f] = now[f])

\* The keyboard sends no other prefix.
BytesT == {b \in [key : Keys \cup {"E0"}, up : BOOLEAN] : b.key = "E0" => b.up}
FlagsT == [FlagNames -> BOOLEAN]

FlagsInv ==
  /\ TypeOK /\ pending \in Seq(BytesT)
  /\ pressed[Len(pressed)] = Flags(held)
  /\ \A f \in FlagNames :
       {k \in DOMAIN Modifier : Modifier[k] = f} \subseteq held => f \in both
  /\ Chain(pending, pressed, both)
  /\ Current(key_state, pressed[1], both)
-----------------------------------------------------------------------------
LEMMA CharTypes ==
  ASSUME NEW k \in DOMAIN scancode_set1, NEW ks \in FlagsT
  PROVE  Decoded(k, ks) \in Printable \cup {"LF", "CR", "BS", "HT", "NUL"}
<1>1. k \in {"h", "j", "m", "d4", "apostrophe", "enter", "back", "tab", "up"}
  BY DEF scancode_set1
<1>2. scancode_set1[k] \in Printable \cup {"LF", "BS", "HT", "NUL"}
  <2>1. /\ scancode_set1["h"] \in Printable
        /\ scancode_set1["j"] \in Printable
        /\ scancode_set1["m"] \in Printable
        /\ scancode_set1["d4"] \in Printable
        /\ scancode_set1["apostrophe"] \in Printable
        /\ scancode_set1["enter"] \in {"LF", "BS", "HT", "NUL"}
        /\ scancode_set1["back"] \in {"LF", "BS", "HT", "NUL"}
        /\ scancode_set1["tab"] \in {"LF", "BS", "HT", "NUL"}
        /\ scancode_set1["up"] \in {"LF", "BS", "HT", "NUL"}
    BY DEF scancode_set1, Printable
  <2>. QED  BY <1>1, <2>1
<1>3. scancode_set1_shift[k] \in Printable \cup {"LF", "BS", "HT", "NUL"}
  <2>1. /\ scancode_set1_shift["h"] \in Printable
        /\ scancode_set1_shift["j"] \in Printable
        /\ scancode_set1_shift["m"] \in Printable
        /\ scancode_set1_shift["d4"] \in Printable
        /\ scancode_set1_shift["apostrophe"] \in Printable
        /\ scancode_set1_shift["enter"] \in {"LF", "BS", "HT", "NUL"}
        /\ scancode_set1_shift["back"] \in {"LF", "BS", "HT", "NUL"}
        /\ scancode_set1_shift["tab"] \in {"LF", "BS", "HT", "NUL"}
        /\ scancode_set1_shift["up"] \in {"LF", "BS", "HT", "NUL"}
    BY DEF scancode_set1_shift, Printable
  <2>. QED  BY <1>1, <2>1
<1>4. \A c \in DOMAIN Control : Control[c] \in {"LF", "CR", "BS"}
  BY DEF Control
<1>. QED  BY <1>2, <1>3, <1>4 DEF Decoded

LEMMA BytesInType == Seq(BytesT) \subseteq Seq([key : Keys \cup {"E0"}, up : BOOLEAN])
<1> SUFFICES ASSUME NEW s \in Seq(BytesT)
             PROVE  s \in Seq([key : Keys \cup {"E0"}, up : BOOLEAN])
  OBVIOUS
<1>1. s \in [1 .. Len(s) -> BytesT] /\ Len(s) \in Nat
  OBVIOUS
<1>2. s \in [1 .. Len(s) -> [key : Keys \cup {"E0"}, up : BOOLEAN]]
  BY <1>1 DEF BytesT
<1>. DEFINE T == [key : Keys \cup {"E0"}, up : BOOLEAN]
<1>3. s \in [1 .. Len(s) -> T]
  BY <1>2
<1>. HIDE DEF T
<1>4. s \in Seq(T)
  BY <1>1, <1>3
<1>. QED  BY <1>4 DEF T

LEMMA FlagsType == \A s : Flags(s) \in FlagsT
BY DEF Flags, FlagsT, FlagNames

\* A flag whose two keys were down together once stays in the exception.
LEMMA ChainMonotone ==
  ASSUME NEW bs, NEW fs, NEW m1, NEW m2, m1 \subseteq m2, Chain(bs, fs, m1)
  PROVE  Chain(bs, fs, m2)
BY DEF Chain, Follows

LEMMA ChainAppend ==
  ASSUME NEW bs \in Seq(BytesT), NEW fs \in Seq(FlagsT), NEW m,
         Len(fs) = Len(bs) + 1, Chain(bs, fs, m),
         NEW b \in BytesT, NEW g \in FlagsT, Follows(b, fs[Len(fs)], g, m)
  PROVE  /\ Append(bs, b) \in Seq(BytesT) /\ Append(fs, g) \in Seq(FlagsT)
         /\ Len(Append(fs, g)) = Len(Append(bs, b)) + 1
         /\ Chain(Append(bs, b), Append(fs, g), m)
         /\ Append(fs, g)[Len(Append(fs, g))] = g
         /\ Append(fs, g)[1] = fs[1]
<1>1. /\ Append(bs, b) \in Seq(BytesT) /\ Append(fs, g) \in Seq(FlagsT)
      /\ Len(Append(fs, g)) = Len(fs) + 1 /\ Len(Append(bs, b)) = Len(bs) + 1
      /\ Append(fs, g)[Len(fs) + 1] = g /\ Append(fs, g)[1] = fs[1]
  OBVIOUS
<1>2. ASSUME NEW i \in 1 .. Len(bs) + 1
      PROVE  Follows(Append(bs, b)[i], Append(fs, g)[i], Append(fs, g)[i + 1], m)
  <2>1. CASE i <= Len(bs)
    <3>1. /\ Append(bs, b)[i] = bs[i] /\ Append(fs, g)[i] = fs[i]
          /\ Append(fs, g)[i + 1] = fs[i + 1]
      BY <2>1
    <3>2. i \in 1 .. Len(bs)
      BY <2>1
    <3>. QED  BY <3>1, <3>2 DEF Chain
  <2>2. CASE i = Len(bs) + 1
    <3>1. Append(bs, b)[i] = b /\ Append(fs, g)[i] = fs[Len(fs)] /\ Append(fs, g)[i + 1] = g
      BY <2>2
    <3>. QED  BY <3>1
  <2>. QED  BY <2>1, <2>2
<1>. QED  BY <1>1, <1>2 DEF Chain

\* Both keys of a flag are all of its keys.
LEMMA PairOf ==
  ASSUME NEW k \in DOMAIN Modifier, NEW j \in DOMAIN Modifier, j # k,
         Modifier[j] = Modifier[k],
         NEW l \in DOMAIN Modifier, Modifier[l] = Modifier[k]
  PROVE  l \in {j, k}
BY DEF Modifier

\* A press sets the flag of its key and a release clears it, unless the other
\* key of the pair stays down.
LEMMA KeyFollows ==
  ASSUME NEW s, NEW s2, NEW m, NEW k, NEW up \in BOOLEAN,
         s2 = IF up THEN s \ {k} ELSE s \cup {k}, up => k \in s,
         \A f \in FlagNames : {l \in DOMAIN Modifier : Modifier[l] = f} \subseteq s => f \in m
  PROVE  Follows([key |-> k, up |-> up], Flags(s), Flags(s2), m)
<1> SUFFICES ASSUME NEW f \in FlagNames
             PROVE  IF k \in DOMAIN Modifier /\ Modifier[k] = f
                    THEN IF up THEN f \notin m => ~ Flags(s2)[f] ELSE Flags(s2)[f]
                    ELSE Flags(s2)[f] = Flags(s)[f]
  BY DEF Follows
<1>1. \A t : Flags(t)[f] = (\E l \in t \cap DOMAIN Modifier : Modifier[l] = f)
  BY DEF Flags, FlagNames
<1>2. CASE ~ (k \in DOMAIN Modifier /\ Modifier[k] = f)
  <2>1. \A l \in DOMAIN Modifier : Modifier[l] = f => (l \in s <=> l \in s2)
    BY <1>2
  <2>2. Flags(s2)[f] = (\E l \in s2 \cap DOMAIN Modifier : Modifier[l] = f)
    BY <1>1
  <2>3. Flags(s)[f] = (\E l \in s \cap DOMAIN Modifier : Modifier[l] = f)
    BY <1>1
  <2>. QED  BY <1>2, <2>1, <2>2, <2>3
<1>3. CASE k \in DOMAIN Modifier /\ Modifier[k] = f /\ ~ up
  BY <1>1, <1>3
<1>4. CASE k \in DOMAIN Modifier /\ Modifier[k] = f /\ up
  <2>1. SUFFICES ASSUME f \notin m, NEW l \in s2 \cap DOMAIN Modifier, Modifier[l] = f
                 PROVE  FALSE
    BY <1>1, <1>4
  <2>2. \A i \in DOMAIN Modifier : Modifier[i] = f => i \in {l, k}
    BY <1>4, <2>1, PairOf
  <2>3. {i \in DOMAIN Modifier : Modifier[i] = f} \subseteq s
    BY <1>4, <2>1, <2>2
  <2>. QED  BY <2>1, <2>3
<1>. QED  BY <1>2, <1>3, <1>4

\* The prefix changes no flag.
LEMMA PrefixFollows ==
  ASSUME NEW g, NEW m  PROVE Follows(Prefix, g, g, m)
BY DEF Follows, Prefix, Modifier
-----------------------------------------------------------------------------
LEMMA FlagsInit == Init => FlagsInv
<1> SUFFICES ASSUME Init PROVE FlagsInv
  OBVIOUS
<1>1. pending \in Seq(BytesT) /\ Len(pending) = 0
  BY DEF Init
<1>2. pressed \in Seq(FlagsT) /\ Len(pressed) = 1 /\ pressed[1] = Flags({})
  BY FlagsType DEF Init
<1>3. TypeOK
  BY <1>1, <1>2, FlagsType, BytesInType DEF Init, TypeOK, FlagsT, FlagNames
<1>4. \A f \in FlagNames : \E k \in DOMAIN Modifier : Modifier[k] = f
  BY DEF FlagNames, Modifier
<1>5. Chain(pending, pressed, both) /\ Current(key_state, pressed[1], both)
  BY <1>1, <1>2 DEF Chain, Current, Init
<1>. QED  BY <1>2, <1>3, <1>4, <1>5 DEF FlagsInv, Init

LEMMA SendStep ==
  ASSUME FlagsInv, NEW k \in Keys, NEW up \in BOOLEAN, up => k \in held, Send(k, up)
  PROVE  FlagsInv'
<1> DEFINE b == [key |-> k, up |-> up]
           s2 == IF up THEN held \ {k} ELSE held \cup {k}
           ext == k \in Extended
<1>0. /\ pending \in Seq(BytesT) /\ pressed \in Seq(FlagsT)
      /\ Len(pressed) = Len(pending) + 1
  BY DEF FlagsInv, TypeOK, BytesT, FlagsT, FlagNames
<1>1. /\ held' = s2 /\ UNCHANGED <<key_state, char>> /\ both \subseteq both'
      /\ both' \subseteq FlagNames
      /\ \A f \in FlagNames :
           {l \in DOMAIN Modifier : Modifier[l] = f} \subseteq held' => f \in both'
  BY DEF Send, FlagsInv, TypeOK, FlagNames
<1>2. b \in BytesT /\ Prefix \in BytesT /\ Flags(held) \in FlagsT /\ Flags(held') \in FlagsT
  <2>1. k # "E0"
    BY KeysAssumption DEF scancode_set1, Modifier
  <2>. QED  BY <2>1, FlagsType DEF BytesT, Prefix
<1>3. Follows(b, Flags(held), Flags(held'), both')
  BY <1>1, KeyFollows DEF FlagsInv
<1>4. Chain(pending, pressed, both')
  BY <1>1, ChainMonotone DEF FlagsInv
<1> DEFINE p1 == IF ext THEN Append(pending, Prefix) ELSE pending
           f1 == IF ext THEN Append(pressed, Flags(held)) ELSE pressed
<1>5. /\ p1 \in Seq(BytesT) /\ f1 \in Seq(FlagsT) /\ Len(f1) = Len(p1) + 1
      /\ Chain(p1, f1, both') /\ f1[Len(f1)] = Flags(held) /\ f1[1] = pressed[1]
  <2>1. CASE ext
    <3>1. Follows(Prefix, pressed[Len(pressed)], Flags(held), both')
      BY PrefixFollows DEF FlagsInv
    <3>. HIDE DEF Follows, Chain
    <3>. QED  BY <2>1, <3>1, <1>0, <1>2, <1>4, ChainAppend
  <2>2. CASE ~ ext
    BY <2>2, <1>0, <1>4 DEF FlagsInv
  <2>. QED  BY <2>1, <2>2
<1>6. pending' = Append(p1, b) /\ pressed' = Append(f1, Flags(held'))
  <2>1. CASE ext
    <3>1. /\ pending' = pending \o (<<Prefix>> \o <<b>>)
          /\ pressed' = pressed \o << Flags(held) >> \o << Flags(held') >>
      BY <2>1 DEF Send
    <3>. QED  BY <3>1, <2>1, <1>0, <1>2
  <2>2. CASE ~ ext
    <3>1. /\ pending' = pending \o (<<>> \o <<b>>)
          /\ pressed' = pressed \o <<>> \o << Flags(held') >>
      BY <2>2 DEF Send
    <3>. QED  BY <3>1, <2>2, <1>0, <1>2
  <2>. QED  BY <2>1, <2>2
<1>7. /\ pending' \in Seq(BytesT) /\ pressed' \in Seq(FlagsT)
      /\ Len(pressed') = Len(pending') + 1 /\ Chain(pending', pressed', both')
      /\ pressed'[Len(pressed')] = Flags(held') /\ pressed'[1] = pressed[1]
  <2>. HIDE DEF b, p1, f1
  <2>. QED  BY <1>2, <1>3, <1>5, <1>6, ChainAppend
<1>8. TypeOK'
  <2>1. held' \subseteq Keys
    BY <1>1 DEF FlagsInv, TypeOK
  <2>. QED  BY <2>1, <1>1, <1>7, BytesInType DEF FlagsInv, TypeOK, FlagsT, FlagNames
<1>9. Current(key_state, pressed[1], both)' 
  BY <1>1, <1>7 DEF FlagsInv, Current
<1>. QED  BY <1>1, <1>7, <1>8, <1>9 DEF FlagsInv

LEMMA PollStep ==
  ASSUME FlagsInv, keyboard_read_char
  PROVE  FlagsInv'
<1> DEFINE b == Head(pending)
<1>0. /\ pending \in Seq(BytesT) /\ pressed \in Seq(FlagsT) /\ pending # <<>>
      /\ Len(pressed) = Len(pending) + 1
  BY DEF FlagsInv, TypeOK, BytesT, FlagsT, FlagNames, keyboard_read_char
<1>1. /\ pending' = Tail(pending) /\ pressed' = Tail(pressed)
      /\ UNCHANGED <<held, both>>
  BY DEF keyboard_read_char
<1>2. /\ pending' \in Seq(BytesT) /\ pressed' \in Seq(FlagsT)
      /\ Len(pending') = Len(pending) - 1 /\ Len(pressed') = Len(pending') + 1
      /\ \A i \in 1 .. Len(pending') : pending'[i] = pending[i + 1]
      /\ \A i \in 1 .. Len(pressed') : pressed'[i] = pressed[i + 1]
  BY <1>0, <1>1
<1>3. pressed'[Len(pressed')] = pressed[Len(pressed)]
  BY <1>0, <1>2
<1>4. Chain(pending', pressed', both)
  <2>1. ASSUME NEW i \in 1 .. Len(pending')
        PROVE  Follows(pending'[i], pressed'[i], pressed'[i + 1], both)
    <3>1. i + 1 \in 1 .. Len(pending) /\ i \in 1 .. Len(pressed') /\ i + 1 \in 1 .. Len(pressed')
      BY <1>0, <1>2
    <3>2. Follows(pending[i + 1], pressed[i + 1], pressed[i + 1 + 1], both)
      BY <3>1 DEF FlagsInv, Chain
    <3>. QED  BY <3>1, <3>2, <1>2
  <2>. QED  BY <2>1 DEF Chain
<1>5. Follows(b, pressed[1], pressed[2], both) /\ b \in BytesT
  BY <1>0 DEF FlagsInv, Chain
<1>6. /\ pressed'[1] = pressed[2] /\ pressed[1] \in FlagsT /\ pressed[2] \in FlagsT
      /\ key_state \in FlagsT
  BY <1>0, <1>2 DEF FlagsInv, TypeOK, FlagsT, FlagNames
<1>7. key_state' \in FlagsT /\ Current(key_state', pressed'[1], both)
  <2>1. CASE b.key \in DOMAIN Modifier
    <3>1. key_state' = [key_state EXCEPT ![Modifier[b.key]] = ~ b.up]
      BY <2>1 DEF keyboard_read_char
    <3>2. b.up \in BOOLEAN
      BY <1>5 DEF BytesT
    <3>3. \A f \in FlagNames :
            key_state'[f] = IF Modifier[b.key] = f THEN ~ b.up ELSE key_state[f]
      BY <3>1, <1>6 DEF FlagsT
    <3>4. key_state' \in FlagsT
      BY <3>1, <3>2, <1>6 DEF FlagsT
    <3>5. ASSUME NEW f \in FlagNames
          PROVE  /\ key_state'[f] => pressed[2][f]
                 /\ f \notin both => key_state'[f] = pressed[2][f]
      <4>1. (key_state[f] => pressed[1][f]) /\ (f \notin both => key_state[f] = pressed[1][f])
        BY DEF FlagsInv, Current
      <4>2. /\ key_state[f] \in BOOLEAN /\ pressed[1][f] \in BOOLEAN
            /\ pressed[2][f] \in BOOLEAN
        BY <1>6 DEF FlagsT
      <4>. QED  BY <2>1, <3>2, <3>3, <4>1, <4>2, <1>5 DEF Follows
    <3>. QED  BY <3>4, <3>5, <1>6 DEF Current
  <2>2. CASE b.key \notin DOMAIN Modifier
    <3>1. key_state' = key_state /\ pressed[2] = pressed[1]
      BY <2>2, <1>5, <1>6 DEF keyboard_read_char, Follows, FlagsT
    <3>. QED  BY <3>1, <1>6 DEF FlagsInv, Current
  <2>. QED  BY <2>1, <2>2
<1>8. char' \in Printable \cup {"LF", "CR", "BS", "HT", "NUL"}
  <2>1. CASE b.key \in DOMAIN Modifier \/ b.up
    BY <2>1 DEF keyboard_read_char
  <2>2. CASE b.key \notin DOMAIN Modifier /\ ~ b.up
    <3>1. b.key \in DOMAIN scancode_set1
      <4>1. Keys \subseteq DOMAIN scancode_set1 \cup DOMAIN Modifier
        BY KeysAssumption
      <4>2. b.key # "E0"
        BY <2>2, <1>5 DEF BytesT
      <4>. QED  BY <4>1, <4>2, <2>2, <1>5 DEF BytesT
    <3>2. char' = Decoded(b.key, key_state)
      BY <2>2 DEF keyboard_read_char
    <3>. QED  BY <3>1, <3>2, <1>6, CharTypes
  <2>. QED  BY <2>1, <2>2
<1>. QED
  BY <1>1, <1>2, <1>3, <1>4, <1>7, <1>8, BytesInType DEF FlagsInv, TypeOK, FlagsT, FlagNames

LEMMA FlagsStep == FlagsInv /\ [Next]_vars => FlagsInv'
<1> SUFFICES ASSUME FlagsInv, [Next]_vars PROVE FlagsInv'
  OBVIOUS
<1>1. ASSUME NEW k \in Keys, Press(k)  PROVE FlagsInv'
  BY <1>1, SendStep DEF Press
<1>2. ASSUME NEW k \in Keys, Release(k)  PROVE FlagsInv'
  BY <1>2, SendStep DEF Release
<1>3. ASSUME keyboard_read_char  PROVE FlagsInv'
  BY <1>3, PollStep
<1>4. ASSUME UNCHANGED vars  PROVE FlagsInv'
  BY <1>4 DEF vars, FlagsInv, TypeOK, Chain, Current
<1>. QED  BY <1>1, <1>2, <1>3, <1>4 DEF Next

LEMMA FlagsInvHolds == Spec => []FlagsInv
BY FlagsInit, FlagsStep, PTL DEF Spec

\* Only a press of a character key is decoded, and it follows the flags of the
\* byte before it.
LEMMA FlagsInvGives == FlagsInv => FlagsOfTheirTime
<1> SUFFICES ASSUME FlagsInv, pending # <<>>, Head(pending).key \in DOMAIN scancode_set1,
                    NEW f \in DOMAIN key_state
             PROVE  key_state[f] = pressed[2][f] \/ (f \in both /\ ~ key_state[f])
  BY DEF FlagsOfTheirTime
<1>1. /\ pending \in Seq(BytesT) /\ Len(pending) >= 1 /\ Head(pending) = pending[1]
      /\ pressed \in Seq(FlagsT) /\ Len(pressed) >= 2 /\ f \in FlagNames
  BY DEF FlagsInv, TypeOK, FlagsT, FlagNames
<1>2. Head(pending).key \notin DOMAIN Modifier
  BY DEF scancode_set1, Modifier
<1>3. Follows(pending[1], pressed[1], pressed[2], both)
  BY <1>1 DEF FlagsInv, Chain
<1>4. pressed[2][f] = pressed[1][f]
  BY <1>1, <1>2, <1>3 DEF Follows
<1>5. (key_state[f] => pressed[1][f]) /\ (f \notin both => key_state[f] = pressed[1][f])
  BY <1>1 DEF FlagsInv, Current
<1>6. key_state[f] \in BOOLEAN /\ pressed[1][f] \in BOOLEAN
  BY <1>1 DEF FlagsInv, TypeOK, FlagsT, FlagNames
<1>. QED  BY <1>4, <1>5, <1>6
-----------------------------------------------------------------------------
\* keyboard.c: a press is decoded with the modifiers of the moment it was sent,
\* however many bytes wait before it.
THEOREM KeyboardFlags == Spec => []FlagsOfTheirTime
BY FlagsInvHolds, FlagsInvGives, PTL

\* The shell's editor and sys_read poll the same driver and touch nothing of it
\* but what keyboard_read_char does.
THEOREM ReadersShareTheKeyboard == ConsoleSpec => Spec
<1>1. ConsoleInit => Init
  BY DEF ConsoleInit
<1>2. [ConsoleNext]_<<keys, console>> => [Next]_vars
  BY DEF ConsoleNext, ShellRead, ProgramRead, CommandEnds, sys_read, Poll, Next, keys, vars
<1>. QED  BY <1>1, <1>2, PTL DEF ConsoleSpec, Spec

\* Whoever reads, and whoever read before, a press is decoded with the
\* modifiers of its own time.
THEOREM ConsoleFlags == ConsoleSpec => []FlagsOfTheirTime
BY ReadersShareTheKeyboard, KeyboardFlags, PTL
-----------------------------------------------------------------------------
\* What a line consists of: the printable characters that are left are those at
\* the places pos of what was meant, the last one typed at the end.
Typed == Printable \cup {"LF", "CR", "BS", "HT"}

\* The counts of Erased.
Erasures(t, i, j) == Cardinality({k \in i + 1 .. j : t[k] = "BS"})
Prints(t, i, j) == Cardinality({k \in i + 1 .. j : t[k] \in Printable})
Kept(t) == {i \in DOMAIN t : t[i] \in Printable /\ ~ Erased(t, i)}

\* Behind the n-th of N places there are as many more characters than erasures
\* as there are places behind it, so that the next erasure takes the last one.
Stack(t, pos) ==
  /\ pos \in Seq(Nat)
  /\ \A n \in 1 .. Len(pos) : pos[n] \in 1 .. Len(t)
  /\ \A m, n \in 1 .. Len(pos) : m < n => pos[m] < pos[n]
  /\ Kept(t) = {pos[n] : n \in 1 .. Len(pos)}
  /\ \A n \in 1 .. Len(pos) :
       Prints(t, pos[n], Len(t)) = Erasures(t, pos[n], Len(t)) + (Len(pos) - n)

LEMMA TypedMore ==
  ASSUME NEW t \in Seq(Typed), NEW c \in Typed
  PROVE  /\ Append(t, c) \in Seq(Typed) /\ Len(Append(t, c)) = Len(t) + 1 /\ Len(t) \in Nat
         /\ DOMAIN t = 1 .. Len(t) /\ DOMAIN Append(t, c) = 1 .. Len(t) + 1
         /\ \A k \in 1 .. Len(t) : Append(t, c)[k] = t[k]
         /\ Append(t, c)[Len(t) + 1] = c
OBVIOUS

\* A set of places grows by one place at most.
LEMMA Counting ==
  ASSUME NEW S, NEW T, NEW i \in Nat, NEW L \in Nat, i <= L,
         S \subseteq i + 1 .. L,
         \A k \in i + 1 .. L : k \in T <=> k \in S,
         T \subseteq i + 1 .. L + 1
  PROVE  /\ IsFiniteSet(S) /\ Cardinality(S) \in Nat
         /\ Cardinality(T) = IF L + 1 \in T THEN Cardinality(S) + 1 ELSE Cardinality(S)
<1>1. IsFiniteSet(i + 1 .. L)
  BY FS_Interval
<1>2. IsFiniteSet(S) /\ Cardinality(S) \in Nat
  BY <1>1, FS_Subset, FS_CardinalityType
<1>3. L + 1 \notin S
  OBVIOUS
<1>4. T = IF L + 1 \in T THEN S \cup {L + 1} ELSE S
  <2>1. \A k \in i + 1 .. L + 1 : k \in i + 1 .. L \/ k = L + 1
    OBVIOUS
  <2>2. \A k : k \in T => k \in S \/ k = L + 1
    BY <2>1
  <2>3. \A k : k \in S => k \in T
    OBVIOUS
  <2>4. CASE L + 1 \in T
    BY <2>2, <2>3, <2>4
  <2>5. CASE L + 1 \notin T
    BY <2>2, <2>3, <2>5
  <2>. QED  BY <2>4, <2>5
<1>5. Cardinality(S \cup {L + 1}) = Cardinality(S) + 1
  BY <1>2, <1>3, FS_AddElement
<1>. QED  BY <1>2, <1>4, <1>5

\* The counts up to the old end, and up to the new one.
LEMMA CountsMore ==
  ASSUME NEW t \in Seq(Typed), NEW c \in Typed, NEW i \in Nat, NEW j \in Nat,
         i <= j, j <= Len(t)
  PROVE  /\ Erasures(t, i, j) \in Nat /\ Prints(t, i, j) \in Nat
         /\ Erasures(Append(t, c), i, j) = Erasures(t, i, j)
         /\ Prints(Append(t, c), i, j) = Prints(t, i, j)
         /\ Erasures(Append(t, c), i, Len(t) + 1) =
              Erasures(t, i, Len(t)) + IF c = "BS" THEN 1 ELSE 0
         /\ Prints(Append(t, c), i, Len(t) + 1) =
              Prints(t, i, Len(t)) + IF c \in Printable THEN 1 ELSE 0
<1> DEFINE u == Append(t, c)
           L == Len(t)
           B(s, m) == {k \in i + 1 .. m : s[k] = "BS"}
           P(s, m) == {k \in i + 1 .. m : s[k] \in Printable}
<1>1. /\ L \in Nat /\ \A k \in 1 .. L : u[k] = t[k]
      /\ u[L + 1] = c /\ i <= L
  BY TypedMore
<1>. HIDE DEF u, L
<1>2. B(u, j) = B(t, j) /\ P(u, j) = P(t, j)
  <2>1. \A k \in i + 1 .. j : u[k] = t[k]
    <3>1. \A k \in i + 1 .. j : k \in 1 .. L
      BY <1>1 DEF L
    <3>. QED  BY <1>1, <3>1
  <2>. QED  BY <2>1
<1>3. Cardinality(B(t, j)) \in Nat /\ Cardinality(P(t, j)) \in Nat
  <2>1. IsFiniteSet(i + 1 .. j)
    BY FS_Interval
  <2>2. B(t, j) \in SUBSET (i + 1 .. j) /\ P(t, j) \in SUBSET (i + 1 .. j)
    OBVIOUS
  <2>. HIDE DEF B, P
  <2>. QED  BY <2>1, <2>2, FS_Subset, FS_CardinalityType
<1>4. \A k \in i + 1 .. L : u[k] = t[k] /\ k \in i + 1 .. L + 1
  <2>1. \A k \in i + 1 .. L : k \in 1 .. L /\ k \in i + 1 .. L + 1
    BY <1>1
  <2>. QED  BY <1>1, <2>1
<1>5. L + 1 \in i + 1 .. L + 1
  BY <1>1
<1>6. Cardinality(B(u, L + 1)) = Cardinality(B(t, L)) + IF c = "BS" THEN 1 ELSE 0
  <2>1. /\ B(t, L) \subseteq i + 1 .. L /\ B(u, L + 1) \subseteq i + 1 .. L + 1
        /\ \A k \in i + 1 .. L : k \in B(u, L + 1) <=> k \in B(t, L)
        /\ L + 1 \in B(u, L + 1) <=> c = "BS"
    BY <1>1, <1>4, <1>5
  <2>. HIDE DEF B
  <2>2. /\ Cardinality(B(t, L)) \in Nat
        /\ Cardinality(B(u, L + 1)) = IF L + 1 \in B(u, L + 1) THEN Cardinality(B(t, L)) + 1
                                      ELSE Cardinality(B(t, L))
    <3> DEFINE S == B(t, L)
               T == B(u, L + 1)
    <3>1. i \in Nat /\ L \in Nat /\ i <= L
      BY <1>1
    <3>2. /\ S \subseteq i + 1 .. L /\ T \subseteq i + 1 .. L + 1
          /\ \A k \in i + 1 .. L : k \in T <=> k \in S
      BY <2>1
    <3>. HIDE DEF S, T
    <3>3. /\ Cardinality(S) \in Nat
          /\ Cardinality(T) = IF L + 1 \in T THEN Cardinality(S) + 1 ELSE Cardinality(S)
      BY ONLY <3>1, <3>2, Counting
    <3>. QED  BY <3>3 DEF S, T
  <2>. QED  BY <2>1, <2>2
<1>7. Cardinality(P(u, L + 1)) = Cardinality(P(t, L)) + IF c \in Printable THEN 1 ELSE 0
  <2>1. /\ P(t, L) \subseteq i + 1 .. L /\ P(u, L + 1) \subseteq i + 1 .. L + 1
        /\ \A k \in i + 1 .. L : k \in P(u, L + 1) <=> k \in P(t, L)
        /\ L + 1 \in P(u, L + 1) <=> c \in Printable
    BY <1>1, <1>4, <1>5
  <2>. HIDE DEF P
  <2>2. /\ Cardinality(P(t, L)) \in Nat
        /\ Cardinality(P(u, L + 1)) = IF L + 1 \in P(u, L + 1) THEN Cardinality(P(t, L)) + 1
                                      ELSE Cardinality(P(t, L))
    <3> DEFINE S == P(t, L)
               T == P(u, L + 1)
    <3>1. i \in Nat /\ L \in Nat /\ i <= L
      BY <1>1
    <3>2. /\ S \subseteq i + 1 .. L /\ T \subseteq i + 1 .. L + 1
          /\ \A k \in i + 1 .. L : k \in T <=> k \in S
      BY <2>1
    <3>. HIDE DEF S, T
    <3>3. /\ Cardinality(S) \in Nat
          /\ Cardinality(T) = IF L + 1 \in T THEN Cardinality(S) + 1 ELSE Cardinality(S)
      BY ONLY <3>1, <3>2, Counting
    <3>. QED  BY <3>3 DEF S, T
  <2>. QED  BY <2>1, <2>2
<1>. QED  BY <1>2, <1>3, <1>6, <1>7 DEF Erasures, Prints, u, L

\* What one more character does to what is kept.
LEMMA KeptMore ==
  ASSUME NEW t \in Seq(Typed), NEW c \in Typed
  PROVE  /\ \A i \in 1 .. Len(t) :
              i \in Kept(Append(t, c)) <=>
                i \in Kept(t) /\ ~ (c = "BS" /\ Erasures(t, i, Len(t)) >= Prints(t, i, Len(t)))
         /\ Len(t) + 1 \in Kept(Append(t, c)) <=> c \in Printable
         /\ Kept(Append(t, c)) \subseteq 1 .. Len(t) + 1
<1> DEFINE u == Append(t, c)
           L == Len(t)
<1>1. /\ L \in Nat /\ DOMAIN t = 1 .. L /\ DOMAIN u = 1 .. L + 1 /\ Len(u) = L + 1
      /\ \A k \in 1 .. L : u[k] = t[k] /\ u[L + 1] = c
  BY TypedMore
<1>2. u[L + 1] = c
  BY TypedMore
<1>3. "BS" \notin Printable
  BY DEF Printable
<1>4. \A i \in Nat, j \in Nat : i <= j /\ j <= L =>
         /\ Erasures(t, i, j) \in Nat /\ Prints(t, i, j) \in Nat
         /\ Erasures(u, i, j) = Erasures(t, i, j) /\ Prints(u, i, j) = Prints(t, i, j)
         /\ Erasures(u, i, L + 1) = Erasures(t, i, L) + IF c = "BS" THEN 1 ELSE 0
         /\ Prints(u, i, L + 1) = Prints(t, i, L) + IF c \in Printable THEN 1 ELSE 0
  BY CountsMore
<1>. HIDE DEF u, L
<1>5. \A s, i : Erased(s, i) <=> \E j \in i + 1 .. Len(s) : Erasures(s, i, j) > Prints(s, i, j)
  BY DEF Erased, Erasures, Prints
<1>6. ASSUME NEW i \in 1 .. L, ~ Erased(t, i)
      PROVE  Erased(u, i) <=> c = "BS" /\ Erasures(t, i, L) >= Prints(t, i, L)
  <2>1. i \in Nat /\ i <= L
    BY <1>1
  <2>2. /\ Erasures(t, i, L) \in Nat /\ Prints(t, i, L) \in Nat
        /\ Erasures(u, i, L + 1) = Erasures(t, i, L) + IF c = "BS" THEN 1 ELSE 0
        /\ Prints(u, i, L + 1) = Prints(t, i, L) + IF c \in Printable THEN 1 ELSE 0
    BY <1>1, <1>4, <2>1
  <2>3. L \in i + 1 .. L => ~ (Erasures(t, i, L) > Prints(t, i, L))
    BY <1>5, <1>6 DEF L
  <2>4. i = L => Erasures(t, i, L) = 0
    <3>1. {k \in L + 1 .. L : t[k] = "BS"} = {}
      BY <1>1
    <3>. QED  BY <3>1, FS_EmptySet DEF Erasures
  <2>5. ~ (Erasures(t, i, L) > Prints(t, i, L))
    BY <1>1, <2>1, <2>2, <2>3, <2>4
  <2>6. Erasures(u, i, L + 1) > Prints(u, i, L + 1) <=>
          c = "BS" /\ Erasures(t, i, L) >= Prints(t, i, L)
    BY <1>3, <2>2, <2>5
  <2>7. \A j \in i + 1 .. L : ~ (Erasures(u, i, j) > Prints(u, i, j))
    <3> SUFFICES ASSUME NEW j \in i + 1 .. L PROVE ~ (Erasures(u, i, j) > Prints(u, i, j))
      OBVIOUS
    <3>1. j \in Nat /\ i <= j /\ j <= L
      BY <1>1, <2>1
    <3>2. ~ (Erasures(t, i, j) > Prints(t, i, j))
      BY <1>5, <1>6 DEF L
    <3>. QED  BY <1>4, <2>1, <3>1, <3>2
  <2>8. i + 1 .. L + 1 = (i + 1 .. L) \cup {L + 1}
    BY <1>1, <2>1
  <2>. QED  BY <1>1, <1>5, <2>6, <2>7, <2>8
<1>7. ASSUME NEW i \in 1 .. L, Erased(t, i)
      PROVE  Erased(u, i)
  <2>1. PICK j \in i + 1 .. L : Erasures(t, i, j) > Prints(t, i, j)
    BY <1>5, <1>7 DEF L
  <2>2. i \in Nat /\ j \in Nat /\ i <= j /\ j <= L /\ j \in i + 1 .. L + 1
    BY <1>1
  <2>3. Erasures(u, i, j) > Prints(u, i, j)
    BY <1>4, <2>1, <2>2
  <2>. QED  BY <1>1, <1>5, <2>2, <2>3
<1>8. ~ Erased(u, L + 1)
  BY <1>1, <1>5
<1>9. \A i \in 1 .. L : i \in 1 .. L + 1
  BY <1>1
<1>10. L + 1 \in 1 .. L + 1
  BY <1>1
<1>. QED  BY <1>1, <1>2, <1>6, <1>7, <1>8, <1>9, <1>10 DEF Kept, u, L

LEMMA PlacesCount ==
  ASSUME NEW pos \in Seq(Nat), \A m, n \in 1 .. Len(pos) : m < n => pos[m] < pos[n],
         NEW n \in 0 .. Len(pos)
  PROVE  Cardinality({pos[m] : m \in 1 .. n}) = n
<1> DEFINE T == {pos[m] : m \in 1 .. n}
           f == [m \in 1 .. n |-> pos[m]]
<1>1. n \in Nat /\ Len(pos) \in Nat /\ n <= Len(pos)
  OBVIOUS
<1>2. \A m \in 1 .. n : m \in 1 .. Len(pos) /\ pos[m] \in Nat
  <2>1. \A m \in 1 .. n : m \in 1 .. Len(pos)
    BY <1>1
  <2>. QED  BY <2>1
<1>3. \A m, l \in 1 .. n : pos[m] = pos[l] => m = l
  <2> SUFFICES ASSUME NEW m \in 1 .. n, NEW l \in 1 .. n, m # l PROVE pos[m] # pos[l]
    OBVIOUS
  <2>1. m \in 1 .. Len(pos) /\ l \in 1 .. Len(pos) /\ (m < l \/ l < m)
    BY <1>1, <1>2
  <2>2. pos[m] < pos[l] \/ pos[l] < pos[m]
    BY <2>1
  <2>. QED  BY <1>2, <2>2
<1>4. f \in Bijection(1 .. n, T)
  BY <1>3 DEF Bijection, Injection, Surjection, IsInjective
<1>5. IsFiniteSet(1 .. n) /\ Cardinality(1 .. n) = n
  <2>1. Cardinality(1 .. n) = IF 1 > n THEN 0 ELSE n - 1 + 1
    BY <1>1, FS_Interval
  <2>. QED  BY <1>1, <2>1, FS_Interval
<1>6. ExistsBijection(1 .. n, T)
  BY <1>4 DEF ExistsBijection
<1>. HIDE DEF T
<1>7. Cardinality(T) = n
  BY <1>5, <1>6, FS_Bijection
<1>. QED  BY <1>7 DEF T

\* The definition by the number of places before is the sequence at the places.
LEMMA RemainingPlaces ==
  ASSUME NEW t, NEW pos, Stack(t, pos)
  PROVE  Remaining(t) = [n \in 1 .. Len(pos) |-> t[pos[n]]]
<1> DEFINE kept == Kept(t)
           N == Len(pos)
<1>1. /\ pos \in Seq(Nat) /\ N \in Nat /\ kept = {pos[n] : n \in 1 .. N}
      /\ \A m, n \in 1 .. N : m < n => pos[m] < pos[n]
  BY DEF Stack
<1>2. \A n \in 0 .. N : Cardinality({pos[m] : m \in 1 .. n}) = n
  BY <1>1, PlacesCount
<1>3. \A n \in 1 .. N : pos[n] \in Nat
  BY <1>1
<1>4. ASSUME NEW n \in 1 .. N
      PROVE  Cardinality({k \in kept : k < pos[n]}) = n - 1
  <2>1. \A m \in 1 .. N : pos[m] < pos[n] <=> m < n
    <3> SUFFICES ASSUME NEW m \in 1 .. N PROVE pos[m] < pos[n] <=> m < n
      OBVIOUS
    <3>1. m < n \/ m = n \/ n < m
      BY <1>1
    <3>2. pos[m] \in Nat /\ pos[n] \in Nat
      BY <1>3
    <3>3. (m < n => pos[m] < pos[n]) /\ (n < m => pos[n] < pos[m])
      BY <1>1
    <3>. QED  BY <1>1, <3>1, <3>2, <3>3
  <2>2. \A m : m \in 1 .. N /\ m < n <=> m \in 1 .. n - 1
    BY <1>1
  <2>3. {k \in kept : k < pos[n]} = {pos[m] : m \in 1 .. n - 1}
    BY <1>1, <2>1, <2>2
  <2>4. n - 1 \in 0 .. N
    BY <1>1
  <2>. QED  BY <1>2, <2>3, <2>4
<1>5. Cardinality(kept) = N
  BY <1>1, <1>2
<1>6. ASSUME NEW n \in 1 .. N
      PROVE  (CHOOSE i \in kept : Cardinality({k \in kept : k < i}) = n - 1) = pos[n]
  <2> DEFINE Q(i) == i \in kept /\ Cardinality({k \in kept : k < i}) = n - 1
  <2>1. Q(pos[n])
    BY <1>1, <1>4
  <2>2. ASSUME NEW i \in kept, Cardinality({k \in kept : k < i}) = n - 1
        PROVE  i = pos[n]
    <3>1. PICK m \in 1 .. N : i = pos[m]
      BY <1>1
    <3>2. m - 1 = n - 1
      BY <1>4, <2>2, <3>1
    <3>3. m = n
      BY <1>1, <3>2
    <3>. QED  BY <3>1, <3>3
  <2>. HIDE DEF kept
  <2>. QED  BY <2>1, <2>2
<1>7. Remaining(t) = [n \in 1 .. Cardinality(kept) |->
                        t[CHOOSE i \in kept : Cardinality({k \in kept : k < i}) = n - 1]]
  BY DEF Remaining, Kept
<1>. HIDE DEF kept
<1>. QED  BY <1>5, <1>6, <1>7

LEMMA StackEmpty == Stack(<<>>, <<>>)
BY DEF Stack, Kept

\* Sequences of places.
LEMMA PlacesMore ==
  ASSUME NEW pos \in Seq(Nat), NEW p \in Nat
  PROVE  /\ Append(pos, p) \in Seq(Nat) /\ Len(Append(pos, p)) = Len(pos) + 1 /\ Len(pos) \in Nat
         /\ \A n \in 1 .. Len(pos) : Append(pos, p)[n] = pos[n]
         /\ Append(pos, p)[Len(pos) + 1] = p
OBVIOUS

LEMMA PlacesLess ==
  ASSUME NEW T, NEW pos \in Seq(T), pos # <<>>
  PROVE  /\ Front(pos) \in Seq(T) /\ Len(Front(pos)) = Len(pos) - 1
         /\ Len(pos) \in Nat /\ Len(pos) >= 1
         /\ \A n \in 1 .. Len(pos) - 1 : Front(pos)[n] = pos[n]
<1>1. Len(pos) \in Nat /\ Len(pos) >= 1
  OBVIOUS
<1> DEFINE m == Len(pos) - 1
<1>2. m \in Nat /\ m <= Len(pos) /\ Front(pos) = SubSeq(pos, 1, m)
  BY <1>1 DEF Front
<1>. HIDE DEF m
<1>3. /\ SubSeq(pos, 1, m) \in Seq(T) /\ Len(SubSeq(pos, 1, m)) = m
      /\ \A n \in 1 .. m : SubSeq(pos, 1, m)[n] = pos[n]
  BY <1>2
<1>. QED  BY <1>1, <1>2, <1>3 DEF m

LEMMA StackPrints ==
  ASSUME NEW t \in Seq(Typed), NEW c \in Printable, NEW pos, Stack(t, pos)
  PROVE  Stack(Append(t, c), Append(pos, Len(t) + 1))
<1> DEFINE u == Append(t, c)
           L == Len(t)
           N == Len(pos)
           qos == Append(pos, L + 1)
<1>0. c \in Typed /\ c # "BS"
  BY DEF Typed, Printable
<1>1. /\ L \in Nat /\ Len(u) = L + 1 /\ pos \in Seq(Nat)
      /\ \A n \in 1 .. N : pos[n] \in 1 .. L
      /\ \A m, n \in 1 .. N : m < n => pos[m] < pos[n]
      /\ Kept(t) = {pos[n] : n \in 1 .. N}
      /\ \A n \in 1 .. N : Prints(t, pos[n], L) = Erasures(t, pos[n], L) + (N - n)
  BY <1>0, TypedMore DEF Stack
<1>2. /\ qos \in Seq(Nat) /\ Len(qos) = N + 1 /\ N \in Nat
      /\ \A n \in 1 .. N : qos[n] = pos[n]
      /\ qos[N + 1] = L + 1
  BY <1>1, PlacesMore
<1>3. \A i \in Nat : i <= L =>
         /\ Erasures(t, i, L) \in Nat /\ Prints(t, i, L) \in Nat
         /\ Erasures(u, i, L + 1) = Erasures(t, i, L)
         /\ Prints(u, i, L + 1) = Prints(t, i, L) + 1
  <2>1. \A i \in Nat : i <= L =>
         /\ Erasures(t, i, L) \in Nat /\ Prints(t, i, L) \in Nat
         /\ Erasures(u, i, L + 1) = Erasures(t, i, L) + IF c = "BS" THEN 1 ELSE 0
         /\ Prints(u, i, L + 1) = Prints(t, i, L) + IF c \in Printable THEN 1 ELSE 0
    <3> SUFFICES ASSUME NEW i \in Nat, i <= L
                 PROVE  /\ Erasures(t, i, L) \in Nat /\ Prints(t, i, L) \in Nat
                        /\ Erasures(u, i, L + 1) = Erasures(t, i, L) + IF c = "BS" THEN 1 ELSE 0
                        /\ Prints(u, i, L + 1) = Prints(t, i, L) + IF c \in Printable THEN 1 ELSE 0
      OBVIOUS
    <3>1. L \in Nat /\ L <= Len(t)
      BY <1>1
    <3>. QED  BY <1>0, <3>1, CountsMore
  <2>. QED  BY <1>0, <2>1
<1>4. /\ \A i \in 1 .. L : i \in Kept(u) <=> i \in Kept(t)
      /\ L + 1 \in Kept(u) /\ Kept(u) \subseteq 1 .. L + 1
  BY <1>0, KeptMore
<1>. HIDE DEF u, L, N, qos
<1>5. \A n \in 1 .. N + 1 : n \in 1 .. N \/ n = N + 1
  BY <1>2
<1>6. \A n \in 1 .. N + 1 : qos[n] \in 1 .. L + 1
  <2>1. \A n \in 1 .. N : qos[n] \in 1 .. L + 1
    <3>1. \A i \in 1 .. L : i \in 1 .. L + 1
      BY <1>1
    <3>. QED  BY <1>1, <1>2, <3>1
  <2>2. L + 1 \in 1 .. L + 1
    BY <1>1
  <2>. QED  BY <1>2, <1>5, <2>1, <2>2
<1>7. ASSUME NEW m \in 1 .. N + 1, NEW n \in 1 .. N + 1, m < n
      PROVE  qos[m] < qos[n]
  <2>1. m \in 1 .. N
    BY <1>2, <1>7
  <2>2. CASE n \in 1 .. N
    BY <1>1, <1>2, <1>7, <2>1, <2>2
  <2>3. CASE n = N + 1
    <3>1. pos[m] \in 1 .. L
      BY <1>1, <2>1
    <3>. QED  BY <1>1, <1>2, <2>1, <2>3, <3>1
  <2>. QED  BY <1>5, <2>2, <2>3
<1>8. Kept(u) = {qos[n] : n \in 1 .. N + 1}
  <2>1. ASSUME NEW i \in Kept(u) PROVE i \in {qos[n] : n \in 1 .. N + 1}
    <3>1. i \in 1 .. L \/ i = L + 1
      BY <1>1, <1>4
    <3>2. CASE i \in 1 .. L
      <4>1. PICK n \in 1 .. N : i = pos[n]
        BY <1>1, <1>4, <3>2
      <4>2. n \in 1 .. N + 1 /\ qos[n] = i
        BY <1>2, <4>1
      <4>. QED  BY <4>2
    <3>3. CASE i = L + 1
      <4>1. N + 1 \in 1 .. N + 1
        BY <1>2
      <4>. QED  BY <1>2, <3>3, <4>1
    <3>. QED  BY <3>1, <3>2, <3>3
  <2>2. ASSUME NEW n \in 1 .. N + 1 PROVE qos[n] \in Kept(u)
    <3>1. CASE n \in 1 .. N
      <4>1. pos[n] \in 1 .. L /\ pos[n] \in Kept(t)
        BY <1>1, <3>1
      <4>. QED  BY <1>2, <1>4, <3>1, <4>1
    <3>2. CASE n = N + 1
      BY <1>2, <1>4, <3>2
    <3>. QED  BY <1>5, <3>1, <3>2
  <2>. QED  BY <2>1, <2>2
<1>9. ASSUME NEW n \in 1 .. N + 1
      PROVE  Prints(u, qos[n], L + 1) = Erasures(u, qos[n], L + 1) + (N + 1 - n)
  <2>1. CASE n \in 1 .. N
    <3>1. qos[n] = pos[n] /\ pos[n] \in Nat /\ pos[n] <= L
      BY <1>1, <1>2, <2>1, SMTT(30)
    <3>2. Prints(t, pos[n], L) = Erasures(t, pos[n], L) + (N - n)
      BY <1>1, <2>1
    <3>. QED  BY <1>2, <1>3, <3>1, <3>2
  <2>2. CASE n = N + 1
    <3>1. L + 1 + 1 .. L + 1 = {}
      BY <1>1
    <3>2. Prints(u, L + 1, L + 1) = 0 /\ Erasures(u, L + 1, L + 1) = 0
      BY <3>1, FS_EmptySet DEF Prints, Erasures
    <3>. QED  BY <1>2, <2>2, <3>2
  <2>. QED  BY <1>5, <2>1, <2>2
<1>10. Stack(u, qos)
  BY <1>1, <1>2, <1>6, <1>7, <1>8, <1>9 DEF Stack
<1>. QED  BY <1>10 DEF u, qos, L

LEMMA StackErases ==
  ASSUME NEW t \in Seq(Typed), NEW pos, Stack(t, pos)
  PROVE  Stack(Append(t, "BS"), IF pos = <<>> THEN <<>> ELSE Front(pos))
<1> DEFINE u == Append(t, "BS")
           L == Len(t)
           N == Len(pos)
           qos == IF pos = <<>> THEN <<>> ELSE Front(pos)
           M == Len(qos)
<1>0. "BS" \in Typed /\ "BS" \notin Printable
  BY DEF Typed, Printable
<1>1. /\ L \in Nat /\ Len(u) = L + 1 /\ pos \in Seq(Nat) /\ N \in Nat
      /\ \A n \in 1 .. N : pos[n] \in 1 .. L
      /\ \A m, n \in 1 .. N : m < n => pos[m] < pos[n]
      /\ Kept(t) = {pos[n] : n \in 1 .. N}
      /\ \A n \in 1 .. N : Prints(t, pos[n], L) = Erasures(t, pos[n], L) + (N - n)
  BY <1>0, TypedMore DEF Stack
<1>2. /\ qos \in Seq(Nat) /\ M \in Nat /\ M <= N
      /\ \A n \in 1 .. N : n \in 1 .. M <=> n < N
      /\ N > 0 => M = N - 1
      /\ \A n \in 1 .. M : n \in 1 .. N /\ qos[n] = pos[n]
  <2>1. CASE pos = <<>>
    BY <2>1
  <2>2. CASE pos # <<>>
    <3>1. /\ qos \in Seq(Nat) /\ M = N - 1 /\ N >= 1
          /\ \A n \in 1 .. N - 1 : qos[n] = pos[n]
      BY <1>1, <2>2, PlacesLess
    <3>. HIDE DEF qos, M, N
    <3>. QED  BY <1>1, <3>1
  <2>. QED  BY <2>1, <2>2
<1>3. \A i \in Nat : i <= L =>
         /\ Erasures(t, i, L) \in Nat /\ Prints(t, i, L) \in Nat
         /\ Erasures(u, i, L + 1) = Erasures(t, i, L) + 1
         /\ Prints(u, i, L + 1) = Prints(t, i, L)
  <2> SUFFICES ASSUME NEW i \in Nat, i <= L
               PROVE  /\ Erasures(t, i, L) \in Nat /\ Prints(t, i, L) \in Nat
                      /\ Erasures(u, i, L + 1) = Erasures(t, i, L) + 1
                      /\ Prints(u, i, L + 1) = Prints(t, i, L)
    OBVIOUS
  <2>1. /\ Erasures(t, i, L) \in Nat /\ Prints(t, i, L) \in Nat
        /\ Erasures(u, i, L + 1) = Erasures(t, i, L) + IF "BS" = "BS" THEN 1 ELSE 0
        /\ Prints(u, i, L + 1) = Prints(t, i, L) + IF "BS" \in Printable THEN 1 ELSE 0
    <3>1. L \in Nat /\ L <= Len(t)
      BY <1>1
    <3>. QED  BY <1>0, <3>1, CountsMore
  <2>. QED  BY <1>0, <2>1
<1>4. /\ \A i \in 1 .. L : i \in Kept(u) <=>
                             i \in Kept(t) /\ ~ (Erasures(t, i, L) >= Prints(t, i, L))
      /\ L + 1 \notin Kept(u) /\ Kept(u) \subseteq 1 .. L + 1
  BY <1>0, KeptMore
<1>. HIDE DEF u, L, N, qos, M
<1>5. \A n \in 1 .. N : pos[n] \in Kept(u) <=> n \in 1 .. M
  <2> SUFFICES ASSUME NEW n \in 1 .. N PROVE pos[n] \in Kept(u) <=> n < N
    BY <1>2
  <2>1. pos[n] \in 1 .. L /\ pos[n] \in Kept(t)
    BY <1>1
  <2>2. Erasures(t, pos[n], L) \in Nat /\ Prints(t, pos[n], L) = Erasures(t, pos[n], L) + (N - n)
    BY <1>1, <1>3, <2>1
  <2>3. ~ (Erasures(t, pos[n], L) >= Prints(t, pos[n], L)) <=> n < N
    BY <1>1, <2>2
  <2>. QED  BY <1>4, <2>1, <2>3
<1>6. \A n \in 1 .. M : qos[n] \in 1 .. L + 1
  BY <1>1, <1>2
<1>7. \A m, n \in 1 .. M : m < n => qos[m] < qos[n]
  BY <1>1, <1>2
<1>8. Kept(u) = {qos[n] : n \in 1 .. M}
  <2>1. ASSUME NEW i \in Kept(u) PROVE i \in {qos[n] : n \in 1 .. M}
    <3>1. i \in 1 .. L /\ i \in Kept(t)
      <4>1. i \in 1 .. L \/ i = L + 1
        BY <1>1, <1>4
      <4>. QED  BY <1>4, <4>1
    <3>2. PICK n \in 1 .. N : i = pos[n]
      BY <1>1, <3>1
    <3>3. n \in 1 .. M /\ qos[n] = i
      BY <1>2, <1>5, <3>2
    <3>. QED  BY <3>3
  <2>2. \A n \in 1 .. M : qos[n] \in Kept(u)
    BY <1>2, <1>5
  <2>. QED  BY <2>1, <2>2
<1>9. ASSUME NEW n \in 1 .. M
      PROVE  Prints(u, qos[n], L + 1) = Erasures(u, qos[n], L + 1) + (M - n)
  <2>1. qos[n] = pos[n] /\ pos[n] \in Nat /\ pos[n] <= L /\ n \in 1 .. N
    <3>1. qos[n] = pos[n] /\ n \in 1 .. N
      BY <1>2
    <3>2. pos[n] \in 1 .. L
      BY <1>1, <3>1
    <3>. QED  BY <1>1, <3>1, <3>2
  <2>2. Prints(t, pos[n], L) = Erasures(t, pos[n], L) + (N - n) /\ M = N - 1
    BY <1>1, <1>2, <2>1
  <2>3. /\ Erasures(t, pos[n], L) \in Nat
        /\ Erasures(u, pos[n], L + 1) = Erasures(t, pos[n], L) + 1
        /\ Prints(u, pos[n], L + 1) = Prints(t, pos[n], L)
    BY <1>3, <2>1
  <2>4. n \in Nat /\ N \in Nat
    BY <1>1, <2>1
  <2> DEFINE e == Erasures(t, pos[n], L)
             q == Prints(t, pos[n], L)
  <2>5. e \in Nat /\ q = e + (N - n)
    BY <2>2, <2>3
  <2>. HIDE DEF e, q
  <2>6. q = (e + 1) + (M - n)
    BY <2>2, <2>4, <2>5
  <2>. QED  BY <2>1, <2>3, <2>6 DEF e, q
<1>10. Stack(u, qos)
  BY <1>1, <1>2, <1>6, <1>7, <1>8, <1>9 DEF Stack, M
<1>. QED  BY <1>10 DEF u, qos

LEMMA StackRests ==
  ASSUME NEW t \in Seq(Typed), NEW c \in Typed, c # "BS", c \notin Printable,
         NEW pos, Stack(t, pos)
  PROVE  Stack(Append(t, c), pos)
<1> DEFINE u == Append(t, c)
           L == Len(t)
           N == Len(pos)
<1>1. /\ L \in Nat /\ Len(u) = L + 1 /\ pos \in Seq(Nat) /\ N \in Nat
      /\ \A n \in 1 .. N : pos[n] \in 1 .. L
      /\ \A m, n \in 1 .. N : m < n => pos[m] < pos[n]
      /\ Kept(t) = {pos[n] : n \in 1 .. N}
      /\ \A n \in 1 .. N : Prints(t, pos[n], L) = Erasures(t, pos[n], L) + (N - n)
  BY TypedMore DEF Stack
<1>2. \A i \in Nat : i <= L =>
         /\ Erasures(u, i, L + 1) = Erasures(t, i, L)
         /\ Prints(u, i, L + 1) = Prints(t, i, L)
  <2> SUFFICES ASSUME NEW i \in Nat, i <= L
               PROVE  /\ Erasures(u, i, L + 1) = Erasures(t, i, L)
                      /\ Prints(u, i, L + 1) = Prints(t, i, L)
    OBVIOUS
  <2>1. /\ Erasures(t, i, L) \in Nat /\ Prints(t, i, L) \in Nat
        /\ Erasures(u, i, L + 1) = Erasures(t, i, L) + IF c = "BS" THEN 1 ELSE 0
        /\ Prints(u, i, L + 1) = Prints(t, i, L) + IF c \in Printable THEN 1 ELSE 0
    <3>1. L \in Nat /\ L <= Len(t)
      BY <1>1
    <3>. QED  BY <3>1, CountsMore
  <2>. QED  BY <2>1
<1>3. /\ \A i \in 1 .. L : i \in Kept(u) <=> i \in Kept(t)
      /\ L + 1 \notin Kept(u) /\ Kept(u) \subseteq 1 .. L + 1
  BY KeptMore
<1>. HIDE DEF u, L
<1>4. Kept(u) = Kept(t)
  <2>1. \A i \in 1 .. L + 1 : i \in 1 .. L \/ i = L + 1
    BY <1>1
  <2>2. \A i \in Kept(t) : i \in 1 .. L
    BY <1>1
  <2>. QED  BY <1>3, <2>1, <2>2
<1>5. \A n \in 1 .. N : pos[n] \in 1 .. L + 1 /\ pos[n] \in Nat /\ pos[n] <= L
  BY <1>1
<1>6. Stack(u, pos)
  BY <1>1, <1>2, <1>4, <1>5 DEF Stack
<1>. QED  BY <1>6 DEF u

\* The line of some places of what was typed.
At(t, pos) == [n \in 1 .. Len(pos) |-> t[pos[n]]]

LEMMA AtType ==
  ASSUME NEW t \in Seq(Typed), NEW pos, Stack(t, pos)
  PROVE  /\ At(t, pos) \in Seq(Typed) /\ Len(At(t, pos)) = Len(pos)
         /\ \A n \in 1 .. Len(pos) : At(t, pos)[n] = t[pos[n]]
<1>1. Len(pos) \in Nat /\ \A n \in 1 .. Len(pos) : t[pos[n]] \in Typed
  BY SMTT(30) DEF Stack
<1>2. At(t, pos) \in [1 .. Len(pos) -> Typed]
  BY <1>1 DEF At
<1>3. \A N \in Nat : \A s \in [1 .. N -> Typed] : s \in Seq(Typed) /\ Len(s) = N
  OBVIOUS
<1>. QED  BY <1>1, <1>2, <1>3 DEF At

LEMMA SameLine ==
  ASSUME NEW s \in Seq(Typed), NEW r \in Seq(Typed), Len(s) = Len(r),
         \A n \in 1 .. Len(s) : s[n] = r[n]
  PROVE  s = r
<1>1. s \in [1 .. Len(s) -> Typed] /\ r \in [1 .. Len(s) -> Typed]
  OBVIOUS
<1>2. s = [n \in 1 .. Len(s) |-> s[n]] /\ r = [n \in 1 .. Len(s) |-> r[n]]
  BY <1>1
<1>. QED  BY <1>2

\* The shell's editor does to the line what the stack of places says.
LEMMA EditStep ==
  ASSUME NEW t \in Seq(Typed), NEW c \in Typed, NEW pos, Stack(t, pos)
  PROVE  \E qos : /\ Stack(Append(t, c), qos)
                  /\ Edit(At(t, pos), c) = At(Append(t, c), qos)
                  /\ Len(qos) \in Nat /\ Len(qos) <= Len(pos) + 1
<1> DEFINE u == Append(t, c)
           l == At(t, pos)
<1>1. /\ l \in Seq(Typed) /\ Len(l) = Len(pos) /\ pos \in Seq(Nat) /\ Len(pos) \in Nat
      /\ \A n \in 1 .. Len(pos) : l[n] = t[pos[n]]
  <2>1. pos \in Seq(Nat)
    BY DEF Stack
  <2>2. Len(pos) \in Nat
    BY <2>1
  <2>. QED  BY <2>1, <2>2, AtType
<1>2. u \in Seq(Typed) /\ \A k \in 1 .. Len(t) : u[k] = t[k]
  BY TypedMore
<1>3. \A n \in 1 .. Len(pos) : u[pos[n]] = l[n]
  BY <1>1, <1>2 DEF Stack
<1>4. Len(t) \in Nat /\ u[Len(t) + 1] = c
  BY TypedMore
<1>. HIDE DEF l, u
<1>5. CASE c = "BS"
  <2> DEFINE qos == IF pos = <<>> THEN <<>> ELSE Front(pos)
  <2>1. Stack(u, qos)
    BY <1>5, StackErases DEF u
  <2>2. /\ At(u, qos) \in Seq(Typed) /\ Len(At(u, qos)) = Len(qos)
        /\ \A n \in 1 .. Len(qos) : At(u, qos)[n] = u[qos[n]]
    <3>. HIDE DEF qos
    <3>. QED  BY <1>2, <2>1, AtType
  <2>3. CASE pos = <<>>
    <3>1. l = <<>> /\ Len(qos) = 0
      BY <1>1, <2>3
    <3>2. Edit(l, c) = l
      BY <1>5, <3>1 DEF Edit
    <3>3. At(u, qos) = <<>>
      BY <2>2, <3>1
    <3>4. 0 \in Nat /\ 0 <= Len(pos) + 1
      BY <1>1
    <3>. HIDE DEF qos
    <3>. QED  BY <2>1, <3>1, <3>2, <3>3, <3>4 DEF l, u
  <2>4. CASE pos # <<>>
    <3>1. /\ qos \in Seq(Nat) /\ Len(qos) = Len(pos) - 1 /\ Len(pos) >= 1
          /\ \A n \in 1 .. Len(pos) - 1 : qos[n] = pos[n]
      BY <1>1, <2>4, PlacesLess
    <3>2. l # <<>>
      BY <1>1, <3>1
    <3>3. /\ Front(l) \in Seq(Typed) /\ Len(Front(l)) = Len(l) - 1
          /\ \A n \in 1 .. Len(l) - 1 : Front(l)[n] = l[n]
      BY <1>1, <3>2, PlacesLess
    <3>4. Edit(l, c) = Front(l)
      BY <1>5, <3>2 DEF Edit
    <3>. HIDE DEF qos
    <3>5. Front(l) = At(u, qos)
      <4>1. Len(Front(l)) = Len(At(u, qos))
        BY <1>1, <2>2, <3>1, <3>3
      <4>2. ASSUME NEW n \in 1 .. Len(Front(l)) PROVE Front(l)[n] = At(u, qos)[n]
        <5>1. n \in 1 .. Len(l) - 1 /\ n \in 1 .. Len(pos) - 1 /\ n \in 1 .. Len(qos)
              /\ n \in 1 .. Len(pos)
          BY <1>1, <3>1, <3>3
        <5>. QED  BY <1>3, <2>2, <3>1, <3>3, <5>1
      <4>. QED  BY <2>2, <3>3, <4>1, <4>2, SameLine
    <3>6. Len(qos) \in Nat /\ Len(qos) <= Len(pos) + 1
      BY <1>1, <3>1
    <3>. QED  BY <2>1, <3>4, <3>5, <3>6 DEF l, u
  <2>. QED  BY <2>3, <2>4
<1>6. CASE c \in Printable
  <2> DEFINE qos == Append(pos, Len(t) + 1)
  <2>1. Stack(u, qos)
    BY <1>6, StackPrints DEF u
  <2>2. /\ Len(qos) = Len(pos) + 1 /\ \A n \in 1 .. Len(pos) : qos[n] = pos[n]
        /\ qos[Len(pos) + 1] = Len(t) + 1
    <3>1. Len(t) + 1 \in Nat
      BY <1>4
    <3>. QED  BY <1>1, <3>1, PlacesMore
  <2>. HIDE DEF qos
  <2>3. /\ At(u, qos) \in Seq(Typed) /\ Len(At(u, qos)) = Len(qos)
        /\ \A n \in 1 .. Len(qos) : At(u, qos)[n] = u[qos[n]]
    BY <1>2, <2>1, AtType
  <2>4. Edit(l, c) = Append(l, c)
    <3>1. c \notin {"BS", "DEL"}
      BY <1>6 DEF Printable
    <3>. QED  BY <1>6, <3>1 DEF Edit
  <2>5. /\ Append(l, c) \in Seq(Typed) /\ Len(Append(l, c)) = Len(l) + 1
        /\ \A k \in 1 .. Len(l) : Append(l, c)[k] = l[k]
        /\ Append(l, c)[Len(l) + 1] = c
    BY <1>1, TypedMore
  <2>6. Append(l, c) = At(u, qos)
    <3>1. Len(Append(l, c)) = Len(At(u, qos))
      BY <1>1, <2>2, <2>3, <2>5
    <3>2. ASSUME NEW n \in 1 .. Len(Append(l, c)) PROVE Append(l, c)[n] = At(u, qos)[n]
      <4>1. (n \in 1 .. Len(pos) \/ n = Len(pos) + 1) /\ n \in 1 .. Len(qos)
        BY <1>1, <2>2, <2>5
      <4>2. CASE n \in 1 .. Len(pos)
        BY <1>1, <1>3, <2>2, <2>3, <2>5, <4>1, <4>2
      <4>3. CASE n = Len(pos) + 1
        BY <1>1, <1>4, <2>2, <2>3, <2>5, <4>1, <4>3
      <4>. QED  BY <4>1, <4>2, <4>3
    <3>. QED  BY <2>3, <2>5, <3>1, <3>2, SameLine
  <2>7. Len(qos) \in Nat /\ Len(qos) <= Len(pos) + 1
    BY <1>1, <2>2
  <2>. QED  BY <2>1, <2>4, <2>6, <2>7 DEF l, u
<1>7. CASE c # "BS" /\ c \notin Printable
  <2>1. Stack(u, pos)
    BY <1>7, StackRests DEF u
  <2>2. Edit(l, c) = l
    BY <1>7 DEF Edit, Typed
  <2>3. At(u, pos) = l
    <3>1. /\ At(u, pos) \in Seq(Typed) /\ Len(At(u, pos)) = Len(pos)
          /\ \A n \in 1 .. Len(pos) : At(u, pos)[n] = u[pos[n]]
      BY <1>2, <2>1, AtType
    <3>. QED  BY <1>1, <1>3, <3>1, SameLine
  <2>4. Len(pos) <= Len(pos) + 1
    BY <1>1
  <2>. QED  BY <1>1, <2>1, <2>2, <2>3, <2>4 DEF l, u
<1>. QED  BY <1>5, <1>6, <1>7
-----------------------------------------------------------------------------
\* Until the line is complete there is room for one more character.
EditInv ==
  /\ \E pos : Stack(meant, pos) /\ line = At(meant, pos)
  /\ Len(line) < SHELL_BUFSZ /\ (reader = "shell" => Len(line) < SHELL_BUFSZ - 1)

InputInv ==
  /\ line = [k \in DOMAIN meant |-> IF meant[k] = "CR" THEN "LF" ELSE meant[k]]
  /\ Len(line) <= to_read /\ \A k \in 1 .. Len(line) - 1 : line[k] # "LF"
  /\ reader = "program" => Len(line) < to_read /\ \A k \in 1 .. Len(line) : line[k] # "LF"

LineInv ==
  /\ reader \in {"shell", "run", "program", "done"} /\ want \in Nat /\ meant \in Seq(Typed)
  /\ both = {} => IF reader \in {"shell", "run"} THEN EditInv ELSE InputInv

\* What was meant is a character or none.
LEMMA MeansType ==
  ASSUME FlagsInv, pending # <<>>
  PROVE  Means \in Typed \cup {"NUL"}
<1>1. /\ pressed \in Seq(FlagsT) /\ pending \in Seq(BytesT)
      /\ Len(pressed) = Len(pending) + 1
  BY DEF FlagsInv, TypeOK, FlagsT, FlagNames, BytesT
<1>2. pressed[2] \in FlagsT
  BY <1>1
<1>. QED  BY <1>2, CharTypes DEF Means, Typed

\* The character that the driver returns is the one that was meant.
LEMMA MeansChar ==
  ASSUME FlagsInv, keyboard_read_char, both = {}
  PROVE  char' = Means
<1> DEFINE b == Head(pending)
<1>1. /\ pending \in Seq(BytesT) /\ pressed \in Seq(FlagsT) /\ pending # <<>>
      /\ Len(pressed) = Len(pending) + 1 /\ key_state \in FlagsT
  BY DEF FlagsInv, TypeOK, BytesT, FlagsT, FlagNames, keyboard_read_char
<1>2. b \in BytesT /\ pressed[2] \in FlagsT
  BY <1>1
<1>. HIDE DEF b
<1>3. CASE b.key \in DOMAIN Modifier
  <2>1. b.key \notin DOMAIN scancode_set1
    BY <1>3 DEF Modifier, scancode_set1
  <2>. QED  BY <1>3, <2>1 DEF keyboard_read_char, Means, b
<1>4. CASE b.key \notin DOMAIN Modifier /\ b.up
  BY <1>4 DEF keyboard_read_char, Means, b
<1>5. CASE b.key \notin DOMAIN Modifier /\ ~ b.up
  <2>1. b.key \in DOMAIN scancode_set1
    <3>1. Keys \subseteq DOMAIN scancode_set1 \cup DOMAIN Modifier
      BY KeysAssumption
    <3>2. b.key \in Keys
      BY <1>2, <1>5 DEF BytesT
    <3>. QED  BY <1>5, <3>1, <3>2
  <2>2. \A f \in DOMAIN key_state : key_state[f] = pressed[2][f]
    BY <1>1, <1>5, <2>1, FlagsInvGives DEF FlagsOfTheirTime, b
  <2>3. key_state = pressed[2]
    BY <1>1, <1>2, <2>2 DEF FlagsT
  <2>4. char' = Decoded(b.key, key_state)
    BY <1>5 DEF keyboard_read_char, b
  <2>5. Means = Decoded(b.key, pressed[2])
    BY <1>5, <2>1 DEF Means, b
  <2>. QED  BY <2>3, <2>4, <2>5
<1>. QED  BY <1>3, <1>4, <1>5

LEMMA NoLine == At(<<>>, <<>>) = <<>> /\ <<>> \in Seq(Typed) /\ Len(<<>>) = 0
BY DEF At

LEMMA LineInit == ConsoleInit => LineInv
<1> SUFFICES ASSUME ConsoleInit PROVE LineInv
  OBVIOUS
<1>1. EditInv
  BY NoLine, StackEmpty, ConsoleAssumption DEF ConsoleInit, EditInv
<1>. QED  BY <1>1, NoLine DEF ConsoleInit, LineInv

\* A poll appends to what was meant, if a character was meant.
LEMMA PollMeans ==
  ASSUME FlagsInv, meant \in Seq(Typed), Poll
  PROVE  /\ meant' \in Seq(Typed) /\ both' = both
         /\ both = {} => /\ char' = "NUL" => meant' = meant
                         /\ char' # "NUL" => char' \in Typed /\ meant' = Append(meant, char')
<1>1. keyboard_read_char /\ meant' = (IF Means = "NUL" THEN meant ELSE Append(meant, Means))
      /\ pending # <<>> /\ both' = both
  BY DEF Poll, keyboard_read_char
<1>2. Means \in Typed \cup {"NUL"}
  BY <1>1, MeansType
<1>3. both = {} => char' = Means
  BY <1>1, MeansChar
<1>4. "NUL" \notin Typed
  BY DEF Typed, Printable
<1>. HIDE DEF Means, Typed
<1>5. meant' \in Seq(Typed)
  <2>1. \A s \in Seq(Typed), c \in Typed : Append(s, c) \in Seq(Typed)
    OBVIOUS
  <2>. QED  BY <1>1, <1>2, <2>1
<1>. QED  BY <1>1, <1>2, <1>3, <1>5

LEMMA ShellReadStep == ASSUME FlagsInv, LineInv, ShellRead PROVE LineInv'
<1>1. /\ reader = "shell" /\ Poll /\ want' = want
      /\ line' = IF char' = "NUL" THEN line ELSE Edit(line, char')
      /\ reader' = IF char' \in {"LF", "CR"} \/ Len(line') = SHELL_BUFSZ - 1 THEN "run" ELSE "shell"
  BY DEF ShellRead
<1>2. reader' \in {"shell", "run"} /\ meant \in Seq(Typed) /\ want' \in Nat
  BY <1>1 DEF LineInv
<1>3. /\ meant' \in Seq(Typed) /\ both' = both
      /\ both = {} => /\ char' = "NUL" => meant' = meant
                      /\ char' # "NUL" => char' \in Typed /\ meant' = Append(meant, char')
  BY <1>1, <1>2, PollMeans
<1>4. SHELL_BUFSZ \in Nat
  BY ConsoleAssumption
<1>5. ASSUME both = {} PROVE EditInv'
  <2>1. EditInv
    BY <1>1, <1>5 DEF LineInv
  <2>2. PICK pos : Stack(meant, pos) /\ line = At(meant, pos)
    BY <2>1 DEF EditInv
  <2>3. Len(line) < SHELL_BUFSZ - 1
    BY <1>1, <2>1 DEF EditInv
  <2>4. Len(line) = Len(pos) /\ Len(pos) \in Nat
    <3>1. pos \in Seq(Nat)
      BY <2>2 DEF Stack
    <3>2. Len(pos) \in Nat
      BY <3>1
    <3>. QED  BY <1>2, <2>2, <3>2, AtType
  <2>5. CASE char' = "NUL"
    <3>1. meant' = meant /\ line' = line
      BY <1>1, <1>3, <1>5, <2>5
    <3>2. Len(line') < SHELL_BUFSZ - 1 /\ Len(line') < SHELL_BUFSZ
      BY <1>4, <2>3, <2>4, <3>1
    <3>. QED  BY <2>2, <3>1, <3>2 DEF EditInv
  <2>6. CASE char' # "NUL"
    <3>1. char' \in Typed /\ meant' = Append(meant, char') /\ line' = Edit(line, char')
      BY <1>1, <1>3, <1>5, <2>6
    <3>2. PICK qos : /\ Stack(meant', qos) /\ line' = At(meant', qos)
                     /\ Len(qos) \in Nat /\ Len(qos) <= Len(pos) + 1
      BY <1>2, <2>2, <3>1, EditStep
    <3>3. Len(line') = Len(qos)
      BY <1>3, <3>2, AtType
    <3>4. Len(line') < SHELL_BUFSZ /\ (Len(line') # SHELL_BUFSZ - 1 => Len(line') < SHELL_BUFSZ - 1)
      BY <1>4, <2>3, <2>4, <3>2, <3>3
    <3>5. reader' = "shell" => Len(line') # SHELL_BUFSZ - 1
      BY <1>1
    <3>. QED  BY <3>2, <3>4, <3>5 DEF EditInv
  <2>. QED  BY <2>5, <2>6
<1>. QED  BY <1>2, <1>3, <1>5 DEF LineInv

LEMMA ProgramReadStep == ASSUME FlagsInv, LineInv, ProgramRead PROVE LineInv'
<1>1. /\ reader = "program" /\ Poll /\ want' = want
      /\ line' = CASE char' = "NUL" -> line
                   [] char' = "CR" -> Append(line, "LF")
                   [] OTHER -> Append(line, char')
      /\ reader' = IF char' \in {"LF", "CR"} \/ Len(line') = to_read THEN "done" ELSE "program"
  BY DEF ProgramRead
<1>2. reader' \in {"program", "done"} /\ meant \in Seq(Typed) /\ want' \in Nat /\ to_read \in Nat
      /\ to_read' = to_read
  BY <1>1, ConsoleAssumption DEF LineInv, to_read
<1>3. /\ meant' \in Seq(Typed) /\ both' = both
      /\ both = {} => /\ char' = "NUL" => meant' = meant
                      /\ char' # "NUL" => char' \in Typed /\ meant' = Append(meant, char')
  BY <1>1, <1>2, PollMeans
<1>4. ASSUME both = {} PROVE InputInv'
  <2>1. /\ line = [k \in DOMAIN meant |-> IF meant[k] = "CR" THEN "LF" ELSE meant[k]]
        /\ Len(line) < to_read /\ \A k \in 1 .. Len(line) : line[k] # "LF"
    BY <1>1, <1>4 DEF LineInv, InputInv
  <2>2. line \in Seq(Typed) /\ Len(line) = Len(meant) /\ Len(meant) \in Nat
    <3>1. Len(meant) \in Nat /\ DOMAIN meant = 1 .. Len(meant)
          /\ \A k \in 1 .. Len(meant) : meant[k] \in Typed
      BY <1>2
    <3>2. "LF" \in Typed
      BY DEF Typed
    <3>3. line \in [1 .. Len(meant) -> Typed]
      BY <2>1, <3>1, <3>2
    <3>4. \A N \in Nat : \A s \in [1 .. N -> Typed] : s \in Seq(Typed) /\ Len(s) = N
      OBVIOUS
    <3>. QED  BY <3>1, <3>3, <3>4
  <2>3. CASE char' = "NUL"
    <3>1. meant' = meant /\ line' = line
      BY <1>1, <1>3, <1>4, <2>3
    <3>2. Len(line') <= to_read /\ \A k \in 1 .. Len(line') - 1 : k \in 1 .. Len(line')
      BY <1>2, <2>1, <2>2, <3>1
    <3>. QED  BY <1>1, <1>2, <2>1, <3>1, <3>2 DEF InputInv
  <2>4. CASE char' # "NUL"
    <3> DEFINE c == IF char' = "CR" THEN "LF" ELSE char'
    <3>1. char' \in Typed /\ meant' = Append(meant, char') /\ line' = Append(line, c)
      BY <1>1, <1>3, <1>4, <2>4
    <3>2. c \in Typed /\ (c = "LF" <=> char' \in {"LF", "CR"})
      BY <3>1 DEF Typed
    <3>. HIDE DEF c
    <3>3. /\ line' \in Seq(Typed) /\ Len(line') = Len(line) + 1
          /\ \A k \in 1 .. Len(line) : line'[k] = line[k]
          /\ line'[Len(line) + 1] = c /\ DOMAIN line' = 1 .. Len(line) + 1
      BY <2>2, <3>1, <3>2, TypedMore
    <3>4. /\ DOMAIN meant' = 1 .. Len(meant) + 1
          /\ \A k \in 1 .. Len(meant) : meant'[k] = meant[k]
          /\ meant'[Len(meant) + 1] = char' /\ DOMAIN meant = 1 .. Len(meant)
      BY <1>2, <3>1, TypedMore
    <3>5. line' = [k \in DOMAIN meant' |-> IF meant'[k] = "CR" THEN "LF" ELSE meant'[k]]
      <4>1. ASSUME NEW k \in 1 .. Len(meant) + 1
            PROVE  line'[k] = IF meant'[k] = "CR" THEN "LF" ELSE meant'[k]
        <5>1. k \in 1 .. Len(meant) \/ k = Len(meant) + 1
          BY <2>2
        <5>2. CASE k \in 1 .. Len(meant)
          BY <2>1, <2>2, <3>3, <3>4, <5>2
        <5>3. CASE k = Len(meant) + 1
          BY <2>2, <3>3, <3>4, <5>3 DEF c
        <5>. QED  BY <5>1, <5>2, <5>3
      <4>2. line' = [k \in 1 .. Len(meant) + 1 |-> line'[k]]
        <5>1. \A s \in Seq(Typed) : s = [k \in DOMAIN s |-> s[k]]
          OBVIOUS
        <5>. QED  BY <2>2, <3>3, <5>1
      <4>. QED  BY <3>4, <4>1, <4>2
    <3>6. Len(line') <= to_read /\ (Len(line') # to_read => Len(line') < to_read)
      BY <1>2, <2>1, <2>2, <3>3
    <3>7. \A k \in 1 .. Len(line') - 1 : line'[k] # "LF"
      <4>1. \A k \in 1 .. Len(line') - 1 : k \in 1 .. Len(line)
        BY <2>2, <3>3
      <4>. QED  BY <2>1, <3>3, <4>1
    <3>8. reader' = "program" => c # "LF" /\ Len(line') # to_read
      BY <1>1, <3>2
    <3>9. c # "LF" => \A k \in 1 .. Len(line') : line'[k] # "LF"
      <4>1. \A k \in 1 .. Len(line') : k \in 1 .. Len(line) \/ k = Len(line) + 1
        BY <2>2, <3>3
      <4>. QED  BY <2>1, <3>3, <4>1
    <3>. QED  BY <1>1, <1>2, <3>5, <3>6, <3>7, <3>8, <3>9 DEF InputInv
  <2>. QED  BY <2>3, <2>4
<1>. QED  BY <1>2, <1>3, <1>4 DEF LineInv

LEMMA LineStep == FlagsInv /\ LineInv /\ [ConsoleNext]_<<keys, console>> => LineInv'
<1> SUFFICES ASSUME FlagsInv, LineInv, [ConsoleNext]_<<keys, console>> PROVE LineInv'
  OBVIOUS
<1>1. CASE UNCHANGED console /\ both \subseteq both'
  <2>1. UNCHANGED <<reader, line, want, meant>> /\ (both' = {} => both = {})
    BY <1>1 DEF console
  <2>. QED  BY <2>1 DEF LineInv, EditInv, InputInv, to_read
<1>2. ASSUME NEW k \in Keys, (Press(k) \/ Release(k)) /\ UNCHANGED console
      PROVE  LineInv'
  <2>1. both \subseteq both'
    BY <1>2 DEF Press, Release, Send
  <2>. QED  BY <1>1, <1>2, <2>1
<1>3. CASE ShellRead
  BY <1>3, ShellReadStep
<1>4. CASE ProgramRead
  BY <1>4, ProgramReadStep
<1>5. CASE CommandEnds
  <2>1. reader' = "shell" /\ line' = <<>> /\ meant' = <<>> /\ want' = want
    BY <1>5 DEF CommandEnds, NewLine
  <2>2. EditInv'
    BY <2>1, NoLine, StackEmpty, ConsoleAssumption DEF EditInv
  <2>. QED  BY <2>1, <2>2, NoLine DEF LineInv
<1>6. ASSUME NEW n \in Counts, sys_read(n)
      PROVE  LineInv'
  <2>1. reader' = "program" /\ line' = <<>> /\ meant' = <<>> /\ want' = n
    BY <1>6 DEF sys_read, NewLine
  <2>2. n \in Nat \ {0} /\ to_read' \in Nat \ {0}
    BY <2>1, ConsoleAssumption DEF to_read
  <2>3. InputInv'
    BY <2>1, <2>2, NoLine DEF InputInv
  <2>. QED  BY <2>1, <2>2, <2>3, NoLine DEF LineInv
<1>7. CASE UNCHANGED <<keys, console>>
  BY <1>1, <1>7 DEF keys
<1>. QED  BY <1>2, <1>3, <1>4, <1>5, <1>6, <1>7 DEF ConsoleNext

LEMMA LineInvGives == LineInv => TypedLine
<1> SUFFICES ASSUME LineInv, both = {} PROVE TypedLine
  BY DEF TypedLine
<1>1. CASE reader \in {"shell", "run"}
  <2>1. EditInv
    BY <1>1 DEF LineInv
  <2>2. PICK pos : Stack(meant, pos) /\ line = At(meant, pos)
    BY <2>1 DEF EditInv
  <2>3. line = Remaining(meant)
    BY <2>2, RemainingPlaces DEF At
  <2>. QED  BY <1>1, <2>1, <2>3 DEF EditInv, TypedLine
<1>2. CASE reader \notin {"shell", "run"}
  <2>1. InputInv /\ want \in Nat /\ KBUF \in Nat /\ Len(line) \in Nat
    <3>1. InputInv /\ want \in Nat /\ meant \in Seq(Typed)
      BY <1>2 DEF LineInv
    <3>2. Len(meant) \in Nat /\ DOMAIN meant = 1 .. Len(meant)
      BY <3>1
    <3>3. \A N \in Nat : \A f : f = [k \in 1 .. N |-> f[k]] => Len(f) = N
      OBVIOUS
    <3>4. line = [k \in 1 .. Len(meant) |-> line[k]]
      BY <3>1, <3>2 DEF InputInv
    <3>5. Len(line) = Len(meant)
      BY <3>2, <3>3, <3>4
    <3>. QED  BY <3>1, <3>2, <3>5, ConsoleAssumption
  <2>2. Len(line) <= want /\ Len(line) <= KBUF
    BY <2>1 DEF InputInv, to_read
  <2>. QED  BY <1>2, <2>1, <2>2 DEF InputInv, TypedLine
<1>. QED  BY <1>1, <1>2

\* shell.c:401-421 and syscall.c:260-274: whatever the sizes of the buffers, and
\* however the presses, polls and readers interleave, the shell's line has the
\* characters that were meant and not erased, and a program is given all that
\* was meant, up to the first end of a line and no more than it asked for.
THEOREM LinesAreAsTyped == ConsoleSpec => []TypedLine
<1>1. FlagsInv /\ LineInv /\ [ConsoleNext]_<<keys, console>> => LineInv'
  BY LineStep
<1>2. ConsoleSpec => []FlagsInv
  BY ReadersShareTheKeyboard, FlagsInvHolds, PTL
<1>. QED  BY <1>1, <1>2, LineInit, LineInvGives, PTL DEF ConsoleSpec
=============================================================================
