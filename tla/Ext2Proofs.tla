----------------------------- MODULE Ext2Proofs -----------------------------
(***************************************************************************)
(* The ext2 driver on every image and every path: where cd leads, that ls  *)
(* and lookup agree, and that a read gives the file's bytes.               *)
(***************************************************************************)
EXTENDS Ext2, TLAPS, WellFoundedInduction

\* A non-empty set of naturals has a least element.
LEMMA LeastNat ==
  ASSUME NEW S \in SUBSET Nat, S # {}
  PROVE  \E m \in S : \A x \in S : m <= x
<1>1. PICK m \in S : \A x \in S : ~ (<<x, m>> \in OpToRel(<, Nat))
  BY WFMin, NatLessThanWellFounded
<1>2. \A x \in S : ~ (x < m)
  BY <1>1 DEF OpToRel
<1>. QED  BY <1>2

\* A set that has 0, and with a number below n the next one, has all up to n.
LEMMA UpTo ==
  ASSUME NEW n \in Nat, NEW S, 0 \in S, \A k \in 1..n : k - 1 \in S => k \in S
  PROVE  0..n \subseteq S
<1>. DEFINE T == (0..n) \ S
<1>1. ASSUME T # {} PROVE FALSE
  <2>1. T \in SUBSET Nat
    OBVIOUS
  <2>2. PICK m \in T : \A x \in T : m <= x
    <3>. HIDE DEF T
    <3>. QED  BY <1>1, <2>1, LeastNat
  <2>3. m \in 1..n /\ m - 1 \in 0..n /\ ~ (m <= m - 1)
    BY <2>2
  <2>4. m - 1 \in S
    BY <2>2, <2>3
  <2>. QED  BY <2>2, <2>3, <2>4
<1>. QED  BY <1>1

\* A function that is defined by a loop, from its value before the first
\* round to the one after the last, is that function.
Loop(f, n, a, step) == f = [k \in 0..n |-> IF k = 0 THEN a ELSE step[k][f[k - 1]]]

LEMMA LoopExists ==
  ASSUME NEW n \in Nat, NEW S, NEW a \in S, NEW step \in [1..n -> [S -> S]]
  PROVE  \E f \in [0..n -> S] : Loop(f, n, a, step)
<1>. DEFINE Upto(m, f) == f[0] = a /\ \A k \in 1..m : f[k] = step[k][f[k - 1]]
            G(m) == \E f \in [0..m -> S] : Upto(m, f)
            Good == {m \in 0..n : G(m)}
<1>1. G(0)
  <2>. DEFINE f == [k \in 0..0 |-> a]
  <2>1. f \in [0..0 -> S] /\ f[0] = a /\ 1..0 = {}
    OBVIOUS
  <2>. HIDE DEF f
  <2>. QED  BY <2>1
<1>2. ASSUME NEW m \in 1..n, G(m - 1) PROVE G(m)
  <2>1. PICK f \in [0..(m - 1) -> S] : Upto(m - 1, f)
    BY <1>2
  <2>. DEFINE g == [k \in 0..m |-> IF k < m THEN f[k] ELSE step[m][f[m - 1]]]
  <2>2. f[m - 1] \in S /\ step[m][f[m - 1]] \in S
    <3>1. m - 1 \in 0..(m - 1) /\ step[m] \in [S -> S]
      OBVIOUS
    <3>. QED  BY <3>1
  <2>3. g \in [0..m -> S]
    <3>1. \A k \in 0..m : k < m => k \in 0..(m - 1)
      OBVIOUS
    <3>. QED  BY <2>2, <3>1
  <2>4. g[0] = a
    BY <2>1
  <2>5. \A k \in 1..m : g[k] = step[k][g[k - 1]]
    <3> TAKE k \in 1..m
    <3>0. k \in 0..m /\ k - 1 \in 0..m /\ k - 1 < m /\ g[k - 1] = f[k - 1]
      OBVIOUS
    <3>1. CASE k = m
      BY <3>0, <3>1
    <3>2. CASE k < m
      <4>1. g[k] = f[k] /\ k \in 1..(m - 1)
        BY <3>0, <3>2
      <4>. HIDE DEF g
      <4>. QED  BY <2>1, <3>0, <4>1
    <3>. QED  BY <3>1, <3>2
  <2>. HIDE DEF g
  <2>. QED  BY <2>3, <2>4, <2>5
<1>3. G(n)
  <2>. HIDE DEF G
  <2>1. 0 \in Good /\ \A m \in 1..n : m - 1 \in Good => m \in Good
    BY <1>1, <1>2
  <2>2. 0..n \subseteq Good
    <3>. HIDE DEF Good
    <3>. QED  BY <2>1, UpTo
  <2>. QED  BY <2>2
<1>4. PICK f \in [0..n -> S] : Upto(n, f)
  BY <1>3
<1>5. f = [k \in 0..n |-> IF k = 0 THEN a ELSE step[k][f[k - 1]]]
  <2>1. \A k \in 0..n : f[k] = IF k = 0 THEN a ELSE step[k][f[k - 1]]
    BY <1>4
  <2>. QED  BY <2>1
<1>. QED  BY <1>5 DEF Loop

LEMMA LoopRound ==
  ASSUME NEW n \in Nat, NEW a, NEW step, NEW f, Loop(f, n, a, step)
  PROVE  f[0] = a /\ \A k \in 1..n : f[k] = step[k][f[k - 1]]
<1>1. \A k \in 0..n : f[k] = IF k = 0 THEN a ELSE step[k][f[k - 1]]
  BY DEF Loop
<1>2. \A k \in 1..n : k \in 0..n /\ k # 0
  OBVIOUS
<1>3. 0 \in 0..n
  OBVIOUS
<1>. QED  BY <1>1, <1>2, <1>3

\* Two such functions agree.
LEMMA LoopUnique ==
  ASSUME NEW n \in Nat, NEW m \in 0..n, NEW a, NEW step, NEW other, NEW f, NEW g,
         Loop(f, n, a, step), Loop(g, m, a, other), \A k \in 1..m : step[k] = other[k]
  PROVE  \A k \in 0..m : f[k] = g[k]
<1>. DEFINE Good == {k \in 0..m : f[k] = g[k]}
<1>1. 0 \in Good
  BY DEF Loop
<1>2. ASSUME NEW k \in 1..m, k - 1 \in Good PROVE k \in Good
  BY <1>2 DEF Loop
<1>3. 0..m \subseteq Good
  <2>. HIDE DEF Good
  <2>. QED  BY <1>1, <1>2, UpTo
<1>. QED  BY <1>3
-----------------------------------------------------------------------------
Inodes == {0} \cup DOMAIN inodes
Texts == Seq(Chars)

LEMMA InodesAre == DOMAIN inodes \subseteq Nat \ {0} /\ 2 \in DOMAIN inodes /\ 0 \notin DOMAIN inodes
BY Ext2Assumption

LEMMA RootType == 2 \in Inodes
BY InodesAre DEF Inodes

LEMMA SlashType == "/" \in Chars
BY Ext2Assumption

LEMMA LookupType ==
  ASSUME NEW n, NEW name
  PROVE  Lookup(n, name) \in Inodes
BY DEF Lookup, ext2_read_inode, Inodes

LEMMA BeginType ==
  ASSUME NEW n \in Inodes
  PROVE  Begin(n) \in Walks /\ Begin(n).inode = n /\ Begin(n).name = <<>>
<1>1. <<>> \in Texts
  BY DEF Texts
<1>. QED  BY <1>1 DEF Begin, Walks, Inodes, Texts

\* A walk reads another character; a slash ends a name, and a second one
\* changes nothing.
LEMMA ReadType ==
  ASSUME NEW char \in Chars
  PROVE  Read(char) \in [Walks -> Walks]
<1>. SUFFICES ASSUME NEW walk \in Walks PROVE Read(char)[walk] \in Walks
  BY DEF Read
<1>1. walk.inode \in Inodes /\ walk.name \in Texts
  BY DEF Walks, Inodes, Texts
<1>2. CASE char # "/"
  <2>1. Append(walk.name, char) \in Texts
    BY <1>1 DEF Texts
  <2>. QED  BY <1>1, <1>2, <2>1 DEF Read, Walks, Inodes, Texts
<1>3. CASE char = "/"
  <2>1. (IF walk.name = <<>> THEN walk.inode ELSE Lookup(walk.inode, walk.name)) \in Inodes
    BY <1>1, LookupType
  <2>. QED  BY <1>3, <2>1, BeginType DEF Read
<1>. QED  BY <1>2, <1>3

LEMMA ReadSlash ==
  ASSUME NEW walk \in Walks
  PROVE  LET next == Read("/")[walk]
         IN next.inode \in Inodes /\ next = Begin(next.inode) /\ Read("/")[next] = next
<1>. DEFINE n == IF walk.name = <<>> THEN walk.inode ELSE Lookup(walk.inode, walk.name)
<1>1. n \in Inodes
  BY LookupType DEF Walks, Inodes
<1>2. Read("/")[walk] = Begin(n)
  BY DEF Read
<1>. HIDE DEF n
<1>3. Begin(n) \in Walks /\ Begin(n).inode = n /\ Begin(n).name = <<>>
  BY <1>1, BeginType
<1>4. Read("/")[Begin(n)] = Begin(n)
  BY <1>3 DEF Read
<1>. QED  BY <1>1, <1>2, <1>3, <1>4

Steps(text) == [k \in 1..Len(text) |-> Read(text[k])]

LEMMA StepsType ==
  ASSUME NEW text \in Texts
  PROVE  Len(text) \in Nat /\ Steps(text) \in [1..Len(text) -> [Walks -> Walks]]
<1>1. Len(text) \in Nat /\ \A k \in 1..Len(text) : text[k] \in Chars
  BY DEF Texts
<1>2. \A k \in 1..Len(text) : Read(text[k]) \in [Walks -> Walks]
  BY <1>1, ReadType
<1>. QED  BY <1>1, <1>2 DEF Steps

LEMMA WalkLoop ==
  ASSUME NEW walk \in Walks, NEW text \in Texts
  PROVE  \E f \in [0..Len(text) -> Walks] :
            Loop(f, Len(text), walk, Steps(text)) /\ Walk(walk, text) = f[Len(text)]
<1>. DEFINE N == Len(text)
            Is(f) == f = [k \in 0..N |-> IF k = 0 THEN walk ELSE Read(text[k])[f[k - 1]]]
            at == CHOOSE f : Is(f)
<1>0. N \in Nat /\ Steps(text) \in [1..N -> [Walks -> Walks]]
  BY StepsType
<1>1. PICK f \in [0..N -> Walks] : Loop(f, N, walk, Steps(text))
  BY <1>0, LoopExists
<1>2. ASSUME NEW g PROVE Is(g) <=> Loop(g, N, walk, Steps(text))
  <2>1. \A k \in 0..N : k # 0 => Steps(text)[k] = Read(text[k])
    BY <1>0 DEF Steps
  <2>2. \A k \in 0..N : (IF k = 0 THEN walk ELSE Read(text[k])[g[k - 1]])
                          = (IF k = 0 THEN walk ELSE Steps(text)[k][g[k - 1]])
    BY <2>1
  <2>. QED  BY <2>2 DEF Loop
<1>3. Is(at)
  <2>1. Is(f)
    BY <1>1, <1>2
  <2>. HIDE DEF Is
  <2>. QED  BY <2>1
<1>4. Walk(walk, text) = at[N]
  BY DEF Walk
<1>5. \A k \in 0..N : f[k] = at[k]
  <2>1. Loop(at, N, walk, Steps(text))
    <3>. HIDE DEF Is, at
    <3>. QED  BY <1>2, <1>3
  <2>2. N \in 0..N
    BY <1>0
  <2>. HIDE DEF N, at
  <2>. QED  BY <1>0, <1>1, <2>1, <2>2, LoopUnique
<1>6. N \in 0..N
  BY <1>0
<1>. QED  BY <1>1, <1>4, <1>5, <1>6

LEMMA WalkType ==
  ASSUME NEW walk \in Walks, NEW text \in Texts
  PROVE  Walk(walk, text) \in Walks
<1>1. PICK f \in [0..Len(text) -> Walks] : Walk(walk, text) = f[Len(text)]
  BY WalkLoop
<1>2. Len(text) \in 0..Len(text)
  BY StepsType
<1>. QED  BY <1>1, <1>2

\* A text's walk passes where the walk of its beginning ends.
LEMMA WalkAppend ==
  ASSUME NEW walk \in Walks, NEW s \in Texts, NEW t \in Texts
  PROVE  Walk(walk, s \o t) = Walk(Walk(walk, s), t)
<1>0. /\ s \o t \in Texts /\ Len(s) \in Nat /\ Len(t) \in Nat
      /\ Len(s \o t) = Len(s) + Len(t)
      /\ \A k \in 1..Len(s) : (s \o t)[k] = s[k]
      /\ \A k \in 1..Len(t) : (s \o t)[Len(s) + k] = t[k]
  BY DEF Texts
<1>. DEFINE N == Len(s) + Len(t)
            a == Steps(s \o t)
            b == Steps(s)
            c == Steps(t)
            m == Len(s)
            l == Len(t)
<1>1. PICK f \in [0..N -> Walks] : Loop(f, N, walk, a) /\ Walk(walk, s \o t) = f[N]
  BY <1>0, WalkLoop
<1>2. PICK g \in [0..m -> Walks] : Loop(g, m, walk, b) /\ Walk(walk, s) = g[m]
  BY WalkLoop
<1>3. PICK h \in [0..l -> Walks] :
        Loop(h, l, Walk(walk, s), c) /\ Walk(Walk(walk, s), t) = h[l]
  BY WalkType, WalkLoop
<1>4. /\ N \in Nat /\ m \in Nat /\ l \in Nat /\ m \in 0..N /\ N = m + l
      /\ \A k \in 1..m : a[k] = b[k]
      /\ \A k \in 1..l : a[m + k] = c[k]
  <2>1. \A k \in 1..m : k \in 1..Len(s \o t)
    BY <1>0
  <2>2. \A k \in 1..l : m + k \in 1..Len(s \o t)
    BY <1>0
  <2>. QED  BY <1>0, <2>1, <2>2 DEF Steps
<1>. HIDE DEF N, a, b, c, m, l
<1>5. f[m] = g[m]
  <2>0. Loop(f, N, walk, a) /\ Loop(g, m, walk, b) /\ N \in Nat /\ m \in 0..N
        /\ \A k \in 1..m : a[k] = b[k]
    BY <1>1, <1>2, <1>4
  <2>1. \A k \in 0..m : f[k] = g[k]
    BY <2>0, LoopUnique
  <2>. QED  BY <1>4, <2>1
<1>. DEFINE Good == {k \in 0..l : f[m + k] = h[k]}
<1>6. 0..l \subseteq Good
  <2>1. 0 \in Good
    <3>1. h[0] = g[m] /\ m + 0 = m /\ 0 \in 0..l
      BY <1>2, <1>3, <1>4, LoopRound
    <3>. QED  BY <1>5, <3>1
  <2>2. ASSUME NEW k \in 1..l, k - 1 \in Good PROVE k \in Good
    <3>1. m + k \in 1..N /\ m + k - 1 = m + (k - 1) /\ k \in 0..l
      BY <1>4
    <3>2. f[m + k] = a[m + k][f[m + k - 1]]
      BY <1>1, <1>4, <3>1, LoopRound
    <3>3. h[k] = c[k][h[k - 1]]
      <4>1. Loop(h, l, Walk(walk, s), c) /\ l \in Nat
        BY <1>3, <1>4
      <4>2. \A i \in 1..l : h[i] = c[i][h[i - 1]]
        BY <4>1, LoopRound
      <4>. QED  BY <4>2
    <3>. QED  BY <1>4, <2>2, <3>1, <3>2, <3>3
  <2>. HIDE DEF Good
  <2>. QED  BY <1>4, <2>1, <2>2, UpTo
<1>7. l \in Good
  BY <1>4, <1>6
<1>. QED  BY <1>1, <1>3, <1>4, <1>7

LEMMA WalkOne ==
  ASSUME NEW walk \in Walks, NEW char \in Chars
  PROVE  Walk(walk, <<char>>) = Read(char)[walk]
<1>1. <<char>> \in Texts /\ Len(<<char>>) = 1 /\ <<char>>[1] = char
  BY DEF Texts
<1>2. PICK f \in [0..1 -> Walks] :
        Loop(f, 1, walk, Steps(<<char>>)) /\ Walk(walk, <<char>>) = f[1]
  BY <1>1, WalkLoop
<1>3. f[0] = walk /\ f[1] = Steps(<<char>>)[1][f[0]]
  <2>1. 1 \in Nat /\ 1 \in 1..1 /\ 1 - 1 = 0
    OBVIOUS
  <2>. QED  BY <1>2, <2>1, LoopRound
<1>4. Steps(<<char>>)[1] = Read(char)
  BY <1>1 DEF Steps
<1>. QED  BY <1>2, <1>3, <1>4

Slash == <<"/">>

LEMMA SlashText == Slash \in Texts /\ Len(Slash) = 1
BY SlashType DEF Slash, Texts

\* Behind a slash, a walk is at an inode and has read nothing of a name.
LEMMA WholePath ==
  ASSUME NEW n \in Inodes, NEW path \in Texts
  PROVE  /\ WalkFrom(n, path) \in Inodes
         /\ Walk(Begin(n), path \o Slash) = Begin(WalkFrom(n, path))
         /\ Walk(Begin(WalkFrom(n, path)), Slash) = Begin(WalkFrom(n, path))
<1>. DEFINE w == Walk(Begin(n), path)
            next == Read("/")[w]
<1>1. w \in Walks
  BY BeginType, WalkType
<1>2. Walk(Begin(n), path \o Slash) = next
  <2>1. Walk(Begin(n), path \o Slash) = Walk(w, Slash)
    BY BeginType, SlashText, WalkAppend
  <2>. QED  BY <1>1, <2>1, SlashType, WalkOne DEF Slash
<1>3. next.inode \in Inodes /\ next = Begin(next.inode) /\ Read("/")[next] = next
  BY <1>1, ReadSlash
<1>4. WalkFrom(n, path) = next.inode
  BY <1>2 DEF WalkFrom, Slash
<1>. HIDE DEF next
<1>5. Walk(next, Slash) = Read("/")[next]
  BY <1>3, BeginType, SlashType, WalkOne DEF Slash
<1>. QED  BY <1>2, <1>3, <1>4, <1>5

LEMMA WalkRoot == WalkFrom(2, Slash) = 2
<1>1. Begin(2) \in Walks /\ Begin(2).inode = 2 /\ Begin(2).name = <<>>
  BY RootType, BeginType
<1>2. Walk(Begin(2), Slash) = Begin(2)
  <2>1. Read("/")[Begin(2)] = Begin(2)
    BY <1>1 DEF Read
  <2>. QED  BY <1>1, <2>1, SlashType, WalkOne DEF Slash
<1>3. Walk(Begin(2), Slash \o Slash) = Begin(2)
  BY <1>1, <1>2, SlashText, WalkAppend
<1>. QED  BY <1>1, <1>3 DEF WalkFrom, Slash
-----------------------------------------------------------------------------
LEMMA BufferType == FS_MAX_PATH \in Nat \ {0, 1}
BY Ext2Assumption

\* What is cut fits, and what fits is left alone; the beginning stays.
LEMMA CutType ==
  ASSUME NEW text \in Texts
  PROVE  /\ Cut(text) \in Texts /\ Len(Cut(text)) < FS_MAX_PATH /\ Cut(Cut(text)) = Cut(text)
         /\ Len(text) < FS_MAX_PATH => Cut(text) = text
         /\ text # <<>> => Cut(text) # <<>> /\ Len(Cut(text)) \in 1..(FS_MAX_PATH - 1)
<1>0. Len(text) \in Nat
  BY DEF Texts
<1>1. CASE Len(text) < FS_MAX_PATH
  <2>1. Cut(text) = text
    BY <1>1 DEF Cut
  <2>2. text # <<>> => Len(text) # 0
    BY DEF Texts
  <2>. QED  BY <1>0, <1>1, <2>1, <2>2, BufferType
<1>2. CASE ~ (Len(text) < FS_MAX_PATH)
  <2>1. FS_MAX_PATH - 1 \in 1..Len(text)
    BY <1>0, <1>2, BufferType
  <2>2. Cut(text) = SubSeq(text, 1, FS_MAX_PATH - 1)
    BY <1>2 DEF Cut
  <2>3. Cut(text) \in Texts /\ Len(Cut(text)) = FS_MAX_PATH - 1
    BY <2>1, <2>2 DEF Texts
  <2>4. Cut(Cut(text)) = Cut(text)
    BY <2>3, BufferType DEF Cut
  <2>5. Cut(text) # <<>>
    BY <2>3, BufferType
  <2>. QED  BY <1>2, <2>1, <2>3, <2>4, <2>5, BufferType
<1>. QED  BY <1>1, <1>2

\* The text of fs.current_dir begins somewhere and fits into its buffer.
IsDirText(dir) == dir \in Texts /\ dir # <<>> /\ Len(dir) \in 1..(FS_MAX_PATH - 1)
Directories == IsDirText(fs_dir) /\ IsDirText(ext2_dir)

LEMMA Fits ==
  ASSUME NEW dir, IsDirText(dir)
  PROVE  Cut(dir) = dir /\ ext2_find_inode_by_path(dir) = WalkFrom(2, dir)
<1>1. Cut(dir) = dir
  <2>1. Len(dir) < FS_MAX_PATH
    BY BufferType DEF IsDirText
  <2>. QED  BY <2>1 DEF Cut
<1>. QED  BY <1>1 DEF ext2_find_inode_by_path, IsDirText

LEMMA PathsType ==
  ASSUME NEW path \in Paths
  PROVE  path \in Texts
BY Ext2Assumption DEF Texts

Absolute(path) == path[1] = "/"
Trails(dir) == Last(dir) = "/"

LEMMA JoinIs ==
  ASSUME NEW dir, NEW path
  PROVE  Join(dir, path) = IF Absolute(path) THEN path
                           ELSE (IF Trails(dir) THEN dir ELSE Append(dir, "/")) \o path
BY DEF Join, Absolute, Trails

LEMMA SubSequence ==
  ASSUME NEW T, NEW s \in Seq(T), NEW m \in Nat \ {0}, NEW n \in Int, n <= Len(s)
  PROVE  /\ SubSeq(s, m, n) \in Seq(T)
         /\ m <= n + 1 => Len(SubSeq(s, m, n)) = n + 1 - m
         /\ n < m => SubSeq(s, m, n) = <<>>
         /\ \A k \in 1..(n + 1 - m) : SubSeq(s, m, n)[k] = s[m + k - 1]
OBVIOUS

LEMMA FrontIs ==
  ASSUME NEW s \in Texts, NEW l \in Nat, l + 1 = Len(s)
  PROVE  /\ SubSeq(s, 1, l) \in Texts /\ Len(SubSeq(s, 1, l)) = l
         /\ \A k \in 1..l : SubSeq(s, 1, l)[k] = s[k]
<1>1. s \in Seq(Chars) /\ l \in Int /\ l <= Len(s) /\ l + 1 - 1 = l /\ 1 <= l + 1
  BY DEF Texts
<1>2. /\ SubSeq(s, 1, l) \in Seq(Chars) /\ Len(SubSeq(s, 1, l)) = l + 1 - 1
      /\ \A k \in 1..(l + 1 - 1) : SubSeq(s, 1, l)[k] = s[1 + k - 1]
  BY <1>1, SubSequence
<1>3. \A k \in 1..l : 1 + k - 1 = k
  OBVIOUS
<1>. QED  BY <1>1, <1>2, <1>3 DEF Texts

\* A directory with a slash at its end is walked like one without.
LEMMA WalkDir ==
  ASSUME NEW dir \in Texts, dir # <<>>
  PROVE  LET whole == IF Trails(dir) THEN dir ELSE Append(dir, "/")
         IN whole \in Texts /\ Walk(Begin(2), whole) = Begin(WalkFrom(2, dir))
<1>1. CASE ~ Trails(dir)
  <2>1. Append(dir, "/") = dir \o Slash /\ Append(dir, "/") \in Texts
    BY SlashType DEF Texts, Slash
  <2>. QED  BY <1>1, <2>1, WholePath, RootType
<1>2. CASE Trails(dir)
  <2>. DEFINE front == SubSeq(dir, 1, Len(dir) - 1)
  <2>1. front \in Texts /\ dir = front \o Slash
    <3>0. Len(dir) \in Nat \ {0} /\ dir[Len(dir)] = "/"
      BY <1>2 DEF Texts, Trails, Last
    <3>1. Len(dir) - 1 \in Nat /\ (Len(dir) - 1) + 1 = Len(dir)
      BY <3>0
    <3>2. front \in Texts /\ Len(front) = Len(dir) - 1
          /\ \A k \in 1..(Len(dir) - 1) : front[k] = dir[k]
      BY <3>1, FrontIs
    <3>. HIDE DEF front
    <3>3. front \o Slash \in Texts /\ Len(front \o Slash) = Len(dir)
      <4>. DEFINE both == front \o Slash
      <4>1. both \in Texts
        BY <3>2, SlashText DEF Texts
      <4>2. Len(both) = Len(front) + Len(Slash)
        <5>1. front \in Seq(Chars) /\ Slash \in Seq(Chars)
          BY <3>2, SlashText DEF Texts
        <5>. QED  BY <5>1
      <4>3. Len(both) = Len(dir)
        BY <3>0, <3>2, <4>2, SlashText
      <4>. QED  BY <4>1, <4>3
    <3>4. \A k \in 1..Len(dir) : (front \o Slash)[k] = dir[k]
      BY <3>0, <3>2, SlashText DEF Texts, Slash
    <3>. QED  BY <3>2, <3>3, <3>4 DEF Texts
  <2>. HIDE DEF front
  <2>. DEFINE n == WalkFrom(2, front)
  <2>2. n \in Inodes /\ Walk(Begin(2), dir) = Begin(n) /\ Walk(Begin(n), Slash) = Begin(n)
    BY <2>1, WholePath, RootType
  <2>. HIDE DEF n
  <2>3. Walk(Begin(2), dir \o Slash) = Begin(n)
    BY <2>2, BeginType, RootType, SlashText, WalkAppend
  <2>4. WalkFrom(2, dir) = n
    BY <2>2, <2>3, BeginType DEF WalkFrom, Slash
  <2>. QED  BY <1>2, <2>2, <2>4
<1>. QED  BY <1>1, <1>2

LEMMA JoinType ==
  ASSUME NEW dir \in Texts, dir # <<>>, NEW path \in Texts, path # <<>>
  PROVE  /\ Join(dir, path) \in Texts /\ Join(dir, path) # <<>>
         /\ WalkFrom(2, Join(dir, path))
              = WalkFrom(IF Absolute(path) THEN 2 ELSE WalkFrom(2, dir), path)
<1>1. CASE Absolute(path)
  BY <1>1, JoinIs
<1>2. CASE ~ Absolute(path)
  <2>. DEFINE whole == IF Trails(dir) THEN dir ELSE Append(dir, "/")
              n == WalkFrom(2, dir)
  <2>1. whole \in Texts /\ Walk(Begin(2), whole) = Begin(n) /\ n \in Inodes
    BY WalkDir, WholePath, RootType
  <2>2. Join(dir, path) = whole \o path
    BY <1>2, JoinIs
  <2>. HIDE DEF whole, n
  <2>3. whole \o path \in Texts /\ whole \o path # <<>>
    <3>1. Len(path) \in Nat \ {0} /\ Len(whole) \in Nat /\ whole \o path \in Texts
      BY <2>1 DEF Texts
    <3>2. Len(whole \o path) = Len(whole) + Len(path)
      BY <2>1 DEF Texts
    <3>. QED  BY <3>1, <3>2
  <2>4. WalkFrom(2, whole \o path) = WalkFrom(n, path)
    <3>1. (whole \o path) \o Slash = whole \o (path \o Slash) /\ path \o Slash \in Texts
      BY <2>1, SlashText DEF Texts
    <3>2. Walk(Begin(2), whole \o (path \o Slash)) = Walk(Begin(n), path \o Slash)
      BY <2>1, <3>1, BeginType, RootType, WalkAppend
    <3>. QED  BY <3>1, <3>2 DEF WalkFrom, Slash
  <2>. QED  BY <1>2, <2>2, <2>3, <2>4 DEF n
<1>. QED  BY <1>1, <1>2

\* What a cd makes of the directory.
LEMMA CdPath ==
  ASSUME Directories, NEW path \in Paths, Cd(path)
  PROVE  LET abs == Cut(Join(fs_dir, path))
         IN /\ path \in Texts /\ path # <<>>
            /\ IsDirText(abs) /\ fs_dir' = abs /\ ext2_dir' = abs
            /\ IsDir(WalkFrom(2, abs))
            /\ UNCHANGED <<scanned, active_fs, file, fd_table, halted>>
<1>. DEFINE whole == Join(fs_dir, path)
            abs == Cut(whole)
<1>1. path \in Texts /\ path # <<>>
  BY PathsType DEF Cd
<1>2. whole \in Texts /\ whole # <<>>
  BY <1>1, JoinType DEF Directories, IsDirText
<1>. HIDE DEF whole
<1>3. IsDirText(abs) /\ Cut(abs) = abs
  BY <1>2, CutType DEF IsDirText
<1>4. /\ ext2_change_dir(abs) /\ fs_dir' = Cut(abs)
      /\ UNCHANGED <<scanned, active_fs, file, fd_table, halted>>
  BY DEF Cd, whole
<1>. HIDE DEF abs
<1>5. ext2_dir' = abs /\ IsDir(WalkFrom(2, abs))
  BY <1>3, <1>4, Fits DEF ext2_change_dir
<1>. QED  BY <1>1, <1>3, <1>4, <1>5 DEF abs, whole

LEMMA RootText == IsDirText(Slash)
BY SlashText, BufferType DEF IsDirText

LEMMA DirectoriesStep ==
  ASSUME Directories, [Next]_vars
  PROVE  Directories'
<1>1. ASSUME NEW path \in Paths, Cd(path) PROVE Directories'
  BY <1>1, CdPath DEF Directories
<1>2. CASE CdRoot
  BY <1>2, RootText DEF CdRoot, Directories, Slash
<1>3. CASE UNCHANGED <<fs_dir, ext2_dir>>
  BY <1>3 DEF Directories
<1>. QED
  BY <1>1, <1>2, <1>3 DEF Next, vars, ScanNext, CdOverrun, Load, Chmod, Open, Close

LEMMA DirectoriesInit == Init => Directories
BY RootText DEF Init, Directories, Slash

\* fs.c:159-183: cd goes from where the shell is, however the directory's text
\* and the path are put together, unless the two are cut.
THEOREM CdLeads == Spec => CdLeadsThere
<1>. DEFINE Leads == \A path \in Paths :
              Cd(path) /\ Len(Join(fs_dir, path)) < FS_MAX_PATH => Here' = Target(path)
<1>1. Directories /\ [Next]_vars => [Leads]_vars
  <2> SUFFICES ASSUME Directories, NEW path \in Paths, Cd(path),
                      Len(Join(fs_dir, path)) < FS_MAX_PATH
               PROVE  Here' = Target(path)
    OBVIOUS
  <2>. DEFINE abs == Join(fs_dir, path)
  <2>1. path \in Texts /\ path # <<>> /\ IsDirText(Cut(abs)) /\ fs_dir' = Cut(abs)
    BY CdPath
  <2>2. Cut(abs) = abs
    BY DEF Cut
  <2>3. Here' = WalkFrom(2, abs)
    BY <2>1, <2>2, Fits DEF Here
  <2>4. Here = WalkFrom(2, fs_dir)
    BY Fits DEF Here, Directories
  <2>5. WalkFrom(2, abs) = WalkFrom(IF Absolute(path) THEN 2 ELSE Here, path)
    BY <2>1, <2>4, JoinType DEF Directories, IsDirText
  <2>. QED  BY <2>3, <2>5 DEF Target, Absolute
<1>. QED  BY <1>1, DirectoriesInit, DirectoriesStep, PTL DEF Spec, CdLeadsThere
-----------------------------------------------------------------------------
\* The root is a directory, and the image has no devices and sockets.
PlainImage == IsDir(2) /\ \A n \in DOMAIN inodes : IsDir(n) => inodes[n].mode \div 4096 = 4

DirInv ==
  /\ TypeOK /\ Directories /\ fd_table \in [Fds -> Inodes]
  /\ IsDir(Here)
  /\ fs_dir = ext2_dir \/ fs_dir = <<"/">>

\* What the static struct says of the inode it was filled from.
FileInv ==
  /\ file.of \in Inodes /\ file.mode \in Nat
  /\ file.of # 0 => file.size = inodes[file.of].size /\ file.data = inodes[file.of].blocks

LEMMA Opened ==
  ASSUME NEW path, NEW n \in DOMAIN inodes, NEW mode \in Nat, ext2_open(path, n, mode)
  PROVE  FileInv' /\ file'.of = n
BY DEF ext2_open, FileOf, FileInv, Inodes

LEMMA FileInvStep ==
  ASSUME FileInv, [Next]_vars
  PROVE  FileInv'
<1>1. CASE UNCHANGED file
  BY <1>1 DEF FileInv
<1>2. ASSUME NEW path \in Paths, Load(path) PROVE FileInv'
  BY <1>2, Opened DEF Load
<1>3. ASSUME NEW path \in Paths, Chmod(path, 420) PROVE FileInv'
  BY <1>3, Opened DEF Chmod
<1>4. ASSUME NEW path \in Paths, NEW fd \in Fds, Open(fd, path) PROVE FileInv'
  BY <1>4, Opened DEF Open
<1>. QED  BY <1>1, <1>2, <1>3, <1>4 DEF Next, vars, ScanNext, CdRoot, Cd, CdOverrun, Close

LEMMA NoFileIs == NoFile.of = 0 /\ NoFile.mode = 0
BY DEF NoFile

LEMMA FileInvInit == Init => FileInv
BY NoFileIs DEF Init, FileInv, Inodes

LEMMA HereType ==
  ASSUME Directories
  PROVE  Here \in Inodes
<1>1. Here = WalkFrom(2, fs_dir)
  BY Fits DEF Directories, Here
<1>. QED  BY <1>1, WholePath, RootType DEF Directories, IsDirText

LEMMA DirInvInit == PlainImage /\ Init => DirInv
<1> SUFFICES ASSUME PlainImage, Init PROVE DirInv
  OBVIOUS
<1>1. Directories
  BY DirectoriesInit
<1>2. Here = 2
  BY WalkRoot, RootText, Fits DEF Init, Here, Slash
<1>3. TypeOK /\ fd_table \in [Fds -> Inodes]
  <2>1. Len(Candidates) \in Nat
    BY Ext2Assumption
  <2>2. \A dir \in {fs_dir, ext2_dir} : Len(dir) \in 1..(FS_MAX_PATH - 1)
    BY <1>1 DEF Directories, IsDirText
  <2>3. halted \in BOOLEAN
    BY DEF Init
  <2>4. /\ scanned \in 0..Len(Candidates) /\ active_fs \in {"INITRAMFS", "EXT2"}
        /\ file.of \in {0} \cup DOMAIN inodes /\ file.mode \in Nat
        /\ \A fd \in Fds : fd_table[fd] \in {0} \cup DOMAIN inodes
        /\ fd_table \in [Fds -> Inodes]
    BY <2>1, NoFileIs DEF Init, Inodes
  <2>. QED  BY <2>2, <2>3, <2>4 DEF TypeOK
<1>. QED  BY <1>1, <1>2, <1>3 DEF DirInv, Init, PlainImage

LEMMA DirInvStep ==
  ASSUME PlainImage, DirInv, FileInv, [Next]_vars
  PROVE  DirInv'
<1>0. Directories' /\ FileInv'
  BY DirectoriesStep, FileInvStep DEF DirInv
<1>1. /\ (file.of \in {0} \cup DOMAIN inodes /\ file.mode \in Nat)'
      /\ \A dir \in {fs_dir', ext2_dir'} : Len(dir) \in 1..(FS_MAX_PATH - 1)
  BY <1>0 DEF FileInv, Inodes, Directories, IsDirText
<1>2. CASE UNCHANGED <<fs_dir, ext2_dir>>
  <2>1. (IsDir(Here) /\ (fs_dir = ext2_dir \/ fs_dir = <<"/">>))'
    BY <1>2 DEF DirInv, Here
  <2>2. halted' \in BOOLEAN
    <3>1. CASE UNCHANGED halted
      BY <3>1 DEF DirInv, TypeOK
    <3>2. ASSUME NEW path \in Paths, CdOverrun(path) PROVE halted' \in BOOLEAN
      BY <3>2 DEF CdOverrun
    <3>3. ASSUME NEW path \in Paths, Load(path) PROVE halted' \in BOOLEAN
      <4>1. PICK n \in DOMAIN inodes : halted' = (inodes[n].size >= ElfHeader)
        BY <3>3, Zenon DEF Load
      <4>2. (inodes[n].size >= ElfHeader) \in BOOLEAN
        BY Ext2Assumption DEF Inode
      <4>. QED  BY <4>1, <4>2, Zenon
    <3>. QED  BY <3>1, <3>2, <3>3 DEF Next, vars, ScanNext, CdRoot, Cd, Chmod, Open, Close
  <2>3. fd_table' \in [Fds -> Inodes]
    <3>1. CASE UNCHANGED fd_table
      BY <3>1 DEF DirInv
    <3>2. ASSUME NEW path \in Paths, NEW fd \in Fds, Open(fd, path) PROVE fd_table' \in [Fds -> Inodes]
      BY <3>2 DEF Open, DirInv, Inodes
    <3>3. ASSUME NEW fd \in Fds, Close(fd) PROVE fd_table' \in [Fds -> Inodes]
      BY <3>3 DEF Close, DirInv, Inodes
    <3>. QED
      BY <3>1, <3>2, <3>3 DEF Next, vars, ScanNext, CdRoot, Cd, CdOverrun, Load, Chmod
  <2>4. (scanned \in 0..Len(Candidates) /\ active_fs \in {"INITRAMFS", "EXT2"})'
    <3>1. CASE UNCHANGED <<scanned, active_fs>>
      BY <3>1 DEF DirInv, TypeOK
    <3>2. CASE ScanNext
      <4>1. Len(Candidates) \in Nat
        BY Ext2Assumption
      <4>. QED  BY <3>2, <4>1 DEF ScanNext, DirInv, TypeOK
    <3>. QED  BY <3>1, <3>2 DEF Next, vars, CdRoot, Cd, CdOverrun, Load, Chmod, Open, Close
  <2>5. \A fd \in Fds : fd_table'[fd] \in {0} \cup DOMAIN inodes
    BY <2>3 DEF Inodes
  <2>. QED  BY <1>0, <1>1, <2>1, <2>2, <2>3, <2>4, <2>5 DEF DirInv, TypeOK
<1>3. CASE CdRoot
  <2>1. Here' = 2
    BY <1>3, WalkRoot, RootText, Fits DEF CdRoot, Here, Slash
  <2>. QED  BY <1>0, <1>1, <1>3, <2>1 DEF CdRoot, DirInv, TypeOK, PlainImage
<1>4. ASSUME NEW path \in Paths, Cd(path) PROVE DirInv'
  <2>1. /\ fs_dir' = ext2_dir' /\ IsDirText(fs_dir') /\ IsDir(WalkFrom(2, fs_dir'))
        /\ UNCHANGED <<scanned, active_fs, file, fd_table, halted>>
    BY <1>4, CdPath DEF DirInv
  <2>2. IsDir(Here')
    BY <2>1, Fits DEF Here
  <2>. QED  BY <1>0, <1>1, <2>1, <2>2 DEF DirInv, TypeOK
<1>. QED
  BY <1>2, <1>3, <1>4 DEF Next, vars, ScanNext, CdOverrun, Load, Chmod, Open, Close

\* fs.c:142-183, ext2.c:433-463: the shell is always in a directory, and the
\* driver where the registry is, but after cd /.
THEOREM AlwaysInDirectory ==
  ASSUME PlainImage
  PROVE  Spec => []InDirectory
<1>1. Init => DirInv /\ FileInv
  BY DirInvInit, FileInvInit
<1>2. DirInv /\ FileInv /\ [Next]_vars => (DirInv /\ FileInv)'
  BY DirInvStep, FileInvStep
<1>3. DirInv => InDirectory
  <2> SUFFICES ASSUME DirInv PROVE InDirectory
    OBVIOUS
  <2>1. Here \in Inodes
    BY HereType DEF DirInv
  <2>2. Here \in DOMAIN inodes /\ Here # 0
    BY <2>1, InodesAre DEF DirInv, IsDir, Inodes
  <2>. QED  BY <2>2 DEF DirInv, InDirectory, PlainImage
<1>. QED  BY <1>1, <1>2, <1>3, PTL DEF Spec
-----------------------------------------------------------------------------
\* Where block x begins, counting from 0, so that no product is left.
P(x) == x * BlockSize
Bytes == Seq(Nat)

LEMMA BlockSizeType == BlockSize \in Nat \ {0} /\ Direct \in Nat \ {0}
BY Ext2Assumption

LEMMA Borders ==
  /\ P(0) = 0
  /\ \A x \in Nat : P(x) \in Nat /\ P(x + 1) = P(x) + BlockSize
  /\ \A x, y \in Nat : x <= y => P(x) <= P(y)
  /\ \A x, y \in Nat : x < y => P(x) + BlockSize <= P(y)
  /\ \A x, y \in Nat : P(x + y) = P(x) + P(y)
<1>. DEFINE B == BlockSize
<1>0. B \in Nat \ {0}
  BY BlockSizeType
<1>. HIDE DEF B
<1>1. \A x \in Nat : x * B \in Nat /\ (x + 1) * B = x * B + B
  BY <1>0
<1>2. \A x, y \in Nat : x <= y => x * B <= y * B
  BY <1>0
<1>3. ASSUME NEW x \in Nat, NEW y \in Nat, x < y PROVE x * B + B <= y * B
  <2>1. x + 1 <= y /\ x + 1 \in Nat
    BY <1>3
  <2>2. (x + 1) * B <= y * B
    BY <2>1, <1>2
  <2>. QED  BY <1>1, <2>2
<1>4. 0 * B = 0
  BY <1>0
<1>5. \A x, y \in Nat : (x + y) * B = x * B + y * B
  BY <1>0
<1>. QED  BY <1>1, <1>2, <1>3, <1>4, <1>5 DEF P, B

LEMMA Position ==
  ASSUME NEW a \in Nat
  PROVE  /\ a \div BlockSize \in Nat /\ a % BlockSize \in 0..(BlockSize - 1)
         /\ a = P(a \div BlockSize) + (a % BlockSize)
<1>. DEFINE B == BlockSize
<1>0. B \in Nat \ {0}
  BY BlockSizeType
<1>. HIDE DEF B
<1>1. a \div B \in Nat /\ a % B \in 0..(B - 1)
  BY <1>0
<1>2. a = (a \div B) * B + (a % B)
  BY <1>0
<1>. QED  BY <1>1, <1>2 DEF P, B

LEMMA InodeFields ==
  ASSUME NEW n \in DOMAIN inodes
  PROVE  /\ inodes[n].size \in Nat /\ inodes[n].blocks \in Nat
         /\ inodes[n].block \in Seq(Nat) /\ \A k \in 1..Direct : inodes[n].block[k] \in Nat
<1>1. inodes[n] \in Inode /\ Len(inodes[n].block) >= Direct
  BY Ext2Assumption
<1>0. \A e \in Inode : e.size \in Nat /\ e.blocks \in Nat /\ e.block \in Seq(Nat)
  BY DEF Inode
<1>2. inodes[n].block \in Seq(Nat)
  BY <1>0, <1>1
<1>3. \A k \in 1..Direct : k \in 1..Len(inodes[n].block)
  BY <1>1, <1>2, BlockSizeType
<1>4. \A k \in 1..Direct : inodes[n].block[k] \in Nat
  BY <1>2, <1>3
<1>. QED  BY <1>0, <1>1, <1>2, <1>4

LEMMA BlockBytes ==
  /\ \A b : Block(b) \in Bytes
  /\ \A b \in DOMAIN Data : Block(b) = Data[b] /\ Len(Data[b]) = BlockSize /\ Data[b] # <<>>
<1>1. \A b \in DOMAIN Data : Data[b] \in Bytes /\ Len(Data[b]) = BlockSize
  BY Ext2Assumption DEF Bytes
<1>2. <<>> \in Bytes /\ Len(<<>>) = 0
  BY DEF Bytes
<1>3. \A b \in DOMAIN Data : Data[b] # <<>>
  BY <1>1, <1>2, BlockSizeType
<1>. QED  BY <1>1, <1>2, <1>3 DEF Block

LEMMA Concatenation ==
  ASSUME NEW T, NEW s \in Seq(T), NEW t \in Seq(T)
  PROVE  /\ s \o t \in Seq(T) /\ Len(s) \in Nat /\ Len(t) \in Nat
         /\ Len(s \o t) = Len(s) + Len(t)
         /\ \A k \in 1..Len(s) : (s \o t)[k] = s[k]
         /\ \A k \in 1..Len(t) : (s \o t)[Len(s) + k] = t[k]
OBVIOUS

LEMMA BytesJoined ==
  \A s, t \in Bytes :
    /\ s \o t \in Bytes /\ Len(s) \in Nat /\ Len(t) \in Nat
    /\ Len(s \o t) = Len(s) + Len(t)
    /\ \A k \in 1..Len(s) : (s \o t)[k] = s[k]
    /\ \A k \in 1..Len(t) : (s \o t)[Len(s) + k] = t[k]
<1> TAKE s, t \in Bytes
<1>1. s \in Seq(Nat) /\ t \in Seq(Nat)
  BY DEF Bytes
<1>. QED  BY <1>1, Concatenation DEF Bytes

LEMMA BytesCut ==
  \A s \in Bytes, m \in Nat \ {0}, n \in Int : n <= Len(s) =>
    /\ SubSeq(s, m, n) \in Bytes
    /\ m <= n + 1 => Len(SubSeq(s, m, n)) = n + 1 - m
    /\ n < m => SubSeq(s, m, n) = <<>>
    /\ \A k \in 1..(n + 1 - m) : SubSeq(s, m, n)[k] = s[m + k - 1]
<1> TAKE s \in Bytes, m \in Nat \ {0}, n \in Int
<1> HAVE n <= Len(s)
<1>1. s \in Seq(Nat)
  BY DEF Bytes
<1>. QED  BY <1>1, SubSequence DEF Bytes

\* A file without holes.
Whole(n) ==
  \A k \in 1..Direct : (k - 1) * BlockSize < inodes[n].size =>
    inodes[n].block[k] \in DOMAIN Data \ {0}

\* The byte at place r of block k of an inode.
ByteOf(n, k, r) == Data[inodes[n].block[k]][r]

\* What a file has in its k-th direct block.
Part(n, k) == IF inodes[n].block[k] = 0 THEN <<>> ELSE Block(inodes[n].block[k])

LEMMA PartType == \A n, k : Part(n, k) \in Bytes
<1>1. <<>> \in Bytes
  BY DEF Bytes
<1>. QED  BY <1>1, BlockBytes DEF Part

LEMMA ContentsLoop ==
  ASSUME NEW n \in DOMAIN inodes
  PROVE  \E f : /\ f[0] = <<>>
                /\ \A k \in 1..Direct : f[k] = f[k - 1] \o Part(n, k)
                /\ Contents(n) = SubSeq(f[Direct], 1, IF inodes[n].size < Len(f[Direct])
                                                     THEN inodes[n].size ELSE Len(f[Direct]))
<1>. DEFINE Is(f) == f = [k \in 0..Direct |-> IF k = 0 THEN <<>> ELSE f[k - 1] \o
                 (IF inodes[n].block[k] = 0 THEN <<>> ELSE Block(inodes[n].block[k]))]
            upto == CHOOSE f : Is(f)
            step == [k \in 1..Direct |-> [b \in Bytes |-> b \o Part(n, k)]]
<1>0. Direct \in Nat /\ <<>> \in Bytes
  BY BlockSizeType DEF Bytes
<1>1. step \in [1..Direct -> [Bytes -> Bytes]]
  <2>1. \A k \in 1..Direct, b \in Bytes : b \o Part(n, k) \in Bytes
    BY PartType, BytesJoined
  <2>. QED  BY <2>1
<1>2. PICK f \in [0..Direct -> Bytes] : Loop(f, Direct, <<>>, step)
  <2>. HIDE DEF step
  <2>. QED  BY <1>0, <1>1, LoopExists
<1>3. Is(f)
  <2>1. \A k \in 1..Direct : k - 1 \in 0..Direct /\ f[k - 1] \in Bytes
    BY <1>0
  <2>2. \A k \in 1..Direct : step[k][f[k - 1]] = f[k - 1] \o Part(n, k)
    BY <2>1
  <2>3. f = [k \in 0..Direct |-> IF k = 0 THEN <<>> ELSE step[k][f[k - 1]]]
    BY <1>2 DEF Loop
  <2>4. \A k \in 0..Direct : k # 0 => k \in 1..Direct
    BY <1>0
  <2>. HIDE DEF step
  <2>. QED  BY <2>2, <2>3, <2>4 DEF Part
<1>4. Is(upto)
  <2>. HIDE DEF Is
  <2>. QED  BY <1>3
<1>5. Contents(n) = SubSeq(upto[Direct], 1, IF inodes[n].size < Len(upto[Direct])
                                            THEN inodes[n].size ELSE Len(upto[Direct]))
  BY DEF Contents
<1>. HIDE DEF upto
<1>6. \A k \in 0..Direct : upto[k] = IF k = 0 THEN <<>> ELSE upto[k - 1] \o Part(n, k)
  BY <1>4 DEF Part
<1>7. upto[0] = <<>> /\ \A k \in 1..Direct : upto[k] = upto[k - 1] \o Part(n, k)
  <2>1. 0 \in 0..Direct /\ \A k \in 1..Direct : k \in 0..Direct /\ k # 0
    BY <1>0
  <2>. QED  BY <1>6, <2>1
<1>. QED  BY <1>5, <1>7

LEMMA ContentsAre ==
  ASSUME NEW n \in DOMAIN inodes, Whole(n)
  PROVE  /\ Contents(n) \in Bytes
         /\ Len(Contents(n)) = IF inodes[n].size < P(Direct) THEN inodes[n].size ELSE P(Direct)
         /\ \A k \in 1..Direct, r \in 1..BlockSize :
              P(k - 1) + r <= Len(Contents(n)) => Contents(n)[P(k - 1) + r] = ByteOf(n, k, r)
<1>. DEFINE size == inodes[n].size
            B == BlockSize
<1>0. size \in Nat /\ B \in Nat \ {0} /\ Direct \in Nat \ {0} /\ <<>> \in Bytes
  BY InodeFields, BlockSizeType DEF Bytes
<1>1. PICK f : /\ f[0] = <<>>
               /\ \A k \in 1..Direct : f[k] = f[k - 1] \o Part(n, k)
               /\ Contents(n) = SubSeq(f[Direct], 1, IF size < Len(f[Direct])
                                                     THEN size ELSE Len(f[Direct]))
  BY ContentsLoop
<1>. DEFINE Holds(k) == /\ f[k] \in Bytes
                        /\ k = 0 \/ P(k - 1) < size => Len(f[k]) = P(k)
                        /\ \A i \in 1..k : P(i - 1) < size =>
                             /\ Len(f[k]) >= P(i)
                             /\ \A r \in 1..B : f[k][P(i - 1) + r] = ByteOf(n, i, r)
            Good == {k \in 0..Direct : Holds(k)}
<1>2. Holds(0)
  BY <1>0, <1>1, Borders
<1>3. ASSUME NEW k \in 1..Direct, Holds(k - 1) PROVE Holds(k)
  <2>. DEFINE old == f[k - 1]
              part == Part(n, k)
  <2>0. k \in Nat /\ k - 1 \in Nat /\ Len(old) \in Nat /\ f[k] = old \o part
        /\ old \in Bytes /\ part \in Bytes
    <3>1. k \in Nat /\ k - 1 \in Nat
      BY <1>0
    <3>2. old \in Bytes /\ part \in Bytes
      BY <1>3, PartType
    <3>3. Len(old) \in Nat
      BY <3>2 DEF Bytes
    <3>4. f[k] = old \o part
      BY <1>1
    <3>. QED  BY <3>1, <3>2, <3>3, <3>4
  <2>1. /\ f[k] \in Bytes /\ Len(f[k]) = Len(old) + Len(part) /\ Len(part) \in Nat
        /\ \A j \in 1..Len(old) : f[k][j] = old[j]
        /\ \A j \in 1..Len(part) : f[k][Len(old) + j] = part[j]
    <3>. HIDE DEF old, part, Holds
    <3>1. /\ old \o part \in Bytes /\ Len(old \o part) = Len(old) + Len(part) /\ Len(part) \in Nat
          /\ \A j \in 1..Len(old) : (old \o part)[j] = old[j]
          /\ \A j \in 1..Len(part) : (old \o part)[Len(old) + j] = part[j]
      BY <2>0, BytesJoined, Zenon
    <3>. QED  BY <2>0, <3>1, Zenon
  <2>. HIDE DEF old, part
  <2>2. ASSUME P(k - 1) < size
        PROVE  /\ Len(old) = P(k - 1) /\ Len(part) = B
               /\ \A r \in 1..B : part[r] = ByteOf(n, k, r)
    <3>1. k - 1 = 0 \/ P(k - 1 - 1) < size
      <4>1. CASE k - 1 = 0
        BY <4>1
      <4>2. CASE k - 1 # 0
        <5>1. k - 2 \in Nat /\ k - 1 - 1 = k - 2 /\ k - 2 <= k - 1
          BY <2>0, <4>2
        <5>2. P(k - 2) <= P(k - 1) /\ P(k - 2) \in Nat /\ P(k - 1) \in Nat
          BY <2>0, <5>1, Borders
        <5>. QED  BY <1>0, <2>2, <5>1, <5>2
      <4>. QED  BY <4>1, <4>2
    <3>2. Len(old) = P(k - 1)
      BY <1>3, <3>1 DEF old
    <3>3. inodes[n].block[k] \in DOMAIN Data \ {0}
      BY <2>2 DEF Whole, P
    <3>4. part = Data[inodes[n].block[k]]
      BY <3>3, BlockBytes DEF part, Part
    <3>. QED  BY <3>2, <3>3, <3>4, BlockBytes DEF ByteOf
  <2>3. k = 0 \/ P(k - 1) < size => Len(f[k]) = P(k)
    <3>1. k - 1 + 1 = k /\ k # 0
      BY <2>0
    <3>2. P(k - 1 + 1) = P(k - 1) + B
      BY <2>0, Borders
    <3>3. P(k - 1) < size => Len(f[k]) = P(k - 1) + B
      BY <2>1, <2>2
    <3>. QED  BY <3>1, <3>2, <3>3
  <2>4. ASSUME NEW i \in 1..k, P(i - 1) < size
        PROVE  /\ Len(f[k]) >= P(i)
               /\ \A r \in 1..B : f[k][P(i - 1) + r] = ByteOf(n, i, r)
    <3>0. i - 1 \in Nat /\ P(i) = P(i - 1) + B /\ P(i - 1) \in Nat
      <4>1. i - 1 \in Nat /\ i - 1 + 1 = i
        BY <2>0
      <4>2. P(i - 1 + 1) = P(i - 1) + B /\ P(i - 1) \in Nat
        BY <4>1, Borders
      <4>. QED  BY <4>1, <4>2
    <3>1. CASE i = k
      <4>1. \A r \in 1..B : f[k][Len(old) + r] = part[r]
        BY <2>1, <2>2, <2>4, <3>1
      <4>2. Len(f[k]) = P(k)
        BY <2>3, <2>4, <3>1
      <4>3. Len(old) = P(i - 1) /\ \A r \in 1..B : part[r] = ByteOf(n, i, r)
        BY <2>2, <2>4, <3>1
      <4>4. P(i) \in Nat /\ Len(f[k]) >= P(i)
        BY <1>0, <3>0, <3>1, <4>2
      <4>. HIDE DEF Holds, Good
      <4>. QED  BY <4>1, <4>3, <4>4
    <3>2. CASE i < k
      <4>1. i \in 1..(k - 1)
        BY <2>0, <3>2
      <4>2. Len(old) >= P(i) /\ \A r \in 1..B : old[P(i - 1) + r] = ByteOf(n, i, r)
        BY <1>3, <2>4, <4>1 DEF old
      <4>3. \A r \in 1..B : P(i - 1) + r \in 1..Len(old)
        BY <1>0, <2>0, <3>0, <4>2
      <4>4. \A r \in 1..B : f[k][P(i - 1) + r] = ByteOf(n, i, r)
        BY <2>1, <4>2, <4>3
      <4>5. Len(f[k]) >= P(i)
        BY <1>0, <2>0, <2>1, <3>0, <4>2
      <4>. QED  BY <4>4, <4>5
    <3>3. i = k \/ i < k
      BY <2>0
    <3>. HIDE DEF Holds, Good
    <3>. QED  BY <3>1, <3>2, <3>3
  <2>. QED  BY <2>1, <2>3, <2>4
<1>4. Holds(Direct)
  <2>. HIDE DEF Holds
  <2>1. 0 \in Good /\ \A k \in 1..Direct : k - 1 \in Good => k \in Good
    BY <1>0, <1>2, <1>3
  <2>2. 0..Direct \subseteq Good
    <3>. HIDE DEF Good
    <3>. QED  BY <1>0, <2>1, UpTo
  <2>. QED  BY <1>0, <2>2
<1>. DEFINE all == f[Direct]
            c == Contents(n)
            L == IF size < Len(all) THEN size ELSE Len(all)
<1>5. /\ all \in Bytes /\ Len(all) \in Nat /\ L \in Nat /\ L <= Len(all)
      /\ P(Direct - 1) < size => Len(all) = P(Direct)
      /\ \A i \in 1..Direct : P(i - 1) < size =>
            Len(all) >= P(i) /\ \A r \in 1..B : all[P(i - 1) + r] = ByteOf(n, i, r)
  BY <1>0, <1>4 DEF Bytes
<1>6. c = SubSeq(all, 1, L)
  BY <1>1
<1>. HIDE DEF all, Holds, size
<1>7. c \in Bytes /\ Len(c) = L /\ \A j \in 1..L : c[j] = all[j]
  <2>. HIDE DEF L, c
  <2>1. 1 \in Nat \ {0} /\ L \in Int /\ 1 <= L + 1 /\ L + 1 - 1 = L
    BY <1>5
  <2>2. SubSeq(all, 1, L) \in Bytes /\ Len(SubSeq(all, 1, L)) = L + 1 - 1
        /\ \A j \in 1..(L + 1 - 1) : SubSeq(all, 1, L)[j] = all[1 + j - 1]
    BY <1>5, <2>1, BytesCut
  <2>. QED  BY <1>6, <2>1, <2>2
<1>8. L = IF size < P(Direct) THEN size ELSE P(Direct)
  <2>0. Direct - 1 \in Nat /\ P(Direct - 1) \in Nat /\ P(Direct) = P(Direct - 1) + B
        /\ P(Direct) \in Nat
    <3>1. Direct - 1 \in Nat /\ Direct - 1 + 1 = Direct /\ Direct \in Nat
      BY <1>0
    <3>2. P(Direct - 1 + 1) = P(Direct - 1) + B /\ P(Direct - 1) \in Nat /\ P(Direct) \in Nat
      BY <3>1, Borders
    <3>. QED  BY <3>1, <3>2
  <2>1. CASE P(Direct - 1) < size
    BY <1>5, <2>1
  <2>2. CASE ~ (P(Direct - 1) < size) /\ size = 0
    BY <1>0, <1>5, <2>0, <2>2
  <2>3. CASE ~ (P(Direct - 1) < size) /\ size # 0
    <3>. DEFINE i == (size - 1) \div B
    <3>1. i \in Nat /\ P(i) <= size - 1 /\ size - 1 < P(i) + B /\ P(i) \in Nat
      <4>1. size - 1 \in Nat
        BY <1>0, <2>3
      <4>2. i \in Nat /\ (size - 1) % B \in 0..(B - 1) /\ size - 1 = P(i) + ((size - 1) % B)
        BY <4>1, Position
      <4>3. P(i) \in Nat
        BY <4>2, Borders
      <4>. HIDE DEF i
      <4>. QED  BY <1>0, <4>2, <4>3
    <3>. HIDE DEF i
    <3>2. i + 1 \in 1..Direct /\ i + 1 - 1 = i
      <4>1. ASSUME Direct - 1 <= i PROVE FALSE
        <5>1. P(Direct - 1) <= P(i)
          BY <2>0, <3>1, <4>1, Borders
        <5>. QED  BY <1>0, <2>0, <2>3, <3>1, <5>1
      <4>. QED  BY <1>0, <3>1, <4>1
    <3>3. Len(all) >= P(i + 1) /\ P(i + 1) = P(i) + B
      <4>1. P(i + 1) = P(i) + B
        BY <3>1, Borders
      <4>2. PICK k \in 1..Direct : k = i + 1 /\ k - 1 = i
        BY <1>0, <3>1, <3>2
      <4>3. P(i) < size
        BY <1>0, <3>1
      <4>4. Len(all) >= P(k)
        BY <1>5, <4>2, <4>3
      <4>. QED  BY <4>1, <4>2, <4>4
    <3>. QED  BY <1>0, <1>5, <2>0, <2>3, <3>1, <3>3
  <2>. QED  BY <2>1, <2>2, <2>3
<1>9. ASSUME NEW k \in 1..Direct, NEW r \in 1..B, P(k - 1) + r <= Len(c)
      PROVE  c[P(k - 1) + r] = ByteOf(n, k, r)
  <2>0. k - 1 \in Nat
    BY <1>0
  <2>1. k - 1 \in Nat /\ P(k - 1) \in Nat
    BY <2>0, Borders
  <2>2. P(k - 1) < size /\ P(k - 1) + r \in 1..L
    BY <1>0, <1>5, <1>7, <1>9, <2>1
  <2>. QED  BY <1>5, <1>7, <2>2
<1>. QED  BY <1>7, <1>8, <1>9 DEF size

\* What a round leaves out of block i and what it takes of it, when lb bytes
\* were copied before; and where block x begins, or the reading ends.
Skip(off, start, i) == IF i = start THEN off % BlockSize ELSE 0
Amount(off, len, start, end, i, lb) ==
  IF ToRead(i, start, end, off, len) > len - lb THEN len - lb ELSE ToRead(i, start, end, off, len)
Until(x, stop) == IF P(x) < stop THEN P(x) ELSE stop

\* The blocks from start to end have the len bytes from off on; a round is to
\* read on in block i.
Spans(off, len, start, end) ==
  /\ off \in Nat /\ len \in Nat \ {0} /\ start \in Nat /\ end \in Nat
  /\ off = P(start) + (off % BlockSize)
  /\ P(end) <= off + len - 1 /\ off + len - 1 < P(end) + BlockSize
Reached(off, start, end, i, lb) ==
  /\ i \in Nat /\ start <= i /\ i <= end /\ lb \in Nat
  /\ off + lb = IF i = start THEN off ELSE P(i)

\* A round goes on where the one before has ended, to the end of the block or
\* of what is wanted.
LEMMA RoundPlace ==
  ASSUME NEW off, NEW len, NEW start, NEW end, Spans(off, len, start, end),
         NEW i, NEW lb, Reached(off, start, end, i, lb)
  PROVE  /\ Skip(off, start, i) \in 0..(BlockSize - 1) /\ off + lb = P(i) + Skip(off, start, i)
         /\ ~ (lb < (i - start) * BlockSize - (off % BlockSize))
         /\ Amount(off, len, start, end, i, lb) \in Nat \ {0}
         /\ Skip(off, start, i) + Amount(off, len, start, end, i, lb) <= BlockSize
         /\ off + lb + Amount(off, len, start, end, i, lb) = Until(i + 1, off + len)
<1>. DEFINE B == BlockSize
            rem == off % B
            tail == (off + len) % B
            skip == IF i = start THEN rem ELSE 0
            fit == IF i = end /\ tail > 0 THEN tail - skip ELSE B - skip
            left == len - lb
            amount == IF fit > left THEN left ELSE fit
<1>s. /\ off \in Nat /\ len \in Nat \ {0} /\ start \in Nat /\ end \in Nat
      /\ off = P(start) + (off % BlockSize)
      /\ P(end) <= off + len - 1 /\ off + len - 1 < P(end) + BlockSize
      /\ i \in Nat /\ start <= i /\ i <= end /\ lb \in Nat
      /\ off + lb = IF i = start THEN off ELSE P(i)
  BY DEF Spans, Reached
<1>. USE <1>s
<1>0. B \in Nat \ {0}
  BY BlockSizeType
<1>1. rem \in 0..(B - 1) /\ off = P(start) + rem /\ P(start) \in Nat /\ P(end) \in Nat
  BY Position, Borders
<1>2. tail \in 0..(B - 1)
  <2>. DEFINE a == off + len
  <2>1. a \in Nat
    OBVIOUS
  <2>. HIDE DEF a
  <2>2. a % B \in 0..(B - 1)
    BY <2>1, Position
  <2>. QED  BY <2>2 DEF a
<1>3. ASSUME tail > 0 PROVE off + len = P(end) + tail /\ tail < B
  <2>. DEFINE a == off + len
              q == a \div B
  <2>1. a \in Nat /\ q \in Nat /\ tail \in 0..(B - 1) /\ a = P(q) + tail /\ P(q) \in Nat
    <3>1. a \in Nat
      OBVIOUS
    <3>2. q \in Nat /\ tail \in 0..(B - 1) /\ a = P(q) + tail
      <4>. HIDE DEF a
      <4>1. tail = a % B
        BY DEF a
      <4>. HIDE DEF tail
      <4>. QED  BY <3>1, <4>1, Position
    <3>. HIDE DEF q
    <3>. QED  BY <3>1, <3>2, Borders
  <2>. HIDE DEF a, q, tail
  <2>2. a - 1 = off + len - 1
    BY DEF a
  <2>3. ~ (q < end)
    <3>1. q < end => P(q) + B <= P(end)
      BY <2>1, Borders
    <3>. QED  BY <1>0, <1>1, <2>1, <2>2, <3>1
  <2>4. ~ (end < q)
    <3>1. end < q => P(end) + B <= P(q)
      BY <2>1, Borders
    <3>. QED  BY <1>0, <1>1, <1>3, <2>1, <2>2, <3>1
  <2>5. q = end
    BY <2>1, <2>3, <2>4
  <2>. QED  BY <1>0, <2>1, <2>5 DEF a
<1>4. P(i) \in Nat /\ P(i + 1) = P(i) + B /\ P(i) <= P(end)
  BY Borders
<1>5. skip \in 0..(B - 1) /\ off + lb = P(i) + skip
  BY <1>0, <1>1, <1>4
<1>6. off + lb < off + len
  BY <1>1, <1>4
<1>7. ~ (lb < (i - start) * B - rem)
  <2>. DEFINE d == i - start
  <2>1. d \in Nat /\ start + d = i
    OBVIOUS
  <2>. HIDE DEF d
  <2>2. P(i) = P(start) + P(d) /\ P(d) \in Nat
    BY <2>1, Borders
  <2>3. ~ (lb < P(d) - rem)
    <3>1. i = start => d = 0 /\ P(d) = 0
      BY <2>1, Borders
    <3>. HIDE DEF rem, skip
    <3>. QED  BY <1>0, <1>1, <1>4, <2>1, <2>2, <3>1
  <2>. QED  BY <2>3 DEF P, d
<1>. HIDE DEF rem, tail, skip
<1>8. CASE i = end /\ tail > 0
  <2>1. off + len = P(i) + tail /\ tail < B /\ tail \in Int
    BY <1>2, <1>3, <1>8
  <2>2. fit = left /\ amount = left
    BY <1>5, <1>8, <2>1, <1>4
  <2>. QED  BY <1>0, <1>4, <1>5, <1>6, <1>7, <2>1, <2>2 DEF ToRead, rem, tail, skip, Skip, Amount, Until
<1>9. CASE ~ (i = end /\ tail > 0)
  <2>1. fit = B - skip
    BY <1>9
  <2>. QED  BY <1>0, <1>4, <1>5, <1>6, <1>7, <1>9, <2>1 DEF ToRead, rem, tail, skip, Skip, Amount, Until
<1>. QED  BY <1>8, <1>9

\* One round of ext2_read_inode_data.
Round(n, off, len, start, end, k, buf) ==
  LET i == start + k - 1
      b == Block(inodes[n].block[i + 1])
      skip == Skip(off, start, i)
  IN IF b = <<>> \/ Len(buf) < (i - start) * BlockSize - (off % BlockSize)
     THEN buf
     ELSE buf \o SubSeq(b, skip + 1, skip + Amount(off, len, start, end, i, Len(buf)))

LEMMA RoundType ==
  ASSUME NEW n, NEW off \in Nat, NEW len \in Nat, NEW start \in Nat, NEW end \in Nat,
         NEW k \in Nat, NEW buf \in Bytes
  PROVE  Round(n, off, len, start, end, k, buf) \in Bytes
<1>. DEFINE B == BlockSize
            i == start + k - 1
            b == Block(inodes[n].block[i + 1])
            rem == off % B
            tail == (off + len) % B
            skip == IF i = start THEN rem ELSE 0
            fit == ToRead(i, start, end, off, len)
            left == len - Len(buf)
            amount == IF fit > left THEN left ELSE fit
<1>0. B \in Nat \ {0} /\ Len(buf) \in Nat /\ b \in Bytes
  BY BlockSizeType, BlockBytes DEF Bytes
<1>1. rem \in 0..(B - 1) /\ tail \in 0..(B - 1)
  <2>1. off + len \in Nat
    OBVIOUS
  <2>. QED  BY <2>1, Position
<1>2. fit \in Int /\ skip + fit <= B /\ skip \in Nat
  BY <1>0, <1>1 DEF ToRead
<1>3. left \in Int
  BY <1>0
<1>. HIDE DEF fit, left
<1>4. amount \in Int /\ skip + amount <= B
  BY <1>0, <1>2, <1>3
<1>5. ASSUME b # <<>> PROVE buf \o SubSeq(b, skip + 1, skip + amount) \in Bytes
  <2>1. Len(b) = B
    BY <1>5, BlockBytes DEF Block
  <2>. HIDE DEF b, skip, amount
  <2>2. skip + 1 \in Nat \ {0} /\ skip + amount \in Int /\ skip + amount <= Len(b)
    BY <1>2, <1>4, <2>1
  <2>3. SubSeq(b, skip + 1, skip + amount) \in Bytes
    BY <1>0, <2>2, BytesCut
  <2>. QED  BY <2>3, BytesJoined
<1>. QED  BY <1>5 DEF Round, fit, left, Skip, Amount

\* The length of a read, and its rounds.
ReadLen(n, off, want) ==
  IF off + want > inodes[n].size THEN inodes[n].size - off ELSE want
FirstBlock(off) == off \div BlockSize
LastBlock(off, len) == (off + len - 1) \div BlockSize
Rounds(start, end) ==
  LET last == IF end < Direct THEN end + 1 ELSE Direct IN
  IF start < last THEN last - start ELSE 0
Copies(n, off, len, want, start, end, rounds, f) ==
  /\ f[0] = <<>>
  /\ \A k \in 1..rounds : f[k] = Round(n, off, len, start, end, k, f[k - 1])
  /\ ext2_read_inode_data(n, off, want) = f[rounds]

LEMMA ReadLoop ==
  ASSUME NEW n \in DOMAIN inodes, NEW off \in Nat, NEW want \in Nat \ {0},
         off < inodes[n].size
  PROVE  LET len == ReadLen(n, off, want)
             start == FirstBlock(off)
             end == LastBlock(off, len)
         IN \E f : Copies(n, off, len, want, start, end, Rounds(start, end), f)
<1>. DEFINE size == inodes[n].size
            len == IF off + want > size THEN size - off ELSE want
            start == off \div BlockSize
            end == (off + len - 1) \div BlockSize
            last == IF end < Direct THEN end + 1 ELSE Direct
            rounds == IF start < last THEN last - start ELSE 0
            Is(f) == f = [k \in 0..rounds |->
              IF k = 0 THEN <<>>
              ELSE LET i == start + k - 1
                       buf == f[k - 1]
                       b == Block(inodes[n].block[i + 1])
                       skip == IF i = start THEN off % BlockSize ELSE 0
                       fit == ToRead(i, start, end, off, len)
                       left == len - Len(buf)
                   IN IF b = <<>> \/ Len(buf) < (i - start) * BlockSize - (off % BlockSize)
                      THEN buf
                      ELSE buf \o SubSeq(b, skip + 1, skip + (IF fit > left THEN left ELSE fit))]
            copied == CHOOSE f : Is(f)
<1>0. size \in Nat /\ Direct \in Nat
  BY InodeFields, BlockSizeType
<1>1. len \in Nat \ {0}
  BY <1>0
<1>2. ext2_read_inode_data(n, off, want) = copied[rounds]
  <2>1. ext2_read_inode_data(n, off, want) = IF off >= size THEN <<>> ELSE copied[rounds]
    BY Zenon DEF ext2_read_inode_data
  <2>2. ~ (off >= size)
    BY <1>0
  <2>. HIDE DEF copied, rounds
  <2>. QED  BY <2>1, <2>2
<1>. DEFINE M(k, b) == Round(n, off, len, start, end, k, b)
<1>3. \A f : Is(f) <=> f = [k \in 0..rounds |-> IF k = 0 THEN <<>> ELSE M(k, f[k - 1])]
  BY DEF Round, Skip, Amount
<1>. HIDE DEF Is, size, len
<1>4. start \in Nat /\ end \in Nat /\ rounds \in Nat
  <2>1. start \in Nat
    BY Position
  <2>2. end \in Nat
    <3>. DEFINE a == off + len - 1
    <3>1. a \in Nat
      BY <1>1
    <3>. HIDE DEF a
    <3>2. a \div BlockSize \in Nat
      BY <3>1, Position
    <3>. QED  BY <3>2 DEF a
  <2>. HIDE DEF start, end
  <2>. QED  BY <1>0, <2>1, <2>2
<1>. HIDE DEF start, end, rounds
<1>5. \A k \in 1..rounds, b \in Bytes : M(k, b) \in Bytes
  <2> TAKE k \in 1..rounds, b \in Bytes
  <2>1. k \in Nat /\ len \in Nat
    BY <1>1, <1>4
  <2>. QED  BY <1>4, <2>1, RoundType
<1>. HIDE DEF M
<1>. DEFINE step == [k \in 1..rounds |-> [b \in Bytes |-> M(k, b)]]
<1>6. step \in [1..rounds -> [Bytes -> Bytes]]
  BY <1>5
<1>7. <<>> \in Bytes
  BY DEF Bytes
<1>8. PICK f \in [0..rounds -> Bytes] : Loop(f, rounds, <<>>, step)
  <2>. HIDE DEF step
  <2>. QED  BY <1>4, <1>6, <1>7, LoopExists
<1>9. Is(f)
  <2>1. \A k \in 1..rounds : k - 1 \in 0..rounds /\ f[k - 1] \in Bytes
    BY <1>4
  <2>2. \A k \in 1..rounds : step[k][f[k - 1]] = M(k, f[k - 1])
    BY <2>1
  <2>3. f = [k \in 0..rounds |-> IF k = 0 THEN <<>> ELSE step[k][f[k - 1]]]
    BY <1>8 DEF Loop
  <2>4. \A k \in 0..rounds : k # 0 => k \in 1..rounds
    BY <1>4
  <2>. HIDE DEF step
  <2>5. f = [k \in 0..rounds |-> IF k = 0 THEN <<>> ELSE M(k, f[k - 1])]
    BY <2>2, <2>3, <2>4
  <2>. QED  BY <1>3, <2>5
<1>10. Is(copied)
  BY <1>9
<1>. HIDE DEF copied
<1>11. copied = [k \in 0..rounds |-> IF k = 0 THEN <<>> ELSE M(k, copied[k - 1])]
  BY <1>3, <1>10
<1>12. copied[0] = <<>> /\ \A k \in 1..rounds : copied[k] = M(k, copied[k - 1])
  <2>1. 0 \in 0..rounds /\ \A k \in 1..rounds : k \in 0..rounds /\ k # 0
    BY <1>4
  <2>. QED  BY <1>11, <2>1
<1>13. Copies(n, off, len, want, start, end, rounds, copied)
  BY <1>2, <1>12 DEF M, Copies
<1>14. len = ReadLen(n, off, want) /\ start = FirstBlock(off) /\ end = LastBlock(off, len)
       /\ rounds = Rounds(start, end)
  BY DEF len, size, start, end, rounds, ReadLen, FirstBlock, LastBlock, Rounds
<1>. QED  BY <1>13, <1>14

LEMMA SameSequence ==
  ASSUME NEW T, NEW s \in Seq(T), NEW t \in Seq(T), Len(s) = Len(t),
         \A k \in 1..Len(s) : s[k] = t[k]
  PROVE  s = t
OBVIOUS

\* Where the blocks from start to end lie that a read of len bytes is from.
LEMMA ReadPlace ==
  ASSUME NEW off \in Nat, NEW len \in Nat \ {0}
  PROVE  LET start == off \div BlockSize
             end == (off + len - 1) \div BlockSize
         IN /\ start \in Nat /\ end \in Nat /\ start <= end
            /\ off = P(start) + (off % BlockSize) /\ off < P(start) + BlockSize
            /\ P(end) <= off + len - 1 /\ off + len - 1 < P(end) + BlockSize
<1>. DEFINE start == off \div BlockSize
            a == off + len - 1
            end == a \div BlockSize
<1>0. a \in Nat /\ a = off + len - 1 /\ off <= a /\ BlockSize \in Nat \ {0}
  BY BlockSizeType
<1>1. start \in Nat /\ off % BlockSize \in 0..(BlockSize - 1) /\ off = P(start) + (off % BlockSize)
      /\ P(start) \in Nat
  BY Position, Borders
<1>. HIDE DEF a
<1>2. end \in Nat /\ a % BlockSize \in 0..(BlockSize - 1) /\ a = P(end) + (a % BlockSize)
  BY <1>0, Position
<1>. HIDE DEF end, start
<1>3. P(end) \in Nat
  BY <1>2, Borders
<1>4. P(start) <= off /\ off < P(start) + BlockSize
  BY <1>0, <1>1
<1>5. P(end) <= a /\ a < P(end) + BlockSize
  BY <1>0, <1>2, <1>3
<1>6. ~ (end < start)
  <2>1. end < start => P(end) + BlockSize <= P(start)
    BY <1>1, <1>2, Borders
  <2>. QED  BY <1>0, <1>1, <1>3, <1>4, <1>5, <2>1
<1>. QED  BY <1>0, <1>1, <1>2, <1>4, <1>5, <1>6 DEF start, end, a

\* ext2.c:336-355: what ext2_read_inode_data copies of a file without holes is
\* what its direct blocks have from the offset on.
LEMMA ReadData ==
  ASSUME NEW n \in DOMAIN inodes, Whole(n), NEW off \in Nat, NEW want \in Nat \ {0}
  PROVE  LET c == Contents(n)
             stop == IF off + want < Len(c) THEN off + want ELSE Len(c)
         IN ext2_read_inode_data(n, off, want) = SubSeq(c, off + 1, stop)
<1>. DEFINE size == inodes[n].size
            len == ReadLen(n, off, want)
            start == FirstBlock(off)
            end == LastBlock(off, len)
            last == IF end < Direct THEN end + 1 ELSE Direct
            rounds == IF start < last THEN last - start ELSE 0
            B == BlockSize
            c == Contents(n)
            stop == IF off + want < Len(c) THEN off + want ELSE Len(c)
            read == ext2_read_inode_data(n, off, want)
<1>0. size \in Nat /\ B \in Nat \ {0} /\ Direct \in Nat \ {0} /\ P(Direct) \in Nat
  BY InodeFields, BlockSizeType, Borders
<1>1. /\ c \in Bytes /\ Len(c) = IF size < P(Direct) THEN size ELSE P(Direct)
      /\ \A k \in 1..Direct, r \in 1..B : P(k - 1) + r <= Len(c) => c[P(k - 1) + r] = ByteOf(n, k, r)
  BY ContentsAre
<1>2. CASE ~ (off < size)
  <2>1. read = <<>>
    <3>1. off >= size
      BY <1>0, <1>2
    <3>. QED  BY <3>1, Zenon DEF ext2_read_inode_data
  <2>2. off + 1 \in Nat \ {0} /\ stop \in Int /\ stop <= Len(c) /\ stop < off + 1
    <3>. HIDE DEF c, size
    <3>. QED  BY <1>0, <1>1, <1>2
  <2>. HIDE DEF c, stop
  <2>3. SubSeq(c, off + 1, stop) = <<>>
    BY <1>1, <2>2, BytesCut
  <2>. HIDE DEF read
  <2>4. read = SubSeq(c, off + 1, stop)
    BY <2>1, <2>3
  <2>. QED  BY <2>4 DEF read, c, stop
<1>3. CASE off < size
  <2>0. rounds = Rounds(start, end)
    BY DEF Rounds
  <2>. HIDE DEF start, end, len, rounds
  <2>1. PICK f : Copies(n, off, len, want, start, end, rounds, f)
    <3>1. \E f : Copies(n, off, len, want, start, end, rounds, f)
      BY <1>3, <2>0, ReadLoop DEF start, end, len
    <3>. QED  BY <3>1
  <2>. USE DEF start, end, len, rounds
  <2>2. len \in Nat \ {0} /\ off + len <= size
        /\ off + len = IF off + want > size THEN size ELSE off + want
    BY <1>0, <1>3 DEF ReadLen
  <2>. HIDE DEF size, len, c
  <2>3. /\ start \in Nat /\ end \in Nat /\ start <= end
        /\ off = P(start) + (off % B) /\ off < P(start) + B
        /\ P(end) <= off + len - 1 /\ off + len - 1 < P(end) + B
    BY <2>2, ReadPlace DEF FirstBlock, LastBlock
  <2>4. off % B \in 0..(B - 1) /\ P(start) \in Nat /\ P(end) \in Nat
    BY <2>3, Position, Borders
  <2>. HIDE DEF start, end
  <2>. DEFINE To(x) == Until(x, off + len)
              Holds(k) == /\ f[k] \in Bytes
                          /\ off + Len(f[k]) = IF k = 0 THEN off ELSE To(start + k)
                          /\ \A j \in 1..Len(f[k]) : f[k][j] = c[off + j]
              Good == {k \in 0..rounds : Holds(k)}
  <2>5. rounds \in Nat
    BY <1>0, <2>3
  <2>6. Holds(0)
    BY <2>1 DEF Bytes, Copies
  <2>7. ASSUME NEW k \in 1..rounds, Holds(k - 1) PROVE Holds(k)
    <3>. DEFINE i == start + k - 1
                buf == f[k - 1]
                lb == Len(buf)
                b == Block(inodes[n].block[i + 1])
                skip == Skip(off, start, i)
                amount == Amount(off, len, start, end, i, lb)
    <3>1. /\ i \in Nat /\ start <= i /\ i <= end /\ i + 1 \in 1..Direct /\ i + 1 - 1 = i
          /\ i + 1 = start + k /\ start + (k - 1) = i /\ (k - 1 = 0 <=> i = start)
      BY <1>0, <2>3
    <3>2. buf \in Bytes /\ lb \in Nat
      BY <2>7 DEF Bytes
    <3>3. P(i) \in Nat /\ P(i) <= P(end) /\ P(i + 1) = P(i) + B /\ P(i + 1) <= P(Direct)
          /\ P(i + 1) \in Nat
      <4>. HIDE DEF i
      <4>1. i + 1 \in Nat /\ i + 1 <= Direct
        BY <3>1
      <4>. QED  BY <1>0, <2>3, <3>1, <4>1, Borders
    <3>4. off + lb = IF i = start THEN off ELSE P(i)
      <4>1. off + lb = IF k - 1 = 0 THEN off ELSE To(i)
        BY <2>7, <3>1
      <4>2. To(i) = P(i)
        BY <2>2, <2>3, <2>4, <3>3 DEF Until
      <4>. HIDE DEF i, To
      <4>. QED  BY <3>1, <4>1, <4>2
    <3>5. P(i) < size
      BY <1>0, <2>2, <2>3, <2>4, <3>3
    <3>6. inodes[n].block[i + 1] \in DOMAIN Data
      <4>. HIDE DEF i
      <4>1. PICK x \in 1..Direct : x = i + 1 /\ x - 1 = i
        BY <3>1
      <4>. QED  BY <3>5, <4>1 DEF Whole, P, size
    <3>7. b \in Bytes /\ b = Data[inodes[n].block[i + 1]] /\ Len(b) = B /\ b # <<>>
      BY <3>6, BlockBytes
    <3>. HIDE DEF i, buf, b
    <3>8. /\ skip \in 0..(B - 1) /\ off + lb = P(i) + skip
          /\ ~ (lb < (i - start) * B - (off % B))
          /\ amount \in Nat \ {0} /\ skip + amount <= B
          /\ off + lb + amount = To(i + 1)
      <4>. HIDE DEF lb
      <4>1. Spans(off, len, start, end)
        BY <2>2, <2>3 DEF Spans
      <4>2. Reached(off, start, end, i, lb)
        BY <3>1, <3>2, <3>4 DEF Reached
      <4>. QED  BY <4>1, <4>2, RoundPlace
    <3>9. f[k] = buf \o SubSeq(b, skip + 1, skip + amount)
      <4>1. f[k] = Round(n, off, len, start, end, k, buf)
        BY <2>1 DEF buf, Copies
      <4>2. Round(n, off, len, start, end, k, buf)
              = IF b = <<>> \/ lb < (i - start) * B - (off % B) THEN buf
                ELSE buf \o SubSeq(b, skip + 1, skip + amount)
        BY DEF Round, i, b
      <4>. HIDE DEF lb, skip, amount
      <4>. QED  BY <3>7, <3>8, <4>1, <4>2
    <3>. HIDE DEF skip, amount
    <3>. DEFINE part == SubSeq(b, skip + 1, skip + amount)
    <3>10. /\ part \in Bytes /\ Len(part) = amount
           /\ \A m \in 1..amount : part[m] = b[skip + m]
      <4>1. /\ skip + 1 \in Nat \ {0} /\ skip + amount \in Int /\ skip + amount <= Len(b)
            /\ skip + 1 <= skip + amount + 1 /\ skip + amount + 1 - (skip + 1) = amount
            /\ \A m \in 1..amount : skip + 1 + m - 1 = skip + m
        <5>1. skip \in Nat /\ amount \in Nat /\ skip + amount <= Len(b)
          BY <1>0, <3>7, <3>8
        <5>. QED  BY <5>1
      <4>2. /\ part \in Bytes /\ Len(part) = skip + amount + 1 - (skip + 1)
            /\ \A m \in 1..(skip + amount + 1 - (skip + 1)) : part[m] = b[skip + 1 + m - 1]
        <5>. DEFINE x == skip + 1
                    y == skip + amount
        <5>1. x \in Nat \ {0} /\ y \in Int /\ y <= Len(b) /\ x <= y + 1
          BY <4>1
        <5>. HIDE DEF x, y
        <5>2. SubSeq(b, x, y) \in Bytes /\ Len(SubSeq(b, x, y)) = y + 1 - x
              /\ \A m \in 1..(y + 1 - x) : SubSeq(b, x, y)[m] = b[x + m - 1]
          BY <3>7, <5>1, BytesCut
        <5>. QED  BY <5>2 DEF x, y
      <4>. HIDE DEF part
      <4>. QED  BY <4>1, <4>2
    <3>11. \A m \in 1..amount : part[m] = c[off + lb + m]
      <4> SUFFICES ASSUME NEW m \in 1..amount PROVE part[m] = c[off + lb + m]
        OBVIOUS
      <4>1. skip + m \in 1..B
        BY <1>0, <3>8
      <4>2. P(i) + (skip + m) <= Len(c) /\ P(i) + (skip + m) = off + lb + m
        <5>1. off + lb + amount <= P(i + 1) /\ off + lb + amount <= off + len
          BY <2>2, <3>3, <3>8 DEF Until
        <5>. HIDE DEF To
        <5>2. skip \in Int /\ m \in Nat /\ m <= amount /\ amount \in Nat /\ Len(c) \in Nat
          BY <1>0, <1>1, <3>8
        <5>3. P(i) + (skip + m) = off + lb + m
          BY <3>2, <3>3, <3>8, <5>2
        <5>4. off + lb + m <= P(Direct) /\ off + lb + m <= size
          BY <1>0, <2>2, <3>2, <3>3, <5>1, <5>2
        <5>. QED  BY <1>1, <5>3, <5>4
      <4>3. c[P(i) + (skip + m)] = ByteOf(n, i + 1, skip + m)
        <5>1. PICK x \in 1..Direct : x = i + 1 /\ x - 1 = i
          BY <3>1
        <5>. QED  BY <1>1, <4>1, <4>2, <5>1
      <4>4. part[m] = b[skip + m]
        BY <3>10
      <4>. QED  BY <3>7, <4>2, <4>3, <4>4 DEF ByteOf
    <3>. HIDE DEF part
    <3>12. /\ f[k] \in Bytes /\ Len(f[k]) = lb + amount
           /\ \A j \in 1..lb : f[k][j] = buf[j]
           /\ \A m \in 1..amount : f[k][lb + m] = part[m]
      <4>1. f[k] = buf \o part
        BY <3>9 DEF part
      <4>2. /\ buf \o part \in Bytes /\ Len(buf \o part) = lb + Len(part)
            /\ \A j \in 1..lb : (buf \o part)[j] = buf[j]
            /\ \A m \in 1..Len(part) : (buf \o part)[lb + m] = part[m]
        <5>1. \A s, t \in Seq(Nat) :
                /\ s \o t \in Seq(Nat) /\ Len(s \o t) = Len(s) + Len(t)
                /\ \A j \in 1..Len(s) : (s \o t)[j] = s[j]
                /\ \A j \in 1..Len(t) : (s \o t)[Len(s) + j] = t[j]
          BY Concatenation
        <5>2. buf \in Seq(Nat) /\ part \in Seq(Nat)
          BY <3>2, <3>10 DEF Bytes
        <5>. QED  BY <5>1, <5>2, Zenon DEF Bytes
      <4>. HIDE DEF lb
      <4>. QED  BY <3>10, <4>1, <4>2
    <3>13. \A j \in 1..lb : buf[j] = c[off + j]
      BY <2>7 DEF buf
    <3>14. \A j \in 1..Len(f[k]) : f[k][j] = c[off + j]
      <4> SUFFICES ASSUME NEW j \in 1..Len(f[k]) PROVE f[k][j] = c[off + j]
        OBVIOUS
      <4>1. CASE j \in 1..lb
        BY <3>12, <3>13, <4>1
      <4>2. CASE j \notin 1..lb
        <5>1. PICK m \in 1..amount : j = lb + m /\ off + j = off + lb + m
          <6>1. j - lb \in 1..amount /\ j = lb + (j - lb) /\ off + j = off + lb + (j - lb)
            BY <3>2, <3>8, <3>12, <4>2
          <6>. QED  BY <6>1
        <5>2. f[k][lb + m] = c[off + lb + m]
          BY <3>11, <3>12
        <5>. QED  BY <5>1, <5>2
      <4>. QED  BY <4>1, <4>2
    <3>15. off + Len(f[k]) = To(start + k)
      <4>. HIDE DEF To
      <4>1. off + Len(f[k]) = off + lb + amount
        BY <3>2, <3>8, <3>12
      <4>. QED  BY <3>1, <3>8, <4>1
    <3>16. k # 0
      OBVIOUS
    <3>. HIDE DEF To
    <3>. QED  BY <3>12, <3>14, <3>15, <3>16
  <2>8. Holds(rounds)
    <3>. HIDE DEF Holds, rounds
    <3>1. 0 \in Good /\ \A k \in 1..rounds : k - 1 \in Good => k \in Good
      BY <2>5, <2>6, <2>7
    <3>2. 0..rounds \subseteq Good
      <4>. HIDE DEF Good
      <4>. QED  BY <2>5, <3>1, UpTo
    <3>. QED  BY <2>5, <3>2
  <2>9. /\ read \in Bytes /\ off + Len(read) = IF rounds = 0 THEN off ELSE To(start + rounds)
        /\ \A j \in 1..Len(read) : read[j] = c[off + j]
    <3>. HIDE DEF To, rounds
    <3>. QED  BY <2>1, <2>8 DEF Copies, read
  <2>10. Len(read) \in Nat
    BY <2>9 DEF Bytes
  <2>11. off + Len(read) = IF off < stop THEN stop ELSE off
    <3>1. CASE off < Len(c)
      <4>1. start < Direct
        <5>1. Direct <= start => P(Direct) <= P(start)
          BY <1>0, <2>3, Borders
        <5>. QED  BY <1>0, <1>1, <2>3, <2>4, <3>1, <5>1
      <4>2. rounds # 0 /\ start + rounds = last
        BY <1>0, <2>3, <4>1
      <4>3. off + Len(read) = To(last)
        <5>. HIDE DEF To, rounds, last
        <5>. QED  BY <2>9, <4>2
      <4>. HIDE DEF rounds
      <4>4. CASE end < Direct
        <5>1. P(end + 1) = P(end) + B /\ P(end + 1) <= P(Direct)
          <6>1. end + 1 \in Nat /\ end + 1 <= Direct
            BY <1>0, <2>3, <4>4
          <6>. QED  BY <1>0, <2>3, <6>1, Borders
        <5>2. last = end + 1
          BY <4>4
        <5>3. off + Len(read) = off + len
          <6>1. ~ (P(last) < off + len)
            BY <1>0, <2>2, <2>3, <2>4, <5>1, <5>2
          <6>. HIDE DEF last
          <6>. QED  BY <4>3, <6>1 DEF Until, To
        <5>4. off + len <= P(Direct) /\ off + want \in Nat
          BY <1>0, <2>2, <2>3, <2>4, <5>1
        <5>5. stop = off + len
          BY <1>0, <1>1, <2>2, <5>4
        <5>6. off < off + len
          BY <2>2
        <5>. HIDE DEF stop
        <5>. QED  BY <5>3, <5>5, <5>6
      <4>5. CASE ~ (end < Direct)
        <5>1. P(Direct) <= P(end)
          BY <1>0, <2>3, <4>5, Borders
        <5>2. last = Direct
          BY <4>5
        <5>4. P(Direct) < off + len
          BY <1>0, <2>2, <2>3, <2>4, <5>1
        <5>3. off + Len(read) = P(Direct)
          <6>. HIDE DEF last
          <6>. QED  BY <4>3, <5>2, <5>4 DEF Until, To
        <5>5. stop = P(Direct) /\ off < P(Direct)
          BY <1>0, <1>1, <2>2, <3>1, <5>4
        <5>. HIDE DEF stop
        <5>. QED  BY <5>3, <5>5
      <4>. QED  BY <4>4, <4>5
    <3>2. CASE ~ (off < Len(c))
      <4>1. ~ (start < Direct)
        <5>1. start < Direct => P(start) + B <= P(Direct)
          BY <1>0, <2>3, Borders
        <5>. QED  BY <1>0, <1>1, <1>3, <2>3, <2>4, <3>2, <5>1
      <4>2. rounds = 0
        BY <1>0, <2>3, <4>1
      <4>3. off + Len(read) = off
        <5>. HIDE DEF To, rounds
        <5>. QED  BY <2>9, <4>2
      <4>. HIDE DEF rounds
      <4>. QED  BY <1>0, <1>1, <3>2, <4>3
    <3>. QED  BY <3>1, <3>2
  <2>12. /\ off + 1 \in Nat \ {0} /\ stop \in Nat /\ stop <= Len(c)
         /\ off < stop => off + 1 <= stop + 1 /\ stop + 1 - (off + 1) = stop - off
         /\ ~ (off < stop) => stop < off + 1
    BY <1>0, <1>1
  <2>. HIDE DEF stop, rounds, To
  <2>13. CASE off < stop
    <3>1. Len(read) = stop - off
      BY <2>10, <2>11, <2>12, <2>13
    <3>2. /\ SubSeq(c, off + 1, stop) \in Bytes
          /\ Len(SubSeq(c, off + 1, stop)) = stop - off
          /\ \A j \in 1..(stop - off) : SubSeq(c, off + 1, stop)[j] = c[off + 1 + j - 1]
      <4>1. /\ SubSeq(c, off + 1, stop) \in Bytes
            /\ Len(SubSeq(c, off + 1, stop)) = stop + 1 - (off + 1)
            /\ \A j \in 1..(stop + 1 - (off + 1)) :
                 SubSeq(c, off + 1, stop)[j] = c[off + 1 + j - 1]
        BY <1>1, <2>12, <2>13, BytesCut
      <4>. QED  BY <2>12, <2>13, <4>1
    <3>3. \A j \in 1..(stop - off) : off + 1 + j - 1 = off + j
      BY <2>12
    <3>4. read = SubSeq(c, off + 1, stop)
      <4>. DEFINE t == SubSeq(c, off + 1, stop)
      <4>1. t \in Bytes /\ Len(read) = Len(t) /\ \A j \in 1..Len(read) : read[j] = t[j]
        BY <2>9, <3>1, <3>2, <3>3
      <4>. HIDE DEF t
      <4>2. read = t
        BY <2>9, <4>1, SameSequence DEF Bytes
      <4>. QED  BY <4>2 DEF t
    <3>. QED  BY <3>4 DEF read, c, stop
  <2>14. CASE ~ (off < stop)
    <3>1. Len(read) = 0
      BY <2>10, <2>11, <2>14
    <3>2. read = <<>>
      BY <2>9, <3>1 DEF Bytes
    <3>3. SubSeq(c, off + 1, stop) = <<>>
      BY <1>1, <2>12, <2>14, BytesCut
    <3>4. read = SubSeq(c, off + 1, stop)
      BY <3>2, <3>3
    <3>. QED  BY <3>4 DEF read, c, stop
  <2>. QED  BY <2>13, <2>14
<1>. QED  BY <1>2, <1>3

\* No file has a hole in its direct blocks, and no two of the image have the
\* same number of blocks, by which ext2_read finds the inode again, unless
\* there is nothing to read.
NoHoles == \A n \in DOMAIN inodes : Whole(n)
BlocksTell ==
  \A n, m \in DOMAIN inodes : inodes[n].size > 0 /\ inodes[m].blocks = inodes[n].blocks => m = n

LEMMA InodeFound ==
  ASSUME BlocksTell, FileInv, file.of # 0, file.size > 0
  PROVE  InodeOf(file) = file.of
<1>. DEFINE same == {n \in DOMAIN inodes : inodes[n].blocks = file.data}
<1>1. file.of \in DOMAIN inodes /\ file.size = inodes[file.of].size
      /\ file.data = inodes[file.of].blocks
  BY DEF FileInv, Inodes
<1>2. same = {file.of}
  BY <1>1 DEF BlocksTell
<1>3. file.of \in Nat
  BY <1>1, InodesAre
<1>4. (CHOOSE n \in {file.of} : \A m \in {file.of} : n <= m) = file.of
  BY <1>3
<1>5. InodeOf(file) = IF same = {} THEN 0 ELSE CHOOSE n \in same : \A m \in same : n <= m
  BY DEF InodeOf
<1>. HIDE DEF same
<1>. QED  BY <1>2, <1>4, <1>5

LEMMA NothingBehind ==
  ASSUME NEW n \in DOMAIN inodes, Whole(n), NEW off \in Nat, off >= inodes[n].size,
         NEW want \in Nat \ {0}
  PROVE  LET c == Contents(n)
             stop == IF off + want < Len(c) THEN off + want ELSE Len(c)
         IN SubSeq(c, off + 1, stop) = <<>>
<1>1. ext2_read_inode_data(n, off, want) = <<>>
  BY Zenon DEF ext2_read_inode_data
<1>. QED  BY <1>1, ReadData

\* ext2.c:336-355: a read gives the bytes of the file that was opened, at every
\* offset and for every length.
THEOREM ReadsTheFileHolds ==
  ASSUME NoHoles, BlocksTell
  PROVE  Spec => []ReadsTheFile
<1>1. Init => FileInv
  BY FileInvInit
<1>2. FileInv /\ [Next]_vars => FileInv'
  BY FileInvStep
<1>3. FileInv => ReadsTheFile
  <2> SUFFICES ASSUME FileInv, file.of # 0, NEW r \in Reads
               PROVE  LET c == Contents(file.of)
                          end == IF r[1] + r[2] < Len(c) THEN r[1] + r[2] ELSE Len(c)
                      IN ext2_read(file, r[1], r[2]) = SubSeq(c, r[1] + 1, end)
    BY DEF ReadsTheFile
  <2>. DEFINE off == r[1]
              want == r[2]
              c == Contents(file.of)
              stop == IF off + want < Len(c) THEN off + want ELSE Len(c)
  <2>1. off \in Nat /\ want \in Nat \ {0}
    BY Ext2Assumption
  <2>2. file.of \in DOMAIN inodes /\ file.size = inodes[file.of].size /\ Whole(file.of)
        /\ file.size \in Nat
    BY InodeFields DEF FileInv, Inodes, NoHoles
  <2>. HIDE DEF off, want
  <2>3. CASE off >= file.size
    <3>1. ext2_read(file, off, want) = <<>>
      BY <2>3 DEF ext2_read
    <3>2. SubSeq(c, off + 1, stop) = <<>>
      BY <2>1, <2>2, <2>3, NothingBehind
    <3>. HIDE DEF c, stop
    <3>3. ext2_read(file, off, want) = SubSeq(c, off + 1, stop)
      BY <3>1, <3>2
    <3>. QED  BY <3>3 DEF c, stop, off, want
  <2>4. CASE ~ (off >= file.size)
    <3>1. file.size > 0
      BY <2>1, <2>2, <2>4
    <3>2. InodeOf(file) = file.of
      BY <3>1, InodeFound
    <3>3. ext2_read(file, off, want) = ext2_read_inode_data(file.of, off, want)
      BY <2>4, <3>2 DEF ext2_read
    <3>4. ext2_read_inode_data(file.of, off, want) = SubSeq(c, off + 1, stop)
      BY <2>1, <2>2, ReadData
    <3>. HIDE DEF c, stop
    <3>5. ext2_read(file, off, want) = SubSeq(c, off + 1, stop)
      BY <3>3, <3>4
    <3>. QED  BY <3>5 DEF c, stop, off, want
  <2>. QED  BY <2>3, <2>4
<1>. QED  BY <1>1, <1>2, <1>3, PTL DEF Spec
-----------------------------------------------------------------------------
Entry == [name : Seq(Chars), inode : Nat]

\* What is seen of the k-th block of a directory.
Shown(n, k) ==
  LET b == inodes[n].block[k] IN IF b # 0 /\ b \in DOMAIN Entries THEN Visible(b) ELSE <<>>

LEMMA EntriesType ==
  ASSUME NEW b \in DOMAIN Entries
  PROVE  Entries[b] \in Seq(Entry) /\ DOMAIN Entries[b] \subseteq Nat \ {0}
<1>1. Entries[b] \in Seq(Entry)
  BY Ext2Assumption DEF Entry
<1>2. DOMAIN Entries[b] = 1..Len(Entries[b])
  BY <1>1
<1>. QED  BY <1>1, <1>2

\* The entries of a block up to the first one without inode.
LEMMA VisibleIs ==
  ASSUME NEW b \in DOMAIN Entries
  PROVE  /\ Visible(b) \in Seq(Entry)
         /\ \A j \in DOMAIN Entries[b] : (\A i \in 1..j : Entries[b][i].inode # 0) =>
              j \in 1..Len(Visible(b)) /\ Visible(b)[j] = Entries[b][j]
<1>. DEFINE s == Entries[b]
            gaps == {k \in DOMAIN s : s[k].inode = 0}
            g == CHOOSE k \in gaps : \A j \in gaps : k <= j
<1>1. s \in Seq(Entry) /\ DOMAIN s = 1..Len(s) /\ Len(s) \in Nat /\ gaps \in SUBSET Nat
  BY EntriesType
<1>2. Visible(b) = IF gaps = {} THEN s ELSE SubSeq(s, 1, g - 1)
  BY DEF Visible
<1>3. CASE gaps = {}
  <2>1. Visible(b) = s
    BY <1>2, <1>3
  <2>. HIDE DEF s, gaps
  <2>2. Visible(b) \in Seq(Entry) /\ \A j \in DOMAIN s : j \in 1..Len(Visible(b))
        /\ Visible(b)[j] = s[j]
    BY <1>1, <2>1
  <2>. QED  BY <2>2 DEF s
<1>4. CASE gaps # {}
  <2>1. g \in gaps
    <3>. HIDE DEF gaps
    <3>1. \E m \in gaps : \A x \in gaps : m <= x
      BY <1>1, <1>4, LeastNat
    <3>. QED  BY <3>1
  <2>2. g \in 1..Len(s) /\ s[g].inode = 0
    BY <1>1, <2>1
  <2>3. Visible(b) = SubSeq(s, 1, g - 1)
    BY <1>2, <1>4
  <2>. HIDE DEF s, gaps, g
  <2>4. g - 1 \in Int /\ g - 1 <= Len(s) /\ 1 \in Nat \ {0} /\ 1 <= g - 1 + 1
        /\ g - 1 + 1 - 1 = g - 1 /\ \A j \in 1..(g - 1) : 1 + j - 1 = j
    BY <1>1, <2>2
  <2>5. /\ SubSeq(s, 1, g - 1) \in Seq(Entry) /\ Len(SubSeq(s, 1, g - 1)) = g - 1 + 1 - 1
        /\ \A j \in 1..(g - 1 + 1 - 1) : SubSeq(s, 1, g - 1)[j] = s[1 + j - 1]
    BY <1>1, <2>4, SubSequence
  <2>6. Visible(b) \in Seq(Entry) /\ Len(Visible(b)) = g - 1
        /\ \A j \in 1..(g - 1) : Visible(b)[j] = s[j]
    BY <2>3, <2>4, <2>5
  <2>7. ASSUME NEW j \in DOMAIN s, \A i \in 1..j : s[i].inode # 0
        PROVE  j \in 1..(g - 1)
    BY <1>1, <2>2, <2>7
  <2>. QED  BY <2>6, <2>7 DEF s
<1>. QED  BY <1>3, <1>4

LEMMA ShownType == \A n \in DOMAIN inodes : \A k : Shown(n, k) \in Seq(Entry)
<1>1. <<>> \in Seq(Entry)
  OBVIOUS
<1>. QED  BY <1>1, VisibleIs DEF Shown

LEMMA EntriesLoop ==
  ASSUME NEW n \in DOMAIN inodes
  PROVE  \E f : /\ f[0] = <<>>
                /\ \A k \in 1..Direct : f[k] = f[k - 1] \o Shown(n, k)
                /\ DirEntries[n] = f[Direct]
<1>. DEFINE Is(f) == f = [k \in 0..Direct |-> IF k = 0 THEN <<>> ELSE
                 LET b == inodes[n].block[k] IN
                 f[k - 1] \o (IF b # 0 /\ b \in DOMAIN Entries THEN Visible(b) ELSE <<>>)]
            seen == CHOOSE f : Is(f)
            step == [k \in 1..Direct |-> [e \in Seq(Entry) |-> e \o Shown(n, k)]]
<1>0. Direct \in Nat /\ <<>> \in Seq(Entry)
  BY BlockSizeType
<1>1. step \in [1..Direct -> [Seq(Entry) -> Seq(Entry)]]
  <2>1. \A k \in 1..Direct, e \in Seq(Entry) : e \o Shown(n, k) \in Seq(Entry)
    BY ShownType, Concatenation
  <2>. QED  BY <2>1
<1>2. PICK f \in [0..Direct -> Seq(Entry)] : Loop(f, Direct, <<>>, step)
  <2>. HIDE DEF step
  <2>. QED  BY <1>0, <1>1, LoopExists
<1>3. Is(f)
  <2>1. \A k \in 1..Direct : k - 1 \in 0..Direct /\ f[k - 1] \in Seq(Entry)
    BY <1>0
  <2>2. \A k \in 1..Direct : step[k][f[k - 1]] = f[k - 1] \o Shown(n, k)
    BY <2>1
  <2>3. f = [k \in 0..Direct |-> IF k = 0 THEN <<>> ELSE step[k][f[k - 1]]]
    BY <1>2 DEF Loop
  <2>4. \A k \in 0..Direct : k # 0 => k \in 1..Direct
    BY <1>0
  <2>. HIDE DEF step
  <2>. QED  BY <2>2, <2>3, <2>4 DEF Shown
<1>4. Is(seen)
  <2>. HIDE DEF Is
  <2>. QED  BY <1>3
<1>5. DirEntries[n] = seen[Direct]
  BY DEF DirEntries
<1>. HIDE DEF seen
<1>6. \A k \in 0..Direct : seen[k] = IF k = 0 THEN <<>> ELSE seen[k - 1] \o Shown(n, k)
  BY <1>4 DEF Shown
<1>7. seen[0] = <<>> /\ \A k \in 1..Direct : seen[k] = seen[k - 1] \o Shown(n, k)
  <2>1. 0 \in 0..Direct /\ \A k \in 1..Direct : k \in 0..Direct /\ k # 0
    BY <1>0
  <2>. QED  BY <1>6, <2>1
<1>. QED  BY <1>5, <1>7

\* Everything that is seen of a directory's blocks is among its entries.
LEMMA EntriesHave ==
  ASSUME NEW n \in DOMAIN inodes
  PROVE  /\ DirEntries[n] \in Seq(Entry)
         /\ \A k \in 1..Direct : \A x \in 1..Len(Shown(n, k)) :
              \E y \in 1..Len(DirEntries[n]) : DirEntries[n][y] = Shown(n, k)[x]
<1>1. PICK f : /\ f[0] = <<>>
               /\ \A k \in 1..Direct : f[k] = f[k - 1] \o Shown(n, k)
               /\ DirEntries[n] = f[Direct]
  BY EntriesLoop
<1>. DEFINE Holds(k) == /\ f[k] \in Seq(Entry)
                        /\ \A i \in 1..k : \A x \in 1..Len(Shown(n, i)) :
                             \E y \in 1..Len(f[k]) : f[k][y] = Shown(n, i)[x]
            Good == {k \in 0..Direct : Holds(k)}
<1>0. Direct \in Nat
  BY BlockSizeType
<1>2. Holds(0)
  BY <1>1
<1>3. ASSUME NEW k \in 1..Direct, Holds(k - 1) PROVE Holds(k)
  <2>. DEFINE old == f[k - 1]
              part == Shown(n, k)
  <2>1. f[k] = old \o part /\ old \in Seq(Entry) /\ part \in Seq(Entry)
    BY <1>1, <1>3, ShownType
  <2>2. \A i \in 1..k : i # k => i \in 1..(k - 1)
    BY <1>0
  <2>3. \A i \in 1..(k - 1) : \A x \in 1..Len(Shown(n, i)) :
          \E y \in 1..Len(old) : old[y] = Shown(n, i)[x]
    BY <1>3
  <2>. HIDE DEF old, part, Holds
  <2>4. /\ f[k] \in Seq(Entry) /\ Len(f[k]) = Len(old) + Len(part)
        /\ Len(old) \in Nat /\ Len(part) \in Nat
        /\ \A j \in 1..Len(old) : f[k][j] = old[j]
        /\ \A j \in 1..Len(part) : f[k][Len(old) + j] = part[j]
    BY <2>1, Concatenation
  <2>5. /\ \A j \in 1..Len(old) : j \in 1..Len(f[k])
        /\ \A j \in 1..Len(part) : Len(old) + j \in 1..Len(f[k])
    BY <2>4
  <2>6. ASSUME NEW i \in 1..k, NEW x \in 1..Len(Shown(n, i))
        PROVE  \E y \in 1..Len(f[k]) : f[k][y] = Shown(n, i)[x]
    <3>1. CASE i = k
      BY <2>4, <2>5, <3>1 DEF part
    <3>2. CASE i # k
      <4>1. PICK y \in 1..Len(old) : old[y] = Shown(n, i)[x]
        BY <2>2, <2>3, <3>2
      <4>. QED  BY <2>4, <2>5, <4>1
    <3>. QED  BY <3>1, <3>2
  <2>. QED  BY <2>4, <2>6 DEF Holds
<1>4. Holds(Direct)
  <2>. HIDE DEF Holds
  <2>1. 0 \in Good /\ \A k \in 1..Direct : k - 1 \in Good => k \in Good
    BY <1>0, <1>2, <1>3
  <2>2. 0..Direct \subseteq Good
    <3>. HIDE DEF Good
    <3>. QED  BY <1>0, <2>1, UpTo
  <2>. QED  BY <1>0, <2>2
<1>. QED  BY <1>1, <1>4

\* The names of a directory differ, as far as they are seen.
UniqueNames ==
  \A n \in DOMAIN inodes : IsDir(n) => \A j, k \in DOMAIN DirEntries[n] :
    DirEntries[n][j].name = DirEntries[n][k].name => j = k

LEMMA LookupFinds ==
  ASSUME UniqueNames, NEW n \in DOMAIN inodes, IsDir(n), NEW k \in DOMAIN DirEntries[n]
  PROVE  Lookup(n, DirEntries[n][k].name) = ext2_read_inode(DirEntries[n][k].inode)
<1>. DEFINE E == DirEntries[n]
            found == {j \in DOMAIN E : E[j].name = E[k].name}
<1>1. found = {k}
  BY DEF UniqueNames
<1>2. k \in Nat
  <2>1. E \in Seq(Entry)
    BY EntriesHave
  <2>. HIDE DEF E
  <2>2. DOMAIN E = 1..Len(E)
    BY <2>1
  <2>. QED  BY <2>2 DEF E
<1>3. (CHOOSE m \in {k} : \A j \in {k} : m <= j) = k
  BY <1>2
<1>4. Lookup(n, E[k].name)
        = IF ~ IsDir(n) \/ found = {} THEN 0
          ELSE ext2_read_inode(E[CHOOSE m \in found : \A j \in found : m <= j].inode)
  BY DEF Lookup
<1>. HIDE DEF found, E
<1>5. Lookup(n, E[k].name) = ext2_read_inode(E[k].inode)
  BY <1>1, <1>3, <1>4
<1>. QED  BY <1>5 DEF E

\* What a lookup finds is an entry.
LEMMA LookupIsEntry ==
  ASSUME UniqueNames, NEW n \in DOMAIN inodes, IsDir(n), NEW name, Lookup(n, name) # 0
  PROVE  \E k \in DOMAIN DirEntries[n] :
           DirEntries[n][k].name = name /\ ext2_read_inode(DirEntries[n][k].inode) # 0
<1>1. {k \in DOMAIN DirEntries[n] : DirEntries[n][k].name = name} # {}
  BY DEF Lookup
<1>2. PICK k \in DOMAIN DirEntries[n] : DirEntries[n][k].name = name
  BY <1>1
<1>. QED  BY <1>2, LookupFinds

-----------------------------------------------------------------------------
\* The entries that ls is to show.
Shows(e) == e.name \notin {<<".">>, <<".", ".">>} /\ ext2_read_inode(e.inode) # 0
Listed == {FileOf(n, name) : n \in DOMAIN inodes, name \in Texts}
Add(files, e) ==
  IF Len(files) < FS_MAX_FILES /\ Shows(e)
  THEN Append(files, FileOf(e.inode, e.name)) ELSE files

LEMMA ShownFile ==
  ASSUME NEW e \in Entry, Shows(e)
  PROVE  FileOf(e.inode, e.name) \in Listed /\ ext2_read_inode(e.inode) = e.inode
BY DEF Shows, Listed, ext2_read_inode, Entry, Texts

LEMMA AddType ==
  ASSUME NEW files \in Seq(Listed), NEW e \in Entry
  PROVE  Add(files, e) \in Seq(Listed)
<1>1. CASE Shows(e)
  BY <1>1, ShownFile DEF Add
<1>2. CASE ~ Shows(e)
  BY <1>2 DEF Add
<1>. QED  BY <1>1, <1>2

LEMMA ListLoop ==
  ASSUME NEW n \in DOMAIN inodes, IsDir(n)
  PROVE  \E f : /\ f[0] = <<>>
                /\ \A k \in 1..Len(DirEntries[n]) : f[k] = Add(f[k - 1], DirEntries[n][k])
                /\ ext2_list(n) = f[Len(DirEntries[n])]
<1>. DEFINE E == DirEntries[n]
            Is(f) == f = [k \in 0..Len(E) |-> IF k = 0 THEN <<>>
              ELSE LET files == f[k - 1]
                       e == E[k]
                   IN IF /\ Len(files) < FS_MAX_FILES
                         /\ e.name \notin {<<".">>, <<".", ".">>} /\ ext2_read_inode(e.inode) # 0
                      THEN Append(files, FileOf(e.inode, e.name)) ELSE files]
            cache == CHOOSE f : Is(f)
            step == [k \in 1..Len(E) |-> [s \in Seq(Listed) |-> Add(s, E[k])]]
<1>0. E \in Seq(Entry) /\ Len(E) \in Nat /\ <<>> \in Seq(Listed)
      /\ \A k \in 1..Len(E) : E[k] \in Entry
  <2>1. E \in Seq(Entry)
    BY EntriesHave
  <2>. HIDE DEF E
  <2>. QED  BY <2>1
<1>5. ext2_list(n) = cache[Len(E)]
  <2>1. ext2_list(n) = IF IsDir(n) THEN cache[Len(E)] ELSE <<>>
    BY Zenon DEF ext2_list
  <2>. HIDE DEF cache, E
  <2>. QED  BY <2>1
<1>8. \A f : Is(f) <=> f = [k \in 0..Len(E) |-> IF k = 0 THEN <<>> ELSE Add(f[k - 1], E[k])]
  BY DEF Add, Shows
<1>. HIDE DEF E, Is
<1>1. step \in [1..Len(E) -> [Seq(Listed) -> Seq(Listed)]]
  BY <1>0, AddType
<1>2. PICK f \in [0..Len(E) -> Seq(Listed)] : Loop(f, Len(E), <<>>, step)
  <2>. HIDE DEF step
  <2>. QED  BY <1>0, <1>1, LoopExists
<1>3. Is(f)
  <2>1. \A k \in 1..Len(E) : k - 1 \in 0..Len(E) /\ f[k - 1] \in Seq(Listed)
    BY <1>0
  <2>2. \A k \in 1..Len(E) : step[k][f[k - 1]] = Add(f[k - 1], E[k])
    BY <2>1
  <2>3. f = [k \in 0..Len(E) |-> IF k = 0 THEN <<>> ELSE step[k][f[k - 1]]]
    BY <1>2 DEF Loop
  <2>4. \A k \in 0..Len(E) : k # 0 => k \in 1..Len(E)
    BY <1>0
  <2>. HIDE DEF step
  <2>5. f = [k \in 0..Len(E) |-> IF k = 0 THEN <<>> ELSE Add(f[k - 1], E[k])]
    BY <2>2, <2>3, <2>4
  <2>. QED  BY <1>8, <2>5
<1>4. Is(cache)
  BY <1>3
<1>. HIDE DEF cache
<1>6. \A k \in 0..Len(E) : cache[k] = IF k = 0 THEN <<>> ELSE Add(cache[k - 1], E[k])
  BY <1>4, <1>8
<1>7. cache[0] = <<>> /\ \A k \in 1..Len(E) : cache[k] = Add(cache[k - 1], E[k])
  <2>1. 0 \in 0..Len(E) /\ \A k \in 1..Len(E) : k \in 0..Len(E) /\ k # 0
    BY <1>0
  <2>. QED  BY <1>6, <2>1
<1>. QED  BY <1>5, <1>7 DEF E

\* What is listed are entries, and every entry that is to be shown is listed
\* as long as the list has room.
LEMMA ListIs ==
  ASSUME NEW n \in DOMAIN inodes, IsDir(n)
  PROVE  LET E == DirEntries[n]
             files == ext2_list(n)
         IN /\ files \in Seq(Listed)
            /\ \A y \in 1..Len(files) : \E x \in 1..Len(E) :
                 Shows(E[x]) /\ files[y] = FileOf(E[x].inode, E[x].name)
            /\ Len(files) < FS_MAX_FILES => \A x \in 1..Len(E) : Shows(E[x]) =>
                 \E y \in 1..Len(files) : files[y] = FileOf(E[x].inode, E[x].name)
<1>. DEFINE E == DirEntries[n]
            Of(x) == FileOf(E[x].inode, E[x].name)
<1>1. PICK f : /\ f[0] = <<>>
               /\ \A k \in 1..Len(E) : f[k] = Add(f[k - 1], E[k])
               /\ ext2_list(n) = f[Len(E)]
  BY ListLoop
<1>0. E \in Seq(Entry) /\ Len(E) \in Nat /\ FS_MAX_FILES \in Nat
      /\ \A k \in 1..Len(E) : E[k] \in Entry
  <2>1. E \in Seq(Entry)
    BY EntriesHave
  <2>. HIDE DEF E
  <2>. QED  BY <2>1, Ext2Assumption
<1>. HIDE DEF E
<1>. DEFINE Holds(k) == /\ f[k] \in Seq(Listed)
                        /\ \A y \in 1..Len(f[k]) : \E x \in 1..k : Shows(E[x]) /\ f[k][y] = Of(x)
                        /\ Len(f[k]) < FS_MAX_FILES => \A x \in 1..k : Shows(E[x]) =>
                             \E y \in 1..Len(f[k]) : f[k][y] = Of(x)
            Good == {k \in 0..Len(E) : Holds(k)}
<1>2. Holds(0)
  BY <1>1
<1>3. ASSUME NEW k \in 1..Len(E), Holds(k - 1) PROVE Holds(k)
  <2>. DEFINE old == f[k - 1]
  <2>1. /\ old \in Seq(Listed) /\ Len(old) \in Nat
        /\ \A y \in 1..Len(old) : \E x \in 1..(k - 1) : Shows(E[x]) /\ old[y] = Of(x)
        /\ Len(old) < FS_MAX_FILES => \A x \in 1..(k - 1) : Shows(E[x]) =>
             \E y \in 1..Len(old) : old[y] = Of(x)
    BY <1>3
  <2>2. f[k] = Add(old, E[k])
    BY <1>1
  <2>3. \A x \in 1..(k - 1) : x \in 1..k
    BY <1>0
  <2>4. \A x \in 1..k : x # k => x \in 1..(k - 1)
    BY <1>0
  <2>. HIDE DEF old
  <2>5. CASE Len(old) < FS_MAX_FILES /\ Shows(E[k])
    <3>1. f[k] = Append(old, Of(k)) /\ Of(k) \in Listed
      BY <1>0, <2>2, <2>5, ShownFile DEF Add
    <3>. HIDE DEF Of
    <3>2. /\ f[k] \in Seq(Listed) /\ Len(f[k]) = Len(old) + 1
          /\ \A y \in 1..Len(old) : f[k][y] = old[y]
          /\ f[k][Len(old) + 1] = Of(k)
      BY <2>1, <3>1
    <3>3. /\ \A y \in 1..Len(old) : y \in 1..Len(f[k])
          /\ Len(old) + 1 \in 1..Len(f[k])
          /\ \A y \in 1..Len(f[k]) : y \in 1..Len(old) \/ y = Len(old) + 1
      BY <2>1, <3>2
    <3>4. ASSUME NEW y \in 1..Len(f[k])
          PROVE  \E x \in 1..k : Shows(E[x]) /\ f[k][y] = Of(x)
      <4>1. CASE y \in 1..Len(old)
        BY <2>1, <2>3, <3>2, <4>1
      <4>2. CASE y = Len(old) + 1
        BY <2>5, <3>2, <4>2
      <4>. QED  BY <3>3, <4>1, <4>2
    <3>5. ASSUME NEW x \in 1..k, Shows(E[x])
          PROVE  \E y \in 1..Len(f[k]) : f[k][y] = Of(x)
      <4>1. CASE x = k
        BY <3>2, <3>3, <4>1
      <4>2. CASE x # k
        <5>1. PICK y \in 1..Len(old) : old[y] = Of(x)
          BY <2>1, <2>4, <2>5, <3>5, <4>2
        <5>. QED  BY <3>2, <3>3, <5>1
      <4>. QED  BY <4>1, <4>2
    <3>. QED  BY <3>2, <3>4, <3>5
  <2>6. CASE ~ (Len(old) < FS_MAX_FILES /\ Shows(E[k]))
    <3>1. f[k] = old
      BY <2>2, <2>6 DEF Add
    <3>. HIDE DEF Of
    <3>2. ASSUME NEW x \in 1..k, Shows(E[x]), Len(old) < FS_MAX_FILES
          PROVE  \E y \in 1..Len(old) : old[y] = Of(x)
      BY <2>1, <2>4, <2>6, <3>2
    <3>3. \A y \in 1..Len(old) : \E x \in 1..k : Shows(E[x]) /\ old[y] = Of(x)
      BY <2>1, <2>3
    <3>. QED  BY <2>1, <3>1, <3>2, <3>3
  <2>. QED  BY <2>5, <2>6
<1>4. Holds(Len(E))
  <2>. HIDE DEF Holds
  <2>1. 0 \in Good /\ \A k \in 1..Len(E) : k - 1 \in Good => k \in Good
    BY <1>0, <1>2, <1>3
  <2>2. 0..Len(E) \subseteq Good
    <3>. HIDE DEF Good
    <3>. QED  BY <1>0, <2>1, UpTo
  <2>. QED  BY <1>0, <2>2
<1>. QED  BY <1>1, <1>4 DEF E

LEMMA EntryFound ==
  ASSUME UniqueNames, NEW n \in DOMAIN inodes, IsDir(n), NEW k \in 1..Direct,
         inodes[n].block[k] # 0, NEW b, b = inodes[n].block[k], b \in DOMAIN Entries,
         NEW j \in DOMAIN Entries[b], Entries[b][j].inode \in DOMAIN inodes,
         \A i \in 1..(j - 1) : Entries[b][i].inode # 0
  PROVE  Lookup(n, Entries[b][j].name) # 0
<1>1. j \in Nat \ {0} /\ Entries[b][j].inode # 0
  BY EntriesType, InodesAre
<1>2. \A i \in 1..j : Entries[b][i].inode # 0
  <2>1. \A i \in 1..j : i \in 1..(j - 1) \/ i = j
    BY <1>1
  <2>. QED  BY <1>1, <2>1
<1>3. j \in 1..Len(Visible(b)) /\ Visible(b)[j] = Entries[b][j]
  BY <1>2, VisibleIs
<1>4. Shown(n, k) = Visible(b)
  BY DEF Shown
<1>5. PICK y \in 1..Len(DirEntries[n]) : DirEntries[n][y] = Entries[b][j]
  BY <1>3, <1>4, EntriesHave
<1>6. y \in DOMAIN DirEntries[n]
  <2>1. DirEntries[n] \in Seq(Entry)
    BY EntriesHave
  <2>. QED  BY <2>1
<1>7. Lookup(n, Entries[b][j].name) = ext2_read_inode(Entries[b][j].inode)
  BY <1>5, <1>6, LookupFinds
<1>. QED  BY <1>1, <1>7 DEF ext2_read_inode

LEMMA FilesFound ==
  ASSUME UniqueNames, NEW n \in DOMAIN inodes, IsDir(n), NEW y \in DOMAIN ext2_list(n)
  PROVE  LET m == Lookup(n, ext2_list(n)[y].name)
         IN m # 0 /\ ext2_list(n)[y].size = inodes[m].size /\ ext2_list(n)[y].is_dir = IsDir(m)
<1>1. y \in 1..Len(ext2_list(n))
  <2>1. ext2_list(n) \in Seq(Listed)
    BY ListIs
  <2>. QED  BY <2>1
<1>2. PICK x \in 1..Len(DirEntries[n]) :
         /\ Shows(DirEntries[n][x])
         /\ ext2_list(n)[y] = FileOf(DirEntries[n][x].inode, DirEntries[n][x].name)
  BY <1>1, ListIs
<1>3. x \in DOMAIN DirEntries[n] /\ DirEntries[n][x] \in Entry
  <2>1. DirEntries[n] \in Seq(Entry)
    BY EntriesHave
  <2>. QED  BY <2>1
<1>. DEFINE e == DirEntries[n][x]
<1>4. Lookup(n, e.name) = ext2_read_inode(e.inode)
  BY <1>3, LookupFinds
<1>5. ext2_read_inode(e.inode) = e.inode /\ e.inode # 0
  BY <1>2, <1>3, ShownFile DEF Shows
<1>6. ext2_list(n)[y].name = e.name /\ ext2_list(n)[y].size = inodes[e.inode].size
      /\ ext2_list(n)[y].is_dir = IsDir(e.inode)
  BY <1>2 DEF FileOf
<1>. QED  BY <1>4, <1>5, <1>6

LEMMA FoundIsListed ==
  ASSUME UniqueNames, NEW n \in DOMAIN inodes, IsDir(n), NEW name, name \notin {<<".">>, <<".", ".">>},
         Len(ext2_list(n)) < FS_MAX_FILES, Lookup(n, name) # 0
  PROVE  \E y \in DOMAIN ext2_list(n) : ext2_list(n)[y].name = name
<1>1. PICK x \in DOMAIN DirEntries[n] :
         DirEntries[n][x].name = name /\ ext2_read_inode(DirEntries[n][x].inode) # 0
  BY LookupIsEntry
<1>2. x \in 1..Len(DirEntries[n]) /\ Shows(DirEntries[n][x])
  <2>1. DirEntries[n] \in Seq(Entry)
    BY EntriesHave
  <2>. QED  BY <1>1, <2>1 DEF Shows
<1>3. PICK y \in 1..Len(ext2_list(n)) :
         ext2_list(n)[y] = FileOf(DirEntries[n][x].inode, DirEntries[n][x].name)
  BY <1>2, ListIs
<1>4. y \in DOMAIN ext2_list(n)
  <2>1. ext2_list(n) \in Seq(Listed)
    BY ListIs
  <2>. QED  BY <2>1
<1>. QED  BY <1>1, <1>3, <1>4 DEF FileOf

\* ext2.c:176-226, 357-431: the loop that looks a name up and the one that
\* lists the directory see the same entries.
THEOREM ListedIsFoundHolds ==
  ASSUME PlainImage, UniqueNames
  PROVE  Spec => []ListedIsFound
<1>1. Init => DirInv /\ FileInv
  BY DirInvInit, FileInvInit
<1>2. DirInv /\ FileInv /\ [Next]_vars => (DirInv /\ FileInv)'
  BY DirInvStep, FileInvStep
<1>3. DirInv => ListedIsFound
  <2> SUFFICES ASSUME DirInv PROVE ListedIsFound
    OBVIOUS
  <2>. DEFINE here == Here
              files == ext2_list(here)
              blocks == {b \in {inodes[here].block[k] : k \in 1..Direct} \ {0} : b \in DOMAIN Entries}
              names == {e.name : e \in UNION {Range(Entries[b]) : b \in DOMAIN Entries}}
  <2>1. here \in DOMAIN inodes /\ IsDir(here)
    <3>1. Here \in Inodes
      BY HereType DEF DirInv
    <3>. QED  BY <3>1 DEF DirInv, IsDir, Inodes
  <2>. HIDE DEF here
  <2>2. ASSUME NEW b \in blocks, NEW j \in DOMAIN Entries[b],
               Entries[b][j].inode \in DOMAIN inodes,
               \A i \in 1..(j - 1) : Entries[b][i].inode # 0
        PROVE  Lookup(here, Entries[b][j].name) # 0
    <3>1. PICK k \in 1..Direct : b = inodes[here].block[k] /\ b # 0 /\ b \in DOMAIN Entries
      OBVIOUS
    <3>. HIDE DEF blocks
    <3>. QED  BY <2>1, <2>2, <3>1, EntryFound
  <2>3. \A k \in DOMAIN files : LET n == Lookup(here, files[k].name) IN
          n # 0 /\ files[k].size = inodes[n].size /\ files[k].is_dir = IsDir(n)
    BY <2>1, FilesFound
  <2>4. Len(files) < FS_MAX_FILES =>
          \A name \in names \ {<<".">>, <<".", ".">>} :
            Lookup(here, name) # 0 => \E k \in DOMAIN files : files[k].name = name
    <3>. HIDE DEF names
    <3>. QED  BY <2>1, FoundIsListed
  <2>5. \A b \in blocks : \A j \in DOMAIN Entries[b] :
          /\ Entries[b][j].inode \in DOMAIN inodes
          /\ \A i \in 1..(j - 1) : Entries[b][i].inode # 0
          => Lookup(here, Entries[b][j].name) # 0
    <3>. HIDE DEF blocks
    <3>. QED  BY <2>2
  <2>. QED  BY <2>3, <2>4, <2>5, Zenon DEF ListedIsFound, here
<1>. QED  BY <1>1, <1>2, <1>3, PTL DEF Spec
=============================================================================
