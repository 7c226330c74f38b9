----------------------------- MODULE FilesProofs -----------------------------
(***************************************************************************)
(* The file registry, for every archive and every size of its tables, and  *)
(* the system calls that read it, for every address space and every        *)
(* argument of a program.                                                  *)
(***************************************************************************)
EXTENDS Syscalls, TLAPS, WellFoundedInduction

Text == Seq(Char)
Listed == [name : Text, data : Seq(Byte)]
FileRec == [name : Text, data : Int, size : Nat, capacity : Nat, mode : Nat, is_dir : BOOLEAN]
DirRec == [name : Text, path : Text]
Pool == [0..PoolSize -> Byte]
-----------------------------------------------------------------------------
\* Sequences of anything.
LEMMA SubSequence ==
  ASSUME NEW T, NEW s \in Seq(T), NEW m \in Nat \ {0}, NEW n \in Nat, n <= Len(s)
  PROVE  SubSeq(s, m, n) \in Seq(T)
OBVIOUS

LEMMA SubSequencePlaces ==
  ASSUME NEW T, NEW s \in Seq(T), NEW m \in Nat \ {0}, NEW n \in Nat, n <= Len(s), m <= n + 1
  PROVE  /\ Len(SubSeq(s, m, n)) = n + 1 - m
         /\ \A k \in 1..(n + 1 - m) : SubSeq(s, m, n)[k] = s[m + k - 1]
OBVIOUS

LEMMA Appending ==
  ASSUME NEW T, NEW s \in Seq(T), NEW e \in T
  PROVE  /\ Append(s, e) \in Seq(T) /\ Len(Append(s, e)) = Len(s) + 1 /\ Len(s) \in Nat
         /\ DOMAIN Append(s, e) = 1..(Len(s) + 1) /\ DOMAIN s = 1..Len(s)
         /\ \A k \in 1..Len(s) : Append(s, e)[k] = s[k]
         /\ Append(s, e)[Len(s) + 1] = e
OBVIOUS

LEMMA FunctionIsSequence ==
  ASSUME NEW T, NEW n \in Nat, NEW s \in [1..n -> T]
  PROVE  s \in Seq(T) /\ Len(s) = n /\ DOMAIN s = 1..n
OBVIOUS

LEMMA Joined ==
  ASSUME NEW T, NEW s \in Seq(T), NEW t \in Seq(T)
  PROVE  /\ s \o t \in Seq(T) /\ Len(s \o t) = Len(s) + Len(t)
         /\ \A k \in 1..(Len(s) + Len(t)) :
              (s \o t)[k] = IF k <= Len(s) THEN s[k] ELSE t[k - Len(s)]
OBVIOUS

LEMMA SameSequence ==
  ASSUME NEW T, NEW s \in Seq(T), NEW t \in Seq(T), Len(s) = Len(t),
         \A k \in 1..Len(s) : s[k] = t[k]
  PROVE  s = t
<1>1. s \in [1..Len(s) -> T] /\ t \in [1..Len(s) -> T]
  OBVIOUS
<1>2. s = [k \in 1..Len(s) |-> s[k]] /\ t = [k \in 1..Len(s) |-> t[k]]
  BY <1>1
<1>. QED  BY <1>2

LEMMA LeastNat ==
  ASSUME NEW S \in SUBSET Nat, S # {}
  PROVE  \E m \in S : \A x \in S : m <= x
<1>1. PICK m \in S : \A x \in S : ~ (<<x, m>> \in OpToRel(<, Nat))
  BY WFMin, NatLessThanWellFounded
<1>2. \A x \in S : ~ (x < m)
  BY <1>1 DEF OpToRel
<1>. QED  BY <1>2
-----------------------------------------------------------------------------
\* Names stay names when they are cut.
LEMMA RootType == Root \in Text /\ Root # <<>>
<1>1. "/" \in Char
  BY LimitsAssumption
<1>. QED  BY <1>1 DEF Root, Text

LEMMA CutType ==
  ASSUME NEW n \in Text
  PROVE  Cut(n) \in Text /\ (Len(n) < NameBuf => Cut(n) = n)
<1>1. NameBuf \in Nat /\ NameBuf > 2
  BY LimitsAssumption
<1>2. CASE Len(n) < NameBuf
  BY <1>2 DEF Cut
<1>3. CASE ~ (Len(n) < NameBuf)
  <2>1. Len(n) \in Nat
    BY DEF Text
  <2>2. NameBuf - 1 \in Nat /\ NameBuf - 1 <= Len(n)
    BY <1>1, <1>3, <2>1
  <2>3. SubSeq(n, 1, NameBuf - 1) \in Text
    BY <2>2, SubSequence DEF Text
  <2>. QED  BY <1>3, <2>3 DEF Cut
<1>. QED  BY <1>2, <1>3

LEMMA DirNameType ==
  ASSUME NEW n \in Text, IsDirName(n)
  PROVE  DirName(n) \in Text /\ Len(DirName(n)) < NameBuf
<1>1. NameBuf \in Nat /\ NameBuf > 2
  BY LimitsAssumption
<1>2. Len(n) \in Nat \ {0}
  BY DEF IsDirName, Text
<1> DEFINE m == IF Len(n) - 1 >= NameBuf THEN NameBuf - 2 ELSE Len(n) - 1
<1>3. m \in Nat /\ m <= Len(n) /\ 1 <= m + 1 /\ m < NameBuf /\ m + 1 - 1 = m
  BY <1>1, <1>2
<1>4. DirName(n) = SubSeq(n, 1, m)
  BY DEF DirName
<1>. HIDE DEF m
<1>5. SubSeq(n, 1, m) \in Text
  BY <1>3, SubSequence DEF Text
<1>6. Len(SubSeq(n, 1, m)) = m
  BY <1>3, SubSequencePlaces DEF Text
<1>. QED  BY <1>3, <1>4, <1>5, <1>6
-----------------------------------------------------------------------------
\* The buffers of a list of files: inside the first m bytes, each for one file.
Packed(fs, m) ==
  \A i \in DOMAIN fs :
    LET f == fs[i] IN
    /\ f.is_dir <=> f.data = Null
    /\ ~ f.is_dir =>
         /\ f.data >= 0 /\ f.size <= f.capacity /\ f.data + f.capacity <= m
         /\ \A j \in 1..(i - 1) :
              fs[j].is_dir \/ fs[j].data + fs[j].capacity <= f.data
                           \/ f.data + f.capacity <= fs[j].data

LEMMA FileFields ==
  ASSUME NEW f \in FileRec
  PROVE  /\ f.name \in Text /\ f.data \in Int /\ f.size \in Nat /\ f.capacity \in Nat
         /\ f.mode \in Nat /\ f.is_dir \in BOOLEAN
BY DEF FileRec

LEMMA PackedAppend ==
  ASSUME NEW fs \in Seq(FileRec), NEW m \in Nat, NEW m2 \in Nat, m <= m2, Packed(fs, m),
         NEW f \in FileRec, f.is_dir <=> f.data = Null,
         ~ f.is_dir => f.data >= m /\ f.size <= f.capacity /\ f.data + f.capacity <= m2
  PROVE  Packed(Append(fs, f), m2)
<1> DEFINE gs == Append(fs, f)
<1>1. /\ DOMAIN gs = 1..(Len(fs) + 1) /\ DOMAIN fs = 1..Len(fs) /\ Len(fs) \in Nat
      /\ \A k \in 1..Len(fs) : gs[k] = fs[k]
      /\ gs[Len(fs) + 1] = f
  BY Appending
<1>. HIDE DEF gs
<1>2. \A k \in 1..Len(fs) : fs[k] \in FileRec
  BY <1>1
<1>3. ASSUME NEW i \in DOMAIN gs
      PROVE  /\ gs[i].is_dir <=> gs[i].data = Null
             /\ ~ gs[i].is_dir =>
                  /\ gs[i].data >= 0 /\ gs[i].size <= gs[i].capacity
                  /\ gs[i].data + gs[i].capacity <= m2
                  /\ \A j \in 1..(i - 1) :
                       gs[j].is_dir \/ gs[j].data + gs[j].capacity <= gs[i].data
                                    \/ gs[i].data + gs[i].capacity <= gs[j].data
  <2>1. CASE i \in 1..Len(fs)
    <3>1. /\ gs[i] = fs[i] /\ \A j \in 1..(i - 1) : gs[j] = fs[j]
          /\ i \in DOMAIN fs
      BY <1>1, <2>1
    <3>2. fs[i].data \in Int /\ fs[i].capacity \in Nat
      BY <1>2, <2>1, FileFields
    <3>3. /\ fs[i].is_dir <=> fs[i].data = Null
          /\ ~ fs[i].is_dir =>
               /\ fs[i].data >= 0 /\ fs[i].size <= fs[i].capacity
               /\ fs[i].data + fs[i].capacity <= m
               /\ \A j \in 1..(i - 1) :
                    fs[j].is_dir \/ fs[j].data + fs[j].capacity <= fs[i].data
                                 \/ fs[i].data + fs[i].capacity <= fs[j].data
      BY <3>1 DEF Packed
    <3>4. fs[i].data + fs[i].capacity <= m => fs[i].data + fs[i].capacity <= m2
      BY <3>2
    <3>5. ~ gs[i].is_dir => \A j \in 1..(i - 1) :
            gs[j].is_dir \/ gs[j].data + gs[j].capacity <= gs[i].data
                         \/ gs[i].data + gs[i].capacity <= gs[j].data
      BY <3>1, <3>3
    <3>. QED  BY <3>1, <3>3, <3>4, <3>5
  <2>2. CASE i = Len(fs) + 1
    <3>1. gs[i] = f /\ \A j \in 1..(i - 1) : j \in 1..Len(fs) /\ gs[j] = fs[j]
      BY <1>1, <2>2
    <3>2. f.data \in Int /\ f.capacity \in Nat
      BY FileFields
    <3>3. ASSUME ~ f.is_dir, NEW j \in 1..(i - 1), ~ fs[j].is_dir
          PROVE  fs[j].data + fs[j].capacity <= f.data
      <4>1. j \in DOMAIN fs /\ fs[j].data \in Int /\ fs[j].capacity \in Nat
        BY <1>1, <1>2, <3>1, FileFields
      <4>2. fs[j].data + fs[j].capacity <= m
        BY <3>3, <4>1 DEF Packed
      <4>. QED  BY <3>2, <3>3, <4>1, <4>2
    <3>4. ~ f.is_dir => f.data >= 0 /\ f.size <= f.capacity /\ f.data + f.capacity <= m2
      BY <3>2
    <3>5. ~ f.is_dir => \A j \in 1..(i - 1) :
            fs[j].is_dir \/ fs[j].data + fs[j].capacity <= f.data
      BY <3>3
    <3>6. ~ f.is_dir => \A j \in 1..(i - 1) :
            \/ gs[j].is_dir \/ gs[j].data + gs[j].capacity <= f.data
            \/ f.data + f.capacity <= gs[j].data
      BY <3>1, <3>5
    <3>7. f = gs[i]
      BY <3>1
    <3>8. /\ f.is_dir <=> f.data = Null
          /\ ~ f.is_dir =>
               /\ f.data >= 0 /\ f.size <= f.capacity /\ f.data + f.capacity <= m2
               /\ \A j \in 1..(i - 1) :
                    gs[j].is_dir \/ gs[j].data + gs[j].capacity <= f.data
                                 \/ f.data + f.capacity <= gs[j].data
      BY <3>4, <3>6
    <3>. QED  BY <3>7, <3>8
  <2>. QED  BY <1>1, <2>1, <2>2
<1>. QED  BY <1>3 DEF Packed, gs

\* One file in the list is replaced by one in the same buffer, or by one in a
\* new buffer behind all others.
LEMMA PackedReplace ==
  ASSUME NEW fs \in Seq(FileRec), NEW m \in Nat, NEW m2 \in Nat, m <= m2, Packed(fs, m),
         NEW i \in DOMAIN fs, NEW g \in FileRec, g.is_dir <=> fs[i].is_dir,
         \/ g.data = fs[i].data /\ g.capacity = fs[i].capacity
         \/ ~ g.is_dir /\ g.data >= m /\ g.data + g.capacity <= m2,
         ~ g.is_dir => g.size <= g.capacity
  PROVE  [fs EXCEPT ![i] = g] \in Seq(FileRec) /\ Packed([fs EXCEPT ![i] = g], m2)
<1> DEFINE gs == [fs EXCEPT ![i] = g]
<1>1. /\ gs \in Seq(FileRec) /\ DOMAIN gs = DOMAIN fs /\ gs[i] = g
      /\ \A k \in DOMAIN fs \ {i} : gs[k] = fs[k]
      /\ DOMAIN fs = 1..Len(fs) /\ Len(fs) \in Nat
  OBVIOUS
<1>. HIDE DEF gs
<1>2. \A k \in DOMAIN fs : /\ fs[k].data \in Int /\ fs[k].capacity \in Nat /\ fs[k].size \in Nat
                           /\ gs[k].data \in Int /\ gs[k].capacity \in Nat /\ gs[k].size \in Nat
  <2>1. \A k \in DOMAIN fs : fs[k] \in FileRec /\ gs[k] \in FileRec
    BY <1>1
  <2>. QED  BY <2>1, FileFields
<1>3. \A k \in DOMAIN fs : ~ fs[k].is_dir => fs[k].data + fs[k].capacity <= m
  BY DEF Packed
<1>4. \A j, k \in DOMAIN fs : j # k /\ ~ fs[j].is_dir /\ ~ fs[k].is_dir =>
        fs[j].data + fs[j].capacity <= fs[k].data \/ fs[k].data + fs[k].capacity <= fs[j].data
  <2> SUFFICES ASSUME NEW j \in DOMAIN fs, NEW k \in DOMAIN fs, j # k,
                      ~ fs[j].is_dir, ~ fs[k].is_dir
               PROVE  \/ fs[j].data + fs[j].capacity <= fs[k].data
                      \/ fs[k].data + fs[k].capacity <= fs[j].data
    OBVIOUS
  <2>1. CASE j < k
    <3>1. j \in 1..(k - 1)
      BY <1>1, <2>1
    <3>. QED  BY <3>1 DEF Packed
  <2>2. CASE k < j
    <3>1. k \in 1..(j - 1)
      BY <1>1, <2>2
    <3>. QED  BY <3>1 DEF Packed
  <2>. QED  BY <1>1, <2>1, <2>2
<1>5. \A k \in DOMAIN fs : (gs[k].is_dir <=> fs[k].is_dir)
  BY <1>1
<1>6. \A j, k \in DOMAIN fs : j # k /\ ~ gs[j].is_dir /\ ~ gs[k].is_dir =>
        gs[j].data + gs[j].capacity <= gs[k].data \/ gs[k].data + gs[k].capacity <= gs[j].data
  <2> SUFFICES ASSUME NEW j \in DOMAIN fs, NEW k \in DOMAIN fs, j # k,
                      ~ gs[j].is_dir, ~ gs[k].is_dir
               PROVE  \/ gs[j].data + gs[j].capacity <= gs[k].data
                      \/ gs[k].data + gs[k].capacity <= gs[j].data
    OBVIOUS
  <2>0. ~ fs[j].is_dir /\ ~ fs[k].is_dir
    BY <1>5
  <2>1. CASE g.data = fs[i].data /\ g.capacity = fs[i].capacity
    <3>1. \A l \in DOMAIN fs : gs[l].data = fs[l].data /\ gs[l].capacity = fs[l].capacity
      BY <1>1, <2>1
    <3>. QED  BY <1>4, <2>0, <3>1
  <2>2. CASE g.data >= m
    <3>1. CASE j = i
      BY <1>1, <1>2, <1>3, <2>0, <2>2, <3>1
    <3>2. CASE k = i
      BY <1>1, <1>2, <1>3, <2>0, <2>2, <3>2, SMTT(30)
    <3>3. CASE j # i /\ k # i
      BY <1>1, <1>4, <2>0, <3>3
    <3>. QED  BY <3>1, <3>2, <3>3
  <2>. QED  BY <2>1, <2>2
<1>7. ASSUME NEW k \in DOMAIN gs
      PROVE  /\ gs[k].is_dir <=> gs[k].data = Null
             /\ ~ gs[k].is_dir => /\ gs[k].data >= 0 /\ gs[k].size <= gs[k].capacity
                                  /\ gs[k].data + gs[k].capacity <= m2
  <2>1. /\ fs[k].is_dir <=> fs[k].data = Null
        /\ ~ fs[k].is_dir => fs[k].data >= 0 /\ fs[k].size <= fs[k].capacity
                              /\ fs[k].data + fs[k].capacity <= m
    BY <1>1, <1>7 DEF Packed
  <2>2. CASE k # i
    BY <1>1, <1>2, <2>1, <2>2, SMTT(30)
  <2>3. CASE k = i /\ g.data = fs[i].data /\ g.capacity = fs[i].capacity
    BY <1>1, <1>2, <2>1, <2>3
  <2>4. CASE k = i /\ ~ g.is_dir /\ g.data >= m /\ g.data + g.capacity <= m2
    BY <1>1, <1>2, <2>1, <2>4 DEF Null
  <2>. QED  BY <2>2, <2>3, <2>4
<1>8. \A k \in DOMAIN gs : \A j \in 1..(k - 1) : j \in DOMAIN fs /\ j # k
  BY <1>1
<1>9. Packed(gs, m2)
  BY <1>1, <1>6, <1>7, <1>8 DEF Packed
<1>. QED  BY <1>1, <1>9 DEF gs
-----------------------------------------------------------------------------
\* A directory is where its name says; a file of the archive is there.
Placed(d) == d.path = IF d.name = Root THEN Root ELSE Root \o d.name

Found(s, fs, m, ds) ==
  IF IsDirName(s.name)
  THEN Len(ds) = FS_MAX_DIRS \/ \E d \in DOMAIN ds : ds[d].name = DirName(s.name)
  ELSE \E i \in DOMAIN fs : /\ ~ fs[i].is_dir /\ fs[i].name = Cut(s.name)
                            /\ BytesOf(fs[i], m) = s.data

FsInv ==
  /\ FsTypeOK
  /\ Len(files) <= FS_MAX_FILES /\ Len(dirs) <= FS_MAX_DIRS
  /\ Packed(files, mem_used)
  /\ \A i \in DOMAIN files : files[i].data = Null => files[i].size = 0
  /\ \A d \in DOMAIN dirs : Placed(dirs[d])
  /\ 1 \in DOMAIN dirs /\ dirs[1].name = Root
  /\ stage = "parse" => count = 0
  /\ stage = "import" => \A k \in 1..count : Found(listed[k], files, pool, dirs)

FsTypes ==
  /\ p \in Nat /\ listed \in Seq(Listed)
  /\ count \in 0..Len(listed) /\ stage \in {"parse", "import", "up"}
  /\ pool \in Pool /\ mem_used \in 0..PoolSize
  /\ files \in Seq(FileRec) /\ dirs \in Seq(DirRec)
  /\ \E i \in DOMAIN dirs : dirs[i].path = current_dir

LEMMA FsTypesSame == FsTypeOK <=> FsTypes
BY DEF FsTypeOK, FsTypes, Listed, Pool, FileRec, DirRec, Text

LEMMA FsTypesNext == FsTypeOK' <=> FsTypes'
BY DEF FsTypeOK, FsTypes, Listed, Pool, FileRec, DirRec, Text

\* Every entry of the archive has a name and bytes.
LEMMA EntryType ==
  ASSUME NEW k \in DOMAIN Archive
  PROVE  Archive[k].name \in Text /\ Archive[k].data \in Seq(Byte)
<1> DEFINE T == [kind : {"entry", "trailer", "bad"}, name : Text, data : Seq(Byte)]
<1>1. Archive \in Seq(T)
  BY ArchiveAssumption DEF Text
<1>2. Archive[k] \in T
  <2>. HIDE DEF T
  <2>. QED  BY <1>1
<1>. QED  BY <1>2

\* The file of fs_init or fs_create.
LEMMA FileType ==
  ASSUME NEW n \in Text, NEW d \in Nat, NEW size \in Nat, NEW capacity \in Nat
  PROVE  /\ File(n, d, size, capacity) \in FileRec
         /\ File(n, d, size, capacity).name = Cut(n)
         /\ File(n, d, size, capacity).data = d /\ File(n, d, size, capacity).size = size
         /\ File(n, d, size, capacity).capacity = capacity
         /\ File(n, d, size, capacity).is_dir = FALSE
<1>1. Cut(n) \in Text
  BY CutType
<1>. QED  BY <1>1 DEF File, FileRec

LEMMA FsInitInv == FsInit => FsInv
<1> SUFFICES ASSUME FsInit PROVE FsInv
  OBVIOUS
<1>1. pool \in Pool /\ mem_used \in 0..PoolSize
  BY LimitsAssumption DEF FsInit, Pool
<1>2. /\ dirs \in Seq(DirRec) /\ Len(dirs) = 1 /\ DOMAIN dirs = {1}
      /\ dirs[1].path = Root /\ dirs[1].name = Root
  <2>1. [name |-> Root, path |-> Root] \in DirRec
    BY RootType DEF DirRec
  <2>. QED  BY <2>1 DEF FsInit
<1>3. files \in Seq(FileRec) /\ Len(files) = 0 /\ DOMAIN files = {}
  BY DEF FsInit
<1>4. FsTypes
  BY <1>1, <1>2, <1>3 DEF FsInit, FsTypes
<1>5. 0 <= FS_MAX_FILES /\ 1 <= FS_MAX_DIRS
  BY LimitsAssumption
<1>. QED
  BY <1>2, <1>3, <1>4, <1>5, FsTypesSame DEF FsInit, FsInv, Packed, Placed

LEMMA ParseStep == ASSUME FsInv, ParseEntry \/ ParseStop PROVE FsInv'
<1>0. FsTypes
  BY FsTypesSame DEF FsInv
<1>1. stage = "parse" /\ UNCHANGED <<count, mem_used, pool, files, dirs, current_dir>>
  BY DEF ParseEntry, ParseStop, mem
<1>2. count = 0
  BY <1>1 DEF FsInv
<1>3. p' \in Nat /\ listed' \in Seq(Listed) /\ Len(listed') \in Nat
      /\ stage' \in {"parse", "import"}
  <2>1. CASE ParseEntry
    <3>1. /\ MoreEntries /\ stage' = stage /\ p' = NextHeader(Entry, p)
          /\ listed' = Append(listed, [name |-> Entry.name, data |-> Entry.data])
      BY <2>1 DEF ParseEntry
    <3>2. Len(listed) + 1 \in DOMAIN Archive
      <4>1. Len(listed) \in Nat /\ Len(Archive) \in Nat /\ DOMAIN Archive = 1..Len(Archive)
        BY <1>0, ArchiveAssumption DEF FsTypes
      <4>. QED  BY <3>1, <4>1 DEF MoreEntries
    <3>3. Entry.name \in Text /\ Entry.data \in Seq(Byte)
      BY <3>2, EntryType DEF Entry
    <3>4. [name |-> Entry.name, data |-> Entry.data] \in Listed
      BY <3>3 DEF Listed
    <3>5. listed' \in Seq(Listed) /\ Len(listed') \in Nat
      <4>. HIDE DEF Entry
      <4>1. \A s \in Seq(Listed), e \in Listed : Append(s, e) \in Seq(Listed) /\ Len(Append(s, e)) \in Nat
        OBVIOUS
      <4>. QED  BY <1>0, <3>1, <3>4, <4>1, Zenon DEF FsTypes
    <3>6. p' \in Nat
      <4>1. Len(Entry.name) \in Nat /\ Len(Entry.data) \in Nat
        BY <3>3 DEF Text
      <4>2. \A n \in Nat : Align4(n) \in Nat
        BY DEF Align4
      <4>3. p + HeaderSize + Len(Entry.name) + 1 \in Nat
        <5>1. \A a, b \in Nat : a + HeaderSize + b + 1 \in Nat
          BY DEF HeaderSize
        <5>. QED  BY <1>0, <4>1, <5>1, Zenon DEF FsTypes
      <4>4. Align4(p + HeaderSize + Len(Entry.name) + 1) + Len(Entry.data) \in Nat
        <5>1. \A a, b \in Nat : a + b \in Nat
          OBVIOUS
        <5>. QED  BY <4>1, <4>2, <4>3, <5>1, Zenon
      <4>. QED  BY <3>1, <4>2, <4>4 DEF NextHeader
    <3>. QED  BY <1>1, <3>1, <3>5, <3>6
  <2>2. CASE ParseStop
    <3>1. stage' = "import" /\ UNCHANGED <<p, listed>>
      BY <2>2 DEF ParseStop
    <3>. QED  BY <1>0, <3>1 DEF FsTypes
  <2>. QED  BY <2>1, <2>2
<1>4. FsTypes'
  BY <1>0, <1>1, <1>2, <1>3 DEF FsTypes
<1>5. FsTypeOK'
  BY <1>4, FsTypesNext
<1>. QED  BY <1>1, <1>2, <1>5 DEF FsInv

\* What was found stays found when files and directories are added and bytes
\* are stored behind the buffers in use.
LEMMA FoundKept ==
  ASSUME NEW fs \in Seq(FileRec), NEW gs \in Seq(FileRec), NEW m \in Pool, NEW m2 \in Pool,
         NEW u \in Nat, Packed(fs, u), NEW ds \in Seq(DirRec), NEW es \in Seq(DirRec),
         DOMAIN fs \subseteq DOMAIN gs, \A i \in DOMAIN fs : gs[i] = fs[i],
         DOMAIN ds \subseteq DOMAIN es, \A d \in DOMAIN ds : es[d] = ds[d],
         Len(es) <= FS_MAX_DIRS,
         \A a \in 0..(u - 1) : m2[a] = m[a],
         NEW s, Found(s, fs, m, ds)
  PROVE  Found(s, gs, m2, es)
<1>1. CASE IsDirName(s.name)
  <2>1. CASE Len(ds) = FS_MAX_DIRS
    <3>1. Len(ds) \in Nat /\ Len(es) \in Nat /\ 1..Len(ds) \subseteq 1..Len(es)
      <4>1. DOMAIN ds = 1..Len(ds) /\ DOMAIN es = 1..Len(es)
        OBVIOUS
      <4>. QED  BY <4>1
    <3>2. Len(ds) <= Len(es)
      <4>1. Len(ds) # 0 => Len(ds) \in 1..Len(ds)
        BY <3>1
      <4>. QED  BY <3>1, <4>1
    <3>. QED  BY <1>1, <2>1, <3>1, <3>2 DEF Found
  <2>2. CASE \E d \in DOMAIN ds : ds[d].name = DirName(s.name)
    BY <1>1, <2>2 DEF Found
  <2>. QED  BY <1>1, <2>1, <2>2 DEF Found
<1>2. CASE ~ IsDirName(s.name)
  <2>1. PICK i \in DOMAIN fs : /\ ~ fs[i].is_dir /\ fs[i].name = Cut(s.name)
                               /\ BytesOf(fs[i], m) = s.data
    BY <1>2 DEF Found
  <2>2. /\ fs[i].data \in Int /\ fs[i].size \in Nat /\ fs[i].capacity \in Nat
        /\ fs[i].data >= 0 /\ fs[i].size <= fs[i].capacity /\ fs[i].data + fs[i].capacity <= u
    BY <2>1, FileFields DEF Packed
  <2>3. \A k \in 1..fs[i].size : fs[i].data + k - 1 \in 0..(u - 1)
    BY <2>2, SMTT(30)
  <2>4. BytesOf(fs[i], m2) = BytesOf(fs[i], m)
    BY <2>3 DEF BytesOf
  <2>. QED  BY <1>2, <2>1, <2>4 DEF Found
<1>. QED  BY <1>1, <1>2

LEMMA ImportFileStep == ASSUME FsInv, ImportFile PROVE FsInv'
<1> DEFINE n == Len(Source.data)
           f == File(Source.name, mem_used, n, n)
<1>0. FsTypes /\ Len(files) <= FS_MAX_FILES /\ Len(dirs) <= FS_MAX_DIRS /\ Packed(files, mem_used)
  BY FsTypesSame DEF FsInv
<1>1. /\ stage = "import" /\ count < Len(listed) /\ Len(files) < FS_MAX_FILES
      /\ ~ IsDirName(Source.name) /\ mem_used + n <= PoolSize
      /\ files' = Append(files, f) /\ mem_used' = mem_used + n /\ count' = count + 1
      /\ pool' = [a \in DOMAIN pool |->
                    IF a - mem_used \in 0..(n - 1)
                    THEN Source.data[a - mem_used + 1] ELSE pool[a]]
      /\ UNCHANGED <<p, listed, stage, dirs, current_dir>>
  BY DEF ImportFile, Importing, Room
<1>2. Source.name \in Text /\ Source.data \in Seq(Byte) /\ n \in Nat
  <2>1. count + 1 \in DOMAIN listed
    BY <1>0, <1>1 DEF FsTypes
  <2>2. Source \in Listed
    BY <1>0, <2>1 DEF FsTypes, Source
  <2>. QED  BY <2>2 DEF Listed
<1>3. mem_used \in Nat /\ mem_used + n \in 0..PoolSize /\ PoolSize \in Nat /\ pool \in Pool
  BY <1>0, <1>1, <1>2, LimitsAssumption DEF FsTypes
<1>4. /\ f \in FileRec /\ f.name = Cut(Source.name) /\ f.data = mem_used /\ f.size = n
      /\ f.capacity = n /\ f.is_dir = FALSE
  <2>. HIDE DEF n
  <2>1. Source.name \in Text /\ mem_used \in Nat /\ n \in Nat
    BY <1>2, <1>3
  <2>2. Cut(Source.name) \in Text
    BY <2>1, CutType
  <2>. QED  BY <2>1, <2>2 DEF File, FileRec
<1>5. /\ files' \in Seq(FileRec) /\ Len(files') = Len(files) + 1 /\ Len(files) \in Nat
      /\ DOMAIN files' = 1..(Len(files) + 1) /\ DOMAIN files = 1..Len(files)
      /\ \A k \in 1..Len(files) : files'[k] = files[k]
      /\ files'[Len(files) + 1] = f
  <2>. HIDE DEF f
  <2>. QED  BY <1>0, <1>1, <1>4, Appending DEF FsTypes
<1>6. Packed(files', mem_used')
  <2>1. /\ f.is_dir <=> f.data = Null
        /\ f.data >= mem_used /\ f.size <= f.capacity /\ f.data + f.capacity <= mem_used + n
    BY <1>2, <1>3, <1>4 DEF Null
  <2>. HIDE DEF f, n
  <2>2. mem_used + n \in Nat /\ mem_used <= mem_used + n
    BY <1>2, <1>3
  <2>3. files \in Seq(FileRec)
    BY <1>0 DEF FsTypes
  <2>4. Packed(Append(files, f), mem_used + n)
    BY <1>0, <1>3, <1>4, <2>1, <2>2, <2>3, PackedAppend
  <2>. QED  BY <1>1, <2>4
<1>. HIDE DEF f
<1>7. /\ pool' \in Pool
      /\ \A a \in 0..(mem_used - 1) : pool'[a] = pool[a]
      /\ \A k \in 1..n : pool'[mem_used + k - 1] = Source.data[k]
  <2>1. DOMAIN pool = 0..PoolSize
    BY <1>3 DEF Pool
  <2>2. \A a \in 0..PoolSize : a - mem_used \in 0..(n - 1) => Source.data[a - mem_used + 1] \in Byte
    BY <1>2, <1>3
  <2>3. pool' \in Pool
    BY <1>1, <1>3, <2>1, <2>2 DEF Pool
  <2>4. \A a \in 0..(mem_used - 1) : a \in 0..PoolSize /\ ~ (a - mem_used \in 0..(n - 1))
    BY <1>2, <1>3
  <2>5. \A k \in 1..n : /\ mem_used + k - 1 \in 0..PoolSize
                        /\ mem_used + k - 1 - mem_used \in 0..(n - 1)
                        /\ mem_used + k - 1 - mem_used + 1 = k
    BY <1>2, <1>3
  <2>6. \A a \in 0..PoolSize : pool'[a] = IF a - mem_used \in 0..(n - 1)
                                           THEN Source.data[a - mem_used + 1] ELSE pool[a]
    <3>. HIDE DEF n
    <3>. QED  BY <1>1, <2>1, Zenon
  <2>7. \A a \in 0..(mem_used - 1) : pool'[a] = pool[a]
    BY <2>4, <2>6, Zenon
  <2>8. \A k \in 1..n : pool'[mem_used + k - 1] = Source.data[k]
    <3>. HIDE DEF n
    <3>1. SUFFICES ASSUME NEW k \in 1..n PROVE pool'[mem_used + k - 1] = Source.data[k]
      OBVIOUS
    <3>. DEFINE a == mem_used + k - 1
    <3>2. a \in 0..PoolSize /\ a - mem_used \in 0..(n - 1) /\ a - mem_used + 1 = k
      BY <1>2, <1>3
    <3>. HIDE DEF a
    <3>3. pool'[a] = Source.data[k]
      BY <2>6, <3>2, Zenon
    <3>. QED  BY <3>3 DEF a
  <2>. QED  BY <2>3, <2>7, <2>8
<1>8. BytesOf(f, pool') = Source.data
  <2>1. Source.data = [k \in 1..n |-> Source.data[k]]
    BY <1>2
  <2>. QED  BY <1>4, <1>7, <2>1 DEF BytesOf
<1>9. Found(Source, files', pool', dirs')
  <2>1. Len(files) + 1 \in DOMAIN files'
    BY <1>5
  <2>. QED  BY <1>1, <1>4, <1>5, <1>8, <2>1 DEF Found
<1>10. \A k \in 1..count' : Found(listed'[k], files', pool', dirs')
  <2> SUFFICES ASSUME NEW k \in 1..count' PROVE Found(listed[k], files', pool', dirs')
    BY <1>1
  <2>1. CASE k = count + 1
    BY <1>9, <2>1 DEF Source
  <2>2. CASE k # count + 1
    <3>1. k \in 1..count
      BY <1>0, <1>1, <2>2 DEF FsTypes
    <3>2. Found(listed[k], files, pool, dirs)
      BY <1>1, <3>1 DEF FsInv
    <3>3. /\ files \in Seq(FileRec) /\ dirs \in Seq(DirRec) /\ dirs' = dirs
          /\ DOMAIN files \subseteq DOMAIN files' /\ \A i \in DOMAIN files : files'[i] = files[i]
      BY <1>0, <1>1, <1>5 DEF FsTypes
    <3>4. \A d \in DOMAIN dirs : dirs[d] = dirs[d]
      OBVIOUS
    <3>. HIDE DEF n
    <3>5. Found(listed[k], files', pool', dirs)
      BY <1>0, <1>3, <1>5, <1>7, <3>2, <3>3, <3>4, FoundKept, SMTT(30)
    <3>. QED  BY <3>3, <3>5
  <2>. QED  BY <2>1, <2>2
<1>11. FsTypes'
  <2>1. count' \in 0..Len(listed') /\ mem_used' \in 0..PoolSize
    BY <1>0, <1>1, <1>3 DEF FsTypes
  <2>. QED  BY <1>0, <1>1, <1>5, <1>7, <2>1 DEF FsTypes
<1>12. \A i \in DOMAIN files' : files'[i].data = Null => files'[i].size = 0
  <2>1. f.data # Null
    BY <1>3, <1>4 DEF Null
  <2>2. \A i \in 1..(Len(files) + 1) : i \in 1..Len(files) \/ i = Len(files) + 1
    BY <1>5
  <2>. QED  BY <1>5, <2>1, <2>2 DEF FsInv
<1>13. Len(files') <= FS_MAX_FILES
  BY <1>1, <1>5, LimitsAssumption
<1>. QED
  BY <1>0, <1>1, <1>6, <1>10, <1>11, <1>12, <1>13, FsTypesNext DEF FsInv

LEMMA ImportDirStep == ASSUME FsInv, ImportDir PROVE FsInv'
<1> DEFINE n == DirName(Source.name)
           f == [name |-> Cut(n), data |-> Null, size |-> 0, capacity |-> 0, mode |-> 0,
                 is_dir |-> TRUE]
           d == [name |-> Cut(n), path |-> Root \o n]
<1>0. FsTypes /\ Len(files) <= FS_MAX_FILES /\ Len(dirs) <= FS_MAX_DIRS /\ Packed(files, mem_used)
  BY FsTypesSame DEF FsInv
<1>1. /\ stage = "import" /\ count < Len(listed) /\ IsDirName(Source.name)
      /\ fs_create_dir(n) /\ count' = count + 1
      /\ UNCHANGED <<p, listed, stage, pool, mem_used, current_dir>>
  BY DEF ImportDir, Importing, mem
<1>2. Source.name \in Text /\ count + 1 \in DOMAIN listed
  <2>1. count + 1 \in DOMAIN listed
    BY <1>0, <1>1 DEF FsTypes
  <2>2. Source \in Listed
    BY <1>0, <2>1 DEF FsTypes, Source
  <2>. QED  BY <2>1, <2>2 DEF Listed
<1>3. n \in Text /\ Cut(n) = n
  BY <1>1, <1>2, CutType, DirNameType
<1>. HIDE DEF n
<1>4. /\ files' \in Seq(FileRec) /\ Packed(files', mem_used) /\ Len(files') <= FS_MAX_FILES
      /\ DOMAIN files \subseteq DOMAIN files' /\ \A i \in DOMAIN files : files'[i] = files[i]
      /\ \A i \in DOMAIN files' : files'[i].data = Null => files'[i].size = 0
  <2>0. files \in Seq(FileRec) /\ \A i \in DOMAIN files : files[i].data = Null => files[i].size = 0
    BY <1>0 DEF FsInv, FsTypes
  <2>1. CASE files' = files
    BY <1>0, <2>0, <2>1
  <2>2. CASE Len(files) < FS_MAX_FILES /\ files' = Append(files, f)
    <3>1. /\ f \in FileRec /\ f.is_dir = TRUE /\ f.data = Null /\ f.size = 0
      BY <1>3 DEF FileRec, Null
    <3>. HIDE DEF f
    <3>2. Packed(Append(files, f), mem_used)
      <4>1. mem_used \in Nat
        BY <1>0 DEF FsTypes
      <4>. QED  BY <1>0, <2>0, <3>1, <4>1, PackedAppend
    <3>3. /\ files' \in Seq(FileRec) /\ Len(files') = Len(files) + 1 /\ Len(files) \in Nat
          /\ DOMAIN files' = 1..(Len(files) + 1) /\ DOMAIN files = 1..Len(files)
          /\ \A k \in 1..Len(files) : files'[k] = files[k]
          /\ files'[Len(files) + 1] = f
      BY <2>0, <2>2, <3>1, Appending
    <3>4. \A i \in 1..(Len(files) + 1) : i \in 1..Len(files) \/ i = Len(files) + 1
      BY <3>3
    <3>5. \A i \in DOMAIN files' : files'[i].data = Null => files'[i].size = 0
      BY <2>0, <3>1, <3>3, <3>4
    <3>6. Len(files') <= FS_MAX_FILES
      BY <2>2, <3>3, LimitsAssumption
    <3>. QED  BY <2>2, <3>2, <3>3, <3>5, <3>6
  <2>3. \/ files' = files
        \/ Len(files) < FS_MAX_FILES /\ files' = Append(files, f)
    BY <1>1 DEF fs_create_dir
  <2>. QED  BY <2>1, <2>2, <2>3
<1>5. /\ dirs' \in Seq(DirRec) /\ Len(dirs') <= FS_MAX_DIRS
      /\ DOMAIN dirs \subseteq DOMAIN dirs' /\ \A i \in DOMAIN dirs : dirs'[i] = dirs[i]
      /\ \A i \in DOMAIN dirs' : Placed(dirs'[i])
      /\ Len(dirs') = FS_MAX_DIRS \/ \E i \in DOMAIN dirs' : dirs'[i].name = n
  <2>0. dirs \in Seq(DirRec) /\ \A i \in DOMAIN dirs : Placed(dirs[i])
    BY <1>0 DEF FsInv, FsTypes
  <2>1. CASE (\E i \in DOMAIN dirs : dirs[i].name = n) \/ Len(dirs) >= FS_MAX_DIRS
    <3>1. dirs' = dirs
      BY <1>1, <2>1 DEF fs_create_dir
    <3>2. Len(dirs) >= FS_MAX_DIRS => Len(dirs) = FS_MAX_DIRS
      BY <1>0, <2>0, LimitsAssumption
    <3>. QED  BY <1>0, <2>0, <2>1, <3>1, <3>2
  <2>2. CASE ~ ((\E i \in DOMAIN dirs : dirs[i].name = n) \/ Len(dirs) >= FS_MAX_DIRS)
    <3>1. dirs' = Append(dirs, d)
      BY <1>1, <2>2 DEF fs_create_dir
    <3>2. d \in DirRec /\ d.name = n /\ d.path = Root \o n
      <4>1. Root \o n \in Text
        BY <1>3, RootType DEF Text
      <4>. QED  BY <1>3, <4>1 DEF DirRec
    <3>. HIDE DEF d
    <3>3. /\ dirs' \in Seq(DirRec) /\ Len(dirs') = Len(dirs) + 1 /\ Len(dirs) \in Nat
          /\ DOMAIN dirs' = 1..(Len(dirs) + 1) /\ DOMAIN dirs = 1..Len(dirs)
          /\ \A k \in 1..Len(dirs) : dirs'[k] = dirs[k]
          /\ dirs'[Len(dirs) + 1] = d
      BY <2>0, <3>1, <3>2, Appending
    <3>4. \A i \in 1..(Len(dirs) + 1) : i \in 1..Len(dirs) \/ i = Len(dirs) + 1
      BY <3>3
    <3>5. Placed(d)
      <4>1. n # Root
        BY <2>2 DEF FsInv
      <4>. QED  BY <3>2, <4>1 DEF Placed
    <3>6. Len(dirs') <= FS_MAX_DIRS
      BY <2>2, <3>3, LimitsAssumption
    <3>7. dirs'[Len(dirs) + 1].name = n /\ Len(dirs) + 1 \in DOMAIN dirs'
      BY <3>2, <3>3
    <3>8. \A i \in DOMAIN dirs' : Placed(dirs'[i])
      BY <2>0, <3>3, <3>4, <3>5
    <3>. QED  BY <3>3, <3>6, <3>7, <3>8
  <2>. QED  BY <2>1, <2>2
<1>. HIDE DEF f, d
<1>6. Found(Source, files', pool', dirs')
  BY <1>1, <1>5 DEF Found, n
<1>7. \A k \in 1..count' : Found(listed'[k], files', pool', dirs')
  <2> SUFFICES ASSUME NEW k \in 1..count' PROVE Found(listed[k], files', pool', dirs')
    BY <1>1
  <2>1. CASE k = count + 1
    BY <1>6, <2>1 DEF Source
  <2>2. CASE k # count + 1
    <3>1. k \in 1..count
      BY <1>0, <1>1, <2>2 DEF FsTypes
    <3>2. Found(listed[k], files, pool, dirs)
      BY <1>1, <3>1 DEF FsInv
    <3>3. /\ files \in Seq(FileRec) /\ dirs \in Seq(DirRec) /\ pool' = pool /\ pool \in Pool
          /\ mem_used \in Nat
      BY <1>0, <1>1 DEF FsTypes
    <3>. QED  BY <1>0, <1>4, <1>5, <3>2, <3>3, FoundKept
  <2>. QED  BY <2>1, <2>2
<1>8. FsTypes'
  <2>1. count' \in 0..Len(listed')
    BY <1>0, <1>1 DEF FsTypes
  <2>2. \E i \in DOMAIN dirs' : dirs'[i].path = current_dir'
    BY <1>0, <1>1, <1>5 DEF FsTypes
  <2>. QED  BY <1>0, <1>1, <1>4, <1>5, <2>1, <2>2 DEF FsTypes
<1>. QED
  BY <1>1, <1>4, <1>5, <1>7, <1>8, FsTypesNext DEF FsInv
LEMMA ImportStopStep == ASSUME FsInv, ImportStop PROVE FsInv'
<1>0. FsTypes
  BY FsTypesSame DEF FsInv
<1>1. stage' = "up" /\ UNCHANGED <<p, listed, count, pool, mem_used, files, dirs, current_dir>>
  BY DEF ImportStop, mem
<1>2. FsTypes'
  BY <1>0, <1>1 DEF FsTypes
<1>. QED  BY <1>1, <1>2, FsTypesNext DEF FsInv

LEMMA CreateStep == ASSUME FsInv, NEW n \in Names, fs_create_file(n) PROVE FsInv'
<1> DEFINE f == File(n, mem_used, 0, NewCapacity)
<1>0. FsTypes /\ Len(files) <= FS_MAX_FILES /\ Len(dirs) <= FS_MAX_DIRS /\ Packed(files, mem_used)
  BY FsTypesSame DEF FsInv
<1>1. /\ stage = "up" /\ Len(files) < FS_MAX_FILES /\ mem_used + NewCapacity <= PoolSize
      /\ files' = Append(files, f) /\ pool' = [pool EXCEPT ![mem_used] = 0]
      /\ mem_used' = mem_used + NewCapacity
      /\ UNCHANGED <<p, listed, count, stage, dirs, current_dir>>
  BY DEF fs_create_file, Room, boot
<1>2. /\ NewCapacity \in Nat \ {0} /\ PoolSize \in Nat /\ 0 \in Byte /\ n \in Text
      /\ FS_MAX_FILES \in Nat
  BY LimitsAssumption DEF Text
<1>3. /\ mem_used \in Nat /\ mem_used' \in 0..PoolSize /\ mem_used \in 0..PoolSize
      /\ mem_used + NewCapacity \in Nat /\ mem_used <= mem_used + NewCapacity
  BY <1>0, <1>1, <1>2 DEF FsTypes
<1>4. /\ f \in FileRec /\ f.data = mem_used /\ f.size = 0 /\ f.capacity = NewCapacity
      /\ f.is_dir = FALSE
  <2>1. Cut(n) \in Text
    BY <1>2, CutType
  <2>. QED  BY <1>2, <1>3, <2>1 DEF File, FileRec
<1>5. /\ files' \in Seq(FileRec) /\ Len(files') = Len(files) + 1 /\ Len(files) \in Nat
      /\ DOMAIN files' = 1..(Len(files) + 1) /\ DOMAIN files = 1..Len(files)
      /\ \A k \in 1..Len(files) : files'[k] = files[k]
      /\ files'[Len(files) + 1] = f
  <2>. HIDE DEF f
  <2>. QED  BY <1>0, <1>1, <1>4, Appending DEF FsTypes
<1>. HIDE DEF f
<1>6. Packed(files', mem_used')
  <2>1. /\ f.is_dir <=> f.data = Null
        /\ f.data >= mem_used /\ f.size <= f.capacity
        /\ f.data + f.capacity <= mem_used + NewCapacity
    BY <1>2, <1>3, <1>4 DEF Null
  <2>2. files \in Seq(FileRec)
    BY <1>0 DEF FsTypes
  <2>3. Packed(Append(files, f), mem_used + NewCapacity)
    BY <1>0, <1>3, <1>4, <2>1, <2>2, PackedAppend
  <2>. QED  BY <1>1, <2>3
<1>7. pool' \in Pool
  BY <1>0, <1>1, <1>2 DEF FsTypes, Pool
<1>8. FsTypes'
  BY <1>0, <1>1, <1>3, <1>5, <1>7 DEF FsTypes
<1>9. \A i \in DOMAIN files' : files'[i].data = Null => files'[i].size = 0
  <2>1. \A i \in 1..(Len(files) + 1) : i \in 1..Len(files) \/ i = Len(files) + 1
    BY <1>5
  <2>. QED  BY <1>4, <1>5, <2>1 DEF FsInv
<1>10. Len(files') <= FS_MAX_FILES
  BY <1>1, <1>2, <1>5
<1>. QED
  BY <1>0, <1>1, <1>6, <1>8, <1>9, <1>10, FsTypesNext DEF FsInv

\* Whatever is written where, the pool stays one of bytes.
LEMMA WrittenType ==
  ASSUME FsTypes, Packed(files, mem_used), NEW i \in DOMAIN files, files[i].data # Null,
         NEW grow \in BOOLEAN, NEW off \in Nat, NEW buf \in Seq(Byte)
  PROVE  Written(files[i], grow, off, buf) \in Pool
<1> DEFINE f == files[i]
           end == off + Len(buf)
           base == IF grow THEN mem_used ELSE f.data
<1>1. f \in FileRec
  BY DEF FsTypes
<1>2. /\ f.data \in Nat /\ f.size \in Nat /\ f.capacity \in Nat
      /\ f.size <= f.capacity /\ f.data + f.capacity <= mem_used
  BY <1>1, FileFields DEF Packed
<1>3. /\ mem_used \in Nat /\ mem_used <= PoolSize /\ PoolSize \in Nat
      /\ 0 \in Byte /\ pool \in Pool /\ Len(buf) \in Nat
  BY LimitsAssumption DEF FsTypes
<1>4. ASSUME NEW a \in 0..PoolSize
      PROVE  (IF a - base = end /\ end > f.size THEN 0
              ELSE IF a - base >= off /\ a - base < end THEN buf[a - base - off + 1]
              ELSE IF a - base >= f.size /\ a - base < off THEN 0
              ELSE IF grow /\ a - base >= 0 /\ a - base < f.size THEN pool[f.data + (a - base)]
              ELSE IF grow /\ a - base >= 0 /\ a - base < 2 * end THEN 0 ELSE pool[a]) \in Byte
  <2>1. base \in Nat
    BY <1>2, <1>3
  <2>. HIDE DEF base, f
  <2> DEFINE k == a - base
  <2>2. k \in Int
    BY <2>1
  <2>3. k >= off /\ k < end => k - off + 1 \in 1..Len(buf)
    BY <1>3, <2>2
  <2>4. k >= off /\ k < end => buf[k - off + 1] \in Byte
    BY <2>3
  <2>5. k >= 0 /\ k < f.size => f.data + k \in 0..PoolSize
    BY <1>2, <1>3, <2>2
  <2>6. k >= 0 /\ k < f.size => pool[f.data + k] \in Byte
    BY <1>3, <2>5 DEF Pool
  <2>7. pool[a] \in Byte
    BY <1>3 DEF Pool
  <2>. HIDE DEF k, end
  <2>8. (IF k = end /\ end > f.size THEN 0
         ELSE IF k >= off /\ k < end THEN buf[k - off + 1]
         ELSE IF k >= f.size /\ k < off THEN 0
         ELSE IF grow /\ k >= 0 /\ k < f.size THEN pool[f.data + k]
         ELSE IF grow /\ k >= 0 /\ k < 2 * end THEN 0 ELSE pool[a]) \in Byte
    BY <1>3, <2>4, <2>6, <2>7
  <2>. QED  BY <2>8 DEF k
<1>5. DOMAIN pool = 0..PoolSize
  BY <1>3 DEF Pool
<1>. QED  BY <1>4, <1>5 DEF Written, Pool

\* A write leaves the registry as it was but for one entry and the pool.
LEMMA WriteStep ==
  ASSUME FsInv, NEW i \in DOMAIN files, NEW w \in Writes,
         WriteInPlace(i, w[1], w[2]) \/ WriteGrow(i, w[1], w[2])
  PROVE  FsInv'
<1> DEFINE off == w[1]
           buf == w[2]
           end == off + Len(buf)
           f == files[i]
<1>0. FsTypes /\ Len(files) <= FS_MAX_FILES /\ Len(dirs) <= FS_MAX_DIRS /\ Packed(files, mem_used)
  BY FsTypesSame DEF FsInv
<1>1. off \in Nat /\ buf \in Seq(Byte) /\ Len(buf) \in Nat /\ end \in Nat
  <2>1. off \in Nat /\ buf \in Seq(Byte)
    BY LimitsAssumption
  <2>. HIDE DEF off, buf
  <2>. QED  BY <2>1
<1>2. /\ f \in FileRec /\ files \in Seq(FileRec)
      /\ f.name \in Text /\ f.data \in Int /\ f.size \in Nat /\ f.capacity \in Nat
      /\ f.mode \in Nat /\ f.is_dir \in BOOLEAN
  <2>1. f \in FileRec /\ files \in Seq(FileRec)
    BY <1>0 DEF FsTypes
  <2>. QED  BY <2>1, FileFields
<1>3. /\ stage = "up" /\ f.data # Null
      /\ UNCHANGED <<p, listed, count, stage, dirs, current_dir>>
  BY DEF WriteInPlace, WriteGrow, boot
<1>4. ~ f.is_dir /\ f.data >= 0 /\ f.size <= f.capacity
  BY <1>0, <1>3 DEF Packed
<1>5. PICK g \in FileRec, m2 \in 0..PoolSize :
        /\ mem_used' = m2 /\ mem_used <= m2
        /\ g.is_dir = f.is_dir /\ g.size <= g.capacity /\ g.data # Null
        /\ \/ g.data = f.data /\ g.capacity = f.capacity
           \/ g.data >= mem_used /\ g.data + g.capacity <= m2
        /\ files' = [files EXCEPT ![i] = g]
        /\ pool' \in Pool
  <2>0. mem_used \in 0..PoolSize /\ PoolSize \in Nat
    BY <1>0, LimitsAssumption DEF FsTypes
  <2>1. CASE WriteInPlace(i, w[1], w[2])
    <3> DEFINE g == [f EXCEPT !.size = IF end > f.size THEN end ELSE f.size]
    <3>1. end <= f.capacity /\ pool' = Written(f, FALSE, off, buf) /\ mem_used' = mem_used
          /\ files' = [files EXCEPT ![i] = g]
      BY <2>1 DEF WriteInPlace
    <3>2. /\ g \in FileRec /\ g.is_dir = f.is_dir /\ g.data = f.data /\ g.capacity = f.capacity
          /\ g.size = IF end > f.size THEN end ELSE f.size
      <4>. HIDE DEF f, end
      <4>1. (IF end > f.size THEN end ELSE f.size) \in Nat
        BY <1>1, <1>2
      <4>. QED  BY <1>2, <4>1 DEF FileRec
    <3>. HIDE DEF g
    <3>3. g.size <= g.capacity
      BY <1>1, <1>2, <1>4, <3>1, <3>2
    <3>4. pool' \in Pool
      BY <1>0, <1>1, <1>3, <3>1, WrittenType
    <3>5. mem_used <= mem_used
      BY <2>0
    <3>. QED  BY <1>3, <2>0, <3>1, <3>2, <3>3, <3>4, <3>5
  <2>2. CASE WriteGrow(i, w[1], w[2])
    <3> DEFINE g == [f EXCEPT !.size = end, !.data = mem_used, !.capacity = 2 * end]
    <3>1. mem_used + 2 * end <= PoolSize /\ pool' = Written(f, TRUE, off, buf)
          /\ mem_used' = mem_used + 2 * end
          /\ files' = [files EXCEPT ![i] = g]
      BY <2>2 DEF WriteGrow, Room
    <3>2. /\ g \in FileRec /\ g.is_dir = f.is_dir /\ g.data = mem_used /\ g.capacity = 2 * end
          /\ g.size = end
      <4>. HIDE DEF f, end
      <4>1. end \in Nat /\ mem_used \in Int /\ 2 * end \in Nat
        BY <1>1, <2>0
      <4>. QED  BY <1>2, <4>1 DEF FileRec
    <3>. HIDE DEF g
    <3>3. /\ g.size <= g.capacity /\ g.data >= mem_used /\ g.data # Null
          /\ g.data + g.capacity <= mem_used + 2 * end
          /\ mem_used + 2 * end \in 0..PoolSize /\ mem_used <= mem_used + 2 * end
      <4>. HIDE DEF end
      <4>. QED  BY <1>1, <2>0, <3>1, <3>2 DEF Null
    <3>4. pool' \in Pool
      BY <1>0, <1>1, <1>3, <3>1, WrittenType
    <3>. HIDE DEF end
    <3>. QED  BY <3>1, <3>2, <3>3, <3>4
  <2>. QED  BY <2>1, <2>2
<1>6. files' \in Seq(FileRec) /\ Packed(files', mem_used')
  <2>1. mem_used \in Nat /\ m2 \in Nat
    BY <1>0 DEF FsTypes
  <2>2. ~ g.is_dir /\ (g.is_dir <=> files[i].is_dir)
    BY <1>4, <1>5
  <2>3. /\ [files EXCEPT ![i] = g] \in Seq(FileRec)
        /\ Packed([files EXCEPT ![i] = g], m2)
    <3>1. \/ g.data = files[i].data /\ g.capacity = files[i].capacity
          \/ ~ g.is_dir /\ g.data >= mem_used /\ g.data + g.capacity <= m2
      BY <1>5, <2>2
    <3>2. g \in FileRec /\ mem_used <= m2 /\ g.size <= g.capacity
      BY <1>5
    <3>. HIDE DEF f
    <3>. QED  BY <1>0, <1>2, <2>1, <2>2, <3>1, <3>2, PackedReplace
  <2>. QED  BY <1>5, <2>3
<1>7. /\ Len(files') = Len(files) /\ DOMAIN files' = DOMAIN files /\ files'[i] = g
      /\ \A j \in DOMAIN files \ {i} : files'[j] = files[j]
  BY <1>2, <1>5
<1>8. \A j \in DOMAIN files' : files'[j].data = Null => files'[j].size = 0
  BY <1>5, <1>7 DEF FsInv
<1>9. FsTypes'
  BY <1>0, <1>3, <1>5, <1>6 DEF FsTypes
<1>. QED
  BY <1>0, <1>3, <1>6, <1>7, <1>8, <1>9, FsTypesNext DEF FsInv
\* fs_open finds an entry of the list, the first one that the name matches.
LEMMA OpenFinds ==
  ASSUME FsTypes, NEW n, fs_open(n) # 0
  PROVE  fs_open(n) \in DOMAIN files /\ Matches(files[fs_open(n)], n)
<1> DEFINE found == {i \in DOMAIN files : Matches(files[i], n)}
<1>1. DOMAIN files \subseteq Nat
  BY DEF FsTypes
<1>2. found # {} /\ fs_open(n) = CHOOSE i \in found : \A j \in found : i <= j
  BY DEF fs_open
<1>3. \E i \in found : \A j \in found : i <= j
  BY <1>1, <1>2, LeastNat
<1>4. fs_open(n) \in found
  BY <1>2, <1>3
<1>. QED  BY <1>4

LEMMA ChmodStep ==
  ASSUME FsInv, NEW n \in Names, NEW m \in Modes, fs_chmod(n, m)
  PROVE  FsInv'
<1>0. FsTypes /\ Len(files) <= FS_MAX_FILES /\ Len(dirs) <= FS_MAX_DIRS /\ Packed(files, mem_used)
  BY FsTypesSame DEF FsInv
<1>1. PICK i \in DOMAIN files :
        /\ stage = "up" /\ files' = [files EXCEPT ![i].mode = m]
        /\ UNCHANGED <<p, listed, count, stage, pool, mem_used, dirs, current_dir>>
  <2>1. fs_open(n) \in DOMAIN files
    BY <1>0, OpenFinds DEF fs_chmod
  <2>. QED  BY <2>1 DEF fs_chmod, boot, mem
<1> DEFINE f == files[i]
           g == [f EXCEPT !.mode = m]
<1>2. f \in FileRec /\ files \in Seq(FileRec) /\ mem_used \in Nat /\ mem_used <= mem_used
  BY <1>0 DEF FsTypes
<1>3. /\ g \in FileRec /\ g.data = f.data /\ g.capacity = f.capacity /\ g.size = f.size
      /\ g.is_dir = f.is_dir
  <2>1. m \in Nat
    BY LimitsAssumption
  <2>. HIDE DEF f
  <2>. QED  BY <1>2, <2>1 DEF FileRec
<1>4. files' = [files EXCEPT ![i] = g]
  BY <1>1
<1>. HIDE DEF g
<1>5. ~ g.is_dir => g.size <= g.capacity
  BY <1>0, <1>3 DEF Packed
<1>6. /\ [files EXCEPT ![i] = g] \in Seq(FileRec)
      /\ Packed([files EXCEPT ![i] = g], mem_used)
  <2>1. (g.is_dir <=> files[i].is_dir) /\ g.data = files[i].data /\ g.capacity = files[i].capacity
    BY <1>3
  <2>. QED  BY <1>0, <1>2, <1>3, <1>5, <2>1, PackedReplace
<1>7. /\ Len(files') = Len(files) /\ DOMAIN files' = DOMAIN files /\ files'[i] = g
      /\ \A j \in DOMAIN files \ {i} : files'[j] = files[j]
  BY <1>2, <1>4
<1>8. \A j \in DOMAIN files' : files'[j].data = Null => files'[j].size = 0
  BY <1>3, <1>7 DEF FsInv
<1>9. FsTypes'
  BY <1>0, <1>1, <1>4, <1>6 DEF FsTypes
<1>. QED
  BY <1>0, <1>1, <1>4, <1>6, <1>7, <1>8, <1>9, FsTypesNext DEF FsInv

LEMMA ChangeDirStep == ASSUME FsInv, NEW n \in Names, fs_change_dir(n) PROVE FsInv'
<1>0. FsTypes
  BY FsTypesSame DEF FsInv
<1>1. stage = "up" /\ UNCHANGED <<p, listed, count, stage, pool, mem_used, files, dirs>>
  BY DEF fs_change_dir, boot, mem
<1>2. \E i \in DOMAIN dirs : dirs[i].path = current_dir'
  <2>1. CASE n = Root /\ current_dir' = Root
    <3>1. 1 \in DOMAIN dirs /\ dirs[1].name = Root /\ Placed(dirs[1])
      BY DEF FsInv
    <3>. QED  BY <2>1, <3>1 DEF Placed
  <2>2. CASE ~ (n = Root /\ current_dir' = Root)
    BY <2>2 DEF fs_change_dir
  <2>. QED  BY <2>1, <2>2
<1>3. FsTypes'
  BY <1>0, <1>1, <1>2 DEF FsTypes
<1>. QED  BY <1>1, <1>3, FsTypesNext DEF FsInv

LEMMA FsStep == FsInv /\ [FsNext]_fsvars => FsInv'
<1> SUFFICES ASSUME FsInv, [FsNext]_fsvars PROVE FsInv'
  OBVIOUS
<1>1. CASE Boot
  BY <1>1, ParseStep, ImportFileStep, ImportDirStep, ImportStopStep DEF Boot
<1>2. ASSUME NEW n \in Names,
             fs_create_file(n) \/ fs_change_dir(n) \/ \E m \in Modes : fs_chmod(n, m)
      PROVE  FsInv'
  BY <1>2, CreateStep, ChangeDirStep, ChmodStep
<1>3. ASSUME NEW i \in DOMAIN files, NEW w \in Writes,
             WriteInPlace(i, w[1], w[2]) \/ WriteGrow(i, w[1], w[2])
      PROVE  FsInv'
  BY <1>3, WriteStep
<1>4. CASE UNCHANGED fsvars
  <2>1. UNCHANGED <<p, listed, count, stage, pool, mem_used, files, dirs, current_dir>>
    BY <1>4 DEF fsvars, boot, mem
  <2>2. FsTypes'
    BY <2>1, FsTypesSame DEF FsInv, FsTypes
  <2>. QED  BY <2>1, <2>2, FsTypesNext DEF FsInv
<1>. QED  BY <1>1, <1>2, <1>3, <1>4 DEF FsNext

LEMMA FsInvHolds == FsInv => BuffersDisjoint /\ Imported
<1> SUFFICES ASSUME FsInv PROVE BuffersDisjoint /\ Imported
  OBVIOUS
<1>1. BuffersDisjoint
  BY DEF FsInv, BuffersDisjoint, Packed
<1>2. ASSUME stage = "import", NEW k \in 1..count
      PROVE  IF IsDirName(listed[k].name)
             THEN Len(dirs) = FS_MAX_DIRS \/ \E d \in DOMAIN dirs :
                    /\ dirs[d].name = DirName(listed[k].name)
                    /\ dirs[d].path = IF dirs[d].name = Root THEN Root ELSE Root \o dirs[d].name
             ELSE \E i \in DOMAIN files :
                    files[i].name = Cut(listed[k].name) /\ Contents(i) = listed[k].data
  <2>1. Found(listed[k], files, pool, dirs) /\ \A d \in DOMAIN dirs : Placed(dirs[d])
    BY <1>2 DEF FsInv
  <2>. QED  BY <2>1 DEF Found, Placed, Contents
<1>3. Imported
  BY <1>2 DEF Imported
<1>. QED  BY <1>1, <1>3

\* fs_alloc gives each buffer out once, also to a file that fs_write moves:
\* for every archive, however the tables and the pool are sized, and every
\* sequence of creates and writes, no two files share a byte.
THEOREM BuffersAreDisjoint == FsSpec => []BuffersDisjoint
<1>1. FsInit => FsInv
  BY FsInitInv
<1>2. FsInv /\ [FsNext]_fsvars => FsInv'
  BY FsStep
<1>3. FsInv => BuffersDisjoint
  BY FsInvHolds
<1>. QED  BY <1>1, <1>2, <1>3, PTL DEF FsSpec

\* fs_init loses none of the entries that it goes past: while it imports, each
\* one is a file with the archive's bytes or a directory at its path.
THEOREM EntriesAreImported == FsSpec => []Imported
<1>1. FsInit => FsInv
  BY FsInitInv
<1>2. FsInv /\ [FsNext]_fsvars => FsInv'
  BY FsStep
<1>3. FsInv => Imported
  BY FsInvHolds
<1>. QED  BY <1>1, <1>2, <1>3, PTL DEF FsSpec
-----------------------------------------------------------------------------
\* The contents of files, as a list of separate ones.
LEMMA BytesType ==
  ASSUME NEW fs \in Seq(FileRec), NEW m \in Pool, NEW u \in Nat, u <= PoolSize, Packed(fs, u),
         NEW i \in DOMAIN fs, fs[i].data = Null => fs[i].size = 0
  PROVE  /\ BytesOf(fs[i], m) \in Seq(Byte) /\ Len(BytesOf(fs[i], m)) = fs[i].size
         /\ fs[i].size \in Nat
         /\ \A k \in 1..fs[i].size : BytesOf(fs[i], m)[k] = m[fs[i].data + k - 1]
<1>1. /\ fs[i].data \in Int /\ fs[i].size \in Nat /\ fs[i].capacity \in Nat
      /\ fs[i].is_dir \in BOOLEAN
  BY FileFields
<1>2. ASSUME NEW k \in 1..fs[i].size PROVE m[fs[i].data + k - 1] \in Byte
  <2>1. fs[i].data # Null
    BY <1>1, <1>2
  <2>2. fs[i].data >= 0 /\ fs[i].size <= fs[i].capacity /\ fs[i].data + fs[i].capacity <= u
    BY <2>1 DEF Packed
  <2>3. PoolSize \in Nat
    BY LimitsAssumption
  <2>4. fs[i].data + k - 1 \in 0..PoolSize
    BY <1>1, <2>2, <2>3
  <2>. QED  BY <2>4 DEF Pool
<1>3. BytesOf(fs[i], m) = [k \in 1..fs[i].size |-> m[fs[i].data + k - 1]]
  BY DEF BytesOf
<1>4. BytesOf(fs[i], m) \in [1..fs[i].size -> Byte]
  BY <1>2, <1>3
<1>. QED  BY <1>1, <1>3, <1>4, FunctionIsSequence

\* The same bytes at the same place are the same contents.
LEMMA SameBytes ==
  ASSUME NEW f \in FileRec, NEW g \in FileRec, g.data = f.data, g.size = f.size,
         NEW m, NEW m2, \A a \in f.data..(f.data + f.size - 1) : m2[a] = m[a]
  PROVE  BytesOf(g, m2) = BytesOf(f, m)
<1>1. f.data \in Int /\ f.size \in Nat
  BY FileFields
<1>2. \A k \in 1..f.size : f.data + k - 1 \in f.data..(f.data + f.size - 1)
  BY <1>1
<1>. QED  BY <1>2 DEF BytesOf

LEMMA FilesTyped ==
  ASSUME FsInv
  PROVE  /\ Files \in Seq(Seq(Byte)) /\ Len(Files) = Len(files) /\ Len(files) \in Nat
         /\ DOMAIN Files = DOMAIN files /\ DOMAIN files = 1..Len(files)
<1>1. /\ files \in Seq(FileRec) /\ pool \in Pool /\ mem_used \in Nat /\ mem_used <= PoolSize
      /\ Packed(files, mem_used)
  BY FsTypesSame, LimitsAssumption DEF FsInv, FsTypes
<1>2. ASSUME NEW i \in DOMAIN files
      PROVE  (IF files[i].is_dir THEN <<>> ELSE BytesOf(files[i], pool)) \in Seq(Byte)
  <2>1. files[i].data = Null => files[i].size = 0
    BY DEF FsInv
  <2>2. BytesOf(files[i], pool) \in Seq(Byte)
    BY <1>1, <2>1, BytesType
  <2>. QED  BY <2>2
<1>3. DOMAIN files = 1..Len(files) /\ Len(files) \in Nat
  BY <1>1
<1>4. Files \in [1..Len(files) -> Seq(Byte)]
  BY <1>2, <1>3 DEF Files
<1>. QED  BY <1>3, <1>4, FunctionIsSequence

LEMMA FilesTypedNext ==
  ASSUME FsInv'
  PROVE  /\ Files' \in Seq(Seq(Byte)) /\ Len(Files') = Len(files') /\ Len(files') \in Nat
         /\ DOMAIN Files' = DOMAIN files' /\ DOMAIN files' = 1..Len(files')
<1>1. /\ files' \in Seq(FileRec) /\ pool' \in Pool /\ mem_used' \in Nat /\ mem_used' <= PoolSize
      /\ Packed(files', mem_used')
  BY FsTypesNext, LimitsAssumption DEF FsInv, FsTypes
<1>2. ASSUME NEW i \in DOMAIN files'
      PROVE  (IF files'[i].is_dir THEN <<>> ELSE BytesOf(files'[i], pool')) \in Seq(Byte)
  <2>1. files'[i].data = Null => files'[i].size = 0
    BY DEF FsInv
  <2>2. BytesOf(files'[i], pool') \in Seq(Byte)
    BY <1>1, <2>1, BytesType
  <2>. QED  BY <2>2
<1>3. DOMAIN files' = 1..Len(files') /\ Len(files') \in Nat
  BY <1>1
<1>4. Files' \in [1..Len(files') -> Seq(Byte)]
  BY <1>2, <1>3 DEF Files
<1>. QED  BY <1>3, <1>4, FunctionIsSequence

\* A new file behind the others, with bytes stored behind theirs.
LEMMA StoreAdds ==
  ASSUME FsInv, FsInv', NEW f \in FileRec, files' = Append(files, f),
         \A a \in 0..(mem_used - 1) : pool'[a] = pool[a]
  PROVE  Store!Next
<1>1. /\ files \in Seq(FileRec) /\ mem_used \in Nat /\ Packed(files, mem_used)
  BY FsTypesSame DEF FsInv, FsTypes
<1>2. /\ DOMAIN files' = 1..(Len(files) + 1) /\ DOMAIN files = 1..Len(files)
      /\ Len(files) \in Nat /\ \A k \in 1..Len(files) : files'[k] = files[k]
      /\ Len(files') = Len(files) + 1
  BY <1>1, Appending
<1>3. /\ Files \in Seq(Seq(Byte)) /\ Len(Files) = Len(files) /\ DOMAIN Files = 1..Len(files)
      /\ Files' \in Seq(Seq(Byte)) /\ Len(Files') = Len(files) + 1
      /\ DOMAIN Files' = 1..(Len(files) + 1)
  BY <1>2, FilesTyped, FilesTypedNext
<1>4. ASSUME NEW k \in 1..Len(files) PROVE Files'[k] = Files[k]
  <2>1. files'[k] = files[k] /\ files[k] \in FileRec /\ k \in DOMAIN files /\ k \in DOMAIN files'
    BY <1>1, <1>2
  <2>2. CASE files[k].is_dir
    BY <2>1, <2>2 DEF Files
  <2>3. CASE ~ files[k].is_dir
    <3>1. /\ files[k].data \in Int /\ files[k].size \in Nat /\ files[k].capacity \in Nat
          /\ files[k].data >= 0 /\ files[k].size <= files[k].capacity
          /\ files[k].data + files[k].capacity <= mem_used
      BY <1>1, <2>1, <2>3, FileFields DEF Packed
    <3>2. \A a \in files[k].data..(files[k].data + files[k].size - 1) : a \in 0..(mem_used - 1)
      BY <1>1, <3>1, SMTT(30)
    <3>3. BytesOf(files[k], pool') = BytesOf(files[k], pool)
      <4> DEFINE f1 == files[k]
      <4>1. /\ f1 \in FileRec /\ f1.data = f1.data /\ f1.size = f1.size
            /\ \A a \in f1.data..(f1.data + f1.size - 1) : pool'[a] = pool[a]
        BY <2>1, <3>2
      <4>. HIDE DEF f1
      <4>2. BytesOf(f1, pool') = BytesOf(f1, pool)
        BY <4>1, SameBytes
      <4>. QED  BY <4>2 DEF f1
    <3>. QED  BY <2>1, <2>3, <3>3 DEF Files
  <2>. QED  BY <2>2, <2>3
<1>. DEFINE c == Files'[Len(files) + 1]
            n == Len(files)
<1>5. c \in Seq(Byte)
  BY <1>2, <1>3
<1>6. Files' = Append(Files, c)
  <2>. HIDE DEF c
  <2>1. /\ Append(Files, c) \in Seq(Seq(Byte)) /\ Len(Append(Files, c)) = Len(Files) + 1
        /\ \A k \in 1..Len(Files) : Append(Files, c)[k] = Files[k]
        /\ Append(Files, c)[Len(Files) + 1] = c
    BY <1>3, <1>5, Appending
  <2>2. \A k \in 1..(n + 1) : k \in 1..n \/ k = n + 1
    BY <1>2
  <2>3. \A k \in 1..(n + 1) : Files'[k] = Append(Files, c)[k]
    BY <1>3, <1>4, <2>1, <2>2 DEF c
  <2>. QED  BY <1>3, <2>1, <2>3, SameSequence
<1>7. /\ Len(Files') = Len(Files) + 1 /\ Files'[Len(Files')] = c
  BY <1>3
<1>. QED  BY <1>5, <1>6, <1>7 DEF Store!Next, Store!Add

\* A write that is not in place stores behind all buffers, one in place stores
\* in its own, unless its terminator falls behind it.
Fills(i, w) ==
  LET end == w[1] + Len(w[2]) IN end > files[i].size /\ end = files[i].capacity

\* What Written leaves of the pool: the new bytes of the file, from base, and
\* all bytes outside its buffer.
LEMMA WrittenBytes ==
  ASSUME FsTypes, Packed(files, mem_used), NEW i \in DOMAIN files, files[i].data # Null,
         NEW grow \in BOOLEAN, NEW off \in Nat, NEW buf \in Seq(Byte), NEW base \in Nat,
         NEW end \in Nat, end = off + Len(buf), NEW room \in Nat,
         grow => base = mem_used /\ room = 2 * end,
         ~ grow => base = files[i].data /\ room = files[i].capacity,
         base + room <= PoolSize, end > files[i].size => end < room, end <= room,
         grow => end > files[i].size
  PROVE  /\ \A k \in 0..(PoolSize - base) :
              k < end \/ k < files[i].size =>
              Written(files[i], grow, off, buf)[base + k] =
                IF k >= off /\ k < end THEN buf[k - off + 1]
                ELSE IF k < files[i].size THEN pool[files[i].data + k] ELSE 0
         /\ \A a \in 0..PoolSize : a < base \/ a >= base + room =>
              Written(files[i], grow, off, buf)[a] = pool[a]
<1> DEFINE f == files[i]
           P == Written(f, grow, off, buf)
<1>1. /\ f.data \in Int /\ f.size \in Nat /\ f.capacity \in Nat /\ f.data >= 0
      /\ f.size <= f.capacity /\ f.data + f.capacity <= mem_used
  <2>1. f \in FileRec
    BY DEF FsTypes
  <2>. QED  BY <2>1, FileFields DEF Packed
<1>2. DOMAIN pool = 0..PoolSize /\ PoolSize \in Nat /\ Len(buf) \in Nat
  BY LimitsAssumption DEF FsTypes, Pool
<1>. HIDE DEF f
<1>3. \A a \in 0..PoolSize :
        P[a] = IF a - base = end /\ end > f.size THEN 0
               ELSE IF a - base >= off /\ a - base < end THEN buf[a - base - off + 1]
               ELSE IF a - base >= f.size /\ a - base < off THEN 0
               ELSE IF grow /\ a - base >= 0 /\ a - base < f.size THEN pool[f.data + (a - base)]
               ELSE IF grow /\ a - base >= 0 /\ a - base < 2 * end THEN 0 ELSE pool[a]
  BY <1>2 DEF Written, f
<1>. HIDE DEF P
<1>4. ASSUME NEW k \in 0..(PoolSize - base), k < end \/ k < f.size
      PROVE  P[base + k] = IF k >= off /\ k < end THEN buf[k - off + 1]
                           ELSE IF k < f.size THEN pool[f.data + k] ELSE 0
  <2> DEFINE a == base + k
  <2>1. a \in 0..PoolSize /\ a - base = k
    <3>1. \A x, z \in Nat : \A y \in 0..(z - x) : x + y \in 0..z /\ (x + y) - x = y
      OBVIOUS
    <3>2. base \in Nat /\ PoolSize \in Nat /\ k \in 0..(PoolSize - base)
      BY <1>2
    <3>. QED  BY ONLY <3>1, <3>2, Zenon
  <2>. HIDE DEF a
  <2>2. P[a] = IF k = end /\ end > f.size THEN 0
               ELSE IF k >= off /\ k < end THEN buf[k - off + 1]
               ELSE IF k >= f.size /\ k < off THEN 0
               ELSE IF grow /\ k >= 0 /\ k < f.size THEN pool[f.data + k]
               ELSE IF grow /\ k >= 0 /\ k < 2 * end THEN 0 ELSE pool[a]
    <3>1. P[a] = IF a - base = end /\ end > f.size THEN 0
               ELSE IF a - base >= off /\ a - base < end THEN buf[a - base - off + 1]
               ELSE IF a - base >= f.size /\ a - base < off THEN 0
               ELSE IF grow /\ a - base >= 0 /\ a - base < f.size THEN pool[f.data + (a - base)]
               ELSE IF grow /\ a - base >= 0 /\ a - base < 2 * end THEN 0 ELSE pool[a]
      BY <1>3, <2>1, Zenon
    <3>2. a - base = k
      BY <2>1
    <3>. QED  BY ONLY <3>1, <3>2
  <2>3. ~ (k = end /\ end > f.size)
    BY <1>1, <1>4
  <2>4. CASE k >= off /\ k < end
    BY <2>2, <2>3, <2>4 DEF a
  <2>5. CASE ~ (k >= off /\ k < end) /\ k < f.size
    <3>1. ~ (k >= f.size /\ k < off) /\ k >= 0
      BY <1>1, <2>5
    <3>2. ~ grow => a = f.data + k
      BY DEF a, f
    <3>. QED  BY <2>2, <2>3, <2>5, <3>1, <3>2 DEF a
  <2>6. CASE ~ (k >= off /\ k < end) /\ ~ (k < f.size)
    <3>1. k >= f.size /\ k < off
      BY <1>1, <1>2, <1>4, <2>6
    <3>. QED  BY <2>2, <2>3, <2>6, <3>1 DEF a
  <2>. QED  BY <2>4, <2>5, <2>6
<1>5. ASSUME NEW a \in 0..PoolSize, a < base \/ a >= base + room
      PROVE  P[a] = pool[a]
  <2> DEFINE k == a - base
  <2>1. k \in Int /\ (k < 0 \/ k >= room)
    BY <1>5
  <2>2. P[a] = IF k = end /\ end > f.size THEN 0
               ELSE IF k >= off /\ k < end THEN buf[k - off + 1]
               ELSE IF k >= f.size /\ k < off THEN 0
               ELSE IF grow /\ k >= 0 /\ k < f.size THEN pool[f.data + k]
               ELSE IF grow /\ k >= 0 /\ k < 2 * end THEN 0 ELSE pool[a]
    BY <1>3
  <2>. HIDE DEF k
  <2>3. end > f.size => end < room
    BY DEF f
  <2>4. grow => room = 2 * end /\ f.size < room
    BY <1>1, SMTT(30) DEF f
  <2>5. off <= end
    BY <1>2
  <2>6. /\ ~ (k = end /\ end > f.size) /\ ~ (k >= off /\ k < end)
        /\ ~ (k >= f.size /\ k < off)
    BY <1>1, <2>1, <2>3, <2>5
  <2>7. ~ (grow /\ k >= 0 /\ k < f.size) /\ ~ (grow /\ k >= 0 /\ k < 2 * end)
    BY <1>1, <2>1, <2>4
  <2>. QED  BY <2>2, <2>6, <2>7
<1>. QED  BY <1>4, <1>5 DEF P, f

\* Two files have no byte in common.
LEMMA Separate ==
  ASSUME NEW fs \in Seq(FileRec), NEW m, Packed(fs, m),
         NEW i \in DOMAIN fs, NEW j \in DOMAIN fs, i # j, ~ fs[i].is_dir, ~ fs[j].is_dir
  PROVE  \/ fs[i].data + fs[i].capacity <= fs[j].data
         \/ fs[j].data + fs[j].capacity <= fs[i].data
<1>1. DOMAIN fs = 1..Len(fs) /\ Len(fs) \in Nat
  OBVIOUS
<1>2. CASE i < j
  <2>1. i \in 1..(j - 1)
    BY <1>1, <1>2
  <2>. QED  BY <2>1 DEF Packed
<1>3. CASE j < i
  <2>1. j \in 1..(i - 1)
    BY <1>1, <1>3
  <2>. QED  BY <2>1 DEF Packed
<1>. QED  BY <1>1, <1>2, <1>3

\* The contents of a file that no byte of changed, whatever its other fields.
LEMMA StoreSame ==
  ASSUME FsInv, NEW j \in DOMAIN files, j \in DOMAIN files', files'[j] \in FileRec,
         files'[j].is_dir = files[j].is_dir,
         files'[j].data = files[j].data, files'[j].size = files[j].size,
         ~ files[j].is_dir => \A a \in files[j].data..(files[j].data + files[j].size - 1) :
                                pool'[a] = pool[a]
  PROVE  Files'[j] = Files[j]
<1>1. files[j] \in FileRec
  BY FsTypesSame DEF FsInv, FsTypes
<1>2. CASE files[j].is_dir
  BY <1>2 DEF Files
<1>3. CASE ~ files[j].is_dir
  <2> DEFINE f == files[j]
             g == files'[j]
  <2>1. /\ f \in FileRec /\ g \in FileRec /\ g.data = f.data /\ g.size = f.size
        /\ \A a \in f.data..(f.data + f.size - 1) : pool'[a] = pool[a]
    BY <1>1, <1>3
  <2>2. BytesOf(g, pool') = BytesOf(f, pool)
    <3>. HIDE DEF f, g
    <3>. QED  BY <2>1, SameBytes
  <2>. QED  BY <1>3, <2>2 DEF Files
<1>. QED  BY <1>2, <1>3

\* A write changes the contents of the file that it is for as Overlay says,
\* and of no other.
LEMMA StoreWrites ==
  ASSUME FsInv, FsInv', NEW i \in DOMAIN files, NEW w \in Writes,
         \/ WriteInPlace(i, w[1], w[2]) /\ ~ Fills(i, w)
         \/ WriteGrow(i, w[1], w[2])
  PROVE  Store!Next
<1> DEFINE off == w[1]
           buf == w[2]
           end == off + Len(buf)
           f == files[i]
           g == files'[i]
<1>0. FsTypes /\ Packed(files, mem_used) /\ files \in Seq(FileRec) /\ files' \in Seq(FileRec)
  BY FsTypesSame, FsTypesNext DEF FsInv, FsTypes
<1>1. off \in Nat /\ buf \in Seq(Byte) /\ Len(buf) \in Nat /\ end \in Nat
  <2>1. off \in Nat /\ buf \in Seq(Byte)
    BY LimitsAssumption
  <2>. HIDE DEF off, buf
  <2>. QED  BY <2>1
<1>2. /\ f \in FileRec /\ f.data \in Int /\ f.size \in Nat /\ f.capacity \in Nat
      /\ f.is_dir \in BOOLEAN /\ f.data # Null
  <2>1. f \in FileRec
    BY <1>0
  <2>. QED  BY <2>1, FileFields DEF WriteInPlace, WriteGrow
<1>3. /\ ~ f.is_dir /\ f.data >= 0 /\ f.size <= f.capacity /\ f.data + f.capacity <= mem_used
      /\ mem_used \in Nat /\ mem_used <= PoolSize /\ PoolSize \in Nat
  BY <1>0, <1>2, LimitsAssumption DEF Packed, FsTypes
<1>4. /\ DOMAIN files' = DOMAIN files
      /\ \A j \in DOMAIN files \ {i} : files'[j] = files[j]
      /\ g.is_dir = f.is_dir
      /\ g.size = IF end > f.size THEN end ELSE f.size
  <2>1. CASE WriteInPlace(i, w[1], w[2])
    BY <1>0, <1>2, <2>1 DEF WriteInPlace, FileRec
  <2>2. CASE WriteGrow(i, w[1], w[2])
    <3>1. end > f.capacity
      BY <2>2 DEF WriteGrow
    <3>2. end > f.size
      <4>. HIDE DEF end, f
      <4>. QED  BY <1>1, <1>2, <1>3, <3>1
    <3>3. g.is_dir = f.is_dir /\ g.size = end /\ DOMAIN files' = DOMAIN files
          /\ \A j \in DOMAIN files \ {i} : files'[j] = files[j]
      BY <1>0, <1>2, <2>2 DEF WriteGrow, FileRec
    <3>. QED  BY <3>2, <3>3
  <2>. QED  BY <2>1, <2>2
<1>5. PICK grow \in BOOLEAN, base \in Nat, room \in Nat :
        /\ base = IF grow THEN mem_used ELSE f.data
        /\ room = IF grow THEN 2 * end ELSE f.capacity
        /\ base + room <= PoolSize /\ (end > f.size => end < room) /\ end <= room
        /\ grow => end > f.size
        /\ pool' = Written(f, grow, off, buf) /\ g.data = base
  <2>1. CASE WriteInPlace(i, w[1], w[2]) /\ ~ Fills(i, w)
    <3>1. /\ end <= f.capacity /\ ~ (end > f.size /\ end = f.capacity)
          /\ pool' = Written(f, FALSE, off, buf) /\ g.data = f.data
      BY <1>0, <1>2, <2>1 DEF WriteInPlace, Fills, FileRec
    <3>2. f.data \in Nat /\ f.data + f.capacity <= PoolSize /\ (end > f.size => end < f.capacity)
      <4>. HIDE DEF end, f
      <4>. QED  BY <1>1, <1>2, <1>3, <3>1
    <3>. QED  BY <1>2, <3>1, <3>2
  <2>2. CASE WriteGrow(i, w[1], w[2])
    <3>1. /\ end > f.capacity /\ mem_used + 2 * end <= PoolSize
          /\ pool' = Written(f, TRUE, off, buf) /\ g.data = mem_used
      BY <1>0, <1>2, <2>2 DEF WriteGrow, Room, FileRec
    <3>2. 2 * end \in Nat /\ end < 2 * end /\ end <= 2 * end /\ end > f.size
      <4>. HIDE DEF end, f
      <4>. QED  BY <1>1, <1>2, <1>3, <3>1
    <3>. QED  BY <1>3, <3>1, <3>2
  <2>. QED  BY <2>1, <2>2
<1>6. /\ \A k \in 0..(PoolSize - base) :
           k < end \/ k < f.size =>
           pool'[base + k] = IF k >= off /\ k < end THEN buf[k - off + 1]
                             ELSE IF k < f.size THEN pool[f.data + k] ELSE 0
      /\ \A a \in 0..PoolSize : a < base \/ a >= base + room => pool'[a] = pool[a]
  <2>1. /\ FsTypes /\ Packed(files, mem_used) /\ files[i].data # Null
        /\ grow => base = mem_used /\ room = 2 * end
        /\ ~ grow => base = files[i].data /\ room = files[i].capacity
        /\ end = off + Len(buf)
        /\ base + room <= PoolSize /\ (end > files[i].size => end < room) /\ end <= room
        /\ grow => end > files[i].size
    BY <1>0, <1>2, <1>5
  <2>2. off \in Nat /\ buf \in Seq(Byte) /\ end \in Nat
    BY <1>1
  <2>. HIDE DEF end, off, buf
  <2>3. /\ \A k \in 0..(PoolSize - base) :
              k < end \/ k < files[i].size =>
              Written(files[i], grow, off, buf)[base + k] =
                IF k >= off /\ k < end THEN buf[k - off + 1]
                ELSE IF k < files[i].size THEN pool[files[i].data + k] ELSE 0
        /\ \A a \in 0..PoolSize : a < base \/ a >= base + room =>
              Written(files[i], grow, off, buf)[a] = pool[a]
    <3>1. grow \in BOOLEAN /\ base \in Nat /\ room \in Nat /\ i \in DOMAIN files
      OBVIOUS
    <3>. QED  BY ONLY <3>1, <2>1, <2>2, WrittenBytes, SMTT(30)
  <2>. QED  BY <1>5, <2>3
<1>7. /\ Files \in Seq(Seq(Byte)) /\ DOMAIN Files = DOMAIN files
      /\ Files' \in Seq(Seq(Byte)) /\ DOMAIN Files' = DOMAIN files
  BY <1>4, FilesTyped, FilesTypedNext
<1>8. ASSUME NEW j \in DOMAIN files, j # i
      PROVE  Files'[j] = Files[j]
  <2> DEFINE h == files[j]
  <2>1. /\ h \in FileRec /\ h.data \in Int /\ h.size \in Nat /\ h.capacity \in Nat
    <3>1. h \in FileRec
      BY <1>0
    <3>. QED  BY <3>1, FileFields
  <2>2. ASSUME ~ h.is_dir, NEW a \in h.data..(h.data + h.size - 1)
        PROVE  pool'[a] = pool[a]
    <3>1. h.data >= 0 /\ h.size <= h.capacity /\ h.data + h.capacity <= mem_used
      BY <1>0, <2>2 DEF Packed
    <3>2. h.data + h.capacity <= base \/ base + room <= h.data
      <4>1. CASE grow
        BY <1>5, <3>1, <4>1
      <4>2. CASE ~ grow
        <5>1. f.data + f.capacity <= h.data \/ h.data + h.capacity <= f.data
          BY <1>0, <1>3, <1>8, <2>2, Separate
        <5>. QED  BY <1>5, <4>2, <5>1
      <4>. QED  BY <4>1, <4>2
    <3>. HIDE DEF h, f
    <3>3. a \in 0..PoolSize /\ (a < base \/ a >= base + room)
      <4> DEFINE d == h.data
                 s == h.size
                 c == h.capacity
      <4>1. a \in d..(d + s - 1) /\ d \in Int /\ s \in Nat /\ c \in Nat
        BY <2>1
      <4>2. /\ d >= 0 /\ s <= c /\ d + c <= mem_used
            /\ d + c <= base \/ base + room <= d
        BY <3>1, <3>2
      <4>. HIDE DEF d, s, c
      <4>. QED  BY <1>3, <4>1, <4>2
    <3>. QED  BY <1>6, <3>3
  <2>3. files'[j] = files[j] /\ j \in DOMAIN files'
    BY <1>4, <1>8
  <2>. QED  BY <2>1, <2>2, <2>3, StoreSame
<1>9. Files'[i] = Store!Overlay(Files[i], off, buf)
  <2> DEFINE c == Files[i]
             size == IF end > f.size THEN end ELSE f.size
  <2>1. c = BytesOf(f, pool) /\ Files'[i] = BytesOf(g, pool')
    BY <1>3, <1>4 DEF Files
  <2>2. /\ Len(c) = f.size /\ \A k \in 1..f.size : c[k] = pool[f.data + k - 1]
    <3>1. files[i].data = Null => files[i].size = 0
      BY DEF FsInv
    <3>2. pool \in Pool /\ mem_used \in Nat /\ mem_used <= PoolSize
      BY <1>0, <1>3 DEF FsTypes
    <3>3. /\ Len(BytesOf(files[i], pool)) = files[i].size
          /\ \A k \in 1..files[i].size : BytesOf(files[i], pool)[k] = pool[files[i].data + k - 1]
      BY <1>0, <3>1, <3>2, BytesType
    <3>. QED  BY <2>1, <3>3
  <2>3. Store!Overlay(c, off, buf) =
          [k \in 1..size |-> IF k > off /\ k <= end THEN buf[k - off]
                             ELSE IF k <= f.size THEN c[k] ELSE 0]
    <3>. HIDE DEF c
    <3>. QED  BY <2>2 DEF Store!Overlay
  <2>4. Files'[i] = [k \in 1..size |-> pool'[base + k - 1]]
    BY <1>4, <1>5, <2>1 DEF BytesOf
  <2>5. ASSUME NEW k \in 1..size
        PROVE  pool'[base + k - 1] = IF k > off /\ k <= end THEN buf[k - off]
                                     ELSE IF k <= f.size THEN c[k] ELSE 0
    <3>. HIDE DEF c
    <3>1. size \in Nat /\ size <= room
      <4>1. grow => f.size < room
        <5>. HIDE DEF f, end
        <5>. QED  BY <1>1, <1>2, <1>5
      <4>2. ~ grow => f.size <= room
        <5>. HIDE DEF f, end
        <5>. QED  BY <1>3, <1>5
      <4>. HIDE DEF f, end
      <4>. QED  BY <1>1, <1>2, <1>5, <4>1, <4>2
    <3> DEFINE q == k - 1
    <3>0. k \in Nat /\ k >= 1 /\ k <= size /\ (k <= end \/ k <= f.size)
      <4>1. k \in 1..size
        BY <2>5
      <4>. HIDE DEF f, end
      <4>. QED  BY <1>1, <1>2, <3>1, <4>1
    <3>2. /\ q \in 0..(PoolSize - base) /\ (q < end \/ q < f.size)
          /\ (q >= off <=> k > off) /\ (q < end <=> k <= end) /\ (q < f.size <=> k <= f.size)
          /\ q - off + 1 = k - off /\ base + q = base + k - 1 /\ f.data + q = f.data + k - 1
      <4>. HIDE DEF f, end, off, size
      <4>1. q \in 0..(PoolSize - base)
        BY <1>3, <1>5, <3>0, <3>1
      <4>2. /\ (q < end \/ q < f.size)
            /\ (q >= off <=> k > off) /\ (q < end <=> k <= end) /\ (q < f.size <=> k <= f.size)
        BY <1>1, <1>2, <3>0
      <4>3. q - off + 1 = k - off /\ base + q = base + k - 1 /\ f.data + q = f.data + k - 1
        BY <1>1, <1>2, <3>0
      <4>. QED  BY <4>1, <4>2, <4>3
    <3>. HIDE DEF q, f, end, off, buf
    <3>3. pool'[base + q] = IF q >= off /\ q < end THEN buf[q - off + 1]
                            ELSE IF q < f.size THEN pool[f.data + q] ELSE 0
      BY <1>6, <3>2
    <3>4. k <= f.size => c[k] = pool[f.data + k - 1]
      BY <1>2, <2>2, <2>5, <3>1
    <3>. QED  BY <3>2, <3>3, <3>4
  <2>. HIDE DEF c, size, f, end, off, buf
  <2>. QED  BY <2>3, <2>4, <2>5 DEF c
<1>10. Files' = [Files EXCEPT ![i] = Store!Overlay(@, off, buf)]
  <2> DEFINE new == Store!Overlay(Files[i], off, buf)
  <2>1. \A j \in DOMAIN files : Files'[j] = IF j = i THEN new ELSE Files[j]
    BY <1>8, <1>9
  <2>. HIDE DEF new
  <2>2. /\ Files = [j \in DOMAIN files |-> Files[j]]
        /\ Files' = [j \in DOMAIN files |-> Files'[j]]
    BY <1>7
  <2>3. Files' = [Files EXCEPT ![i] = new]
    BY <2>1, <2>2, <1>7
  <2>. QED  BY <2>3 DEF new
<1>. QED  BY <1>7, <1>10 DEF Store!Next, Store!Write

LEMMA StoreStutters ==
  ASSUME FsInv, FsInv', UNCHANGED <<files, pool>>
  PROVE  Files' = Files
BY DEF Files

LEMMA StoreImports ==
  ASSUME FsInv, FsInv', ImportFile \/ ImportDir
  PROVE  Store!Next \/ Files' = Files
<1>0. FsTypes /\ PoolSize \in Nat /\ mem_used \in Nat /\ mem_used <= PoolSize
      /\ DOMAIN pool = 0..PoolSize
  BY FsTypesSame, LimitsAssumption DEF FsInv, FsTypes, Pool
<1>1. Importing
  BY DEF ImportFile, ImportDir
<1>2. Source.name \in Text /\ Source.data \in Seq(Byte)
  <2>1. count + 1 \in DOMAIN listed
    BY <1>0, <1>1 DEF FsTypes, Importing
  <2>2. Source \in Listed
    BY <1>0, <2>1 DEF FsTypes, Source
  <2>. QED  BY <2>2 DEF Listed
<1>3. CASE ImportFile
  <2> DEFINE n == Len(Source.data)
             f == File(Source.name, mem_used, n, n)
  <2>1. /\ files' = Append(files, f)
        /\ pool' = [a \in DOMAIN pool |->
                      IF a - mem_used \in 0..(n - 1)
                      THEN Source.data[a - mem_used + 1] ELSE pool[a]]
    BY <1>3 DEF ImportFile
  <2>2. n \in Nat
    BY <1>2
  <2>3. f \in FileRec
    <3>. HIDE DEF n
    <3>. QED  BY <1>0, <1>2, <2>2, FileType
  <2>4. ASSUME NEW a \in 0..(mem_used - 1) PROVE pool'[a] = pool[a]
    <3>. HIDE DEF n
    <3>1. a \in DOMAIN pool /\ ~ (a - mem_used \in 0..(n - 1))
      BY <1>0, <2>2
    <3>. QED  BY <2>1, <3>1
  <2>. HIDE DEF f
  <2>. QED  BY <2>1, <2>3, <2>4, StoreAdds
<1>4. CASE ImportDir
  <2> DEFINE n == DirName(Source.name)
             f == [name |-> Cut(n), data |-> Null, size |-> 0, capacity |-> 0,
                   mode |-> 0, is_dir |-> TRUE]
  <2>1. /\ UNCHANGED pool
        /\ files' = files \/ files' = Append(files, f)
    BY <1>4 DEF ImportDir, fs_create_dir, mem
  <2>2. f \in FileRec
    <3>1. IsDirName(Source.name)
      BY <1>4 DEF ImportDir
    <3>2. n \in Text
      BY <1>2, <3>1, DirNameType
    <3>. HIDE DEF n
    <3>3. Cut(n) \in Text
      BY <3>2, CutType
    <3>. QED  BY <3>3 DEF FileRec, Null
  <2>. HIDE DEF f
  <2>3. CASE files' = files
    BY <2>1, <2>3, StoreStutters
  <2>4. CASE files' = Append(files, f)
    <3>1. \A a \in 0..(mem_used - 1) : pool'[a] = pool[a]
      BY <2>1
    <3>. QED  BY <2>2, <2>4, <3>1, StoreAdds
  <2>. QED  BY <2>1, <2>3, <2>4
<1>. QED  BY <1>3, <1>4

LEMMA StoreCreates ==
  ASSUME FsInv, FsInv', NEW n \in Names, fs_create_file(n)
  PROVE  Store!Next
<1> DEFINE f == File(n, mem_used, 0, NewCapacity)
<1>0. FsTypes /\ PoolSize \in Nat /\ mem_used \in Nat /\ mem_used <= PoolSize
      /\ DOMAIN pool = 0..PoolSize
  BY FsTypesSame, LimitsAssumption DEF FsInv, FsTypes, Pool
<1>1. files' = Append(files, f) /\ pool' = [pool EXCEPT ![mem_used] = 0]
  BY DEF fs_create_file
<1>2. f \in FileRec
  <2>1. n \in Text /\ NewCapacity \in Nat /\ 0 \in Nat
    BY LimitsAssumption DEF Text
  <2>. QED  BY <1>0, <2>1, FileType
<1>3. \A a \in 0..(mem_used - 1) : pool'[a] = pool[a]
  BY <1>0, <1>1
<1>. HIDE DEF f
<1>. QED  BY <1>1, <1>2, <1>3, StoreAdds

LEMMA StoreChmod ==
  ASSUME FsInv, FsInv', NEW n \in Names, NEW m \in Modes, fs_chmod(n, m)
  PROVE  Files' = Files
<1>0. FsTypes /\ files \in Seq(FileRec) /\ files' \in Seq(FileRec)
  BY FsTypesSame, FsTypesNext DEF FsInv, FsTypes
<1>1. PICK i \in DOMAIN files : files' = [files EXCEPT ![i].mode = m] /\ pool' = pool
  <2>1. fs_open(n) \in DOMAIN files
    BY <1>0, OpenFinds DEF fs_chmod
  <2>. QED  BY <2>1 DEF fs_chmod, mem
<1>2. DOMAIN files' = DOMAIN files
  BY <1>1
<1>3. ASSUME NEW j \in DOMAIN files PROVE Files'[j] = Files[j]
  <2>1. files[j] \in FileRec /\ files'[j] \in FileRec /\ j \in DOMAIN files'
    BY <1>0, <1>2
  <2>2. /\ files'[j].is_dir = files[j].is_dir
        /\ files'[j].data = files[j].data /\ files'[j].size = files[j].size
    BY <1>0, <1>1, <2>1 DEF FileRec
  <2>. QED  BY <1>1, <2>1, <2>2, StoreSame
<1>4. /\ Files = [j \in DOMAIN files |-> Files[j]]
      /\ Files' = [j \in DOMAIN files |-> Files'[j]]
  BY <1>2 DEF Files
<1>. QED  BY <1>3, <1>4

\* No write takes the last byte of its buffer, so that its terminator has room.
Fits == \A i \in DOMAIN files, w \in Writes : WriteInPlace(i, w[1], w[2]) => ~ Fills(i, w)

LEMMA StoreStep ==
  ASSUME FsInv, FsInv', [FsNext]_fsvars, [Fits]_fsvars
  PROVE  [Store!Next]_Files
<1>1. CASE UNCHANGED fsvars
  <2>1. UNCHANGED <<files, pool>>
    BY <1>1 DEF fsvars, mem
  <2>. QED  BY <2>1, StoreStutters
<1>2. CASE Boot
  <2>1. CASE ImportFile \/ ImportDir
    BY <2>1, StoreImports
  <2>2. CASE ParseEntry \/ ParseStop \/ ImportStop
    <3>1. UNCHANGED <<files, pool>>
      BY <2>2 DEF ParseEntry, ParseStop, ImportStop, mem
    <3>. QED  BY <3>1, StoreStutters
  <2>. QED  BY <1>2, <2>1, <2>2 DEF Boot
<1>3. ASSUME NEW n \in Names,
             fs_create_file(n) \/ fs_change_dir(n) \/ \E m \in Modes : fs_chmod(n, m)
      PROVE  [Store!Next]_Files
  <2>1. CASE fs_create_file(n)
    BY <2>1, StoreCreates
  <2>2. CASE fs_change_dir(n)
    <3>1. UNCHANGED <<files, pool>>
      BY <2>2 DEF fs_change_dir, mem
    <3>. QED  BY <3>1, StoreStutters
  <2>3. CASE \E m \in Modes : fs_chmod(n, m)
    BY <2>3, StoreChmod
  <2>. QED  BY <1>3, <2>1, <2>2, <2>3
<1>4. ASSUME ~ UNCHANGED fsvars, NEW i \in DOMAIN files, NEW w \in Writes,
             WriteInPlace(i, w[1], w[2]) \/ WriteGrow(i, w[1], w[2])
      PROVE  [Store!Next]_Files
  <2>1. WriteInPlace(i, w[1], w[2]) => ~ Fills(i, w)
    BY <1>4 DEF Fits
  <2>. QED  BY <1>4, <2>1, StoreWrites
<1>. QED  BY <1>1, <1>2, <1>3, <1>4 DEF FsNext

\* The pool of bytes that fs_alloc cuts into buffers, fs_write's moves from one
\* buffer to a larger one and the terminators behind the bytes look to a
\* reader like a list of separate files, as long as no write ends exactly
\* where its buffer does: then the terminator is the next file's first byte
\* (fs.c:370), which is what OneFileChanges is about.
THEOREM FilesAreSeparate ==
  FsSpec /\ [][Fits]_fsvars => ImplementsFileStore
<1>1. FsInit => Store!Init
  <2> SUFFICES ASSUME FsInit PROVE Files = <<>>
    BY DEF Store!Init
  <2>1. files = <<>>
    BY DEF FsInit
  <2>. QED  BY <2>1 DEF Files
<1>2. FsInv /\ FsInv' /\ [FsNext]_fsvars /\ [Fits]_fsvars => [Store!Next]_Files
  BY StoreStep
<1>. QED  BY <1>1, <1>2, FsInitInv, FsStep, PTL DEF FsSpec, ImplementsFileStore, Store!Spec
-----------------------------------------------------------------------------
\* Names.  What is stripped and cut keeps being a name.
LEMMA CutShort ==
  ASSUME NEW n \in Text
  PROVE  Len(Cut(n)) \in Nat /\ Len(Cut(n)) < NameBuf
<1>1. NameBuf \in Nat /\ NameBuf > 2 /\ Len(n) \in Nat
  BY LimitsAssumption DEF Text
<1>2. CASE Len(n) < NameBuf
  BY <1>1, <1>2 DEF Cut
<1>3. CASE ~ (Len(n) < NameBuf)
  <2> DEFINE m == NameBuf - 1
  <2>1. m \in Nat /\ m <= Len(n) /\ 1 <= m + 1 /\ m + 1 - 1 = m /\ m < NameBuf
    BY <1>1, <1>3
  <2>2. Cut(n) = SubSeq(n, 1, m)
    BY <1>3 DEF Cut
  <2>. HIDE DEF m
  <2>3. Len(SubSeq(n, 1, m)) = m + 1 - 1
    BY <2>1, SubSequencePlaces DEF Text
  <2>. QED  BY <2>1, <2>2, <2>3
<1>. QED  BY <1>2, <1>3

\* "./x" is stripped to "x".
LEMMA StripDotted ==
  ASSUME NEW n \in Text
  PROVE  LET dotted == <<".", "/">> \o n IN
         Strip(dotted) = n /\ Len(dotted) = Len(n) + 2 /\ Len(n) \in Nat /\ dotted # <<>>
<1> DEFINE pre == <<".", "/">>
           dotted == pre \o n
<1>1. pre \in Text /\ Len(pre) = 2 /\ pre[1] = "." /\ pre[2] = "/"
  <2>1. "." \in Char /\ "/" \in Char
    BY LimitsAssumption
  <2>. QED  BY <2>1 DEF Text
<1>2. Len(n) \in Nat
  BY DEF Text
<1>. HIDE DEF pre
<1>3. /\ dotted \in Text /\ Len(dotted) = Len(pre) + Len(n)
      /\ \A k \in 1..(Len(pre) + Len(n)) :
           dotted[k] = IF k <= Len(pre) THEN pre[k] ELSE n[k - Len(pre)]
  BY <1>1, Joined DEF Text
<1>. HIDE DEF dotted
<1>4. Len(dotted) = Len(n) + 2 /\ Len(dotted) >= 2
  BY <1>1, <1>2, <1>3
<1>5. dotted[1] = "." /\ dotted[2] = "/"
  <2>1. 1 \in 1..(2 + Len(n)) /\ 2 \in 1..(2 + Len(n))
    BY <1>2
  <2>. QED  BY <1>1, <1>3, <2>1
<1>6. Strip(dotted) = SubSeq(dotted, 3, Len(n) + 2)
  BY <1>4, <1>5 DEF Strip
<1>7. SubSeq(dotted, 3, Len(n) + 2) = n
  <2> DEFINE s == SubSeq(dotted, 3, Len(n) + 2)
             m == Len(n) + 2
  <2>1. 3 \in Nat \ {0} /\ m \in Nat /\ m <= Len(dotted) /\ 3 <= m + 1 /\ m + 1 - 3 = Len(n)
    BY <1>2, <1>4
  <2>2. s \in Text
    BY <1>3, <2>1, SubSequence DEF Text
  <2>3. Len(s) = m + 1 - 3 /\ \A k \in 1..(m + 1 - 3) : s[k] = dotted[3 + k - 1]
    BY <1>3, <2>1, SubSequencePlaces DEF Text
  <2>. HIDE DEF s, m
  <2>4. ASSUME NEW k \in 1..Len(n) PROVE s[k] = n[k]
    <3>1. /\ 3 + k - 1 \in 1..(2 + Len(n)) /\ ~ (3 + k - 1 <= 2) /\ (3 + k - 1) - 2 = k
      BY <1>2
    <3>2. s[k] = dotted[3 + k - 1]
      BY <2>1, <2>3
    <3>3. dotted[3 + k - 1] = n[(3 + k - 1) - 2]
      BY <1>1, <1>3, <3>1
    <3>. QED  BY <3>1, <3>2, <3>3
  <2>. QED  BY <2>1, <2>2, <2>3, <2>4, SameSequence DEF s, Text
<1>8. dotted # <<>>
  BY <1>2, <1>4
<1>. QED  BY <1>2, <1>4, <1>6, <1>7, <1>8 DEF dotted, pre

\* A file that is found by a name is found by the name with "./" before it,
\* whatever was cut from its own.
LEMMA DottedMatches ==
  ASSUME NEW f, f.name \in Text, Len(f.name) < NameBuf, NEW n \in Text, Strip(n) = n
  PROVE  Matches(f, n) <=> Matches(f, <<".", "/">> \o n)
<1> DEFINE dotted == <<".", "/">> \o n
<1>1. Strip(dotted) = n /\ Len(dotted) = Len(n) + 2 /\ Len(n) \in Nat
  BY StripDotted
<1>2. NameBuf \in Nat
  BY LimitsAssumption
<1>. HIDE DEF dotted
<1>3. f.name = n => Cut(n) = n
  BY CutType
<1>4. f.name = dotted => Cut(n) = n /\ Strip(f.name) = n
  <2>1. f.name = dotted => Len(n) < NameBuf
    BY <1>1, <1>2
  <2>. QED  BY <1>1, <2>1, CutType
<1>5. Matches(f, n) => Matches(f, dotted)
  BY <1>1, <1>3 DEF Matches
<1>6. Matches(f, dotted) => Matches(f, n)
  BY <1>1, <1>4 DEF Matches
<1>. QED  BY <1>5, <1>6 DEF dotted

\* A name that the registry stores and looks up as it is, but for one "./".
PlainName(n) == n # <<>> /\ Len(n) < NameBuf /\ Strip(Strip(n)) = Strip(n)

NamesInv ==
  /\ \A i \in DOMAIN files : Len(files[i].name) < NameBuf
  /\ \A k \in DOMAIN listed : \E a \in DOMAIN Archive : listed[k].name = Archive[a].name
  /\ \A k \in 1..count :
       IsDirName(listed[k].name) \/ \E i \in DOMAIN files : files[i].name = Cut(listed[k].name)

\* A step adds one file, or changes one but for its name, or none.
FilesGrow ==
  /\ DOMAIN files \subseteq DOMAIN files'
  /\ \A i \in DOMAIN files : files'[i].name = files[i].name
  /\ \A i \in DOMAIN files' \ DOMAIN files : Len(files'[i].name) < NameBuf

LEMMA AppendGrows ==
  ASSUME files \in Seq(FileRec), NEW f \in FileRec, Len(f.name) < NameBuf,
         files' = Append(files, f)
  PROVE  FilesGrow /\ \E i \in DOMAIN files' : files'[i] = f
<1>1. /\ DOMAIN files' = 1..(Len(files) + 1) /\ DOMAIN files = 1..Len(files)
      /\ Len(files) \in Nat /\ \A k \in 1..Len(files) : files'[k] = files[k]
      /\ files'[Len(files) + 1] = f
  BY Appending
<1>2. 1..Len(files) \subseteq 1..(Len(files) + 1) /\ Len(files) + 1 \in 1..(Len(files) + 1)
  BY <1>1
<1>3. \A i \in (1..(Len(files) + 1)) \ (1..Len(files)) : i = Len(files) + 1
  BY <1>1
<1>. QED  BY <1>1, <1>2, <1>3 DEF FilesGrow

LEMMA ReplaceGrows ==
  ASSUME files \in Seq(FileRec), NEW i, NEW g, files' = [files EXCEPT ![i] = g],
         i \in DOMAIN files => g.name = files[i].name
  PROVE  FilesGrow
<1>1. DOMAIN files' = DOMAIN files /\ \A j \in DOMAIN files : files'[j] \in {files[j]} \/ (j = i /\ files'[j] = g)
  OBVIOUS
<1>. QED  BY <1>1 DEF FilesGrow

LEMMA ImportGrows ==
  ASSUME FsInv, ImportFile
  PROVE  FilesGrow /\ \E i \in DOMAIN files' : files'[i].name = Cut(Source.name)
<1>0. FsTypes /\ files \in Seq(FileRec) /\ mem_used \in Nat
  BY FsTypesSame DEF FsInv, FsTypes
<1> DEFINE n == Len(Source.data)
           f == File(Source.name, mem_used, n, n)
<1>1. files' = Append(files, f) /\ count < Len(listed)
  BY DEF ImportFile, Importing
<1>2. Source.name \in Text /\ n \in Nat
  <2>1. count + 1 \in DOMAIN listed
    BY <1>0, <1>1 DEF FsTypes
  <2>2. Source \in Listed
    BY <1>0, <2>1 DEF FsTypes, Source
  <2>. QED  BY <2>2 DEF Listed
<1>. HIDE DEF n
<1>3. Cut(Source.name) \in Text /\ Len(Cut(Source.name)) < NameBuf
  BY <1>2, CutType, CutShort
<1>4. f \in FileRec /\ Len(f.name) < NameBuf
  BY <1>0, <1>2, <1>3 DEF File, FileRec
<1>5. f.name = Cut(Source.name)
  BY DEF File
<1>. HIDE DEF f
<1>. QED  BY <1>0, <1>1, <1>4, <1>5, AppendGrows

LEMMA StepGrows == ASSUME FsInv, FsNext PROVE FilesGrow
<1>0. FsTypes /\ files \in Seq(FileRec) /\ mem_used \in Nat
  BY FsTypesSame DEF FsInv, FsTypes
<1>1. CASE files' = files
  BY <1>1 DEF FilesGrow
<1>2. CASE ImportFile
  BY <1>2, ImportGrows
<1>3. CASE ImportDir
  <2> DEFINE n == DirName(Source.name)
             f == [name |-> Cut(n), data |-> Null, size |-> 0, capacity |-> 0, mode |-> 0,
                   is_dir |-> TRUE]
  <2>1. /\ files' = files \/ files' = Append(files, f)
        /\ IsDirName(Source.name) /\ count < Len(listed)
    BY <1>3 DEF ImportDir, fs_create_dir, Importing
  <2>2. Source.name \in Text
    <3>1. count + 1 \in DOMAIN listed
      BY <1>0, <2>1 DEF FsTypes
    <3>2. Source \in Listed
      BY <1>0, <3>1 DEF FsTypes, Source
    <3>. QED  BY <3>2 DEF Listed
  <2>3. n \in Text
    BY <2>1, <2>2, DirNameType
  <2>. HIDE DEF n
  <2>4. Cut(n) \in Text /\ Len(Cut(n)) < NameBuf
    BY <2>3, CutType, CutShort
  <2>5. f \in FileRec /\ Len(f.name) < NameBuf
    BY <2>4 DEF FileRec, Null
  <2>. HIDE DEF f
  <2>. QED  BY <1>0, <1>1, <2>1, <2>5, AppendGrows
<1>4. ASSUME NEW n \in Names, fs_create_file(n) PROVE FilesGrow
  <2> DEFINE f == File(n, mem_used, 0, NewCapacity)
  <2>1. files' = Append(files, f)
    BY <1>4 DEF fs_create_file
  <2>2. n \in Text /\ NewCapacity \in Nat
    BY LimitsAssumption DEF Text
  <2>3. Cut(n) \in Text /\ Len(Cut(n)) < NameBuf
    BY <2>2, CutType, CutShort
  <2>4. f \in FileRec /\ Len(f.name) < NameBuf
    BY <1>0, <2>2, <2>3 DEF File, FileRec
  <2>. HIDE DEF f
  <2>. QED  BY <1>0, <2>1, <2>4, AppendGrows
<1>5. ASSUME NEW n \in Names, NEW m \in Modes, fs_chmod(n, m) PROVE FilesGrow
  <2> DEFINE i == fs_open(n)
  <2>1. files' = [files EXCEPT ![i].mode = m]
    BY <1>5 DEF fs_chmod
  <2>. HIDE DEF i
  <2>2. i \in DOMAIN files => [files[i] EXCEPT !.mode = m].name = files[i].name
    BY <1>0 DEF FileRec
  <2>. QED  BY <1>0, <2>1, <2>2, ReplaceGrows
<1>6. ASSUME NEW i \in DOMAIN files, NEW w \in Writes,
             WriteInPlace(i, w[1], w[2]) \/ WriteGrow(i, w[1], w[2])
      PROVE  FilesGrow
  <2> DEFINE end == w[1] + Len(w[2])
             f == files[i]
  <2>1. f \in FileRec
    BY <1>0
  <2>2. \/ files' = [files EXCEPT ![i] = [f EXCEPT !.size = IF end > f.size THEN end ELSE f.size]]
        \/ files' = [files EXCEPT ![i] = [f EXCEPT !.size = end, !.data = mem_used,
                                                   !.capacity = 2 * end]]
    BY <1>6 DEF WriteInPlace, WriteGrow
  <2>. HIDE DEF end
  <2>3. PICK g : files' = [files EXCEPT ![i] = g] /\ g.name = f.name
    <3>. HIDE DEF f
    <3>1. /\ [f EXCEPT !.size = IF end > f.size THEN end ELSE f.size].name = f.name
          /\ [f EXCEPT !.size = end, !.data = mem_used, !.capacity = 2 * end].name = f.name
      BY <2>1 DEF FileRec
    <3>. QED  BY <2>2, <3>1
  <2>. QED  BY <1>0, <2>3, ReplaceGrows
<1>7. CASE ParseEntry \/ ParseStop \/ ImportStop \/ \E n \in Names : fs_change_dir(n)
  BY <1>1, <1>7 DEF ParseEntry, ParseStop, ImportStop, fs_change_dir
<1>. QED  BY <1>2, <1>3, <1>4, <1>5, <1>6, <1>7 DEF FsNext, Boot

LEMMA NamesStep ==
  ASSUME FsInv, NamesInv, [FsNext]_fsvars
  PROVE  NamesInv'
<1>0. FsTypes
  BY FsTypesSame DEF FsInv
<1>1. CASE UNCHANGED fsvars
  <2>1. UNCHANGED <<files, listed, count>>
    BY <1>1 DEF fsvars, boot
  <2>. QED  BY <2>1 DEF NamesInv
<1>2. CASE FsNext
  <2>1. FilesGrow
    BY <1>2, StepGrows
  <2>2. \A i \in DOMAIN files' : Len(files'[i].name) < NameBuf
    BY <2>1 DEF FilesGrow, NamesInv
  <2>3. ASSUME NEW k, \E i \in DOMAIN files : files[i].name = Cut(listed[k].name)
        PROVE  \E i \in DOMAIN files' : files'[i].name = Cut(listed[k].name)
    BY <2>1, <2>3 DEF FilesGrow
  <2>4. CASE ParseEntry
    <3>1. count = 0 /\ count' = 0 /\ MoreEntries
          /\ listed' = Append(listed, [name |-> Entry.name, data |-> Entry.data])
      BY <2>4 DEF ParseEntry, FsInv
    <3> DEFINE e == [name |-> Entry.name, data |-> Entry.data]
    <3>2. Len(listed) + 1 \in DOMAIN Archive
      <4>1. Len(listed) \in Nat /\ Len(Archive) \in Nat /\ DOMAIN Archive = 1..Len(Archive)
        BY <1>0, ArchiveAssumption DEF FsTypes
      <4>. QED  BY <3>1, <4>1 DEF MoreEntries
    <3>3. e \in Listed
      BY <3>2, EntryType DEF Entry, Listed
    <3>4. e.name = Archive[Len(listed) + 1].name
      BY DEF Entry
    <3>. HIDE DEF e
    <3>5. /\ DOMAIN listed' = 1..(Len(listed) + 1) /\ DOMAIN listed = 1..Len(listed)
          /\ Len(listed) \in Nat /\ \A k \in 1..Len(listed) : listed'[k] = listed[k]
          /\ listed'[Len(listed) + 1] = e
      BY <1>0, <3>1, <3>3, Appending DEF FsTypes, e
    <3>6. \A k \in 1..(Len(listed) + 1) : k \in 1..Len(listed) \/ k = Len(listed) + 1
      BY <3>5
    <3>7. \A k \in DOMAIN listed' : \E a \in DOMAIN Archive : listed'[k].name = Archive[a].name
      BY <3>2, <3>4, <3>5, <3>6 DEF NamesInv
    <3>. QED  BY <2>2, <3>1, <3>7 DEF NamesInv
  <2>5. CASE ImportFile \/ ImportDir
    <3>1. listed' = listed /\ count' = count + 1
      BY <2>5 DEF ImportFile, ImportDir
    <3>2. IsDirName(Source.name) \/ \E i \in DOMAIN files' : files'[i].name = Cut(Source.name)
      BY <2>5, ImportGrows DEF ImportDir
    <3>3. \A k \in 1..(count + 1) : k \in 1..count \/ k = count + 1
      BY <1>0 DEF FsTypes
    <3>4. ASSUME NEW k \in 1..(count + 1)
          PROVE  \/ IsDirName(listed[k].name)
                 \/ \E i \in DOMAIN files' : files'[i].name = Cut(listed[k].name)
      BY <2>3, <3>2, <3>3 DEF NamesInv, Source
    <3>. QED  BY <2>2, <3>1, <3>4 DEF NamesInv
  <2>6. CASE UNCHANGED <<listed, count>>
    BY <2>2, <2>3, <2>6 DEF NamesInv
  <2>7. ParseEntry \/ ImportFile \/ ImportDir \/ UNCHANGED <<listed, count>>
    BY <1>2 DEF FsNext, Boot, ParseStop, ImportStop, fs_create_file, fs_change_dir, fs_chmod,
             WriteInPlace, WriteGrow, boot
  <2>. QED  BY <2>4, <2>5, <2>6, <2>7
<1>. QED  BY <1>1, <1>2

LEMMA NamesInvHolds ==
  ASSUME FsInv, NamesInv,
         \A a \in DOMAIN Archive : IsDirName(Archive[a].name) \/ PlainName(Archive[a].name)
  PROVE  FindsOwnName
<1>0. FsTypes /\ \A i \in DOMAIN files : files[i] \in FileRec /\ files[i].name \in Text
  <2>1. FsTypes
    BY FsTypesSame DEF FsInv
  <2>2. \A i \in DOMAIN files : files[i] \in FileRec
    BY <2>1 DEF FsTypes
  <2>. QED  BY <2>1, <2>2, FileFields
<1>1. ASSUME NEW k \in 1..count, ~ IsDirName(listed[k].name)
      PROVE  /\ fs_open(listed[k].name) # 0
             /\ Strip(files[fs_open(listed[k].name)].name) = Strip(listed[k].name)
  <2> DEFINE n == listed[k].name
  <2>1. k \in DOMAIN listed
    BY <1>0 DEF FsTypes
  <2>2. n \in Text
    <3>1. listed[k] \in Listed
      BY <1>0, <2>1 DEF FsTypes
    <3>. QED  BY <3>1 DEF Listed
  <2>3. PlainName(n)
    BY <1>1, <2>1 DEF NamesInv
  <2>4. PICK i \in DOMAIN files : files[i].name = Cut(n)
    BY <1>1 DEF NamesInv
  <2>. HIDE DEF n
  <2>5. Cut(n) = n /\ n # <<>>
    BY <2>2, <2>3, CutType DEF PlainName
  <2>6. Matches(files[i], n)
    BY <2>4, <2>5 DEF Matches
  <2>7. fs_open(n) # 0
    <3> DEFINE found == {j \in DOMAIN files : Matches(files[j], n)}
    <3>1. found # {} /\ found \subseteq Nat \ {0}
      BY <1>0, <2>4, <2>6 DEF FsTypes
    <3>2. \E j \in found : \A x \in found : j <= x
      BY <3>1, LeastNat
    <3>3. fs_open(n) = CHOOSE j \in found : \A x \in found : j <= x
      BY <2>5, <3>1 DEF fs_open
    <3>4. fs_open(n) \in found
      BY <3>2, <3>3
    <3>. QED  BY <3>1, <3>4
  <2>8. fs_open(n) \in DOMAIN files /\ Matches(files[fs_open(n)], n)
    BY <1>0, <2>7, OpenFinds
  <2>9. Strip(n) \in Text /\ Len(Strip(n)) < NameBuf
    <3>1. Len(n) \in Nat /\ Len(n) < NameBuf /\ NameBuf \in Nat
      BY <2>2, <2>3, LimitsAssumption DEF PlainName, Text
    <3>2. CASE Len(n) >= 2 /\ n[1] = "." /\ n[2] = "/"
      <4>1. Strip(n) = SubSeq(n, 3, Len(n)) /\ 3 \in Nat \ {0} /\ Len(n) <= Len(n)
            /\ 3 <= Len(n) + 1
        BY <3>1, <3>2 DEF Strip
      <4>2. SubSeq(n, 3, Len(n)) \in Text
        BY <2>2, <3>1, <4>1, SubSequence DEF Text
      <4>3. Len(SubSeq(n, 3, Len(n))) = Len(n) + 1 - 3
        BY <2>2, <3>1, <4>1, SubSequencePlaces DEF Text
      <4>. QED  BY <3>1, <4>1, <4>2, <4>3
    <3>3. CASE ~ (Len(n) >= 2 /\ n[1] = "." /\ n[2] = "/")
      BY <2>2, <3>1, <3>3 DEF Strip
    <3>. QED  BY <3>2, <3>3
  <2>10. Cut(Strip(n)) = Strip(n)
    BY <2>9, CutType
  <2>11. Strip(files[fs_open(n)].name) = Strip(n)
    BY <2>3, <2>8, <2>10 DEF Matches, PlainName
  <2>. QED  BY <2>7, <2>11 DEF n
<1>2. ASSUME NEW n \in Names, Strip(n) = n, n # <<>>
      PROVE  fs_open(n) = fs_open(<<".", "/">> \o n)
  <2> DEFINE dotted == <<".", "/">> \o n
  <2>1. n \in Text
    BY LimitsAssumption DEF Text
  <2>2. dotted # <<>>
    BY <2>1, StripDotted
  <2>3. \A i \in DOMAIN files : Matches(files[i], n) <=> Matches(files[i], dotted)
    BY <1>0, <1>2, <2>1, DottedMatches DEF NamesInv
  <2>. HIDE DEF dotted
  <2> DEFINE A == {i \in DOMAIN files : Matches(files[i], n)}
             B == {i \in DOMAIN files : Matches(files[i], dotted)}
  <2>4. /\ fs_open(n) = IF A = {} THEN 0 ELSE CHOOSE i \in A : \A j \in A : i <= j
        /\ fs_open(dotted) = IF B = {} THEN 0 ELSE CHOOSE i \in B : \A j \in B : i <= j
    BY <1>2, <2>2 DEF fs_open
  <2>5. A = B
    BY <2>3
  <2>. HIDE DEF A, B
  <2>6. fs_open(n) = fs_open(dotted)
    BY <2>4, <2>5
  <2>. QED  BY <2>6 DEF dotted
<1>. QED  BY <1>1, <1>2 DEF FindsOwnName

\* fs_open finds the files of the archive by the names they have there, and
\* finds the same with and without "./", for every archive whose names fit the
\* buffer of an entry and begin with one "./" at most.  fs.c:66 and 214 cut and
\* strip in different orders, so that a longer name would be lost.
THEOREM OwnNamesAreFound ==
  ASSUME \A a \in DOMAIN Archive : IsDirName(Archive[a].name) \/ PlainName(Archive[a].name)
  PROVE  FsSpec => []FindsOwnName
<1>1. FsInit => FsInv /\ NamesInv
  <2>1. FsInit => NamesInv
    BY DEF FsInit, NamesInv
  <2>. QED  BY <2>1, FsInitInv
<1>2. FsInv /\ NamesInv /\ [FsNext]_fsvars => FsInv' /\ NamesInv'
  BY FsStep, NamesStep
<1>3. FsInv /\ NamesInv => FindsOwnName
  BY NamesInvHolds
<1>. QED  BY <1>1, <1>2, <1>3, PTL DEF FsSpec
-----------------------------------------------------------------------------
\* The system calls.
FdRec == [file : Nat, position : Nat, used : BOOLEAN]
ReqRec == [op : Ops, ptr : Pointers \cup {0}, count : Nat]
PCs == {"boot", "shell", "user", "stdin", "halted"}

\* A call in progress or made last: what it may touch, and of which pages.
Limit(r) == IF r.op = "open" THEN PathCopy ELSE r.count
Pages(r) == IF r.op \in {"open", "write"} THEN Mapped ELSE Writable

CallInv ==
  /\ pc \in PCs /\ kbuf \in Seq(Nat) /\ req \in ReqRec
  /\ touched \subseteq 0..(AddrLimit - 1) /\ ret \in Int
  /\ touched \cap (KERNEL_VMA_BASE..(AddrLimit - 1)) = {}
  /\ touched \subseteq Range(req.ptr, Limit(req))
  /\ pc = "stdin" => req.op = "read" /\ Len(kbuf) < MaxIO /\ Len(kbuf) < req.count
  /\ pc = "halted" => ~ Range(req.ptr, Limit(req)) \subseteq Pages(req)

\* A descriptor in use stands in a file, and what was read through it is
\* what lies before.
Reads(f, g) ==
  IF f.used
  THEN /\ f.file \in DOMAIN files /\ f.position <= files[f.file].size
       /\ g = SubSeq(Contents(f.file), 1, f.position)
  ELSE f = Free

FdInv ==
  /\ fd_table \in [Fds -> FdRec] /\ got \in [Fds -> Seq(Byte)]
  /\ pc = "boot" => \A d \in Fds : fd_table[d] = Free
  /\ \A d \in Fds : Reads(fd_table[d], got[d])

SysInv == FsInv /\ (pc = "boot" <=> stage # "up") /\ CallInv /\ FdInv

LEMMA Ranges ==
  ASSUME NEW v \in Nat, NEW s \in Nat, NEW t \in Nat, s <= t
  PROVE  /\ Range(v, s) \subseteq Range(v, t)
         /\ validate_user_memory(v, s) =>
              /\ Range(v, s) \subseteq 0..(AddrLimit - 1)
              /\ Range(v, s) \cap (KERNEL_VMA_BASE..(AddrLimit - 1)) = {}
<1>0. AddrLimit \in Nat /\ KERNEL_VMA_BASE \in Nat
  BY SyscallsAssumption
<1>1. Range(v, s) \subseteq Range(v, t)
  <2>1. 0..(s - 1) \subseteq 0..(t - 1)
    OBVIOUS
  <2>. QED  BY <2>1 DEF Range
<1>2. ASSUME validate_user_memory(v, s), NEW a \in Range(v, s)
      PROVE  a \in 0..(AddrLimit - 1) /\ ~ (a \in KERNEL_VMA_BASE..(AddrLimit - 1))
  <2>1. v + s - 1 < AddrLimit /\ v + s - 1 < KERNEL_VMA_BASE
    BY <1>2 DEF validate_user_memory
  <2>2. PICK k \in 0..(s - 1) : a = (v + k) % AddrLimit
    BY <1>2 DEF Range
  <2>3. v + k \in Nat /\ v + k < AddrLimit /\ v + k < KERNEL_VMA_BASE
    BY <1>0, <2>1
  <2>4. \A x, m \in Nat : x < m => x % m = x
    OBVIOUS
  <2>5. a = v + k
    BY <1>0, <2>2, <2>3, <2>4
  <2>. QED  BY <1>0, <2>3, <2>5
<1>. QED  BY <1>1, <1>2

\* How a call that copies s bytes ends.
Ended(v, s, pages) ==
  \/ pc' = "user" /\ (touched' = {} \/ Copies(v, s, pages))
  \/ CopyFaults(v, s, pages)

LEMMA CallEnds ==
  ASSUME req' \in ReqRec, kbuf' \in Seq(Nat), ret' \in Int,
         NEW s \in Nat, s <= Limit(req'), Ended(req'.ptr, s, Pages(req'))
  PROVE  CallInv'
<1>1. req'.ptr \in Nat /\ Limit(req') \in Nat
  <2>1. req'.ptr \in Pointers \cup {0} /\ req'.count \in Nat
    BY DEF ReqRec
  <2>2. \A x \in Pointers : x \in Nat
    BY SyscallsAssumption
  <2>3. PathCopy \in Nat
    BY SyscallsAssumption
  <2>. QED  BY <2>1, <2>2, <2>3 DEF Limit
<1>2. /\ Range(req'.ptr, s) \subseteq Range(req'.ptr, Limit(req'))
      /\ validate_user_memory(req'.ptr, s) =>
           /\ Range(req'.ptr, s) \subseteq 0..(AddrLimit - 1)
           /\ Range(req'.ptr, s) \cap (KERNEL_VMA_BASE..(AddrLimit - 1)) = {}
  BY <1>1, Ranges
<1>3. \/ pc' = "user" /\ touched' = {}
      \/ pc' = "user" /\ touched' = Range(req'.ptr, s) /\ validate_user_memory(req'.ptr, s)
      \/ /\ pc' = "halted" /\ touched' = Range(req'.ptr, s)
         /\ validate_user_memory(req'.ptr, s)
         /\ ~ Range(req'.ptr, s) \subseteq Pages(req')
  BY DEF Ended, Copies, CopyFaults
<1>4. pc' = "halted" => ~ Range(req'.ptr, Limit(req')) \subseteq Pages(req')
  BY <1>2, <1>3
<1>5. /\ touched' \subseteq 0..(AddrLimit - 1)
      /\ touched' \cap (KERNEL_VMA_BASE..(AddrLimit - 1)) = {}
      /\ touched' \subseteq Range(req'.ptr, Limit(req'))
  BY <1>2, <1>3
<1>6. pc' \in PCs /\ pc' # "stdin"
  BY <1>3 DEF PCs
<1>. QED  BY <1>4, <1>5, <1>6 DEF CallInv

\* The request of a call a program makes.
LEMMA CallRequest ==
  ASSUME NEW op \in Ops, NEW v \in Pointers \cup {0}, NEW n \in Nat, Called(op, v, n)
  PROVE  req' \in ReqRec /\ req'.op = op /\ req'.ptr = v /\ req'.count = n
BY DEF Called, ReqRec
\* A file's contents are as many bytes as its size says.
LEMMA ContentsType ==
  ASSUME FsInv, NEW i \in DOMAIN files
  PROVE  /\ Contents(i) \in Seq(Byte) /\ Len(Contents(i)) = files[i].size
         /\ files[i].size \in Nat
         /\ \A k \in 1..files[i].size : Contents(i)[k] = pool[files[i].data + k - 1]
<1>1. /\ files \in Seq(FileRec) /\ pool \in Pool /\ mem_used \in Nat /\ mem_used <= PoolSize
      /\ Packed(files, mem_used)
  BY FsTypesSame, LimitsAssumption DEF FsInv, FsTypes
<1>2. files[i].data = Null => files[i].size = 0
  BY DEF FsInv
<1>3. /\ BytesOf(files[i], pool) \in Seq(Byte) /\ Len(BytesOf(files[i], pool)) = files[i].size
      /\ files[i].size \in Nat
      /\ \A k \in 1..files[i].size : BytesOf(files[i], pool)[k] = pool[files[i].data + k - 1]
  BY <1>1, <1>2, BytesType
<1>. QED  BY <1>3 DEF Contents

\* What fs_read copies out is what follows, as much as was asked for and there is.
LEMMA ReadPiece ==
  ASSUME FsInv, NEW i \in DOMAIN files, NEW off \in Nat, NEW len \in Nat
  PROVE  LET bytes == fs_read(files[i], off, len) IN
         /\ bytes \in Seq(Byte) /\ Len(bytes) \in Nat /\ Len(bytes) <= len
         /\ off <= files[i].size =>
              /\ off + Len(bytes) <= files[i].size
              /\ SubSeq(Contents(i), 1, off) \o bytes = SubSeq(Contents(i), 1, off + Len(bytes))
<1> DEFINE f == files[i]
           c == Contents(i)
           n == IF f.size - off > len THEN len ELSE f.size - off
           bytes == fs_read(f, off, len)
<1>1. /\ c \in Seq(Byte) /\ Len(c) = f.size /\ f.size \in Nat
      /\ \A k \in 1..f.size : c[k] = pool[f.data + k - 1]
  BY ContentsType
<1>2. f.data \in Int
  <2>1. FsTypes
    BY FsTypesSame DEF FsInv
  <2>2. f \in FileRec
    BY <2>1 DEF FsTypes
  <2>. QED  BY <2>2, FileFields
<1>. HIDE DEF c
<1>3. CASE off >= f.size \/ f.data = Null
  <2>1. bytes = <<>>
    BY <1>3 DEF fs_read
  <2>. HIDE DEF bytes
  <2>2. bytes \in Seq(Byte) /\ Len(bytes) = 0
    BY <2>1
  <2>3. off <= f.size => SubSeq(c, 1, off) \o bytes = SubSeq(c, 1, off + Len(bytes))
    <3>. HIDE DEF f
    <3>1. off <= f.size => SubSeq(c, 1, off) \in Seq(Byte)
      BY <1>1, SubSequence
    <3>2. \A s \in Seq(Byte) : s \o <<>> = s
      OBVIOUS
    <3>3. off + Len(bytes) = off
      BY <2>2
    <3>. QED  BY <2>1, <3>1, <3>2, <3>3
  <2>4. off <= f.size => off + Len(bytes) <= f.size
    BY <1>1, <2>2
  <2>. QED  BY <2>2, <2>3, <2>4 DEF c, bytes
<1>4. CASE ~ (off >= f.size \/ f.data = Null)
  <2>1. bytes = [k \in 1..n |-> pool[f.data + off + k - 1]]
    BY <1>4 DEF fs_read
  <2>2. n \in Nat /\ n <= len /\ off + n <= f.size /\ off < f.size
    BY <1>1, <1>4
  <2>. HIDE DEF n, bytes
  <2>3. \A k \in 1..n : off + k \in 1..f.size /\ f.data + off + k - 1 = f.data + (off + k) - 1
    BY <1>1, <1>2, <2>2, SMTT(30)
  <2>4. \A k \in 1..n : pool[f.data + off + k - 1] = c[off + k]
    BY <1>1, <2>3
  <2>5. bytes = [k \in 1..n |-> c[off + k]]
    BY <2>1, <2>4
  <2>6. \A k \in 1..n : c[off + k] \in Byte
    BY <1>1, <2>3
  <2>7. bytes \in [1..n -> Byte]
    BY <2>5, <2>6
  <2>8. bytes \in Seq(Byte) /\ Len(bytes) = n /\ \A k \in 1..n : bytes[k] = c[off + k]
    BY <2>2, <2>5, <2>7, FunctionIsSequence
  <2>9. SubSeq(c, 1, off) \o bytes = SubSeq(c, 1, off + n)
    <3> DEFINE a == SubSeq(c, 1, off)
               b == SubSeq(c, 1, off + n)
    <3>1. off + n \in Nat /\ off <= f.size /\ 1 <= off + 1 /\ 1 <= (off + n) + 1
          /\ off + 1 - 1 = off /\ (off + n) + 1 - 1 = off + n
      BY <1>1, <2>2
    <3>2. a \in Seq(Byte) /\ Len(a) = off /\ \A k \in 1..off : a[k] = c[k]
      <4>1. a \in Seq(Byte)
        BY <1>1, <3>1, SubSequence
      <4>2. /\ Len(a) = off + 1 - 1
            /\ \A k \in 1..(off + 1 - 1) : a[k] = c[1 + k - 1]
        BY <1>1, <3>1, SubSequencePlaces
      <4>. QED  BY <3>1, <4>1, <4>2
    <3>3. b \in Seq(Byte) /\ Len(b) = off + n /\ \A k \in 1..(off + n) : b[k] = c[k]
      <4>1. b \in Seq(Byte)
        BY <1>1, <2>2, <3>1, SubSequence
      <4>2. /\ Len(b) = (off + n) + 1 - 1
            /\ \A k \in 1..((off + n) + 1 - 1) : b[k] = c[1 + k - 1]
        BY <1>1, <2>2, <3>1, SubSequencePlaces
      <4>. QED  BY <3>1, <4>1, <4>2
    <3>. HIDE DEF a, b
    <3>4. /\ a \o bytes \in Seq(Byte) /\ Len(a \o bytes) = off + n
          /\ \A k \in 1..(off + n) : (a \o bytes)[k] = IF k <= off THEN a[k] ELSE bytes[k - off]
      <4>1. /\ a \o bytes \in Seq(Byte) /\ Len(a \o bytes) = Len(a) + Len(bytes)
            /\ \A k \in 1..(Len(a) + Len(bytes)) :
                 (a \o bytes)[k] = IF k <= Len(a) THEN a[k] ELSE bytes[k - Len(a)]
        BY <2>8, <3>2, Joined
      <4>2. Len(a) = off /\ Len(bytes) = n
        BY <2>8, <3>2
      <4>. QED  BY <4>1, <4>2
    <3>5. \A k \in 1..(off + n) : (a \o bytes)[k] = b[k]
      <4>1. \A k \in 1..(off + n) : k > off => k - off \in 1..n /\ off + (k - off) = k
        BY <2>2
      <4>2. \A k \in 1..(off + n) : k <= off => k \in 1..off
        BY <2>2
      <4>. QED  BY <2>2, <2>8, <3>2, <3>3, <3>4, <4>1, <4>2
    <3>6. a \o bytes = b
      BY <3>3, <3>4, <3>5, SameSequence
    <3>. QED  BY <3>6 DEF a, b
  <2>. QED  BY <2>2, <2>8, <2>9 DEF c, bytes
<1>. QED  BY <1>3, <1>4
-----------------------------------------------------------------------------
\* What each step does to the call: it goes on, or it ends within its bounds.
LEMMA CallRests ==
  ASSUME CallInv, UNCHANGED <<kbuf, calls>>, pc' \in {"boot", "shell", "user"}
  PROVE  CallInv'
<1>1. UNCHANGED <<kbuf, req, touched, ret>>
  BY DEF calls
<1>. QED  BY <1>1 DEF CallInv, PCs

LEMMA NewFdType ==
  /\ NewFd \in Int
  /\ NewFd # 0 - 1 => NewFd \in Fds /\ ~ fd_table[NewFd].used
<1> DEFINE free == {d \in Fds : ~ fd_table[d].used}
<1>1. CASE free = {}
  BY <1>1 DEF NewFd
<1>2. CASE free # {}
  <2>1. free \subseteq Nat
    BY SyscallsAssumption DEF Fds
  <2>2. \E m \in free : \A x \in free : m <= x
    BY <1>2, <2>1, LeastNat
  <2>3. NewFd = CHOOSE d \in free : \A e \in free : d <= e
    BY <1>2 DEF NewFd
  <2>4. NewFd \in free
    BY <2>2, <2>3
  <2>. QED  BY <2>1, <2>4
<1>. QED  BY <1>1, <1>2

LEMMA ArgumentTypes ==
  /\ \A v \in Pointers : v \in Pointers \cup {0}
  /\ \A n \in Counts : n \in Nat
  /\ \A n \in Names : Len(n) + 1 \in Nat
  /\ PathCopy \in Nat /\ DirentSize \in Nat /\ MaxIO \in Nat \ {0}
  /\ 0 \in Nat /\ 0 \in Pointers \cup {0}
<1>1. \A n \in Names : Len(n) + 1 \in Nat
  <2>1. \A n \in Names : n \in Text
    BY LimitsAssumption DEF Text
  <2>2. \A n \in Text : Len(n) + 1 \in Nat
    BY DEF Text
  <2>. QED  BY <2>1, <2>2
<1>2. \A n \in Counts : n \in Nat
  BY SyscallsAssumption
<1>3. PathCopy \in Nat /\ DirentSize \in Nat /\ MaxIO \in Nat \ {0}
  BY SyscallsAssumption
<1>. QED  BY <1>1, <1>2, <1>3

\* A call that touches nothing.
LEMMA CallGives ==
  ASSUME CallInv, req' \in ReqRec, NEW r \in Int, Gives(r), UNCHANGED kbuf
  PROVE  CallInv'
<1>1. ret' \in Int /\ kbuf' \in Seq(Nat) /\ pc' = "user" /\ touched' = {}
  BY DEF CallInv, Gives, Returns
<1>2. 0 <= Limit(req')
  BY ArgumentTypes DEF Limit, ReqRec
<1>3. Ended(req'.ptr, 0, Pages(req'))
  BY <1>1 DEF Ended
<1>. QED  BY <1>1, <1>2, <1>3, CallEnds

LEMMA OpenCall ==
  ASSUME CallInv, NEW v \in Pointers, NEW n \in Names, sys_open(v, n)
  PROVE  CallInv'
<1>1. req' \in ReqRec /\ req'.op = "open" /\ req'.ptr = v
  <2>1. Called("open", v, Len(n) + 1) /\ "open" \in Ops
    BY DEF sys_open, Ops
  <2>. QED  BY <2>1, ArgumentTypes, CallRequest
<1>2. kbuf' = kbuf
  BY DEF sys_open
<1>3. NewFd \in Int
  BY NewFdType
<1>4. CASE Gives(-1)
  BY <1>1, <1>2, <1>4, CallGives
<1>5. CASE ~ Gives(-1)
  <2>1. \/ Copies(v, PathCopy, Mapped) /\ (Returns(-1) \/ Returns(NewFd))
        \/ CopyFaults(v, PathCopy, Mapped) /\ UNCHANGED ret
    BY <1>5 DEF sys_open
  <2>2. ret' \in Int /\ kbuf' \in Seq(Nat)
    BY <1>2, <1>3, <2>1 DEF Returns, CallInv
  <2>3. Ended(v, PathCopy, Mapped)
    BY <2>1 DEF Ended, Returns
  <2>4. Limit(req') = PathCopy /\ Pages(req') = Mapped
    BY <1>1 DEF Limit, Pages
  <2>5. PathCopy \in Nat /\ PathCopy <= PathCopy
    BY ArgumentTypes
  <2>. QED  BY <1>1, <2>2, <2>3, <2>4, <2>5, CallEnds
<1>. QED  BY <1>4, <1>5

\* Of n bytes that a program gives room for, no more than n are copied.
LEMMA SmallerType ==
  ASSUME NEW a \in Nat, NEW b \in Nat
  PROVE  Smaller(a, b) \in Nat /\ Smaller(a, b) <= a /\ Smaller(a, b) <= b
BY DEF Smaller

LEMMA ReadFileCall ==
  ASSUME FsInv, CallInv, FdInv, NEW d \in Fds, NEW v \in Pointers, NEW n \in Counts,
         ReadFile(d, v, n)
  PROVE  CallInv'
<1> DEFINE bytes == fs_read(files[fd_table[d].file], fd_table[d].position, Smaller(n, MaxIO))
<1>1. req' \in ReqRec /\ req'.op = "read" /\ req'.ptr = v /\ req'.count = n
  <2>1. Called("read", v, n) /\ "read" \in Ops
    BY DEF ReadFile, Ops
  <2>. QED  BY <2>1, ArgumentTypes, CallRequest
<1>2. kbuf' = kbuf
  BY DEF ReadFile
<1>3. bytes \in Seq(Byte) /\ Len(bytes) \in Nat /\ Len(bytes) <= n
  <2>1. n \in Nat /\ Smaller(n, MaxIO) \in Nat /\ Smaller(n, MaxIO) <= n
    BY ArgumentTypes, SmallerType
  <2>2. fd_table[d].file \in DOMAIN files /\ fd_table[d].position \in Nat
    BY DEF FdInv, Reads, ReadFile, InUse, FdRec
  <2>3. bytes \in Seq(Byte) /\ Len(bytes) \in Nat /\ Len(bytes) <= Smaller(n, MaxIO)
    BY <2>1, <2>2, ReadPiece
  <2>. HIDE DEF bytes
  <2>. QED  BY <2>1, <2>3
<1>4. \/ Gives(0) \/ Gives(-1)
      \/ Copies(v, Len(bytes), Writable) /\ Returns(Len(bytes))
      \/ CopyFaults(v, Len(bytes), Writable) /\ UNCHANGED ret
  BY DEF ReadFile
<1>. HIDE DEF bytes
<1>5. CASE Gives(0) \/ Gives(-1)
  BY <1>1, <1>2, <1>5, CallGives
<1>6. CASE ~ (Gives(0) \/ Gives(-1))
  <2>1. ret' \in Int /\ kbuf' \in Seq(Nat)
    BY <1>2, <1>3, <1>4, <1>6 DEF Returns, CallInv
  <2>2. Ended(v, Len(bytes), Writable)
    BY <1>4, <1>6 DEF Ended, Returns
  <2>3. Limit(req') = n /\ Pages(req') = Writable
    BY <1>1 DEF Limit, Pages
  <2>. QED  BY <1>1, <1>3, <2>1, <2>2, <2>3, CallEnds
<1>. QED  BY <1>5, <1>6

LEMMA ReadStdinCall ==
  ASSUME CallInv, NEW v \in Pointers, NEW n \in Counts, ReadStdin(v, n)
  PROVE  CallInv'
<1>1. req' \in ReqRec /\ req'.op = "read" /\ req'.ptr = v /\ req'.count = n
  <2>1. Called("read", v, n) /\ "read" \in Ops
    BY DEF ReadStdin, Ops
  <2>. QED  BY <2>1, ArgumentTypes, CallRequest
<1>2. pc' = "stdin" /\ kbuf' = <<>> /\ touched' = {} /\ ret' = ret /\ n # 0
  BY DEF ReadStdin
<1>3. kbuf' \in Seq(Nat) /\ Len(kbuf') = 0
  BY <1>2
<1>4. 0 < MaxIO /\ 0 < n
  BY <1>2, ArgumentTypes
<1>. QED  BY <1>1, <1>2, <1>3, <1>4 DEF CallInv, PCs

LEMMA ReadKeyCall ==
  ASSUME CallInv, NEW c \in Keys, ReadKey(c)
  PROVE  CallInv'
<1> DEFINE line == Append(kbuf, IF c = CR THEN NL ELSE c)
<1>1. /\ pc = "stdin" /\ req' = req /\ req \in ReqRec /\ req.op = "read"
      /\ kbuf \in Seq(Nat) /\ Len(kbuf) \in Nat /\ Len(kbuf) < MaxIO /\ Len(kbuf) < req.count
      /\ req.count \in Nat /\ MaxIO \in Nat
  BY ArgumentTypes DEF CallInv, ReadKey, ReqRec
<1>2. line \in Seq(Nat) /\ Len(line) = Len(kbuf) + 1
  <2>1. (IF c = CR THEN NL ELSE c) \in Nat
    BY SyscallsAssumption DEF NL
  <2>. QED  BY <1>1, <2>1, Appending
<1>3. \/ UNCHANGED <<pc, kbuf, touched, ret>>
      \/ ~ LineEnds(line) /\ kbuf' = line /\ UNCHANGED <<pc, touched, ret>>
      \/ /\ kbuf' = <<>>
         /\ \/ Gives(-1)
            \/ Copies(req.ptr, Len(line), Writable) /\ Returns(Len(line))
            \/ CopyFaults(req.ptr, Len(line), Writable) /\ UNCHANGED ret
  BY DEF ReadKey
<1>. HIDE DEF line
<1>4. Len(line) \in Nat /\ Len(line) <= req.count
  BY <1>1, <1>2
<1>5. CASE UNCHANGED <<pc, kbuf, touched, ret>>
  BY <1>1, <1>5 DEF CallInv
<1>6. CASE ~ LineEnds(line) /\ kbuf' = line /\ UNCHANGED <<pc, touched, ret>>
  <2>1. Len(line) < MaxIO /\ Len(line) < req.count
    BY <1>1, <1>4, <1>6 DEF LineEnds, Smaller
  <2>. QED  BY <1>1, <1>2, <1>6, <2>1 DEF CallInv
<1>7. CASE /\ kbuf' = <<>>
           /\ \/ Gives(-1)
              \/ Copies(req.ptr, Len(line), Writable) /\ Returns(Len(line))
              \/ CopyFaults(req.ptr, Len(line), Writable) /\ UNCHANGED ret
  <2>1. ret' \in Int /\ kbuf' \in Seq(Nat)
    BY <1>4, <1>7 DEF Gives, Returns, CallInv
  <2>2. Ended(req.ptr, Len(line), Writable)
    BY <1>7 DEF Ended, Gives, Returns
  <2>3. Limit(req) = req.count /\ Pages(req) = Writable
    BY <1>1 DEF Limit, Pages
  <2>. QED  BY <1>1, <1>4, <2>1, <2>2, <2>3, CallEnds
<1>. QED  BY <1>3, <1>5, <1>6, <1>7

LEMMA WriteCall ==
  ASSUME CallInv, NEW v \in Pointers, NEW n \in Counts, WriteTerminal(v, n)
  PROVE  CallInv'
<1> DEFINE s == Smaller(n, MaxIO)
<1>1. req' \in ReqRec /\ req'.op = "write" /\ req'.ptr = v /\ req'.count = n
  <2>1. Called("write", v, n) /\ "write" \in Ops
    BY DEF WriteTerminal, Ops
  <2>. QED  BY <2>1, ArgumentTypes, CallRequest
<1>2. s \in Nat /\ s <= n
  BY ArgumentTypes, SmallerType
<1>3. /\ kbuf' = kbuf
      /\ \/ Gives(-1)
         \/ Copies(v, s, Mapped) /\ Returns(s)
         \/ CopyFaults(v, s, Mapped) /\ UNCHANGED ret
  BY DEF WriteTerminal
<1>. HIDE DEF s
<1>4. ret' \in Int /\ kbuf' \in Seq(Nat)
  BY <1>2, <1>3 DEF Gives, Returns, CallInv
<1>5. Ended(v, s, Mapped)
  BY <1>3 DEF Ended, Gives, Returns
<1>6. Limit(req') = n /\ Pages(req') = Mapped
  BY <1>1 DEF Limit, Pages
<1>. QED  BY <1>1, <1>2, <1>4, <1>5, <1>6, CallEnds

LEMMA ReaddirCall ==
  ASSUME CallInv, NEW i, NEW v \in Pointers, NEW n \in Counts, sys_readdir(i, v, n)
  PROVE  CallInv'
<1>1. req' \in ReqRec /\ req'.op = "readdir" /\ req'.ptr = v /\ req'.count = n
  <2>1. Called("readdir", v, n) /\ "readdir" \in Ops
    BY DEF sys_readdir, Ops
  <2>. QED  BY <2>1, ArgumentTypes, CallRequest
<1>2. /\ kbuf' = kbuf
      /\ \/ Gives(-1) \/ Gives(0)
         \/ n >= DirentSize /\ Copies(v, DirentSize, Writable) /\ Returns(1)
         \/ n >= DirentSize /\ CopyFaults(v, DirentSize, Writable) /\ UNCHANGED ret
  BY DEF sys_readdir
<1>3. CASE Gives(-1) \/ Gives(0)
  BY <1>1, <1>2, <1>3, CallGives
<1>4. CASE ~ (Gives(-1) \/ Gives(0))
  <2>1. ret' \in Int /\ kbuf' \in Seq(Nat)
    BY <1>2, <1>4 DEF Returns, CallInv
  <2>2. Ended(v, DirentSize, Writable)
    BY <1>2, <1>4 DEF Ended, Returns
  <2>3. Limit(req') = n /\ Pages(req') = Writable
    BY <1>1 DEF Limit, Pages
  <2>4. DirentSize \in Nat /\ DirentSize <= n
    BY <1>2, <1>4, ArgumentTypes
  <2>. QED  BY <1>1, <2>1, <2>2, <2>3, <2>4, CallEnds
<1>. QED  BY <1>3, <1>4

\* Calls that only say something.
LEMMA OtherCalls ==
  ASSUME CallInv,
         \/ sys_exit \/ BadNumber \/ \E d \in 0..MAX_FDS : sys_close(d)
         \/ \E v \in Pointers, n \in Counts : Refused(v, n)
  PROVE  CallInv'
<1>1. kbuf' = kbuf /\ (Gives(-1) \/ Gives(0))
  BY DEF sys_exit, BadNumber, sys_close, Refused
<1>2. req' \in ReqRec
  <2>1. {"exit", "bad", "close", "refused"} \subseteq Ops
    BY DEF Ops
  <2>2. \/ \E op \in Ops : Called(op, 0, 0)
        \/ \E v \in Pointers, n \in Counts : Called("refused", v, n)
    BY <2>1 DEF sys_exit, BadNumber, sys_close, Refused
  <2>. QED  BY <2>1, <2>2, ArgumentTypes, CallRequest
<1>. QED  BY <1>1, <1>2, CallGives

LEMMA CallStep == ASSUME SysInv, Next PROVE CallInv'
<1>0. FsInv /\ CallInv /\ FdInv
  BY DEF SysInv
<1>1. CASE BootStep \/ ProgramStarts \/ ProgramEnds \/ ShellCommand
  <2>1. UNCHANGED <<kbuf, calls>> /\ pc' \in {"boot", "shell", "user"}
    BY <1>1 DEF BootStep, ProgramStarts, ProgramEnds, ShellCommand
  <2>. QED  BY <1>0, <2>1, CallRests
<1>2. CASE sys_exit \/ BadNumber \/ \E d \in 0..MAX_FDS : sys_close(d)
  BY <1>0, <1>2, OtherCalls
<1>3. ASSUME NEW v \in Pointers, NEW n \in Names, sys_open(v, n) PROVE CallInv'
  BY <1>0, <1>3, OpenCall
<1>4. ASSUME NEW v \in Pointers, NEW n \in Counts,
             \/ \E d \in Fds : ReadFile(d, v, n)
             \/ ReadStdin(v, n)
             \/ WriteTerminal(v, n)
             \/ Refused(v, n)
             \/ \E i \in 0..FS_MAX_FILES : sys_readdir(i, v, n)
      PROVE  CallInv'
  BY <1>0, <1>4, ReadFileCall, ReadStdinCall, WriteCall, OtherCalls, ReaddirCall
<1>5. ASSUME NEW c \in Keys, ReadKey(c) PROVE CallInv'
  BY <1>0, <1>5, ReadKeyCall
<1>. QED  BY <1>1, <1>2, <1>3, <1>4, <1>5 DEF Next
-----------------------------------------------------------------------------
\* Once the kernel is up, no step of it or of a program changes what a file holds.
SameFiles ==
  /\ stage' = stage /\ pool' = pool /\ DOMAIN files' = DOMAIN files
  /\ \A i \in DOMAIN files : files'[i].data = files[i].data /\ files'[i].size = files[i].size

LEMMA FilesStay ==
  ASSUME FsInv, Next, pc # "boot"
  PROVE  SameFiles /\ [FsNext]_fsvars /\ pc' # "boot"
<1>1. pc' # "boot"
  <2>1. CASE \E v \in Pointers, n \in Names : sys_open(v, n)
    BY <2>1 DEF sys_open, Gives, Returns, CopyFaults
  <2>2. ASSUME NEW v \in Pointers, NEW n \in Counts,
               \/ \E d \in Fds : ReadFile(d, v, n)
               \/ ReadStdin(v, n)
               \/ WriteTerminal(v, n)
               \/ Refused(v, n)
               \/ \E i \in 0..FS_MAX_FILES : sys_readdir(i, v, n)
        PROVE  pc' # "boot"
    <3>1. CASE \E d \in Fds : ReadFile(d, v, n)
      BY <3>1 DEF ReadFile, Gives, Returns, CopyFaults
    <3>2. CASE ReadStdin(v, n) \/ WriteTerminal(v, n) \/ Refused(v, n)
      BY <3>2 DEF ReadStdin, WriteTerminal, Refused, Gives, Returns, CopyFaults
    <3>3. CASE \E i \in 0..FS_MAX_FILES : sys_readdir(i, v, n)
      BY <3>3 DEF sys_readdir, Gives, Returns, CopyFaults
    <3>. QED  BY <2>2, <3>1, <3>2, <3>3
  <2>3. CASE \E c \in Keys : ReadKey(c)
    BY <2>3 DEF ReadKey, Gives, Returns, CopyFaults
  <2>4. CASE \/ sys_exit \/ BadNumber \/ ProgramStarts \/ ProgramEnds \/ ShellCommand
             \/ \E d \in 0..MAX_FDS : sys_close(d)
    BY <2>4 DEF sys_exit, BadNumber, ProgramStarts, ProgramEnds, ShellCommand, sys_close,
                Gives, Returns
  <2>. QED  BY <2>1, <2>2, <2>3, <2>4 DEF Next, BootStep
<1>2. CASE UNCHANGED fsvars
  <2>1. UNCHANGED <<stage, pool, files>>
    BY <1>2 DEF fsvars, boot, mem
  <2>2. SameFiles
    BY <2>1 DEF SameFiles
  <2>. QED  BY <1>1, <1>2, <2>2
<1>3. CASE ShellCommand
  <2>1. FsNext
    BY <1>3 DEF ShellCommand, FsNext
  <2>2. ASSUME NEW n \in Names, fs_change_dir(n) PROVE SameFiles
    BY <2>2 DEF SameFiles, fs_change_dir, boot, mem
  <2>3. ASSUME NEW n \in Names, NEW m \in Modes, fs_chmod(n, m) PROVE SameFiles
    <3>1. /\ files' = [files EXCEPT ![fs_open(n)].mode = m]
          /\ stage' = stage /\ pool' = pool
      BY <2>3 DEF fs_chmod, boot, mem
    <3> DEFINE k == fs_open(n)
    <3>. HIDE DEF k
    <3>2. files' = [files EXCEPT ![k] = [files[k] EXCEPT !.mode = m]]
      BY <3>1 DEF k
    <3>3. \A i \in DOMAIN files : files[i] \in FileRec
      BY FsTypesSame DEF FsInv, FsTypes
    <3>4. \A f \in FileRec : /\ [f EXCEPT !.mode = m].data = f.data
                             /\ [f EXCEPT !.mode = m].size = f.size
      BY DEF FileRec
    <3>5. DOMAIN files' = DOMAIN files
      BY <3>2
    <3>6. \A i \in DOMAIN files : files'[i] \in {files[i], [files[i] EXCEPT !.mode = m]}
      BY <3>2
    <3>. QED  BY <3>1, <3>3, <3>4, <3>5, <3>6 DEF SameFiles
  <2>. QED  BY <1>1, <1>3, <2>1, <2>2, <2>3 DEF ShellCommand
<1>4. UNCHANGED fsvars \/ ShellCommand
  BY ZenonT(40) DEF Next, BootStep, ProgramStarts, ProgramEnds, sys_exit, BadNumber, sys_open, ReadFile,
         ReadStdin, WriteTerminal, Refused, sys_readdir, sys_close, ReadKey
<1>. QED  BY <1>2, <1>3, <1>4, <1>1

LEMMA ReadsKept ==
  ASSUME SameFiles, NEW d, Reads(fd_table[d], got[d]),
         fd_table'[d] = fd_table[d], got'[d] = got[d]
  PROVE  Reads(fd_table[d], got[d])'
<1>1. \A i \in DOMAIN files : Contents(i)' = Contents(i)
  BY DEF SameFiles, Contents, BytesOf
<1>. QED  BY <1>1 DEF SameFiles, Reads

\* The descriptors after a step that changes at most one of them.
LEMMA OneDescriptor ==
  ASSUME FdInv, SameFiles, pc' # "boot", NEW d \in Fds, NEW f \in FdRec, NEW g \in Seq(Byte),
         fd_table' = [fd_table EXCEPT ![d] = f], got' = [got EXCEPT ![d] = g],
         Reads(f, g)
  PROVE  FdInv'
<1>1. fd_table' \in [Fds -> FdRec] /\ got' \in [Fds -> Seq(Byte)]
  BY DEF FdInv
<1>2. ASSUME NEW e \in Fds PROVE Reads(fd_table[e], got[e])'
  <2>1. CASE e # d
    <3>1. fd_table'[e] = fd_table[e] /\ got'[e] = got[e] /\ Reads(fd_table[e], got[e])
      BY <2>1 DEF FdInv
    <3>. QED  BY <3>1, ReadsKept
  <2>2. CASE e = d
    <3>1. fd_table'[e] = f /\ got'[e] = g
      BY <2>2 DEF FdInv
    <3>2. \A i \in DOMAIN files : Contents(i)' = Contents(i)
      BY DEF SameFiles, Contents, BytesOf
    <3>. QED  BY <3>1, <3>2 DEF SameFiles, Reads
  <2>. QED  BY <2>1, <2>2
<1>. QED  BY <1>1, <1>2 DEF FdInv

LEMMA NoDescriptor ==
  ASSUME FdInv, SameFiles, pc' # "boot", UNCHANGED <<fd_table, got>>
  PROVE  FdInv'
<1>1. \A d \in Fds : Reads(fd_table[d], got[d])'
  BY ReadsKept DEF FdInv
<1>. QED  BY <1>1 DEF FdInv

LEMMA OpenStep ==
  ASSUME FsInv, FdInv, SameFiles, pc' # "boot", NEW v, NEW n, sys_open(v, n)
  PROVE  FdInv'
<1>1. CASE UNCHANGED <<fd_table, got>>
  BY <1>1, NoDescriptor
<1>2. CASE ~ UNCHANGED <<fd_table, got>>
  <2>1. /\ NewFd # -1 /\ fs_open(n) # 0
        /\ fd_table' = Opened(fs_open(n)) /\ got' = [got EXCEPT ![NewFd] = <<>>]
    BY <1>2 DEF sys_open
  <2>2. NewFd \in Fds
    <3>1. \A x \in Int : x # -1 => x # 0 - 1
      OBVIOUS
    <3>. QED  BY <2>1, <3>1, NewFdType
  <2>3. FsTypes
    BY FsTypesSame DEF FsInv
  <2>4. fs_open(n) \in DOMAIN files
    BY <2>1, <2>3, OpenFinds
  <2> DEFINE i == fs_open(n)
             f == [file |-> i, position |-> 0, used |-> TRUE]
  <2>5. /\ Contents(i) \in Seq(Byte) /\ Len(Contents(i)) = files[i].size /\ files[i].size \in Nat
    BY <2>4, ContentsType
  <2>6. i \in Nat
    BY <2>3, <2>4 DEF FsTypes
  <2>. HIDE DEF i
  <2>7. \A s \in Seq(Byte) : SubSeq(s, 1, 0) = <<>>
    OBVIOUS
  <2>8. Reads(f, <<>>)
    BY <2>4, <2>5, <2>7 DEF Reads, i
  <2>9. fd_table' = [fd_table EXCEPT ![NewFd] = f]
    BY <2>1 DEF Opened, i
  <2>10. f \in FdRec /\ <<>> \in Seq(Byte)
    BY <2>6 DEF FdRec
  <2>. HIDE DEF f
  <2>. QED  BY <2>1, <2>2, <2>8, <2>9, <2>10, OneDescriptor
<1>. QED  BY <1>1, <1>2

LEMMA ReadFileStep ==
  ASSUME FsInv, FdInv, SameFiles, pc' # "boot", NEW d \in Fds, NEW v, NEW n \in Counts,
         ReadFile(d, v, n)
  PROVE  FdInv'
<1>1. CASE UNCHANGED <<fd_table, got>>
  BY <1>1, NoDescriptor
<1>2. CASE ~ UNCHANGED <<fd_table, got>>
  <2> DEFINE i == fd_table[d].file
             off == fd_table[d].position
             bytes == fs_read(files[i], off, Smaller(n, MaxIO))
             f == [fd_table[d] EXCEPT !.position = off + Len(bytes)]
             g == got[d] \o bytes
  <2>1. /\ fd_table[d].used
        /\ fd_table' = [fd_table EXCEPT ![d] = f] /\ got' = [got EXCEPT ![d] = g]
    BY <1>2 DEF ReadFile, InUse
  <2>2. /\ i \in DOMAIN files /\ off \in Nat /\ off <= files[i].size
        /\ got[d] = SubSeq(Contents(i), 1, off) /\ got[d] \in Seq(Byte)
        /\ fd_table[d] \in FdRec
    BY <2>1 DEF FdInv, Reads, FdRec
  <2>3. Smaller(n, MaxIO) \in Nat
    BY ArgumentTypes, SmallerType
  <2>. HIDE DEF i, off
  <2>4. /\ bytes \in Seq(Byte) /\ Len(bytes) \in Nat
        /\ off + Len(bytes) <= files[i].size
        /\ SubSeq(Contents(i), 1, off) \o bytes = SubSeq(Contents(i), 1, off + Len(bytes))
    BY <2>2, <2>3, ReadPiece
  <2>. HIDE DEF bytes
  <2>5. g \in Seq(Byte)
    BY <2>2, <2>4, Joined
  <2>6. f \in FdRec /\ f.used /\ f.file = i /\ f.position = off + Len(bytes)
    <3>1. off + Len(bytes) \in Nat
      BY <2>2, <2>4
    <3>. QED  BY <2>1, <2>2, <3>1 DEF FdRec, i
  <2>. HIDE DEF f
  <2>7. Reads(f, g)
    BY <2>2, <2>4, <2>6 DEF Reads
  <2>. HIDE DEF g
  <2>. QED  BY <2>1, <2>5, <2>6, <2>7, OneDescriptor
<1>. QED  BY <1>1, <1>2

LEMMA CloseStep ==
  ASSUME FdInv, SameFiles, pc' # "boot", NEW d, sys_close(d)
  PROVE  FdInv'
<1>1. CASE UNCHANGED <<fd_table, got>>
  BY <1>1, NoDescriptor
<1>2. CASE ~ UNCHANGED <<fd_table, got>>
  <2>1. d \in Fds /\ fd_table' = [fd_table EXCEPT ![d] = Free] /\ got' = [got EXCEPT ![d] = <<>>]
    BY <1>2 DEF sys_close, InUse
  <2>2. Free \in FdRec /\ <<>> \in Seq(Byte) /\ Reads(Free, <<>>)
    BY DEF Free, FdRec, Reads
  <2>. QED  BY <2>1, <2>2, OneDescriptor
<1>. QED  BY <1>1, <1>2

LEMMA FdStep == ASSUME SysInv, Next PROVE FdInv'
<1>0. FsInv /\ FdInv
  BY DEF SysInv
<1>1. CASE pc = "boot"
  <2>1. BootStep
    BY <1>1 DEF Next, ProgramStarts, ProgramEnds, ShellCommand, sys_exit, BadNumber, sys_open,
             ReadFile, ReadStdin, WriteTerminal, Refused, sys_readdir, sys_close, ReadKey, Called
  <2>2. UNCHANGED <<fd_table, got>> /\ \A d \in Fds : fd_table[d] = Free
    BY <1>0, <1>1, <2>1 DEF BootStep, FdInv
  <2>3. \A d \in Fds : Reads(fd_table[d], got[d])'
    BY <2>2 DEF Reads, Free
  <2>. QED  BY <1>0, <2>2, <2>3 DEF FdInv
<1>2. CASE pc # "boot"
  <2>1. SameFiles /\ pc' # "boot"
    BY <1>0, <1>2, FilesStay
  <2>2. CASE \E v \in Pointers, n \in Names : sys_open(v, n)
    BY <1>0, <2>1, <2>2, OpenStep
  <2>3. CASE \E v \in Pointers, n \in Counts : \E d \in Fds : ReadFile(d, v, n)
    BY <1>0, <2>1, <2>3, ReadFileStep
  <2>4. CASE \E d \in 0..MAX_FDS : sys_close(d)
    BY <1>0, <2>1, <2>4, CloseStep
  <2>5. CASE UNCHANGED <<fd_table, got>>
    BY <1>0, <2>1, <2>5, NoDescriptor
  <2>6. \/ UNCHANGED <<fd_table, got>>
        \/ \E v \in Pointers, n \in Names : sys_open(v, n)
        \/ \E v \in Pointers, n \in Counts : \E d \in Fds : ReadFile(d, v, n)
        \/ \E d \in 0..MAX_FDS : sys_close(d)
    BY <1>2 DEF Next, BootStep, ProgramStarts, ProgramEnds, ShellCommand, sys_exit, BadNumber,
             ReadStdin, WriteTerminal, Refused, sys_readdir, ReadKey
  <2>. QED  BY <2>2, <2>3, <2>4, <2>5, <2>6
<1>. QED  BY <1>1, <1>2

LEMMA SysStep == SysInv /\ [Next]_vars => SysInv'
<1> SUFFICES ASSUME SysInv, [Next]_vars PROVE SysInv'
  OBVIOUS
<1>0. FsInv /\ CallInv /\ FdInv /\ (pc = "boot" <=> stage # "up")
  BY DEF SysInv
<1>1. CASE Next
  <2>1. CallInv' /\ FdInv'
    BY <1>1, CallStep, FdStep
  <2>2. CASE pc = "boot"
    <3>1. BootStep
      BY <1>1, <2>2 DEF Next, ProgramStarts, ProgramEnds, ShellCommand, sys_exit, BadNumber,
               sys_open, ReadFile, ReadStdin, WriteTerminal, Refused, sys_readdir, sys_close,
               ReadKey, Called
    <3>2. FsInv'
      BY <1>0, <3>1, FsStep DEF BootStep, FsNext
    <3>3. pc' = "boot" <=> stage' # "up"
      BY <3>1 DEF BootStep
    <3>. QED  BY <2>1, <3>2, <3>3 DEF SysInv
  <2>3. CASE pc # "boot"
    <3>1. SameFiles /\ [FsNext]_fsvars /\ pc' # "boot"
      BY <1>0, <1>1, <2>3, FilesStay
    <3>2. FsInv'
      BY <1>0, <3>1, FsStep
    <3>3. stage' = "up"
      BY <1>0, <2>3, <3>1 DEF SameFiles
    <3>. QED  BY <2>1, <3>1, <3>2, <3>3 DEF SysInv
  <2>. QED  BY <2>2, <2>3
<1>2. CASE UNCHANGED vars
  <2>1. UNCHANGED <<fsvars, pc, fd_table, kbuf, req, touched, ret, got>>
    BY <1>2 DEF vars, calls
  <2>2. FsInv'
    BY <1>0, <2>1, FsStep
  <2>3. UNCHANGED <<stage, files, pool>>
    BY <2>1 DEF fsvars, boot, mem
  <2>4. CallInv'
    BY <1>0, <2>1 DEF CallInv
  <2>5. FdInv'
    <3>1. \A d \in Fds : Reads(fd_table[d], got[d])'
      <4>1. SameFiles
        BY <2>3 DEF SameFiles
      <4>. QED  BY <1>0, <2>1, <4>1, ReadsKept DEF FdInv
    <3>. QED  BY <1>0, <2>1, <3>1 DEF FdInv
  <2>. QED  BY <1>0, <2>1, <2>2, <2>3, <2>4, <2>5 DEF SysInv
<1>. QED  BY <1>1, <1>2

LEMMA SysInitInv == Init => SysInv
<1> SUFFICES ASSUME Init PROVE SysInv
  OBVIOUS
<1>1. FsInv /\ pc = "boot" /\ stage # "up"
  BY FsInitInv DEF Init, FsInit
<1>2. CallInv
  <2>1. req \in ReqRec
    BY DEF Init, ReqRec, Ops
  <2>. QED  BY <2>1 DEF Init, CallInv, PCs
<1>3. FdInv
  BY DEF Init, FdInv, Free, FdRec, Reads
<1>. QED  BY <1>1, <1>2, <1>3 DEF SysInv

LEMMA SysInvHolds == SysInv => ReadsInOrder /\ WithinRequest /\ KernelSurvives
<1> SUFFICES ASSUME SysInv PROVE ReadsInOrder /\ WithinRequest /\ KernelSurvives
  OBVIOUS
<1>1. TypeOK
  BY DEF SysInv, FsInv, CallInv, FdInv, TypeOK, FdRec, ReqRec, PCs
<1>2. ReadsInOrder
  BY <1>1 DEF SysInv, FdInv, Reads, ReadsInOrder
<1>3. WithinRequest
  BY DEF SysInv, CallInv, Limit, WithinRequest
<1>4. KernelSurvives
  BY DEF SysInv, CallInv, Limit, Pages, KernelSurvives
<1>. QED  BY <1>2, <1>3, <1>4

\* Whatever a program reads, opens, closes or leaves open, and however many
\* programs there were before it, sys_read through a descriptor gives the
\* file's bytes in order, each once.
THEOREM ReadsAreInOrder == Spec => []ReadsInOrder
<1>1. Init => SysInv
  BY SysInitInv
<1>2. SysInv /\ [Next]_vars => SysInv'
  BY SysStep
<1>3. SysInv => ReadsInOrder
  BY SysInvHolds
<1>. QED  BY <1>1, <1>2, <1>3, PTL DEF Spec

\* validate_user_memory and the bounds of each call keep every copy inside
\* the program's buffer and below the kernel, for every pointer and size of
\* 64 bits, and every key in the buffers it is stored in.
THEOREM CopiesStayWithin == Spec => []WithinRequest
<1>1. Init => SysInv
  BY SysInitInv
<1>2. SysInv /\ [Next]_vars => SysInv'
  BY SysStep
<1>3. SysInv => WithinRequest
  BY SysInvHolds
<1>. QED  BY <1>1, <1>2, <1>3, PTL DEF Spec

\* No call stops the machine for a buffer that the program has, for every set
\* of mapped and writable pages.
THEOREM CallsComeBack == Spec => []KernelSurvives
<1>1. Init => SysInv
  BY SysInitInv
<1>2. SysInv /\ [Next]_vars => SysInv'
  BY SysStep
<1>3. SysInv => KernelSurvives
  BY SysInvHolds
<1>. QED  BY <1>1, <1>2, <1>3, PTL DEF Spec
=============================================================================
