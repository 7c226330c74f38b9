------------------------------- MODULE RamFS --------------------------------
(***************************************************************************)
(* The file registry: initramfs.c lists the entries of the boot archive,   *)
(* fs_init (fs.c) copies them into a pool that is never given back, and    *)
(* the operations of fs.h work on the copies.  The ext2 branch of fs.c is  *)
(* not here: the archive holds no ext2 image.                              *)
(*                                                                         *)
(* A name is a sequence of characters, because fs.c cuts names and strips  *)
(* "./" from them.  A byte is a number; buffers are extents of one pool,   *)
(* so that a store outside a buffer lands where it does in memory.         *)
(***************************************************************************)
EXTENDS Integers, Sequences, FiniteSets

CONSTANTS
  Archive,         \* the entries of the cpio archive, in order
  ArchiveLen,      \* its length in bytes
  MaxListed,       \* size of initramfs.c's files[] (16)
  FS_MAX_FILES, FS_MAX_DIRS,
  NameBuf,         \* sizeof(file->name) (32)
  PoolSize,        \* sizeof(mem_pool) (64 KiB)
  NewCapacity,     \* capacity of a file that is created (256)
  Char,            \* the characters of names
  Byte,
  Modes,           \* permissions given to fs_chmod
  Names,           \* names given to fs_open and the others
  Writes           \* offsets and bytes given to fs_write

ASSUME ArchiveAssumption ==
  /\ Archive \in Seq([kind : {"entry", "trailer", "bad"},
                      name : Seq(Char), data : Seq(Byte)])
  /\ ArchiveLen \in Nat

ASSUME LimitsAssumption ==
  /\ MaxListed \in Nat /\ FS_MAX_FILES \in Nat /\ FS_MAX_DIRS \in Nat \ {0}
  /\ NameBuf \in Nat /\ NameBuf > 2
  /\ PoolSize \in Nat /\ NewCapacity \in Nat \ {0}
  /\ Byte \subseteq Nat /\ 0 \in Byte /\ {".", "/"} \subseteq Char
  /\ Modes \subseteq Nat /\ Names \subseteq Seq(Char)
  /\ Writes \subseteq Nat \X Seq(Byte)

VARIABLES
  p, listed,       \* initramfs_init: read position, entries found
  count,           \* fs_init: entries looked at
  stage,           \* "parse", "import", "up"
  pool, mem_used,  \* fs_alloc
  files, dirs, current_dir

boot == <<p, listed, count, stage>>
mem == <<pool, mem_used>>
fsvars == <<boot, mem, files, dirs, current_dir>>
-----------------------------------------------------------------------------
Align4(n) == ((n + 3) \div 4) * 4
HeaderSize == 110

\* Where the header after entry e starts, when e's header is at position q.
NextHeader(e, q) ==
  Align4(Align4(q + HeaderSize + Len(e.name) + 1) + Len(e.data))

Null == 0 - 1      \* file->data of a directory
Root == <<"/">>

\* strncpy into a buffer of NameBuf characters, and its terminator.
Cut(n) == IF Len(n) < NameBuf THEN n ELSE SubSeq(n, 1, NameBuf - 1)

Strip(n) == IF Len(n) >= 2 /\ n[1] = "." /\ n[2] = "/"
            THEN SubSeq(n, 3, Len(n)) ELSE n

IsDirName(n) == n # <<>> /\ n[Len(n)] = "/"

\* dir_name of fs_init, which is one character shorter when it is cut.
DirName(n) == IF Len(n) - 1 >= NameBuf
              THEN SubSeq(n, 1, NameBuf - 2) ELSE SubSeq(n, 1, Len(n) - 1)

FsInit ==
  /\ p = 0 /\ listed = <<>> /\ count = 0 /\ stage = "parse"
  /\ pool = [a \in 0..PoolSize |-> 0] /\ mem_used = 0
  /\ files = <<>>
  /\ dirs = << [name |-> Root, path |-> Root] >>
  /\ current_dir = Root
-----------------------------------------------------------------------------
\* initramfs_init's loop goes on: there is room for a header and for an
\* entry, and p is at an entry that ends within the archive.
Entry == Archive[Len(listed) + 1]
MoreEntries ==
  /\ p + HeaderSize < ArchiveLen /\ Len(listed) < MaxListed
  /\ Len(listed) < Len(Archive)
  /\ Entry.kind = "entry"
  /\ NextHeader(Entry, p) <= ArchiveLen

ParseEntry ==
  /\ stage = "parse" /\ MoreEntries
  /\ listed' = Append(listed, [name |-> Entry.name, data |-> Entry.data])
  /\ p' = NextHeader(Entry, p)
  /\ UNCHANGED <<count, stage, mem, files, dirs, current_dir>>

ParseStop ==
  /\ stage = "parse" /\ ~ MoreEntries
  /\ stage' = "import"
  /\ UNCHANGED <<p, listed, count, mem, files, dirs, current_dir>>

\* fs_alloc(n) succeeds with a buffer at mem_used.
Room(n) == mem_used + n <= PoolSize

File(n, d, size, capacity) ==
  [name |-> Cut(n), data |-> d, size |-> size, capacity |-> capacity,
   mode |-> 420, is_dir |-> FALSE]

Importing == stage = "import" /\ count < Len(listed) /\ Len(files) < FS_MAX_FILES
Source == listed[count + 1]

\* Mutant: fs_alloc's mark is moved before the bytes are copied.
MutImportFile ==
  /\ Importing /\ ~ IsDirName(Source.name)
  /\ LET n == Len(Source.data) IN
       /\ Room(n)
       /\ files' = Append(files, File(Source.name, mem_used, n, n))
       /\ pool' = [a \in DOMAIN pool |->
                     IF a - mem_used - n \in 0..(n - 1)
                     THEN Source.data[a - mem_used - n + 1] ELSE pool[a]]
       /\ mem_used' = mem_used + n
  /\ count' = count + 1
  /\ UNCHANGED <<p, listed, stage, dirs, current_dir>>

ImportFile ==
  /\ Importing /\ ~ IsDirName(Source.name)
  /\ LET n == Len(Source.data) IN
       /\ Room(n)
       /\ files' = Append(files, File(Source.name, mem_used, n, n))
       /\ pool' = [a \in DOMAIN pool |->
                     IF a - mem_used \in 0..(n - 1)
                     THEN Source.data[a - mem_used + 1] ELSE pool[a]]
       /\ mem_used' = mem_used + n
  /\ count' = count + 1
  /\ UNCHANGED <<p, listed, stage, dirs, current_dir>>

\* fs_create_dir(n) as fs_init calls it, in the root directory.
fs_create_dir(n) ==
  IF (\E i \in DOMAIN dirs : dirs[i].name = n) \/ Len(dirs) >= FS_MAX_DIRS
  THEN UNCHANGED <<files, dirs>>
  ELSE /\ dirs' = Append(dirs, [name |-> Cut(n), path |-> Root \o n])
       /\ files' = IF Len(files) < FS_MAX_FILES
                   THEN Append(files, [name |-> Cut(n), data |-> Null, size |-> 0,
                                       capacity |-> 0, mode |-> 0, is_dir |-> TRUE])
                   ELSE files

ImportDir ==
  /\ Importing /\ IsDirName(Source.name)
  /\ fs_create_dir(DirName(Source.name))
  /\ count' = count + 1
  /\ UNCHANGED <<p, listed, stage, mem, current_dir>>

\* The list is at its end, the registry is full, or the pool is.
ImportStop ==
  /\ stage = "import"
  /\ Importing => ~ IsDirName(Source.name) /\ ~ Room(Len(Source.data))
  /\ stage' = "up"
  /\ UNCHANGED <<p, listed, count, mem, files, dirs, current_dir>>
-----------------------------------------------------------------------------
\* Mutant: the entry keeps its "./".
MutMatchesEntry(f, n) == f.name = Cut(Strip(n))

Matches(f, n) ==
  \/ Strip(f.name) = Cut(Strip(n))
  \/ f.name = Cut(Strip(n))
  \/ f.name = n

\* The index of the file that fs_open(n) returns, or 0.
fs_open(n) ==
  LET found == {i \in DOMAIN files : Matches(files[i], n)}
  IN IF n = <<>> \/ found = {} THEN 0
     ELSE CHOOSE i \in found : \A j \in found : i <= j

\* The bytes that fs_read copies out.
fs_read(f, offset, len) ==
  IF offset >= f.size \/ f.data = Null THEN <<>>
  ELSE LET n == IF f.size - offset > len THEN len ELSE f.size - offset
       IN [k \in 1..n |-> pool[f.data + offset + k - 1]]

fs_create_file(n) ==
  /\ stage = "up"
  /\ fs_open(n) = 0
  /\ Len(files) < FS_MAX_FILES /\ Room(NewCapacity)
  /\ files' = Append(files, File(n, mem_used, 0, NewCapacity))
  /\ pool' = [pool EXCEPT ![mem_used] = 0]
  /\ mem_used' = mem_used + NewCapacity
  /\ UNCHANGED <<boot, dirs, current_dir>>

\* Mutant: a file that moves leaves its bytes behind.
MutWritten(f, grow, off, buf) ==
  LET end == off + Len(buf) IN
  [a \in DOMAIN pool |->
     LET k == a - (IF grow THEN mem_used ELSE f.data) IN
     IF k = end /\ end > f.size THEN 0
     ELSE IF k >= off /\ k < end THEN buf[k - off + 1]
     ELSE IF k >= f.size /\ k < off THEN 0
     ELSE IF grow /\ k >= 0 /\ k < 2 * end THEN 0 ELSE pool[a]]

\* The pool after fs_write stored buf at offset off of f, in its buffer or,
\* if it has to grow, in a new one that was cleared and got f's bytes.  The
\* terminator goes behind the last byte, wherever that is.
Written(f, grow, off, buf) ==
  LET end == off + Len(buf) IN
  [a \in DOMAIN pool |->
     LET k == a - (IF grow THEN mem_used ELSE f.data) IN
     IF k = end /\ end > f.size THEN 0
     ELSE IF k >= off /\ k < end THEN buf[k - off + 1]
     ELSE IF k >= f.size /\ k < off THEN 0
     ELSE IF grow /\ k >= 0 /\ k < f.size THEN pool[f.data + k]
     ELSE IF grow /\ k >= 0 /\ k < 2 * end THEN 0 ELSE pool[a]]

\* Mutant: the new buffer is twice the size, but half of it is taken.
MutWriteGrow(i, off, buf) ==
  LET f == files[i]
      end == off + Len(buf)
  IN /\ stage = "up" /\ f.data # Null
     /\ end > f.capacity /\ Room(2 * end)
     /\ pool' = Written(f, TRUE, off, buf)
     /\ files' = [files EXCEPT ![i].size = end, ![i].data = mem_used,
                               ![i].capacity = 2 * end]
     /\ mem_used' = mem_used + end
     /\ UNCHANGED <<boot, dirs, current_dir>>

\* fs_write past the capacity moves the file to a buffer of twice the size
\* it needs; without room for one it changes nothing.
WriteGrow(i, off, buf) ==
  LET f == files[i]
      end == off + Len(buf)
  IN /\ stage = "up" /\ f.data # Null
     /\ end > f.capacity /\ Room(2 * end)
     /\ pool' = Written(f, TRUE, off, buf)
     /\ files' = [files EXCEPT ![i].size = end, ![i].data = mem_used,
                               ![i].capacity = 2 * end]
     /\ mem_used' = mem_used + 2 * end
     /\ UNCHANGED <<boot, dirs, current_dir>>

WriteInPlace(i, off, buf) ==
  LET f == files[i]
      end == off + Len(buf)
  IN /\ stage = "up" /\ f.data # Null
     /\ end <= f.capacity
     /\ pool' = Written(f, FALSE, off, buf)
     /\ files' = [files EXCEPT ![i].size = IF end > @ THEN end ELSE @]
     /\ UNCHANGED <<boot, mem_used, dirs, current_dir>>

fs_chmod(n, m) ==
  /\ stage = "up"
  /\ fs_open(n) # 0
  /\ files' = [files EXCEPT ![fs_open(n)].mode = m]
  /\ UNCHANGED <<boot, mem, dirs, current_dir>>

fs_change_dir(n) ==
  /\ stage = "up"
  /\ \/ n = Root /\ current_dir' = Root
     \/ /\ n \notin {<<>>, Root}
        /\ \E i \in DOMAIN dirs :
             /\ n \in {dirs[i].name, dirs[i].path}
             /\ \A j \in 1..(i - 1) : n \notin {dirs[j].name, dirs[j].path}
             /\ current_dir' = dirs[i].path
  /\ UNCHANGED <<boot, mem, files, dirs>>
-----------------------------------------------------------------------------
Boot == ParseEntry \/ ParseStop \/ ImportFile \/ ImportDir \/ ImportStop

FsNext ==
  \/ Boot
  \/ \E n \in Names :
       fs_create_file(n) \/ fs_change_dir(n) \/ \E m \in Modes : fs_chmod(n, m)
  \/ \E i \in DOMAIN files, w \in Writes :
       WriteInPlace(i, w[1], w[2]) \/ WriteGrow(i, w[1], w[2])

FsSpec == FsInit /\ [][FsNext]_fsvars
-----------------------------------------------------------------------------
FsTypeOK ==
  /\ p \in Nat /\ listed \in Seq([name : Seq(Char), data : Seq(Byte)])
  /\ count \in 0..Len(listed) /\ stage \in {"parse", "import", "up"}
  /\ pool \in [0..PoolSize -> Byte] /\ mem_used \in 0..PoolSize
  /\ files \in Seq([name : Seq(Char), data : Int, size : Nat, capacity : Nat,
                     mode : Nat, is_dir : BOOLEAN])
  /\ dirs \in Seq([name : Seq(Char), path : Seq(Char)])
  /\ \E i \in DOMAIN dirs : dirs[i].path = current_dir

BytesOf(f, m) == [k \in 1..f.size |-> m[f.data + k - 1]]
Contents(i) == BytesOf(files[i], pool)

\* The registry stays within its tables, and no two files share a byte of
\* the pool: buffers are given out once, also when a file moves.  The shell is
\* in a directory that exists.
BuffersDisjoint ==
  /\ FsTypeOK
  /\ Len(files) <= FS_MAX_FILES /\ Len(dirs) <= FS_MAX_DIRS
  /\ \A i \in DOMAIN files :
       LET f == files[i] IN
       /\ f.is_dir <=> f.data = Null
       /\ ~ f.is_dir =>
            /\ f.data >= 0 /\ f.size <= f.capacity /\ f.data + f.capacity <= mem_used
            /\ \A j \in 1..(i - 1) :
                 files[j].is_dir \/ files[j].data + files[j].capacity <= f.data
                                 \/ f.data + f.capacity <= files[j].data

\* Every listed entry that fs_init went past is there: a file under its name
\* with the archive's bytes, a directory as a place cd can go to (unless
\* the table of directories was full).
Imported ==
  stage = "import" =>
    \A k \in 1..count :
      LET s == listed[k] IN
      IF IsDirName(s.name)
      THEN Len(dirs) = FS_MAX_DIRS \/ \E d \in DOMAIN dirs :
             /\ dirs[d].name = DirName(s.name)
             /\ dirs[d].path = IF dirs[d].name = Root THEN Root ELSE Root \o dirs[d].name
      ELSE \E i \in DOMAIN files :
             files[i].name = Cut(s.name) /\ Contents(i) = s.data

\* A file of the archive can be opened by the name it has there, and so can
\* no other: fs_open finds an entry with that name.  "x" and "./x" name the same
\* file, as the shell's search path needs, however the archive spells it.
FindsOwnName ==
  /\ \A k \in 1..count :
       LET n == listed[k].name
           i == fs_open(n)
       IN ~ IsDirName(n) => i # 0 /\ Strip(files[i].name) = Strip(n)
  /\ \A n \in Names :
       Strip(n) = n /\ n # <<>> => fs_open(n) = fs_open(<<".", "/">> \o n)

\* The bytes a reader sees are those of a list of separate files.
Files == [i \in DOMAIN files |->
            IF files[i].is_dir THEN <<>> ELSE BytesOf(files[i], pool)]
Store == INSTANCE FileStore WITH store <- Files
ImplementsFileStore == Store!Spec
-----------------------------------------------------------------------------
\* fs.h:24: capacity is what was allocated for data.  A write that stays in
\* it changes the contents of one file only.
OneFileChanges ==
  [][Cardinality({i \in DOMAIN files : BytesOf(files'[i], pool') # Contents(i)}) <= 1]_fsvars
=============================================================================
