-------------------------------- MODULE Ext2 --------------------------------
(***************************************************************************)
(* The read-only ext2 driver (ext2.c) and the branches of fs.c and          *)
(* syscall.c that reach it once an image is mounted.  An image is a         *)
(* function from inode numbers to inodes and one from block numbers to      *)
(* contents; how inodes are laid out in block groups is left out.  Paths,    *)
(* the texts of the current directory and names are sequences of characters *)
(* without their ends, since the code cuts a path wherever its buffer ends. *)
(***************************************************************************)
EXTENDS Integers, Sequences, SequencesExt

CONSTANTS
  Candidates,     \* the archive's files in order: is it a disk image's name,
                  \* does it hold the magic number of ext2
  inodes,         \* the image: inodes of mode, size, blocks, block
  Data,           \* blocks of BlockSize bytes, block 0 included
  Entries,        \* blocks of directories: sequences of name and inode
  BlockSize,
  Direct,         \* direct blocks of an inode (12)
  FS_MAX_FILES,
  FS_MAX_PATH,    \* buffer of a path, its end included (128)
  ElfHeader,      \* size of an ELF header (64)
  Chars,          \* what names and paths are made of
  Paths,          \* what cd and open are given
  Reads,          \* offsets and lengths of reads
  Fds

Inode == [mode : Nat, size : Nat, blocks : Nat, block : Seq(Nat)]

ASSUME Ext2Assumption ==
  /\ Candidates \in Seq([named : BOOLEAN, magic : BOOLEAN])
  /\ BlockSize \in Nat \ {0} /\ Direct \in Nat \ {0} /\ FS_MAX_FILES \in Nat
  /\ inodes \in Seq(Inode) /\ 2 \in DOMAIN inodes
  /\ \A n \in DOMAIN inodes : Len(inodes[n].block) >= Direct
  /\ \A b \in DOMAIN Data : Data[b] \in Seq(Nat) /\ Len(Data[b]) = BlockSize
  /\ \A b \in DOMAIN Entries : Entries[b] \in Seq([name : Seq(Chars), inode : Nat])
  /\ "/" \in Chars /\ Paths \subseteq Seq(Chars)
  /\ FS_MAX_PATH \in Nat \ {0, 1} /\ ElfHeader \in Nat
  /\ Reads \subseteq Nat \X (Nat \ {0})
  /\ Fds \subseteq Nat

VARIABLES
  scanned,        \* fs_init's loop over the files for a disk image
  active_fs,
  fs_dir,         \* fs.current_dir
  ext2_dir,       \* the driver's current_dir
  file,           \* ext2_open's static struct
  fd_table,       \* open descriptors, which all point to file; as a history,
                  \* the inode that was opened
  halted          \* the kernel faulted

vars == <<scanned, active_fs, fs_dir, ext2_dir, file, fd_table, halted>>
-----------------------------------------------------------------------------
\* EXT2_S_IFDIR is one bit of the format, which block devices and sockets
\* have as well.
IsDir(n) == n # 0 /\ (inodes[n].mode \div 16384) % 2 = 1

ext2_read_inode(n) == IF n \in DOMAIN inodes THEN n ELSE 0

\* A block's entries end at the first one without inode.
Visible(b) ==
  LET gaps == {k \in DOMAIN Entries[b] : Entries[b][k].inode = 0} IN
  IF gaps = {} THEN Entries[b]
  ELSE SubSeq(Entries[b], 1, (CHOOSE k \in gaps : \A j \in gaps : k <= j) - 1)

\* Mutant: the last direct block is not looked at.
MutDirEntries == [n \in DOMAIN inodes |->
  LET seen[k \in 0..Direct] ==
        IF k = 0 THEN <<>>
        ELSE LET b == inodes[n].block[k] IN
             seen[k - 1] \o (IF k < Direct /\ b # 0 /\ b \in DOMAIN Entries
                             THEN Visible(b) ELSE <<>>)
  IN seen[Direct]]

\* What is seen of a directory: the entries of its direct blocks.
DirEntries == [n \in DOMAIN inodes |->
  LET seen[k \in 0..Direct] ==
        IF k = 0 THEN <<>>
        ELSE LET b == inodes[n].block[k] IN
             seen[k - 1] \o (IF b # 0 /\ b \in DOMAIN Entries THEN Visible(b) ELSE <<>>)
  IN seen[Direct]]

Lookup(n, name) ==
  LET E == DirEntries[n]
      found == {k \in DOMAIN E : E[k].name = name}
  IN IF ~ IsDir(n) \/ found = {} THEN 0
     ELSE ext2_read_inode(E[CHOOSE k \in found : \A j \in found : k <= j].inode)

\* A walk is at an inode and has read some of the next name, which it looks
\* up when a slash comes; an empty one is skipped.
Walks == [inode : {0} \cup DOMAIN inodes, name : Seq(Chars)]
Begin(n) == [inode |-> n, name |-> <<>>]
Read(char) == [walk \in Walks |->
  IF char # "/" THEN [walk EXCEPT !.name = Append(@, char)]
  ELSE Begin(IF walk.name = <<>> THEN walk.inode ELSE Lookup(walk.inode, walk.name))]

Walk(walk, text) ==
  LET at[k \in 0..Len(text)] == IF k = 0 THEN walk ELSE Read(text[k])[at[k - 1]]
  IN at[Len(text)]

\* Name after name, from inode n; the end of the path ends its last name.
WalkFrom(n, path) == Walk(Begin(n), path \o <<"/">>).inode

\* What is left of a text in a buffer for paths.
Cut(text) == IF Len(text) < FS_MAX_PATH THEN text ELSE SubSeq(text, 1, FS_MAX_PATH - 1)

\* The inode that a path leads to, from the root whether it is absolute or
\* not, or 0.
ext2_find_inode_by_path(path) == IF path = <<>> THEN 0 ELSE WalkFrom(2, Cut(path))
-----------------------------------------------------------------------------
Block(b) == IF b \in DOMAIN Data THEN Data[b] ELSE <<>>

\* Mutant: a read that ends at a block's border gets nothing of that block.
MutToRead(i, start, end, off, len) ==
  LET skip == IF i = start THEN off % BlockSize ELSE 0 IN
  IF i = end THEN ((off + len) % BlockSize) - skip ELSE BlockSize - skip

\* How much the loop takes of block i.
ToRead(i, start, end, off, len) ==
  LET skip == IF i = start THEN off % BlockSize ELSE 0 IN
  IF i = end /\ (off + len) % BlockSize > 0
  THEN ((off + len) % BlockSize) - skip ELSE BlockSize - skip

\* ext2_read_inode_data, for at least one byte: the direct blocks from the
\* one that has the offset to the one that has the last byte, or up to one
\* that is not in the image.
ext2_read_inode_data(n, off, want) ==
  LET size == inodes[n].size
      len == IF off + want > size THEN size - off ELSE want
      start == off \div BlockSize
      end == (off + len - 1) \div BlockSize
      last == IF end < Direct THEN end + 1 ELSE Direct
      rounds == IF start < last THEN last - start ELSE 0
      copied[k \in 0..rounds] ==
        IF k = 0 THEN <<>>
        ELSE LET i == start + k - 1
                 buf == copied[k - 1]
                 b == Block(inodes[n].block[i + 1])
                 skip == IF i = start THEN off % BlockSize ELSE 0
                 fit == ToRead(i, start, end, off, len)
                 left == len - Len(buf)
             IN IF b = <<>> \/ Len(buf) < (i - start) * BlockSize - (off % BlockSize)
                THEN buf
                ELSE buf \o SubSeq(b, skip + 1, skip + (IF fit > left THEN left ELSE fit))
  IN IF off >= size THEN <<>> ELSE copied[rounds]

\* The inode that ext2_read works on: the first with file->data blocks.
InodeOf(f) ==
  LET same == {n \in DOMAIN inodes : inodes[n].blocks = f.data} IN
  IF same = {} THEN 0 ELSE CHOOSE n \in same : \A m \in same : n <= m

ext2_read(f, off, len) ==
  IF off >= f.size \/ InodeOf(f) = 0 THEN <<>>
  ELSE ext2_read_inode_data(InodeOf(f), off, len)

\* The fs_file of inode n: data is its number of blocks, and what memset
\* left in fs_type is the number of the archive's file system.
NoFile == [of |-> 0, name |-> <<>>, size |-> 0, data |-> 0, is_dir |-> FALSE,
           mode |-> 0, fs_type |-> "INITRAMFS"]
FileOf(n, name) ==
  [of |-> n, name |-> name, size |-> inodes[n].size, data |-> inodes[n].blocks,
   is_dir |-> IsDir(n), mode |-> 0, fs_type |-> "INITRAMFS"]

\* The listing of a directory, without its dots and what has no inode.
ext2_list(n) ==
  LET E == DirEntries[n]
      cache[k \in 0..Len(E)] ==
        IF k = 0 THEN <<>>
        ELSE LET files == cache[k - 1]
                 e == E[k]
             IN IF /\ Len(files) < FS_MAX_FILES
                   /\ e.name \notin {<<".">>, <<".", ".">>} /\ ext2_read_inode(e.inode) # 0
                THEN Append(files, FileOf(e.inode, e.name)) ELSE files
  IN IF IsDir(n) THEN cache[Len(E)] ELSE <<>>
-----------------------------------------------------------------------------
Init ==
  /\ scanned = 0 /\ active_fs = "INITRAMFS"
  /\ fs_dir = <<"/">> /\ ext2_dir = <<"/">> /\ file = NoFile
  /\ fd_table = [fd \in Fds |-> 0] /\ halted = FALSE

ext2_detect(f) == f.magic

\* fs_init tries the next file of the archive; the first image is mounted.
ScanNext ==
  /\ scanned < Len(Candidates) /\ active_fs = "INITRAMFS"
  /\ LET f == Candidates[scanned + 1] IN
       active_fs' = IF f.named /\ ext2_detect(f) THEN "EXT2" ELSE active_fs
  /\ scanned' = scanned + 1
  /\ UNCHANGED <<fs_dir, ext2_dir, file, fd_table, halted>>

Mounted == active_fs = "EXT2" /\ ~ halted

\* cd /: the registry's directory changes and the driver is not told.
CdRoot ==
  /\ Mounted
  /\ fs_dir' = <<"/">>
  /\ UNCHANGED <<scanned, active_fs, ext2_dir, file, fd_table, halted>>

\* Mutant: the kind of the inode is not looked at.
MutChangeAny(path) == ext2_find_inode_by_path(path) # 0 /\ ext2_dir' = Cut(path)

\* ext2_change_dir with an absolute path, as fs.c calls it.
ext2_change_dir(path) == IsDir(ext2_find_inode_by_path(path)) /\ ext2_dir' = Cut(path)

\* A slash is put between the two unless the directory ends with one.
Join(dir, path) ==
  IF path[1] = "/" THEN path
  ELSE (IF Last(dir) = "/" THEN dir ELSE Append(dir, "/")) \o path

\* Mutant: a relative path is taken from the root.
MutCd(path) ==
  /\ Mounted /\ path \notin {<<>>, <<"/">>}
  /\ LET abs == Cut(Join(<<"/">>, path)) IN ext2_change_dir(abs) /\ fs_dir' = Cut(abs)
  /\ UNCHANGED <<scanned, active_fs, file, fd_table, halted>>

\* cd with any other path, which is made absolute for the driver and cut.
Cd(path) ==
  /\ Mounted /\ path \notin {<<>>, <<"/">>}
  /\ LET abs == Cut(Join(fs_dir, path)) IN ext2_change_dir(abs) /\ fs_dir' = Cut(abs)
  /\ UNCHANGED <<scanned, active_fs, file, fd_table, halted>>

\* When the directory fills the buffer, there is no room for the slash, which
\* is counted all the same: the path is written behind the buffer, on the
\* stack.  Either that hits nothing in use and Cd goes on, or the kernel faults.
CdOverrun(path) ==
  /\ Mounted /\ path # <<>> /\ path[1] # "/"
  /\ Len(fs_dir) = FS_MAX_PATH - 1 /\ Last(fs_dir) # "/"
  /\ halted' = TRUE
  /\ UNCHANGED <<scanned, active_fs, fs_dir, ext2_dir, file, fd_table>>

\* What is behind the last slash.
FileName(path) ==
  LET slashes == {k \in DOMAIN path : path[k] = "/"} IN
  IF slashes = {} THEN path
  ELSE SubSeq(path, 1 + (CHOOSE k \in slashes : \A j \in slashes : j <= k), Len(path))

\* ext2_open fills the one static struct for the path's inode n; the mode is
\* 0 until fs_chmod sets it.
ext2_open(path, n, mode) ==
  /\ n = ext2_find_inode_by_path(path) /\ n # 0
  /\ file' = [FileOf(n, FileName(path)) EXCEPT !.mode = mode]

\* sys_open: the first free descriptor comes to point to the static struct.
Open(fd, path) ==
  /\ Mounted /\ fd_table[fd] = 0 /\ \A k \in Fds : k < fd => fd_table[k] # 0
  /\ \E n \in DOMAIN inodes :
       ext2_open(path, n, 0) /\ fd_table' = [fd_table EXCEPT ![fd] = n]
  /\ UNCHANGED <<scanned, active_fs, fs_dir, ext2_dir, halted>>

Close(fd) ==
  /\ Mounted /\ fd_table[fd] # 0
  /\ fd_table' = [fd_table EXCEPT ![fd] = 0]
  /\ UNCHANGED <<scanned, active_fs, fs_dir, ext2_dir, file, halted>>

\* The shell and exec_elf open a program.  Its header is read at file->data,
\* which is a number of blocks and no address that is mapped, unless the file
\* is too small to have one.
Load(path) ==
  /\ Mounted
  /\ \E n \in DOMAIN inodes : ext2_open(path, n, 0) /\ halted' = (inodes[n].size >= ElfHeader)
  /\ UNCHANGED <<scanned, active_fs, fs_dir, ext2_dir, fd_table>>

\* fs_chmod opens the file, and sets the mode of the struct.
Chmod(path, mode) ==
  /\ Mounted
  /\ \E n \in DOMAIN inodes : ext2_open(path, n, mode)
  /\ UNCHANGED <<scanned, active_fs, fs_dir, ext2_dir, fd_table, halted>>

Next ==
  \/ ScanNext \/ CdRoot
  \/ \E path \in Paths : Cd(path) \/ CdOverrun(path) \/ Load(path) \/ Chmod(path, 420)
                           \/ \E fd \in Fds : Open(fd, path)
  \/ \E fd \in Fds : Close(fd)

Spec == Init /\ [][Next]_vars
-----------------------------------------------------------------------------
TypeOK ==
  /\ scanned \in 0..Len(Candidates) /\ active_fs \in {"INITRAMFS", "EXT2"}
  /\ \A dir \in {fs_dir, ext2_dir} : Len(dir) \in 1..(FS_MAX_PATH - 1)
  /\ file.of \in {0} \cup DOMAIN inodes /\ file.mode \in Nat
  /\ \A fd \in Fds : fd_table[fd] \in {0} \cup DOMAIN inodes
  /\ halted \in BOOLEAN

Here == ext2_find_inode_by_path(fs_dir)

\* The shell is always in a directory of the image, so that ls has something
\* to list, however the text of the directory was put together.  The image has
\* no devices and sockets, which ext2.c:169 takes for directories.  The driver's
\* directory is the same ("so both the driver and fs state stay in sync",
\* fs.c:156-157), except that cd / leaves it behind until the next cd.
InDirectory ==
  /\ TypeOK
  /\ Here # 0 /\ inodes[Here].mode \div 4096 = 4
  /\ fs_dir = ext2_dir \/ fs_dir = <<"/">>

Target(path) == WalkFrom(IF path[1] = "/" THEN 2 ELSE Here, path)

\* fs.c:159-183: cd with a path leads where that path leads from the current
\* directory, or from the root if it is absolute, ".." included, as long as the
\* text of the two fits into the buffer.
CdLeadsThere ==
  [][\A path \in Paths :
       Cd(path) /\ Len(Join(fs_dir, path)) < FS_MAX_PATH => Here' = Target(path)]_vars

\* ext2.c:191, "Iterate through directory entries": every entry of the current
\* directory's blocks is found, if no entry before it in its block was deleted.
\* What ls lists can be found under its name, with its size and kind, and what
\* can be found is listed, if there is room: the two loops agree.
ListedIsFound ==
  LET here == Here
      files == ext2_list(here)
      blocks == {b \in {inodes[here].block[k] : k \in 1..Direct} \ {0} : b \in DOMAIN Entries}
      names == {e.name : e \in UNION {Range(Entries[b]) : b \in DOMAIN Entries}}
  IN /\ \A b \in blocks : \A j \in DOMAIN Entries[b] :
          /\ Entries[b][j].inode \in DOMAIN inodes
          /\ \A i \in 1..(j - 1) : Entries[b][i].inode # 0
          => Lookup(here, Entries[b][j].name) # 0
     /\ \A k \in DOMAIN files :
          LET n == Lookup(here, files[k].name) IN
          n # 0 /\ files[k].size = inodes[n].size /\ files[k].is_dir = IsDir(n)
     /\ Len(files) < FS_MAX_FILES =>
          \A name \in names \ {<<".">>, <<".", ".">>} :
            Lookup(here, name) # 0 => \E k \in DOMAIN files : files[k].name = name

\* The direct blocks of a file, cut to its size.
Contents(n) ==
  LET upto[k \in 0..Direct] ==
        IF k = 0 THEN <<>> ELSE upto[k - 1] \o
          (IF inodes[n].block[k] = 0 THEN <<>> ELSE Block(inodes[n].block[k]))
      all == upto[Direct]
  IN SubSeq(all, 1, IF inodes[n].size < Len(all) THEN inodes[n].size ELSE Len(all))

\* ext2.c:336-355, "Find the inode for the file", "Read the data from the
\* inode": ext2_read gives the bytes of the file that was opened, from the
\* offset, as many as are wanted and there, for every alignment of the two.
ReadsTheFile ==
  file.of # 0 => \A r \in Reads :
    LET c == Contents(file.of)
        end == IF r[1] + r[2] < Len(c) THEN r[1] + r[2] ELSE Len(c)
    IN ext2_read(file, r[1], r[2]) = SubSeq(c, r[1] + 1, end)

-----------------------------------------------------------------------------
\* syscall.c:371-372, "assuming the filesystem manages its lifetime": the
\* file behind an open descriptor stays the one that was opened.  The code does
\* not keep this: every open fills the same struct.
FileOutlivesOpen == \A fd \in Fds : fd_table[fd] # 0 => file.of = fd_table[fd]

\* fs.c:165, "Construct path relative to current directory": a cd that reports
\* success has gone where the path leads from there.  The code does not keep
\* this: a text that is too long loses its end.
CdReallyLeads == [][\A path \in Paths : Cd(path) => Here' = Target(path)]_vars
=============================================================================
