-------------------------------- MODULE Text --------------------------------
(***************************************************************************)
(* Texts in buffers of fixed size: the functions of string.c, and the two  *)
(* places that cut a text into fields while they build another, the        *)
(* shell's search of PATH and cd with the driver's path walk.  A buffer is *)
(* a function of its bytes and of some that lie behind it.                  *)
(***************************************************************************)
EXTENDS Integers, FiniteSets, SequencesExt, Places

CONSTANTS
  PathSize,     \* of the shell's paths_copy and path_buffer
  FS_MAX_PATH,  \* of the registry's and the driver's paths
  NameSize,     \* of fs_open's processed_entry
  Behind,       \* bytes behind a buffer that are looked at
  SizeMod,      \* size_t wraps around at
  PathValues, Commands, CdPaths, Entries

\* The characters of texts that matter here.
NUL == "NUL"
SLASH == "/"
COLON == ":"
DOT == "."

ASSUME TextAssumption ==
  /\ SizeMod \in Nat /\ Behind \in Nat
  /\ {PathSize, FS_MAX_PATH, NameSize} \subseteq 2 .. SizeMod - 1
  /\ PathValues \cup Commands \cup CdPaths \cup Entries \subseteq Seq(STRING)
  /\ \A s \in PathValues \cup Commands \cup CdPaths \cup Entries :
       \A k \in DOMAIN s : s[k] # NUL
  /\ <<>> \notin CdPaths

VARIABLES
  doing,        \* "idle", "search", "walk" or "strip"
  copy,         \* paths_copy or path_copy
  saveptr,      \* strtok's state, or next_token
  tok,          \* where the field is, or NULL
  out,          \* path_buffer, abs_path or processed_entry
  current_dir,  \* fs.current_dir
  given,        \* history: the texts the running operation was given
  visited       \* history: what was opened, or looked up in a directory

textvars == <<doing, copy, saveptr, tok, out, current_dir, given, visited>>
-----------------------------------------------------------------------------
NULL == -1

\* Differences of sizes wrap around.
Minus(a, b) == (a - b) % SizeMod

Untouched == "?"
Buffer(size) == [k \in 0 .. size + Behind - 1 |-> Untouched]

Least(S) == CHOOSE k \in S : \A l \in S : k <= l
strlen(b, p) ==
  Least({k \in DOMAIN b : k >= p /\ b[k] = NUL} \cup {Cardinality(DOMAIN b)}) - p
Str(b, p) == [k \in 1 .. strlen(b, p) |-> b[p + k - 1]]
Take(s, n) == IF n < Len(s) THEN SubSeq(s, 1, n) ELSE s

\* Stores s at p; what lies further than Behind is not looked at.
Store(b, p, s) == [k \in DOMAIN b |-> IF k >= p /\ k < p + Len(s) THEN s[k - p + 1] ELSE b[k]]
SetNul(b, p) == Store(b, p, <<NUL>>)

strncpy(b, p, s, n) == Store(b, p, [k \in 1 .. n |-> IF k <= Len(s) THEN s[k] ELSE NUL])
strncat(b, s, n) == Store(b, strlen(b, 0), Append(Take(s, n), NUL))

\* One byte after the other, in the order that suits the overlap.
memmove(b, d, s, n) ==
  LET moved[k \in 0 .. n] ==
        IF k = 0 THEN b
        ELSE LET at == IF s > d THEN k - 1 ELSE n - k
             IN [moved[k - 1] EXCEPT ![d + at] = moved[k - 1][s + at]]
  IN moved[n]

strspn(b, p, accept) ==
  Least({n \in 0 .. strlen(b, p) : b[p + n] \notin accept})
strpbrk(b, p, accept) ==
  LET hits == {k \in p .. p + strlen(b, p) - 1 : b[k] \in accept}
  IN IF hits = {} THEN NULL ELSE Least(hits)

\* The field that begins at p is ended by a NUL in the text itself.
Field(b, p, delim) ==
  LET end == strpbrk(b, p, delim)
  IN IF b[p] = NUL THEN [b |-> b, save |-> p, tok |-> NULL]
     ELSE IF end = NULL THEN [b |-> b, save |-> p + strlen(b, p), tok |-> p]
     ELSE [b |-> SetNul(b, end), save |-> end + 1, tok |-> p]

\* Mutant: leading separators are not skipped.
MutStrtok(b, p, delim) == Field(b, p, delim)
strtok_r(b, p, delim) == Field(b, p + strspn(b, p, delim), delim)
-----------------------------------------------------------------------------
TextInit ==
  /\ doing = "idle" /\ copy = <<>> /\ saveptr = NULL /\ tok = NULL /\ out = <<>>
  /\ current_dir = <<SLASH>> /\ given = <<>> /\ visited = <<>>

Cut(s, size) == Take(s, size - 1)

\* strncpy with one byte less than the buffer has, and the terminator.
CopyCut(size, s) == SetNul(strncpy(Buffer(size), 0, s, size - 1), size - 1)

\* The buffers are on the stack, and strtok's state is set by its next first
\* call: nothing of them is used again.
Idle ==
  /\ doing' = "idle" /\ copy' = <<>> /\ saveptr' = NULL /\ tok' = NULL /\ out' = <<>>
  /\ given' = <<>> /\ visited' = <<>>

Token(t) == copy' = t.b /\ saveptr' = t.save /\ tok' = t.tok

\* try_exec_elf_command: PATH is copied and its first directory taken.
PathStart(paths, cmd) ==
  /\ doing = "idle" /\ doing' = "search"
  /\ Token(strtok_r(CopyCut(PathSize, paths), 0, {COLON}))
  /\ given' = <<paths, cmd>> /\ visited' = <<>>
  /\ UNCHANGED <<out, current_dir>>

\* Mutant: the terminator that strncat adds is not counted.
MutRoom(size, len) == Minus(size, len)
Room(size, len) == Minus(Minus(size, len), 1)

\* path_buffer: the directory, a slash unless it ends with one, the command.
Candidate(dir, cmd) ==
  LET b == CopyCut(PathSize, dir)
      len == strlen(b, 0)
      c == IF len # 0 /\ b[len - 1] # SLASH THEN strncat(b, <<SLASH>>, Room(PathSize, len)) ELSE b
  IN strncat(c, cmd, Room(PathSize, strlen(c, 0)))

\* The candidate is not there: the next directory.
PathNext ==
  /\ doing = "search" /\ tok # NULL
  /\ out' = Candidate(Str(copy, tok), given[2])
  /\ visited' = Append(visited, Str(out', 0))
  /\ Token(strtok_r(copy, saveptr, {COLON}))
  /\ UNCHANGED <<doing, current_dir, given>>

\* The candidate is opened, or there is no other.
PathFound == doing = "search" /\ tok # NULL /\ Idle /\ UNCHANGED current_dir
PathFails == doing = "search" /\ tok = NULL /\ Idle /\ UNCHANGED current_dir
-----------------------------------------------------------------------------
\* abs_path of fs_change_dir: len is counted up with the slash, whether it
\* had a place or not.
Absolute(path) ==
  IF path[1] = SLASH THEN CopyCut(FS_MAX_PATH, path)
  ELSE LET b == CopyCut(FS_MAX_PATH, current_dir)
           len == strlen(b, 0)
       IN IF len = 0 \/ b[len - 1] # SLASH
          THEN strncat(strncat(b, <<SLASH>>, Room(FS_MAX_PATH, len)), path,
                       Room(FS_MAX_PATH, len + 1))
          ELSE strncat(b, path, Room(FS_MAX_PATH, len))

\* The component at p: it is ended at the next slash.
Component(b, p) ==
  LET slash == strpbrk(b, p, {SLASH})
  IN IF slash = NULL THEN [b |-> b, save |-> NULL, tok |-> p]
     ELSE [b |-> SetNul(b, slash), save |-> slash + 1, tok |-> p]

\* cd /
CdRoot ==
  /\ doing = "idle" /\ current_dir' = <<SLASH>>
  /\ UNCHANGED <<doing, copy, saveptr, tok, out, given, visited>>

\* cd to any other path: the driver begins to walk the absolute path.
CdStart(path) ==
  /\ doing = "idle" /\ doing' = "walk" /\ path # <<SLASH>>
  /\ out' = Absolute(path)
  /\ LET b == CopyCut(FS_MAX_PATH, Str(out', 0))
         p == IF b[0] = SLASH THEN 1 ELSE 0
     IN IF b[p] = NUL THEN Token([b |-> b, save |-> NULL, tok |-> NULL])
        ELSE Token(Component(b, p))
  /\ given' = <<current_dir, path>> /\ visited' = <<>>
  /\ UNCHANGED current_dir

\* One round of the walk: an empty component is skipped, any other is found in
\* its directory.
WalkNext ==
  /\ doing = "walk" /\ tok # NULL
  /\ visited' = IF copy[tok] = NUL THEN visited ELSE Append(visited, Str(copy, tok))
  /\ IF saveptr = NULL \/ copy[saveptr] = NUL
     THEN tok' = NULL /\ UNCHANGED <<copy, saveptr>>
     ELSE Token(Component(copy, saveptr))
  /\ UNCHANGED <<doing, out, current_dir, given>>

\* A component is missing, or no directory.
WalkFails == doing = "walk" /\ Idle /\ UNCHANGED current_dir

CdDone ==
  /\ doing = "walk" /\ tok = NULL
  /\ current_dir' = Str(CopyCut(FS_MAX_PATH, Str(out, 0)), 0)
  /\ Idle
-----------------------------------------------------------------------------
\* fs_open: the name of an entry without a leading ./, moved to the front.
Strip(entry) ==
  /\ doing = "idle" /\ doing' = "strip" /\ given' = <<entry>>
  /\ LET b == CopyCut(NameSize, entry)
         len == strlen(b, 0)
     IN out' = IF len >= 2 /\ b[0] = DOT /\ b[1] = SLASH
               THEN SetNul(memmove(b, 0, 2, len - 1), len - 2) ELSE b
  /\ UNCHANGED <<copy, saveptr, tok, current_dir, visited>>
StripDone == doing = "strip" /\ Idle /\ UNCHANGED current_dir

TextNext ==
  \/ \E v \in PathValues, c \in Commands : PathStart(v, c)
  \/ PathNext \/ PathFound \/ PathFails
  \/ CdRoot \/ \E p \in CdPaths : CdStart(p)
  \/ WalkNext \/ WalkFails \/ CdDone
  \/ \E e \in Entries : Strip(e)
  \/ StripDone

TextSpec == TextInit /\ [][TextNext]_textvars
-----------------------------------------------------------------------------
\* The fields of s that a separator ends, the empty ones left out: each is
\* told by the separator before it.
Separators(s, c) == {k \in 0 .. Len(s) + 1 : k \in {0, Len(s) + 1} \/ s[k] = c}
FieldBehind(s, c, k) == SubSeq(s, k + 1, Least({l \in Separators(s, c) : l > k}) - 1)
Begins(s, c) == {k \in Separators(s, c) : k <= Len(s) /\ FieldBehind(s, c, k) # <<>>}
Fields(s, c) == At([k \in Begins(s, c) |-> FieldBehind(s, c, k)], Begins(s, c))

Joined(dir, name) == dir \o (IF Last(dir) = SLASH THEN <<>> ELSE <<SLASH>>) \o name

Wanted ==
  IF doing = "search"
  THEN LET f == Fields(Cut(given[1], PathSize), COLON)
       IN [k \in DOMAIN f |-> Cut(Joined(f[k], given[2]), PathSize)]
  ELSE Fields(Cut(IF given[2][1] = SLASH THEN given[2] ELSE Joined(given[1], given[2]), FS_MAX_PATH), SLASH)

\* shell.c:195-217 and ext2.c:146-240, which cut the text they walk: every
\* directory of PATH with the command behind it, and every component of the
\* path that cd was given, is looked up once and in its place, no other name
\* is, and none is forgotten at the end.  fs.c:231-238: the name moved over
\* itself is the name without its ./ .
VisitsFields ==
  /\ doing \in {"search", "walk"} =>
       IF tok = NULL THEN visited = Wanted ELSE IsPrefix(visited, Wanted)
  /\ doing = "strip" =>
       Str(out, 0) = LET n == Cut(given[1], NameSize)
                     IN IF IsPrefix(<<DOT, SLASH>>, n) THEN SubSeq(n, 3, Len(n)) ELSE n

SizeOf == CASE doing = "search" -> PathSize [] doing = "walk" -> FS_MAX_PATH [] OTHER -> NameSize
Within(b, size) == \A k \in DOMAIN b : k >= size => b[k] = Untouched
Full == doing = "walk" /\ Len(given[1]) = FS_MAX_PATH - 1 /\ SLASH \notin {Last(given[1]), given[2][1]}

\* shell.c:183-202 and fs.c:159-181: nothing is stored behind a buffer and each
\* has its terminator, whatever is cut, after any sequence of cd but one that
\* filled fs.current_dir to its last byte.
InBuffers ==
  /\ Len(current_dir) < FS_MAX_PATH
  /\ doing = "search" => Within(copy, PathSize)
  /\ doing # "idle" /\ (doing = "search" => visited # <<>>) /\ ~ Full =>
       Within(out, SizeOf) /\ \E k \in 0 .. SizeOf - 1 : out[k] = NUL
=============================================================================
