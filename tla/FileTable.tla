------------------------------ MODULE FileTable ------------------------------
(***************************************************************************)
(* The virtual file system layer of src/fs/file.c: the file descriptor     *)
(* table and fopen, fseek, fread, fstat, fclose over the FAT16 driver's   *)
(* open, seek, read, stat and close (module Fat16).                        *)
(*                                                                         *)
(* file_descriptors is a 0-based array; slot i holds the descriptor with   *)
(* index i + 1, which is the fd fopen returns.  A descriptor is abstracted *)
(* to its FAT private data: the FAT item fat16_open found and its pos.     *)
(* Paths are parsed by pathparser_parse (module PathParser).  The callers *)
(* are the kernel's users of the file API; held records the fds they got from fopen and    *)
(* have not closed.                                                        *)
(***************************************************************************)
EXTENDS Naturals, Integers, FiniteSets, Sequences

CONSTANTS
  MaxFds,     \* BIMBLEOS_MAX_FILE_DESCRIPTORS
  Drives,     \* drive numbers disk_get knows, each with a FAT16 filesystem
  SectorSize, NSectors, Image, Header, Items, ItemBytes, DiskFailsPastEnd,
                             \* the FAT16 disk of those drives (module Fat16)
  Filenames,  \* filenames callers pass to fopen (character sequences)
  ModeStrs,   \* mode strings callers pass to fopen
  Offsets,    \* offsets callers pass to fseek
  MaxOpens,   \* bound on the fds callers hold at once
  MaxSeekPos, \* bound on the pos a SEEK_CUR may start from
  Sizes,      \* size arguments callers pass to fread
  Counts,     \* nmemb arguments callers pass to fread
  MaxPath,    \* BIMBLEOS_MAX_PATH
  ParsePaths, \* paths pathparser_parse is checked on, beyond Filenames
  NULL

PP == INSTANCE PathParser WITH Paths <- ParsePaths
F == INSTANCE Fat16

\* FILE_MODE and FILE_SEEK_MODE values.
Modes == {"READ", "WRITE", "APPEND", "INVALID"}
SeekModes == {"SEEK_SET", "SEEK_CUR", "SEEK_END"}
\* status.h error codes (src/status.h is not in the repository).
EIO == -1
EINVARG == -2
ENOMEM == -3
ERDONLY == -4
EUNIMP == -5

Slots == 0 .. MaxFds - 1

VARIABLES
  file_descriptors,  \* slot -> NULL or [index, item, pos]
  held,              \* [fd, item, name] records callers hold: the fd fopen
                     \* returned, the item behind it and the filename opened
  privates,          \* FAT_FileDescriptors fat16_open allocated and nobody freed
  last_read,         \* the caller's last call, when it was an fread that
                     \* reached fat16_read: its item, pos, size, nmemb,
                     \* result and bytes; else NULL (observation only)
  last_stat          \* the caller's last call, when it was an fstat: the
                     \* filename the fd was opened with, the result and the
                     \* FileStat; else NULL (observation only)

vars == <<file_descriptors, held, privates, last_read, last_stat>>

(***************************************************************************)
(* file.c                                                                  *)
(***************************************************************************)

\* file_get_mode_by_string: the first character decides.
FileGetModeByString(s) ==
  CASE s # <<>> /\ s[1] = "r" -> "READ"
    [] s # <<>> /\ s[1] = "w" -> "WRITE"
    [] s # <<>> /\ s[1] = "a" -> "APPEND"
    [] OTHER -> "INVALID"

\* Seeded fault: the descriptor's index is the slot, not slot + 1.
FileNewDescriptorZeroBased(fds) ==
  IF \A i \in Slots : fds[i] # NULL THEN [res |-> ENOMEM, slot |-> -1, index |-> 0]
  ELSE LET i == CHOOSE i \in Slots : fds[i] = NULL /\ \A j \in 0 .. i - 1 : fds[j] # NULL
       IN  [res |-> 0, slot |-> i, index |-> i]

\* file_new_descriptor: the lowest free slot i gets a descriptor whose
\* index is i + 1; -ENOMEM when every slot is used.
FileNewDescriptor(fds) ==
  IF \A i \in Slots : fds[i] # NULL THEN [res |-> ENOMEM, slot |-> -1, index |-> 0]
  ELSE LET i == CHOOSE i \in Slots : fds[i] = NULL /\ \A j \in 0 .. i - 1 : fds[j] # NULL
       IN  [res |-> 0, slot |-> i, index |-> i + 1]

\* Seeded fault: the slot is fd, not fd - 1.
FileGetDescriptorNoOffset(fd) ==
  IF fd <= 0 \/ fd >= MaxFds THEN NULL ELSE file_descriptors[fd]

\* file_get_descriptor: fds outside 1 .. BIMBLEOS_MAX_FILE_DESCRIPTORS - 1
\* are refused; descriptor fd is in slot fd - 1.
FileGetDescriptor(fd) ==
  IF fd <= 0 \/ fd >= MaxFds THEN NULL ELSE file_descriptors[fd - 1]

\* fopen up to the filesystem's open: the error it returns, or 0 and the
\* FAT item fat16_open found.
FopenChecks(root, mode) ==
  CASE root = NULL                  -> [res |-> EINVARG, item |-> NULL]
    [] root.parts = <<>>            -> [res |-> EINVARG, item |-> NULL]
    [] root.drive_no \notin Drives  -> [res |-> EIO, item |-> NULL]
    [] mode = "INVALID"             -> [res |-> EINVARG, item |-> NULL]
    [] OTHER                        -> F!Fat16Open(root.parts, mode)

(***************************************************************************)
(* Operations                                                              *)
(***************************************************************************)

\* fs_init: the descriptor table is zeroed and FAT16 is inserted.
Init ==
  /\ file_descriptors = [i \in Slots |-> NULL]
  /\ held = {}
  /\ privates = 0
  /\ last_read = NULL
  /\ last_stat = NULL

\* fopen(filename, mode_str).  Any failure returns 0.  When the table is
\* full, the private data fat16_open returned is not closed.
Fopen(filename, modeStr) ==
  LET root == PP!PathparserParse(filename)
      mode == FileGetModeByString(modeStr)
      open == FopenChecks(root, mode)
      item == open.item
      nd   == FileNewDescriptor(file_descriptors)
  IN  /\ Cardinality(held) < MaxOpens
      /\ UNCHANGED <<last_read, last_stat>>
      /\ IF open.res < 0 THEN UNCHANGED <<file_descriptors, held, privates>>
         ELSE /\ privates' = privates + 1
              /\ IF nd.res < 0
                   THEN UNCHANGED <<file_descriptors, held>>
                   ELSE /\ file_descriptors' = [file_descriptors EXCEPT ![nd.slot] =
                                                  [index |-> nd.index, item |-> item, pos |-> 0]]
                        /\ held' = held \cup {[fd |-> nd.index, item |-> item, name |-> filename]}

\* Seeded fault: file_free_descriptor clears slot index, not index - 1.
FileFreeDescriptorWrongSlot(desc) ==
  [file_descriptors EXCEPT ![desc.index] = NULL]

\* file_free_descriptor
FileFreeDescriptor(desc) ==
  [file_descriptors EXCEPT ![desc.index - 1] = NULL]

\* fclose(fd): fat16_close always returns 0 after freeing its private data,
\* then the descriptor is freed.  An fd file_get_descriptor refuses gives
\* -EIO and the caller still holds it.
Fclose(fd) ==
  LET desc == FileGetDescriptor(fd)
  IN  IF desc = NULL THEN UNCHANGED vars
      ELSE /\ file_descriptors' = FileFreeDescriptor(desc)
           /\ privates' = privates - 1
           /\ held' = {h \in held : h.fd # fd}
           /\ UNCHANGED <<last_read, last_stat>>

\* fseek(fd, offset, whence): -EIO for an fd file_get_descriptor refuses,
\* else the filesystem's seek on the descriptor's private data.
Fseek(fd, offset, whence) ==
  LET desc == FileGetDescriptor(fd)
  IN  IF desc = NULL THEN UNCHANGED vars
      ELSE /\ file_descriptors' = [file_descriptors EXCEPT ![fd - 1].pos =
                 F!Fat16Seek(desc.item, desc.pos, offset, whence).pos]
           /\ UNCHANGED <<held, privates, last_read, last_stat>>

\* fread(ptr, size, nmemb, fd): -EINVARG for a zero size or count or an fd
\* file_get_descriptor refuses, else fat16_read from the descriptor's pos,
\* which it does not move.  fat16_read takes the item as a file item
\* without looking at its type; on a directory item it reads through the
\* directory's pointer, so the outcome is any result and no bytes.
Fread(fd, size, nmemb) ==
  LET desc == FileGetDescriptor(fd)
  IN  /\ UNCHANGED <<file_descriptors, held, privates>>
      /\ last_stat' = NULL
      /\ IF size = 0 \/ nmemb = 0 \/ fd < 1 \/ desc = NULL
           THEN last_read' = NULL
           ELSE \E r \in IF desc.item.type = "file"
                          THEN {F!Fat16Read(desc.item, desc.pos, size, nmemb)}
                          ELSE [res : {nmemb, EIO}, out : {<<>>}] :
                  last_read' = [item |-> desc.item, pos |-> desc.pos, size |-> size,
                                nmemb |-> nmemb, res |-> r.res, out |-> r.out]

\* fstat(fd, stat) by the caller holding h: -EIO for an fd
\* file_get_descriptor refuses, else the filesystem's stat on the
\* descriptor's private data.
Fstat(h) ==
  LET desc == FileGetDescriptor(h.fd)
      r    == IF desc = NULL THEN [res |-> EIO, stat |-> NULL] ELSE F!Fat16Stat(desc.item)
  IN  /\ last_stat' = [name |-> h.name, res |-> r.res, stat |-> r.stat]
      /\ last_read' = NULL
      /\ UNCHANGED <<file_descriptors, held, privates>>

Next ==
  \/ \E f \in Filenames, m \in ModeStrs : Fopen(f, m)
  \/ \E h \in held : Fclose(h.fd)
  \/ \E h \in held, o \in Offsets, w \in SeekModes :
       /\ FileGetDescriptor(h.fd) # NULL => FileGetDescriptor(h.fd).pos <= MaxSeekPos
       /\ Fseek(h.fd, o, w)
  \/ \E h \in held, sz \in Sizes, n \in Counts : Fread(h.fd, sz, n)
  \/ \E h \in held : Fstat(h)

Spec == Init /\ [][Next]_vars

(***************************************************************************)
(* Properties                                                              *)
(***************************************************************************)

\* pathparser_parse, which fopen calls on every filename, gives every path
\* of ParsePaths its drive and its '/'-separated segments up to the first
\* empty one, and NULL for a malformed or over-long path.  pathparser_parse
\* keeps no state, so the check is made once, in the initial state.
ParseAgrees == Init => PP!ParseAgrees

\* fat16_get_directory_entry, which fopen calls on every parsed filename,
\* finds exactly the live entry of the disk that the path names (entries
\* before a directory's first 0x00 entry that are not unused, 0xE5), and
\* for a directory it searches exactly that directory's live entries.  The
\* directories are decoded once, by fat16_resolve at boot and by
\* fat16_load_fat_directory per lookup; the check is made in the initial
\* state.
LookupFindsLiveItems ==
  Init => \A f \in Filenames :
            LET root == PP!PathparserParse(f)
            IN  root # NULL /\ root.parts # <<>> => F!LookupAgrees(root.parts)

\* Every slot is empty or holds a descriptor numbered 1 or more.
TypeOK ==
  /\ \A i \in Slots : file_descriptors[i] = NULL \/
        /\ file_descriptors[i].index \in 1 .. MaxFds
        /\ file_descriptors[i].item.type \in {"file", "dir"}
        /\ file_descriptors[i].pos \in Nat
  /\ \A h \in held : h.fd \in 1 .. MaxFds
  /\ privates \in Nat

\* Every fd fopen returned and the caller has not closed is accepted by
\* file_get_descriptor (fseek, fread, fstat, fclose) and names the item
\* that was opened, however opens and closes interleave and reuse slots.
HeldFdsResolve ==
  \A h \in held :
    /\ FileGetDescriptor(h.fd) # NULL
    /\ FileGetDescriptor(h.fd).item = h.item

\* Every FAT private data fat16_open allocated sits in a descriptor slot,
\* and every used slot belongs to an fd a caller holds: nothing opened can
\* no longer be closed.
NoLeakedDescriptor ==
  /\ privates = Cardinality({i \in Slots : file_descriptors[i] # NULL})
  /\ \A i \in Slots : file_descriptors[i] # NULL =>
        \E h \in held : h.fd = file_descriptors[i].index /\ h.item = file_descriptors[i].item

\* An fread of a file whose bytes pos .. pos + size * nmemb - 1 lie inside
\* the file returns nmemb and exactly those bytes of the file, in order:
\* the bytes of its clusters along its FAT chain, whichever cluster and
\* sector boundaries the members cross.
FreadReturnsFileBytes ==
  LET r == last_read
  IN  r # NULL /\ r.item.type = "file" /\ r.pos + r.size * r.nmemb <= r.item.item.size =>
        /\ r.res = r.nmemb
        /\ r.out = SubSeq(F!FileBytes(r.item.item), r.pos + 1, r.pos + r.size * r.nmemb)

\* An fstat of an fd a caller holds describes the file its filename names
\* on the disk, found by the reference directory reader: it succeeds
\* exactly when the name is a file and not a directory, and then reports
\* that entry's filesize and FILE_STAT_READ_ONLY exactly when the entry has
\* FAT_FILE_READ_ONLY.  The fd goes through fopen's lookup, the descriptor
\* table's slot reuse and fat16_stat.
FstatDescribesNamedFile ==
  last_stat # NULL =>
    LET live == F!LookupLive(F!RootLive, PP!PathparserParse(last_stat.name).parts)
    IN  /\ (last_stat.res = 0) = (live # NULL /\ ~live.dir)
        /\ last_stat.res = 0 =>
             last_stat.stat = [filesize |-> live.size,
                               flags    |-> IF live.ro THEN F!FileStatReadOnly ELSE 0]
====
