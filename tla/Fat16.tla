-------------------------------- MODULE Fat16 --------------------------------
(***************************************************************************)
(* The FAT16 driver of src/fs/fat/fat16.c below the descriptor table:      *)
(* fat16_resolve with the decoding of the root directory and of            *)
(* subdirectories, directory lookup (fat16_get_directory_entry),           *)
(* fat16_open, fat16_seek and the read path fat16_read ->                  *)
(* fat16_read_internal -> cluster walk -> diskstreamer_read.  Pure         *)
(* operators over a disk image.                                            *)
(*                                                                         *)
(* The image is a function from byte addresses to byte values; the FAT    *)
(* entries and the first filename byte of every directory entry live in   *)
(* it, and a byte read from a file is named by its disk address.  A       *)
(* directory entry is named by the address of its first byte: Items gives *)
(* the rest of the entry at that address as [name, dir, ro, high, low,    *)
(* size] (its full relative filename, whether its attribute has           *)
(* FAT_FILE_SUBDIRECTORY and FAT_FILE_READ_ONLY, the two halves of its     *)
(* first cluster and its filesize).  The boot sector's                     *)
(* FAT header is the record Header.  disk_read_block (disk.c is not in   *)
(* the repository) fails for a sector past the end of the disk when        *)
(* DiskFailsPastEnd holds, and otherwise gives that sector as zeroes.      *)
(***************************************************************************)
EXTENDS Naturals, Integers, Sequences, SequencesExt, Bitwise

CONSTANTS
  SectorSize,         \* BIMBLEOS_SECTOR_SIZE (disk->sector_size)
  NSectors,           \* sectors on the disk
  Image,              \* the bytes of the disk: address -> 0 .. 255
  Header,             \* the FAT_Header fields fat16_resolve reads
  Items,              \* address of a directory entry -> the rest of it
  ItemBytes,          \* sizeof(struct FAT_DirectoryItem)
  DiskFailsPastEnd,   \* disk_read_block fails past the end of the disk
  NULL

S == INSTANCE Streamer

EIO == -1
EINVARG == -2
ERDONLY == -4
EFSNOTUS == -6

SectorsPerCluster == Header.sectors_per_cluster
ReservedSectors == Header.reserved_sectors

\* disk->sector_size * sectors_per_cluster
ClusterBytes == SectorsPerCluster * SectorSize

\* A byte of the image; a byte past the end of the disk reads as 0.
DiskByte(a) == IF a \in DOMAIN Image THEN Image[a] ELSE 0

(***************************************************************************)
(* Directory decoding                                                      *)
(***************************************************************************)

\* The directory entry whose first byte is at a.  Bytes that hold no entry
\* (file data read as a directory) decode to an item no filename names.
Junk == [name |-> <<>>, dir |-> FALSE, ro |-> FALSE, high |-> 0, low |-> 0, size |-> 0]
DirItem(a) == IF a \in DOMAIN Items THEN Items[a] ELSE Junk

\* The entries in bytes read from the disk, one per ItemBytes bytes.
EntriesOf(out) == [k \in 1 .. Len(out) \div ItemBytes |-> out[(k - 1) * ItemBytes + 1]]

\* directory->item: the entries read, as FAT_DirectoryItems.
DirItems(out) == LET e == EntriesOf(out) IN [k \in DOMAIN e |-> DirItem(e[k])]

\* The loop of fat16_get_total_items_for_directory: read one entry after
\* another from the directory stream; a failed read gives -EIO, a first
\* byte 0x00 ends the count, 0xE5 (unused) is skipped, any other entry is
\* counted.  CountEntry is one turn of it on the read r.
RECURSIVE CountItems(_, _)

\* Seeded fault: the entry that ends the directory is counted too.
RECURSIVE CountEntryCountsEnd(_, _)
CountEntryCountsEnd(r, i) ==
  CASE r.res # 0                -> EIO
    [] DiskByte(r.out[1]) = 0   -> i + 1
    [] DiskByte(r.out[1]) = 229 -> CountItems(r.pos, i)
    [] OTHER                    -> CountItems(r.pos, i + 1)

RECURSIVE CountEntry(_, _)
CountEntry(r, i) ==
  CASE r.res # 0                -> EIO
    [] DiskByte(r.out[1]) = 0   -> i
    [] DiskByte(r.out[1]) = 229 -> CountItems(r.pos, i)
    [] OTHER                    -> CountItems(r.pos, i + 1)

CountItems(p, i) == CountEntry(S!DiskstreamerRead(p, ItemBytes, DiskFailsPastEnd), i)

\* fat16_get_total_items_for_directory(disk, directory_start_sector)
Fat16GetTotalItemsForDirectory(sector) == CountItems(sector * SectorSize, 0)

\* fat16_sector_to_absolute
Fat16SectorToAbsolute(sector) == sector * SectorSize

\* fat16_get_root_directory: the root directory follows the FATs; its
\* root_dir_entries entries are read whole, its total is the count above,
\* and its ending sector is rounded down.
RootDirSectorPos == Header.fat_copies * Header.sectors_per_fat + Header.reserved_sectors
RootDirSize == Header.root_dir_entries * ItemBytes
Fat16GetRootDirectory ==
  [items             |-> DirItems(S!DiskstreamerRead(Fat16SectorToAbsolute(RootDirSectorPos),
                                                     RootDirSize, DiskFailsPastEnd).out),
   total             |-> Fat16GetTotalItemsForDirectory(RootDirSectorPos),
   sector_pos        |-> RootDirSectorPos,
   ending_sector_pos |-> RootDirSectorPos + RootDirSize \div SectorSize,
   freed             |-> FALSE]

\* fat16_resolve: the header's extended signature must be 0x29, then the
\* root directory is read.
Fat16Resolve ==
  IF Header.signature # 41 THEN [res |-> EFSNOTUS, root |-> NULL]
  ELSE [res |-> 0, root |-> Fat16GetRootDirectory]

\* fat_private->root_directory of the resolved disk.
RootDirectory == Fat16Resolve.root

\* root_directory.ending_sector_pos: where the data clusters start (the
\* value fat16_get_root_directory stores there).
RootEnd == RootDirSectorPos + RootDirSize \div SectorSize

(***************************************************************************)
(* Names and clusters of directory items                                   *)
(***************************************************************************)

\* istrncmp: letters compare without case.
Lower(c) == IF c = "A" THEN "a" ELSE IF c = "B" THEN "b" ELSE c
NameMatches(a, b) == Len(a) = Len(b) /\ \A k \in 1 .. Len(a) : Lower(a[k]) = Lower(b[k])

\* fat16_get_first_cluster: the two halves are or-ed, not shifted.
Fat16GetFirstCluster(item) == item.high | item.low

(***************************************************************************)
(* Read path                                                               *)
(***************************************************************************)

\* Seeded fault: data clusters counted from 0 instead of from cluster 2.
Fat16ClusterToSectorNoBase(cluster) == RootEnd + cluster * SectorsPerCluster

\* fat16_cluster_to_sector
Fat16ClusterToSector(cluster) == RootEnd + (cluster - 2) * SectorsPerCluster

\* fat16_get_first_fat_sector
Fat16GetFirstFatSector == ReservedSectors

\* The uint16_t of fat16_get_fat_entry's read r, or the read's error.
FatEntryOf(r) == IF r.res # 0 THEN r.res ELSE DiskByte(r.out[1]) + 256 * DiskByte(r.out[2])

\* fat16_get_fat_entry: the stream is sought to the FAT's byte position
\* times (cluster * BIMBLEOS_FAT16_FAT_ENTRY_SIZE) and two bytes are read as
\* a little-endian uint16_t; a failed read gives its error.
Fat16GetFatEntry(cluster) ==
  FatEntryOf(S!DiskstreamerRead(Fat16GetFirstFatSector * SectorSize * (cluster * 2), 2, DiskFailsPastEnd))

\* The entries fat16_get_cluster_for_offset refuses to follow: 0xFF8,
\* 0xFFF (end of chain), BIMBLEOS_FAT16_BAD_SECTOR, 0xFF0, 0xFF6
\* (reserved) and 0x00 (unused).
StopEntries == {4088, 4095, 4087, 4080, 4086, 0}

\* The loop of fat16_get_cluster_for_offset: follow `ahead` FAT entries;
\* FollowEntry is one turn of it on the entry just read.
RECURSIVE Fat16FollowChain(_, _)
RECURSIVE FollowEntry(_, _)
FollowEntry(entry, ahead) ==
  IF entry \in StopEntries THEN EIO ELSE Fat16FollowChain(entry, ahead - 1)
Fat16FollowChain(cluster, ahead) ==
  IF ahead = 0 THEN cluster ELSE FollowEntry(Fat16GetFatEntry(cluster), ahead)

\* fat16_get_cluster_for_offset
Fat16GetClusterForOffset(start, offset) ==
  Fat16FollowChain(start, offset \div ClusterBytes)

\* total_to_read: at most one cluster.
TotalToRead(total) == IF total > ClusterBytes THEN ClusterBytes ELSE total

\* Two reads one after the other: the bytes of both, the result of the last.
Then(r, rest) == [res |-> rest.res, out |-> r.out \o rest.out]

\* fat16_read_internal_from_stream: read min(total, cluster size) bytes at
\* the offset inside the cluster that holds `offset`, then recurse from the
\* starting cluster for the rest.  Returns [res, out].  ReadInCluster
\* continues once cluster_to_use (c) is known, ReadRest once the stream's
\* read r is done.
RECURSIVE Fat16ReadInternal(_, _, _)
RECURSIVE ReadRest(_, _, _, _)
ReadRest(r, cluster, offset, total) ==
  IF r.res # 0 \/ total - TotalToRead(total) <= 0 THEN r
  ELSE Then(r, Fat16ReadInternal(cluster, offset + TotalToRead(total), total - TotalToRead(total)))
RECURSIVE ReadInCluster(_, _, _, _)
ReadInCluster(c, cluster, offset, total) ==
  IF c < 0 THEN [res |-> c, out |-> <<>>]
  ELSE ReadRest(S!DiskstreamerRead(Fat16ClusterToSector(c) * SectorSize + (offset % ClusterBytes),
                                   TotalToRead(total), DiskFailsPastEnd),
                cluster, offset, total)
Fat16ReadInternal(cluster, offset, total) ==
  ReadInCluster(Fat16GetClusterForOffset(cluster, offset), cluster, offset, total)

\* The nmemb loop of fat16_read: `size` bytes per member from offset on;
\* the first error ends it.  ReadMember continues after a member's read r.
RECURSIVE Fat16ReadMembers(_, _, _, _)
RECURSIVE ReadMember(_, _, _, _, _)
ReadMember(r, cluster, offset, size, n) ==
  IF r.res < 0 THEN r ELSE Then(r, Fat16ReadMembers(cluster, offset + size, size, n - 1))
Fat16ReadMembers(cluster, offset, size, n) ==
  IF n = 0 THEN [res |-> 0, out |-> <<>>]
  ELSE ReadMember(Fat16ReadInternal(cluster, offset, size), cluster, offset, size, n)

\* fat16_read's result after the loop's reads r.
ReadResult(r, nmemb) == [res |-> IF r.res < 0 THEN r.res ELSE nmemb, out |-> r.out]

\* fat16_read on a file item from pos: nmemb on success; pos is not moved.
Fat16Read(item, pos, size, nmemb) ==
  ReadResult(Fat16ReadMembers(Fat16GetFirstCluster(item.item), pos, size, nmemb), nmemb)

(***************************************************************************)
(* Subdirectories and directory lookup                                     *)
(***************************************************************************)

\* fat16_load_fat_directory: the directory's total is counted from its
\* first cluster's sector, and total entries are read through
\* fat16_read_internal (which follows the FAT past the first cluster).
\* When that read fails the directory is freed and still returned.
LoadedDirectory(total, r) == [items |-> DirItems(r.out), total |-> total, freed |-> r.res # 0]
LoadWithTotal(cluster, total) ==
  LoadedDirectory(total, Fat16ReadInternal(cluster, 0, total * ItemBytes))
Fat16LoadFatDirectory(item) ==
  LoadWithTotal(Fat16GetFirstCluster(item),
                Fat16GetTotalItemsForDirectory(Fat16ClusterToSector(Fat16GetFirstCluster(item))))

\* fat16_load_fat_directory of every subdirectory entry on the disk: the
\* result depends only on the disk, so it is computed once.
LoadedDirs == [it \in {Items[a] : a \in DOMAIN Items} |-> Fat16LoadFatDirectory(it)]

\* fat16_new_fat_item_for_directory_item: a subdirectory is loaded, a file
\* keeps a copy of its directory item.
Fat16NewFatItem(item) ==
  IF item.dir THEN [type |-> "dir", dir |-> LoadedDirs[item]]
  ELSE [type |-> "file", item |-> item]

\* directory->item[i]: an index past the entries read, or into a freed
\* directory, reads heap memory that holds no entry of the disk.
DirAt(dir, k) == IF ~dir.freed /\ k \in DOMAIN dir.items THEN dir.items[k] ELSE Junk

\* fat16_find_item_in_directory: the first directory->total entries are
\* compared with the name and the last one that matches wins.
Fat16FindItemInDirectory(dir, name) ==
  LET hits == {k \in 1 .. dir.total : NameMatches(DirAt(dir, k).name, name)}
  IN  IF hits = {} THEN NULL
      ELSE Fat16NewFatItem(DirAt(dir, CHOOSE k \in hits : \A j \in hits : j <= k))

\* The loop of fat16_get_directory_entry over the remaining path parts.
\* When a part is not found and more parts follow, the code reads
\* NULL->type; the model's filenames never reach that case.
RECURSIVE Fat16Walk(_, _)
Fat16Walk(cur, parts) ==
  CASE cur = NULL         -> NULL
    [] parts = <<>>       -> cur
    [] cur.type # "dir"   -> NULL
    [] OTHER -> Fat16Walk(Fat16FindItemInDirectory(cur.dir, Head(parts)), Tail(parts))

\* fat16_get_directory_entry: the first part in the root directory, then
\* one directory level per part.
Fat16GetDirectoryEntry(parts) ==
  Fat16Walk(Fat16FindItemInDirectory(RootDirectory, Head(parts)), Tail(parts))

\* fat16_open after the lookup of the entry `item`.
Opened(item) == IF item = NULL THEN [res |-> EIO, item |-> NULL] ELSE [res |-> 0, item |-> item]

\* fat16_open: read mode only; the directory entry must exist.  The result
\* is an error, or 0 with the FAT item of the new FAT_FileDescriptor
\* (whose pos is 0).
Fat16Open(parts, mode) ==
  IF mode # "READ" THEN [res |-> ERDONLY, item |-> NULL]
  ELSE Opened(Fat16GetDirectoryEntry(parts))

\* fat16_seek: a directory item is refused; an offset at or past the file
\* size is refused; SEEK_SET sets pos, SEEK_CUR adds the offset to it,
\* SEEK_END is not implemented.
Fat16Seek(item, pos, offset, whence) ==
  CASE item.type # "file"        -> [res |-> EINVARG, pos |-> pos]
    [] offset >= item.item.size  -> [res |-> EIO, pos |-> pos]
    [] whence = "SEEK_SET"       -> [res |-> 0, pos |-> offset]
    [] whence = "SEEK_CUR"       -> [res |-> 0, pos |-> pos + offset]
    [] OTHER                     -> [res |-> -5, pos |-> pos]

\* FILE_STAT_READ_ONLY
FileStatReadOnly == 1

\* Seeded fault: the read-only attribute is not copied into the flags.
Fat16StatNoReadOnly(item) ==
  IF item.type # "file" THEN [res |-> EINVARG, stat |-> NULL]
  ELSE [res |-> 0, stat |-> [filesize |-> item.item.size, flags |-> 0]]

\* fat16_stat: a directory item is refused; a file's stat is its filesize
\* and FILE_STAT_READ_ONLY when its attribute has FAT_FILE_READ_ONLY.
Fat16Stat(item) ==
  IF item.type # "file" THEN [res |-> EINVARG, stat |-> NULL]
  ELSE [res |-> 0, stat |-> [filesize |-> item.item.size,
                             flags    |-> IF item.item.ro THEN FileStatReadOnly ELSE 0]]

(***************************************************************************)
(* Reference: a file's bytes are the bytes of the clusters of its chain    *)
(* in the FAT (the entry of cluster c at byte 2c of the first FAT), in     *)
(* chain order, cut at the file size.                                      *)
(***************************************************************************)

FatEntryAt(c) ==
  LET a == ReservedSectors * SectorSize + 2 * c IN DiskByte(a) + 256 * DiskByte(a + 1)

RECURSIVE Chain(_, _)
Chain(c, n) == IF n = 0 \/ FatEntryAt(c) >= 65528 THEN <<c>>
               ELSE <<c>> \o Chain(FatEntryAt(c), n - 1)

\* The data region starts after the root directory with cluster 2.
ClusterData(c) ==
  [k \in 1 .. ClusterBytes |-> RootEnd * SectorSize + (c - 2) * ClusterBytes + k - 1]

FileBytes(item) ==
  LET cs == Chain(item.high * 65536 + item.low, NSectors)
  IN  SubSeq(FlattenSeq([k \in DOMAIN cs |-> ClusterData(cs[k])]), 1, item.size)

\* The live entries of a directory by the FAT layout: those before the
\* first entry whose first byte is 0x00, except the unused ones (0xE5).
LiveItems(addrs) ==
  LET ends == {k \in DOMAIN addrs : DiskByte(addrs[k]) = 0}
      upto == IF ends = {} THEN addrs ELSE SubSeq(addrs, 1, Min(ends) - 1)
      used == SelectSeq(upto, LAMBDA a : DiskByte(a) # 229)
  IN  [k \in DOMAIN used |-> DirItem(used[k])]

\* The root directory's root_dir_entries entries, after the FATs.
RootLive ==
  LET first == (Header.fat_copies * Header.sectors_per_fat + ReservedSectors) * SectorSize
  IN  LiveItems([k \in 1 .. Header.root_dir_entries |-> first + (k - 1) * ItemBytes])

\* A subdirectory's entries fill the clusters of its chain.
SubdirLive(item) ==
  LET cs == Chain(item.high * 65536 + item.low, NSectors)
  IN  LiveItems(EntriesOf(FlattenSeq([k \in DOMAIN cs |-> ClusterData(cs[k])])))

\* The live item a path names, found one directory level per part.
RECURSIVE LookupLive(_, _)
LookupLive(items, parts) ==
  LET hits == {k \in DOMAIN items : NameMatches(items[k].name, Head(parts))}
      it   == items[CHOOSE k \in hits : TRUE]
  IN  CASE hits = {}        -> NULL
        [] Tail(parts) = <<>> -> it
        [] ~it.dir          -> NULL
        [] OTHER            -> LookupLive(SubdirLive(it), Tail(parts))

\* What a caller can see of a FAT item: a file's directory item, or the
\* entries fat16_find_item_in_directory would search in a directory.
Listing(dir) == [k \in 1 .. dir.total |-> DirAt(dir, k)]
Seen(fi) ==
  CASE fi = NULL         -> NULL
    [] fi.type = "file"  -> fi.item
    [] OTHER             -> Listing(fi.dir)
SeenLive(it) ==
  CASE it = NULL -> NULL
    [] ~it.dir   -> it
    [] OTHER     -> SubdirLive(it)

LookupAgrees(parts) == Seen(Fat16GetDirectoryEntry(parts)) = SeenLive(LookupLive(RootLive, parts))
====
