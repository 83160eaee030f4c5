------------------------------ MODULE Streamer ------------------------------
(***************************************************************************)
(* The byte stream over a disk of src/disk/streamer.c.  A stream has a     *)
(* byte position; diskstreamer_read reads the sector holding pos into a    *)
(* sector buffer, copies from it, and recurses for what is left.  The disk *)
(* holds NSectors sectors of SectorSize bytes; a copied byte is named by   *)
(* its disk address.  disk_read_block (src/disk/disk.c is not in the       *)
(* repository) reads the sectors of the disk; for a sector past its end it *)
(* may fail or return whatever the controller gives; the caller of        *)
(* DiskstreamerRead says which (failPast).  A stream is its position: the  *)
(* FAT16 driver seeks its streams before every read, so the read takes the *)
(* position and returns the new one.                                       *)
(***************************************************************************)
EXTENDS Naturals, Integers, Sequences, SequencesExt

CONSTANTS
  SectorSize,  \* BIMBLEOS_SECTOR_SIZE
  NSectors,    \* sectors on the disk
  NULL

EIO == -1

\* buff[k] after disk_read_block(sector): the disk byte at sector * SectorSize
\* + k; past the end of the stack buffer the copy reads whatever lies there
\* (NULL: a byte that is no byte of the disk).
SectorByte(sector, k) == IF k < SectorSize THEN sector * SectorSize + k ELSE NULL

\* diskstreamer_read(stream, out, total): returns the new position, the
\* bytes copied, the sectors passed to disk_read_block, and the result.  A
\* read reaching the sector end exactly still recurses, with total 0.
RECURSIVE DiskstreamerRead(_, _, _)
DiskstreamerRead(p, total, failPast) ==
  LET sector == p \div SectorSize
      offset == p % SectorSize
      overflow == offset + total >= SectorSize
      toRead == IF overflow THEN total - ((offset + total) - SectorSize) ELSE total
  IN  IF sector >= NSectors /\ failPast
        THEN [pos |-> p, out |-> <<>>, sectors |-> <<sector>>, res |-> EIO]
        ELSE LET here == [i \in 1 .. toRead |-> SectorByte(sector, offset + i - 1)]
             IN  IF overflow
                   THEN LET r == DiskstreamerRead(p + toRead, total - toRead, failPast)
                        IN  [r EXCEPT !.out = here \o r.out, !.sectors = <<sector>> \o r.sectors]
                   ELSE [pos |-> p + toRead, out |-> here, sectors |-> <<sector>>, res |-> 0]
====
