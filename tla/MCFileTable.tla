---------------------------- MODULE MCFileTable ----------------------------
EXTENDS FileTable, SequencesExt, TLC

\* A FAT16 disk with 2-byte sectors and 2-sector (4-byte) clusters, and
\* directory entries of one byte (sizeof(struct FAT_DirectoryItem) = 32
\* stands for 1): one reserved sector, one FAT in sectors 1-5 (the entry of
\* cluster c at byte 2 + 2c), the root directory's four entries in sectors
\* 6-7 (bytes 12-15), so data starts at sector 8: cluster 2 is bytes
\* 16-19, cluster 3 bytes 20-23, cluster 4 bytes 24-27.
MCHeader == [fat_copies |-> 1, sectors_per_fat |-> 5, reserved_sectors |-> 1,
             root_dir_entries |-> 4, sectors_per_cluster |-> 2, signature |-> 41]
EndOfChain == 65528

\* The disk bytes for a FAT and the first bytes of the directory entries:
\* fat[c] little-endian at byte 2 + 2c, the entries' bytes as given, data
\* bytes 1.
ImageOf(fat, entries) ==
  [a \in 0 .. 27 |->
     CASE a \in 2 .. 11 -> LET c == (a - 2) \div 2
                           IN  IF (a - 2) % 2 = 0 THEN fat[c] % 256 ELSE fat[c] \div 256
       [] a \in DOMAIN entries -> entries[a]
       [] OTHER -> 1]

Item(n, d, cl, sz) == [name |-> n, dir |-> d, ro |-> FALSE, high |-> 0, low |-> cl, size |-> sz]

\* One-cluster files: "a" (3 bytes, cluster 3) in the root directory and
\* the read-only "d/a" (4 bytes, cluster 2) in directory "d" (cluster 4).
\* Each directory ends with 0x00 entries.
MCImage == ImageOf([c \in 0 .. 4 |-> IF c >= 2 THEN EndOfChain ELSE 0],
                   (12 :> 65) @@ (13 :> 68) @@ (14 :> 0) @@ (15 :> 0) @@
                   (24 :> 65) @@ (25 :> 0) @@ (26 :> 0) @@ (27 :> 0))
MCItems == (12 :> Item(<<"a">>, FALSE, 3, 3)) @@ (13 :> Item(<<"d">>, TRUE, 4, 0)) @@
           (24 :> [Item(<<"a">>, FALSE, 2, 4) EXCEPT !.ro = TRUE])

\* The same files with a deleted file ahead of them in the root directory:
\* its entry's first byte is 0xE5.
MCImageDeleted == ImageOf([c \in 0 .. 4 |-> IF c >= 2 THEN EndOfChain ELSE 0],
                          (12 :> 229) @@ (13 :> 65) @@ (14 :> 68) @@ (15 :> 0) @@
                          (24 :> 65) @@ (25 :> 0) @@ (26 :> 0) @@ (27 :> 0))
MCItemsDeleted == (12 :> Item(<<"E5">>, FALSE, 2, 1)) @@ (13 :> Item(<<"a">>, FALSE, 3, 3)) @@
                  (14 :> Item(<<"d">>, TRUE, 4, 0)) @@ (24 :> Item(<<"a">>, FALSE, 2, 4))

\* A two-cluster file "b" of 7 bytes whose chain is 2 -> 4, with "a" in
\* cluster 3 between them.
MCImageChain == ImageOf([c \in 0 .. 4 |-> CASE c = 2 -> 4 [] c \in {3, 4} -> EndOfChain [] OTHER -> 0],
                        (12 :> 65) @@ (13 :> 66) @@ (14 :> 0) @@ (15 :> 0))
MCItemsChain == (12 :> Item(<<"a">>, FALSE, 3, 3)) @@ (13 :> Item(<<"b">>, FALSE, 2, 7))

\* "0:/a", "0:/A", "0:/d/a", "0:/d", "0:/b", "0:/a/b", "1:/a", "0:/"
MCFilenames == {<<"0", ":", "/", "a">>, <<"0", ":", "/", "A">>,
                <<"0", ":", "/", "d", "/", "a">>, <<"0", ":", "/", "d">>,
                <<"0", ":", "/", "b">>, <<"0", ":", "/", "a", "/", "b">>,
                <<"1", ":", "/", "a">>, <<"0", ":", "/">>}

MCModeStrs == {<<"r">>, <<"w">>}
MCDrives == {0}
MCOffsets == {0, 1, 2, 3}
MCSizes == {0, 1, 2, 3}
MCCounts == {1, 2}

\* Every path of up to MaxPath + 1 characters over a drive digit, a name
\* character, ':' and '/'.
MCParsePaths == BoundedSeq({"0", "a", ":", "/"}, 7)
====
