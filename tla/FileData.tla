------------------------------ MODULE FileData ------------------------------
(***************************************************************************)
(* Where the bytes of files are: the sector map, the sectors of each file  *)
(* and its size, the position of each open file, and which bytes of the    *)
(* disk a read or a write moves (src/task/fs/read_write.c, do_lseek and    *)
(* alloc_sect_map_bit of open_close.c, clear_sector_map_bits of unlink.c,  *)
(* and what mkfs writes, in fs.c).  FS serves one request at a time, so a  *)
(* request is one step.                                                    *)
(*                                                                         *)
(* Names, the inode map and references are module FileTable's: a file here *)
(* is a name with an inode, and an inode is as large in the cache as on    *)
(* disk, since write_inode follows every change of it.  What the bytes are *)
(* is left out: a transfer is the sequence of the addresses of its bytes.  *)
(***************************************************************************)
EXTENDS Integers, FiniteSets, FiniteSetsExt, Sequences, SequencesExt

CONSTANTS Files, CmdTar,        \* regular files; the one mkfs makes
          Fds,                  \* open files
          SECTOR_SIZE,          \* bytes of a sector
          BYTE_BITS,            \* bits of a byte of the sector map: 8
          nr_sect_map_sects, nr_1st_data_sect,  \* of the super block
          NR_FILE_SECTS, INSTALL_START_SECT, INSTALL_NR_SECTS,
          FS_BUF_SECTS,         \* FS_BUF_SIZE >> SECTOR_SIZE_SHIFT
          Offsets,              \* what lseek is asked for
          MaxLen,               \* bound: bytes of a read or write
          MaxPos                \* bound: the largest position of an open file

ASSUME FileDataAssumption ==
    /\ CmdTar \in Files
    /\ {SECTOR_SIZE, BYTE_BITS, nr_sect_map_sects, nr_1st_data_sect, NR_FILE_SECTS,
        INSTALL_NR_SECTS, FS_BUF_SECTS} \subseteq Nat \ {0}
    /\ Offsets \subseteq Int
    /\ INSTALL_START_SECT \in Nat /\ MaxLen \in Nat /\ MaxPos \in Nat
    /\ INSTALL_START_SECT >= nr_1st_data_sect + NR_FILE_SECTS

SECTOR_BITS == SECTOR_SIZE * BYTE_BITS
Bits == 0 .. nr_sect_map_sects * SECTOR_BITS - 1
BitOf(sect) == sect - nr_1st_data_sect + 1
SectOf(bit) == bit - 1 + nr_1st_data_sect
Run(first, n) == first .. first + n - 1

\* The assert of create_cmd_dot_tar: the sectors of cmd.tar are on the disk, and
\* the map, of nr_sects / SECTOR_BITS + 1 sectors, has a bit for each of them.
ASSUME InstallFits == Run(BitOf(INSTALL_START_SECT), INSTALL_NR_SECTS) \subseteq Bits

VARIABLES sector_map,   \* the bits that are set
          inode,        \* of each file: where it is, or NoFile
          desc,         \* of each open file: its name and position, or Closed
          halted        \* which assert has failed

vars == <<sector_map, inode, desc, halted>>

NoFile == [sect_start |-> 0, nr_sects |-> 0, file_size |-> 0]
Closed == [file |-> "", pos |-> 0]
Exists(f) == inode[f] # NoFile
IsOpen(f) == \E d \in Fds : desc[d].file = f

\* create_sector_map and create_cmd_dot_tar: bit 0 is no sector, the root
\* directory is behind it.
NewMap == Run(0, NR_FILE_SECTS + 1) \cup Run(BitOf(INSTALL_START_SECT), INSTALL_NR_SECTS)

Init ==
    /\ sector_map = NewMap
    /\ inode = [f \in Files |->
                  IF f = CmdTar
                  THEN [sect_start |-> INSTALL_START_SECT, nr_sects |-> INSTALL_NR_SECTS,
                        file_size |-> INSTALL_NR_SECTS * SECTOR_SIZE]
                  ELSE NoFile]
    /\ desc = [d \in Fds |-> Closed]
    /\ halted = "no"

-----------------------------------------------------------------------------
(* The sector map *)

\* The first sector of a run that begins at bit first.
alloc_sect_map_bit(first) == SectOf(first)

FreeBits == Bits \ sector_map
FirstFree == Min(FreeBits)

\* The asserts of alloc_sect_map_bit: all bits behind the first free one, as many
\* as there are sectors to allocate, are in the map and free.
HasRun(n) == FreeBits # {} /\ Run(FirstFree, n) \subseteq FreeBits

\* Division of C, which rounds towards 0.
Quotient(a, b) == IF a >= 0 THEN a \div b ELSE -((-a) \div b)

\* Fault: the first byte is taken for a whole one.
clear_sector_map_bits_WholeByte(start, n) ==
    LET byte == start \div BYTE_BITS
        byte_cnt == n \div BYTE_BITS
        left == n % BYTE_BITS
    IN  {b \in Bits : \/ b >= start /\ b \div BYTE_BITS = byte
                      \/ b \div BYTE_BITS \in Run(byte + 1, byte_cnt)
                      \/ b \in Run((byte + byte_cnt + 1) * BYTE_BITS, left)}

\* The bits that clear_sector_map_bits clears: those of the first byte, those of
\* the bytes that are cleared as a whole, those of the last one.
clear_sector_map_bits(start, n) ==
    LET byte == start \div BYTE_BITS
        byte_cnt == Quotient(n - (BYTE_BITS - (start % BYTE_BITS)), BYTE_BITS)
        first == {b \in Run(start, n) : b \div BYTE_BITS = byte}
        left == n - Cardinality(first) - byte_cnt * BYTE_BITS
    IN  first \cup {b \in Bits : b \div BYTE_BITS \in Run(byte + 1, byte_cnt)}
              \cup Run((byte + byte_cnt + 1) * BYTE_BITS, left)

-----------------------------------------------------------------------------
(* open, close, unlink and lseek *)

\* do_open of d: a file that is not there is created; O_TRUNC empties it.
Open(d, f, trunc) ==
    /\ halted = "no" /\ desc[d] = Closed
    /\ IF ~Exists(f) /\ ~HasRun(NR_FILE_SECTS)
       THEN halted' = "alloc" /\ UNCHANGED <<sector_map, inode, desc>>
       ELSE /\ sector_map' = IF Exists(f) THEN sector_map
                             ELSE sector_map \cup Run(FirstFree, NR_FILE_SECTS)
            /\ inode' = [inode EXCEPT ![f] =
                 IF ~Exists(f)
                 THEN [sect_start |-> alloc_sect_map_bit(FirstFree),
                       nr_sects |-> NR_FILE_SECTS, file_size |-> 0]
                 ELSE IF trunc THEN [@ EXCEPT !.file_size = 0] ELSE @]
            /\ desc' = [desc EXCEPT ![d] = [file |-> f, pos |-> 0]]
            /\ UNCHANGED halted

Close(d) ==
    /\ halted = "no" /\ desc[d] # Closed
    /\ desc' = [desc EXCEPT ![d] = Closed]
    /\ UNCHANGED <<sector_map, inode, halted>>

\* do_unlink, which refuses a file that is open; the asserts of
\* clear_sector_map_bits.
Unlink(f) ==
    LET bits == clear_sector_map_bits(BitOf(inode[f].sect_start), inode[f].nr_sects)
    IN  /\ halted = "no" /\ Exists(f) /\ ~IsOpen(f)
        /\ IF bits \subseteq sector_map
           THEN /\ sector_map' = sector_map \ bits
                /\ inode' = [inode EXCEPT ![f] = NoFile]
                /\ UNCHANGED halted
           ELSE halted' = "unlink" /\ UNCHANGED <<sector_map, inode>>
        /\ UNCHANGED desc

do_lseek(d, off, whence) ==
    LET size == inode[desc[d].file].file_size
        pos == off + (CASE whence = "SEEK_SET" -> 0
                        [] whence = "SEEK_CUR" -> desc[d].pos
                        [] whence = "SEEK_END" -> size)
    IN  /\ halted = "no" /\ desc[d] # Closed
        /\ pos \in 0 .. size
        /\ desc' = [desc EXCEPT ![d].pos = pos]
        /\ UNCHANGED <<sector_map, inode, halted>>

-----------------------------------------------------------------------------
(* read and write *)

\* Fault: a chunk after the first one begins where the first one did.
MoveChunk_KeepOffset(s, j, sect_min, chunk, offset, len) ==
    LET n == Min({len - Len(s), chunk * SECTOR_SIZE - offset})
        sect == sect_min + (j - 1) * chunk
    IN  s \o [k \in 1 .. n |-> sect * SECTOR_SIZE + offset + k - 1]

\* Turn j of the loop of do_read_write_regular, after the bytes s of the disk.
MoveChunk(s, j, sect_min, chunk, offset, len) ==
    LET off == IF j = 1 THEN offset ELSE 0
        n == Min({len - Len(s), chunk * SECTOR_SIZE - off})
        sect == sect_min + (j - 1) * chunk
    IN  s \o [k \in 1 .. n |-> sect * SECTOR_SIZE + off + k - 1]

\* The loop: the bytes of the disk that nr_chunks turns copy, in order.
MoveChunks(nr_chunks, sect_min, chunk, offset, len) ==
    LET moved[j \in 0 .. nr_chunks] ==
            IF j = 0 THEN << >>
            ELSE MoveChunk(moved[j - 1], j, sect_min, chunk, offset, len)
    IN  moved[nr_chunks]

\* As in the code, len is not cut down to what lies before pos_end.
Transfer(sect_start, pos_end, pos, len) ==
    LET sect_min == sect_start + pos \div SECTOR_SIZE
        sect_max == sect_start + pos_end \div SECTOR_SIZE
        chunk == Min({sect_max - sect_min + 1, FS_BUF_SECTS})
        nr_chunks == IF sect_max < sect_min THEN 0 ELSE (sect_max - sect_min) \div chunk + 1
    IN  MoveChunks(nr_chunks, sect_min, chunk, pos % SECTOR_SIZE, len)

Capacity(f) == inode[f].nr_sects * SECTOR_SIZE

\* The bytes that a read or write of an open file moves.
Moved(d, type, len) ==
    LET f == desc[d].file
        end == IF type = "read" THEN inode[f].file_size ELSE Capacity(f)
    IN  Transfer(inode[f].sect_start, Min({desc[d].pos + len, end}), desc[d].pos, len)

\* A position behind the end of the file makes the file longer, for a read too.
do_read_write_regular(d, type, len) ==
    LET pos == desc[d].pos + Len(Moved(d, type, len))
    IN  /\ halted = "no" /\ desc[d] # Closed /\ pos <= MaxPos
        /\ desc' = [desc EXCEPT ![d].pos = pos]
        /\ inode' = [inode EXCEPT ![desc[d].file].file_size = Max({@, pos})]
        /\ UNCHANGED <<sector_map, halted>>

Next == \/ \E d \in Fds, f \in Files, trunc \in BOOLEAN : Open(d, f, trunc)
        \/ \E d \in Fds : Close(d)
        \/ \E f \in Files : Unlink(f)
        \/ \E d \in Fds, off \in Offsets,
              whence \in {"SEEK_SET", "SEEK_CUR", "SEEK_END"} : do_lseek(d, off, whence)
        \/ \E d \in Fds, type \in {"read", "write"}, len \in 0 .. MaxLen :
              do_read_write_regular(d, type, len)

Spec == Init /\ [][Next]_vars

-----------------------------------------------------------------------------
(* Properties *)

Extent(f) == Run(inode[f].sect_start, inode[f].nr_sects)

\* The map has the bits of the root directory and of the files there are, and no
\* others, and no two files have a sector in common: nothing is lost when files
\* are removed, and no assert of clear_sector_map_bits fails.
MapMatchesFiles ==
    /\ halted # "unlink"
    /\ sector_map = {0} \cup {BitOf(s) : s \in Run(nr_1st_data_sect, NR_FILE_SECTS)
                                               \cup UNION {Extent(f) : f \in Files}}
    /\ \A f, g \in Files : f # g => Extent(f) \cap Extent(g) = {}

\* A read that ends within the file, and a write that ends within its sectors,
\* move exactly the bytes at the position of the descriptor, in order, whatever
\* the sectors and the chunks are that they are in.
TransferExact ==
    \A d \in {x \in Fds : desc[x] # Closed}, type \in {"read", "write"}, len \in 0 .. MaxLen :
        LET f == desc[d].file
            pos == desc[d].pos
            limit == IF type = "read" THEN inode[f].file_size ELSE Capacity(f)
        IN  pos + len <= limit =>
                Moved(d, type, len) =
                    [k \in 1 .. len |-> inode[f].sect_start * SECTOR_SIZE + pos + k - 1]

\* What do_read_write says: the sectors that are written were allocated for the
\* file when it was created.
WrittenIsAllocated ==
    \A d \in {x \in Fds : desc[x] # Closed}, len \in 0 .. MaxLen :
        \A byte \in ToSet(Moved(d, "write", len)) :
            byte \div SECTOR_SIZE \in Extent(desc[d].file)
=============================================================================
