--------------------------- MODULE FileDataProofs ---------------------------
(***************************************************************************)
(* The sector map and the sectors of the files agree, and a transfer moves *)
(* the bytes it is asked for, for any size of sectors, bytes, map, buffer  *)
(* and files.                                                              *)
(***************************************************************************)
EXTENDS FileData, FiniteSetTheorems, SequenceTheorems,
        WellFoundedInduction, TLAPS

-----------------------------------------------------------------------------
(* Arithmetic *)

LEMMA Products ==
    ASSUME NEW a \in Int, NEW b \in Int, NEW n \in Nat, a <= b
    PROVE  a * n \in Int /\ b * n \in Int /\ a * n <= b * n
<1>1. b - a \in Nat
  OBVIOUS
<1>2. (b - a) * n \in Nat
  BY <1>1
<1>3. (b - a) * n = b * n - a * n
  OBVIOUS
<1> QED
  BY <1>2, <1>3

\* The quotient of a division is the only one whose multiple fits.
LEMMA Division ==
    ASSUME NEW a \in Int, NEW n \in Nat \ {0}, NEW q \in Int
    PROVE  a \div n = q <=> q * n <= a /\ a < q * n + n
<1>1. /\ a \div n \in Int /\ (a \div n) * n <= a /\ a < (a \div n) * n + n
  BY SMTT(30)
<1>2. PICK d \in Int : d = a \div n
  BY <1>1
<1>3. CASE d + 1 <= q
  <2>1. (d + 1) * n <= q * n
    BY <1>3, Products
  <2>2. (d + 1) * n = d * n + n
    OBVIOUS
  <2> QED
    BY <1>1, <1>2, <1>3, <2>1, <2>2
<1>4. CASE q + 1 <= d
  <2>1. (q + 1) * n <= d * n
    BY <1>4, Products
  <2>2. (q + 1) * n = q * n + n
    OBVIOUS
  <2> QED
    BY <1>1, <1>2, <1>4, <2>1, <2>2
<1>5. CASE q = d
  BY <1>1, <1>2, <1>5
<1> QED
  BY <1>3, <1>4, <1>5

LEMMA Remainder ==
    ASSUME NEW a \in Int, NEW n \in Nat \ {0}
    PROVE  /\ a \div n \in Int /\ a % n \in Int
           /\ a % n = a - (a \div n) * n
           /\ 0 <= a % n /\ a % n < n
<1> QED
  BY SMTT(30)

LEMMA LeastMember ==
    ASSUME NEW S, S \subseteq Nat, S # {}
    PROVE  \E x \in S : \A y \in S : x <= y
<1> DEFINE R == OpToRel(<, Nat)
<1>1. PICK x \in S : \A y \in S : ~(<<y, x>> \in R)
  <2> HIDE DEF R
  <2>1. IsWellFoundedOn(R, Nat)
    BY NatLessThanWellFounded DEF R
  <2> QED
    BY <2>1, WFMin
<1>2. \A y \in S : x <= y
  <2> TAKE y \in S
  <2>1. ~(y < x)
    BY <1>1 DEF OpToRel
  <2> QED
    BY <2>1
<1> QED
  BY <1>2

LEMMA QuotientNat ==
    ASSUME NEW a \in Nat, NEW n \in Nat \ {0}
    PROVE  a \div n \in Nat
BY SMTT(30)

LEMMA ProductAssociative ==
    ASSUME NEW a \in Nat, NEW b \in Nat, NEW c \in Nat
    PROVE  a * (b * c) = (a * b) * c
OBVIOUS

LEMMA IsSeq ==
    ASSUME NEW n \in Nat, NEW s \in [1 .. n -> Int]
    PROVE  s \in Seq(Int) /\ Len(s) = n
OBVIOUS

LEMMA RunCardinality ==
    ASSUME NEW a \in Int, NEW n \in Nat
    PROVE  Cardinality(Run(a, n)) = n
<1>1. Cardinality(a .. a + n - 1) = IF a > a + n - 1 THEN 0 ELSE (a + n - 1) - a + 1
  BY FS_Interval
<1> QED
  BY <1>1 DEF Run

-----------------------------------------------------------------------------
(* clear_sector_map_bits *)

\* Clearing the bits in the first byte, whole bytes and the bits left over clears
\* the n bits from start on and no others, wherever in a byte they begin and end.
LEMMA ClearsRun ==
    ASSUME NEW start \in Nat, NEW n \in Nat \ {0}, Run(start, n) \subseteq Bits
    PROVE  clear_sector_map_bits(start, n) = Run(start, n)
<1>0. BYTE_BITS \in Nat \ {0}
  BY FileDataAssumption
<1>1. PICK q \in Int : q = start \div BYTE_BITS
  BY <1>0, Remainder
<1>2. PICK end \in Int : end = q * BYTE_BITS + BYTE_BITS
  <2>1. q * BYTE_BITS \in Int
    BY <1>0, Products
  <2> QED
    BY <1>0, <2>1
<1>3. q * BYTE_BITS <= start /\ start < end
  BY <1>0, <1>1, <1>2, Division
<1>4. BYTE_BITS - (start % BYTE_BITS) = end - start
  BY <1>0, <1>1, <1>2, Remainder
<1>5. PICK first : first = {b \in Run(start, n) : b \div BYTE_BITS = q}
  OBVIOUS
<1>6. \A b \in Run(start, n) : b \div BYTE_BITS = q <=> b < end
  <2> SUFFICES ASSUME NEW b \in Run(start, n) PROVE b \div BYTE_BITS = q <=> b < end
    OBVIOUS
  <2>1. b \in Int /\ start <= b
    BY DEF Run
  <2>2. b \div BYTE_BITS = q <=> q * BYTE_BITS <= b /\ b < q * BYTE_BITS + BYTE_BITS
    BY <1>0, <2>1, Division
  <2>3. q * BYTE_BITS \in Int
    BY <1>0, Products
  <2> QED
    BY <1>2, <1>3, <2>1, <2>2, <2>3
<1>7. first = {b \in Run(start, n) : b < end}
  BY <1>5, <1>6
<1>8. CASE n < end - start
  <2>1. PICK m \in Nat : m = end - start - n /\ m < BYTE_BITS
    BY <1>0, <1>1, <1>2, <1>3, <1>8
  <2>2. Quotient(n - (end - start), BYTE_BITS) = 0
    <3>1. n - (end - start) = -m /\ ~(-m >= 0) /\ -(-m) = m
      BY <1>2, <1>8, <2>1
    <3>2. m \div BYTE_BITS = 0
      BY <1>0, <2>1, Division
    <3> QED
      BY <3>1, <3>2 DEF Quotient
  <2>3. first = Run(start, n)
    BY <1>2, <1>7, <1>8 DEF Run
  <2>4. n - Cardinality(first) - 0 * BYTE_BITS = 0
    BY <1>0, <2>3, RunCardinality
  <2>5. Run(q + 1, 0) = {} /\ Run((q + 0 + 1) * BYTE_BITS, 0) = {}
    <3>1. (q + 0 + 1) * BYTE_BITS \in Int
      BY <1>0, <1>1
    <3> QED
      BY <1>1, <3>1 DEF Run
  <2> QED
    BY <1>1, <1>4, <1>5, <2>2, <2>3, <2>4, <2>5 DEF clear_sector_map_bits
<1>9. CASE n >= end - start
  <2>1. PICK m \in Nat : m = n - (end - start)
    BY <1>2, <1>9
  <2>2. PICK c \in Int : c = m \div BYTE_BITS
    BY <1>0, <2>1, Remainder
  <2>3. c \in Nat /\ c * BYTE_BITS \in Nat /\ c * BYTE_BITS <= m /\ m < c * BYTE_BITS + BYTE_BITS
    <3>1. c * BYTE_BITS <= m /\ m < c * BYTE_BITS + BYTE_BITS
      BY <1>0, <2>1, <2>2, Division
    <3>2. c >= 0
      <4>1. SUFFICES ASSUME c + 1 <= 0 PROVE FALSE
        BY <2>2
      <4>2. (c + 1) * BYTE_BITS <= 0 * BYTE_BITS
        BY <1>0, <4>1, Products
      <4>3. (c + 1) * BYTE_BITS = c * BYTE_BITS + BYTE_BITS /\ 0 * BYTE_BITS = 0
        BY <1>0
      <4> QED
        BY <1>0, <2>1, <3>1, <4>2, <4>3
    <3> QED
      BY <1>0, <3>1, <3>2
  <2>4. Quotient(n - (end - start), BYTE_BITS) = c
    BY <2>1, <2>2 DEF Quotient
  <2>5. first = Run(start, end - start)
    BY <1>2, <1>3, <1>7, <1>9 DEF Run
  <2>6. PICK left \in Nat : left = n - Cardinality(first) - c * BYTE_BITS /\ left = m - c * BYTE_BITS
    <3>1. Cardinality(first) = end - start
      BY <1>2, <1>3, <2>5, RunCardinality
    <3> QED
      BY <1>2, <2>1, <2>3, <3>1
  <2>7. PICK stop \in Int : stop = end + c * BYTE_BITS
    BY <1>2, <2>3
  <2>8. (q + c + 1) * BYTE_BITS = stop
    BY <1>0, <1>1, <1>2, <2>3, <2>7
  <2>9. Run((q + c + 1) * BYTE_BITS, left) = stop .. start + n - 1
    <3>1. stop + left = start + n
      BY <1>2, <2>1, <2>3, <2>6, <2>7
    <3> QED
      BY <2>8, <3>1 DEF Run
  <2>10. \A b \in Int : b \div BYTE_BITS \in Run(q + 1, c) <=> end <= b /\ b < stop
    <3> SUFFICES ASSUME NEW b \in Int
                 PROVE  b \div BYTE_BITS \in Run(q + 1, c) <=> end <= b /\ b < stop
      OBVIOUS
    <3>1. PICK d \in Int : d = b \div BYTE_BITS
      BY <1>0, Remainder
    <3>2. d * BYTE_BITS <= b /\ b < d * BYTE_BITS + BYTE_BITS
      BY <1>0, <3>1, Division
    <3>3. (q + 1) * BYTE_BITS = end /\ (d + 1) * BYTE_BITS = d * BYTE_BITS + BYTE_BITS
      BY <1>0, <1>2
    <3>4. CASE d <= q
      <4>1. (d + 1) * BYTE_BITS <= (q + 1) * BYTE_BITS
        BY <1>0, <3>4, Products
      <4> QED
        BY <1>0, <1>2, <3>1, <3>2, <3>3, <3>4, <4>1 DEF Run
    <3>5. CASE d >= q + c + 1
      <4>1. (q + c + 1) * BYTE_BITS <= d * BYTE_BITS
        BY <1>0, <2>3, <3>5, Products
      <4> QED
        BY <1>0, <2>3, <2>8, <3>1, <3>2, <3>5, <4>1 DEF Run
    <3>6. CASE q + 1 <= d /\ d <= q + c
      <4>1. (q + 1) * BYTE_BITS <= d * BYTE_BITS
        BY <1>0, <3>6, Products
      <4>2. (d + 1) * BYTE_BITS <= (q + c + 1) * BYTE_BITS
        BY <1>0, <2>3, <3>6, Products
      <4> QED
        BY <1>0, <1>2, <2>3, <2>8, <3>1, <3>2, <3>3, <3>6, <4>1, <4>2 DEF Run
    <3> QED
      BY <2>3, <3>4, <3>5, <3>6
  <2>11. Bits \subseteq Int
    BY FileDataAssumption DEF Bits, SECTOR_BITS
  <2>12. {b \in Bits : b \div BYTE_BITS \in Run(q + 1, c)} = {b \in Bits : end <= b /\ b < stop}
    BY <2>10, <2>11
  <2>13. stop <= start + n
    BY <1>2, <2>1, <2>3, <2>7
  <2>14. end <= stop
    BY <1>2, <2>3, <2>7
  <2>15. Run(start, n) = Run(start, end - start) \cup {b \in Bits : end <= b /\ b < stop} \cup (stop .. start + n - 1)
    <3>1. ASSUME NEW b \in Run(start, n)
          PROVE  b \in Run(start, end - start) \cup {x \in Bits : end <= x /\ x < stop} \cup (stop .. start + n - 1)
      BY <1>2, <2>7 DEF Run
    <3>2. Run(start, end - start) \subseteq Run(start, n) /\ (stop .. start + n - 1) \subseteq Run(start, n)
      BY <1>2, <1>3, <1>9, <2>7, <2>14 DEF Run
    <3>3. ASSUME NEW b \in Bits, end <= b, b < stop PROVE b \in Run(start, n)
      BY <1>2, <1>3, <2>7, <2>11, <2>13, <3>3 DEF Run
    <3> QED
      BY <3>1, <3>2, <3>3
  <2>16. clear_sector_map_bits(start, n)
           = first \cup {b \in Bits : b \div BYTE_BITS \in Run(q + 1, c)} \cup Run((q + c + 1) * BYTE_BITS, left)
    BY <1>1, <1>4, <1>5, <2>4, <2>6 DEF clear_sector_map_bits
  <2> QED
    BY <2>5, <2>9, <2>12, <2>15, <2>16
<1> QED
  BY <1>2, <1>8, <1>9

-----------------------------------------------------------------------------
(* The invariant *)

\* The bits of the sectors of a file.
FileBits(f) == Run(BitOf(inode[f].sect_start), inode[f].nr_sects)

\* A file that is there lies behind the root directory, and its bits in the map.
Placed ==
    /\ inode = [f \in Files |-> inode[f]]
    /\ \A f \in Files :
         \/ inode[f] = NoFile
         \/ /\ inode[f] = [sect_start |-> inode[f].sect_start, nr_sects |-> inode[f].nr_sects,
                           file_size |-> inode[f].file_size]
            /\ inode[f].sect_start \in Nat /\ inode[f].nr_sects \in Nat \ {0}
            /\ inode[f].sect_start >= nr_1st_data_sect + NR_FILE_SECTS
            /\ FileBits(f) \subseteq Bits

\* What is open is there.
Opened ==
    /\ desc = [d \in Fds |-> desc[d]]
    /\ \A d \in Fds : desc[d] # Closed =>
         /\ desc[d] = [file |-> desc[d].file, pos |-> desc[d].pos]
         /\ desc[d].file \in Files /\ Exists(desc[d].file)

\* The map, bit by bit.
BitsInUse ==
    /\ sector_map \subseteq Int
    /\ \A b \in Int : b \in sector_map <=>
         b \in 0 .. NR_FILE_SECTS \/ \E f \in Files : b \in FileBits(f)

Apart == \A f, g \in Files : f # g => FileBits(f) \cap FileBits(g) = {}

FInv == Placed /\ Opened /\ BitsInUse /\ Apart /\ halted # "unlink"

LEMMA Constants ==
    /\ nr_1st_data_sect \in Nat \ {0} /\ NR_FILE_SECTS \in Nat \ {0}
    /\ INSTALL_START_SECT \in Nat /\ INSTALL_NR_SECTS \in Nat \ {0}
    /\ nr_1st_data_sect + NR_FILE_SECTS <= INSTALL_START_SECT
    /\ Bits \subseteq Nat
    /\ CmdTar \in Files
<1>1. Bits \subseteq Nat
  BY DEF Bits
<1> QED
  BY <1>1, FileDataAssumption

LEMMA NoFileFacts ==
    /\ NoFile.sect_start = 0 /\ NoFile.nr_sects = 0
    /\ \A n \in Int : Run(n, 0) = {}
BY DEF NoFile, Run

LEMMA FirstIsFree == ASSUME FreeBits # {} PROVE FirstFree \in FreeBits
<1>1. FreeBits \subseteq Nat
  BY Constants DEF FreeBits
<1>2. PICK x \in FreeBits : \A y \in FreeBits : x <= y
  BY <1>1, LeastMember
<1> QED
  BY <1>2 DEF FirstFree, Min

\* mkfs writes the map of the files it makes.
LEMMA InitFInv == Init => FInv
<1> SUFFICES ASSUME Init PROVE FInv
  OBVIOUS
<1> USE Constants, NoFileFacts DEF Init
<1>1. /\ inode[CmdTar].sect_start = INSTALL_START_SECT /\ inode[CmdTar].nr_sects = INSTALL_NR_SECTS
      /\ inode[CmdTar].file_size = INSTALL_NR_SECTS * SECTOR_SIZE
      /\ \A f \in Files : f # CmdTar => inode[f] = NoFile
  OBVIOUS
<1>2. \A f \in Files : f # CmdTar => FileBits(f) = {}
  BY <1>1 DEF FileBits, BitOf
<1>3. FileBits(CmdTar) = Run(BitOf(INSTALL_START_SECT), INSTALL_NR_SECTS)
  BY <1>1 DEF FileBits
<1>4. Placed
  <2>1. INSTALL_START_SECT >= nr_1st_data_sect + NR_FILE_SECTS
    OBVIOUS
  <2>2. inode[CmdTar] = [sect_start |-> inode[CmdTar].sect_start, nr_sects |-> inode[CmdTar].nr_sects,
                         file_size |-> inode[CmdTar].file_size]
    BY <1>1
  <2> QED
    BY <1>1, <1>3, <2>1, <2>2, InstallFits DEF Placed
<1>5. Opened
  BY DEF Opened
<1>6. BitsInUse
  <2>1. sector_map = 0 .. NR_FILE_SECTS \cup FileBits(CmdTar)
    BY <1>3 DEF NewMap, Run
  <2>2. sector_map \subseteq Int
    <3>1. Bits \subseteq Int
      BY Constants
    <3>2. FileBits(CmdTar) \subseteq Bits
      BY <1>3, InstallFits
    <3>3. 0 .. NR_FILE_SECTS \subseteq Int
      OBVIOUS
    <3> QED
      BY <2>1, <3>1, <3>2, <3>3
  <2> QED
    BY <1>2, <2>1, <2>2 DEF BitsInUse
<1>7. Apart
  BY <1>2 DEF Apart
<1> QED
  BY <1>4, <1>5, <1>6, <1>7 DEF FInv

\* Steps that leave the map and the places of the files alone.
LEMMA SamePlaces ==
    ASSUME FInv, sector_map' = sector_map, halted' # "unlink", Opened',
           inode' = [f \in Files |-> inode'[f]],
           \A f \in Files :
             \/ inode'[f] = inode[f]
             \/ /\ Exists(f)
                /\ inode'[f] = [sect_start |-> inode[f].sect_start, nr_sects |-> inode[f].nr_sects,
                                file_size |-> inode'[f].file_size]
    PROVE  FInv'
<1>1. \A f \in Files : inode'[f].sect_start = inode[f].sect_start /\ inode'[f].nr_sects = inode[f].nr_sects
  OBVIOUS
<1>2. \A f \in Files : FileBits(f)' = FileBits(f)
  BY <1>1 DEF FileBits
<1>3. Placed'
  <2> SUFFICES ASSUME NEW f \in Files
               PROVE  \/ inode'[f] = NoFile
                      \/ /\ inode'[f] = [sect_start |-> inode'[f].sect_start, nr_sects |-> inode'[f].nr_sects,
                                         file_size |-> inode'[f].file_size]
                         /\ inode'[f].sect_start \in Nat /\ inode'[f].nr_sects \in Nat \ {0}
                         /\ inode'[f].sect_start >= nr_1st_data_sect + NR_FILE_SECTS
                         /\ FileBits(f)' \subseteq Bits
    BY DEF Placed
  <2>1. CASE inode'[f] = inode[f]
    BY <1>2, <2>1 DEF FInv, Placed
  <2>2. CASE inode'[f] # inode[f]
    BY <1>1, <1>2, <2>2 DEF FInv, Placed, Exists
  <2> QED
    BY <2>1, <2>2
<1>4. BitsInUse' /\ Apart'
  BY <1>2 DEF FInv, BitsInUse, Apart
<1> QED
  BY <1>3, <1>4 DEF FInv

-----------------------------------------------------------------------------
(* The steps *)

\* A file that is made gets bits that were free.
LEMMA CreateFInv ==
    ASSUME FInv, NEW d \in Fds, NEW f \in Files, NEW trunc, Open(d, f, trunc),
           ~Exists(f), HasRun(NR_FILE_SECTS)
    PROVE  FInv'
<1> USE Constants
<1>1. PICK first \in Int : first = FirstFree /\ Run(first, NR_FILE_SECTS) \subseteq FreeBits
  <2>1. FreeBits # {} /\ Run(FirstFree, NR_FILE_SECTS) \subseteq FreeBits
    BY DEF HasRun
  <2>2. FirstFree \in FreeBits
    BY <2>1, FirstIsFree
  <2>3. FirstFree \in Bits
    BY <2>2 DEF FreeBits
  <2>4. FirstFree \in Int
    BY <2>3
  <2> QED
    BY <2>1, <2>4
<1>2. /\ sector_map' = sector_map \cup Run(first, NR_FILE_SECTS)
      /\ inode' = [inode EXCEPT ![f] = [sect_start |-> SectOf(first), nr_sects |-> NR_FILE_SECTS,
                                        file_size |-> 0]]
      /\ desc' = [desc EXCEPT ![d] = [file |-> f, pos |-> 0]]
      /\ halted' = halted
  BY <1>1 DEF Open, alloc_sect_map_bit
<1>3. first \in Run(first, NR_FILE_SECTS) /\ first \in FreeBits
  BY <1>1 DEF Run
<1>4. first > NR_FILE_SECTS
  <2>1. first \in Nat /\ first \notin sector_map
    BY <1>3 DEF FreeBits
  <2>2. first \notin 0 .. NR_FILE_SECTS
    BY <2>1 DEF FInv, BitsInUse
  <2> QED
    BY <2>1, <2>2
<1>5. inode = [x \in Files |-> inode[x]] /\ desc = [x \in Fds |-> desc[x]]
  BY DEF FInv, Placed, Opened
<1>6. /\ inode' = [x \in Files |-> inode'[x]]
      /\ inode'[f] = [sect_start |-> SectOf(first), nr_sects |-> NR_FILE_SECTS, file_size |-> 0]
      /\ \A x \in Files \ {f} : inode'[x] = inode[x]
  BY <1>2, <1>5
<1>7. SectOf(first) \in Nat /\ SectOf(first) >= nr_1st_data_sect + NR_FILE_SECTS /\ BitOf(SectOf(first)) = first
  BY <1>1, <1>4 DEF SectOf, BitOf
<1>8. FileBits(f)' = Run(first, NR_FILE_SECTS) /\ \A x \in Files \ {f} : FileBits(x)' = FileBits(x)
  BY <1>6, <1>7 DEF FileBits
<1>9. Placed'
  <2> SUFFICES ASSUME NEW x \in Files
               PROVE  \/ inode'[x] = NoFile
                      \/ /\ inode'[x] = [sect_start |-> inode'[x].sect_start, nr_sects |-> inode'[x].nr_sects,
                                         file_size |-> inode'[x].file_size]
                         /\ inode'[x].sect_start \in Nat /\ inode'[x].nr_sects \in Nat \ {0}
                         /\ inode'[x].sect_start >= nr_1st_data_sect + NR_FILE_SECTS
                         /\ FileBits(x)' \subseteq Bits
    BY <1>6 DEF Placed
  <2>1. CASE x = f
    <3>1. FileBits(x)' \subseteq Bits
      BY <1>1, <1>8, <2>1 DEF FreeBits
    <3> QED
      BY <1>6, <1>7, <2>1, <3>1
  <2>2. CASE x # f
    BY <1>6, <1>8, <2>2 DEF FInv, Placed
  <2> QED
    BY <2>1, <2>2
<1>10. Opened'
  <2>1. inode'[f] # NoFile
    BY <1>6, <1>7, NoFileFacts
  <2>2. \A x \in Files : Exists(x) => Exists(x)'
    BY <1>6, <2>1 DEF Exists
  <2>3. /\ desc' = [x \in Fds |-> desc'[x]]
        /\ desc'[d] = [file |-> f, pos |-> 0]
        /\ \A x \in Fds \ {d} : desc'[x] = desc[x]
    BY <1>2, <1>5
  <2> SUFFICES ASSUME NEW x \in Fds, desc'[x] # Closed
               PROVE  /\ desc'[x] = [file |-> desc'[x].file, pos |-> desc'[x].pos]
                      /\ desc'[x].file \in Files /\ inode'[desc'[x].file] # NoFile
    BY <2>3 DEF Opened, Exists
  <2>4. CASE x = d
    BY <2>1, <2>3, <2>4 DEF Exists
  <2>5. CASE x # d
    BY <2>2, <2>3, <2>5 DEF FInv, Opened, Exists
  <2> QED
    BY <2>4, <2>5
<1>11. FileBits(f) = {}
  BY NoFileFacts DEF FileBits, BitOf, Exists
<1>12. BitsInUse'
  <2>1. sector_map' \subseteq Int
    BY <1>1, <1>2 DEF FInv, BitsInUse, Run
  <2>2. ASSUME NEW b \in Int
        PROVE  (\E x \in Files : b \in FileBits(x)') <=>
                 b \in Run(first, NR_FILE_SECTS) \/ \E x \in Files : b \in FileBits(x)
    BY <1>8, <1>11
  <2> QED
    BY <1>2, <2>1, <2>2 DEF FInv, BitsInUse
<1>13. Apart'
  <2>1. ASSUME NEW x \in Files PROVE FileBits(x) \cap Run(first, NR_FILE_SECTS) = {}
    BY <1>1 DEF FInv, BitsInUse, FreeBits, Run
  <2> QED
    BY <1>8, <2>1 DEF FInv, Apart
<1> QED
  BY <1>2, <1>9, <1>10, <1>12, <1>13 DEF FInv

LEMMA OpenFInv ==
    ASSUME FInv, NEW d \in Fds, NEW f \in Files, NEW trunc \in BOOLEAN, Open(d, f, trunc)
    PROVE  FInv'
<1>1. inode = [x \in Files |-> inode[x]] /\ desc = [x \in Fds |-> desc[x]]
  BY DEF FInv, Placed, Opened
<1>2. CASE ~Exists(f) /\ ~HasRun(NR_FILE_SECTS)
  <2>1. halted' = "alloc" /\ UNCHANGED <<sector_map, inode, desc>>
    BY <1>2 DEF Open
  <2>2. Opened'
    BY <2>1 DEF FInv, Opened, Exists
  <2> QED
    BY <1>1, <2>1, <2>2, SamePlaces
<1>3. CASE ~Exists(f) /\ HasRun(NR_FILE_SECTS)
  BY <1>3, CreateFInv
<1>4. CASE Exists(f)
  <2>1. /\ sector_map' = sector_map /\ halted' = halted
        /\ inode' = [inode EXCEPT ![f] = IF trunc THEN [@ EXCEPT !.file_size = 0] ELSE @]
        /\ desc' = [desc EXCEPT ![d] = [file |-> f, pos |-> 0]]
    BY <1>4 DEF Open
  <2>2. /\ inode' = [x \in Files |-> inode'[x]]
        /\ inode'[f] = inode[f] \/ inode'[f] = [inode[f] EXCEPT !.file_size = 0]
        /\ \A x \in Files \ {f} : inode'[x] = inode[x]
    BY <1>1, <2>1
  <2>3. inode[f] = [sect_start |-> inode[f].sect_start, nr_sects |-> inode[f].nr_sects,
                    file_size |-> inode[f].file_size]
    BY <1>4 DEF FInv, Placed, Exists
  <2>4. \/ inode'[f] = inode[f]
        \/ inode'[f] = [sect_start |-> inode[f].sect_start, nr_sects |-> inode[f].nr_sects,
                        file_size |-> inode'[f].file_size]
    BY <2>2, <2>3
  <2>5. \A x \in Files : Exists(x) => Exists(x)'
    <3>1. inode[f].sect_start # 0
      BY <1>4, Constants DEF FInv, Placed, Exists
    <3>2. inode'[f] # NoFile
      BY <1>4, <2>4, <3>1, NoFileFacts DEF Exists
    <3> QED
      BY <2>2, <3>2 DEF Exists
  <2>6. Opened'
    <3>1. /\ desc' = [x \in Fds |-> desc'[x]]
          /\ desc'[d] = [file |-> f, pos |-> 0]
          /\ \A x \in Fds \ {d} : desc'[x] = desc[x]
      BY <1>1, <2>1
    <3> SUFFICES ASSUME NEW x \in Fds, desc'[x] # Closed
                 PROVE  /\ desc'[x] = [file |-> desc'[x].file, pos |-> desc'[x].pos]
                        /\ desc'[x].file \in Files /\ inode'[desc'[x].file] # NoFile
      BY <3>1 DEF Opened, Exists
    <3>2. CASE x = d
      BY <1>4, <2>5, <3>1, <3>2 DEF Exists
    <3>3. CASE x # d
      BY <2>5, <3>1, <3>3 DEF FInv, Opened, Exists
    <3> QED
      BY <3>2, <3>3
  <2>7. \A x \in Files :
          \/ inode'[x] = inode[x]
          \/ /\ Exists(x)
             /\ inode'[x] = [sect_start |-> inode[x].sect_start, nr_sects |-> inode[x].nr_sects,
                             file_size |-> inode'[x].file_size]
    BY <1>4, <2>2, <2>4
  <2> QED
    BY <2>1, <2>2, <2>6, <2>7, SamePlaces DEF FInv
<1> QED
  BY <1>2, <1>3, <1>4

\* The bits of a file are its own: clearing them leaves those of the others.
LEMMA UnlinkFInv == ASSUME FInv, NEW f \in Files, Unlink(f) PROVE FInv'
<1> USE Constants
<1>1. /\ inode[f].sect_start \in Nat /\ inode[f].nr_sects \in Nat \ {0}
      /\ inode[f].sect_start >= nr_1st_data_sect + NR_FILE_SECTS /\ FileBits(f) \subseteq Bits
  BY DEF FInv, Placed, Unlink, Exists
<1>2. BitOf(inode[f].sect_start) \in Nat
  BY <1>1 DEF BitOf
<1>3. clear_sector_map_bits(BitOf(inode[f].sect_start), inode[f].nr_sects) = FileBits(f)
  BY <1>1, <1>2, ClearsRun DEF FileBits
<1>4. FileBits(f) \subseteq sector_map
  <2>1. FileBits(f) \subseteq Int
    BY <1>2 DEF FileBits, Run
  <2> QED
    BY <2>1 DEF FInv, BitsInUse
<1>5. /\ sector_map' = sector_map \ FileBits(f)
      /\ inode' = [inode EXCEPT ![f] = NoFile]
      /\ halted' = halted /\ desc' = desc /\ ~IsOpen(f)
  BY <1>3, <1>4 DEF Unlink
<1>6. /\ inode' = [x \in Files |-> inode'[x]]
      /\ inode'[f] = NoFile
      /\ \A x \in Files \ {f} : inode'[x] = inode[x]
  <2>1. inode = [x \in Files |-> inode[x]]
    BY DEF FInv, Placed
  <2> QED
    BY <1>5, <2>1
<1>7. FileBits(f)' = {} /\ \A x \in Files \ {f} : FileBits(x)' = FileBits(x)
  BY <1>6, NoFileFacts DEF FileBits, BitOf
<1>8. Placed'
  BY <1>6, <1>7 DEF FInv, Placed
<1>9. Opened'
  <2>1. \A d \in Fds : desc[d].file # f
    BY <1>5 DEF IsOpen
  <2> QED
    BY <1>5, <1>6, <2>1 DEF FInv, Opened, Exists
<1>10. BitsInUse'
  <2>1. ASSUME NEW b \in Int, b \in FileBits(f) PROVE b \notin 0 .. NR_FILE_SECTS
    BY <1>1, <2>1 DEF FileBits, Run, BitOf
  <2>2. \A b \in Int : b \in FileBits(f) => \A x \in Files \ {f} : b \notin FileBits(x)
    BY DEF FInv, Apart
  <2>3. ASSUME NEW b \in Int
        PROVE  (\E x \in Files : b \in FileBits(x)') <=>
                 b \notin FileBits(f) /\ \E x \in Files : b \in FileBits(x)
    BY <1>7, <2>2
  <2>4. sector_map' \subseteq Int
    BY <1>5 DEF FInv, BitsInUse
  <2> QED
    BY <1>5, <2>1, <2>3, <2>4 DEF FInv, BitsInUse
<1>11. Apart'
  BY <1>7 DEF FInv, Apart
<1> QED
  BY <1>5, <1>8, <1>9, <1>10, <1>11 DEF FInv

\* Moving a position, or closing, leaves open what is there.
LEMMA DescFInv ==
    ASSUME FInv, NEW d \in Fds, UNCHANGED <<sector_map, inode, halted>>, desc[d] # Closed,
           \/ desc' = [desc EXCEPT ![d] = Closed]
           \/ \E pos : desc' = [desc EXCEPT ![d].pos = pos]
    PROVE  FInv'
<1>1. inode = [x \in Files |-> inode[x]] /\ desc = [x \in Fds |-> desc[x]]
  BY DEF FInv, Placed, Opened
<1>2. desc[d] = [file |-> desc[d].file, pos |-> desc[d].pos]
  BY DEF FInv, Opened
<1>3. /\ desc' = [x \in Fds |-> desc'[x]]
      /\ \A x \in Fds \ {d} : desc'[x] = desc[x]
      /\ desc'[d] # Closed => /\ desc'[d] = [file |-> desc'[d].file, pos |-> desc'[d].pos]
                              /\ desc'[d].file = desc[d].file
  BY <1>1, <1>2
<1>4. Opened'
  BY <1>3 DEF FInv, Opened, Exists
<1> QED
  BY <1>1, <1>4, SamePlaces DEF FInv

LEMMA ReadWriteFInv ==
    ASSUME FInv, NEW d \in Fds, NEW type, NEW len, do_read_write_regular(d, type, len)
    PROVE  FInv'
<1>1. inode = [x \in Files |-> inode[x]] /\ desc = [x \in Fds |-> desc[x]]
  BY DEF FInv, Placed, Opened
<1>2. PICK pos, size :
        /\ desc' = [desc EXCEPT ![d].pos = pos]
        /\ inode' = [inode EXCEPT ![desc[d].file].file_size = size]
        /\ UNCHANGED <<sector_map, halted>> /\ desc[d] # Closed
  BY DEF do_read_write_regular
<1>3. PICK f \in Files : f = desc[d].file /\ Exists(f)
  BY <1>2 DEF FInv, Opened
<1>4. inode[f] = [sect_start |-> inode[f].sect_start, nr_sects |-> inode[f].nr_sects,
                  file_size |-> inode[f].file_size] /\ inode[f].sect_start # 0
  BY <1>3, Constants DEF FInv, Placed, Exists
<1>5. /\ inode' = [x \in Files |-> inode'[x]]
      /\ inode'[f] = [inode[f] EXCEPT !.file_size = size]
      /\ \A x \in Files \ {f} : inode'[x] = inode[x]
  BY <1>1, <1>2, <1>3
<1>6. inode'[f] = [sect_start |-> inode[f].sect_start, nr_sects |-> inode[f].nr_sects,
                   file_size |-> inode'[f].file_size]
  BY <1>4, <1>5
<1>7. \A x \in Files : Exists(x) => Exists(x)'
  <2>1. inode'[f] # NoFile
    BY <1>4, <1>6, NoFileFacts
  <2> QED
    BY <1>5, <2>1 DEF Exists
<1>8. Opened'
  <2>1. desc[d] = [file |-> desc[d].file, pos |-> desc[d].pos]
    BY <1>2 DEF FInv, Opened
  <2>2. /\ desc' = [x \in Fds |-> desc'[x]]
        /\ \A x \in Fds \ {d} : desc'[x] = desc[x]
        /\ desc'[d] = [file |-> desc'[d].file, pos |-> desc'[d].pos]
        /\ desc'[d].file = desc[d].file
    BY <1>1, <1>2, <2>1
  <2> SUFFICES ASSUME NEW x \in Fds, desc'[x] # Closed
               PROVE  /\ desc'[x] = [file |-> desc'[x].file, pos |-> desc'[x].pos]
                      /\ desc'[x].file \in Files /\ inode'[desc'[x].file] # NoFile
    BY <2>2 DEF Opened, Exists
  <2>3. CASE x = d
    BY <1>3, <1>7, <2>2, <2>3 DEF Exists
  <2>4. CASE x # d
    BY <1>7, <2>2, <2>4 DEF FInv, Opened, Exists
  <2> QED
    BY <2>3, <2>4
<1>9. \A x \in Files :
        \/ inode'[x] = inode[x]
        \/ /\ Exists(x)
           /\ inode'[x] = [sect_start |-> inode[x].sect_start, nr_sects |-> inode[x].nr_sects,
                           file_size |-> inode'[x].file_size]
  BY <1>3, <1>5, <1>6
<1> QED
  BY <1>2, <1>5, <1>8, <1>9, SamePlaces DEF FInv

\* Every request keeps the invariant.
LEMMA NextFInv == FInv /\ [Next]_vars => FInv'
<1> SUFFICES ASSUME FInv, [Next]_vars PROVE FInv'
  OBVIOUS
<1>1. ASSUME NEW d \in Fds, NEW f \in Files, NEW trunc \in BOOLEAN, Open(d, f, trunc) PROVE FInv'
  BY <1>1, OpenFInv
<1>2. ASSUME NEW d \in Fds, Close(d) PROVE FInv'
  BY <1>2, DescFInv DEF Close
<1>3. ASSUME NEW f \in Files, Unlink(f) PROVE FInv'
  BY <1>3, UnlinkFInv
<1>4. ASSUME NEW d \in Fds, NEW off \in Offsets, NEW whence \in {"SEEK_SET", "SEEK_CUR", "SEEK_END"},
             do_lseek(d, off, whence)
      PROVE  FInv'
  <2>1. /\ desc[d] # Closed /\ UNCHANGED <<sector_map, inode, halted>>
        /\ \E pos : desc' = [desc EXCEPT ![d].pos = pos]
    BY <1>4 DEF do_lseek
  <2> QED
    BY <2>1, DescFInv
<1>5. ASSUME NEW d \in Fds, NEW type \in {"read", "write"}, NEW len \in 0 .. MaxLen,
             do_read_write_regular(d, type, len)
      PROVE  FInv'
  BY <1>5, ReadWriteFInv
<1>6. CASE UNCHANGED vars
  <2>1. UNCHANGED <<sector_map, inode, desc, halted>>
    BY <1>6 DEF vars
  <2>2. inode = [x \in Files |-> inode[x]]
    BY DEF FInv, Placed
  <2>3. Opened'
    BY <2>1 DEF FInv, Opened, Exists
  <2> QED
    BY <2>1, <2>2, <2>3, SamePlaces DEF FInv
<1> QED
  BY <1>1, <1>2, <1>3, <1>4, <1>5, <1>6 DEF Next

-----------------------------------------------------------------------------
(* The map and the files *)

\* The bits of the map and the sectors of the files are the same facts.
LEMMA BitsAreSectors == FInv => MapMatchesFiles
<1> SUFFICES ASSUME FInv PROVE MapMatchesFiles
  OBVIOUS
<1> USE Constants
<1>1. ASSUME NEW f \in Files
      PROVE  /\ Extent(f) \subseteq Int
             /\ \A s \in Int : s \in Extent(f) <=> BitOf(s) \in FileBits(f)
  <2>1. inode[f].sect_start \in Nat /\ inode[f].nr_sects \in Nat
    BY NoFileFacts DEF FInv, Placed
  <2> QED
    BY <2>1 DEF Extent, FileBits, Run, BitOf
<1>2. \A f, g \in Files : f # g => Extent(f) \cap Extent(g) = {}
  BY <1>1 DEF FInv, Apart
<1>3. PICK T : T = {BitOf(s) : s \in Run(nr_1st_data_sect, NR_FILE_SECTS)
                                      \cup UNION {Extent(f) : f \in Files}}
  OBVIOUS
<1>4. ASSUME NEW b \in Int PROVE b \in sector_map <=> b = 0 \/ b \in T
  <2>1. PICK t \in Int : t = SectOf(b) /\ BitOf(t) = b /\ \A s \in Int : BitOf(s) = b => s = t
    BY DEF SectOf, BitOf
  <2>2. b \in 0 .. NR_FILE_SECTS <=> b = 0 \/ t \in Run(nr_1st_data_sect, NR_FILE_SECTS)
    BY <2>1 DEF Run, SectOf
  <2>3. \A f \in Files : b \in FileBits(f) <=> t \in Extent(f)
    BY <1>1, <2>1
  <2>4. Run(nr_1st_data_sect, NR_FILE_SECTS) \subseteq Int
    BY DEF Run
  <2>5. b \in T <=> t \in Run(nr_1st_data_sect, NR_FILE_SECTS) \/ \E f \in Files : t \in Extent(f)
    BY <1>1, <1>3, <2>1, <2>4
  <2> QED
    BY <2>2, <2>3, <2>5 DEF FInv, BitsInUse
<1>5. T \subseteq Int
  BY <1>1, <1>3 DEF Run, BitOf
<1>6. sector_map \subseteq Int
  BY DEF FInv, BitsInUse
<1>7. sector_map = {0} \cup T
  <2>1. ASSUME NEW b \in sector_map PROVE b \in {0} \cup T
    BY <1>4, <1>6
  <2>2. ASSUME NEW b \in T PROVE b \in sector_map
    BY <1>4, <1>5
  <2>3. 0 \in sector_map
    BY <1>4
  <2> QED
    BY <2>1, <2>2, <2>3
<1> QED
  BY <1>2, <1>3, <1>7 DEF MapMatchesFiles, FInv

\* The sector map has the bits of the root directory and of the files, and no
\* others, no two files share a sector and unlink's asserts hold, for any size
\* of sectors, map and files.
THEOREM MapAlwaysMatches == Spec => []MapMatchesFiles
<1> QED
  BY InitFInv, NextFInv, BitsAreSectors, PTL DEF Spec

-----------------------------------------------------------------------------
(* The loop of do_read_write_regular *)

\* How many bytes j chunks of size bytes hold, of len ones that begin at offset.
SoFar(j, size, offset, len) ==
    IF j = 0 THEN 0 ELSE IF len <= j * size - offset THEN len ELSE j * size - offset

\* The addresses of m bytes from first on.
BytesFrom(first, m) == [k \in 1 .. m |-> first + k - 1]

\* What the loop has copied after j chunks.
MovedAfter(j, sect_min, chunk, offset, len) ==
    [k \in 1 .. SoFar(j, chunk * SECTOR_SIZE, offset, len) |->
        sect_min * SECTOR_SIZE + offset + k - 1]

\* In the first chunk the bytes begin at offset, in the others at 0.
LEMMA OneChunk ==
    ASSUME NEW j \in Nat \ {0}, NEW sect_min \in Nat, NEW chunk \in Nat \ {0},
           NEW offset \in 0 .. SECTOR_SIZE - 1, NEW len \in Nat
    PROVE  MoveChunk(MovedAfter(j - 1, sect_min, chunk, offset, len), j, sect_min, chunk, offset, len)
             = MovedAfter(j, sect_min, chunk, offset, len)
<1>0. SECTOR_SIZE \in Nat \ {0}
  BY FileDataAssumption
<1>1. offset \in Nat /\ \E size \in Nat : size = chunk * SECTOR_SIZE /\ offset < size
  <2>1. 1 * SECTOR_SIZE <= chunk * SECTOR_SIZE /\ chunk * SECTOR_SIZE \in Int
    BY <1>0, Products
  <2> QED
    BY <1>0, <2>1
<1>2. PICK size \in Nat : size = chunk * SECTOR_SIZE /\ offset < size
  BY <1>1
<1>3. PICK a \in Nat : a = (j - 1) * size /\ j * size = a + size /\ (j = 1 => a = 0) /\ (j > 1 => a >= size)
  <2>1. (j - 1) * size \in Nat /\ j * size = (j - 1) * size + size
    BY <1>1, <1>2
  <2>2. j > 1 => (j - 1) * size >= 1 * size
    <3>1. j > 1 => 1 <= j - 1
      OBVIOUS
    <3> QED
      BY <1>1, <1>2, <3>1, Products
  <2> QED
    BY <1>1, <1>2, <2>1, <2>2
<1>4. PICK m \in Nat : /\ m = SoFar(j - 1, size, offset, len)
                       /\ m = IF j = 1 THEN 0 ELSE IF len <= a - offset THEN len ELSE a - offset
  <2>1. (j - 1 = 0) <=> j = 1
    OBVIOUS
  <2> QED
    BY <1>1, <1>2, <1>3, <2>1 DEF SoFar
<1>5. PICK first \in Nat : first = sect_min * SECTOR_SIZE + offset
  <2>1. sect_min * SECTOR_SIZE \in Nat
    BY <1>0
  <2> QED
    BY <2>1
<1>6. PICK s : s = [k \in 1 .. m |-> first + k - 1]
  OBVIOUS
<1>7. s = MovedAfter(j - 1, sect_min, chunk, offset, len)
  BY <1>1, <1>2, <1>4, <1>5, <1>6 DEF MovedAfter
<1>8. s \in Seq(Int) /\ Len(s) = m /\ \A k \in 1 .. m : s[k] = first + k - 1
  <2>1. s \in [1 .. m -> Int]
    BY <1>4, <1>5, <1>6
  <2> QED
    BY <1>6, <2>1, IsSeq
<1>9. PICK off \in Nat : off = (IF j = 1 THEN offset ELSE 0) /\ off < size
  BY <1>1, <1>2
<1>10. len - m \in Nat /\ size - off \in Nat
  <2>1. m <= len
    <3>1. CASE j = 1
      BY <1>4, <3>1
    <3>2. CASE j # 1 /\ len <= a - offset
      BY <1>4, <3>2
    <3>3. CASE j # 1 /\ ~(len <= a - offset)
      BY <1>1, <1>3, <1>4, <3>3
    <3> QED
      BY <3>1, <3>2, <3>3
  <2> QED
    BY <1>4, <1>9, <2>1
<1>11. PICK n \in Nat : n = Min({len - m, size - off}) /\ m + n = SoFar(j, size, offset, len)
  <2>2. Min({len - m, size - off}) = IF len - m <= size - off THEN len - m ELSE size - off
    BY <1>10 DEF Min
  <2>3. SoFar(j, size, offset, len) = IF len <= a + size - offset THEN len ELSE a + size - offset
    BY <1>3 DEF SoFar
  <2> QED
    BY <1>1, <1>2, <1>3, <1>4, <1>9, <1>10, <2>2, <2>3
<1>12. n > 0 => (sect_min + (j - 1) * chunk) * SECTOR_SIZE + off = first + m
  <2>1. ((j - 1) * chunk) * SECTOR_SIZE = a
    BY <1>0, <1>1, <1>2, <1>3
  <2>2. (sect_min + (j - 1) * chunk) * SECTOR_SIZE = sect_min * SECTOR_SIZE + a
    BY <1>0, <2>1
  <2>3. n > 0 => a + off = offset + m
    <3>1. n <= len - m
      <4>1. Min({len - m, size - off}) = IF len - m <= size - off THEN len - m ELSE size - off
        BY <1>10 DEF Min
      <4> QED
        BY <1>10, <1>11, <4>1
    <3> QED
      BY <1>3, <1>4, <1>9, <3>1
  <2>4. sect_min * SECTOR_SIZE \in Nat
    BY <1>0
  <2> QED
    BY <1>5, <2>2, <2>3, <2>4
<1>13. PICK b \in Int : b = (sect_min + (j - 1) * chunk) * SECTOR_SIZE
  BY <1>0
<1>14. MoveChunk(s, j, sect_min, chunk, offset, len) = s \o [k \in 1 .. n |-> b + off + k - 1]
  BY <1>1, <1>2, <1>8, <1>9, <1>11, <1>13 DEF MoveChunk
<1>15. PICK t : t = [k \in 1 .. n |-> b + off + k - 1]
  OBVIOUS
<1>16. t \in Seq(Int) /\ Len(t) = n /\ \A k \in 1 .. n : t[k] = first + m + k - 1
  <2>1. t \in Seq(Int) /\ Len(t) = n /\ \A k \in 1 .. n : t[k] = b + off + k - 1
    <3>1. t \in [1 .. n -> Int]
      BY <1>9, <1>13, <1>15
    <3> QED
      BY <1>15, <3>1, IsSeq
  <2>2. ASSUME NEW k \in 1 .. n PROVE t[k] = first + m + k - 1
    <3>1. b + off = first + m
      BY <1>11, <1>12, <1>13, <2>2
    <3>2. t[k] = (b + off) + k - 1
      BY <2>1
    <3> QED
      BY <3>1, <3>2
  <2> QED
    BY <2>1, <2>2
<1>17. s \o t = [k \in 1 .. m + n |-> first + k - 1]
  <2>1. /\ s \o t \in Seq(Int) /\ Len(s \o t) = m + n
        /\ \A k \in 1 .. m + n : (s \o t)[k] = IF k <= m THEN s[k] ELSE t[k - m]
    <3>1. s \in Seq(Int) /\ t \in Seq(Int) /\ Len(s) = m /\ Len(t) = n
      BY <1>8, <1>16
    <3> QED
      BY <3>1, ConcatProperties
  <2>2. s \o t = [k \in 1 .. m + n |-> (s \o t)[k]]
    BY <2>1, LenProperties
  <2>3. \A k \in 1 .. m + n : (s \o t)[k] = first + k - 1
    <3> TAKE k \in 1 .. m + n
    <3>1. CASE k <= m
      BY <1>8, <2>1, <3>1
    <3>2. CASE ~(k <= m)
      <4>1. k - m \in 1 .. n
        BY <1>4, <1>11, <3>2
      <4>2. t[k - m] = first + m + (k - m) - 1
        BY <1>16, <4>1
      <4>3. (s \o t)[k] = t[k - m]
        BY <2>1, <3>2
      <4>4. k \in Int /\ m \in Int /\ first \in Int
        BY <1>4, <1>5
      <4> QED
        BY <4>2, <4>3, <4>4
    <3> QED
      BY <3>1, <3>2
  <2> QED
    BY <2>2, <2>3
<1> QED
  BY <1>1, <1>2, <1>5, <1>7, <1>11, <1>14, <1>15, <1>17 DEF MovedAfter


\* What the loop has copied after any number of chunks: the equation that defines
\* moved has one solution.
LEMMA AllChunks ==
    ASSUME NEW nr \in Nat, NEW sect_min \in Nat, NEW chunk \in Nat \ {0},
           NEW offset \in 0 .. SECTOR_SIZE - 1, NEW len \in Nat
    PROVE  MoveChunks(nr, sect_min, chunk, offset, len)
             = MovedAfter(nr, sect_min, chunk, offset, len)
<1> DEFINE Loop(f) == [j \in 0 .. nr |->
                         IF j = 0 THEN << >>
                         ELSE MoveChunk(f[j - 1], j, sect_min, chunk, offset, len)]
           M(j) == MovedAfter(j, sect_min, chunk, offset, len)
<1>1. M(0) = << >>
  BY DEF MovedAfter, SoFar
<1>2. \A j \in 1 .. nr : MoveChunk(M(j - 1), j, sect_min, chunk, offset, len) = M(j)
  <2> HIDE DEF M
  <2> TAKE j \in 1 .. nr
  <2>1. j \in Nat \ {0}
    OBVIOUS
  <2> QED
    BY <2>1, OneChunk DEF M
<1> HIDE DEF M
<1>3. PICK g : g = [j \in 0 .. nr |-> M(j)]
  OBVIOUS
<1>4. g = Loop(g)
  <2>1. ASSUME NEW j \in 0 .. nr
        PROVE  g[j] = IF j = 0 THEN << >>
                      ELSE MoveChunk(g[j - 1], j, sect_min, chunk, offset, len)
    <3>1. CASE j = 0
      BY <1>1, <1>3, <3>1
    <3>2. CASE j # 0
      <4>1. j \in 1 .. nr /\ j - 1 \in 0 .. nr
        BY <3>2
      <4> QED
        BY <1>2, <1>3, <3>2, <4>1
    <3> QED
      BY <3>1, <3>2
  <2> QED
    BY <1>3, <2>1
<1>5. PICK f : f = CHOOSE h : h = Loop(h)
  OBVIOUS
<1>6. f = Loop(f)
  <2> HIDE DEF Loop
  <2> QED
    BY <1>4, <1>5
<1>7. MoveChunks(nr, sect_min, chunk, offset, len) = f[nr]
  BY <1>5 DEF MoveChunks
<1>8. PICK T : T = {j \in 0 .. nr : f[j] # M(j)}
  OBVIOUS
<1>9. T = {}
  <2> SUFFICES ASSUME T # {} PROVE FALSE
    OBVIOUS
  <2>1. PICK j \in T : \A i \in T : j <= i
    <3>1. T \subseteq Nat
      BY <1>8
    <3> QED
      BY <3>1, LeastMember
  <2>2. j \in 0 .. nr /\ f[j] # M(j)
    BY <1>8, <2>1
  <2>3. j # 0
    BY <1>1, <1>6, <2>2
  <2>4. j - 1 \in 0 .. nr /\ j \in 1 .. nr
    BY <2>2, <2>3
  <2>5. f[j - 1] = M(j - 1)
    BY <1>8, <2>1, <2>4
  <2>6. f[j] = MoveChunk(f[j - 1], j, sect_min, chunk, offset, len)
    BY <1>6, <2>3, <2>4
  <2> QED
    BY <1>2, <2>2, <2>4, <2>5, <2>6
<1>10. f[nr] = M(nr)
  BY <1>8, <1>9
<1> QED
  BY <1>7, <1>10 DEF M

\* The m bytes from the position on are copied, and they are all.
IsRun(start, pos_end, pos, len, m) ==
    /\ Transfer(start, pos_end, pos, len) = BytesFrom(start * SECTOR_SIZE + pos, m)
    /\ pos_end = pos + len => m = len

\* A transfer copies a run of bytes from the position on; all of it, when it ends
\* where the loop's sectors do.
LEMMA TransferIsRun ==
    ASSUME NEW start \in Nat, NEW pos_end \in Nat, NEW pos \in Nat, NEW len \in Nat
    PROVE  \E m \in 0 .. len : IsRun(start, pos_end, pos, len, m)
<1> SUFFICES ASSUME NEW first, first = start * SECTOR_SIZE + pos
             PROVE  \E m \in 0 .. len :
                       /\ Transfer(start, pos_end, pos, len) = BytesFrom(first, m)
                       /\ pos_end = pos + len => m = len
  BY DEF IsRun
<1>0. SECTOR_SIZE \in Nat \ {0} /\ FS_BUF_SECTS \in Nat \ {0}
  BY FileDataAssumption
<1>1. PICK p \in Nat, e \in Nat : p = pos \div SECTOR_SIZE /\ e = pos_end \div SECTOR_SIZE
  BY <1>0, QuotientNat
<1>2. /\ p * SECTOR_SIZE \in Nat /\ e * SECTOR_SIZE \in Nat
      /\ pos % SECTOR_SIZE = pos - p * SECTOR_SIZE /\ pos % SECTOR_SIZE \in 0 .. SECTOR_SIZE - 1
      /\ pos_end < e * SECTOR_SIZE + SECTOR_SIZE
  <2>1. p * SECTOR_SIZE \in Nat /\ e * SECTOR_SIZE \in Nat
    BY <1>0
  <2>2. /\ pos % SECTOR_SIZE = pos - p * SECTOR_SIZE /\ pos % SECTOR_SIZE \in 0 .. SECTOR_SIZE - 1
    BY <1>0, <1>1, Remainder
  <2>3. pos_end < e * SECTOR_SIZE + SECTOR_SIZE
    BY <1>0, <1>1, Division
  <2> QED
    BY <2>1, <2>2, <2>3
<1>3. PICK offset \in 0 .. SECTOR_SIZE - 1 : offset = pos % SECTOR_SIZE
  BY <1>2
<1>4. PICK chunk : chunk = Min({(start + e) - (start + p) + 1, FS_BUF_SECTS})
  OBVIOUS
<1>5. PICK nr : nr = IF start + e < start + p THEN 0
                     ELSE ((start + e) - (start + p)) \div chunk + 1
  OBVIOUS
<1>6. Transfer(start, pos_end, pos, len) = MoveChunks(nr, start + p, chunk, offset, len)
  BY <1>1, <1>3, <1>4, <1>5 DEF Transfer
<1>7. CASE e < p
  <2>1. nr = 0
    BY <1>5, <1>7
  <2>2. MoveChunks(0, start + p, chunk, offset, len) = << >>
    <3> DEFINE Loop(f) == [j \in 0 .. 0 |->
                             IF j = 0 THEN << >>
                             ELSE MoveChunk(f[j - 1], j, start + p, chunk, offset, len)]
    <3>1. PICK g : g = [j \in 0 .. 0 |-> << >>]
      OBVIOUS
    <3>2. \A f : Loop(f) = [j \in 0 .. 0 |-> << >>]
      OBVIOUS
    <3>3. PICK f : f = CHOOSE h : h = Loop(h)
      OBVIOUS
    <3>4. f = Loop(f)
      <4>1. g = Loop(g)
        BY <3>1, <3>2
      <4> HIDE DEF Loop
      <4> QED
        BY <3>3, <4>1
    <3>5. MoveChunks(0, start + p, chunk, offset, len) = f[0]
      BY <3>3 DEF MoveChunks
    <3> QED
      BY <3>4, <3>5
  <2>3. pos_end # pos + len
    <3>1. (e + 1) * SECTOR_SIZE <= p * SECTOR_SIZE
      BY <1>0, <1>7, Products
    <3>2. (e + 1) * SECTOR_SIZE = e * SECTOR_SIZE + SECTOR_SIZE
      BY <1>0
    <3> QED
      BY <1>0, <1>2, <3>1, <3>2
  <2> QED
    <3>1. BytesFrom(first, 0) = << >>
      BY DEF BytesFrom
    <3> QED
      BY <1>6, <2>1, <2>2, <2>3, <3>1
<1>8. CASE ~(e < p)
  <2>1. PICK n \in Nat \ {0} : n = e - p + 1 /\ n = (start + e) - (start + p) + 1
    BY <1>8
  <2>2. chunk \in Nat \ {0} /\ chunk = IF n <= FS_BUF_SECTS THEN n ELSE FS_BUF_SECTS
    <3>1. chunk = Min({n, FS_BUF_SECTS})
      BY <1>4, <2>1
    <3>2. Min({n, FS_BUF_SECTS}) = IF n <= FS_BUF_SECTS THEN n ELSE FS_BUF_SECTS
      BY <1>0 DEF Min
    <3> QED
      BY <1>0, <3>1, <3>2
  <2>3. PICK q \in Nat : q = (n - 1) \div chunk /\ nr = q + 1 /\ n - 1 < q * chunk + chunk
    <3>1. (n - 1) \div chunk \in Nat
      <4>1. n - 1 \in Nat
        OBVIOUS
      <4> QED
        BY <2>2, <4>1, QuotientNat
    <3>2. (start + e) - (start + p) = n - 1 /\ ~(start + e < start + p)
      BY <1>8, <2>1
    <3> QED
      <4>1. PICK q \in Nat : q = (n - 1) \div chunk
        BY <3>1
      <4>2. n - 1 < q * chunk + chunk
        <5>1. n - 1 \in Int /\ q \in Int
          OBVIOUS
        <5> QED
          BY <2>2, <4>1, <5>1, Division
      <4>3. nr = q + 1
        BY <1>5, <3>2, <4>1
      <4> QED
        BY <4>1, <4>2, <4>3
  <2>4. nr * chunk \in Nat /\ n <= nr * chunk
    <3>1. nr * chunk = q * chunk + chunk /\ q * chunk \in Nat
      BY <2>2, <2>3
    <3> QED
      BY <2>1, <2>2, <2>3, <3>1
  <2>5. PICK m \in Nat : /\ m = SoFar(nr, chunk * SECTOR_SIZE, offset, len) /\ m <= len
                         /\ len <= n * SECTOR_SIZE - offset => m = len
    <3>1. n * SECTOR_SIZE <= (nr * chunk) * SECTOR_SIZE /\ (nr * chunk) * SECTOR_SIZE \in Int
      BY <1>0, <2>1, <2>4, Products
    <3>2. nr * (chunk * SECTOR_SIZE) = (nr * chunk) * SECTOR_SIZE
      <4>1. nr \in Nat /\ chunk \in Nat /\ SECTOR_SIZE \in Nat
        BY <1>0, <2>2, <2>3
      <4> QED
        BY <4>1, ProductAssociative
    <3>3. 1 * SECTOR_SIZE <= n * SECTOR_SIZE /\ n * SECTOR_SIZE \in Int
      BY <1>0, <2>1, Products
    <3>4. offset \in Nat /\ offset < SECTOR_SIZE
      BY <1>0
    <3>5. nr # 0
      BY <2>3
    <3>6. PICK x \in Int : x = nr * (chunk * SECTOR_SIZE)
      BY <3>1, <3>2
    <3>7. SoFar(nr, chunk * SECTOR_SIZE, offset, len) = IF len <= x - offset THEN len ELSE x - offset
      BY <3>5, <3>6 DEF SoFar
    <3> QED
      BY <1>0, <3>1, <3>2, <3>3, <3>4, <3>6, <3>7
  <2>6. MoveChunks(nr, start + p, chunk, offset, len)
          = [k \in 1 .. m |-> (start + p) * SECTOR_SIZE + offset + k - 1]
    <3>1. nr \in Nat /\ start + p \in Nat
      BY <2>3
    <3>2. MoveChunks(nr, start + p, chunk, offset, len) = MovedAfter(nr, start + p, chunk, offset, len)
      BY <2>2, <3>1, AllChunks
    <3> QED
      BY <2>5, <3>2 DEF MovedAfter
  <2>7. (start + p) * SECTOR_SIZE + offset = start * SECTOR_SIZE + pos
    <3>1. (start + p) * SECTOR_SIZE = start * SECTOR_SIZE + p * SECTOR_SIZE /\ start * SECTOR_SIZE \in Nat
      BY <1>0
    <3> QED
      BY <1>2, <1>3, <3>1
  <2>8. pos_end = pos + len => m = len
    <3>1. n * SECTOR_SIZE = e * SECTOR_SIZE + SECTOR_SIZE - p * SECTOR_SIZE
      BY <1>0, <2>1
    <3> QED
      BY <1>0, <1>2, <1>3, <2>5, <3>1
  <2>9. Transfer(start, pos_end, pos, len) = BytesFrom(first, m)
    BY <1>6, <2>6, <2>7 DEF BytesFrom
  <2>10. m \in 0 .. len
    BY <2>5
  <2> QED
    BY <2>8, <2>9, <2>10
<1> QED
  BY <1>7, <1>8

-----------------------------------------------------------------------------
(* Positions and sizes *)

\* Positions and sizes are never negative.
Positions ==
    /\ \A f \in Files : inode[f].file_size \in Nat
    /\ \A d \in Fds : desc[d].pos \in Nat

LEMMA Closeds == Closed.pos = 0 /\ NoFile.file_size = 0
BY DEF Closed, NoFile

LEMMA InitPositions == Init => Positions
<1> SUFFICES ASSUME Init PROVE Positions
  OBVIOUS
<1>1. INSTALL_NR_SECTS * SECTOR_SIZE \in Nat
  BY FileDataAssumption
<1>2. ASSUME NEW f \in Files PROVE inode[f].file_size \in Nat
  <2>1. CASE f = CmdTar
    BY <1>1, <2>1 DEF Init
  <2>2. CASE f # CmdTar
    BY <2>2, Closeds DEF Init
  <2> QED
    BY <2>1, <2>2
<1>3. \A d \in Fds : desc[d].pos \in Nat
  BY Closeds DEF Init
<1> QED
  BY <1>2, <1>3 DEF Positions

\* What is known of an open file.
LEMMA OpenFile ==
    ASSUME FInv, Positions, NEW d \in Fds, desc[d] # Closed
    PROVE  /\ desc[d].file \in Files /\ desc[d].pos \in Nat
           /\ desc[d] = [file |-> desc[d].file, pos |-> desc[d].pos]
           /\ inode[desc[d].file].sect_start \in Nat
           /\ inode[desc[d].file].nr_sects \in Nat
           /\ inode[desc[d].file].file_size \in Nat
           /\ inode[desc[d].file] = [sect_start |-> inode[desc[d].file].sect_start,
                                     nr_sects |-> inode[desc[d].file].nr_sects,
                                     file_size |-> inode[desc[d].file].file_size]
<1>1. /\ desc[d].file \in Files /\ inode[desc[d].file] # NoFile
      /\ desc[d] = [file |-> desc[d].file, pos |-> desc[d].pos]
  BY DEF FInv, Opened, Exists
<1>2. PICK f \in Files : f = desc[d].file /\ inode[f] # NoFile
  BY <1>1
<1>3. /\ inode[f].sect_start \in Nat /\ inode[f].nr_sects \in Nat
      /\ inode[f] = [sect_start |-> inode[f].sect_start, nr_sects |-> inode[f].nr_sects,
                     file_size |-> inode[f].file_size]
  BY <1>2 DEF FInv, Placed
<1>4. desc[d].pos \in Nat /\ inode[f].file_size \in Nat
  BY <1>2 DEF Positions
<1> QED
  BY <1>1, <1>2, <1>3, <1>4

\* Where a read or write of an open file begins, and how much of it is done.
LEMMA MovedIsRun ==
    ASSUME FInv, Positions, NEW d \in Fds, desc[d] # Closed, NEW type, NEW len \in Nat
    PROVE  \E m \in 0 .. len :
              /\ Moved(d, type, len)
                   = BytesFrom(inode[desc[d].file].sect_start * SECTOR_SIZE + desc[d].pos, m)
              /\ desc[d].pos + len
                   <= (IF type = "read" THEN inode[desc[d].file].file_size ELSE Capacity(desc[d].file))
                 => m = len
<1>0. PICK f \in Files : f = desc[d].file
  BY OpenFile
<1>1. PICK pos \in Nat : pos = desc[d].pos
  BY OpenFile
<1>2. inode[f].sect_start \in Nat /\ inode[f].nr_sects \in Nat /\ inode[f].file_size \in Nat
  BY <1>0, OpenFile
<1>3. PICK end \in Nat : end = IF type = "read" THEN inode[f].file_size ELSE Capacity(f)
  <2>1. Capacity(f) \in Nat
    BY <1>2, FileDataAssumption DEF Capacity
  <2> QED
    BY <1>2, <2>1
<1>4. PICK e \in Nat : e = Min({pos + len, end}) /\ (pos + len <= end => e = pos + len)
  <2>1. pos + len \in Nat
    OBVIOUS
  <2>2. Min({pos + len, end}) = IF pos + len <= end THEN pos + len ELSE end
    BY <2>1 DEF Min
  <2> QED
    BY <2>1, <2>2
<1>5. Moved(d, type, len) = Transfer(inode[f].sect_start, e, pos, len)
  BY <1>0, <1>1, <1>3, <1>4 DEF Moved
<1>6. PICK first : first = inode[f].sect_start * SECTOR_SIZE + pos
  OBVIOUS
<1>7. PICK m \in 0 .. len :
        /\ Transfer(inode[f].sect_start, e, pos, len) = BytesFrom(first, m)
        /\ e = pos + len => m = len
  <2>1. PICK m \in 0 .. len : IsRun(inode[f].sect_start, e, pos, len, m)
    BY <1>2, TransferIsRun
  <2> QED
    BY <1>6, <2>1 DEF IsRun
<1> QED
  BY <1>0, <1>1, <1>3, <1>4, <1>5, <1>7, <1>6

LEMMA NextPositions == FInv /\ Positions /\ [Next]_vars => Positions'
<1> SUFFICES ASSUME FInv, Positions, [Next]_vars PROVE Positions'
  OBVIOUS
<1>0. inode = [x \in Files |-> inode[x]] /\ desc = [x \in Fds |-> desc[x]]
  BY DEF FInv, Placed, Opened
<1>1. ASSUME NEW d \in Fds, NEW f \in Files, NEW trunc \in BOOLEAN, Open(d, f, trunc) PROVE Positions'
  <2>1. CASE UNCHANGED <<inode, desc>>
    BY <2>1 DEF Positions
  <2>2. CASE ~UNCHANGED <<inode, desc>>
    <3>1. /\ inode' = [inode EXCEPT ![f] = inode'[f]]
          /\ inode'[f].file_size \in {0, inode[f].file_size}
          /\ desc' = [desc EXCEPT ![d] = [file |-> f, pos |-> 0]]
      <4>1. /\ inode' = [inode EXCEPT ![f] =
                 IF ~Exists(f)
                 THEN [sect_start |-> alloc_sect_map_bit(FirstFree),
                       nr_sects |-> NR_FILE_SECTS, file_size |-> 0]
                 ELSE IF trunc THEN [inode[f] EXCEPT !.file_size = 0] ELSE inode[f]]
            /\ desc' = [desc EXCEPT ![d] = [file |-> f, pos |-> 0]]
        BY <1>1, <2>2 DEF Open
      <4>2. Exists(f) => inode[f] = [sect_start |-> inode[f].sect_start, nr_sects |-> inode[f].nr_sects,
                                     file_size |-> inode[f].file_size]
        BY DEF FInv, Placed, Exists
      <4> QED
        BY <1>0, <4>1, <4>2
    <3> QED
      BY <1>0, <3>1 DEF Positions
  <2> QED
    BY <2>1, <2>2
<1>2. ASSUME NEW d \in Fds, Close(d) PROVE Positions'
  BY <1>0, <1>2, Closeds DEF Close, Positions
<1>3. ASSUME NEW f \in Files, Unlink(f) PROVE Positions'
  <2>1. UNCHANGED desc /\ (UNCHANGED inode \/ inode' = [inode EXCEPT ![f] = NoFile])
    BY <1>3 DEF Unlink
  <2> QED
    BY <1>0, <2>1, Closeds DEF Positions
<1>4. ASSUME NEW d \in Fds, NEW off \in Offsets, NEW whence \in {"SEEK_SET", "SEEK_CUR", "SEEK_END"},
             do_lseek(d, off, whence)
      PROVE  Positions'
  <2>1. PICK pos : /\ pos \in 0 .. inode[desc[d].file].file_size /\ desc[d] # Closed
                   /\ desc' = [desc EXCEPT ![d].pos = pos] /\ UNCHANGED inode
    BY <1>4 DEF do_lseek
  <2>2. pos \in Nat
    BY <2>1, OpenFile
  <2>3. desc'[d].pos = pos
    <3>1. desc[d] = [file |-> desc[d].file, pos |-> desc[d].pos]
      BY <2>1, OpenFile
    <3> QED
      BY <1>0, <2>1, <3>1
  <2> QED
    BY <1>0, <2>1, <2>2, <2>3 DEF Positions
<1>5. ASSUME NEW d \in Fds, NEW type \in {"read", "write"}, NEW len \in 0 .. MaxLen,
             do_read_write_regular(d, type, len)
      PROVE  Positions'
  <2>1. desc[d] # Closed /\ len \in Nat
    BY <1>5, FileDataAssumption DEF do_read_write_regular
  <2>2. PICK f \in Files : f = desc[d].file
    BY <2>1, OpenFile
  <2>3. Len(Moved(d, type, len)) \in Nat
    <3>0. PICK b : b = inode[desc[d].file].sect_start * SECTOR_SIZE + desc[d].pos
      OBVIOUS
    <3>1. PICK m \in 0 .. len : Moved(d, type, len) = BytesFrom(b, m)
      BY <2>1, <3>0, MovedIsRun
    <3>2. Len(BytesFrom(b, m)) = m
      BY DEF BytesFrom
    <3> QED
      BY <2>1, <3>1, <3>2
  <2>4. PICK pos \in Nat : pos = desc[d].pos + Len(Moved(d, type, len))
    <3>1. desc[d].pos \in Nat
      BY <2>1, OpenFile
    <3> QED
      BY <2>3, <3>1
  <2>5. PICK size \in Nat : size = Max({inode[f].file_size, pos})
    <3>1. inode[f].file_size \in Nat
      BY DEF Positions
    <3>2. Max({inode[f].file_size, pos}) = IF inode[f].file_size >= pos THEN inode[f].file_size ELSE pos
      BY <3>1 DEF Max
    <3> QED
      BY <3>1, <3>2
  <2>6. desc' = [desc EXCEPT ![d].pos = pos] /\ inode' = [inode EXCEPT ![f].file_size = size]
    BY <1>5, <2>2, <2>4, <2>5 DEF do_read_write_regular
  <2>7. desc'[d].pos = pos /\ \A x \in Fds \ {d} : desc'[x] = desc[x]
    <3>1. desc[d] = [file |-> desc[d].file, pos |-> desc[d].pos]
      BY <2>1, OpenFile
    <3> QED
      BY <1>0, <2>6, <3>1
  <2>8. inode'[f].file_size = size /\ \A x \in Files \ {f} : inode'[x] = inode[x]
    BY <1>0, <2>1, <2>2, <2>6, OpenFile
  <2> QED
    BY <2>7, <2>8 DEF Positions
<1>6. CASE UNCHANGED vars
  BY <1>6 DEF vars, Positions
<1> QED
  BY <1>1, <1>2, <1>3, <1>4, <1>5, <1>6 DEF Next

LEMMA PositionsTransferExact == FInv /\ Positions => TransferExact
<1> SUFFICES ASSUME FInv, Positions, NEW d \in Fds, desc[d] # Closed,
                    NEW type \in {"read", "write"}, NEW len \in 0 .. MaxLen,
                    desc[d].pos + len
                      <= (IF type = "read" THEN inode[desc[d].file].file_size ELSE Capacity(desc[d].file))
             PROVE  Moved(d, type, len)
                     = BytesFrom(inode[desc[d].file].sect_start * SECTOR_SIZE + desc[d].pos, len)
  BY DEF TransferExact, BytesFrom
<1>1. len \in Nat
  BY FileDataAssumption
<1> QED
  BY <1>1, MovedIsRun

\* A read that ends within the file, and a write that ends within its sectors,
\* move exactly the bytes at the position, in order.
THEOREM TransferAlwaysExact == Spec => []TransferExact
<1> QED
  BY InitFInv, NextFInv, InitPositions, NextPositions, PositionsTransferExact, PTL DEF Spec
=============================================================================
