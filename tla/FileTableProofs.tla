-------------------------- MODULE FileTableProofs --------------------------
(***************************************************************************)
(* Safety of the file tables for any number of processes, descriptors,     *)
(* inodes and directory entries.                                           *)
(***************************************************************************)
EXTENDS FileTable, FiniteSetTheorems, SequenceTheorems, TLAPS

\* A free slot has no pointers; a child that FS has not heard of has those of its
\* parent, which runs on only when FS has counted them.
CopiesMatch ==
    /\ \A p \in Procs : proc_state[p] = "free" => \A i \in Fds : file_desc[p][i] = NULL
    /\ \A c \in Procs : proc_state[c] = "copied" =>
          proc_state[parent] = "live" /\ file_desc[c] = file_desc[parent]
    /\ \A b, c \in Procs : proc_state[b] = "copied" /\ proc_state[c] = "copied" => b = c

\* What is cached is allocated.
CachedAllocated ==
    /\ ROOT_INODE_NR \in inode_map
    /\ \A s \in Slots : inode_table[s].inode_cnt > 0 => inode_table[s].inode_nr \in inode_map

\* The part of TypeOK that is about the directory.
DirTypes ==
    /\ dir \in [Indexes -> [name : Names \cup {"", STALE}, inode_nr : Inodes \cup {INVALID_INODE}]]
    /\ nr_dir_entries \in 0..MaxEntries /\ ragged \in BOOLEAN

TInv == /\ TypeOK /\ DescriptorsShared /\ CopiesMatch /\ CachedOnce
        /\ CachedAllocated /\ EntriesOwnInodes
-----------------------------------------------------------------------------
(* Facts about sets *)

\* A scan from the beginning finds what it looks for if it is there.
LEMMA MinIsMember ==
    ASSUME NEW S, S \subseteq Nat, S # {}
    PROVE  Min(S) \in S
<1> DEFINE R == OpToRel(<, Nat)
<1>1. PICK x \in S : \A y \in S : ~(<<y, x>> \in R)
  <2> HIDE DEF R
  <2>1. IsWellFoundedOn(R, Nat)
    BY NatLessThanWellFounded DEF R
  <2> QED BY <2>1, WFMin
<1>2. \A y \in S : x <= y
  <2> TAKE y \in S
  <2>1. ~(y < x)
    BY <1>1 DEF OpToRel
  <2> QED BY <2>1
<1> QED BY <1>2 DEF Min

LEMMA MaxOfTwo ==
    ASSUME NEW m \in Nat, NEW n \in Nat
    PROVE  Max({m, n}) = IF m >= n THEN m ELSE n
BY DEF Max

LEMMA AtLeastOne ==
    ASSUME NEW S, IsFiniteSet(S), NEW x \in S
    PROVE  Cardinality(S) \in Nat /\ Cardinality(S) > 0
<1>1. S # {}
  OBVIOUS
<1>2. Cardinality(S) # 0
  BY <1>1, FS_EmptySet
<1>3. Cardinality(S) \in Nat
  BY FS_CardinalityType
<1> QED BY <1>2, <1>3

LEMMA RemoveSubset ==
    ASSUME NEW S, IsFiniteSet(S), NEW T, T \subseteq S
    PROVE  /\ IsFiniteSet(T) /\ Cardinality(T) \in Nat /\ Cardinality(S) \in Nat
           /\ IsFiniteSet(S \ T) /\ Cardinality(S \ T) \in Nat
           /\ Cardinality(S \ T) = Cardinality(S) - Cardinality(T)
           /\ S \ T = {} <=> Cardinality(S \ T) = 0
<1>1. S \cap T = T
  OBVIOUS
<1>2. IsFiniteSet(S \ T) /\ Cardinality(S \ T) = Cardinality(S) - Cardinality(T)
  BY <1>1, FS_Difference
<1>3. IsFiniteSet(T)
  BY FS_Subset
<1>4. Cardinality(T) \in Nat /\ Cardinality(S) \in Nat /\ Cardinality(S \ T) \in Nat
  BY <1>2, <1>3, FS_CardinalityType
<1>5. S \ T = {} <=> Cardinality(S \ T) = 0
  BY <1>2, FS_EmptySet
<1> QED BY <1>2, <1>3, <1>4, <1>5

LEMMA AddDisjoint ==
    ASSUME NEW S, IsFiniteSet(S), NEW T, IsFiniteSet(T), S \cap T = {}
    PROVE  Cardinality(S \cup T) = Cardinality(S) + Cardinality(T)
<1>1. Cardinality(S \cup T) = Cardinality(S) + Cardinality(T) - Cardinality(S \cap T)
  BY FS_Union
<1>2. Cardinality(S \cap T) = 0 /\ Cardinality(S) \in Nat /\ Cardinality(T) \in Nat
  BY FS_EmptySet, FS_CardinalityType
<1> QED BY <1>1, <1>2

LEMMA TableSizes ==
    /\ {NR_FILES, NR_FILE_DESC, NR_INODE, NR_INODES, ENTRIES} \subseteq Nat \ {0}
    /\ IsFiniteSet(Fds)
<1>1. {NR_FILES, NR_FILE_DESC, NR_INODE, NR_INODES, ENTRIES} \subseteq Nat \ {0}
  BY FileTableAssumption
<1>2. 1 \in Int /\ NR_FILES \in Int
  BY <1>1
<1>3. IsFiniteSet(1..NR_FILES)
  BY <1>2, FS_Interval
<1> QED BY <1>1, <1>3 DEF Fds

\* The pointers of one process are as many as the pairs of it and of them.
LEMMA PairsOfOne ==
    ASSUME NEW p, NEW I \in SUBSET Fds
    PROVE  /\ IsFiniteSet(I) /\ Cardinality(I) \in Nat
           /\ IsFiniteSet({p} \X I) /\ Cardinality({p} \X I) = Cardinality(I)
<1>1. IsFiniteSet(I)
  BY TableSizes, FS_Subset
<1>2. ExistsBijection(I, {p} \X I)
  <2> DEFINE f == [i \in I |-> <<p, i>>]
  <2>1. f \in [I -> {p} \X I]
    OBVIOUS
  <2>2. \A i, j \in I : f[i] = f[j] => i = j
    OBVIOUS
  <2>3. \A h \in {p} \X I : \E i \in I : f[i] = h
    OBVIOUS
  <2> HIDE DEF f
  <2>4. f \in Injection(I, {p} \X I)
    BY <2>1, <2>2 DEF Injection, IsInjective
  <2>5. f \in Surjection(I, {p} \X I)
    BY <2>1, <2>3 DEF Surjection
  <2> QED BY <2>4, <2>5 DEF ExistsBijection, Bijection
<1> QED BY <1>1, <1>2, FS_Bijection, FS_CardinalityType

\* Whoever may hold a descriptor or share an inode.
LEMMA FinitelyManyPointers == IsFiniteSet(Procs \X Fds)
BY TableSizes, FileTableAssumption, FS_Product

-----------------------------------------------------------------------------
(* The pointers *)

\* Sets of pointers are equal if they have the same pairs.
LEMMA PairsEqual ==
    ASSUME NEW S \in SUBSET (Procs \X Fds), NEW T \in SUBSET (Procs \X Fds),
           \A q \in Procs, j \in Fds : <<q, j>> \in S <=> <<q, j>> \in T
    PROVE  S = T
OBVIOUS

\* Holders and Sharers for given values of the variables.
HoldersIn(ps, fd, d) == {h \in Procs \X Fds : ps[h[1]] = "live" /\ fd[h[1]][h[2]] = d}
SharersIn(ps, fd, fdt, s) ==
    {h \in Procs \X Fds : /\ ps[h[1]] = "live" /\ fd[h[1]][h[2]] # NULL
                          /\ fdt[fd[h[1]][h[2]]].fd_inode = s}

LEMMA HoldersAre ==
    ASSUME NEW ps, NEW fd, NEW d
    PROVE  /\ HoldersIn(ps, fd, d) \in SUBSET (Procs \X Fds)
           /\ IsFiniteSet(HoldersIn(ps, fd, d)) /\ Cardinality(HoldersIn(ps, fd, d)) \in Nat
           /\ \A q \in Procs, j \in Fds :
                 <<q, j>> \in HoldersIn(ps, fd, d) <=> ps[q] = "live" /\ fd[q][j] = d
<1>1. \A T \in SUBSET (Procs \X Fds) : IsFiniteSet(T) /\ Cardinality(T) \in Nat
  BY FinitelyManyPointers, FS_Subset, FS_CardinalityType
<1>2. HoldersIn(ps, fd, d) \in SUBSET (Procs \X Fds)
  BY DEF HoldersIn
<1>3. \A q \in Procs, j \in Fds :
         <<q, j>> \in HoldersIn(ps, fd, d) <=> ps[q] = "live" /\ fd[q][j] = d
  BY DEF HoldersIn
<1> QED BY <1>1, <1>2, <1>3

LEMMA SharersAre ==
    ASSUME NEW ps, NEW fd, NEW fdt, NEW s
    PROVE  /\ SharersIn(ps, fd, fdt, s) \in SUBSET (Procs \X Fds)
           /\ IsFiniteSet(SharersIn(ps, fd, fdt, s))
           /\ Cardinality(SharersIn(ps, fd, fdt, s)) \in Nat
           /\ \A q \in Procs, j \in Fds :
                 <<q, j>> \in SharersIn(ps, fd, fdt, s) <=>
                    ps[q] = "live" /\ fd[q][j] # NULL /\ fdt[fd[q][j]].fd_inode = s
<1>1. \A T \in SUBSET (Procs \X Fds) : IsFiniteSet(T) /\ Cardinality(T) \in Nat
  BY FinitelyManyPointers, FS_Subset, FS_CardinalityType
<1>2. SharersIn(ps, fd, fdt, s) \in SUBSET (Procs \X Fds)
  BY DEF SharersIn
<1>3. \A q \in Procs, j \in Fds :
         <<q, j>> \in SharersIn(ps, fd, fdt, s) <=>
            ps[q] = "live" /\ fd[q][j] # NULL /\ fdt[fd[q][j]].fd_inode = s
  BY DEF SharersIn
<1> QED BY <1>1, <1>2, <1>3

\* Unshared and DescriptorsShared for given values of the variables.
UnsharedIn(lk, s) == lk[s] + (IF s = 1 THEN 1 ELSE 0)
SharedIn(ps, fd, fdt, it, lk) ==
    /\ \A d \in Descs : /\ fdt[d].fd_cnt = Cardinality(HoldersIn(ps, fd, d))
                        /\ fdt[d].fd_inode = NULL <=> HoldersIn(ps, fd, d) = {}
    /\ \A s \in Slots : it[s].inode_cnt =
          Cardinality(SharersIn(ps, fd, fdt, s)) + UnsharedIn(lk, s)

LEMMA SharedNow ==
    /\ DescriptorsShared <=> SharedIn(proc_state, file_desc, file_desc_table, inode_table, leaked)
    /\ DescriptorsShared' <=> SharedIn(proc_state', file_desc', file_desc_table', inode_table', leaked')
<1>1. DescriptorsShared <=> SharedIn(proc_state, file_desc, file_desc_table, inode_table, leaked)
  BY DEF DescriptorsShared, SharedIn, Holders, HoldersIn, Sharers, SharersIn,
         Unshared, UnsharedIn
<1>2. DescriptorsShared' <=> SharedIn(proc_state', file_desc', file_desc_table', inode_table', leaked')
  BY DEF DescriptorsShared, SharedIn, Holders, HoldersIn, Sharers, SharersIn,
         Unshared, UnsharedIn
<1> QED BY <1>1, <1>2

LEMMA UnsharedType == TypeOK => \A s \in Slots : UnsharedIn(leaked, s) \in Nat
<1> SUFFICES ASSUME TypeOK, NEW s \in Slots PROVE UnsharedIn(leaked, s) \in Nat
  OBVIOUS
<1>1. MaxLeak \in Nat
  BY FileTableAssumption
<1>2. leaked \in [Slots -> 0..MaxLeak]
  BY DEF TypeOK
<1>3. leaked[s] \in Nat
  BY <1>1, <1>2
<1> QED BY <1>3 DEF UnsharedIn

\* A live process, p or the parent it is a copy of, holds whatever p points to.
LEMMA HeldByLive ==
    ASSUME TInv, NEW p \in Procs, NEW i \in Fds, file_desc[p][i] # NULL
    PROVE  \E q \in Procs : proc_state[q] = "live" /\ file_desc[q][i] = file_desc[p][i]
BY DEF TInv, TypeOK, CopiesMatch

\* OpenFilesExist, and the type of what it speaks of.
LEMMA OpenExist ==
    ASSUME TInv, NEW p \in Procs, NEW i \in Fds, file_desc[p][i] # NULL
    PROVE  /\ file_desc[p][i] \in Descs
           /\ file_desc_table[file_desc[p][i]].fd_inode \in Slots
           /\ inode_table[file_desc_table[file_desc[p][i]].fd_inode].inode_cnt > 0
           /\ inode_table[file_desc_table[file_desc[p][i]].fd_inode].inode_nr \in inode_map
<1> DEFINE d == file_desc[p][i]
           s == file_desc_table[d].fd_inode
<1>1. PICK q \in Procs : proc_state[q] = "live" /\ file_desc[q][i] = d
  BY HeldByLive
<1>2. d \in Descs
  <2>1. file_desc \in [Procs -> [Fds -> Descs \cup {NULL}]]
    BY DEF TInv, TypeOK
  <2> QED BY <2>1
<1>3. <<q, i>> \in HoldersIn(proc_state, file_desc, d)
  BY <1>1, HoldersAre
<1>4. s \in Slots
  <2>1. s # NULL
    BY <1>2, <1>3, SharedNow DEF TInv, SharedIn
  <2> QED BY <1>2, <2>1 DEF TInv, TypeOK
<1>5. inode_table[s].inode_cnt > 0
  <2>1. <<q, i>> \in SharersIn(proc_state, file_desc, file_desc_table, s)
    BY <1>1, SharersAre
  <2>2. /\ Cardinality(SharersIn(proc_state, file_desc, file_desc_table, s)) \in Nat
        /\ Cardinality(SharersIn(proc_state, file_desc, file_desc_table, s)) > 0
    BY <2>1, SharersAre, AtLeastOne
  <2>3. inode_table[s].inode_cnt =
           Cardinality(SharersIn(proc_state, file_desc, file_desc_table, s)) + UnsharedIn(leaked, s)
    BY <1>4, SharedNow DEF TInv, SharedIn
  <2>4. UnsharedIn(leaked, s) \in Nat
    BY <1>4, UnsharedType DEF TInv
  <2> QED BY <2>2, <2>3, <2>4
<1> QED BY <1>2, <1>3, <1>4, <1>5 DEF TInv, CachedAllocated

-----------------------------------------------------------------------------
(* References taken *)

\* FilesStay's action: a pointer that a step leaves alone stands for the same file.
FilesKept ==
    \A p \in Procs, i \in Fds :
        file_desc[p][i] # NULL /\ file_desc'[p][i] = file_desc[p][i]
            => FileOf(p, i)' = FileOf(p, i)

LEMMA KeptIfSlotKept ==
    ASSUME TInv,
           \A p \in Procs, i \in Fds :
              file_desc[p][i] # NULL /\ file_desc'[p][i] = file_desc[p][i] =>
                 LET d == file_desc[p][i]
                     s == file_desc_table[d].fd_inode
                 IN  /\ file_desc_table'[d].fd_inode = s
                     /\ inode_table'[s].inode_nr = inode_table[s].inode_nr
    PROVE  FilesKept
<1> SUFFICES ASSUME NEW p \in Procs, NEW i \in Fds,
                    file_desc[p][i] # NULL, file_desc'[p][i] = file_desc[p][i]
             PROVE  FileOf(p, i)' = FileOf(p, i)
  BY DEF FilesKept
<1> QED BY DEF FileOf

\* The slot get_file_inode uses: the one that has the inode, or a free one.
LEMMA SlotFound ==
    ASSUME TInv, NEW nr \in Inodes, HasSlot(nr)
    PROVE  /\ SlotOf(nr) \in Slots
           /\ \/ inode_table[SlotOf(nr)].inode_cnt = 0
              \/ inode_table[SlotOf(nr)].inode_nr = nr
           /\ \A t \in Slots :
                 inode_table[t].inode_cnt > 0 /\ inode_table[t].inode_nr = nr => t = SlotOf(nr)
<1>1. Cached(nr) \subseteq Nat /\ FreeSlots \subseteq Nat
  BY DEF Cached, FreeSlots, Slots
<1>2. CASE Cached(nr) # {}
  <2>1. SlotOf(nr) \in Cached(nr)
    BY <1>1, <1>2, MinIsMember DEF SlotOf
  <2> QED BY <2>1 DEF Cached, TInv, CachedOnce
<1>3. CASE Cached(nr) = {}
  <2>1. SlotOf(nr) \in FreeSlots
    BY <1>1, <1>3, MinIsMember DEF SlotOf, HasSlot
  <2> QED BY <1>3, <2>1 DEF Cached, FreeSlots
<1> QED BY <1>2, <1>3

\* A new reference to inode nr in slot s: get_file_inode.
TakesSlot(s, nr) ==
    /\ inode_table[s].inode_cnt = 0 \/ inode_table[s].inode_nr = nr
    /\ \A t \in Slots : inode_table[t].inode_cnt > 0 /\ inode_table[t].inode_nr = nr => t = s
    /\ inode_table' = [inode_table EXCEPT ![s] =
                          [inode_nr |-> nr, inode_cnt |-> inode_table[s].inode_cnt + 1]]

LEMMA TakesSlotKeeps ==
    ASSUME TInv, NEW s \in Slots, NEW nr \in Inodes, TakesSlot(s, nr)
    PROVE  /\ inode_table' \in [Slots -> [inode_nr : Inodes \cup {INVALID_INODE},
                                          inode_cnt : Nat]]
           /\ CachedOnce'
           /\ inode_table'[s].inode_cnt = inode_table[s].inode_cnt + 1
           /\ inode_table'[s].inode_nr = nr
           /\ \A t \in Slots \ {s} : inode_table'[t] = inode_table[t]
           /\ \A t \in Slots : inode_table[t].inode_cnt > 0 =>
                 inode_table'[t].inode_nr = inode_table[t].inode_nr
<1>1. inode_table \in [Slots -> [inode_nr : Inodes \cup {INVALID_INODE}, inode_cnt : Nat]]
  BY DEF TInv, TypeOK
<1>2. inode_table' \in [Slots -> [inode_nr : Inodes \cup {INVALID_INODE}, inode_cnt : Nat]]
  BY <1>1 DEF TakesSlot
<1>3. /\ inode_table'[s].inode_cnt = inode_table[s].inode_cnt + 1
      /\ inode_table'[s].inode_nr = nr
      /\ \A t \in Slots \ {s} : inode_table'[t] = inode_table[t]
  BY <1>1 DEF TakesSlot
<1>4. CachedOnce'
  BY <1>3 DEF TInv, CachedOnce, TakesSlot
<1>5. \A t \in Slots : inode_table[t].inode_cnt > 0 =>
         inode_table'[t].inode_nr = inode_table[t].inode_nr
  BY <1>3 DEF TakesSlot
<1> QED BY <1>2, <1>3, <1>4, <1>5

\* do_open connects a free pointer, a free descriptor and the slot of the inode.
LEMMA ConnectKeeps ==
    ASSUME TInv, NEW p \in Procs, Calls(p), NEW i \in Fds, file_desc[p][i] = NULL,
           NEW d \in Descs, file_desc_table[d].fd_inode = NULL,
           NEW s \in Slots, NEW nr \in Inodes, TakesSlot(s, nr),
           file_desc' = [file_desc EXCEPT ![p][i] = d],
           file_desc_table' = [file_desc_table EXCEPT ![d] = [fd_inode |-> s, fd_cnt |-> 1]],
           UNCHANGED <<proc_state, parent, leaked>>
    PROVE  DescriptorsShared' /\ CopiesMatch' /\ FilesKept
<1> DEFINE H(e) == HoldersIn(proc_state, file_desc, e)
           HN(e) == HoldersIn(proc_state, file_desc', e)
           S(t) == SharersIn(proc_state, file_desc, file_desc_table, t)
           SN(t) == SharersIn(proc_state, file_desc', file_desc_table', t)
<1>0. /\ file_desc \in [Procs -> [Fds -> Descs \cup {NULL}]]
      /\ file_desc_table \in [Descs -> [fd_inode : Slots \cup {NULL}, fd_cnt : Nat]]
      /\ inode_table \in [Slots -> [inode_nr : Inodes \cup {INVALID_INODE}, inode_cnt : Nat]]
      /\ SharedIn(proc_state, file_desc, file_desc_table, inode_table, leaked)
  BY SharedNow DEF TInv, TypeOK
<1>00. proc_state[p] = "live" /\ NULL \notin Descs /\ NULL \notin Slots
  BY DEF Calls, Descs, Slots, NULL
<1>1. /\ \A q \in Procs, j \in Fds :
            file_desc'[q][j] = IF q = p /\ j = i THEN d ELSE file_desc[q][j]
      /\ \A e \in Descs :
            file_desc_table'[e] = IF e = d THEN [fd_inode |-> s, fd_cnt |-> 1]
                                           ELSE file_desc_table[e]
  BY <1>0
<1>2. \A q \in Procs, j \in Fds : file_desc[q][j] # d
  <2> SUFFICES ASSUME NEW q \in Procs, NEW j \in Fds, file_desc[q][j] = d PROVE FALSE
    OBVIOUS
  <2> QED BY <1>00, OpenExist
<1>3. ASSUME NEW e \in Descs PROVE HN(e) = IF e = d THEN {<<p, i>>} ELSE H(e)
  <2> DEFINE T == IF e = d THEN {<<p, i>>} ELSE H(e)
  <2>1. T \in SUBSET (Procs \X Fds) /\ HN(e) \in SUBSET (Procs \X Fds)
    BY HoldersAre
  <2>2. \A q \in Procs, j \in Fds : <<q, j>> \in HN(e) <=> <<q, j>> \in T
    <3> TAKE q \in Procs, j \in Fds
    <3>1. <<q, j>> \in HN(e) <=> proc_state[q] = "live" /\ file_desc'[q][j] = e
      BY DEF HoldersIn
    <3>2. <<q, j>> \in H(e) <=> proc_state[q] = "live" /\ file_desc[q][j] = e
      BY HoldersAre
    <3> HIDE DEF H, HN
    <3> QED BY <1>00, <1>1, <1>2, <3>1, <3>2
  <2> HIDE DEF HN, T
  <2>3. HN(e) = T
    BY <2>1, <2>2, PairsEqual
  <2> QED BY <2>3 DEF T
<1>4. ASSUME NEW t \in Slots PROVE SN(t) = IF t = s THEN S(s) \cup {<<p, i>>} ELSE S(t)
  <2> DEFINE T == IF t = s THEN S(s) \cup {<<p, i>>} ELSE S(t)
  <2>1. T \in SUBSET (Procs \X Fds) /\ SN(t) \in SUBSET (Procs \X Fds)
    BY SharersAre
  <2>2. \A q \in Procs, j \in Fds : <<q, j>> \in SN(t) <=> <<q, j>> \in T
    <3> TAKE q \in Procs, j \in Fds
    <3>1. <<q, j>> \in SN(t) <=> /\ proc_state[q] = "live" /\ file_desc'[q][j] # NULL
                                 /\ file_desc_table'[file_desc'[q][j]].fd_inode = t
      BY DEF SharersIn
    <3>2. <<q, j>> \in S(t) <=> /\ proc_state[q] = "live" /\ file_desc[q][j] # NULL
                                /\ file_desc_table[file_desc[q][j]].fd_inode = t
      BY SharersAre
    <3> HIDE DEF S, SN
    <3>3. CASE q = p /\ j = i
      BY <1>00, <1>1, <3>1, <3>2, <3>3
    <3>4. CASE ~(q = p /\ j = i)
      <4>1. file_desc'[q][j] = file_desc[q][j]
        BY <1>1, <3>4
      <4>2. file_desc[q][j] # NULL =>
               file_desc_table'[file_desc[q][j]] = file_desc_table[file_desc[q][j]]
        BY <1>0, <1>1, <1>2
      <4> QED BY <3>1, <3>2, <3>4, <4>1, <4>2
    <3> QED BY <3>3, <3>4
  <2> HIDE DEF SN, T
  <2>3. SN(t) = T
    BY <2>1, <2>2, PairsEqual
  <2> QED BY <2>3 DEF T
<1>5. ASSUME NEW e \in Descs
      PROVE  /\ file_desc_table'[e].fd_cnt = Cardinality(HN(e))
             /\ file_desc_table'[e].fd_inode = NULL <=> HN(e) = {}
  <2> HIDE DEF HN
  <2>1. CASE e = d
    <3>1. Cardinality({<<p, i>>}) = 1 /\ {<<p, i>>} # {}
      BY FS_Singleton
    <3>2. file_desc_table'[e].fd_cnt = 1 /\ file_desc_table'[e].fd_inode = s
      BY <1>1, <2>1
    <3>3. HN(e) = {<<p, i>>}
      BY <1>3, <2>1
    <3> QED BY <1>00, <3>1, <3>2, <3>3
  <2>2. CASE e # d
    BY <1>0, <1>1, <1>3, <2>2 DEF SharedIn
  <2> QED BY <2>1, <2>2
<1>6. ASSUME NEW t \in Slots
      PROVE  inode_table'[t].inode_cnt = Cardinality(SN(t)) + UnsharedIn(leaked, t)
  <2>1. /\ inode_table[t].inode_cnt = Cardinality(S(t)) + UnsharedIn(leaked, t)
        /\ IsFiniteSet(S(t)) /\ Cardinality(S(t)) \in Nat
    BY <1>0, SharersAre DEF SharedIn
  <2>2. UnsharedIn(leaked, t) \in Nat
    BY UnsharedType DEF TInv
  <2>3. <<p, i>> \notin S(t)
    BY SharersAre
  <2> HIDE DEF S, SN
  <2>4. CASE t = s
    <3>1. Cardinality(SN(s)) = Cardinality(S(s)) + 1
      BY <1>4, <2>1, <2>3, <2>4, FS_AddElement
    <3>2. inode_table'[s].inode_cnt = inode_table[s].inode_cnt + 1
      BY TakesSlotKeeps
    <3> QED BY <2>1, <2>2, <2>4, <3>1, <3>2
  <2>5. CASE t # s
    BY <1>4, <2>1, <2>5, TakesSlotKeeps
  <2> QED BY <2>4, <2>5
<1>7. CopiesMatch'
  BY <1>0, <1>00, <1>1 DEF TInv, CopiesMatch, Calls, Forking
<1>8. FilesKept
  <2> SUFFICES ASSUME NEW q \in Procs, NEW j \in Fds,
                      file_desc[q][j] # NULL, file_desc'[q][j] = file_desc[q][j]
               PROVE  LET e == file_desc[q][j]
                          t == file_desc_table[e].fd_inode
                      IN  /\ file_desc_table'[e].fd_inode = t
                          /\ inode_table'[t].inode_nr = inode_table[t].inode_nr
    BY KeptIfSlotKept
  <2> QED BY <1>1, <1>2, OpenExist, TakesSlotKeeps
<1> QED BY <1>5, <1>6, <1>7, <1>8, SharedNow DEF SharedIn

-----------------------------------------------------------------------------
(* References given back *)

\* n of the pointers that hold a descriptor are gone.
LEMMA ReleaseCounts ==
    ASSUME NEW D \in [fd_inode : Slots \cup {NULL}, fd_cnt : Nat],
           NEW n \in Nat, n <= D.fd_cnt,
           NEW E, E = IF n = 0 THEN D ELSE Release(D, n)
    PROVE  /\ E \in [fd_inode : Slots \cup {NULL}, fd_cnt : Nat]
           /\ E.fd_cnt = D.fd_cnt - n
           /\ D.fd_cnt # n \/ n = 0 => E.fd_inode = D.fd_inode
           /\ D.fd_cnt = n /\ n # 0 => E.fd_inode = NULL
BY DEF Release, NoDesc

LEMMA PutCounts ==
    ASSUME NEW D \in [inode_nr : Inodes \cup {INVALID_INODE}, inode_cnt : Nat],
           NEW n \in Nat, n <= D.inode_cnt,
           NEW E, E = IF n = 0 THEN D ELSE Put(D, n)
    PROVE  /\ E \in [inode_nr : Inodes \cup {INVALID_INODE}, inode_cnt : Nat]
           /\ E.inode_cnt = D.inode_cnt - n
           /\ E.inode_cnt > 0 => E.inode_nr = D.inode_nr
BY DEF Put, NoInode

\* The pointers of p in I to descriptor e, and to inodes in slot t.
PointersIn(p, I, e) == {j \in I : file_desc[p][j] = e}
RefsIn(p, I, t) == {j \in I : /\ file_desc[p][j] # NULL
                              /\ file_desc_table[file_desc[p][j]].fd_inode = t}

\* p gives up its pointers in I: do_close, fs_exit.
GivesUp(p, I) ==
    /\ \A q \in Procs \ {p} : file_desc'[q] = file_desc[q]
    /\ \A j \in Fds : file_desc'[p][j] = IF j \in I THEN NULL ELSE file_desc[p][j]
    /\ \A e \in Descs : file_desc_table'[e] =
          IF Cardinality(PointersIn(p, I, e)) = 0 THEN file_desc_table[e]
          ELSE Release(file_desc_table[e], Cardinality(PointersIn(p, I, e)))
    /\ \A t \in Slots : inode_table'[t] =
          IF Cardinality(RefsIn(p, I, t)) = 0 THEN inode_table[t]
          ELSE Put(inode_table[t], Cardinality(RefsIn(p, I, t)))

\* Descriptors: the holders that remain are counted, and they keep the inode.
LEMMA GivesUpDescs ==
    ASSUME TInv, NEW p \in Procs, proc_state[p] = "live", NEW I \in SUBSET Fds, GivesUp(p, I),
           \A q \in Procs : proc_state'[q] = "live" => proc_state[q] = "live",
           \A q \in Procs : proc_state[q] = "live" /\ proc_state'[q] # "live" => q = p /\ I = Fds,
           NEW e \in Descs
    PROVE  LET HN == HoldersIn(proc_state', file_desc', e)
           IN  /\ file_desc_table'[e] \in [fd_inode : Slots \cup {NULL}, fd_cnt : Nat]
               /\ file_desc_table'[e].fd_cnt = Cardinality(HN)
               /\ HN = {} => file_desc_table'[e].fd_inode = NULL
               /\ HN # {} => /\ file_desc_table'[e].fd_inode = file_desc_table[e].fd_inode
                             /\ file_desc_table'[e].fd_inode # NULL
<1> DEFINE H == HoldersIn(proc_state, file_desc, e)
           HN == HoldersIn(proc_state', file_desc', e)
           N == PointersIn(p, I, e)
           n == Cardinality(N)
<1>0. /\ file_desc_table[e] \in [fd_inode : Slots \cup {NULL}, fd_cnt : Nat]
      /\ file_desc_table[e].fd_cnt = Cardinality(H)
      /\ file_desc_table[e].fd_inode = NULL <=> H = {}
  BY SharedNow DEF TInv, TypeOK, SharedIn
<1>1. e # NULL
  BY DEF Descs, NULL
<1>2. N \in SUBSET Fds
  BY DEF PointersIn
<1>3. IsFiniteSet({p} \X N) /\ Cardinality({p} \X N) = n /\ n \in Nat
  BY <1>2, PairsOfOne
<1>4. {p} \X N \subseteq H
  <2>1. \A j \in N : <<p, j>> \in H
    BY <1>2, HoldersAre DEF PointersIn
  <2> QED BY <2>1
<1>5. HN = H \ ({p} \X N)
  <2>1. HN \in SUBSET (Procs \X Fds) /\ H \ ({p} \X N) \in SUBSET (Procs \X Fds)
    BY DEF HoldersIn
  <2>2. \A q \in Procs, j \in Fds : <<q, j>> \in HN <=> <<q, j>> \in H \ ({p} \X N)
    <3> TAKE q \in Procs, j \in Fds
    <3>1. <<q, j>> \in HN <=> proc_state'[q] = "live" /\ file_desc'[q][j] = e
      BY DEF HoldersIn
    <3>2. <<q, j>> \in H <=> proc_state[q] = "live" /\ file_desc[q][j] = e
      BY HoldersAre
    <3>3. <<q, j>> \in {p} \X N <=> q = p /\ j \in I /\ file_desc[p][j] = e
      BY DEF PointersIn
    <3> HIDE DEF H, HN, N
    <3>4. CASE q = p
      BY <1>1, <3>1, <3>2, <3>3, <3>4 DEF GivesUp
    <3>5. CASE q # p
      BY <3>1, <3>2, <3>3, <3>5 DEF GivesUp
    <3> QED BY <3>4, <3>5
  <2> HIDE DEF H, HN, N
  <2> QED BY <2>1, <2>2, PairsEqual
<1>6. IsFiniteSet(H) /\ Cardinality(H) \in Nat
  BY HoldersAre
<1>7. /\ Cardinality(HN) = Cardinality(H) - n /\ Cardinality(HN) \in Nat
      /\ HN = {} <=> Cardinality(HN) = 0
  <2> HIDE DEF H, HN, N
  <2> HIDE DEF n
  <2> QED BY <1>3, <1>4, <1>5, <1>6, RemoveSubset
<1>8. H = {} <=> Cardinality(H) = 0
  BY <1>6, FS_EmptySet
<1>9. file_desc_table'[e] = IF n = 0 THEN file_desc_table[e] ELSE Release(file_desc_table[e], n)
  BY DEF GivesUp
<1> HIDE DEF H, HN, N, n
<1>10. n <= file_desc_table[e].fd_cnt
  BY <1>0, <1>3, <1>6, <1>7
<1>11. /\ file_desc_table'[e] \in [fd_inode : Slots \cup {NULL}, fd_cnt : Nat]
       /\ file_desc_table'[e].fd_cnt = file_desc_table[e].fd_cnt - n
       /\ file_desc_table[e].fd_cnt # n \/ n = 0 =>
             file_desc_table'[e].fd_inode = file_desc_table[e].fd_inode
       /\ file_desc_table[e].fd_cnt = n /\ n # 0 => file_desc_table'[e].fd_inode = NULL
  <2>1. PICK D, E : D = file_desc_table[e] /\ E = file_desc_table'[e]
    OBVIOUS
  <2> QED BY <1>0, <1>3, <1>9, <1>10, <2>1, ReleaseCounts
<1>12. file_desc_table'[e].fd_cnt = Cardinality(HN)
  BY <1>0, <1>7, <1>11
<1>13. HN = {} => file_desc_table'[e].fd_inode = NULL
  BY <1>0, <1>3, <1>6, <1>7, <1>8, <1>11
<1>14. HN # {} => /\ file_desc_table'[e].fd_inode = file_desc_table[e].fd_inode
                  /\ file_desc_table'[e].fd_inode # NULL
  BY <1>0, <1>3, <1>6, <1>7, <1>8, <1>11
<1> QED BY <1>11, <1>12, <1>13, <1>14 DEF HN

\* Inodes: the sharers that remain are counted.
LEMMA GivesUpSlots ==
    ASSUME TInv, NEW p \in Procs, proc_state[p] = "live", NEW I \in SUBSET Fds, GivesUp(p, I),
           \A q \in Procs : proc_state'[q] = "live" => proc_state[q] = "live",
           \A q \in Procs : proc_state[q] = "live" /\ proc_state'[q] # "live" => q = p /\ I = Fds,
           NEW t \in Slots
    PROVE  LET SN == SharersIn(proc_state', file_desc', file_desc_table', t)
           IN  /\ inode_table'[t] \in [inode_nr : Inodes \cup {INVALID_INODE}, inode_cnt : Nat]
               /\ inode_table'[t].inode_cnt = Cardinality(SN) + UnsharedIn(leaked, t)
               /\ inode_table'[t].inode_cnt <= inode_table[t].inode_cnt
               /\ inode_table'[t].inode_cnt > 0 =>
                     inode_table'[t].inode_nr = inode_table[t].inode_nr
<1> DEFINE S == SharersIn(proc_state, file_desc, file_desc_table, t)
           SN == SharersIn(proc_state', file_desc', file_desc_table', t)
           M == RefsIn(p, I, t)
           m == Cardinality(M)
<1>0. /\ inode_table[t] \in [inode_nr : Inodes \cup {INVALID_INODE}, inode_cnt : Nat]
      /\ inode_table[t].inode_cnt = Cardinality(S) + UnsharedIn(leaked, t)
      /\ file_desc \in [Procs -> [Fds -> Descs \cup {NULL}]]
  BY SharedNow DEF TInv, TypeOK, SharedIn
<1>1. M \in SUBSET Fds
  BY DEF RefsIn
<1>2. IsFiniteSet({p} \X M) /\ Cardinality({p} \X M) = m /\ m \in Nat
  BY <1>1, PairsOfOne
<1>3. {p} \X M \subseteq S
  <2>1. \A j \in M : <<p, j>> \in S
    BY <1>1, SharersAre DEF RefsIn
  <2> QED BY <2>1
<1>4. SN = S \ ({p} \X M)
  <2>1. SN \in SUBSET (Procs \X Fds) /\ S \ ({p} \X M) \in SUBSET (Procs \X Fds)
    BY DEF SharersIn
  <2>2. \A q \in Procs, j \in Fds : <<q, j>> \in SN <=> <<q, j>> \in S \ ({p} \X M)
    <3> TAKE q \in Procs, j \in Fds
    <3>1. <<q, j>> \in SN <=> /\ proc_state'[q] = "live" /\ file_desc'[q][j] # NULL
                              /\ file_desc_table'[file_desc'[q][j]].fd_inode = t
      BY DEF SharersIn
    <3>2. <<q, j>> \in S <=> /\ proc_state[q] = "live" /\ file_desc[q][j] # NULL
                             /\ file_desc_table[file_desc[q][j]].fd_inode = t
      BY SharersAre
    <3>3. <<q, j>> \in {p} \X M <=>
             /\ q = p /\ j \in I /\ file_desc[p][j] # NULL
             /\ file_desc_table[file_desc[p][j]].fd_inode = t
      BY DEF RefsIn
    <3>4. ASSUME proc_state'[q] = "live", file_desc'[q][j] # NULL
          PROVE  /\ file_desc'[q][j] = file_desc[q][j]
                 /\ file_desc_table'[file_desc[q][j]].fd_inode =
                       file_desc_table[file_desc[q][j]].fd_inode
      <4>1. file_desc'[q][j] = file_desc[q][j]
        BY <3>4 DEF GivesUp
      <4>2. PICK e \in Descs : e = file_desc[q][j]
        BY <1>0, <3>4, <4>1
      <4>3. <<q, j>> \in HoldersIn(proc_state', file_desc', e)
        BY <3>4, <4>1, <4>2 DEF HoldersIn
      <4>4. HoldersIn(proc_state', file_desc', e) # {}
        BY <4>3
      <4>5. file_desc_table'[e].fd_inode = file_desc_table[e].fd_inode
        BY <4>4, GivesUpDescs
      <4> QED BY <4>1, <4>2, <4>5
    <3> HIDE DEF S, SN, M
    <3>5. CASE q = p
      BY <3>1, <3>2, <3>3, <3>4, <3>5 DEF GivesUp
    <3>6. CASE q # p
      BY <3>1, <3>2, <3>3, <3>4, <3>6 DEF GivesUp
    <3> QED BY <3>5, <3>6
  <2> HIDE DEF S, SN, M
  <2> QED BY <2>1, <2>2, PairsEqual
<1>5. IsFiniteSet(S) /\ Cardinality(S) \in Nat
  BY SharersAre
<1>6. Cardinality(SN) = Cardinality(S) - m /\ Cardinality(SN) \in Nat
  <2> DEFINE T == {p} \X M
  <2> HIDE DEF S, SN, M, m, T
  <2>1. T \subseteq S /\ SN = S \ T /\ Cardinality(T) = m
    BY <1>2, <1>3, <1>4 DEF T
  <2>2. Cardinality(S \ T) = Cardinality(S) - Cardinality(T) /\ Cardinality(S \ T) \in Nat
    BY <1>5, <2>1, RemoveSubset
  <2> QED BY <2>1, <2>2
<1>7. inode_table'[t] = IF m = 0 THEN inode_table[t] ELSE Put(inode_table[t], m)
  BY DEF GivesUp
<1> HIDE DEF S, SN, M, m
<1>70. UnsharedIn(leaked, t) \in Nat
  BY UnsharedType DEF TInv
<1>8. m <= inode_table[t].inode_cnt
  BY <1>0, <1>2, <1>5, <1>6, <1>70
<1>9. PICK D, E : D = inode_table[t] /\ E = inode_table'[t]
  OBVIOUS
<1>10. /\ E \in [inode_nr : Inodes \cup {INVALID_INODE}, inode_cnt : Nat]
       /\ E.inode_cnt = D.inode_cnt - m
       /\ E.inode_cnt > 0 => E.inode_nr = D.inode_nr
  BY <1>0, <1>2, <1>7, <1>8, <1>9, PutCounts
<1>11. E.inode_cnt = Cardinality(SN) + UnsharedIn(leaked, t) /\ E.inode_cnt <= D.inode_cnt
  BY <1>0, <1>2, <1>5, <1>6, <1>70, <1>9, <1>10
<1> QED BY <1>9, <1>10, <1>11 DEF SN

LEMMA GivesUpKeeps ==
    ASSUME TInv, NEW p \in Procs, proc_state[p] = "live", NEW I \in SUBSET Fds, GivesUp(p, I),
           Forking => p # parent,
           \A q \in Procs : proc_state'[q] = proc_state[q] \/ (q = p /\ I = Fds /\ ~Forking
                                                               /\ proc_state'[q] = "free"),
           parent' = parent, leaked' = leaked
    PROVE  DescriptorsShared' /\ CopiesMatch' /\ CachedOnce' /\ FilesKept
<1>1. \A q \in Procs : /\ proc_state'[q] = "live" => proc_state[q] = "live"
                       /\ proc_state[q] = "live" /\ proc_state'[q] # "live" => q = p /\ I = Fds
  OBVIOUS
<1>2. DescriptorsShared'
  <2>1. \A e \in Descs :
           /\ file_desc_table'[e].fd_cnt = Cardinality(HoldersIn(proc_state', file_desc', e))
           /\ file_desc_table'[e].fd_inode = NULL <=> HoldersIn(proc_state', file_desc', e) = {}
    BY <1>1, GivesUpDescs
  <2>2. \A t \in Slots : inode_table'[t].inode_cnt =
           Cardinality(SharersIn(proc_state', file_desc', file_desc_table', t)) + UnsharedIn(leaked, t)
    BY <1>1, GivesUpSlots
  <2> QED BY <2>1, <2>2, SharedNow DEF SharedIn
<1>3. \A t \in Slots : /\ inode_table[t].inode_cnt \in Nat /\ inode_table'[t].inode_cnt \in Nat
                       /\ inode_table'[t].inode_cnt <= inode_table[t].inode_cnt
                       /\ inode_table'[t].inode_cnt > 0 =>
                             inode_table'[t].inode_nr = inode_table[t].inode_nr
  <2> SUFFICES ASSUME NEW t \in Slots
               PROVE  /\ inode_table[t].inode_cnt \in Nat /\ inode_table'[t].inode_cnt \in Nat
                      /\ inode_table'[t].inode_cnt <= inode_table[t].inode_cnt
                      /\ inode_table'[t].inode_cnt > 0 =>
                            inode_table'[t].inode_nr = inode_table[t].inode_nr
    OBVIOUS
  <2>1. inode_table[t].inode_cnt \in Nat
    BY DEF TInv, TypeOK
  <2>2. /\ inode_table'[t] \in [inode_nr : Inodes \cup {INVALID_INODE}, inode_cnt : Nat]
        /\ inode_table'[t].inode_cnt <= inode_table[t].inode_cnt
        /\ inode_table'[t].inode_cnt > 0 => inode_table'[t].inode_nr = inode_table[t].inode_nr
    BY <1>1, GivesUpSlots
  <2> QED BY <2>1, <2>2
<1>4. CachedOnce'
  BY <1>3 DEF TInv, CachedOnce
<1>5. CopiesMatch'
  <2>1. \A q \in Procs : proc_state'[q] = "copied" <=> proc_state[q] = "copied"
    OBVIOUS
  <2>2. \A q \in Procs : proc_state'[q] = "free" => \A j \in Fds : file_desc'[q][j] = NULL
    BY DEF TInv, CopiesMatch, GivesUp
  <2>3. ASSUME NEW c \in Procs, proc_state[c] = "copied"
        PROVE  proc_state'[parent] = "live" /\ file_desc'[c] = file_desc'[parent]
    <3>1. Forking /\ parent \in Procs /\ proc_state[parent] = "live" /\ file_desc[c] = file_desc[parent]
      BY <2>3 DEF Forking, TInv, TypeOK, CopiesMatch
    <3> QED BY <2>3, <3>1 DEF GivesUp
  <2> QED BY <2>1, <2>2, <2>3 DEF TInv, CopiesMatch
<1>6. FilesKept
  <2> SUFFICES ASSUME NEW q \in Procs, NEW j \in Fds,
                      file_desc[q][j] # NULL, file_desc'[q][j] = file_desc[q][j]
               PROVE  LET e == file_desc[q][j]
                          t == file_desc_table[e].fd_inode
                      IN  /\ file_desc_table'[e].fd_inode = t
                          /\ inode_table'[t].inode_nr = inode_table[t].inode_nr
    BY KeptIfSlotKept
  <2>1. PICK e \in Descs, t \in Slots :
           e = file_desc[q][j] /\ t = file_desc_table[e].fd_inode
    BY OpenExist
  <2>2. PICK r \in Procs : proc_state'[r] = "live" /\ file_desc'[r][j] = e
    <3>1. CASE proc_state[q] = "live"
      <4>1. proc_state'[q] = "live"
        BY <3>1, <2>1 DEF GivesUp
      <4> QED BY <2>1, <4>1
    <3>2. CASE proc_state[q] = "copied"
      <4>1. /\ Forking /\ parent \in Procs /\ parent # p /\ proc_state[parent] = "live"
            /\ file_desc[q] = file_desc[parent]
        BY <3>2 DEF Forking, TInv, TypeOK, CopiesMatch
      <4>2. file_desc'[parent][j] = e /\ proc_state'[parent] = "live"
        BY <2>1, <4>1 DEF GivesUp
      <4> QED BY <4>1, <4>2
    <3>3. proc_state[q] # "free"
      BY DEF TInv, CopiesMatch
    <3> QED BY <3>1, <3>2, <3>3 DEF TInv, TypeOK
  <2>3. HoldersIn(proc_state', file_desc', e) # {}
    <3>1. <<r, j>> \in HoldersIn(proc_state', file_desc', e)
      BY <2>2 DEF HoldersIn
    <3> QED BY <3>1
  <2>4. file_desc_table'[e].fd_inode = t
    BY <1>1, <2>1, <2>3, GivesUpDescs
  <2>5. inode_table'[t].inode_cnt > 0
    <3> DEFINE SN == SharersIn(proc_state', file_desc', file_desc_table', t)
    <3>1. <<r, j>> \in SN
      BY <2>1, <2>2, <2>4 DEF SharersIn
    <3>2. IsFiniteSet(SN) /\ inode_table'[t].inode_cnt = Cardinality(SN) + UnsharedIn(leaked, t)
      BY <1>1, SharersAre, GivesUpSlots
    <3>20. UnsharedIn(leaked, t) \in Nat
      BY <2>4, UnsharedType DEF TInv
    <3> HIDE DEF SN
    <3>3. Cardinality(SN) \in Nat /\ Cardinality(SN) > 0
      BY <3>1, <3>2, AtLeastOne
    <3> QED BY <3>2, <3>20, <3>3
  <2> QED BY <1>3, <2>1, <2>4, <2>5
<1> QED BY <1>2, <1>4, <1>5, <1>6

-----------------------------------------------------------------------------
(* Pointers copied *)

\* fs_fork counts the pointers of the child, whose inodes the parent shares.
LEMMA ForkKeeps ==
    ASSUME TInv, NEW c \in Procs, fs_fork(c)
    PROVE  /\ DescriptorsShared' /\ CopiesMatch' /\ CachedOnce' /\ FilesKept
           /\ file_desc_table' \in [Descs -> [fd_inode : Slots \cup {NULL}, fd_cnt : Nat]]
           /\ inode_table' \in [Slots -> [inode_nr : Inodes \cup {INVALID_INODE},
                                          inode_cnt : Nat]]
           /\ \A t \in Slots : /\ inode_table'[t].inode_cnt > 0 => inode_table[t].inode_cnt > 0
                               /\ inode_table'[t].inode_nr = inode_table[t].inode_nr
<1> DEFINE H(e) == HoldersIn(proc_state, file_desc, e)
           HN(e) == HoldersIn(proc_state', file_desc, e)
           S(t) == SharersIn(proc_state, file_desc, file_desc_table, t)
           SN(t) == SharersIn(proc_state', file_desc, file_desc_table', t)
           N(e) == PointersIn(c, Fds, e)
           M(t) == RefsIn(c, Fds, t)
<1>0. /\ file_desc \in [Procs -> [Fds -> Descs \cup {NULL}]]
      /\ file_desc_table \in [Descs -> [fd_inode : Slots \cup {NULL}, fd_cnt : Nat]]
      /\ inode_table \in [Slots -> [inode_nr : Inodes \cup {INVALID_INODE}, inode_cnt : Nat]]
      /\ proc_state \in [Procs -> {"free", "live", "copied"}]
      /\ SharedIn(proc_state, file_desc, file_desc_table, inode_table, leaked)
  BY SharedNow DEF TInv, TypeOK
<1>1. /\ proc_state[c] = "copied"
      /\ \A q \in Procs : proc_state'[q] = IF q = c THEN "live" ELSE proc_state[q]
      /\ file_desc' = file_desc /\ parent' = parent /\ leaked' = leaked
  BY <1>0 DEF fs_fork
<1>2. ASSUME NEW e \in Descs
      PROVE  /\ IsFiniteSet({c} \X N(e)) /\ Cardinality({c} \X N(e)) = Cardinality(N(e))
             /\ Cardinality(N(e)) \in Nat
  <2>1. N(e) \in SUBSET Fds
    BY DEF PointersIn
  <2> QED BY <2>1, PairsOfOne
<1>3. ASSUME NEW t \in Slots
      PROVE  /\ IsFiniteSet({c} \X M(t)) /\ Cardinality({c} \X M(t)) = Cardinality(M(t))
             /\ Cardinality(M(t)) \in Nat
             /\ M(t) # {} => inode_table[t].inode_cnt > 0
             /\ M(t) = {} => Cardinality(M(t)) = 0
  <2>1. M(t) \in SUBSET Fds
    BY DEF RefsIn
  <2>2. /\ IsFiniteSet({c} \X M(t)) /\ Cardinality({c} \X M(t)) = Cardinality(M(t))
        /\ Cardinality(M(t)) \in Nat
    BY <2>1, PairsOfOne
  <2>3. ASSUME M(t) # {} PROVE inode_table[t].inode_cnt > 0
    <3>1. PICK j \in Fds : file_desc[c][j] # NULL /\ file_desc_table[file_desc[c][j]].fd_inode = t
      BY <2>3 DEF RefsIn
    <3> QED BY <3>1, OpenExist
  <2>4. M(t) = {} => Cardinality(M(t)) = 0
    BY FS_EmptySet
  <2> QED BY <2>2, <2>3, <2>4
<1>4. \A e \in Descs : /\ file_desc_table'[e].fd_inode = file_desc_table[e].fd_inode
                       /\ file_desc_table'[e].fd_cnt =
                             file_desc_table[e].fd_cnt + Cardinality(N(e))
                       /\ file_desc_table'[e] \in [fd_inode : Slots \cup {NULL}, fd_cnt : Nat]
  <2> TAKE e \in Descs
  <2>1. file_desc_table'[e] =
           [file_desc_table[e] EXCEPT !.fd_cnt = @ + Cardinality(N(e))]
    BY DEF fs_fork, PointersTo, PointersIn
  <2>2. PICK n \in Nat : n = Cardinality(N(e))
    BY <1>2
  <2> HIDE DEF N
  <2> QED BY <1>0, <2>1, <2>2
<1>5. \A t \in Slots : /\ inode_table'[t].inode_nr = inode_table[t].inode_nr
                       /\ inode_table'[t].inode_cnt =
                             inode_table[t].inode_cnt + Cardinality(M(t))
                       /\ inode_table'[t] \in [inode_nr : Inodes \cup {INVALID_INODE},
                                               inode_cnt : Nat]
                       /\ inode_table'[t].inode_cnt > 0 => inode_table[t].inode_cnt > 0
  <2> TAKE t \in Slots
  <2>1. inode_table'[t] =
           [inode_table[t] EXCEPT !.inode_cnt = @ + Cardinality(M(t))]
    BY DEF fs_fork, RefsTo, RefsIn
  <2>2. PICK m \in Nat : m = Cardinality(M(t))
    BY <1>3
  <2>3. m # 0 => inode_table[t].inode_cnt > 0
    BY <1>3, <2>2
  <2> HIDE DEF M
  <2>4. PICK D \in [inode_nr : Inodes \cup {INVALID_INODE}, inode_cnt : Nat] :
           D = inode_table[t]
    BY <1>0
  <2>5. inode_table'[t] = [D EXCEPT !.inode_cnt = D.inode_cnt + m]
    BY <2>1, <2>2, <2>4
  <2> QED BY <2>2, <2>3, <2>4, <2>5
<1>6. ASSUME NEW e \in Descs
      PROVE  /\ file_desc_table'[e].fd_cnt = Cardinality(HN(e))
             /\ file_desc_table'[e].fd_inode = NULL <=> HN(e) = {}
  <2>1. HN(e) = H(e) \cup ({c} \X N(e))
    <3>1. HN(e) \in SUBSET (Procs \X Fds) /\ H(e) \cup ({c} \X N(e)) \in SUBSET (Procs \X Fds)
      BY DEF HoldersIn, PointersIn
    <3>2. \A q \in Procs, j \in Fds : <<q, j>> \in HN(e) <=> <<q, j>> \in H(e) \cup ({c} \X N(e))
      <4> TAKE q \in Procs, j \in Fds
      <4>1. <<q, j>> \in HN(e) <=> proc_state'[q] = "live" /\ file_desc[q][j] = e
        BY DEF HoldersIn
      <4>2. <<q, j>> \in H(e) <=> proc_state[q] = "live" /\ file_desc[q][j] = e
        BY HoldersAre
      <4>3. <<q, j>> \in {c} \X N(e) <=> q = c /\ file_desc[c][j] = e
        BY DEF PointersIn
      <4> HIDE DEF H, HN, N
      <4> QED BY <1>1, <4>1, <4>2, <4>3
    <3> HIDE DEF H, HN, N
    <3> QED BY <3>1, <3>2, PairsEqual
  <2>2. H(e) \cap ({c} \X N(e)) = {}
    <3>1. \A j : <<c, j>> \notin H(e)
      BY <1>1 DEF HoldersIn
    <3> HIDE DEF H, N
    <3> QED BY <3>1
  <2>3. IsFiniteSet(H(e))
    BY HoldersAre
  <2>4. file_desc_table[e].fd_cnt = Cardinality(H(e)) /\ (file_desc_table[e].fd_inode = NULL <=> H(e) = {})
    BY <1>0 DEF SharedIn
  <2>5. N(e) # {} => file_desc_table[e].fd_inode # NULL
    <3> SUFFICES ASSUME N(e) # {} PROVE file_desc_table[e].fd_inode # NULL
      OBVIOUS
    <3>1. PICK j \in Fds : file_desc[c][j] = e
      BY DEF PointersIn
    <3>2. e # NULL /\ NULL \notin Slots
      BY DEF Descs, Slots, NULL
    <3> QED BY <3>1, <3>2, OpenExist
  <2> HIDE DEF H, HN, N
  <2>6. Cardinality(HN(e)) = Cardinality(H(e)) + Cardinality(N(e))
    <3>1. Cardinality(H(e) \cup ({c} \X N(e))) = Cardinality(H(e)) + Cardinality({c} \X N(e))
      BY <1>2, <2>2, <2>3, AddDisjoint
    <3> QED BY <1>2, <2>1, <3>1
  <2>7. HN(e) = {} <=> H(e) = {} /\ N(e) = {}
    <3>1. {c} \X N(e) = {} <=> N(e) = {}
      <4>1. ASSUME NEW j \in N(e) PROVE {c} \X N(e) # {}
        <5>1. <<c, j>> \in {c} \X N(e)
          OBVIOUS
        <5> QED BY <5>1
      <4>2. ASSUME NEW h \in {c} \X N(e) PROVE N(e) # {}
        BY <4>2
      <4> QED BY <4>1, <4>2
    <3> DEFINE T == {c} \X N(e)
    <3> HIDE DEF T
    <3>2. H(e) \cup T = {} <=> H(e) = {} /\ T = {}
      OBVIOUS
    <3> QED BY <2>1, <3>1, <3>2 DEF T
  <2> QED BY <1>4, <2>4, <2>5, <2>6, <2>7
<1>7. ASSUME NEW t \in Slots
      PROVE  inode_table'[t].inode_cnt = Cardinality(SN(t)) + UnsharedIn(leaked, t)
  <2>1. SN(t) = S(t) \cup ({c} \X M(t))
    <3>1. SN(t) \in SUBSET (Procs \X Fds) /\ S(t) \cup ({c} \X M(t)) \in SUBSET (Procs \X Fds)
      BY DEF SharersIn, RefsIn
    <3>2. \A q \in Procs, j \in Fds : <<q, j>> \in SN(t) <=> <<q, j>> \in S(t) \cup ({c} \X M(t))
      <4> TAKE q \in Procs, j \in Fds
      <4>1. <<q, j>> \in SN(t) <=> /\ proc_state'[q] = "live" /\ file_desc[q][j] # NULL
                                   /\ file_desc_table'[file_desc[q][j]].fd_inode = t
        BY DEF SharersIn
      <4>2. <<q, j>> \in S(t) <=> /\ proc_state[q] = "live" /\ file_desc[q][j] # NULL
                                  /\ file_desc_table[file_desc[q][j]].fd_inode = t
        BY SharersAre
      <4>3. <<q, j>> \in {c} \X M(t) <=> /\ q = c /\ file_desc[c][j] # NULL
                                         /\ file_desc_table[file_desc[c][j]].fd_inode = t
        BY DEF RefsIn
      <4>4. file_desc[q][j] # NULL => file_desc_table'[file_desc[q][j]].fd_inode =
                                         file_desc_table[file_desc[q][j]].fd_inode
        BY <1>0, <1>4
      <4> HIDE DEF S, SN, M
      <4> QED BY <1>1, <4>1, <4>2, <4>3, <4>4
    <3> HIDE DEF S, SN, M
    <3> QED BY <3>1, <3>2, PairsEqual
  <2>2. S(t) \cap ({c} \X M(t)) = {}
    <3>1. \A j : <<c, j>> \notin S(t)
      BY <1>1 DEF SharersIn
    <3> HIDE DEF S, M
    <3> QED BY <3>1
  <2>3. IsFiniteSet(S(t)) /\ Cardinality(S(t)) \in Nat
    BY SharersAre
  <2>4. /\ inode_table[t].inode_cnt = Cardinality(S(t)) + UnsharedIn(leaked, t)
        /\ UnsharedIn(leaked, t) \in Nat
    BY <1>0, UnsharedType DEF SharedIn, TInv
  <2> HIDE DEF S, SN, M
  <2>5. Cardinality(SN(t)) = Cardinality(S(t)) + Cardinality(M(t))
    <3>1. Cardinality(S(t) \cup ({c} \X M(t))) = Cardinality(S(t)) + Cardinality({c} \X M(t))
      BY <1>3, <2>2, <2>3, AddDisjoint
    <3> QED BY <1>3, <2>1, <3>1
  <2>6. PICK m \in Nat : m = Cardinality(M(t))
    BY <1>3
  <2> QED BY <1>5, <2>3, <2>4, <2>5, <2>6
<1>8. DescriptorsShared'
  BY <1>1, <1>6, <1>7, SharedNow DEF SharedIn
<1>9. CopiesMatch'
  BY <1>0, <1>1 DEF TInv, CopiesMatch
<1>10. CachedOnce'
  <2> HIDE DEF M
  <2> QED BY <1>5 DEF TInv, CachedOnce
<1>11. FilesKept
  <2> SUFFICES ASSUME NEW q \in Procs, NEW j \in Fds,
                      file_desc[q][j] # NULL, file_desc'[q][j] = file_desc[q][j]
               PROVE  LET e == file_desc[q][j]
                          t == file_desc_table[e].fd_inode
                      IN  /\ file_desc_table'[e].fd_inode = t
                          /\ inode_table'[t].inode_nr = inode_table[t].inode_nr
    BY KeptIfSlotKept
  <2> HIDE DEF N, M
  <2> QED BY <1>4, <1>5, OpenExist
<1>12. /\ file_desc_table' = [e \in Descs |-> file_desc_table'[e]]
       /\ inode_table' = [t \in Slots |-> inode_table'[t]]
  BY DEF fs_fork
<1> HIDE DEF N, M
<1> QED BY <1>4, <1>5, <1>8, <1>9, <1>10, <1>11, <1>12

-----------------------------------------------------------------------------
(* The directory *)

LEMMA DirSize ==
    ASSUME TInv
    PROVE  /\ nr_dir_entries \in Nat /\ nr_dir_entries <= MaxEntries
           /\ NR_INODES \in Nat \ {0} /\ MaxEntries \in Nat /\ NR_INODES <= MaxEntries
<1>1. nr_dir_entries \in 0..MaxEntries
  BY DEF TInv, TypeOK
<1>2. NR_INODES \in Nat \ {0}
  BY TableSizes
<1>3. MaxEntries \in Nat /\ MaxEntries >= NR_INODES
  BY FileTableAssumption
<1> QED BY <1>1, <1>2, <1>3

\* What the lookup returns is allocated, although it may look past the end.
LEMMA FoundIsAllocated ==
    ASSUME TInv, halted = "no", NEW path, get_file_inode_nr(path) # INVALID_INODE
    PROVE  get_file_inode_nr(path) \in inode_map /\ get_file_inode_nr(path) \in Inodes
<1>0. inode_map \subseteq Inodes /\ nr_dir_entries \in 0..MaxEntries /\ MaxEntries \in Nat
  BY DirSize DEF TInv, TypeOK
<1>1. CASE get_file_inode_nr(path) = ROOT_INODE_NR
  BY <1>0, <1>1 DEF TInv, CachedAllocated
<1>2. CASE Named(path) # {} /\ get_file_inode_nr(path) = dir[Min(Named(path))].inode_nr
  <2>1. Visible \subseteq Indexes /\ Indexes \subseteq Nat
    BY <1>0 DEF Visible, Indexes
  <2>2. Min(Named(path)) \in Named(path)
    BY <1>2, <2>1, MinIsMember DEF Named
  <2>3. Min(Named(path)) \in Indexes
    BY <2>1, <2>2 DEF Named
  <2> QED BY <1>0, <1>2, <2>3 DEF TInv, EntriesOwnInodes
<1> QED BY <1>1, <1>2 DEF get_file_inode_nr

\* There is room for a new entry at the end, as its inode is one that none of the
\* others has.
LEMMA RoomForEntry ==
    ASSUME TInv, halted = "no", NEW nr \in Inodes \ inode_map, Holes = {}
    PROVE  nr_dir_entries + 1 <= NR_INODES
<1> DEFINE n == nr_dir_entries
           f == [k \in 1..n |-> dir[k].inode_nr]
           T == Inodes \ {nr}
<1>0. n \in Nat /\ n <= MaxEntries /\ MaxEntries \in Nat /\ NR_INODES \in Nat \ {0}
  BY DirSize
<1>1. \A k \in 1..n : k \in Indexes /\ dir[k].inode_nr # INVALID_INODE
  BY <1>0 DEF Holes, Indexes
<1>2. \A k \in 1..n : dir[k].inode_nr \in T
  <2>1. inode_map \subseteq Inodes
    BY DEF TInv, TypeOK
  <2> QED BY <1>1, <2>1 DEF TInv, EntriesOwnInodes
<1>3. \A j, k \in 1..n : dir[j].inode_nr = dir[k].inode_nr => j = k
  BY <1>1 DEF TInv, EntriesOwnInodes
<1>4. f \in Injection(1..n, T)
  <2>1. f \in [1..n -> T]
    BY <1>2
  <2>2. \A j, k \in 1..n : f[j] = f[k] => j = k
    BY <1>3
  <2> HIDE DEF f, T
  <2> QED BY <2>1, <2>2 DEF Injection, IsInjective
<1>5. IsFiniteSet(Inodes) /\ Cardinality(Inodes) = NR_INODES
  <2>1. 1 \in Int /\ NR_INODES \in Int /\ ~(1 > NR_INODES) /\ NR_INODES - 1 + 1 = NR_INODES
    BY <1>0
  <2> QED BY <2>1, FS_Interval DEF Inodes
<1>6. IsFiniteSet(T) /\ Cardinality(T) = NR_INODES - 1
  BY <1>5, FS_RemoveElement
<1>7. Cardinality(1..n) <= Cardinality(T)
  <2> HIDE DEF f, T, n
  <2> QED BY <1>4, <1>6, FS_Injection
<1>8. Cardinality(1..n) = n
  <2>1. 1 \in Int /\ n \in Int
    BY <1>0
  <2>2. Cardinality(1..n) = IF 1 > n THEN 0 ELSE n - 1 + 1
    BY <2>1, FS_Interval
  <2> QED BY <1>0, <2>2
<1> QED BY <1>0, <1>6, <1>7, <1>8

LEMMA NewEntryKeeps ==
    ASSUME TInv, halted = "no", halted' = "no",
           NEW nr \in Inodes \ inode_map, NEW name \in Names,
           make_new_dir_entry(nr, name), inode_map' = inode_map \cup {nr}
    PROVE  EntriesOwnInodes' /\ DirTypes'
<1>0. /\ nr_dir_entries \in Nat /\ nr_dir_entries <= MaxEntries /\ MaxEntries \in Nat
      /\ NR_INODES <= MaxEntries /\ NR_INODES \in Nat
  BY DirSize
<1>1. DirTypes
  BY DEF TInv, TypeOK, DirTypes
<1>2. PICK i \in Nat : i = IF Holes # {} THEN Min(Holes) ELSE nr_dir_entries + 1
  <2>1. Holes \subseteq Nat
    BY DEF Holes
  <2>2. Holes # {} => Min(Holes) \in Holes
    BY <2>1, MinIsMember
  <2>3. Holes # {} => Min(Holes) \in Nat
    BY <2>1, <2>2
  <2>4. nr_dir_entries + 1 \in Nat
    BY <1>0
  <2> QED BY <2>3, <2>4
<1>3. PICK written \in Written(dir[i].name, name) :
              dir' = [dir EXCEPT ![i] = [name |-> written, inode_nr |-> nr]]
  BY <1>2 DEF make_new_dir_entry
<1>4. nr_dir_entries' = Max({nr_dir_entries, i}) /\ ragged' = ragged
  BY <1>2 DEF make_new_dir_entry
<1>5. i \in Indexes /\ nr_dir_entries' \in 0..MaxEntries
  <2>1. CASE Holes # {}
    <3>1. Min(Holes) \in Holes
      BY <2>1, MinIsMember DEF Holes
    <3>2. i \in 1..nr_dir_entries
      BY <1>2, <2>1, <3>1 DEF Holes
    <3>3. Max({nr_dir_entries, i}) = nr_dir_entries
      BY <1>0, <3>2, MaxOfTwo
    <3> QED BY <1>0, <1>4, <3>2, <3>3 DEF Indexes
  <2>2. CASE Holes = {}
    <3>1. nr_dir_entries + 1 <= NR_INODES /\ i = nr_dir_entries + 1
      BY <1>2, <2>2, RoomForEntry
    <3>2. Max({nr_dir_entries, nr_dir_entries + 1}) = nr_dir_entries + 1
      BY <1>0, MaxOfTwo
    <3> QED BY <1>0, <1>4, <3>1, <3>2 DEF Indexes
  <2> QED BY <2>1, <2>2
<1>6. written \in Names \cup {"", STALE}
  BY <1>3 DEF Written
<1>7. DirTypes'
  BY <1>1, <1>3, <1>4, <1>5, <1>6 DEF DirTypes
<1>8. dir'[i].inode_nr = nr /\ \A k \in Indexes \ {i} : dir'[k] = dir[k]
  BY <1>1, <1>3, <1>5 DEF DirTypes
<1>9. EntriesOwnInodes'
  BY <1>8 DEF TInv, EntriesOwnInodes
<1> QED BY <1>7, <1>9

LEMMA ClearEntryKeeps ==
    ASSUME TInv, halted = "no", halted' = "no", NEW nr \in Inodes, EntriesOf(nr) # {},
           clear_directory_entry(nr), inode_map' = inode_map \ {nr}
    PROVE  EntriesOwnInodes' /\ DirTypes'
<1>0. /\ nr_dir_entries \in Nat /\ nr_dir_entries <= MaxEntries /\ MaxEntries \in Nat
      /\ nr # INVALID_INODE
  BY DirSize DEF Inodes, INVALID_INODE
<1>00. DirTypes
  BY DEF TInv, TypeOK, DirTypes
<1>1. PICK i \in 1..nr_dir_entries : i = Min(EntriesOf(nr)) /\ dir[i].inode_nr = nr
  <2>1. Min(EntriesOf(nr)) \in EntriesOf(nr)
    BY MinIsMember DEF EntriesOf
  <2> QED BY <2>1 DEF EntriesOf
<1>2. nr_dir_entries' \in Nat /\ nr_dir_entries' <= nr_dir_entries /\ ragged' \in BOOLEAN
  <2> DEFINE used == {j \in 1..(i - 1) : dir[j].inode_nr # INVALID_INODE}
  <2>1. /\ nr_dir_entries' = IF i = nr_dir_entries THEN Cardinality(used) ELSE nr_dir_entries
        /\ ragged' = FALSE \/ ragged' = ragged
    BY <1>1 DEF clear_directory_entry, dirSize
  <2>2. 1 \in Int /\ i - 1 \in Int
    BY <1>1
  <2>3. IsFiniteSet(1..(i - 1)) /\ Cardinality(1..(i - 1)) = IF 1 > i - 1 THEN 0 ELSE i - 1 - 1 + 1
    BY <2>2, FS_Interval
  <2>4. used \in SUBSET (1..(i - 1))
    OBVIOUS
  <2> HIDE DEF used
  <2>5. Cardinality(used) \in Nat /\ Cardinality(used) <= Cardinality(1..(i - 1))
    BY <2>3, <2>4, FS_Subset, FS_CardinalityType
  <2>6. ragged' \in BOOLEAN
    BY <1>00, <2>1 DEF DirTypes
  <2> QED BY <1>0, <1>1, <2>1, <2>3, <2>5, <2>6
<1>3. i \in Indexes /\ dir' = [dir EXCEPT ![i] = NoEntry]
  BY <1>0, <1>1 DEF clear_directory_entry, Indexes
<1>4. /\ dir'[i].name = "" /\ dir'[i].inode_nr = INVALID_INODE
      /\ \A k \in Indexes \ {i} : dir'[k] = dir[k]
  BY <1>00, <1>3 DEF NoEntry, DirTypes
<1>5. EntriesOwnInodes'
  <2> SUFFICES ASSUME NEW j \in Indexes, NEW k \in Indexes, dir'[j].inode_nr # INVALID_INODE
               PROVE  /\ dir'[j].inode_nr \in inode_map'
                      /\ j # k => dir'[j].inode_nr # dir'[k].inode_nr
    BY DEF EntriesOwnInodes
  <2>1. j # i /\ dir'[j] = dir[j]
    BY <1>4
  <2>2. /\ dir[j].inode_nr \in inode_map
        /\ \A h \in Indexes : j # h => dir[j].inode_nr # dir[h].inode_nr
    BY <2>1 DEF TInv, EntriesOwnInodes
  <2>3. dir[j].inode_nr # nr
    BY <1>1, <1>3, <2>1, <2>2
  <2> QED BY <1>4, <2>1, <2>2, <2>3
<1>6. DirTypes'
  <2>1. nr_dir_entries' \in 0..MaxEntries
    BY <1>0, <1>2
  <2> QED BY <1>00, <1>2, <1>3, <2>1 DEF NoEntry, DirTypes
<1> QED BY <1>5, <1>6

-----------------------------------------------------------------------------
(* Initially *)

LEMMA NewRootEntries ==
    /\ Len(NewRoot) \in Nat /\ Len(NewRoot) >= 1 /\ Len(NewRoot) <= NR_INODES
    /\ NewRoot[1] = "."
    /\ \A i \in 1..Len(NewRoot) : NewRoot[i] \in Names /\ NewRoot[i] # ""
<1> DEFINE A == (STRING \cup {"."}) \cup Files
<1>1. Devices \in Seq(A) /\ Installed \in Seq(A) /\ <<".">> \in Seq(A)
  <2>1. Devices \in Seq(STRING) /\ Installed \in Seq(Files)
    BY FileTableAssumption
  <2>2. STRING \subseteq A /\ Files \subseteq A
    OBVIOUS
  <2>4. "." \in A
    OBVIOUS
  <2> HIDE DEF A
  <2>3. Devices \in Seq(A) /\ Installed \in Seq(A)
    BY <2>1, <2>2, SeqMonotonic
  <2> QED BY <2>4, <2>3
<1>2. PICK D, I : D = Devices /\ I = Installed
  OBVIOUS
<1>3. I \in Seq(Files)
  BY <1>2, FileTableAssumption
<1> HIDE DEF A
<1>4. NewRoot = (<<".">> \o D) \o I /\ D \in Seq(A) /\ I \in Seq(A)
  BY <1>1, <1>2 DEF NewRoot
<1>5. /\ (<<".">> \o D) \in Seq(A) /\ Len(<<".">> \o D) = 1 + Len(D) /\ (<<".">> \o D)[1] = "."
  BY <1>1, <1>4
<1>6. PICK E : E = <<".">> \o D
  OBVIOUS
<1>7. /\ Len(E \o I) = Len(E) + Len(I) /\ Len(E) \in Nat /\ Len(I) \in Nat /\ Len(D) \in Nat
      /\ (E \o I)[1] = E[1]
      /\ \A i \in 1..Len(E \o I) :
            i > Len(E) => i - Len(E) \in 1..Len(I) /\ (E \o I)[i] = I[i - Len(E)]
  BY <1>4, <1>5, <1>6
<1>8. Len(NewRoot) = 1 + Len(D) + Len(I) /\ NewRoot[1] = "."
  BY <1>4, <1>5, <1>6, <1>7
<1>9. ASSUME NEW i \in 1..Len(NewRoot) PROVE NewRoot[i] \in Names
  <2>1. CASE i <= 1 + Len(D)
    BY <1>2, <1>7, <1>8, <2>1 DEF Names, Special
  <2>2. CASE i > 1 + Len(D)
    <3>1. i - Len(E) \in 1..Len(I) /\ NewRoot[i] = I[i - Len(E)]
      BY <1>4, <1>5, <1>6, <1>7, <1>8, <2>2
    <3>2. NewRoot[i] \in Files
      BY <1>3, <3>1
    <3> QED BY <3>2 DEF Names
  <2> QED BY <1>7, <2>1, <2>2
<1>10. Len(NewRoot) <= NR_INODES /\ \A i \in 1..Len(NewRoot) : NewRoot[i] # ""
  BY NewRootAssumption DEF NewMap
<1>11. Len(NewRoot) \in Nat /\ Len(NewRoot) >= 1
  <2>1. Len(D) \in Nat /\ Len(I) \in Nat
    BY <1>7
  <2> QED BY <1>8, <2>1
<1> QED BY <1>8, <1>9, <1>10, <1>11

\* The file system of mkfs, with nothing open but the root directory.
LEMMA InitTInv == Init => TInv
<1> SUFFICES ASSUME Init PROVE TInv
  OBVIOUS
<1>0. /\ {NR_FILES, NR_FILE_DESC, NR_INODE, NR_INODES} \subseteq Nat \ {0}
      /\ MaxEntries \in Nat /\ MaxEntries >= NR_INODES
  BY TableSizes, FileTableAssumption
<1>1. PICK n \in Nat : n = Len(NewRoot) /\ n >= 1 /\ n <= NR_INODES
  BY NewRootEntries
<1>2. /\ \A i \in 1..n : dir[i] = [name |-> NewRoot[i], inode_nr |-> i]
      /\ \A i \in Indexes \ 1..n : dir[i] = NoEntry
  <2>1. \A i \in 1..n : i \in Indexes /\ i <= Len(NewRoot)
    BY <1>0, <1>1 DEF Indexes
  <2>2. \A i \in Indexes \ 1..n : ~(i <= Len(NewRoot))
    BY <1>0, <1>1 DEF Indexes
  <2> QED BY <2>1, <2>2 DEF Init
<1>02. /\ \A i \in 1..n : dir[i].name = NewRoot[i] /\ dir[i].inode_nr = i
       /\ \A i \in Indexes \ 1..n : dir[i].name = "" /\ dir[i].inode_nr = INVALID_INODE
  <2>1. ASSUME NEW i \in 1..n PROVE dir[i].name = NewRoot[i] /\ dir[i].inode_nr = i
    <3>1. dir[i] = [name |-> NewRoot[i], inode_nr |-> i]
      BY <1>2
    <3> QED BY <3>1
  <2>2. ASSUME NEW i \in Indexes \ 1..n PROVE dir[i].name = "" /\ dir[i].inode_nr = INVALID_INODE
    <3>1. dir[i] = NoEntry
      BY <1>2
    <3>2. NoEntry.name = "" /\ NoEntry.inode_nr = INVALID_INODE
      BY DEF NoEntry
    <3> QED BY <3>1, <3>2
  <2> QED BY <2>1, <2>2
<1>3. \A i \in 1..n : i \in Indexes /\ i \in Inodes /\ NewRoot[i] \in Names /\ NewRoot[i] # ""
  <2>1. \A i \in 1..n : NewRoot[i] \in Names /\ NewRoot[i] # ""
    BY <1>1, NewRootEntries
  <2>2. NR_INODES \in Nat /\ MaxEntries \in Nat /\ MaxEntries >= NR_INODES
    BY <1>0
  <2>3. \A i \in 1..n : i \in Indexes /\ i \in Inodes
    BY <1>1, <2>2 DEF Indexes, Inodes
  <2> QED BY <2>1, <2>3
<1>4. \A i \in 1..n : i # INVALID_INODE
  BY DEF INVALID_INODE
<1>5. TypeOK
  <2>1. dir \in [Indexes -> [name : Names \cup {"", STALE}, inode_nr : Inodes \cup {INVALID_INODE}]]
    <3>1. dir = [i \in Indexes |-> dir[i]]
      BY DEF Init
    <3>2. ASSUME NEW i \in Indexes
          PROVE  dir[i] \in [name : Names \cup {"", STALE}, inode_nr : Inodes \cup {INVALID_INODE}]
      <4>1. NoEntry \in [name : Names \cup {"", STALE}, inode_nr : Inodes \cup {INVALID_INODE}]
        BY DEF NoEntry
      <4>2. i \in 1..n => [name |-> NewRoot[i], inode_nr |-> i] \in
                            [name : Names \cup {"", STALE}, inode_nr : Inodes \cup {INVALID_INODE}]
        BY <1>3
      <4>3. dir[i] = NoEntry \/ (i \in 1..n /\ dir[i] = [name |-> NewRoot[i], inode_nr |-> i])
        BY <1>2
      <4> QED BY <4>1, <4>2, <4>3
    <3> QED BY <3>1, <3>2
  <2>2. nr_dir_entries \in 0..MaxEntries /\ ragged \in BOOLEAN /\ inode_map \subseteq Inodes
    <3>1. /\ NR_INODES \in Nat /\ MaxEntries \in Nat /\ MaxEntries >= NR_INODES
          /\ nr_dir_entries = n /\ inode_map = 1..n /\ ragged = FALSE
      BY <1>0, <1>1 DEF Init, NewMap
    <3>2. nr_dir_entries \in 0..MaxEntries
      BY <1>1, <3>1
    <3> QED BY <1>3, <3>1, <3>2
  <2>3. inode_table \in [Slots -> [inode_nr : Inodes \cup {INVALID_INODE}, inode_cnt : Nat]]
    BY <1>0 DEF Init, NoInode, Inodes, ROOT_INODE_NR
  <2>4. /\ file_desc_table \in [Descs -> [fd_inode : Slots \cup {NULL}, fd_cnt : Nat]]
        /\ file_desc \in [Procs -> [Fds -> Descs \cup {NULL}]]
    BY DEF Init, NoDesc
  <2>5. proc_state \in [Procs -> {"free", "live", "copied"}] /\ parent \in Procs
    BY FileTableAssumption DEF Init
  <2>6. leaked \in [Slots -> 0..MaxLeak] /\ halted \in {"no", "panic", "de_found"}
    <3>1. MaxLeak \in Nat
      BY FileTableAssumption
    <3> QED BY <3>1 DEF Init
  <2> QED BY <2>1, <2>2, <2>3, <2>4, <2>5, <2>6 DEF TypeOK
<1>6. DescriptorsShared
  <2>1. \A q \in Procs, j \in Fds : file_desc[q][j] = NULL
    BY DEF Init
  <2>2. \A d \in Descs : Holders(d) = {}
    <3>1. NULL \notin Descs
      BY DEF Descs, NULL
    <3> QED BY <2>1, <3>1 DEF Holders
  <2>3. \A s \in Slots : Sharers(s) = {}
    BY <2>1 DEF Sharers
  <2>4. \A d \in Descs : file_desc_table[d].fd_cnt = 0 /\ file_desc_table[d].fd_inode = NULL
    BY DEF Init, NoDesc
  <2>5. \A s \in Slots : inode_table[s].inode_cnt = Unshared(s) /\ Unshared(s) \in Nat
    BY DEF Init, NoInode, Unshared
  <2>6. \A s \in Slots : 0 + Unshared(s) = Unshared(s)
    BY <2>5
  <2> QED BY <2>2, <2>3, <2>4, <2>5, <2>6, FS_EmptySet DEF DescriptorsShared
<1>7. CopiesMatch
  BY DEF Init, CopiesMatch
<1>8. CachedOnce /\ CachedAllocated
  <2>1. ROOT_INODE_NR \in inode_map
    BY <1>1 DEF Init, NewMap, ROOT_INODE_NR
  <2>2. \A s \in Slots : inode_table[s].inode_cnt > 0 => s = 1 /\ inode_table[s].inode_nr = ROOT_INODE_NR
    BY DEF Init, NoInode
  <2> QED BY <2>1, <2>2 DEF CachedOnce, CachedAllocated
<1>9. EntriesOwnInodes
  <2>1. \A i \in 1..n : i \in inode_map
    BY <1>1 DEF Init, NewMap
  <2>2. \A i \in Indexes : dir[i].inode_nr # INVALID_INODE => i \in 1..n /\ dir[i].inode_nr = i
    BY <1>02
  <2> QED BY <2>1, <2>2 DEF EntriesOwnInodes
<1> QED BY <1>5, <1>6, <1>7, <1>8, <1>9 DEF TInv

-----------------------------------------------------------------------------
(* One lemma per action *)

\* A request that stops the system changes no table.
LEMMA PanicStep ==
    ASSUME TInv, Panic
    PROVE  TInv' /\ FilesKept
<1>1. /\ dir' = dir /\ nr_dir_entries' = nr_dir_entries /\ ragged' = ragged
      /\ inode_map' = inode_map
      /\ inode_table' = inode_table /\ file_desc_table' = file_desc_table
      /\ file_desc' = file_desc /\ proc_state' = proc_state /\ parent' = parent
      /\ leaked' = leaked /\ halted' = "panic"
  BY DEF Panic, disk, dirSize, procs
<1>2. TypeOK' /\ CopiesMatch' /\ CachedOnce' /\ CachedAllocated' /\ EntriesOwnInodes'
  BY <1>1 DEF TInv, TypeOK, CopiesMatch, CachedOnce, CachedAllocated, EntriesOwnInodes
<1>3. DescriptorsShared'
  BY <1>1, SharedNow DEF TInv
<1>4. FilesKept
  BY <1>1 DEF FilesKept, FileOf
<1> QED BY <1>2, <1>3, <1>4 DEF TInv

\* The entries of the directory stay as they are; its size may change.
LEMMA DirKept ==
    ASSUME TInv, UNCHANGED <<dir, inode_map, halted>>,
           nr_dir_entries' \in 0..MaxEntries, ragged' \in BOOLEAN
    PROVE  /\ EntriesOwnInodes' /\ ROOT_INODE_NR \in inode_map' /\ DirTypes'
           /\ inode_map' \subseteq Inodes /\ halted' \in {"no", "panic", "de_found"}
<1>1. EntriesOwnInodes'
  BY DEF TInv, EntriesOwnInodes
<1>2. ROOT_INODE_NR \in inode_map'
  BY DEF TInv, CachedAllocated
<1> QED BY <1>1, <1>2 DEF TInv, TypeOK, DirTypes

LEMMA DiskKept ==
    ASSUME TInv, UNCHANGED <<disk, halted>>
    PROVE  /\ EntriesOwnInodes' /\ ROOT_INODE_NR \in inode_map' /\ DirTypes'
           /\ inode_map' \subseteq Inodes /\ halted' \in {"no", "panic", "de_found"}
<1>1. UNCHANGED <<dir, nr_dir_entries, ragged, inode_map, halted>>
  BY DEF disk, dirSize
<1>2. nr_dir_entries \in 0..MaxEntries /\ ragged \in BOOLEAN
  BY DEF TInv, TypeOK
<1> QED BY <1>1, <1>2, DirKept

\* The pointer and the descriptor that do_open takes.
LEMMA ConnectTakes ==
    ASSUME TInv, NEW p \in Procs, FreeFds(p) # {}, FreeDescs # {}, NEW s \in Slots, Connect(p, s)
    PROVE  \E i \in Fds, d \in Descs :
              /\ file_desc[p][i] = NULL /\ file_desc_table[d].fd_inode = NULL
              /\ file_desc' = [file_desc EXCEPT ![p][i] = d]
              /\ file_desc_table' = [file_desc_table EXCEPT ![d] = [fd_inode |-> s, fd_cnt |-> 1]]
              /\ file_desc' \in [Procs -> [Fds -> Descs \cup {NULL}]]
              /\ file_desc_table' \in [Descs -> [fd_inode : Slots \cup {NULL}, fd_cnt : Nat]]
<1>1. FreeFds(p) \subseteq Nat /\ FreeDescs \subseteq Nat
  BY DEF FreeFds, FreeDescs, Fds, Descs
<1>2. PICK i \in Fds : i = Min(FreeFds(p)) /\ file_desc[p][i] = NULL
  <2>1. Min(FreeFds(p)) \in FreeFds(p)
    BY <1>1, MinIsMember
  <2> QED BY <2>1 DEF FreeFds
<1>3. PICK d \in Descs : d = Min(FreeDescs) /\ file_desc_table[d].fd_inode = NULL
  <2>1. Min(FreeDescs) \in FreeDescs
    BY <1>1, MinIsMember
  <2> QED BY <2>1 DEF FreeDescs
<1>4. /\ file_desc' = [file_desc EXCEPT ![p][i] = d]
      /\ file_desc_table' = [file_desc_table EXCEPT ![d] = [fd_inode |-> s, fd_cnt |-> 1]]
  BY <1>2, <1>3 DEF Connect
<1>5. /\ file_desc \in [Procs -> [Fds -> Descs \cup {NULL}]]
      /\ file_desc_table \in [Descs -> [fd_inode : Slots \cup {NULL}, fd_cnt : Nat]]
  BY DEF TInv, TypeOK
<1>6. file_desc' \in [Procs -> [Fds -> Descs \cup {NULL}]]
  BY <1>4, <1>5
<1>7. file_desc_table' \in [Descs -> [fd_inode : Slots \cup {NULL}, fd_cnt : Nat]]
  BY <1>4, <1>5
<1> QED BY <1>2, <1>3, <1>4, <1>6, <1>7

\* open() of a file that exists.
LEMMA OpenExistingStep ==
    ASSUME TInv, NEW p \in Procs, NEW path \in Paths, OpenExisting(p, path)
    PROVE  TInv' /\ FilesKept
<1>1. PICK nr : nr = get_file_inode_nr(path)
  OBVIOUS
<1>2. /\ Calls(p) /\ FreeFds(p) # {} /\ nr # INVALID_INODE /\ HasSlot(nr) /\ FreeDescs # {}
      /\ inode_table' = get_file_inode(nr) /\ Connect(p, SlotOf(nr))
      /\ Truncate(nr) \/ UNCHANGED dirSize
      /\ UNCHANGED <<dir, inode_map, proc_state, parent, leaked, halted>> /\ halted = "no"
  BY <1>1 DEF OpenExisting, Calls
<1>20. /\ EntriesOwnInodes' /\ ROOT_INODE_NR \in inode_map' /\ DirTypes'
       /\ inode_map' \subseteq Inodes /\ halted' \in {"no", "panic", "de_found"}
  <2>1. nr_dir_entries \in 0..MaxEntries /\ ragged \in BOOLEAN /\ MaxEntries \in Nat
    BY DirSize DEF TInv, TypeOK
  <2>2. /\ nr_dir_entries' = 0 \/ nr_dir_entries' = nr_dir_entries
        /\ ragged' = FALSE \/ ragged' = ragged
    BY <1>2 DEF Truncate, dirSize
  <2>3. nr_dir_entries' \in 0..MaxEntries
    BY <2>1, <2>2
  <2>4. ragged' \in BOOLEAN
    BY <2>1, <2>2
  <2> QED BY <1>2, <2>3, <2>4, DirKept
<1>3. nr \in inode_map /\ nr \in Inodes
  BY <1>1, <1>2, FoundIsAllocated
<1>4. PICK s \in Slots : s = SlotOf(nr) /\ TakesSlot(s, nr)
  BY <1>2, <1>3, SlotFound DEF TakesSlot, get_file_inode
<1>5. PICK i \in Fds, d \in Descs :
              /\ file_desc[p][i] = NULL /\ file_desc_table[d].fd_inode = NULL
              /\ file_desc' = [file_desc EXCEPT ![p][i] = d]
              /\ file_desc_table' = [file_desc_table EXCEPT ![d] = [fd_inode |-> s, fd_cnt |-> 1]]
              /\ file_desc' \in [Procs -> [Fds -> Descs \cup {NULL}]]
              /\ file_desc_table' \in [Descs -> [fd_inode : Slots \cup {NULL}, fd_cnt : Nat]]
  BY <1>2, <1>4, ConnectTakes
<1>6. DescriptorsShared' /\ CopiesMatch' /\ FilesKept
  BY <1>2, <1>3, <1>4, <1>5, ConnectKeeps
<1>7. CachedOnce' /\ TypeOK'
  <2>1. CachedOnce' /\ inode_table' \in [Slots -> [inode_nr : Inodes \cup {INVALID_INODE}, inode_cnt : Nat]]
    BY <1>3, <1>4, TakesSlotKeeps
  <2>2. proc_state' \in [Procs -> {"free", "live", "copied"}] /\ parent' \in Procs /\ leaked' \in [Slots -> 0..MaxLeak]
    BY <1>2 DEF TInv, TypeOK
  <2> QED BY <1>5, <1>20, <2>1, <2>2 DEF TypeOK, DirTypes
<1>8. CachedAllocated'
  <2>1. \A t \in Slots : inode_table'[t].inode_cnt > 0 => inode_table'[t].inode_nr \in inode_map
    BY <1>3, <1>4, TakesSlotKeeps DEF TInv, CachedAllocated
  <2> QED BY <1>2, <1>20, <2>1 DEF CachedAllocated
<1> QED BY <1>6, <1>7, <1>8, <1>20 DEF TInv

\* open() with O_CREAT: no slot has the inode that is taken, so that the count
\* make_new_inode sets is that of a reference more.
LEMMA OpenCreateStep ==
    ASSUME TInv, NEW p \in Procs, NEW name \in Names, OpenCreate(p, name)
    PROVE  TInv' /\ FilesKept
<1>1. PICK nr : nr = Min(Inodes \ inode_map)
  OBVIOUS
<1>2. /\ Calls(p) /\ FreeFds(p) # {} /\ get_file_inode_nr(name) = INVALID_INODE
      /\ inode_map # Inodes /\ HasSlot(nr) /\ FreeDescs # {}
      /\ inode_map' = inode_map \cup {nr}
      /\ inode_table' = [inode_table EXCEPT ![SlotOf(nr)] = [inode_nr |-> nr, inode_cnt |-> 1]]
      /\ make_new_dir_entry(nr, name) /\ Connect(p, SlotOf(nr))
      /\ UNCHANGED <<proc_state, parent, leaked, halted>> /\ halted = "no"
  BY <1>1 DEF OpenCreate, Calls
<1>3. nr \in Inodes \ inode_map
  <2>1. inode_map \subseteq Inodes
    BY DEF TInv, TypeOK
  <2>2. Inodes \ inode_map # {}
    BY <1>2, <2>1
  <2>3. Inodes \ inode_map \subseteq Nat
    BY DEF Inodes
  <2> QED BY <1>1, <2>2, <2>3, MinIsMember
<1>4. PICK s \in Slots : s = SlotOf(nr) /\ TakesSlot(s, nr)
  <2>1. /\ SlotOf(nr) \in Slots
        /\ inode_table[SlotOf(nr)].inode_cnt = 0 \/ inode_table[SlotOf(nr)].inode_nr = nr
        /\ \A t \in Slots :
              inode_table[t].inode_cnt > 0 /\ inode_table[t].inode_nr = nr => t = SlotOf(nr)
    BY <1>2, <1>3, SlotFound
  <2>2. PICK s \in Slots : s = SlotOf(nr)
    BY <2>1
  <2>3. inode_table[s].inode_cnt = 0
    <3>1. inode_table[s].inode_cnt \in Nat
      BY DEF TInv, TypeOK
    <3> QED BY <1>3, <2>1, <2>2, <3>1 DEF TInv, CachedAllocated
  <2>4. inode_table[s].inode_cnt + 1 = 1
    BY <2>3
  <2>5. TakesSlot(s, nr)
    BY <1>2, <2>1, <2>2, <2>4 DEF TakesSlot
  <2> QED BY <2>2, <2>5
<1>5. PICK i \in Fds, d \in Descs :
              /\ file_desc[p][i] = NULL /\ file_desc_table[d].fd_inode = NULL
              /\ file_desc' = [file_desc EXCEPT ![p][i] = d]
              /\ file_desc_table' = [file_desc_table EXCEPT ![d] = [fd_inode |-> s, fd_cnt |-> 1]]
              /\ file_desc' \in [Procs -> [Fds -> Descs \cup {NULL}]]
              /\ file_desc_table' \in [Descs -> [fd_inode : Slots \cup {NULL}, fd_cnt : Nat]]
  BY <1>2, <1>4, ConnectTakes
<1>6. DescriptorsShared' /\ CopiesMatch' /\ FilesKept
  BY <1>2, <1>3, <1>4, <1>5, ConnectKeeps
<1>7. EntriesOwnInodes' /\ DirTypes'
  BY <1>2, <1>3, NewEntryKeeps
<1>8. CachedOnce' /\ TypeOK'
  <2>1. CachedOnce' /\ inode_table' \in [Slots -> [inode_nr : Inodes \cup {INVALID_INODE}, inode_cnt : Nat]]
    BY <1>3, <1>4, TakesSlotKeeps
  <2>2. /\ proc_state' \in [Procs -> {"free", "live", "copied"}] /\ parent' \in Procs
        /\ leaked' \in [Slots -> 0..MaxLeak] /\ halted' \in {"no", "panic", "de_found"}
        /\ inode_map' \subseteq Inodes
    BY <1>2, <1>3 DEF TInv, TypeOK
  <2> QED BY <1>5, <1>7, <2>1, <2>2 DEF TypeOK, DirTypes
<1>9. CachedAllocated'
  BY <1>2, <1>3, <1>4, TakesSlotKeeps DEF TInv, CachedAllocated
<1> QED BY <1>6, <1>7, <1>8, <1>9 DEF TInv

\* unlink() of a file that stays: one reference more, which no process has.
LEMMA UnlinkRefusedStep ==
    ASSUME TInv, NEW p \in Procs, NEW path \in Paths, UnlinkRefused(p, path)
    PROVE  TInv' /\ FilesKept
<1>1. PICK nr : nr = get_file_inode_nr(path)
  OBVIOUS
<1>2. CASE Panic
  BY <1>2, PanicStep
<1>3. CASE /\ HasSlot(nr) /\ \A s \in Slots : leaked[s] < MaxLeak
           /\ leaked' = [leaked EXCEPT ![SlotOf(nr)] = @ + 1]
           /\ inode_table' = get_file_inode(nr)
           /\ UNCHANGED <<disk, file_desc_table, procs, halted>>
  <2>1. nr \in inode_map /\ nr \in Inodes
    BY <1>1, FoundIsAllocated DEF UnlinkRefused, Calls
  <2>2. PICK s \in Slots : s = SlotOf(nr) /\ TakesSlot(s, nr)
    BY <1>3, <2>1, SlotFound DEF TakesSlot, get_file_inode
  <2>3. /\ file_desc_table' = file_desc_table /\ file_desc' = file_desc
        /\ proc_state' = proc_state /\ parent' = parent
        /\ UNCHANGED <<disk, halted>> /\ inode_map' = inode_map
    BY <1>3 DEF procs, disk
  <2>4. /\ CachedOnce'
        /\ inode_table' \in [Slots -> [inode_nr : Inodes \cup {INVALID_INODE}, inode_cnt : Nat]]
        /\ \A t \in Slots : inode_table[t].inode_cnt > 0 =>
              inode_table'[t].inode_nr = inode_table[t].inode_nr
        /\ inode_table'[s].inode_cnt = inode_table[s].inode_cnt + 1
        /\ inode_table'[s].inode_nr = nr
        /\ \A t \in Slots \ {s} : inode_table'[t] = inode_table[t]
    BY <2>1, <2>2, TakesSlotKeeps
  <2>5. DescriptorsShared'
    <3>1. /\ SharedIn(proc_state, file_desc, file_desc_table, inode_table, leaked)
          /\ leaked \in [Slots -> 0..MaxLeak] /\ MaxLeak \in Nat
      BY SharedNow, FileTableAssumption DEF TInv, TypeOK
    <3>2. ASSUME NEW t \in Slots
          PROVE  inode_table'[t].inode_cnt =
                    Cardinality(SharersIn(proc_state, file_desc, file_desc_table, t))
                    + UnsharedIn(leaked', t)
      <4>1. PICK n \in Nat : n = Cardinality(SharersIn(proc_state, file_desc, file_desc_table, t))
        BY SharersAre
      <4>2. PICK u \in Nat : u = UnsharedIn(leaked, t)
        BY UnsharedType DEF TInv
      <4>3. inode_table[t].inode_cnt = n + u
        BY <3>1, <4>1, <4>2 DEF SharedIn
      <4>4. CASE t = s
        <5>1. leaked'[s] = leaked[s] + 1 /\ leaked[s] \in Nat
          BY <1>3, <2>2, <3>1
        <5>2. UnsharedIn(leaked', s) = u + 1
          BY <4>2, <4>4, <5>1 DEF UnsharedIn
        <5> QED BY <2>4, <4>1, <4>3, <4>4, <5>2
      <4>5. CASE t # s
        <5>1. leaked'[t] = leaked[t]
          BY <1>3, <2>2, <3>1, <4>5
        <5>2. UnsharedIn(leaked', t) = u
          BY <4>2, <5>1 DEF UnsharedIn
        <5> QED BY <2>4, <4>1, <4>3, <4>5, <5>2
      <4> QED BY <4>4, <4>5
    <3> QED BY <2>3, <3>1, <3>2, SharedNow DEF SharedIn
  <2>6. CopiesMatch'
    BY <2>3 DEF TInv, CopiesMatch
  <2>7. FilesKept
    <3> SUFFICES ASSUME NEW q \in Procs, NEW j \in Fds,
                        file_desc[q][j] # NULL, file_desc'[q][j] = file_desc[q][j]
                 PROVE  LET e == file_desc[q][j]
                            t == file_desc_table[e].fd_inode
                        IN  /\ file_desc_table'[e].fd_inode = t
                            /\ inode_table'[t].inode_nr = inode_table[t].inode_nr
      BY KeptIfSlotKept
    <3> QED BY <2>3, <2>4, OpenExist
  <2>8. TypeOK'
    <3>1. MaxLeak \in Nat /\ leaked \in [Slots -> 0..MaxLeak]
      BY FileTableAssumption DEF TInv, TypeOK
    <3>2. leaked[s] + 1 \in 0..MaxLeak
      BY <1>3, <2>2, <3>1
    <3>20. leaked' \in [Slots -> 0..MaxLeak]
      BY <1>3, <2>2, <3>1, <3>2
    <3>3. /\ file_desc_table' \in [Descs -> [fd_inode : Slots \cup {NULL}, fd_cnt : Nat]]
          /\ file_desc' \in [Procs -> [Fds -> Descs \cup {NULL}]]
          /\ proc_state' \in [Procs -> {"free", "live", "copied"}] /\ parent' \in Procs
      BY <2>3 DEF TInv, TypeOK
    <3> QED BY <2>3, <2>4, <3>20, <3>3, DiskKept DEF TypeOK, DirTypes
  <2>9. CachedAllocated'
    BY <2>1, <2>3, <2>4, DiskKept DEF TInv, CachedAllocated
  <2> QED BY <2>3, <2>4, <2>5, <2>6, <2>7, <2>8, <2>9, DiskKept DEF TInv
<1> QED BY <1>1, <1>2, <1>3 DEF UnlinkRefused

\* unlink() of a file that goes: no slot has its inode, as none is open.
LEMMA UnlinkStep ==
    ASSUME TInv, NEW p \in Procs, NEW path \in Paths, do_unlink(p, path)
    PROVE  TInv' /\ FilesKept
<1>1. PICK nr : nr = get_file_inode_nr(path)
  OBVIOUS
<1>2. /\ nr \notin Special \cup {INVALID_INODE} /\ HasSlot(nr) /\ ~InUse(nr) /\ halted = "no"
      /\ inode_map' = inode_map \ {nr}
      /\ file_desc_table' = file_desc_table /\ file_desc' = file_desc
      /\ proc_state' = proc_state /\ parent' = parent /\ leaked' = leaked
  BY <1>1 DEF do_unlink, Calls, procs
<1>3. nr \in inode_map /\ nr \in Inodes
  BY <1>1, <1>2, FoundIsAllocated
<1>4. PICK s \in Slots : /\ s = SlotOf(nr)
                         /\ \A t \in Slots :
                               inode_table[t].inode_cnt > 0 /\ inode_table[t].inode_nr = nr => t = s
  BY <1>2, <1>3, SlotFound
<1>5. inode_table \in [Slots -> [inode_nr : Inodes \cup {INVALID_INODE}, inode_cnt : Nat]]
  BY DEF TInv, TypeOK
<1>6. PICK n \in Nat : n = inode_table[s].inode_cnt
  BY <1>5
<1>7. get_file_inode(nr)[s] = [inode_nr |-> nr, inode_cnt |-> n + 1]
  BY <1>4, <1>5, <1>6 DEF get_file_inode
<1>8. n = 0
  <2>1. ~(n + 1 > 1)
    BY <1>2, <1>4, <1>7 DEF InUse
  <2> QED BY <2>1
<1>9. inode_table' = [inode_table EXCEPT ![s] = NoInode]
  <2>1. Put([inode_nr |-> nr, inode_cnt |-> n + 1], 1) = NoInode
    BY <1>8 DEF Put
  <2> QED BY <1>1, <1>4, <1>7, <2>1 DEF do_unlink
<1>10. /\ inode_table' \in [Slots -> [inode_nr : Inodes \cup {INVALID_INODE}, inode_cnt : Nat]]
       /\ inode_table'[s].inode_cnt = 0
       /\ \A t \in Slots \ {s} : inode_table'[t] = inode_table[t]
  BY <1>5, <1>9 DEF NoInode
<1>11. \A t \in Slots : inode_table'[t].inode_cnt = inode_table[t].inode_cnt
  BY <1>6, <1>8, <1>10
<1>12. DescriptorsShared'
  BY <1>2, <1>11, SharedNow DEF TInv, SharedIn
<1>13. CopiesMatch'
  BY <1>2 DEF TInv, CopiesMatch
<1>14. CachedOnce'
  BY <1>10 DEF TInv, CachedOnce
<1>15. CachedAllocated'
  <2>1. ROOT_INODE_NR # nr
    <3>1. Len(Devices) \in Nat
      BY FileTableAssumption, LenProperties
    <3> QED BY <1>2, <3>1 DEF Special, ROOT_INODE_NR
  <2> QED BY <1>2, <1>4, <1>10, <2>1 DEF TInv, CachedAllocated
<1>16. FilesKept
  <2> SUFFICES ASSUME NEW q \in Procs, NEW j \in Fds,
                      file_desc[q][j] # NULL, file_desc'[q][j] = file_desc[q][j]
               PROVE  LET e == file_desc[q][j]
                          t == file_desc_table[e].fd_inode
                      IN  /\ file_desc_table'[e].fd_inode = t
                          /\ inode_table'[t].inode_nr = inode_table[t].inode_nr
    BY KeptIfSlotKept
  <2>1. PICK t : t = file_desc_table[file_desc[q][j]].fd_inode
    OBVIOUS
  <2>2. t \in Slots /\ inode_table[t].inode_cnt > 0
    BY <2>1, OpenExist
  <2>3. t # s
    <3>1. inode_table[s].inode_cnt = 0
      BY <1>6, <1>8
    <3>2. inode_table[t].inode_cnt # 0
      BY <1>5, <2>2
    <3> QED BY <3>1, <3>2
  <2> QED BY <1>2, <1>10, <2>1, <2>2, <2>3
<1>17. /\ EntriesOwnInodes' /\ DirTypes'
       /\ halted' \in {"no", "panic", "de_found"}
  <2>1. CASE EntriesOf(nr) # {}
    BY <1>1, <1>2, <1>3, <2>1, ClearEntryKeeps DEF do_unlink
  <2>2. CASE EntriesOf(nr) = {}
    <3>1. /\ dir' = dir /\ nr_dir_entries' = nr_dir_entries /\ ragged' = ragged
          /\ halted' = "de_found"
      BY <1>1, <2>2 DEF do_unlink, dirSize
    <3> QED BY <3>1 DEF TInv, TypeOK, EntriesOwnInodes, DirTypes
  <2> QED BY <2>1, <2>2
<1>18. TypeOK'
  <2>1. /\ inode_map' \subseteq Inodes
        /\ file_desc_table' \in [Descs -> [fd_inode : Slots \cup {NULL}, fd_cnt : Nat]]
        /\ file_desc' \in [Procs -> [Fds -> Descs \cup {NULL}]]
        /\ proc_state' \in [Procs -> {"free", "live", "copied"}] /\ parent' \in Procs
        /\ leaked' \in [Slots -> 0..MaxLeak]
    BY <1>2 DEF TInv, TypeOK
  <2> QED BY <1>10, <1>17, <2>1 DEF TypeOK, DirTypes
<1> QED BY <1>12, <1>13, <1>14, <1>15, <1>16, <1>17, <1>18 DEF TInv

\* fork() in PM: the child has the pointers, and FS does not count it yet.
LEMMA PmForkStep ==
    ASSUME TInv, NEW p \in Procs, NEW c \in Procs, PmFork(p, c)
    PROVE  TInv' /\ FilesKept
<1>1. /\ UNCHANGED <<disk, halted>> /\ inode_map' = inode_map
      /\ inode_table' = inode_table /\ file_desc_table' = file_desc_table
      /\ leaked' = leaked /\ parent' = p
      /\ proc_state[p] = "live" /\ proc_state[c] = "free"
      /\ \A q \in Procs : proc_state[q] # "copied"
      /\ file_desc' = [file_desc EXCEPT ![c] = file_desc[p]]
      /\ proc_state' = [proc_state EXCEPT ![c] = "copied"]
  BY DEF PmFork, Calls, Forking, disk
<1>2. /\ file_desc \in [Procs -> [Fds -> Descs \cup {NULL}]]
      /\ proc_state \in [Procs -> {"free", "live", "copied"}]
  BY DEF TInv, TypeOK
<1>3. /\ file_desc' \in [Procs -> [Fds -> Descs \cup {NULL}]]
      /\ proc_state' \in [Procs -> {"free", "live", "copied"}]
      /\ file_desc'[c] = file_desc[p] /\ proc_state'[c] = "copied" /\ c # p
      /\ \A q \in Procs \ {c} : file_desc'[q] = file_desc[q] /\ proc_state'[q] = proc_state[q]
  BY <1>1, <1>2
<1>4. TypeOK'
  BY <1>1, <1>3, DiskKept DEF TInv, TypeOK, DirTypes
<1>5. CopiesMatch'
  BY <1>1, <1>3 DEF TInv, CopiesMatch
<1>6. DescriptorsShared'
  <2>1. ASSUME NEW e PROVE HoldersIn(proc_state', file_desc', e) = HoldersIn(proc_state, file_desc, e)
    <3>1. \A q \in Procs, j \in Fds : /\ proc_state'[q] = "live" /\ file_desc'[q][j] = e
                                   <=> /\ proc_state[q] = "live" /\ file_desc[q][j] = e
      BY <1>1, <1>3
    <3> QED BY <3>1, PairsEqual DEF HoldersIn
  <2>2. ASSUME NEW t PROVE SharersIn(proc_state', file_desc', file_desc_table, t)
                            = SharersIn(proc_state, file_desc, file_desc_table, t)
    <3>1. \A q \in Procs, j \in Fds :
             /\ proc_state'[q] = "live" /\ file_desc'[q][j] # NULL
             /\ file_desc_table[file_desc'[q][j]].fd_inode = t
             <=> /\ proc_state[q] = "live" /\ file_desc[q][j] # NULL
                 /\ file_desc_table[file_desc[q][j]].fd_inode = t
      BY <1>1, <1>3
    <3> QED BY <3>1, PairsEqual DEF SharersIn
  <2> QED BY <1>1, <2>1, <2>2, SharedNow DEF TInv, SharedIn
<1>7. FilesKept
  BY <1>1, KeptIfSlotKept
<1>8. CachedOnce' /\ CachedAllocated'
  BY <1>1, DiskKept DEF TInv, CachedOnce, CachedAllocated
<1> QED BY <1>1, <1>4, <1>5, <1>6, <1>7, <1>8, DiskKept DEF TInv

\* fork() in FS: the child is counted.
LEMMA ForkStep ==
    ASSUME TInv, NEW c \in Procs, fs_fork(c)
    PROVE  TInv' /\ FilesKept
<1>1. /\ UNCHANGED <<disk, halted>> /\ inode_map' = inode_map
      /\ leaked' = leaked /\ parent' = parent /\ file_desc' = file_desc
      /\ proc_state' = [proc_state EXCEPT ![c] = "live"]
  BY DEF fs_fork, disk
<1>2. TypeOK'
  <2>1. /\ leaked' \in [Slots -> 0..MaxLeak] /\ parent' \in Procs
        /\ proc_state' \in [Procs -> {"free", "live", "copied"}]
        /\ file_desc' \in [Procs -> [Fds -> Descs \cup {NULL}]]
    BY <1>1 DEF TInv, TypeOK
  <2> QED BY <1>1, <2>1, ForkKeeps, DiskKept DEF TypeOK, DirTypes
<1>3. CachedAllocated'
  BY <1>1, ForkKeeps, DiskKept DEF TInv, CachedAllocated
<1> QED BY <1>1, <1>2, <1>3, ForkKeeps, DiskKept DEF TInv

\* What close() and exit() have in common.
LEMMA GivesUpStep ==
    ASSUME TInv, NEW p \in Procs, proc_state[p] = "live", NEW I \in SUBSET Fds, GivesUp(p, I),
           Forking => p # parent,
           \A q \in Procs : proc_state'[q] = proc_state[q] \/ (q = p /\ I = Fds /\ ~Forking
                                                               /\ proc_state'[q] = "free"),
           UNCHANGED <<disk, parent, leaked, halted>>,
           file_desc_table' = [e \in Descs |-> file_desc_table'[e]],
           inode_table' = [t \in Slots |-> inode_table'[t]],
           file_desc' \in [Procs -> [Fds -> Descs \cup {NULL}]],
           proc_state' \in [Procs -> {"free", "live", "copied"}]
    PROVE  TInv' /\ FilesKept
<1>1. \A q \in Procs : /\ proc_state'[q] = "live" => proc_state[q] = "live"
                       /\ proc_state[q] = "live" /\ proc_state'[q] # "live" => q = p /\ I = Fds
  OBVIOUS
<1>2. \A e \in Descs : file_desc_table'[e] \in [fd_inode : Slots \cup {NULL}, fd_cnt : Nat]
  BY <1>1, GivesUpDescs
<1>3. \A t \in Slots :
         /\ inode_table'[t] \in [inode_nr : Inodes \cup {INVALID_INODE}, inode_cnt : Nat]
         /\ inode_table'[t].inode_cnt <= inode_table[t].inode_cnt
         /\ inode_table'[t].inode_cnt > 0 => inode_table'[t].inode_nr = inode_table[t].inode_nr
  BY <1>1, GivesUpSlots
<1>4. DescriptorsShared' /\ CopiesMatch' /\ CachedOnce' /\ FilesKept
  BY GivesUpKeeps
<1>5. TypeOK'
  <2>1. file_desc_table' \in [Descs -> [fd_inode : Slots \cup {NULL}, fd_cnt : Nat]]
    BY <1>2
  <2>2. inode_table' \in [Slots -> [inode_nr : Inodes \cup {INVALID_INODE}, inode_cnt : Nat]]
    BY <1>3
  <2>3. parent' \in Procs /\ leaked' \in [Slots -> 0..MaxLeak]
    BY DEF TInv, TypeOK
  <2> QED BY <2>1, <2>2, <2>3, DiskKept DEF TypeOK, DirTypes
<1>6. CachedAllocated'
  <2>1. inode_map' = inode_map
    BY DEF disk
  <2>2. ASSUME NEW t \in Slots, inode_table'[t].inode_cnt > 0
        PROVE  inode_table'[t].inode_nr \in inode_map
    <3>1. inode_table[t].inode_cnt \in Nat /\ inode_table'[t].inode_cnt \in Nat
      BY <1>3 DEF TInv, TypeOK
    <3>2. inode_table[t].inode_cnt > 0
      BY <1>3, <2>2, <3>1
    <3> QED BY <1>3, <2>2, <3>2 DEF TInv, CachedAllocated
  <2> QED BY <2>1, <2>2, DiskKept DEF CachedAllocated
<1> QED BY <1>4, <1>5, <1>6, DiskKept DEF TInv

\* close()
LEMMA CloseStep ==
    ASSUME TInv, NEW p \in Procs, NEW i \in Fds, do_close(p, i)
    PROVE  TInv' /\ FilesKept
<1>1. PICK d : d = file_desc[p][i]
  OBVIOUS
<1>2. PICK s : s = file_desc_table[d].fd_inode
  OBVIOUS
<1>3. /\ proc_state[p] = "live" /\ (Forking => p # parent) /\ d # NULL
      /\ inode_table' = [inode_table EXCEPT ![s] = Put(@, 1)]
      /\ file_desc_table' = [file_desc_table EXCEPT ![d] = Release(@, 1)]
      /\ file_desc' = [file_desc EXCEPT ![p][i] = NULL]
      /\ proc_state' = proc_state
      /\ UNCHANGED <<disk, parent, leaked, halted>>
  BY <1>1, <1>2 DEF do_close, Calls
<1>4. d \in Descs /\ s \in Slots
  BY <1>1, <1>2, <1>3, OpenExist
<1>5. /\ file_desc_table \in [Descs -> [fd_inode : Slots \cup {NULL}, fd_cnt : Nat]]
      /\ inode_table \in [Slots -> [inode_nr : Inodes \cup {INVALID_INODE}, inode_cnt : Nat]]
      /\ file_desc \in [Procs -> [Fds -> Descs \cup {NULL}]]
      /\ proc_state \in [Procs -> {"free", "live", "copied"}]
  BY DEF TInv, TypeOK
<1>6. Cardinality({i}) = 1 /\ Cardinality({}) = 0
  BY FS_Singleton, FS_EmptySet
<1>7. GivesUp(p, {i})
  <2>1. /\ \A q \in Procs \ {p} : file_desc'[q] = file_desc[q]
        /\ \A j \in Fds : file_desc'[p][j] = IF j \in {i} THEN NULL ELSE file_desc[p][j]
    BY <1>3, <1>5
  <2>2. ASSUME NEW e \in Descs
        PROVE  file_desc_table'[e] =
                  IF Cardinality(PointersIn(p, {i}, e)) = 0 THEN file_desc_table[e]
                  ELSE Release(file_desc_table[e], Cardinality(PointersIn(p, {i}, e)))
    <3>1. CASE e = d
      <4>1. PointersIn(p, {i}, e) = {i}
        BY <1>1, <3>1 DEF PointersIn
      <4>2. file_desc_table'[e] = Release(file_desc_table[e], 1)
        BY <1>3, <1>4, <1>5, <3>1
      <4> QED BY <1>6, <4>1, <4>2
    <3>2. CASE e # d
      <4>1. PointersIn(p, {i}, e) = {}
        BY <1>1, <3>2 DEF PointersIn
      <4>2. file_desc_table'[e] = file_desc_table[e]
        BY <1>3, <1>4, <1>5, <3>2
      <4> QED BY <1>6, <4>1, <4>2
    <3> QED BY <3>1, <3>2
  <2>3. ASSUME NEW t \in Slots
        PROVE  inode_table'[t] =
                  IF Cardinality(RefsIn(p, {i}, t)) = 0 THEN inode_table[t]
                  ELSE Put(inode_table[t], Cardinality(RefsIn(p, {i}, t)))
    <3>1. CASE t = s
      <4>1. RefsIn(p, {i}, t) = {i}
        BY <1>1, <1>2, <1>3, <3>1 DEF RefsIn
      <4>2. inode_table'[t] = Put(inode_table[t], 1)
        BY <1>3, <1>4, <1>5, <3>1
      <4> QED BY <1>6, <4>1, <4>2
    <3>2. CASE t # s
      <4>1. RefsIn(p, {i}, t) = {}
        BY <1>1, <1>2, <3>2 DEF RefsIn
      <4>2. inode_table'[t] = inode_table[t]
        BY <1>3, <1>4, <1>5, <3>2
      <4> QED BY <1>6, <4>1, <4>2
    <3> QED BY <3>1, <3>2
  <2> QED BY <2>1, <2>2, <2>3 DEF GivesUp
<1>8. /\ file_desc_table' = [e \in Descs |-> file_desc_table'[e]]
      /\ inode_table' = [t \in Slots |-> inode_table'[t]]
  BY <1>3, <1>5
<1>9. /\ file_desc' \in [Procs -> [Fds -> Descs \cup {NULL}]]
      /\ proc_state' \in [Procs -> {"free", "live", "copied"}]
  BY <1>3, <1>5
<1> QED BY <1>3, <1>7, <1>8, <1>9, GivesUpStep

\* exit()
LEMMA ExitStep ==
    ASSUME TInv, NEW p \in Procs, fs_exit(p)
    PROVE  TInv' /\ FilesKept
<1>1. /\ proc_state[p] = "live" /\ (Forking => p # parent) /\ ~Forking
      /\ proc_state' = [proc_state EXCEPT ![p] = "free"]
      /\ file_desc' = [file_desc EXCEPT ![p] = [i \in Fds |-> NULL]]
      /\ UNCHANGED <<disk, parent, leaked, halted>>
  BY DEF fs_exit, Calls
<1>2. /\ file_desc \in [Procs -> [Fds -> Descs \cup {NULL}]]
      /\ proc_state \in [Procs -> {"free", "live", "copied"}]
  BY DEF TInv, TypeOK
<1>3. /\ file_desc' \in [Procs -> [Fds -> Descs \cup {NULL}]]
      /\ proc_state' \in [Procs -> {"free", "live", "copied"}]
  BY <1>1, <1>2
<1>4. \A q \in Procs : proc_state'[q] = proc_state[q] \/ (q = p /\ proc_state'[q] = "free")
  BY <1>1, <1>2
<1>5. GivesUp(p, Fds)
  <2>1. /\ \A q \in Procs \ {p} : file_desc'[q] = file_desc[q]
        /\ \A j \in Fds : file_desc'[p][j] = IF j \in Fds THEN NULL ELSE file_desc[p][j]
    BY <1>1, <1>2
  <2>2. \A e \in Descs : PointersTo(p, e) = Cardinality(PointersIn(p, Fds, e))
    BY DEF PointersTo, PointersIn
  <2>3. \A t \in Slots : RefsTo(p, t) = Cardinality(RefsIn(p, Fds, t))
    BY DEF RefsTo, RefsIn
  <2>4. \A e \in Descs : file_desc_table'[e] =
           IF PointersTo(p, e) = 0 THEN file_desc_table[e]
           ELSE Release(file_desc_table[e], PointersTo(p, e))
    BY DEF fs_exit
  <2>5. \A t \in Slots : inode_table'[t] =
           IF RefsTo(p, t) = 0 THEN inode_table[t] ELSE Put(inode_table[t], RefsTo(p, t))
    BY DEF fs_exit
  <2> QED BY <2>1, <2>2, <2>3, <2>4, <2>5 DEF GivesUp
<1>6. /\ file_desc_table' = [e \in Descs |-> file_desc_table'[e]]
      /\ inode_table' = [t \in Slots |-> inode_table'[t]]
  BY DEF fs_exit
<1> QED BY <1>1, <1>3, <1>4, <1>5, <1>6, GivesUpStep

\* Reads of the directory past its end: its size is all that changes.
LEMMA ReadRootStep ==
    ASSUME TInv, NEW p \in Procs, NEW i \in Fds, ReadRoot(p, i)
    PROVE  TInv' /\ FilesKept
<1>1. /\ UNCHANGED <<dir, inode_map, inode_table, file_desc_table, leaked, halted>>
      /\ file_desc' = file_desc /\ proc_state' = proc_state /\ parent' = parent
      /\ ragged' \in BOOLEAN /\ nr_dir_entries' \in nr_dir_entries..MaxRead
  BY DEF ReadRoot, procs
<1>2. nr_dir_entries' \in 0..MaxEntries
  <2>1. MaxRead \in 0..MaxEntries /\ MaxEntries \in Nat
    BY FileTableAssumption
  <2> QED BY <1>1, <2>1, DirSize
<1>3. EntriesOwnInodes' /\ DirTypes' /\ ROOT_INODE_NR \in inode_map'
  BY <1>1, <1>2, DirKept
<1>4. TypeOK'
  BY <1>1, <1>3 DEF TInv, TypeOK, DirTypes
<1>5. CopiesMatch' /\ CachedOnce' /\ CachedAllocated'
  BY <1>1, <1>3 DEF TInv, CopiesMatch, CachedOnce, CachedAllocated
<1>6. DescriptorsShared'
  BY <1>1, SharedNow DEF TInv
<1>7. FilesKept
  BY <1>1 DEF FilesKept, FileOf
<1> QED BY <1>3, <1>4, <1>5, <1>6, <1>7 DEF TInv

LEMMA NextTInv == TInv /\ [Next]_vars => TInv' /\ (vars' # vars => FilesKept)
<1> SUFFICES ASSUME TInv, [Next]_vars
             PROVE  TInv' /\ (vars' # vars => FilesKept)
  OBVIOUS
<1>1. ASSUME NEW p \in Procs, NEW path \in Paths, OpenExisting(p, path)
      PROVE  TInv' /\ FilesKept
  BY <1>1, OpenExistingStep
<1>2. ASSUME NEW p \in Procs, NEW path \in Paths, OpenPanics(p, path) \/ do_stat(p, path)
      PROVE  UNCHANGED vars \/ (TInv' /\ FilesKept)
  BY <1>2, PanicStep DEF OpenPanics, do_stat
<1>3. ASSUME NEW p \in Procs, NEW path \in Paths, UnlinkRefused(p, path)
      PROVE  TInv' /\ FilesKept
  BY <1>3, UnlinkRefusedStep
<1>4. ASSUME NEW p \in Procs, NEW path \in Paths, do_unlink(p, path)
      PROVE  TInv' /\ FilesKept
  BY <1>4, UnlinkStep
<1>5. ASSUME NEW p \in Procs, NEW name \in Names, OpenCreate(p, name)
      PROVE  TInv' /\ FilesKept
  BY <1>5, OpenCreateStep
<1>6. ASSUME NEW p \in Procs, NEW i \in Fds, do_close(p, i) \/ ReadRoot(p, i)
      PROVE  TInv' /\ FilesKept
  BY <1>6, CloseStep, ReadRootStep
<1>7. ASSUME NEW p \in Procs, NEW c \in Procs, PmFork(p, c)
      PROVE  TInv' /\ FilesKept
  BY <1>7, PmForkStep
<1>8. ASSUME NEW p \in Procs, fs_fork(p) \/ fs_exit(p)
      PROVE  TInv' /\ FilesKept
  BY <1>8, ForkStep, ExitStep
<1>9. Next => UNCHANGED vars \/ (TInv' /\ FilesKept)
  BY <1>1, <1>2, <1>3, <1>4, <1>5, <1>6, <1>7, <1>8 DEF Next
<1>10. CASE UNCHANGED vars
  <2>1. UNCHANGED <<dir, nr_dir_entries, ragged, inode_map, inode_table, file_desc_table,
                    file_desc, proc_state, parent, leaked, halted>>
    BY <1>10 DEF vars, disk, dirSize, procs
  <2>2. TypeOK' /\ CopiesMatch' /\ CachedOnce' /\ CachedAllocated' /\ EntriesOwnInodes'
    BY <2>1 DEF TInv, TypeOK, CopiesMatch, CachedOnce, CachedAllocated, EntriesOwnInodes
  <2>3. DescriptorsShared'
    BY <2>1, SharedNow DEF TInv
  <2> QED BY <1>10, <2>2, <2>3 DEF TInv
<1> QED BY <1>9, <1>10

-----------------------------------------------------------------------------
(* Theorems *)

LEMMA TInvHolds == Spec => []TInv
BY InitTInv, NextTInv, PTL DEF Spec

\* The tables of FS are within their bounds, and a creation always finds room for
\* its entry in a directory that has room for one entry per inode.
THEOREM TypeCorrect == Spec => []TypeOK
BY TInvHolds, PTL DEF TInv

\* open, close, fork, exit and unlink of FS: fd_cnt is the number of pointers
\* that processes have to a descriptor, a descriptor is free exactly when nobody
\* has one, and inode_cnt is the number of those who share the inode, the
\* reference of init_fs and those that refused unlinks left behind.
THEOREM CountsAlwaysExact == Spec => []DescriptorsShared
BY TInvHolds, PTL DEF TInv

\* do_unlink, do_close and fs_exit: what a process has open exists, also while
\* PM is copying that process.
THEOREM OpenFilesAlwaysExist == Spec => []OpenFilesExist
<1>1. TInv => OpenFilesExist
  <2> SUFFICES ASSUME TInv, NEW p \in Procs, NEW i \in Fds, file_desc[p][i] # NULL
               PROVE  LET s == file_desc_table[file_desc[p][i]].fd_inode
                      IN  s # NULL /\ inode_table[s].inode_cnt > 0
                                   /\ inode_table[s].inode_nr \in inode_map
    BY DEF OpenFilesExist
  <2>1. NULL \notin Slots
    BY DEF Slots, NULL
  <2> QED BY <2>1, OpenExist
<1> QED BY <1>1, TInvHolds, PTL

\* get_file_inode: no inode is cached twice.
THEOREM InodesCachedOnce == Spec => []CachedOnce
BY TInvHolds, PTL DEF TInv

\* make_new_dir_entry and clear_directory_entry: while the system runs, every entry
\* of the directory, also behind its end, has an allocated inode of its own.
THEOREM EntriesAlwaysOwnInodes == Spec => []EntriesOwnInodes
BY TInvHolds, PTL DEF TInv

\* No step of any process makes a descriptor that another has open, or that the
\* same one keeps open, stand for another file.
THEOREM FilesAlwaysStay == Spec => FilesStay
<1>1. TInv /\ [Next]_vars => [FilesKept]_vars
  BY NextTInv
<1> QED BY <1>1, TInvHolds, PTL DEF Spec, FilesStay, FilesKept
=============================================================================
