----------------------------- MODULE FileTable -----------------------------
(***************************************************************************)
(* The files of the file system server: the root directory and the inode   *)
(* map on disk, the inode cache inode_table, the shared file_desc_table    *)
(* and the file_desc pointers of the processes (src/task/fs/open_close.c,  *)
(* unlink.c, stat.c, misc.c and fs.c).  FS serves one request at a time,   *)
(* so a request is one step; a fork takes two, because PM copies the table *)
(* entry of the parent, pointers included, before FS hears of the child.   *)
(*                                                                         *)
(* The sector map and the sizes of files are in module FileData: here a    *)
(* creation may stop in the sector map's assert at any time.  The root     *)
(* directory is a file that can be opened: it may be truncated, and reads  *)
(* past its end make it larger.  Writes to it are left out: they put there *)
(* whatever the process likes.  Sectors that were never written are zero.  *)
(* A panic or a failed assert stops the system (halted).                   *)
(***************************************************************************)
EXTENDS Naturals, FiniteSets, FiniteSetsExt, Sequences

CONSTANTS Procs,          \* user processes
          Boot,           \* the process that runs at first
          Files,          \* names of regular files
          Devices,        \* sequence of the terminals' names
          Installed,      \* sequence of the files of a new file system
          NR_FILES,       \* file_desc entries of a process
          NR_FILE_DESC,   \* entries of file_desc_table
          NR_INODE,       \* entries of inode_table
          NR_INODES,      \* inodes on disk, numbered from 1
          ENTRIES,        \* directory entries of a sector
          MaxEntries,     \* bound: entries the directory may have
          MaxRead,        \* bound: entries to which reads of "/" make it grow
          OpenRoot,       \* do processes truncate "/" or read past its end?
          MaxLeak         \* bound: no unlink fails once one slot has that many references left behind

\* A name with the end of an older, longer one behind it: it equals no path.
STALE == "name behind which bytes of another one are left"

ASSUME FileTableAssumption ==
    /\ Boot \in Procs /\ IsFiniteSet(Procs)
    /\ {NR_FILES, NR_FILE_DESC, NR_INODE, NR_INODES, ENTRIES} \subseteq Nat \ {0}
    /\ MaxLeak \in Nat /\ MaxEntries \in Nat /\ MaxEntries >= NR_INODES
    /\ MaxRead \in 0..MaxEntries /\ OpenRoot \in BOOLEAN
    /\ Devices \in Seq(STRING) /\ Installed \in Seq(Files)
    /\ Files \cap {"", ".", "/", STALE} = {}

Fds == 1..NR_FILES
Descs == 1..NR_FILE_DESC
Slots == 1..NR_INODE
Inodes == 1..NR_INODES
Indexes == 1..(MaxEntries + 1)
ROOT_INODE_NR == 1
INVALID_INODE == 0
NULL == 0
NewRoot == <<".">> \o Devices \o Installed  \* the i-th entry has inode i
NewMap == 1..Len(NewRoot)
Special == 1..(1 + Len(Devices))              \* the root and the terminals
Names == Files \cup {NewRoot[i] : i \in Special}
Paths == Names \cup {"/"}

\* What mkfs installs: names of its own, no more of them than there are inodes.
ASSUME NewRootAssumption ==
    /\ Len(NewRoot) <= NR_INODES
    /\ \A i \in NewMap : NewRoot[i] \notin {"", STALE}
    /\ \A i, j \in NewMap : NewRoot[i] = NewRoot[j] => i = j

VARIABLES dir,           \* entries of the root directory, those past its end too
          nr_dir_entries,\* size of the root directory, in whole entries
          ragged,        \* is the size more than that?
          inode_map,     \* allocated inodes
          inode_table,   \* the cache: number and reference count of an inode
          file_desc_table,
          file_desc,     \* of each process: pointers into file_desc_table
          proc_state,    \* "free", "live", or "copied": PM is forking it
          parent,        \* while PM forks: the caller of fork, which waits
          leaked,        \* of each slot: references that failed unlinks have left behind
          halted

dirSize == <<nr_dir_entries, ragged>>
disk == <<dir, dirSize, inode_map>>
procs == <<file_desc, proc_state, parent>>
vars == <<disk, inode_table, file_desc_table, procs, leaked, halted>>

NoEntry == [name |-> "", inode_nr |-> INVALID_INODE]
NoInode == [inode_nr |-> INVALID_INODE, inode_cnt |-> 0]
NoDesc == [fd_inode |-> NULL, fd_cnt |-> 0]

TypeOK ==
    /\ dir \in [Indexes -> [name : Names \cup {"", STALE},
                            inode_nr : Inodes \cup {INVALID_INODE}]]
    /\ nr_dir_entries \in 0..MaxEntries /\ ragged \in BOOLEAN
    /\ inode_map \subseteq Inodes
    /\ inode_table \in [Slots -> [inode_nr : Inodes \cup {INVALID_INODE},
                                  inode_cnt : Nat]]
    /\ file_desc_table \in [Descs -> [fd_inode : Slots \cup {NULL}, fd_cnt : Nat]]
    /\ file_desc \in [Procs -> [Fds -> Descs \cup {NULL}]]
    /\ proc_state \in [Procs -> {"free", "live", "copied"}]
    /\ parent \in Procs
    /\ leaked \in [Slots -> 0..MaxLeak]
    /\ halted \in {"no", "panic", "de_found"}

\* The file system mkfs makes; init_fs keeps the root inode cached.
Init ==
    /\ dir = [i \in Indexes |-> IF i <= Len(NewRoot)
                                  THEN [name |-> NewRoot[i], inode_nr |-> i]
                                  ELSE NoEntry]
    /\ nr_dir_entries = Len(NewRoot) /\ ragged = FALSE
    /\ inode_map = NewMap
    /\ inode_table = [s \in Slots |-> IF s = 1
                                        THEN [inode_nr |-> ROOT_INODE_NR, inode_cnt |-> 1]
                                        ELSE NoInode]
    /\ file_desc_table = [d \in Descs |-> NoDesc]
    /\ file_desc = [p \in Procs |-> [i \in Fds |-> NULL]]
    /\ proc_state = [p \in Procs |-> IF p = Boot THEN "live" ELSE "free"]
    /\ parent = Boot
    /\ leaked = [s \in Slots |-> 0]
    /\ halted = "no"

Panic ==
    /\ halted' = "panic"
    /\ UNCHANGED <<disk, inode_table, file_desc_table, procs, leaked>>

Forking == \E c \in Procs : proc_state[c] = "copied"

\* p can send a request to FS.
Calls(p) ==
    /\ halted = "no"
    /\ proc_state[p] = "live"
    /\ Forking => p # parent

-----------------------------------------------------------------------------
(* The inode cache *)

Cached(nr) == {s \in Slots : /\ inode_table[s].inode_cnt > 0
                             /\ inode_table[s].inode_nr = nr}
FreeSlots == {s \in Slots : inode_table[s].inode_cnt = 0}
HasSlot(nr) == Cached(nr) # {} \/ FreeSlots # {}

\* Fault: the scan ends at the first free slot.
SlotOf_FirstFree(nr) ==
    Min({s \in Slots : inode_table[s].inode_cnt = 0 \/ inode_table[s].inode_nr = nr})

\* The slot get_file_inode returns, if there is one.
SlotOf(nr) == IF Cached(nr) # {} THEN Min(Cached(nr)) ELSE Min(FreeSlots)

\* The cache after get_file_inode(nr).
get_file_inode(nr) ==
    [inode_table EXCEPT ![SlotOf(nr)] =
        [inode_nr |-> nr, inode_cnt |-> inode_table[SlotOf(nr)].inode_cnt + 1]]

\* A slot with n references less; the rest of a free slot is never read.
Put(slot, n) == IF slot.inode_cnt = n THEN NoInode
                ELSE [slot EXCEPT !.inode_cnt = @ - n]

-----------------------------------------------------------------------------
(* The root directory *)

\* get_file_inode_nr compares one entry more than there are, unless that one
\* begins a sector of its own.
Visible == 1..(IF nr_dir_entries % ENTRIES = 0 /\ ~ragged THEN nr_dir_entries
                                                           ELSE nr_dir_entries + 1)
Named(path) == {i \in Visible : dir[i].name = path}

get_file_inode_nr(path) ==
    CASE path = "/" -> ROOT_INODE_NR
      [] Named(path) # {} -> dir[Min(Named(path))].inode_nr
      [] OTHER -> INVALID_INODE

\* Entries of deleted files are used again before the directory grows.
Holes == {i \in 1..nr_dir_entries : dir[i].inode_nr = INVALID_INODE}

\* strcpy over an older name, which may be longer (an entry past the end is not
\* cleared before); get_file_inode_nr compares all the bytes.
Written(old, name) == IF old \in {"", name} THEN {name} ELSE {name, STALE}

make_new_dir_entry(nr, name) ==
    LET i == IF Holes # {} THEN Min(Holes) ELSE nr_dir_entries + 1
    IN  /\ \E written \in Written(dir[i].name, name) :
              dir' = [dir EXCEPT ![i] = [name |-> written, inode_nr |-> nr]]
        /\ nr_dir_entries' = Max({nr_dir_entries, i}) /\ UNCHANGED ragged

EntriesOf(nr) == {i \in 1..nr_dir_entries : dir[i].inode_nr = nr}

\* When the last entry goes, the directory shrinks to the entries before it
\* that are in use, wherever they are.
clear_directory_entry(nr) ==
    LET i == Min(EntriesOf(nr))
        used == {j \in 1..(i - 1) : dir[j].inode_nr # INVALID_INODE}
    IN  /\ dir' = [dir EXCEPT ![i] = NoEntry]
        /\ IF i = nr_dir_entries
             THEN nr_dir_entries' = Cardinality(used) /\ ragged' = FALSE
             ELSE UNCHANGED dirSize

-----------------------------------------------------------------------------
(* Requests of the processes *)

FreeFds(p) == {i \in Fds : file_desc[p][i] = NULL}
FreeDescs == {d \in Descs : file_desc_table[d].fd_inode = NULL}

\* The end of do_open: p's first free pointer, a free descriptor, the inode.
Connect(p, slot) ==
    LET d == Min(FreeDescs)
    IN  /\ file_desc' = [file_desc EXCEPT ![p][Min(FreeFds(p))] = d]
        /\ file_desc_table' = [file_desc_table EXCEPT ![d] =
                                  [fd_inode |-> slot, fd_cnt |-> 1]]

\* O_TRUNC; the size of another file is not modelled here.
Truncate(nr) ==
    OpenRoot /\ nr = ROOT_INODE_NR /\ nr_dir_entries' = 0 /\ ragged' = FALSE

\* The file exists and is opened with O_RDWR, without O_CREAT or with O_TRUNC.
OpenExisting(p, path) ==
    LET nr == get_file_inode_nr(path)
    IN  /\ Calls(p) /\ FreeFds(p) # {} /\ nr # INVALID_INODE
        /\ HasSlot(nr) /\ FreeDescs # {}
        /\ inode_table' = get_file_inode(nr)
        /\ Connect(p, SlotOf(nr))
        /\ Truncate(nr) \/ UNCHANGED dirSize
        /\ UNCHANGED <<dir, inode_map, proc_state, parent, leaked, halted>>

\* Fault: the bit of the new inode is not set.
OpenCreate_NoBit(p, name) ==
    LET nr == Min(Inodes \ inode_map)
    IN  /\ Calls(p) /\ FreeFds(p) # {} /\ get_file_inode_nr(name) = INVALID_INODE
        /\ inode_map # Inodes /\ HasSlot(nr) /\ FreeDescs # {}
        /\ inode_table' = get_file_inode(nr)
        /\ make_new_dir_entry(nr, name)
        /\ Connect(p, SlotOf(nr))
        /\ UNCHANGED <<inode_map, proc_state, parent, leaked, halted>>

\* The file does not exist and is opened with O_CREAT: create_file takes the
\* first free inode, whose count make_new_inode sets to 1.
OpenCreate(p, name) ==
    LET nr == Min(Inodes \ inode_map)
    IN  /\ Calls(p) /\ FreeFds(p) # {} /\ get_file_inode_nr(name) = INVALID_INODE
        /\ inode_map # Inodes /\ HasSlot(nr) /\ FreeDescs # {}
        /\ inode_map' = inode_map \cup {nr}
        /\ inode_table' = [inode_table EXCEPT ![SlotOf(nr)] =
                              [inode_nr |-> nr, inode_cnt |-> 1]]
        /\ make_new_dir_entry(nr, name)
        /\ Connect(p, SlotOf(nr))
        /\ UNCHANGED <<proc_state, parent, leaked, halted>>

\* The panics of do_open: file_desc, file_desc_table or inode_table is full.
\* A creation may find no sectors, which fails an assert; with a full inode
\* map (only on disks with room for that many files) the inode of the new file
\* is a null pointer, and nothing is claimed from there on.
OpenPanics(p, path) ==
    LET nr == get_file_inode_nr(path)
    IN  /\ Calls(p)
        /\ ~(FreeFds(p) # {} /\ FreeDescs # {} /\ nr # INVALID_INODE /\ HasSlot(nr))
        /\ Panic

\* Fault: the descriptor is released although others share it.
do_close_Always(p, i) ==
    LET d == file_desc[p][i]
        s == file_desc_table[d].fd_inode
    IN  /\ Calls(p) /\ d # NULL
        /\ inode_table' = [inode_table EXCEPT ![s] = Put(@, 1)]
        /\ file_desc_table' = [file_desc_table EXCEPT ![d] = NoDesc]
        /\ file_desc' = [file_desc EXCEPT ![p][i] = NULL]
        /\ UNCHANGED <<disk, proc_state, parent, leaked, halted>>

\* A descriptor with n sharers less.
Release(desc, n) == IF desc.fd_cnt = n THEN NoDesc ELSE [desc EXCEPT !.fd_cnt = @ - n]

\* close() of an open descriptor; do_close does not check that it is open.
do_close(p, i) ==
    LET d == file_desc[p][i]
        s == file_desc_table[d].fd_inode
    IN  /\ Calls(p) /\ d # NULL
        /\ inode_table' = [inode_table EXCEPT ![s] = Put(@, 1)]
        /\ file_desc_table' = [file_desc_table EXCEPT ![d] = Release(@, 1)]
        /\ file_desc' = [file_desc EXCEPT ![p][i] = NULL]
        /\ UNCHANGED <<disk, proc_state, parent, leaked, halted>>

\* Reads through a descriptor of the root: the position, and with it the size, may
\* move past the end, one read after the other by any number of bytes.
ReadRoot(p, i) ==
    LET d == file_desc[p][i]
    IN  /\ OpenRoot /\ Calls(p) /\ d # NULL
        /\ inode_table[file_desc_table[d].fd_inode].inode_nr = ROOT_INODE_NR
        /\ ragged' \in BOOLEAN /\ nr_dir_entries' \in nr_dir_entries..MaxRead
        /\ nr_dir_entries' = nr_dir_entries => ragged'
        /\ UNCHANGED <<dir, inode_map, inode_table, file_desc_table, procs, leaked, halted>>

\* stat() takes a reference and gives it back, if there is room in the cache.
do_stat(p, path) ==
    LET nr == get_file_inode_nr(path)
    IN  /\ Calls(p) /\ nr # INVALID_INODE
        /\ IF HasSlot(nr) THEN UNCHANGED vars ELSE Panic

\* Fault: the comparison with the count is off by one.
InUse_OffByOne(nr) == get_file_inode(nr)[SlotOf(nr)].inode_cnt > 2

\* do_unlink's test, after it has taken a reference itself.
InUse(nr) == get_file_inode(nr)[SlotOf(nr)].inode_cnt > 1

\* A file in use or a special one is not removed; the reference stays.
UnlinkRefused(p, path) ==
    LET nr == get_file_inode_nr(path)
    IN  /\ Calls(p) /\ path # "/" /\ nr # INVALID_INODE
        /\ \/ ~HasSlot(nr) /\ Panic
           \/ /\ HasSlot(nr) /\ (nr \in Special \/ InUse(nr))
              /\ \A s \in Slots : leaked[s] < MaxLeak
              /\ leaked' = [leaked EXCEPT ![SlotOf(nr)] = @ + 1]
              /\ inode_table' = get_file_inode(nr)
              /\ UNCHANGED <<disk, file_desc_table, procs, halted>>

\* The inode is released before its entry is looked for, and the assert
\* fails if it is not among the entries counted.
do_unlink(p, path) ==
    LET nr == get_file_inode_nr(path)
    IN  /\ Calls(p) /\ path # "/" /\ nr \notin Special \cup {INVALID_INODE}
        /\ HasSlot(nr) /\ ~InUse(nr)
        /\ inode_map' = inode_map \ {nr}
        /\ inode_table' = [inode_table EXCEPT ![SlotOf(nr)] = Put(get_file_inode(nr)[SlotOf(nr)], 1)]
        /\ IF EntriesOf(nr) # {}
             THEN clear_directory_entry(nr) /\ halted' = halted
             ELSE UNCHANGED <<dir, dirSize>> /\ halted' = "de_found"
        /\ UNCHANGED <<file_desc_table, procs, leaked>>

-----------------------------------------------------------------------------
(* Fork and exit: PM works on one request at a time *)

\* do_fork of PM copies the whole table entry.
PmFork(p, c) ==
    /\ Calls(p) /\ ~Forking /\ proc_state[c] = "free"
    /\ proc_state' = [proc_state EXCEPT ![c] = "copied"]
    /\ file_desc' = [file_desc EXCEPT ![c] = file_desc[p]]
    /\ parent' = p
    /\ UNCHANGED <<disk, inode_table, file_desc_table, leaked, halted>>

\* Pointers of p to descriptor d, and those that lead to cache slot s.
PointersTo(p, d) == Cardinality({i \in Fds : file_desc[p][i] = d})
RefsTo(p, s) == Cardinality({i \in Fds : /\ file_desc[p][i] # NULL
                                         /\ file_desc_table[file_desc[p][i]].fd_inode = s})

\* Fault: the descriptors are not counted again.
fs_fork_NoDescCount(c) ==
    /\ halted = "no" /\ proc_state[c] = "copied"
    /\ proc_state' = [proc_state EXCEPT ![c] = "live"]
    /\ inode_table' = [s \in Slots |->
           [inode_table[s] EXCEPT !.inode_cnt = @ + RefsTo(c, s)]]
    /\ UNCHANGED <<disk, file_desc_table, file_desc, parent, leaked, halted>>

\* FS counts the child's pointers; then PM starts the child.
fs_fork(c) ==
    /\ halted = "no" /\ proc_state[c] = "copied"
    /\ proc_state' = [proc_state EXCEPT ![c] = "live"]
    /\ file_desc_table' = [d \in Descs |->
           [file_desc_table[d] EXCEPT !.fd_cnt = @ + PointersTo(c, d)]]
    /\ inode_table' = [s \in Slots |->
           [inode_table[s] EXCEPT !.inode_cnt = @ + RefsTo(c, s)]]
    /\ UNCHANGED <<disk, file_desc, parent, leaked, halted>>

\* exit(): PM has FS give up every pointer before the slot is released.
fs_exit(p) ==
    /\ Calls(p) /\ ~Forking /\ p # Boot
    /\ proc_state' = [proc_state EXCEPT ![p] = "free"]
    /\ file_desc' = [file_desc EXCEPT ![p] = [i \in Fds |-> NULL]]
    /\ file_desc_table' = [d \in Descs |->
           IF PointersTo(p, d) = 0 THEN file_desc_table[d]
           ELSE Release(file_desc_table[d], PointersTo(p, d))]
    /\ inode_table' = [s \in Slots |->
           IF RefsTo(p, s) = 0 THEN inode_table[s] ELSE Put(inode_table[s], RefsTo(p, s))]
    /\ UNCHANGED <<disk, parent, leaked, halted>>

Next ==
    \E p \in Procs :
        \/ \E path \in Paths : \/ OpenExisting(p, path) \/ OpenPanics(p, path)
                               \/ do_stat(p, path)
                               \/ UnlinkRefused(p, path) \/ do_unlink(p, path)
        \/ \E name \in Names : OpenCreate(p, name)
        \/ \E i \in Fds : do_close(p, i) \/ ReadRoot(p, i)
        \/ \E c \in Procs : PmFork(p, c)
        \/ fs_fork(p) \/ fs_exit(p)

Spec == Init /\ [][Next]_vars

-----------------------------------------------------------------------------
(* Properties *)

\* The processes' pointers to descriptor d that FS knows of.
Holders(d) == {h \in Procs \X Fds : /\ proc_state[h[1]] = "live"
                                    /\ file_desc[h[1]][h[2]] = d}

Sharers(s) == {h \in Procs \X Fds : /\ proc_state[h[1]] = "live"
                                     /\ file_desc[h[1]][h[2]] # NULL
                                     /\ file_desc_table[file_desc[h[1]][h[2]]].fd_inode = s}

\* The references to slot s that no process has.
Unshared(s) == leaked[s] + (IF s = 1 THEN 1 ELSE 0)

\* The counts that open, close, fork, exit and unlink keep.  A descriptor is in
\* use exactly while processes share it, and fd_cnt says how many pointers to it
\* there are (the comment of file_descriptor in fs.h); inode_cnt says how many
\* share the inode, but for the reference init_fs has to the root and those that
\* refused unlinks have left behind.
DescriptorsShared ==
    /\ \A d \in Descs :
          /\ file_desc_table[d].fd_cnt = Cardinality(Holders(d))
          /\ file_desc_table[d].fd_inode = NULL <=> Holders(d) = {}
    /\ \A s \in Slots : inode_table[s].inode_cnt = Cardinality(Sharers(s)) + Unshared(s)

\* do_unlink: no file is removed while a process has it open, not even while
\* PM is copying such a process: every pointer leads to a descriptor in use,
\* a cached inode and an allocated inode number.
OpenFilesExist ==
    \A p \in Procs, i \in Fds :
        file_desc[p][i] # NULL =>
            LET s == file_desc_table[file_desc[p][i]].fd_inode
            IN  s # NULL /\ inode_table[s].inode_cnt > 0
                         /\ inode_table[s].inode_nr \in inode_map

\* get_file_inode: an inode is cached once, so that all who share it see one
\* count and one size.
CachedOnce ==
    \A s, t \in Slots :
        inode_table[s].inode_cnt > 0 /\ inode_table[t].inode_cnt > 0
            /\ inode_table[s].inode_nr = inode_table[t].inode_nr => s = t

\* Every entry of the directory, counted or behind its end, has an allocated inode
\* of its own, whatever creations, unlinks and truncations have done to the size
\* and to the names (make_new_dir_entry, alloc_inode_map_bit, do_unlink).
EntriesOwnInodes ==
    halted = "no" =>
        \A i, j \in Indexes :
            dir[i].inode_nr # INVALID_INODE =>
                /\ dir[i].inode_nr \in inode_map
                /\ i # j => dir[i].inode_nr # dir[j].inode_nr

\* The inode that an open descriptor stands for.
FileOf(p, i) ==
    LET s == file_desc_table[file_desc[p][i]].fd_inode
    IN  IF s = NULL THEN INVALID_INODE ELSE inode_table[s].inode_nr

\* What other processes open, close, unlink or fork never makes an open
\* descriptor of a process stand for another file.
FilesStay ==
    [][\A p \in Procs, i \in Fds :
          file_desc[p][i] # NULL /\ file_desc'[p][i] = file_desc[p][i]
              => FileOf(p, i)' = FileOf(p, i)]_vars

\* clear_directory_entry asserts that it finds the entry of a file that
\* do_unlink has looked up in the same directory ("assert(de_found)").
EntryFound == halted # "de_found"

\* fs.h of inode_cnt: "How many procs share this inode"; init_fs holds the
\* root inode.
InodesShared == \A s \in Slots \ {1} : inode_table[s].inode_cnt = Cardinality(Sharers(s))
=============================================================================
