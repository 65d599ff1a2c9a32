------------------------------ MODULE HardDisk ------------------------------
(***************************************************************************)
(* The hard disk driver: the loop of task_hd (src/task/task_hd.c) and      *)
(* src/device/hd.c, with the drive it programs and the clock its time-outs *)
(* are measured with.  The driver is sequential; what it runs against is   *)
(* the drive (BSY, DRQ, one interrupt per sector), the handler that turns  *)
(* an interrupt into has_int_msg, and the clock interrupt.                 *)
(*                                                                         *)
(* Lengths are counted in sectors: every caller passes a whole number of   *)
(* sectors, at least one (rd_wr_sector, src/task/fs/fs.c).  The client is  *)
(* FS, the only one, which waits for the answer before it sends again.     *)
(***************************************************************************)
EXTENDS Integers, Sequences, FiniteSetsExt

CONSTANTS PRIM,           \* NR_MAX_PRIM_PART_PER_DRIVE
          LOGI,           \* NR_MAX_LOGI_PART_PER_EXT
          MINOR_NR_hd1a,  \* first minor number of a logical partition
          Minors,         \* the minor numbers FS uses
          Disks,          \* what may be on the disk: sector -> partition table
          DISK_SIZE,      \* what IDENTIFY reports, in sectors
          Positions,      \* positions and lengths FS asks for, in sectors
          Counts,
          COUNT_MOD,      \* 2^8: the sector count register
          LBA_MOD,        \* 2^28: the address registers
          HD_TIMEOUT,     \* in ticks
          MAX_TICKS,      \* where sys_ticks wraps to 0
          MaxOpens,       \* bound on open_cnt
          MayFail         \* may the drive stop answering?

ASSUME HardDiskAssumption ==
    /\ PRIM \in Nat \ {0, 1} /\ LOGI \in Nat \ {0} /\ COUNT_MOD \in Nat \ {0}
    /\ MINOR_NR_hd1a \in Nat /\ MINOR_NR_hd1a > 2 * (PRIM + 1) - 1
    /\ LBA_MOD \in Nat \ {0} /\ DISK_SIZE \in 0 .. LBA_MOD
    /\ Minors # {}
    /\ Minors \subseteq (0 .. PRIM) \cup
                        (MINOR_NR_hd1a .. MINOR_NR_hd1a + PRIM * LOGI - 1)
    /\ Positions \subseteq Nat /\ Counts \subseteq Nat \ {0}
    /\ HD_TIMEOUT \in Nat \ {0} /\ MAX_TICKS \in Nat /\ MAX_TICKS > HD_TIMEOUT
    /\ MaxOpens \in Nat /\ MayFail \in BOOLEAN
    /\ \A d \in Disks : \A s \in DOMAIN d : \A i \in 1 .. PRIM :
          d[s][i].start_sect \in Nat /\ d[s][i].nr_sects \in Nat

VARIABLES pc,        \* where the driver is
          req,       \* the message it is working on
          job,       \* what the command in progress is for
          cmd,       \* its cmd_block_reg
          left,      \* bytes_left, in sectors
          moved,     \* what the caller's buffer (the disk) got, in order
          walk,      \* locals of read_primary_ and read_logical_partitions
          open_cnt, primary, logical,  \* hd_info[0]
          t,         \* wait_for_status: the tick it started at
          dsk,       \* the drive (external)
          irq,       \* its interrupt line
          has_int,   \* has_int_msg of TASK_HD, or the message itself
          ticks,     \* sys_ticks
          disk       \* the partition tables on the disk, never written here

hdInfo == <<open_cnt, primary, logical>>
env == <<irq, ticks, disk>>
drvVars == <<pc, req, job, cmd, left, moved, walk, hdInfo, t>>
vars == <<drvVars, dsk, has_int, env>>

NO_PART == "none"
EXT_PART == "extended"
NoEntry == [sys_id |-> NO_PART, start_sect |-> 0, nr_sects |-> 0]
NoPart == [start_sect |-> 0, sect_cnt |-> 0]
TableAt(s) == IF s \in DOMAIN disk THEN disk[s] ELSE [i \in 1 .. PRIM |-> NoEntry]

Transfers == {"DEV_READ", "DEV_WRITE"}
Requests ==
    [type : Transfers, minor : Minors, pos : Positions, cnt : Counts]
    \cup [type : {"DEV_OPEN", "DEV_CLOSE", "DEV_IOCTL"}, minor : Minors,
          pos : {0}, cnt : {0}]

IdleDrive == [bsy |-> FALSE, drq |-> FALSE, op |-> "none", lba |-> 0,
              left |-> 0, first |-> FALSE, stuck |-> FALSE]

TypeOK ==
    /\ pc \in {"recv", "cmd", "int", "data", "drq", "reply", "spin", "panic", "lost"}
    /\ req \in Requests
    /\ job \in {"none", "identify", "primary", "logical", "rw"}
    /\ cmd.op \in {"none", "READ", "WRITE", "IDENTIFY"}
    /\ cmd.count \in 0 .. COUNT_MOD - 1
    /\ left \in Nat /\ open_cnt \in Nat /\ t \in 0 .. MAX_TICKS - 1
    /\ DOMAIN primary = 0 .. PRIM /\ DOMAIN logical = 0 .. PRIM * LOGI - 1
    /\ walk.i \in 1 .. PRIM /\ walk.k \in 0 .. LOGI - 1
    /\ {irq, has_int, dsk.bsy, dsk.drq, dsk.first, dsk.stuck} \subseteq BOOLEAN
    /\ dsk.left \in 0 .. COUNT_MOD /\ dsk.lba \in 0 .. LBA_MOD - 1
    /\ ticks \in 0 .. MAX_TICKS - 1 /\ disk \in Disks

\* hd_init, and a drive that is idle.
hd_init ==
    /\ open_cnt = 0
    /\ primary = [m \in 0 .. PRIM |-> NoPart]
    /\ logical = [m \in 0 .. PRIM * LOGI - 1 |-> NoPart]
    /\ dsk = IdleDrive /\ irq = FALSE /\ has_int = FALSE

Init ==
    /\ hd_init
    /\ pc = "recv" /\ job = "none" /\ left = 0 /\ moved = << >>
    /\ req = [type |-> "DEV_CLOSE", minor |-> CHOOSE m \in Minors : TRUE,
              pos |-> 0, cnt |-> 0]
    /\ cmd = [op |-> "none", lba |-> 0, count |-> 0]
    /\ walk = [tbl |-> << >>, i |-> 1, k |-> 0, ext |-> 0]
    /\ ticks = 0 /\ t = 0 /\ disk \in Disks

-----------------------------------------------------------------------------
(* Device numbers *)

NR_MAX_MINOR_PRIM == 2 * (PRIM + 1) - 1
DRIVE_OF_DEV(m) == IF m <= NR_MAX_MINOR_PRIM
                   THEN m \div (PRIM + 1)
                   ELSE (m - MINOR_NR_hd1a) \div (PRIM * LOGI)
part_of(m) == IF m < NR_MAX_MINOR_PRIM
              THEN primary[m]
              ELSE logical[(m - MINOR_NR_hd1a) % (PRIM * LOGI)]

-----------------------------------------------------------------------------
(* Commands *)

\* Fill a cmd_block_reg (8 bits of count, 28 bits of address) and call
\* hd_cmd_out, which starts by waiting for BSY to go away.
start_cmd(what, op, sect, n) ==
    /\ job' = what
    /\ cmd' = [op |-> op, lba |-> sect % LBA_MOD, count |-> n % COUNT_MOD]
    /\ pc' = "cmd" /\ t' = ticks

\* (in_byte(REG_STATUS) & mask) == val, for DRQ and for the absence of BSY.
StatusIs(drq) == IF drq THEN dsk.drq ELSE ~dsk.bsy

\* Fault: the time-out never comes.
timed_out_Never == FALSE

\* The loop condition of wait_for_status, at the moment TASK_SYS answers get_ticks();
\* sys_ticks may have wrapped.
timed_out == ~(ticks - t < HD_TIMEOUT)

\* What the drive makes of the registers: 0 stands for 256 sectors, and IDENTIFY
\* (whose count hd_identify leaves uninitialized) has one sector of data.
SectorsOf(c) == IF c.op = "IDENTIFY" THEN 1
                ELSE IF c.count = 0 THEN COUNT_MOD ELSE c.count

\* hd_cmd_out: the registers are written, or the system panics.  The status is read
\* some time after TASK_SYS has answered: meanwhile the time may have run out.
hd_cmd_out ==
    /\ pc = "cmd"
    /\ \/ /\ timed_out
          /\ pc' = "panic" /\ UNCHANGED <<t, dsk>>
       \/ /\ StatusIs(FALSE)
          /\ dsk' = [dsk EXCEPT !.bsy = TRUE, !.drq = FALSE, !.op = cmd.op,
                                !.lba = cmd.lba, !.first = TRUE,
                                !.left = SectorsOf(cmd)]
          /\ IF cmd.op = "WRITE" THEN pc' = "drq" /\ t' = ticks
                                 ELSE pc' = "int" /\ UNCHANGED t
    /\ UNCHANGED <<req, job, cmd, left, moved, walk, hdInfo, has_int, env>>

\* The end of one turn of the loop of hd_read_write.
NextSector(more) ==
    /\ left' = left - 1
    /\ IF left - 1 = 0 THEN pc' = "reply" ELSE pc' = more

\* wait_for_hd_int.  A write has moved its sector before, a read does it now.
wait_for_hd_int ==
    /\ pc = "int" /\ has_int
    /\ has_int' = FALSE
    /\ IF cmd.op = "WRITE" THEN NextSector("drq") /\ t' = ticks
                           ELSE pc' = "data" /\ UNCHANGED <<left, t>>
    /\ UNCHANGED <<req, job, cmd, moved, walk, hdInfo, dsk, env>>

\* Fault: the interrupt of the first sector is awaited before it is written.
port_write_WaitFirst ==
    /\ pc = "drq" /\ dsk.drq /\ has_int
    /\ pc' = "int"
    /\ moved' = Append(moved, dsk.lba)
    /\ dsk' = [dsk EXCEPT !.bsy = TRUE, !.drq = FALSE, !.left = @ - 1,
                          !.lba = (@ + 1) % LBA_MOD, !.first = FALSE]
    /\ UNCHANGED <<req, job, cmd, left, walk, hdInfo, t, has_int, env>>

\* A turn of the loop for DEV_WRITE, up to the interrupt.
port_write ==
    /\ pc = "drq"
    /\ \/ /\ timed_out
          /\ pc' = "panic" /\ UNCHANGED <<moved, dsk>>
       \/ /\ StatusIs(TRUE)
          /\ pc' = "int"
          /\ moved' = Append(moved, dsk.lba)
          /\ dsk' = [dsk EXCEPT !.bsy = TRUE, !.drq = FALSE, !.left = @ - 1,
                                !.lba = (@ + 1) % LBA_MOD, !.first = FALSE]
    /\ UNCHANGED <<req, job, cmd, left, walk, hdInfo, t, has_int, env>>

\* get_ticks() is a SEND_RECEIVE to TASK_SYS, in whose queue a sender can be lost
\* (Services!SenderQueued): then the driver waits for ever.
TicksLost ==
    /\ pc \in {"cmd", "drq"} /\ pc' = "lost"
    /\ UNCHANGED <<req, job, cmd, left, moved, walk, hdInfo, t, dsk, has_int, env>>

\* The drive after a sector has been read from its data port.
AfterPortRead ==
    IF ~dsk.drq THEN dsk
    ELSE [dsk EXCEPT !.drq = FALSE, !.bsy = (dsk.left > 1), !.left = @ - 1,
                     !.lba = (@ + 1) % LBA_MOD, !.first = FALSE]

-----------------------------------------------------------------------------
(* Partition tables *)

get_part_table(what, sect) == start_cmd(what, "READ", sect, 1)

\* primary[] once entries i .. j of table tbl have been looked at.
Filled(tbl, i, j) ==
    [m \in 0 .. PRIM |->
       IF m \in i .. j /\ tbl[m].sys_id # NO_PART
       THEN [start_sect |-> tbl[m].start_sect, sect_cnt |-> tbl[m].nr_sects]
       ELSE primary[m]]

\* read_primary_partitions from entry i on, up to the next extended partition,
\* whose chain is then walked, or to the end.
read_primary_partitions(tbl, i) ==
    LET exts == {m \in i .. PRIM : tbl[m].sys_id = EXT_PART}
        j == IF exts = {} THEN PRIM ELSE Min(exts)
    IN  /\ primary' = Filled(tbl, i, j)
        /\ IF exts = {}
           THEN /\ pc' = IF \A m \in 1 .. PRIM : tbl[m].sys_id = NO_PART
                         THEN "panic" ELSE "reply"
                /\ UNCHANGED <<walk, job, cmd, t>>
           ELSE /\ walk' = [tbl |-> tbl, i |-> j, k |-> 0,
                            ext |-> tbl[j].start_sect]
                /\ get_part_table("logical", tbl[j].start_sect)

\* Fault: the primary table is looked for in the shared buffer.
read_logical_partitions_SharedTable ==
    LET e == TableAt(walk.ext)
        d == (walk.i - 1) * LOGI + walk.k
    IN  /\ logical' = [logical EXCEPT ![d] =
                         [start_sect |-> walk.ext + e[1].start_sect,
                          sect_cnt |-> e[1].nr_sects]]
        /\ IF e[2].sys_id # NO_PART /\ walk.k + 1 < LOGI
           THEN /\ walk' = [walk EXCEPT !.k = @ + 1, !.ext = @ + e[2].start_sect]
                /\ get_part_table("logical", walk.ext + e[2].start_sect)
                /\ UNCHANGED primary
           ELSE read_primary_partitions(e, walk.i + 1)

\* A turn of the loop of read_logical_partitions.  The next table is looked for
\* relative to the one just read.
read_logical_partitions ==
    LET e == TableAt(walk.ext)
        d == (walk.i - 1) * LOGI + walk.k
    IN  /\ logical' = [logical EXCEPT ![d] =
                         [start_sect |-> walk.ext + e[1].start_sect,
                          sect_cnt |-> e[1].nr_sects]]
        /\ IF e[2].sys_id # NO_PART /\ walk.k + 1 < LOGI
           THEN /\ walk' = [walk EXCEPT !.k = @ + 1, !.ext = @ + e[2].start_sect]
                /\ get_part_table("logical", walk.ext + e[2].start_sect)
                /\ UNCHANGED primary
           ELSE read_primary_partitions(walk.tbl, walk.i + 1)

\* port_read and what the driver does with the sector.
IdentifyData ==
    /\ pc = "data" /\ job = "identify"
    /\ dsk' = AfterPortRead
    /\ primary' = [primary EXCEPT ![0] = [start_sect |-> 0, sect_cnt |-> DISK_SIZE]]
    /\ open_cnt' = open_cnt + 1
    /\ IF open_cnt = 0
       THEN get_part_table("primary", 0)
       ELSE pc' = "reply" /\ UNCHANGED <<job, cmd, t>>
    /\ UNCHANGED <<req, left, moved, walk, logical, has_int, env>>

PrimaryData ==
    /\ pc = "data" /\ job = "primary"
    /\ dsk' = AfterPortRead
    /\ read_primary_partitions(TableAt(0), 1)
    /\ UNCHANGED <<req, left, moved, open_cnt, logical, has_int, env>>

LogicalData ==
    /\ pc = "data" /\ job = "logical"
    /\ dsk' = AfterPortRead
    /\ read_logical_partitions
    /\ UNCHANGED <<req, left, moved, open_cnt, has_int, env>>

\* Fault: the loop stops one sector early.
ReadData_OneShort ==
    /\ pc = "data" /\ job = "rw"
    /\ dsk' = AfterPortRead
    /\ moved' = Append(moved, dsk.lba)
    /\ left' = left - 1 /\ pc' = IF left - 1 <= 1 THEN "reply" ELSE "int"
    /\ UNCHANGED <<req, job, cmd, walk, hdInfo, t, has_int, env>>

\* A turn of the loop for DEV_READ, behind the interrupt.
ReadData ==
    /\ pc = "data" /\ job = "rw"
    /\ dsk' = AfterPortRead
    /\ moved' = Append(moved, dsk.lba)
    /\ NextSector("int")
    /\ UNCHANGED <<req, job, cmd, walk, hdInfo, t, has_int, env>>

-----------------------------------------------------------------------------
(* The loop of task_hd *)

\* Where FS sends the request: it opens the drive before anything else and
\* closes it no more often than it opened it.
Sendable(r) == IF r.type = "DEV_OPEN" THEN open_cnt < MaxOpens ELSE open_cnt > 0

Begin(r) == req' = r /\ moved' = << >>

hd_open(r) ==
    /\ r.type = "DEV_OPEN" /\ Begin(r)
    /\ IF DRIVE_OF_DEV(r.minor) = 0
       THEN start_cmd("identify", "IDENTIFY", 0, 1)
       ELSE pc' = "panic" /\ UNCHANGED <<job, cmd, t>>
    /\ UNCHANGED <<left, walk, hdInfo, dsk, has_int, env>>

hd_close(r) ==
    /\ r.type = "DEV_CLOSE" /\ Begin(r)
    /\ IF DRIVE_OF_DEV(r.minor) = 0
       THEN open_cnt' = open_cnt - 1 /\ pc' = "reply"
       ELSE pc' = "panic" /\ UNCHANGED open_cnt
    /\ UNCHANGED <<job, cmd, left, walk, primary, logical, t, dsk, has_int, env>>

hd_read_write(r) ==
    /\ r.type \in Transfers /\ Begin(r)
    /\ left' = r.cnt
    /\ start_cmd("rw", IF r.type = "DEV_READ" THEN "READ" ELSE "WRITE",
                 part_of(r.minor).start_sect + r.pos, r.cnt)
    /\ UNCHANGED <<walk, hdInfo, dsk, has_int, env>>

hd_ioctl(r) ==
    /\ r.type = "DEV_IOCTL" /\ req' = r
    /\ moved' = <<part_of(r.minor).start_sect, part_of(r.minor).sect_cnt>>
    /\ pc' = "reply"
    /\ UNCHANGED <<job, cmd, left, walk, hdInfo, t, dsk, has_int, env>>

\* An interrupt message is no request: dump_msg, spin.
UnknownMsg ==
    /\ has_int' = FALSE /\ pc' = "spin"
    /\ UNCHANGED <<req, job, cmd, left, moved, walk, hdInfo, t, dsk, env>>

\* Back to FS; what is in the buffer is no longer the driver's business.
Reply ==
    /\ pc = "reply" /\ pc' = "recv" /\ moved' = << >>
    /\ UNCHANGED <<req, job, cmd, left, walk, hdInfo, t, dsk, has_int, env>>

-----------------------------------------------------------------------------
(* The drive, the interrupt handler and the clock *)

\* The drive is done with what made it busy.  It asks for the first sector of a
\* write without an interrupt, and raises one in every other case.
DriveReady ==
    /\ dsk.bsy /\ ~dsk.stuck
    /\ dsk' = [dsk EXCEPT !.bsy = FALSE, !.drq = (dsk.left > 0)]
    /\ irq' = (irq \/ ~(dsk.op = "WRITE" /\ dsk.first))
    /\ UNCHANGED <<drvVars, has_int, ticks, disk>>

\* The drive hangs with BSY set, idle or at work.  A sector that it offers stays
\* there until it is fetched; an error status changes nothing, as the driver looks
\* at BSY and DRQ only.
DriveFails ==
    /\ MayFail /\ ~dsk.stuck /\ ~dsk.drq
    /\ dsk' = [dsk EXCEPT !.stuck = TRUE, !.bsy = TRUE]
    /\ UNCHANGED <<drvVars, has_int, env>>

\* hd_handler and hw_int_notification: one flag, however many interrupts.
hd_handler ==
    /\ irq /\ irq' = FALSE /\ has_int' = TRUE
    /\ UNCHANGED <<drvVars, dsk, ticks, disk>>

Tick ==
    /\ pc # "panic" /\ pc # "spin"
    /\ ticks' = (ticks + 1) % MAX_TICKS
    /\ UNCHANGED <<drvVars, dsk, irq, has_int, disk>>

\* RECEIVE(ANY) prefers an interrupt to a request.
Receive ==
    /\ pc = "recv"
    /\ IF has_int
       THEN UnknownMsg
       ELSE \E r \in Requests :
              /\ Sendable(r)
              /\ hd_open(r) \/ hd_close(r) \/ hd_read_write(r) \/ hd_ioctl(r)

Poll == hd_cmd_out \/ port_write
Driver == \/ wait_for_hd_int \/ IdentifyData \/ PrimaryData \/ LogicalData
          \/ ReadData \/ Reply

Next == Receive \/ Poll \/ TicksLost \/ Driver \/ DriveReady \/ DriveFails \/ hd_handler \/ Tick

\* The driver runs whenever it can and, unless TASK_SYS has lost it, polls again
\* and again while the clock goes round, many times in a tick: a status or a
\* time-out that keeps coming up is met.  The interrupt line is served, a drive
\* that has not failed finishes, the clock goes on.  FS need not send anything,
\* nor need a get_ticks() come back.
Spec == /\ Init /\ [][Next]_vars
        /\ WF_vars(Driver) /\ SF_vars(Poll) /\ WF_vars(DriveReady)
        /\ WF_vars(hd_handler) /\ WF_vars(Tick)

-----------------------------------------------------------------------------
(* Properties *)

\* The driver and the drive stay in step, although nothing but an interrupt flag
\* tells the driver where the drive is: the data port is read only while the
\* drive offers a sector for this command, and the driver goes back to its loop
\* with the drive at rest, or hung, and no interrupt on its way, since one left over would
\* be taken for a request and the task would spin.
InStep ==
    /\ pc = "data" => dsk.drq /\ ~dsk.bsy /\ dsk.op = cmd.op
    /\ pc \in {"reply", "recv"} =>
         ~has_int /\ ~irq /\ ~dsk.drq /\ (dsk.bsy => dsk.stuck)
    /\ pc # "spin"

\* The partition of a minor number, by the tables on the disk: a table is found
\* relative to the start of the extended partition.  (Third and later logical
\* partitions are left out, see the README.)
Geometry(m) ==
    LET mbr == TableAt(0)
        x == (m - MINOR_NR_hd1a) \div LOGI + 1
        n == (m - MINOR_NR_hd1a) % LOGI
        base == mbr[x].start_sect
        ebr == IF n = 0 THEN base ELSE base + TableAt(base)[2].start_sect
    IN  IF m = 0 THEN [start_sect |-> 0, sect_cnt |-> DISK_SIZE]
        ELSE IF m <= PRIM
        THEN [start_sect |-> mbr[m].start_sect, sect_cnt |-> mbr[m].nr_sects]
        ELSE [start_sect |-> ebr + TableAt(ebr)[1].start_sect,
              sect_cnt |-> TableAt(ebr)[1].nr_sects]

\* A request of one of the minors that exist.
Exists(m) ==
    LET x == (m - MINOR_NR_hd1a) \div LOGI + 1
        n == (m - MINOR_NR_hd1a) % LOGI
        mbr == TableAt(0)
    IN  \/ m = 0
        \/ m \in 1 .. PRIM /\ mbr[m].sys_id # NO_PART
        \/ /\ m > PRIM /\ mbr[x].sys_id = EXT_PART
           /\ n = 0 \/ (n = 1 /\ TableAt(mbr[x].start_sect)[2].sys_id # NO_PART)

\* Whatever is asked for a partition, of the first two of a chain, is answered
\* from the place the tables on the disk give it: the sectors in order, each
\* one once, and for IOCTL_GET_PART the start and the size.
AnsweredFromPartition ==
    pc = "reply" /\ Exists(req.minor) =>
        /\ req.type = "DEV_IOCTL" => moved =
             <<Geometry(req.minor).start_sect, Geometry(req.minor).sect_cnt>>
        /\ req.type \in Transfers =>
             moved = [i \in 1 .. req.cnt |->
                        (Geometry(req.minor).start_sect + req.pos + i - 1) % LBA_MOD]

\* A request for at most 256 sectors is answered, or the system panics because
\* the drive was too slow, unless the drive has failed or TASK_SYS never answers
\* a get_ticks() of the driver.
Served ==
    (pc # "recv" /\ req.cnt <= COUNT_MOD) ~>
        (pc \in {"recv", "panic", "lost"} \/ dsk.stuck)

\* A drive that has failed before a command or before it asked for data is
\* noticed, unless the wait began less than the time-out before the ticks wrap
\* or TASK_SYS never answers a get_ticks() of the driver.
FailureNoticed ==
    (pc \in {"cmd", "drq"} /\ dsk.stuck /\ t + HD_TIMEOUT < MAX_TICKS) ~>
        (pc \in {"panic", "lost"})
=============================================================================
