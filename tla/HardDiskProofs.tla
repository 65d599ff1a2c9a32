--------------------------- MODULE HardDiskProofs ---------------------------
(***************************************************************************)
(* The disk driver and the drive stay in step, and requests are answered   *)
(* from the partition the tables on the disk give, for any tables,         *)
(* lengths, register widths and time-outs.                                 *)
(***************************************************************************)
EXTENDS HardDisk, WellFoundedInduction, TLAPS

Types ==
    /\ pc \in {"recv", "cmd", "int", "data", "drq", "reply", "panic", "lost"}
    /\ job \in {"none", "identify", "primary", "logical", "rw"}
    /\ cmd.op \in {"none", "READ", "WRITE", "IDENTIFY"}
    /\ left \in Nat /\ irq \in BOOLEAN /\ has_int \in BOOLEAN
    /\ dsk = [bsy |-> dsk.bsy, drq |-> dsk.drq, op |-> dsk.op, lba |-> dsk.lba,
              left |-> dsk.left, first |-> dsk.first, stuck |-> dsk.stuck]
    /\ dsk.bsy \in BOOLEAN /\ dsk.drq \in BOOLEAN /\ dsk.first \in BOOLEAN
    /\ dsk.stuck \in BOOLEAN /\ (dsk.stuck => dsk.bsy) /\ (dsk.bsy => ~dsk.drq)
    /\ dsk.left \in Nat

\* No interrupt is on its way, and the drive has nothing to do either, or hangs.
Quiet == ~irq /\ ~has_int
AtRest == Quiet /\ (dsk.bsy => dsk.stuck) /\ ~dsk.drq

\* The sectors that the driver still expects: a table or the answer to IDENTIFY
\* is one, hd_read_write counts bytes_left.
Expected == IF job = "rw" THEN left ELSE 1

\* Exactly one thing announces the interrupt the driver waits for: the drive is
\* busy, or its line is up, or the handler has left the message.  The drive may
\* hang once it has raised the last interrupt of a write.
Announced ==
    \/ dsk.bsy /\ ~dsk.drq /\ Quiet
    \/ (dsk.bsy => dsk.stuck) /\ (dsk.drq <=> dsk.left > 0) /\ ((irq /\ ~has_int) \/ (~irq /\ has_int))

Resting == pc \in {"reply", "recv", "cmd"} => AtRest

WorksOn ==
    pc \in {"cmd", "int", "data", "drq"} => /\ cmd.op = "WRITE" => job = "rw"
                                            /\ Expected > 0
\* The registers never ask the drive for more than the driver will take.
Registers == pc = "cmd" => SectorsOf(cmd) \in Nat /\ 0 < SectorsOf(cmd) /\ SectorsOf(cmd) <= Expected

\* A read of more sectors than the registers hold ends with a drive that is done
\* and a driver that waits.
ReadWaits ==
    pc = "int" /\ cmd.op # "WRITE" =>
        /\ dsk.op = cmd.op /\ dsk.left <= Expected
        /\ (Announced /\ dsk.left > 0) \/ (AtRest /\ job = "rw")

Offered ==
    pc = "data" => /\ cmd.op # "WRITE" /\ dsk.op = cmd.op /\ Quiet
                   /\ ~dsk.bsy /\ dsk.drq /\ 0 < dsk.left /\ dsk.left <= Expected

\* The drive asks for the first sector of a write without an interrupt.
Asked ==
    pc = "drq" => /\ cmd.op = "WRITE" /\ dsk.op = "WRITE" /\ Quiet /\ dsk.left <= left
                  /\ dsk.bsy => dsk.stuck \/ (dsk.first /\ 0 < dsk.left)
                  /\ ~dsk.bsy => (dsk.drq <=> dsk.left > 0)

WriteWaits ==
    pc = "int" /\ cmd.op = "WRITE" =>
        dsk.op = "WRITE" /\ ~dsk.first /\ Announced /\ dsk.left + 1 <= left

DInv == /\ Types /\ Resting /\ WorksOn /\ Registers
        /\ ReadWaits /\ Offered /\ Asked /\ WriteWaits
-----------------------------------------------------------------------------

(* Arithmetic of the registers *)

LEMMA ModBounds ==
    ASSUME NEW n \in Nat \ {0}, NEW m \in Nat \ {0}
    PROVE  /\ n % m \in Nat /\ n % m < m
           /\ n % m = 0 => m <= n
           /\ n % m <= n
<1>1. PICK q \in Int : n = m * q + (n % m)
  <2>1. n \div m \in Int /\ n = m * (n \div m) + (n % m)
    OBVIOUS
  <2> QED BY <2>1
<1>2. n % m \in Nat /\ n % m < m
  OBVIOUS
<1>3. q >= 0
  <2> SUFFICES ASSUME q <= -1 PROVE FALSE
    OBVIOUS
  <2>1. m * q <= m * (-1)
    OBVIOUS
  <2> QED BY <1>1, <1>2, <2>1
<1>4. m * q >= 0
  BY <1>3
<1>5. q >= 1 => m * q >= m
  OBVIOUS
<1> QED BY <1>1, <1>2, <1>3, <1>4, <1>5

\* What the drive makes of n sectors: at least one, and never more than n.
LEMMA SectorsBound ==
    ASSUME NEW op, NEW lba, NEW n \in Nat \ {0}, NEW c,
           c = [op |-> op, lba |-> lba, count |-> n % COUNT_MOD]
    PROVE  SectorsOf(c) \in Nat /\ 0 < SectorsOf(c) /\ SectorsOf(c) <= n
<1>1. COUNT_MOD \in Nat \ {0}
  BY HardDiskAssumption
<1>2. c.op = op /\ c.count = n % COUNT_MOD
  OBVIOUS
<1>3. /\ n % COUNT_MOD \in Nat /\ n % COUNT_MOD <= n
      /\ n % COUNT_MOD = 0 => COUNT_MOD <= n
  BY <1>1, ModBounds
<1> QED BY <1>1, <1>2, <1>3 DEF SectorsOf

-----------------------------------------------------------------------------
(* The invariant *)

LEMMA InitDInv == Init => DInv
<1> SUFFICES ASSUME Init PROVE DInv
  OBVIOUS
<1>1. pc = "recv" /\ job = "none" /\ left = 0 /\ irq = FALSE /\ has_int = FALSE
  BY DEF Init, hd_init
<1>2. cmd.op = "none"
  BY DEF Init
<1>3. /\ dsk.bsy = FALSE /\ dsk.drq = FALSE /\ dsk.first = FALSE /\ dsk.left = 0
      /\ dsk.stuck = FALSE
      /\ dsk = [bsy |-> dsk.bsy, drq |-> dsk.drq, op |-> dsk.op, lba |-> dsk.lba,
                left |-> dsk.left, first |-> dsk.first, stuck |-> dsk.stuck]
  BY DEF Init, hd_init, IdleDrive
<1>4. Types
  <2>1. /\ pc \in {"recv", "cmd", "int", "data", "drq", "reply", "panic", "lost"}
        /\ job \in {"none", "identify", "primary", "logical", "rw"}
        /\ cmd.op \in {"none", "READ", "WRITE", "IDENTIFY"}
    BY <1>1, <1>2
  <2>2. left \in Nat /\ dsk.left \in Nat
    BY <1>1, <1>3
  <2>3. /\ irq \in BOOLEAN /\ has_int \in BOOLEAN
        /\ dsk.bsy \in BOOLEAN /\ dsk.drq \in BOOLEAN /\ dsk.first \in BOOLEAN
        /\ dsk.stuck \in BOOLEAN /\ (dsk.stuck => dsk.bsy) /\ (dsk.bsy => ~dsk.drq)
    BY <1>1, <1>3
  <2> QED BY <1>3, <2>1, <2>2, <2>3, Zenon DEF Types
<1>5. Resting
  BY <1>1, <1>3 DEF Resting, AtRest, Quiet
<1>6. WorksOn /\ Registers /\ ReadWaits /\ Offered /\ Asked /\ WriteWaits
  BY <1>1 DEF WorksOn, Registers, ReadWaits, Offered, Asked, WriteWaits
<1> QED BY <1>4, <1>5, <1>6 DEF DInv

\* The part of Types that is about the drive and the interrupt.
DriveTypes ==
    /\ irq \in BOOLEAN /\ has_int \in BOOLEAN
    /\ dsk = [bsy |-> dsk.bsy, drq |-> dsk.drq, op |-> dsk.op, lba |-> dsk.lba,
              left |-> dsk.left, first |-> dsk.first, stuck |-> dsk.stuck]
    /\ dsk.bsy \in BOOLEAN /\ dsk.drq \in BOOLEAN /\ dsk.first \in BOOLEAN
    /\ dsk.stuck \in BOOLEAN /\ (dsk.stuck => dsk.bsy) /\ (dsk.bsy => ~dsk.drq)
    /\ dsk.left \in Nat

\* The driver is back in its loop.
LEMMA BackAtRest ==
    ASSUME DInv, pc' \in {"reply", "recv"}, job' = job, cmd' = cmd, left' \in Nat,
           DriveTypes', AtRest'
    PROVE  DInv'
<1>1. Types'
  BY DEF DInv, Types, DriveTypes
<1>2. Resting'
  BY DEF Resting
<1>3. WorksOn' /\ Registers' /\ ReadWaits' /\ Offered' /\ Asked' /\ WriteWaits'
  BY DEF WorksOn, Registers, ReadWaits, Offered, Asked, WriteWaits
<1> QED BY <1>1, <1>2, <1>3 DEF DInv

\* The system has stopped.
LEMMA Stopped ==
    ASSUME DInv, pc' \in {"panic", "lost"}, job' = job, cmd' = cmd, left' \in Nat, DriveTypes'
    PROVE  DInv'
<1>1. Types'
  BY DEF DInv, Types, DriveTypes
<1>2. Resting' /\ WorksOn' /\ Registers' /\ ReadWaits' /\ Offered' /\ Asked' /\ WriteWaits'
  BY DEF Resting, WorksOn, Registers, ReadWaits, Offered, Asked, WriteWaits
<1> QED BY <1>1, <1>2 DEF DInv

\* A command begins with the drive at rest.
LEMMA CommandBegins ==
    ASSUME DInv, NEW what \in {"identify", "primary", "logical", "rw"},
           NEW op \in {"READ", "WRITE", "IDENTIFY"}, NEW sect, NEW n \in Nat \ {0},
           start_cmd(what, op, sect, n), op = "WRITE" => what = "rw",
           left' \in Nat, n = (IF what = "rw" THEN left' ELSE 1),
           DriveTypes', AtRest'
    PROVE  DInv'
<1>1. /\ pc' = "cmd" /\ job' = what
      /\ cmd' = [op |-> op, lba |-> sect % LBA_MOD, count |-> n % COUNT_MOD]
  BY DEF start_cmd
<1>2. cmd'.op = op
  BY <1>1
<1>3. SectorsOf(cmd') \in Nat /\ 0 < SectorsOf(cmd') /\ SectorsOf(cmd') <= n
  BY <1>1, SectorsBound
<1>4. Expected' = n
  BY <1>1 DEF Expected
<1>5. Types'
  BY <1>1, <1>2 DEF Types, DriveTypes
<1>6. Resting'
  BY DEF Resting
<1>7. WorksOn'
  BY <1>1, <1>2, <1>4 DEF WorksOn
<1>8. Registers'
  BY <1>3, <1>4 DEF Registers
<1>9. ReadWaits' /\ Offered' /\ Asked' /\ WriteWaits'
  BY <1>1 DEF ReadWaits, Offered, Asked, WriteWaits
<1> QED BY <1>5, <1>6, <1>7, <1>8, <1>9 DEF DInv

-----------------------------------------------------------------------------
(* One lemma per action *)

LEMMA DriveKept ==
    ASSUME DInv, UNCHANGED <<dsk, has_int, irq>>
    PROVE  DriveTypes' /\ (AtRest' <=> AtRest)
BY DEF DInv, Types, DriveTypes, AtRest, Quiet

\* A message arrives while nothing else is going on; none of them is an interrupt.
LEMMA ReceiveStep == DInv /\ Receive => DInv'
<1> SUFFICES ASSUME DInv, Receive PROVE DInv'
  OBVIOUS
<1>1. pc = "recv" /\ AtRest /\ left \in Nat
  BY DEF Receive, DInv, Resting, Types
<1>2. ~has_int
  BY <1>1 DEF AtRest, Quiet
<1>3. PICK r \in Requests : hd_open(r) \/ hd_close(r) \/ hd_read_write(r) \/ hd_ioctl(r)
  BY <1>2 DEF Receive
<1>4. CASE hd_open(r)
  <2>1. left' = left /\ UNCHANGED <<dsk, has_int, irq>>
    BY <1>4 DEF hd_open, env
  <2>2. DriveTypes' /\ AtRest'
    BY <1>1, <2>1, DriveKept
  <2>3. CASE start_cmd("identify", "IDENTIFY", 0, 1)
    BY <1>1, <2>1, <2>2, <2>3, CommandBegins
  <2>4. CASE pc' = "panic" /\ UNCHANGED <<job, cmd, t>>
    BY <1>1, <2>1, <2>2, <2>4, Stopped
  <2> QED BY <1>4, <2>3, <2>4 DEF hd_open
<1>5. CASE hd_close(r)
  <2>1. left' = left /\ UNCHANGED <<dsk, has_int, irq, job, cmd>> /\ pc' \in {"reply", "panic"}
    BY <1>5 DEF hd_close, env
  <2>2. DriveTypes' /\ AtRest'
    BY <1>1, <2>1, DriveKept
  <2> QED BY <1>1, <2>1, <2>2, BackAtRest, Stopped
<1>6. CASE hd_read_write(r)
  <2>1. left' = r.cnt /\ UNCHANGED <<dsk, has_int, irq>> /\ r.type \in Transfers
    BY <1>6 DEF hd_read_write, env
  <2>2. DriveTypes' /\ AtRest'
    BY <1>1, <2>1, DriveKept
  <2>3. r.cnt \in Nat \ {0}
    BY <2>1, HardDiskAssumption DEF Requests, Transfers
  <2>4. PICK op, sect : /\ op = IF r.type = "DEV_READ" THEN "READ" ELSE "WRITE"
                        /\ start_cmd("rw", op, sect, r.cnt)
    BY <1>6 DEF hd_read_write
  <2> QED BY <2>1, <2>2, <2>3, <2>4, CommandBegins
<1>7. CASE hd_ioctl(r)
  <2>1. left' = left /\ UNCHANGED <<dsk, has_int, irq, job, cmd>> /\ pc' = "reply"
    BY <1>7 DEF hd_ioctl, env
  <2>2. DriveTypes' /\ AtRest'
    BY <1>1, <2>1, DriveKept
  <2> QED BY <1>1, <2>1, <2>2, BackAtRest
<1> QED BY <1>3, <1>4, <1>5, <1>6, <1>7

LEMMA ReplyStep == DInv /\ Reply => DInv'
<1> SUFFICES ASSUME DInv, Reply PROVE DInv'
  OBVIOUS
<1>1. pc' = "recv" /\ UNCHANGED <<dsk, has_int, irq, job, cmd, left>> /\ AtRest /\ left \in Nat
  BY DEF Reply, env, DInv, Resting, Types
<1> QED BY <1>1, DriveKept, BackAtRest

\* hd_cmd_out leaves the drive busy with the command.
LEMMA CommandStep == DInv /\ hd_cmd_out => DInv'
<1> SUFFICES ASSUME DInv, hd_cmd_out PROVE DInv'
  OBVIOUS
<1>1. /\ pc = "cmd" /\ UNCHANGED <<job, cmd, left, has_int, irq>>
      /\ AtRest /\ left \in Nat /\ Expected' = Expected
  BY DEF hd_cmd_out, env, DInv, Resting, Types, Expected
<1>2. CASE pc' = "panic" /\ UNCHANGED <<t, dsk>>
  BY <1>1, <1>2, DriveKept, Stopped
<1>3. CASE /\ dsk' = [dsk EXCEPT !.bsy = TRUE, !.drq = FALSE, !.op = cmd.op,
                                 !.lba = cmd.lba, !.first = TRUE, !.left = SectorsOf(cmd)]
           /\ IF cmd.op = "WRITE" THEN pc' = "drq" /\ t' = ticks
                                  ELSE pc' = "int" /\ UNCHANGED t
  <2>1. /\ dsk = [bsy |-> dsk.bsy, drq |-> dsk.drq, op |-> dsk.op, lba |-> dsk.lba,
                  left |-> dsk.left, first |-> dsk.first, stuck |-> dsk.stuck]
        /\ irq \in BOOLEAN /\ has_int \in BOOLEAN /\ dsk.stuck \in BOOLEAN
        /\ SectorsOf(cmd) \in Nat /\ 0 < SectorsOf(cmd) /\ SectorsOf(cmd) <= Expected
        /\ cmd.op = "WRITE" => job = "rw"
        /\ Expected > 0
    BY <1>1 DEF DInv, Types, Registers, WorksOn
  <2>2. dsk' = [bsy |-> TRUE, drq |-> FALSE, op |-> cmd.op, lba |-> cmd.lba,
                left |-> SectorsOf(cmd), first |-> TRUE, stuck |-> dsk.stuck]
    BY <1>3, <2>1
  <2>3. /\ dsk'.bsy = TRUE /\ dsk'.drq = FALSE /\ dsk'.op = cmd.op
        /\ dsk'.left = SectorsOf(cmd) /\ dsk'.first = TRUE /\ dsk'.stuck = dsk.stuck
        /\ dsk' = [bsy |-> dsk'.bsy, drq |-> dsk'.drq, op |-> dsk'.op, lba |-> dsk'.lba,
                   left |-> dsk'.left, first |-> dsk'.first, stuck |-> dsk'.stuck]
    BY <2>2
  <2>4. Quiet'
    BY <1>1 DEF AtRest, Quiet
  <2>5. pc' = "drq" \/ pc' = "int"
    BY <1>3
  <2>6. Types'
    BY <1>1, <2>1, <2>3, <2>5 DEF DInv, Types
  <2>7. Resting' /\ Registers' /\ Offered'
    BY <2>5 DEF Resting, Registers, Offered
  <2>8. WorksOn'
    BY <1>1, <2>1 DEF WorksOn
  <2>9. CASE cmd.op = "WRITE"
    <3>1. pc' = "drq" /\ Expected = left
      BY <1>3, <2>1, <2>9 DEF Expected
    <3>2. Asked'
      BY <1>1, <2>1, <2>3, <2>4, <2>9, <3>1 DEF Asked
    <3>3. ReadWaits' /\ WriteWaits'
      BY <3>1 DEF ReadWaits, WriteWaits
    <3> QED BY <2>6, <2>7, <2>8, <3>2, <3>3 DEF DInv
  <2>10. CASE cmd.op # "WRITE"
    <3>1. pc' = "int"
      BY <1>3, <2>10
    <3>2. ReadWaits'
      BY <1>1, <2>1, <2>3, <2>4 DEF ReadWaits, Announced
    <3>3. Asked' /\ WriteWaits'
      BY <1>1, <2>10, <3>1 DEF Asked, WriteWaits
    <3> QED BY <2>6, <2>7, <2>8, <3>2, <3>3 DEF DInv
  <2> QED BY <2>9, <2>10
<1> QED BY <1>2, <1>3 DEF hd_cmd_out

\* The interrupt: the drive has the next sector of a read, or has taken one of a
\* write and asks for another one, unless that was the last.
LEMMA InterruptStep == DInv /\ wait_for_hd_int => DInv'
<1> SUFFICES ASSUME DInv, wait_for_hd_int PROVE DInv'
  OBVIOUS
<1>1. /\ pc = "int" /\ has_int /\ has_int' = FALSE
      /\ UNCHANGED <<job, cmd, dsk, irq>>
      /\ IF cmd.op = "WRITE" THEN NextSector("drq") /\ t' = ticks
                             ELSE pc' = "data" /\ UNCHANGED <<left, t>>
  BY DEF wait_for_hd_int, env
<1>2. /\ DriveTypes /\ left \in Nat /\ Expected > 0 /\ (cmd.op = "WRITE" => job = "rw")
      /\ job \in {"none", "identify", "primary", "logical", "rw"}
      /\ cmd.op \in {"none", "READ", "WRITE", "IDENTIFY"}
  BY <1>1 DEF DInv, Types, WorksOn, DriveTypes
<1>3. DriveTypes'
  BY <1>1, <1>2 DEF DriveTypes
<1>4. CASE cmd.op # "WRITE"
  <2>1. /\ dsk.op = cmd.op /\ dsk.left <= Expected /\ 0 < dsk.left /\ ~irq /\ ~dsk.bsy /\ dsk.drq
    BY <1>1, <1>2, <1>4 DEF DInv, ReadWaits, Announced, AtRest, Quiet, DriveTypes
  <2>2. pc' = "data" /\ left' = left /\ Expected' = Expected
    BY <1>1, <1>4 DEF Expected
  <2>3. Types'
    BY <1>1, <1>2, <1>3, <2>2 DEF Types, DriveTypes
  <2>4. Offered'
    BY <1>1, <1>4, <2>1, <2>2 DEF Offered, Quiet
  <2>5. WorksOn'
    BY <1>1, <1>2, <2>2 DEF WorksOn
  <2>6. Resting' /\ Registers' /\ ReadWaits' /\ Asked' /\ WriteWaits'
    BY <2>2 DEF Resting, Registers, ReadWaits, Asked, WriteWaits
  <2> QED BY <2>3, <2>4, <2>5, <2>6 DEF DInv
<1>5. CASE cmd.op = "WRITE"
  <2>1. /\ ~irq /\ (dsk.bsy => dsk.stuck) /\ (dsk.drq <=> dsk.left > 0) /\ dsk.left + 1 <= left
        /\ job = "rw" /\ dsk.left \in Nat /\ dsk.op = "WRITE"
    BY <1>1, <1>2, <1>5 DEF DInv, WriteWaits, Announced, Quiet, DriveTypes
  <2>2. left' = left - 1 /\ left' \in Nat
    BY <1>1, <1>2, <1>5, <2>1 DEF NextSector
  <2>3. CASE left - 1 = 0
    <3>1. pc' = "reply" /\ dsk.left = 0
      BY <1>1, <1>2, <1>5, <2>1, <2>3 DEF NextSector
    <3>2. AtRest'
      BY <1>1, <2>1, <3>1 DEF AtRest, Quiet
    <3> QED BY <1>1, <1>3, <2>2, <3>1, <3>2, BackAtRest
  <2>4. CASE left - 1 # 0
    <3>1. pc' = "drq" /\ left' > 0 /\ dsk.left <= left'
      BY <1>1, <1>2, <1>5, <2>1, <2>2, <2>4 DEF NextSector
    <3>2. Expected' = left'
      BY <1>1, <2>1 DEF Expected
    <3>3. Types'
      BY <1>1, <1>2, <1>3, <2>2, <3>1 DEF Types, DriveTypes
    <3>4. WorksOn'
      BY <1>1, <1>2, <3>1, <3>2 DEF WorksOn
    <3>5. Asked'
      BY <1>1, <1>5, <2>1, <3>1 DEF Asked, Quiet
    <3>6. Resting' /\ Registers' /\ ReadWaits' /\ Offered' /\ WriteWaits'
      BY <3>1 DEF Resting, Registers, ReadWaits, Offered, WriteWaits
    <3> QED BY <3>3, <3>4, <3>5, <3>6 DEF DInv
  <2> QED BY <2>3, <2>4
<1> QED BY <1>4, <1>5

\* A sector is written while the drive asks for one.
LEMMA WriteStep == DInv /\ port_write => DInv'
<1> SUFFICES ASSUME DInv, port_write PROVE DInv'
  OBVIOUS
<1>1. /\ pc = "drq" /\ UNCHANGED <<job, cmd, left, has_int, irq>>
      /\ left \in Nat /\ DriveTypes /\ Expected > 0 /\ Expected' = Expected
      /\ job \in {"none", "identify", "primary", "logical", "rw"}
  BY DEF port_write, env, DInv, Types, WorksOn, DriveTypes, Expected
<1>2. CASE pc' = "panic" /\ UNCHANGED <<moved, dsk>>
  BY <1>1, <1>2, DriveKept, Stopped
<1>3. CASE /\ StatusIs(TRUE) /\ pc' = "int"
           /\ dsk' = [dsk EXCEPT !.bsy = TRUE, !.drq = FALSE, !.left = @ - 1,
                                 !.lba = (@ + 1) % LBA_MOD, !.first = FALSE]
  <2>1. /\ cmd.op = "WRITE" /\ dsk.op = "WRITE" /\ Quiet /\ dsk.left <= left /\ job = "rw"
        /\ dsk.drq /\ ~dsk.bsy /\ dsk.left > 0
    BY <1>1, <1>3 DEF DInv, Asked, WorksOn, StatusIs, DriveTypes
  <2>2. dsk' = [bsy |-> TRUE, drq |-> FALSE, op |-> dsk.op, lba |-> (dsk.lba + 1) % LBA_MOD,
                left |-> dsk.left - 1, first |-> FALSE, stuck |-> dsk.stuck]
    BY <1>1, <1>3 DEF DriveTypes
  <2>3. /\ dsk'.bsy = TRUE /\ dsk'.drq = FALSE /\ dsk'.op = dsk.op
        /\ dsk'.left = dsk.left - 1 /\ dsk'.first = FALSE /\ dsk'.stuck = dsk.stuck
        /\ dsk' = [bsy |-> dsk'.bsy, drq |-> dsk'.drq, op |-> dsk'.op, lba |-> dsk'.lba,
                   left |-> dsk'.left, first |-> dsk'.first, stuck |-> dsk'.stuck]
    BY <2>2
  <2>4. dsk'.left \in Nat /\ dsk'.left + 1 <= left
    BY <1>1, <2>1, <2>3 DEF DriveTypes
  <2>5. Types'
    BY <1>1, <1>3, <2>1, <2>3, <2>4 DEF Types, DriveTypes
  <2>6. WriteWaits'
    BY <1>1, <2>1, <2>3, <2>4 DEF WriteWaits, Announced, Quiet
  <2>7. WorksOn'
    BY <1>1, <2>1 DEF WorksOn
  <2>8. Resting' /\ Registers' /\ ReadWaits' /\ Offered' /\ Asked'
    BY <1>1, <1>3, <2>1 DEF Resting, Registers, ReadWaits, Offered, Asked
  <2> QED BY <2>5, <2>6, <2>7, <2>8 DEF DInv
<1> QED BY <1>2, <1>3 DEF port_write

\* The drive once a sector has been read.
LEMMA PortRead ==
    ASSUME DInv, pc = "data", dsk' = AfterPortRead, UNCHANGED <<has_int, irq>>
    PROVE  /\ DriveTypes' /\ Quiet' /\ ~dsk'.drq /\ dsk'.op = dsk.op
           /\ dsk.left \in Nat /\ dsk.left > 0 /\ dsk.left <= Expected
           /\ dsk'.left = dsk.left - 1 /\ (dsk'.bsy <=> dsk.left > 1)
<1>1. /\ dsk.drq /\ ~dsk.bsy /\ Quiet /\ 0 < dsk.left /\ dsk.left <= Expected /\ DriveTypes
  BY DEF DInv, Types, Offered, DriveTypes
<1>2. dsk' = [bsy |-> (dsk.left > 1), drq |-> FALSE, op |-> dsk.op,
              lba |-> (dsk.lba + 1) % LBA_MOD,
              left |-> dsk.left - 1, first |-> FALSE, stuck |-> dsk.stuck]
  BY <1>1 DEF AfterPortRead, DriveTypes
<1>3. /\ dsk'.bsy = (dsk.left > 1) /\ dsk'.drq = FALSE /\ dsk'.op = dsk.op
      /\ dsk'.left = dsk.left - 1 /\ dsk'.first = FALSE /\ dsk'.stuck = dsk.stuck
      /\ dsk' = [bsy |-> dsk'.bsy, drq |-> dsk'.drq, op |-> dsk'.op, lba |-> dsk'.lba,
                 left |-> dsk'.left, first |-> dsk'.first, stuck |-> dsk'.stuck]
  BY <1>2
<1>4. dsk'.left \in Nat
  BY <1>1, <1>3 DEF DriveTypes
<1>5. Quiet'
  BY <1>1 DEF Quiet
<1>6. DriveTypes'
  <2>1. dsk'.bsy \in BOOLEAN
    BY <1>3
  <2>2. irq' \in BOOLEAN /\ has_int' \in BOOLEAN /\ dsk'.drq \in BOOLEAN /\ dsk'.first \in BOOLEAN
    BY <1>1, <1>3 DEF DriveTypes
  <2>3. dsk'.stuck = FALSE /\ ~dsk'.drq
    BY <1>1, <1>3 DEF DriveTypes
  <2> QED BY <1>3, <1>4, <2>1, <2>2, <2>3 DEF DriveTypes
<1> QED BY <1>1, <1>3, <1>5, <1>6 DEF DriveTypes

\* Behind a table or the answer to IDENTIFY there is nothing to come.
LEMMA OneSectorRead ==
    ASSUME DInv, pc = "data", job # "rw", dsk' = AfterPortRead, UNCHANGED <<has_int, irq>>
    PROVE  DriveTypes' /\ AtRest'
<1>1. /\ DriveTypes' /\ Quiet' /\ ~dsk'.drq
      /\ dsk.left \in Nat /\ dsk.left > 0 /\ dsk.left <= Expected
      /\ dsk'.bsy <=> dsk.left > 1
  BY PortRead
<1>2. ~dsk'.bsy
  BY <1>1 DEF Expected
<1> QED BY <1>1, <1>2 DEF AtRest

LEMMA PrimaryGoesOn ==
    ASSUME DInv, NEW tbl, NEW i, read_primary_partitions(tbl, i), left' = left,
           DriveTypes', AtRest'
    PROVE  DInv'
<1>0. left \in Nat
  BY DEF DInv, Types
<1>1. CASE pc' \in {"panic", "reply"} /\ UNCHANGED <<walk, job, cmd, t>>
  BY <1>0, <1>1, Stopped, BackAtRest
<1>2. ASSUME NEW sect, get_part_table("logical", sect) PROVE DInv'
  BY <1>0, <1>2, CommandBegins DEF get_part_table
<1> QED BY <1>1, <1>2 DEF read_primary_partitions

LEMMA IdentifyStep == DInv /\ IdentifyData => DInv'
<1> SUFFICES ASSUME DInv, IdentifyData PROVE DInv'
  OBVIOUS
<1>1. /\ DriveTypes' /\ AtRest' /\ left' = left /\ left \in Nat
  BY OneSectorRead DEF IdentifyData, env, DInv, Types
<1>2. CASE get_part_table("primary", 0)
  BY <1>1, <1>2, CommandBegins DEF get_part_table
<1>3. CASE pc' = "reply" /\ UNCHANGED <<job, cmd, t>>
  BY <1>1, <1>3, BackAtRest
<1> QED BY <1>2, <1>3 DEF IdentifyData

LEMMA PrimaryStep == DInv /\ PrimaryData => DInv'
<1> SUFFICES ASSUME DInv, PrimaryData PROVE DInv'
  OBVIOUS
<1>1. DriveTypes' /\ AtRest' /\ left' = left
  BY OneSectorRead DEF PrimaryData, env
<1> QED BY <1>1, PrimaryGoesOn DEF PrimaryData

LEMMA LogicalStep == DInv /\ LogicalData => DInv'
<1> SUFFICES ASSUME DInv, LogicalData PROVE DInv'
  OBVIOUS
<1>1. DriveTypes' /\ AtRest' /\ left' = left /\ left \in Nat
  BY OneSectorRead DEF LogicalData, env, DInv, Types
<1>2. ASSUME NEW sect, get_part_table("logical", sect) PROVE DInv'
  BY <1>1, <1>2, CommandBegins DEF get_part_table
<1>3. CASE read_primary_partitions(walk.tbl, walk.i + 1)
  BY <1>1, <1>3, PrimaryGoesOn
<1> QED BY <1>2, <1>3 DEF LogicalData, read_logical_partitions

\* A sector of a read: the drive is busy with the next one, or done.
LEMMA ReadStep == DInv /\ ReadData => DInv'
<1> SUFFICES ASSUME DInv, ReadData PROVE DInv'
  OBVIOUS
<1>1. /\ pc = "data" /\ job = "rw" /\ UNCHANGED <<job, cmd, has_int, irq>>
      /\ NextSector("int") /\ dsk' = AfterPortRead
      /\ left \in Nat /\ cmd.op # "WRITE" /\ dsk.op = cmd.op
      /\ cmd.op \in {"none", "READ", "WRITE", "IDENTIFY"}
  BY DEF ReadData, env, DInv, Types, Offered
<1>2. /\ DriveTypes' /\ Quiet' /\ ~dsk'.drq /\ dsk'.op = dsk.op
      /\ dsk.left \in Nat /\ dsk.left > 0 /\ dsk.left <= Expected
      /\ dsk'.left = dsk.left - 1 /\ (dsk'.bsy <=> dsk.left > 1)
  BY <1>1, PortRead
<1>3. Expected = left /\ Expected' = left'
  BY <1>1 DEF Expected
<1>4. left' = left - 1 /\ left' \in Nat
  BY <1>1, <1>2, <1>3 DEF NextSector
<1>5. CASE left - 1 = 0
  <2>1. pc' = "reply" /\ ~(dsk.left > 1)
    BY <1>1, <1>2, <1>3, <1>5 DEF NextSector
  <2>2. AtRest'
    BY <1>2, <2>1 DEF AtRest
  <2> QED BY <1>1, <1>2, <1>4, <2>1, <2>2, BackAtRest
<1>6. CASE left - 1 # 0
  <2>1. pc' = "int" /\ left' > 0 /\ dsk'.left <= left'
    BY <1>1, <1>2, <1>3, <1>4, <1>6 DEF NextSector
  <2>2. Types'
    BY <1>1, <1>2, <1>4, <2>1 DEF Types, DriveTypes
  <2>3. WorksOn'
    BY <1>1, <1>3, <2>1 DEF WorksOn
  <2>4. ReadWaits'
    <3>1. CASE dsk.left > 1
      <4>1. dsk'.left > 0 /\ dsk'.bsy
        BY <1>2, <3>1
      <4> QED BY <1>1, <1>2, <1>3, <2>1, <4>1 DEF ReadWaits, Announced
    <3>2. CASE ~(dsk.left > 1)
      BY <1>1, <1>2, <1>3, <2>1, <3>2 DEF ReadWaits, AtRest
    <3> QED BY <3>1, <3>2
  <2>5. Resting' /\ Registers' /\ Offered' /\ Asked' /\ WriteWaits'
    BY <1>1, <2>1 DEF Resting, Registers, Offered, Asked, WriteWaits
  <2> QED BY <2>2, <2>3, <2>4, <2>5 DEF DInv
<1> QED BY <1>5, <1>6

\* The drive is done: it raises the interrupt the driver waits for, if it does.
LEMMA DriveReadyStep == DInv /\ DriveReady => DInv'
<1> SUFFICES ASSUME DInv, DriveReady PROVE DInv'
  OBVIOUS
<1>1. /\ UNCHANGED <<pc, job, cmd, left, has_int>> /\ dsk.bsy /\ ~dsk.stuck
      /\ dsk' = [dsk EXCEPT !.bsy = FALSE, !.drq = (dsk.left > 0)]
      /\ irq' = (irq \/ ~(dsk.op = "WRITE" /\ dsk.first))
  BY DEF DriveReady, drvVars
<1>2. DriveTypes /\ Types
  BY DEF DInv, Types, DriveTypes
<1>3. dsk' = [bsy |-> FALSE, drq |-> (dsk.left > 0), op |-> dsk.op, lba |-> dsk.lba,
              left |-> dsk.left, first |-> dsk.first, stuck |-> dsk.stuck]
  BY <1>1, <1>2 DEF DriveTypes
<1>4. /\ dsk'.bsy = FALSE /\ dsk'.drq = (dsk.left > 0) /\ dsk'.op = dsk.op
      /\ dsk'.left = dsk.left /\ dsk'.first = dsk.first /\ dsk'.stuck = dsk.stuck
      /\ dsk' = [bsy |-> dsk'.bsy, drq |-> dsk'.drq, op |-> dsk'.op, lba |-> dsk'.lba,
                 left |-> dsk'.left, first |-> dsk'.first, stuck |-> dsk'.stuck]
  BY <1>3
<1>5. ~dsk'.bsy /\ (dsk'.drq <=> dsk'.left > 0)
  BY <1>4
<1>6. Types'
  <2>1. dsk'.drq \in BOOLEAN /\ irq' \in BOOLEAN
    BY <1>1, <1>4
  <2> QED BY <1>1, <1>2, <1>4, <2>1 DEF Types
<1>7. Expected' = Expected
  BY <1>1 DEF Expected
<1>8. pc \notin {"reply", "recv", "cmd", "data"}
  BY <1>1 DEF DInv, Resting, AtRest, Offered
<1>9. Resting' /\ Registers' /\ Offered'
  BY <1>1, <1>8 DEF Resting, Registers, Offered
<1>10. WorksOn'
  BY <1>1, <1>7 DEF DInv, WorksOn
<1>11. ReadWaits'
  <2> SUFFICES ASSUME pc = "int", cmd.op # "WRITE" PROVE ReadWaits'
    BY <1>1 DEF ReadWaits
  <2>1. dsk.op = cmd.op /\ dsk.left <= Expected /\ Announced /\ dsk.left > 0
    BY <1>1 DEF DInv, ReadWaits, AtRest
  <2>2. ~has_int /\ irq'
    BY <1>1, <2>1 DEF Announced, Quiet
  <2>3. Announced'
    BY <1>1, <1>5, <2>2 DEF Announced
  <2> QED BY <1>1, <1>4, <1>7, <2>1, <2>3 DEF ReadWaits
<1>12. WriteWaits'
  <2> SUFFICES ASSUME pc = "int", cmd.op = "WRITE" PROVE WriteWaits'
    BY <1>1 DEF WriteWaits
  <2>1. dsk.op = "WRITE" /\ ~dsk.first /\ Announced /\ dsk.left + 1 <= left
    BY DEF DInv, WriteWaits
  <2>2. ~has_int /\ irq'
    BY <1>1, <2>1 DEF Announced, Quiet
  <2>3. Announced'
    BY <1>1, <1>5, <2>2 DEF Announced
  <2> QED BY <1>1, <1>4, <2>1, <2>3 DEF WriteWaits
<1>13. Asked'
  <2> SUFFICES ASSUME pc = "drq" PROVE Asked'
    BY <1>1 DEF Asked
  <2>1. cmd.op = "WRITE" /\ dsk.op = "WRITE" /\ Quiet /\ dsk.left <= left /\ dsk.first
    BY <1>1 DEF DInv, Asked
  <2>2. Quiet'
    BY <1>1, <2>1 DEF Quiet
  <2> QED BY <1>1, <1>4, <1>5, <2>1, <2>2 DEF Asked
<1> QED BY <1>6, <1>9, <1>10, <1>11, <1>12, <1>13 DEF DInv

\* The drive hangs: it was at rest, or at work, or done with a write whose last
\* interrupt is on its way.
LEMMA DriveFailsStep == DInv /\ DriveFails => DInv'
<1> SUFFICES ASSUME DInv, DriveFails PROVE DInv'
  OBVIOUS
<1>1. /\ UNCHANGED <<pc, job, cmd, left, has_int, irq>> /\ ~dsk.stuck /\ ~dsk.drq
      /\ dsk' = [dsk EXCEPT !.stuck = TRUE, !.bsy = TRUE]
  BY DEF DriveFails, drvVars, env
<1>2. /\ dsk'.bsy = TRUE /\ dsk'.stuck = TRUE /\ dsk'.drq = dsk.drq /\ dsk'.op = dsk.op
      /\ dsk'.left = dsk.left /\ dsk'.first = dsk.first
      /\ dsk' = [bsy |-> dsk'.bsy, drq |-> dsk'.drq, op |-> dsk'.op, lba |-> dsk'.lba,
                 left |-> dsk'.left, first |-> dsk'.first, stuck |-> dsk'.stuck]
  <2>1. dsk' = [bsy |-> TRUE, drq |-> dsk.drq, op |-> dsk.op, lba |-> dsk.lba,
                left |-> dsk.left, first |-> dsk.first, stuck |-> TRUE]
    BY <1>1 DEF DInv, Types
  <2> QED BY <2>1
<1>3. Types' /\ Expected' = Expected
  BY <1>1, <1>2 DEF DInv, Types, Expected
<1>4. AtRest => AtRest'
  BY <1>1, <1>2 DEF AtRest, Quiet
<1>5. Announced => Announced'
  BY <1>1, <1>2 DEF Announced, Quiet
<1>6. Resting'
  BY <1>1, <1>4 DEF DInv, Resting
<1>7. WorksOn' /\ Registers'
  BY <1>1, <1>3 DEF DInv, WorksOn, Registers
<1>8. ReadWaits'
  BY <1>1, <1>2, <1>3, <1>4, <1>5 DEF DInv, ReadWaits
<1>9. Offered'
  BY <1>1 DEF DInv, Offered
<1>10. Asked'
  BY <1>1, <1>2 DEF DInv, Asked, Quiet
<1>11. WriteWaits'
  BY <1>1, <1>2, <1>5 DEF DInv, WriteWaits
<1> QED BY <1>3, <1>6, <1>7, <1>8, <1>9, <1>10, <1>11 DEF DInv

\* The handler runs only while the driver waits for the interrupt.
LEMMA HandlerStep == DInv /\ hd_handler => DInv'
<1> SUFFICES ASSUME DInv, hd_handler PROVE DInv'
  OBVIOUS
<1>1. /\ UNCHANGED <<pc, job, cmd, left, dsk>> /\ irq /\ irq' = FALSE /\ has_int' = TRUE
  BY DEF hd_handler, drvVars
<1>2. pc \notin {"reply", "recv", "cmd", "data", "drq"}
  BY <1>1 DEF DInv, Resting, AtRest, Offered, Asked, Quiet
<1>3. Types'
  BY <1>1 DEF DInv, Types
<1>4. Announced => Announced'
  BY <1>1 DEF Announced, Quiet
<1>5. ~AtRest
  BY <1>1 DEF AtRest, Quiet
<1>6. ReadWaits' /\ WriteWaits'
  BY <1>1, <1>4, <1>5 DEF DInv, ReadWaits, WriteWaits, Expected
<1>7. Resting' /\ Registers' /\ Offered' /\ Asked'
  BY <1>1, <1>2 DEF Resting, Registers, Offered, Asked
<1>8. WorksOn'
  BY <1>1 DEF DInv, WorksOn, Expected
<1> QED BY <1>3, <1>6, <1>7, <1>8 DEF DInv

\* The clock, and steps that change nothing here.
LEMMA OtherStep ==
    ASSUME DInv, UNCHANGED <<pc, job, cmd, left, dsk, has_int, irq>>
    PROVE  DInv'
BY DEF DInv, Types, Resting, WorksOn, Registers, ReadWaits, Offered, Asked, WriteWaits,
       Expected, AtRest, Quiet, Announced

\* get_ticks() does not come back.
LEMMA LostStep == DInv /\ TicksLost => DInv'
<1> SUFFICES ASSUME DInv, TicksLost PROVE DInv'
  OBVIOUS
<1>1. pc' = "lost" /\ UNCHANGED <<dsk, has_int, irq, job, cmd, left>> /\ left \in Nat
  BY DEF TicksLost, env, DInv, Types
<1> QED BY <1>1, DriveKept, Stopped

LEMMA NextDInv == DInv /\ [Next]_vars => DInv'
<1> SUFFICES ASSUME DInv, [Next]_vars PROVE DInv'
  OBVIOUS
<1>1. CASE Driver
  BY <1>1, InterruptStep, IdentifyStep, PrimaryStep, LogicalStep, ReadStep, ReplyStep DEF Driver
<1>2. CASE Tick
  <2>1. UNCHANGED <<pc, job, cmd, left, dsk, has_int, irq>>
    BY <1>2 DEF Tick, drvVars
  <2> QED BY <2>1, OtherStep
<1>3. CASE UNCHANGED vars
  <2>1. UNCHANGED <<pc, job, cmd, left, dsk, has_int, irq>>
    BY <1>3 DEF vars, drvVars, env
  <2> QED BY <2>1, OtherStep
<1> QED BY <1>1, <1>2, <1>3, ReceiveStep, CommandStep, WriteStep, LostStep, DriveReadyStep,
          DriveFailsStep, HandlerStep DEF Next, Poll

-----------------------------------------------------------------------------
(* The invariant: where partitions are, and what a transfer has moved *)

Mbr == TableAt(0)
Primary(i) == [start_sect |-> Mbr[i].start_sect, sect_cnt |-> Mbr[i].nr_sects]
Logical(s) == [start_sect |-> s + TableAt(s)[1].start_sect, sect_cnt |-> TableAt(s)[1].nr_sects]

\* The first two tables of the chain of the i-th partition, and whether they are there.
Link(i, k) ==
    IF k = 0 THEN Mbr[i].start_sect
             ELSE Mbr[i].start_sect + TableAt(Mbr[i].start_sect)[2].start_sect
HasLink(i, k) ==
    k = 0 \/ (k = 1 /\ TableAt(Mbr[i].start_sect)[2].sys_id # NO_PART)

PrimaryKnown(n) ==
    \A i \in 1 .. n : Mbr[i].sys_id # NO_PART => primary[i] = Primary(i)
ChainKnown(i, n) ==
    \A k \in 0 .. LOGI - 1 :
        k < n /\ HasLink(i, k) => logical[(i - 1) * LOGI + k] = Logical(Link(i, k))
ChainsKnown(n) ==
    \A i \in 1 .. n : Mbr[i].sys_id = EXT_PART => ChainKnown(i, LOGI)

Places == [start_sect : Nat, sect_cnt : Nat]

InfoTypes ==
    /\ primary \in [0 .. PRIM -> Places] /\ logical \in [0 .. PRIM * LOGI - 1 -> Places]
    /\ open_cnt \in Nat /\ disk \in Disks /\ req \in Requests

InCommand == pc \in {"cmd", "int", "data", "drq"}
ReadsTables == InCommand /\ job \in {"primary", "logical"}

\* The entries of hd_info that the tables read so far say something about.
DriveKnown == open_cnt > 0 => primary[0] = [start_sect |-> 0, sect_cnt |-> DISK_SIZE]

WalkKnows ==
    ReadsTables /\ job = "logical" =>
        /\ walk.tbl = Mbr /\ walk.i \in 1 .. PRIM /\ walk.k \in 0 .. LOGI - 1
        /\ walk = [tbl |-> walk.tbl, i |-> walk.i, k |-> walk.k, ext |-> walk.ext]
        /\ walk.ext \in Nat /\ (walk.k \in {0, 1} => walk.ext = Link(walk.i, walk.k))
        /\ Mbr[walk.i].sys_id = EXT_PART
        /\ PrimaryKnown(walk.i) /\ ChainsKnown(walk.i - 1) /\ ChainKnown(walk.i, walk.k)

\* The system has stopped, or the driver waits for TASK_SYS for ever.
Halted == pc \in {"panic", "lost"}

TablesKnown ==
    open_cnt > 0 /\ ~ReadsTables /\ ~Halted => PrimaryKnown(PRIM) /\ ChainsKnown(PRIM)

\* What the command in progress is for.
Serving ==
    /\ InCommand => IF job = "rw"
                    THEN /\ req.type \in Transfers
                         /\ cmd.op = "WRITE" <=> req.type = "DEV_WRITE"
                    ELSE req.type = "DEV_OPEN"
    /\ ReadsTables \/ (InCommand /\ job = "rw") => open_cnt > 0
    /\ pc = "reply" /\ req.type # "DEV_CLOSE" => open_cnt > 0

\* The sectors moved so far, and the address the drive is at.
First == part_of(req.minor).start_sect + req.pos
Copied(n) ==
    /\ moved \in Seq(Nat) /\ Len(moved) = n
    /\ \A i \in 1 .. n : moved[i] = (First + i - 1) % LBA_MOD
Count == IF pc = "int" /\ cmd.op = "WRITE" THEN req.cnt - left + 1 ELSE req.cnt - left
Progress ==
    InCommand /\ job = "rw" =>
        /\ left <= req.cnt /\ Copied(Count)
        /\ IF pc = "cmd" THEN left = req.cnt /\ cmd.lba = First % LBA_MOD
                         ELSE dsk.lba = (First + Count) % LBA_MOD

Answered ==
    pc = "reply" =>
        /\ req.type \in Transfers => Copied(req.cnt)
        /\ req.type = "DEV_IOCTL" =>
              moved = <<part_of(req.minor).start_sect, part_of(req.minor).sect_cnt>>

\* Holds together with DInv.
GInv == /\ InfoTypes /\ DriveKnown /\ WalkKnows /\ TablesKnown
        /\ Serving /\ Progress /\ Answered
-----------------------------------------------------------------------------
(* Arithmetic of addresses and of minor numbers *)

LEMMA Divided ==
    ASSUME NEW a \in Nat, NEW m \in Nat \ {0}
    PROVE  a \div m \in Int /\ a % m \in 0 .. m - 1 /\ a = m * (a \div m) + (a % m)
OBVIOUS

\* The address registers count on modulo their width.
LEMMA NextAddress ==
    ASSUME NEW a \in Nat, NEW m \in Nat \ {0}
    PROVE  a % m \in Nat /\ ((a % m) + 1) % m = (a + 1) % m
<1>1. PICK q \in Int : a = m * q + (a % m)
  <2>1. a \div m \in Int /\ a = m * (a \div m) + (a % m)
    OBVIOUS
  <2> QED BY <2>1
<1>2. a % m \in Nat /\ a % m < m
  OBVIOUS
<1> DEFINE r == a % m
<1>3. CASE r + 1 < m
  <2>1. (r + 1) % m = r + 1
    BY <1>2, <1>3
  <2>2. PICK p \in Int : a + 1 = m * p + ((a + 1) % m)
    <3>1. (a + 1) \div m \in Int /\ a + 1 = m * ((a + 1) \div m) + ((a + 1) % m)
      OBVIOUS
    <3> QED BY <3>1
  <2>3. (a + 1) % m \in Nat /\ (a + 1) % m < m
    OBVIOUS
  <2>4. m * (p - q) = r + 1 - ((a + 1) % m)
    BY <1>1, <1>2, <2>2, <2>3
  <2>5. -m < m * (p - q) /\ m * (p - q) < m
    BY <1>2, <1>3, <2>3, <2>4
  <2>6. p - q = 0
    <3>1. p - q >= 1 => m * (p - q) >= m
      OBVIOUS
    <3>2. p - q <= -1 => m * (p - q) <= -m
      OBVIOUS
    <3> QED BY <2>5, <3>1, <3>2
  <2> QED BY <1>2, <2>1, <2>3, <2>4, <2>6
<1>4. CASE r + 1 = m
  <2>1. (r + 1) % m = 0
    BY <1>4
  <2>2. a + 1 = m * (q + 1)
    BY <1>1, <1>2, <1>4
  <2>3. (m * (q + 1)) % m = 0
    OBVIOUS
  <2> QED BY <1>2, <2>1, <2>2, <2>3
<1> QED BY <1>2, <1>3, <1>4

\* The logical partitions of different chains have different entries.
LEMMA EntryOf ==
    ASSUME NEW i \in 1 .. PRIM, NEW k \in 0 .. LOGI - 1
    PROVE  /\ (i - 1) * LOGI + k \in 0 .. PRIM * LOGI - 1
           /\ \A j \in 1 .. PRIM, n \in 0 .. LOGI - 1 :
                 (i - 1) * LOGI + k = (j - 1) * LOGI + n => i = j /\ k = n
<1>1. PRIM \in Nat /\ LOGI \in Nat \ {0}
  BY HardDiskAssumption
<1>2. ASSUME NEW a \in Nat, NEW b \in Nat, a < b
      PROVE  a * LOGI + LOGI <= b * LOGI
  <2>1. (b - a - 1) * LOGI >= 0
    BY <1>1, <1>2
  <2>2. (b - a - 1) * LOGI = b * LOGI - a * LOGI - LOGI
    BY <1>1
  <2>3. a * LOGI \in Int /\ b * LOGI \in Int
    BY <1>1
  <2> QED BY <1>1, <2>1, <2>2, <2>3
<1>3. (i - 1) * LOGI + k \in 0 .. PRIM * LOGI - 1
  <2>1. (i - 1) * LOGI + LOGI <= PRIM * LOGI
    BY <1>1, <1>2
  <2>2. (i - 1) * LOGI \in Nat
    BY <1>1
  <2> QED BY <1>1, <2>1, <2>2
<1>4. ASSUME NEW j \in 1 .. PRIM, NEW n \in 0 .. LOGI - 1,
             (i - 1) * LOGI + k = (j - 1) * LOGI + n
      PROVE  i = j /\ k = n
  <2>1. (i - 1) * LOGI \in Nat /\ (j - 1) * LOGI \in Nat
    BY <1>1
  <2>2. CASE i < j
    <3>1. (i - 1) * LOGI + LOGI <= (j - 1) * LOGI
      BY <1>1, <1>2, <2>2
    <3> QED BY <1>1, <1>4, <2>1, <3>1
  <2>3. CASE j < i
    <3>1. (j - 1) * LOGI + LOGI <= (i - 1) * LOGI
      BY <1>1, <1>2, <2>3
    <3> QED BY <1>1, <1>4, <2>1, <3>1
  <2>4. CASE i = j
    BY <1>1, <1>4, <2>1, <2>4
  <2> QED BY <1>1, <2>2, <2>3, <2>4
<1> QED BY <1>3, <1>4

\* The entry of hd_info that hd_read_write and hd_ioctl use for a minor number.
LEMMA MinorEntry ==
    ASSUME NEW m \in Minors
    PROVE  \/ m \in 0 .. PRIM /\ part_of(m) = primary[m]
           \/ \E i \in 1 .. PRIM, k \in 0 .. LOGI - 1 :
                 /\ m > PRIM
                 /\ (m - MINOR_NR_hd1a) \div LOGI + 1 = i /\ (m - MINOR_NR_hd1a) % LOGI = k
                 /\ part_of(m) = logical[(i - 1) * LOGI + k]
<1>1. /\ PRIM \in Nat \ {0} /\ LOGI \in Nat \ {0} /\ MINOR_NR_hd1a \in Nat
      /\ MINOR_NR_hd1a > 2 * (PRIM + 1) - 1
      /\ m \in 0 .. PRIM \/ m \in MINOR_NR_hd1a .. MINOR_NR_hd1a + PRIM * LOGI - 1
  BY HardDiskAssumption
<1>2. CASE m \in 0 .. PRIM
  BY <1>1, <1>2 DEF part_of, NR_MAX_MINOR_PRIM
<1>3. CASE m \in MINOR_NR_hd1a .. MINOR_NR_hd1a + PRIM * LOGI - 1
  <2> DEFINE d == m - MINOR_NR_hd1a
             i == d \div LOGI + 1
             k == d % LOGI
  <2>1. d \in Nat /\ PRIM * LOGI \in Nat /\ d < PRIM * LOGI /\ m > PRIM
    BY <1>1, <1>3
  <2>2. d % (PRIM * LOGI) = d
    BY <2>1
  <2>3. part_of(m) = logical[d]
    BY <1>1, <1>3, <2>1, <2>2 DEF part_of, NR_MAX_MINOR_PRIM
  <2>4. /\ d \div LOGI \in Int /\ k \in 0 .. LOGI - 1
        /\ d = LOGI * (d \div LOGI) + k
    <3> HIDE DEF d
    <3> QED BY <1>1, <2>1, Divided
  <2>5. d = (i - 1) * LOGI + k
    BY <1>1, <2>1, <2>4
  <2>6. i \in 1 .. PRIM
    <3> HIDE DEF d, k
    <3>1. PICK e \in Int : e = d \div LOGI /\ d = LOGI * e + k
      BY <2>4
    <3>2. e >= 0
      <4>1. e <= -1 => LOGI * e <= LOGI * (-1)
        BY <1>1
      <4> QED BY <1>1, <2>1, <2>4, <3>1, <4>1
    <3>3. e < PRIM
      <4>1. e >= PRIM => LOGI * e >= LOGI * PRIM
        BY <1>1, <3>2
      <4>2. LOGI * PRIM = PRIM * LOGI
        BY <1>1
      <4> QED BY <1>1, <2>1, <2>4, <3>1, <4>1, <4>2
    <3> QED BY <1>1, <3>1, <3>2, <3>3
  <2> QED BY <2>1, <2>3, <2>4, <2>5, <2>6
<1> QED BY <1>1, <1>2, <1>3

-----------------------------------------------------------------------------
(* What a step leaves as it is *)

LEMMA TableTypes ==
    ASSUME disk \in Disks, NEW s, NEW i \in 1 .. PRIM
    PROVE  TableAt(s)[i].start_sect \in Nat /\ TableAt(s)[i].nr_sects \in Nat
<1>1. CASE s \in DOMAIN disk
  BY <1>1, HardDiskAssumption DEF TableAt
<1>2. CASE s \notin DOMAIN disk
  <2>1. TableAt(s)[i] = NoEntry
    BY <1>2 DEF TableAt
  <2> QED BY <2>1 DEF NoEntry
<1> QED BY <1>1, <1>2

LEMMA PartTypes ==
    ASSUME InfoTypes, NEW m \in Minors
    PROVE  part_of(m) \in Places /\ part_of(m).start_sect \in Nat
<1>1. part_of(m) \in Places
  BY MinorEntry, EntryOf DEF InfoTypes
<1> QED BY <1>1 DEF Places

LEMMA RequestTypes ==
    ASSUME NEW r \in Requests
    PROVE  /\ r.minor \in Minors /\ r.pos \in Nat /\ r.cnt \in Nat
           /\ r.type \in Transfers => r.cnt > 0
           /\ r.type \in Transfers \cup {"DEV_OPEN", "DEV_CLOSE", "DEV_IOCTL"}
<1>1. Positions \subseteq Nat /\ Counts \subseteq Nat \ {0}
  BY HardDiskAssumption
<1>2. CASE r \in [type : Transfers, minor : Minors, pos : Positions, cnt : Counts]
  <2>1. r.type \in Transfers /\ r.minor \in Minors /\ r.pos \in Positions /\ r.cnt \in Counts
    BY <1>2
  <2>2. r.pos \in Nat /\ r.cnt \in Nat \ {0}
    BY <1>1, <2>1, Zenon
  <2> QED BY <2>1, <2>2
<1>3. CASE r \in [type : {"DEV_OPEN", "DEV_CLOSE", "DEV_IOCTL"}, minor : Minors,
                  pos : {0}, cnt : {0}]
  BY <1>3 DEF Transfers
<1> QED BY <1>2, <1>3 DEF Requests

LEMMA FirstNat ==
    ASSUME InfoTypes
    PROVE  First \in Nat
BY PartTypes, RequestTypes DEF InfoTypes, First

LEMMA SameTables ==
    ASSUME disk' = disk
    PROVE  /\ \A s : TableAt(s)' = TableAt(s)
           /\ Mbr' = Mbr
           /\ \A i : Primary(i)' = Primary(i)
           /\ \A s : Logical(s)' = Logical(s)
           /\ \A i, k : Link(i, k)' = Link(i, k)
           /\ \A i, k : HasLink(i, k)' <=> HasLink(i, k)
<1>1. \A s : TableAt(s)' = TableAt(s)
  BY DEF TableAt
<1>2. Mbr' = Mbr
  BY DEF Mbr, TableAt
<1>3. \A i : Primary(i)' = Primary(i)
  BY DEF Primary, Mbr, TableAt
<1>4. \A s : Logical(s)' = Logical(s)
  BY DEF Logical, TableAt
<1>5. \A i, k : Link(i, k)' = Link(i, k)
  BY DEF Link, Mbr, TableAt
<1>6. \A i, k : HasLink(i, k)' <=> HasLink(i, k)
  BY DEF HasLink, Mbr, TableAt
<1> QED BY <1>1, <1>2, <1>3, <1>4, <1>5, <1>6

LEMMA SameKnown ==
    ASSUME UNCHANGED <<primary, logical, disk>>
    PROVE  /\ \A n : PrimaryKnown(n)' <=> PrimaryKnown(n)
           /\ \A i, n : ChainKnown(i, n)' <=> ChainKnown(i, n)
           /\ \A n : ChainsKnown(n)' <=> ChainsKnown(n)
           /\ \A m : part_of(m)' = part_of(m)
<1>1. \A n : PrimaryKnown(n)' <=> PrimaryKnown(n)
  BY SameTables DEF PrimaryKnown
<1>2. \A i, n : ChainKnown(i, n)' <=> ChainKnown(i, n)
  BY SameTables DEF ChainKnown
<1>3. \A n : ChainsKnown(n)' <=> ChainsKnown(n)
  BY <1>2, SameTables DEF ChainsKnown
<1>4. \A m : part_of(m)' = part_of(m)
  BY DEF part_of
<1> QED BY <1>1, <1>2, <1>3, <1>4

\* hd_info outside hd_open.
LEMMA InfoKept ==
    ASSUME GInv, UNCHANGED <<primary, logical, disk, walk>>,
           req' \in Requests, open_cnt' \in Nat, open_cnt' > 0 => open_cnt > 0,
           ReadsTables' => ReadsTables /\ job' = job,
           ReadsTables => ReadsTables' \/ Halted', Halted => Halted'
    PROVE  InfoTypes' /\ DriveKnown' /\ WalkKnows' /\ TablesKnown'
<1>1. InfoTypes'
  BY DEF GInv, InfoTypes
<1>2. DriveKnown'
  BY DEF GInv, DriveKnown
<1>3. WalkKnows'
  <2> SUFFICES ASSUME ReadsTables', job' = "logical" PROVE WalkKnows'
    BY DEF WalkKnows
  <2>1. ReadsTables /\ job = "logical"
    OBVIOUS
  <2> QED BY <2>1, SameKnown, SameTables DEF GInv, WalkKnows
<1>4. TablesKnown'
  BY SameKnown DEF GInv, TablesKnown
<1> QED BY <1>1, <1>2, <1>3, <1>4

LEMMA SameFirst ==
    ASSUME UNCHANGED <<primary, logical, disk, req>>
    PROVE  First' = First
BY SameKnown DEF First

LEMMA CopiedOneMore ==
    ASSUME InfoTypes, NEW n \in Nat, Copied(n), UNCHANGED <<primary, logical, disk, req>>,
           moved' = Append(moved, (First + n) % LBA_MOD)
    PROVE  Copied(n + 1)'
<1>1. First \in Nat /\ First' = First /\ LBA_MOD \in Nat \ {0}
  BY FirstNat, SameFirst, HardDiskAssumption
<1>2. (First + n) % LBA_MOD \in Nat
  BY <1>1, NextAddress
<1>3. moved' \in Seq(Nat) /\ Len(moved') = n + 1
  BY <1>2 DEF Copied
<1>4. ASSUME NEW i \in 1 .. n + 1 PROVE moved'[i] = (First + i - 1) % LBA_MOD
  <2>1. CASE i = n + 1
    <3>1. moved'[n + 1] = (First + n) % LBA_MOD
      BY <1>2 DEF Copied
    <3>2. First + i - 1 = First + n
      BY <1>1, <2>1
    <3> QED BY <2>1, <3>1, <3>2
  <2>2. CASE i \in 1 .. n
    <3>1. moved'[i] = moved[i]
      BY <1>2, <2>2 DEF Copied
    <3>2. moved[i] = (First + i - 1) % LBA_MOD
      BY <2>2, Zenon DEF Copied
    <3> QED BY <3>1, <3>2
  <2>3. i = n + 1 \/ i \in 1 .. n
    OBVIOUS
  <2> QED BY <2>1, <2>2, <2>3, Zenon
<1> QED BY <1>1, <1>3, <1>4 DEF Copied

LEMMA SameCopied ==
    ASSUME UNCHANGED <<primary, logical, disk, req, moved>>
    PROVE  \A n : Copied(n)' <=> Copied(n)
BY SameFirst DEF Copied

-----------------------------------------------------------------------------
(* Steps of a transfer *)

LEMMA EnvironmentKeeps ==
    ASSUME GInv, dsk'.lba = dsk.lba,
           UNCHANGED <<pc, req, job, cmd, left, moved, walk, open_cnt, primary, logical, disk>>
    PROVE  GInv'
<1>1. InfoTypes' /\ DriveKnown' /\ WalkKnows' /\ TablesKnown'
  BY InfoKept DEF GInv, InfoTypes, ReadsTables, InCommand, Halted
<1>2. Serving'
  BY DEF GInv, Serving, ReadsTables, InCommand
<1>3. Progress'
  BY SameCopied, SameFirst DEF GInv, Progress, Count, InCommand
<1>4. Answered'
  BY SameCopied, SameKnown DEF GInv, Answered
<1> QED BY <1>1, <1>2, <1>3, <1>4 DEF GInv

\* The panics of hd_cmd_out and of a write that the drive does not ask for, and a
\* get_ticks() that does not come back.
LEMMA PanicKeeps ==
    ASSUME GInv, Halted', req' \in Requests,
           UNCHANGED <<walk, open_cnt, primary, logical, disk>>
    PROVE  GInv'
<1>1. ~ReadsTables' /\ ~InCommand' /\ pc' # "reply"
  BY DEF ReadsTables, InCommand, Halted
<1>2. InfoTypes' /\ DriveKnown' /\ WalkKnows' /\ TablesKnown'
  BY <1>1, InfoKept DEF GInv, InfoTypes
<1>3. Serving' /\ Progress' /\ Answered'
  BY <1>1 DEF Serving, Progress, Answered
<1> QED BY <1>2, <1>3 DEF GInv

LEMMA CommandKeeps == DInv /\ GInv /\ hd_cmd_out => GInv'
<1> SUFFICES ASSUME DInv, GInv, hd_cmd_out PROVE GInv'
  OBVIOUS
<1>1. /\ pc = "cmd"
      /\ UNCHANGED <<req, job, cmd, left, moved, walk, open_cnt, primary, logical, disk>>
  BY DEF hd_cmd_out, hdInfo, env
<1>2. CASE pc' = "panic"
  BY <1>1, <1>2, PanicKeeps DEF GInv, InfoTypes, Halted
<1>3. CASE /\ dsk' = [dsk EXCEPT !.bsy = TRUE, !.drq = FALSE, !.op = cmd.op,
                                 !.lba = cmd.lba, !.first = TRUE, !.left = SectorsOf(cmd)]
           /\ IF cmd.op = "WRITE" THEN pc' = "drq" /\ t' = ticks
                                  ELSE pc' = "int" /\ UNCHANGED t
  <2>1. /\ pc' \in {"drq", "int"} /\ (cmd.op = "WRITE" => pc' = "drq")
        /\ dsk'.lba = cmd.lba
    BY <1>3 DEF DInv, Types
  <2>2. InCommand /\ InCommand' /\ (ReadsTables' <=> ReadsTables)
    BY <1>1, <2>1 DEF InCommand, ReadsTables
  <2>3. InfoTypes' /\ DriveKnown' /\ WalkKnows' /\ TablesKnown'
    BY <1>1, <2>1, <2>2, InfoKept DEF GInv, InfoTypes, Halted
  <2>4. Serving' /\ Answered'
    BY <1>1, <2>1, <2>2 DEF GInv, Serving, Answered
  <2>5. Progress'
    <3> SUFFICES ASSUME job = "rw" PROVE Progress'
      BY <1>1 DEF Progress
    <3>1. /\ left = req.cnt /\ Copied(Count) /\ cmd.lba = First % LBA_MOD
      BY <1>1, <2>2 DEF GInv, Progress
    <3>2. Count' = Count /\ Count = req.cnt - left
      BY <1>1, <2>1 DEF Count
    <3>3. req.cnt \in Nat /\ First \in Nat /\ First' = First
      BY <1>1, FirstNat, SameFirst, RequestTypes DEF GInv, InfoTypes
    <3>4. Count = 0 /\ First + Count = First
      BY <3>1, <3>2, <3>3
    <3>5. Copied(Count)'
      BY <1>1, <3>1, <3>2, SameCopied
    <3> QED BY <1>1, <2>1, <3>1, <3>2, <3>3, <3>4, <3>5 DEF Progress
  <2> QED BY <2>3, <2>4, <2>5 DEF GInv
<1> QED BY <1>2, <1>3 DEF hd_cmd_out

\* The turn of the loop of hd_read_write is over.
LEMMA TurnEnds ==
    ASSUME GInv, InCommand, job = "rw", left \in Nat, left > 0, NEW more, more \in {"drq", "int"},
           NextSector(more), more = "int" => cmd.op # "WRITE",
           UNCHANGED <<req, job, cmd, walk, open_cnt, primary, logical, disk>>,
           NEW n \in Nat, n = req.cnt - left + 1,
           Copied(n)', dsk'.lba = (First + n) % LBA_MOD
    PROVE  GInv'
<1>1. /\ left' = left - 1 /\ pc' \in {"reply", "drq", "int"}
      /\ IF left - 1 = 0 THEN pc' = "reply" ELSE pc' = more
  BY DEF NextSector
<1>2. ~ReadsTables /\ ~ReadsTables' /\ ~Halted
  BY DEF ReadsTables, InCommand, Halted
<1>3. InfoTypes' /\ DriveKnown' /\ WalkKnows' /\ TablesKnown'
  BY <1>2, InfoKept DEF GInv, InfoTypes
<1>4. Serving'
  BY <1>1, <1>2 DEF GInv, Serving, InCommand
<1>5. /\ req.cnt \in Nat /\ First' = First /\ left <= req.cnt
      /\ req.type \in Transfers
  BY SameFirst, RequestTypes DEF GInv, InfoTypes, Progress, Serving
<1>6. Progress'
  <2> SUFFICES ASSUME InCommand' PROVE Progress'
    BY DEF Progress
  <2>1. pc' = more
    BY <1>1 DEF InCommand
  <2>2. Count' = n
    BY <1>1, <1>5, <2>1 DEF Count
  <2>3. pc' # "cmd" /\ left' <= req'.cnt
    BY <1>1, <1>5
  <2>4. Copied(Count)'
    BY <2>2
  <2> QED BY <1>5, <2>2, <2>3, <2>4 DEF Progress
<1>7. Answered'
  <2> SUFFICES ASSUME pc' = "reply" PROVE Answered'
    BY DEF Answered
  <2>1. n = req'.cnt
    BY <1>1, <1>5
  <2>2. req'.type # "DEV_IOCTL"
    BY <1>5 DEF Transfers
  <2>3. Copied(req.cnt)'
    BY <2>1
  <2> QED BY <2>2, <2>3 DEF Answered
<1> QED BY <1>3, <1>4, <1>6, <1>7 DEF GInv

LEMMA InterruptKeeps == DInv /\ GInv /\ wait_for_hd_int => GInv'
<1> SUFFICES ASSUME DInv, GInv, wait_for_hd_int PROVE GInv'
  OBVIOUS
<1>1. /\ pc = "int"
      /\ UNCHANGED <<req, job, cmd, moved, walk, open_cnt, primary, logical, disk, dsk>>
      /\ IF cmd.op = "WRITE" THEN NextSector("drq") /\ t' = ticks
                             ELSE pc' = "data" /\ UNCHANGED <<left, t>>
  BY DEF wait_for_hd_int, hdInfo, env
<1>2. InCommand
  BY <1>1 DEF InCommand
<1>3. CASE cmd.op = "WRITE"
  <2>1. job = "rw" /\ left \in Nat /\ left > 0
    BY <1>1, <1>3 DEF DInv, Types, WorksOn, Expected
  <2>2. left <= req.cnt /\ req.cnt \in Nat /\ Count = req.cnt - left + 1
    BY <1>1, <1>2, <1>3, <2>1, RequestTypes DEF GInv, InfoTypes, Progress, Count
  <2>3. PICK n \in Nat : n = req.cnt - left + 1
    BY <2>1, <2>2
  <2>4. Copied(n) /\ dsk.lba = (First + n) % LBA_MOD
    BY <1>1, <1>2, <2>1, <2>2, <2>3 DEF GInv, Progress
  <2>5. Copied(n)'
    BY <1>1, <2>4, SameCopied
  <2> QED BY <1>1, <1>2, <1>3, <2>1, <2>3, <2>4, <2>5, TurnEnds
<1>4. CASE cmd.op # "WRITE"
  <2>1. pc' = "data" /\ left' = left
    BY <1>1, <1>4
  <2>2. InCommand' /\ (ReadsTables' <=> ReadsTables)
    BY <1>1, <1>2, <2>1 DEF InCommand, ReadsTables
  <2>3. InfoTypes' /\ DriveKnown' /\ WalkKnows' /\ TablesKnown'
    BY <1>1, <2>1, <2>2, InfoKept DEF GInv, InfoTypes, Halted
  <2>4. Serving' /\ Answered'
    BY <1>1, <1>2, <2>1, <2>2 DEF GInv, Serving, Answered
  <2>5. Count' = Count
    BY <1>1, <1>4, <2>1 DEF Count
  <2>6. Progress'
    BY <1>1, <1>2, <2>1, <2>5, SameCopied, SameFirst DEF GInv, Progress
  <2> QED BY <2>3, <2>4, <2>6 DEF GInv
<1> QED BY <1>3, <1>4

LEMMA ReadKeeps == DInv /\ GInv /\ ReadData => GInv'
<1> SUFFICES ASSUME DInv, GInv, ReadData PROVE GInv'
  OBVIOUS
<1>1. /\ pc = "data" /\ job = "rw" /\ dsk' = AfterPortRead
      /\ moved' = Append(moved, dsk.lba) /\ NextSector("int")
      /\ UNCHANGED <<req, job, cmd, walk, open_cnt, primary, logical, disk>>
  BY DEF ReadData, hdInfo, env
<1>2. /\ InCommand /\ dsk.drq /\ cmd.op # "WRITE" /\ left \in Nat /\ left > 0
      /\ Count = req.cnt - left
  BY <1>1 DEF InCommand, DInv, Offered, Types, WorksOn, Expected, Count
<1>3. First \in Nat /\ req.cnt \in Nat /\ LBA_MOD \in Nat \ {0} /\ left <= req.cnt
  BY <1>1, <1>2, FirstNat, RequestTypes, HardDiskAssumption DEF GInv, InfoTypes, Progress
<1>4. PICK n \in Nat : n = Count
  BY <1>2, <1>3
<1>5. Copied(n) /\ dsk.lba = (First + n) % LBA_MOD
  BY <1>1, <1>2, <1>4 DEF GInv, Progress
<1>6. Copied(n + 1)'
  BY <1>1, <1>5, CopiedOneMore DEF GInv
<1>7. dsk'.lba = (dsk.lba + 1) % LBA_MOD
  BY <1>1, <1>2 DEF AfterPortRead, DInv, Types
<1>8. dsk'.lba = (First + (n + 1)) % LBA_MOD
  <2>1. First + n \in Nat /\ First + n + 1 = First + (n + 1)
    BY <1>3
  <2> QED BY <1>3, <1>5, <1>7, <2>1, NextAddress
<1>9. n + 1 = req.cnt - left + 1 /\ n + 1 \in Nat
  BY <1>2, <1>3, <1>4
<1> QED BY <1>1, <1>2, <1>6, <1>8, <1>9, TurnEnds

LEMMA WriteKeeps == DInv /\ GInv /\ port_write => GInv'
<1> SUFFICES ASSUME DInv, GInv, port_write PROVE GInv'
  OBVIOUS
<1>1. /\ pc = "drq"
      /\ UNCHANGED <<req, job, cmd, left, walk, open_cnt, primary, logical, disk>>
  BY DEF port_write, hdInfo, env
<1>2. CASE pc' = "panic"
  BY <1>1, <1>2, PanicKeeps DEF GInv, InfoTypes, Halted
<1>3. CASE /\ pc' = "int" /\ moved' = Append(moved, dsk.lba)
           /\ dsk' = [dsk EXCEPT !.bsy = TRUE, !.drq = FALSE, !.left = @ - 1,
                                 !.lba = (@ + 1) % LBA_MOD, !.first = FALSE]
  <2>1. /\ InCommand /\ InCommand' /\ cmd.op = "WRITE" /\ job = "rw" /\ left \in Nat
        /\ Count = req.cnt - left /\ Count' = req.cnt - left + 1
    BY <1>1, <1>3 DEF InCommand, DInv, Asked, Types, WorksOn, Count
  <2>2. /\ First \in Nat /\ First' = First /\ req.cnt \in Nat /\ LBA_MOD \in Nat \ {0}
        /\ left <= req.cnt
    BY <1>1, <2>1, FirstNat, SameFirst, RequestTypes, HardDiskAssumption
    DEF GInv, InfoTypes, Progress
  <2>3. PICK n \in Nat : n = Count /\ n + 1 = Count'
    BY <2>1, <2>2
  <2>4. Copied(n) /\ dsk.lba = (First + n) % LBA_MOD
    BY <1>1, <2>1, <2>3 DEF GInv, Progress
  <2>5. Copied(n + 1)'
    BY <1>1, <1>3, <2>4, CopiedOneMore DEF GInv
  <2>6. dsk'.lba = (dsk.lba + 1) % LBA_MOD
    BY <1>3 DEF DInv, Types
  <2>7. dsk'.lba = (First + (n + 1)) % LBA_MOD
    <3>1. First + n \in Nat /\ First + n + 1 = First + (n + 1)
      BY <2>2
    <3> QED BY <2>2, <2>4, <2>6, <3>1, NextAddress
  <2>8. Progress'
    <3>1. Copied(Count)'
      BY <2>3, <2>5
    <3> QED BY <1>1, <1>3, <2>2, <2>3, <2>7, <3>1 DEF Progress
  <2>9. ~ReadsTables /\ ~ReadsTables'
    BY <1>1, <2>1 DEF ReadsTables
  <2>10. InfoTypes' /\ DriveKnown' /\ WalkKnows' /\ TablesKnown'
    BY <1>1, <2>9, InfoKept DEF GInv, InfoTypes, Halted
  <2>11. Serving' /\ Answered'
    BY <1>1, <1>3, <2>1, <2>9 DEF GInv, Serving, Answered
  <2> QED BY <2>8, <2>10, <2>11 DEF GInv
<1> QED BY <1>2, <1>3 DEF port_write

LEMMA ReceiveKeeps == DInv /\ GInv /\ Receive => GInv'
<1> SUFFICES ASSUME DInv, GInv, Receive PROVE GInv'
  OBVIOUS
<1>1. pc = "recv" /\ ~has_int
  BY DEF Receive, DInv, Resting, AtRest, Quiet
<1>2. PICK r \in Requests : /\ Sendable(r)
                            /\ hd_open(r) \/ hd_close(r) \/ hd_read_write(r) \/ hd_ioctl(r)
  BY <1>1 DEF Receive
<1>3. ~ReadsTables /\ ~InCommand
  BY <1>1 DEF ReadsTables, InCommand
<1>4. CASE hd_open(r)
  <2>1. req' = r /\ UNCHANGED <<walk, open_cnt, primary, logical, disk>> /\ r.type = "DEV_OPEN"
    BY <1>4 DEF hd_open, Begin, hdInfo, env
  <2>2. CASE pc' = "panic"
    BY <2>1, <2>2, PanicKeeps DEF Halted
  <2>3. CASE start_cmd("identify", "IDENTIFY", 0, 1)
    <3>1. pc' = "cmd" /\ job' = "identify"
      BY <2>3 DEF start_cmd
    <3>2. ~ReadsTables'
      BY <3>1 DEF ReadsTables
    <3>3. InfoTypes' /\ DriveKnown' /\ WalkKnows' /\ TablesKnown'
      BY <1>1, <1>3, <2>1, <3>2, InfoKept DEF GInv, InfoTypes, Halted
    <3>4. Serving' /\ Progress' /\ Answered'
      BY <2>1, <3>1, <3>2 DEF Serving, Progress, Answered
    <3> QED BY <3>3, <3>4 DEF GInv
  <2> QED BY <1>4, <2>2, <2>3 DEF hd_open
<1>5. CASE hd_close(r)
  <2>1. /\ req' = r /\ UNCHANGED <<walk, primary, logical, disk>> /\ r.type = "DEV_CLOSE"
        /\ \/ open_cnt' = open_cnt - 1 /\ pc' = "reply"
           \/ pc' = "panic" /\ UNCHANGED open_cnt
    BY <1>5 DEF hd_close, Begin, env
  <2>2. CASE pc' = "panic" /\ UNCHANGED open_cnt
    BY <2>1, <2>2, PanicKeeps DEF Halted
  <2>3. CASE open_cnt' = open_cnt - 1 /\ pc' = "reply"
    <3>1. open_cnt \in Nat /\ open_cnt > 0
      BY <1>2, <2>1 DEF Sendable, GInv, InfoTypes
    <3>2. ~ReadsTables' /\ ~InCommand'
      BY <2>3 DEF ReadsTables, InCommand
    <3>3. InfoTypes' /\ DriveKnown' /\ WalkKnows' /\ TablesKnown'
      BY <1>1, <1>3, <2>1, <2>3, <3>1, <3>2, InfoKept DEF Halted
    <3>4. Serving' /\ Progress' /\ Answered'
      BY <2>1, <3>2 DEF Serving, Progress, Answered, Transfers
    <3> QED BY <3>3, <3>4 DEF GInv
  <2> QED BY <2>1, <2>2, <2>3
<1>6. CASE hd_read_write(r)
  <2> DEFINE op == IF r.type = "DEV_READ" THEN "READ" ELSE "WRITE"
             f == part_of(r.minor).start_sect + r.pos
  <2>1. /\ req' = r /\ moved' = << >> /\ left' = r.cnt /\ r.type \in Transfers
        /\ UNCHANGED <<walk, open_cnt, primary, logical, disk>>
        /\ pc' = "cmd" /\ job' = "rw"
        /\ cmd' = [op |-> op, lba |-> f % LBA_MOD, count |-> r.cnt % COUNT_MOD]
    BY <1>6 DEF hd_read_write, start_cmd, Begin, hdInfo, env
  <2>2. open_cnt > 0 /\ cmd'.lba = f % LBA_MOD /\ (cmd'.op = "WRITE" <=> r.type = "DEV_WRITE")
    BY <1>2, <2>1 DEF Sendable, Transfers
  <2>3. InCommand' /\ ~ReadsTables'
    BY <2>1 DEF InCommand, ReadsTables
  <2>4. InfoTypes' /\ DriveKnown' /\ WalkKnows' /\ TablesKnown'
    BY <1>1, <1>3, <2>1, <2>3, InfoKept DEF GInv, InfoTypes, Halted
  <2>5. Serving' /\ Answered'
    BY <2>1, <2>2, <2>3 DEF Serving, Answered
  <2>6. First' = f
    BY <2>1, SameKnown DEF First
  <2>7. r.cnt \in Nat
    BY RequestTypes
  <2>8. Count' = 0
    BY <2>1, <2>7 DEF Count
  <2>9. Copied(Count)'
    BY <2>1, <2>8 DEF Copied
  <2>10. Progress'
    BY <2>1, <2>2, <2>6, <2>7, <2>9 DEF Progress
  <2> QED BY <2>4, <2>5, <2>10 DEF GInv
<1>7. CASE hd_ioctl(r)
  <2>1. /\ req' = r /\ r.type = "DEV_IOCTL" /\ pc' = "reply"
        /\ moved' = <<part_of(r.minor).start_sect, part_of(r.minor).sect_cnt>>
        /\ UNCHANGED <<walk, open_cnt, primary, logical, disk>>
    BY <1>7 DEF hd_ioctl, hdInfo, env
  <2>2. open_cnt > 0
    BY <1>2, <2>1 DEF Sendable
  <2>3. ~ReadsTables' /\ ~InCommand'
    BY <2>1 DEF ReadsTables, InCommand
  <2>4. InfoTypes' /\ DriveKnown' /\ WalkKnows' /\ TablesKnown'
    BY <1>1, <1>3, <2>1, <2>3, InfoKept DEF GInv, InfoTypes, Halted
  <2>5. Answered'
    BY <2>1, SameKnown DEF Answered, Transfers
  <2>6. Serving' /\ Progress'
    BY <2>1, <2>2, <2>3 DEF Serving, Progress
  <2> QED BY <2>4, <2>5, <2>6 DEF GInv
<1> QED BY <1>2, <1>4, <1>5, <1>6, <1>7

LEMMA ReplyKeeps == GInv /\ Reply => GInv'
<1> SUFFICES ASSUME GInv, Reply PROVE GInv'
  OBVIOUS
<1>1. /\ pc = "reply" /\ pc' = "recv"
      /\ UNCHANGED <<req, walk, open_cnt, primary, logical, disk>>
  BY DEF Reply, hdInfo, env
<1>2. ~ReadsTables /\ ~ReadsTables' /\ ~InCommand'
  BY <1>1 DEF ReadsTables, InCommand
<1>3. InfoTypes' /\ DriveKnown' /\ WalkKnows' /\ TablesKnown'
  BY <1>1, <1>2, InfoKept DEF GInv, InfoTypes, Halted
<1>4. Serving' /\ Progress' /\ Answered'
  BY <1>1, <1>2 DEF Serving, Progress, Answered
<1> QED BY <1>3, <1>4 DEF GInv

-----------------------------------------------------------------------------
(* Steps of hd_open *)

\* hd_identify knows the size of the drive.
LEMMA IdentifyKeeps == DInv /\ GInv /\ IdentifyData => GInv'
<1> SUFFICES ASSUME DInv, GInv, IdentifyData PROVE GInv'
  OBVIOUS
<1> DEFINE whole == [start_sect |-> 0, sect_cnt |-> DISK_SIZE]
<1>1. /\ pc = "data" /\ job = "identify" /\ open_cnt' = open_cnt + 1
      /\ primary' = [primary EXCEPT ![0] = whole]
      /\ UNCHANGED <<req, walk, logical, disk>>
  BY DEF IdentifyData, env
<1>2. PRIM \in Nat /\ DISK_SIZE \in Nat /\ open_cnt \in Nat
  BY HardDiskAssumption DEF GInv, InfoTypes
<1>3. InCommand /\ ~ReadsTables /\ req.type = "DEV_OPEN"
  BY <1>1 DEF InCommand, ReadsTables, GInv, Serving
<1>4. InfoTypes'
  <2>1. whole \in Places
    BY <1>2 DEF Places
  <2> QED BY <1>1, <1>2, <2>1 DEF GInv, InfoTypes
<1>5. DriveKnown'
  BY <1>1, <1>2 DEF GInv, InfoTypes, DriveKnown
<1>6. CASE open_cnt = 0 /\ get_part_table("primary", 0)
  <2>1. pc' = "cmd" /\ job' = "primary" /\ open_cnt' > 0
    BY <1>1, <1>2, <1>6 DEF get_part_table, start_cmd
  <2>2. WalkKnows' /\ TablesKnown'
    BY <2>1 DEF WalkKnows, TablesKnown, ReadsTables, InCommand
  <2>3. Serving' /\ Progress' /\ Answered'
    BY <1>1, <1>3, <2>1 DEF Serving, Progress, Answered
  <2> QED BY <1>4, <1>5, <2>2, <2>3 DEF GInv
<1>7. CASE open_cnt # 0 /\ pc' = "reply"
  <2>1. open_cnt > 0 /\ open_cnt' > 0
    BY <1>1, <1>2, <1>7
  <2>2. ~InCommand' /\ ~ReadsTables'
    BY <1>7 DEF InCommand, ReadsTables
  <2>3. \A i \in 1 .. PRIM : primary'[i] = primary[i]
    BY <1>1, <1>2 DEF GInv, InfoTypes
  <2>4. PrimaryKnown(PRIM) /\ ChainsKnown(PRIM)
    BY <1>1, <1>3, <2>1 DEF GInv, TablesKnown, Halted
  <2>5. PrimaryKnown(PRIM)'
    BY <1>1, <2>3, <2>4, SameTables DEF PrimaryKnown
  <2>6. ChainsKnown(PRIM)'
    BY <1>1, <2>4, SameTables DEF ChainsKnown, ChainKnown
  <2>7. WalkKnows' /\ TablesKnown'
    BY <2>2, <2>5, <2>6 DEF WalkKnows, TablesKnown
  <2>8. Serving' /\ Progress' /\ Answered'
    BY <1>1, <1>3, <2>1, <2>2 DEF Serving, Progress, Answered, Transfers
  <2> QED BY <1>4, <1>5, <2>7, <2>8 DEF GInv
<1> QED BY <1>6, <1>7 DEF IdentifyData

\* The scan for the next extended partition finds the first one.
LEMMA MinIsMember ==
    ASSUME NEW S, S \subseteq Nat, S # {}
    PROVE  Min(S) \in S /\ \A y \in S : Min(S) <= y
<1> DEFINE R == OpToRel(<, Nat)
<1>1. PICK x \in S : \A y \in S : ~(<<y, x>> \in R)
  <2> HIDE DEF R
  <2>1. IsWellFoundedOn(R, Nat)
    BY NatLessThanWellFounded DEF R
  <2> QED BY <2>1, WFMin
<1>2. \A y \in S : x <= y
  <2> TAKE y \in S
  <2>1. ~(y < x)
    BY <1>1 DEF OpToRel
  <2> QED BY <2>1
<1> QED BY <1>2 DEF Min

\* The rest of the primary table, once all before entry i is known.
LEMMA ScanKeeps ==
    ASSUME GInv, InCommand, job \in {"primary", "logical"}, NEW i \in 1 .. PRIM + 1,
           UNCHANGED <<req, open_cnt, disk>>,
           PrimaryKnown(i - 1), read_primary_partitions(Mbr, i),
           logical' \in [0 .. PRIM * LOGI - 1 -> Places], ChainsKnown(i - 1)'
    PROVE  GInv'
<1> DEFINE exts == {m \in i .. PRIM : Mbr[m].sys_id = EXT_PART}
<1>1. PICK j : /\ j = IF exts = {} THEN PRIM ELSE Min(exts)
               /\ primary' = Filled(Mbr, i, j)
               /\ IF exts = {}
                  THEN pc' \in {"panic", "reply"}
                  ELSE /\ walk' = [tbl |-> Mbr, i |-> j, k |-> 0, ext |-> Mbr[j].start_sect]
                       /\ pc' = "cmd" /\ job' = "logical"
  BY DEF read_primary_partitions, get_part_table, start_cmd
<1>2. /\ PRIM \in Nat \ {0, 1} /\ LOGI \in Nat \ {0} /\ disk \in Disks
      /\ ReadsTables /\ open_cnt > 0 /\ req.type = "DEV_OPEN"
  BY HardDiskAssumption DEF GInv, InfoTypes, Serving, ReadsTables
<1>3. /\ exts = {} => j = PRIM
      /\ exts # {} => j \in exts /\ \A m \in exts : j <= m
  <2>1. exts \subseteq Nat
    BY <1>2
  <2> HIDE DEF exts
  <2> QED BY <1>1, <2>1, MinIsMember
<1>4. /\ j \in 1 .. PRIM /\ \A m \in i .. PRIM : m < j => Mbr[m].sys_id # EXT_PART
      /\ exts = {} => \A m \in i .. PRIM : Mbr[m].sys_id # EXT_PART
      /\ exts # {} => Mbr[j].sys_id = EXT_PART
  BY <1>2, <1>3
<1> HIDE DEF exts
<1>5. InfoTypes'
  <2>1. ASSUME NEW m \in 0 .. PRIM PROVE primary'[m] \in Places
    <3>1. CASE m \in i .. j /\ Mbr[m].sys_id # NO_PART
      <4>1. primary'[m] = [start_sect |-> Mbr[m].start_sect, sect_cnt |-> Mbr[m].nr_sects]
        BY <1>1, <3>1 DEF Filled
      <4>2. Mbr[m].start_sect \in Nat /\ Mbr[m].nr_sects \in Nat
        BY <1>2, <1>4, <3>1, TableTypes DEF Mbr
      <4> QED BY <4>1, <4>2 DEF Places
    <3>2. CASE ~(m \in i .. j /\ Mbr[m].sys_id # NO_PART)
      <4>1. primary'[m] = primary[m]
        BY <1>1, <3>2 DEF Filled
      <4> QED BY <4>1 DEF GInv, InfoTypes
    <3> QED BY <3>1, <3>2
  <2>2. primary' \in [0 .. PRIM -> Places]
    BY <1>1, <2>1 DEF Filled
  <2> QED BY <2>2 DEF GInv, InfoTypes
<1>6. DriveKnown'
  <2>1. primary'[0] = primary[0]
    BY <1>1, <1>2 DEF Filled
  <2> QED BY <2>1 DEF GInv, DriveKnown
<1>7. PrimaryKnown(j)'
  <2> SUFFICES ASSUME NEW m \in 1 .. j, Mbr[m].sys_id # NO_PART
               PROVE  primary'[m] = Primary(m)
    BY SameTables DEF PrimaryKnown
  <2>1. CASE m \in i .. j
    BY <1>1, <1>2, <1>4, <2>1 DEF Filled, Primary
  <2>2. CASE m \in 1 .. i - 1
    <3>1. primary'[m] = primary[m]
      BY <1>1, <1>2, <2>2 DEF Filled
    <3> QED BY <2>2, <3>1 DEF PrimaryKnown
  <2>3. m \in i .. j \/ m \in 1 .. i - 1
    BY <1>2, <1>4
  <2> QED BY <2>1, <2>2, <2>3
<1>8. Serving' /\ Progress' /\ Answered'
  <2>1. pc' \in {"panic", "reply"} \/ (pc' = "cmd" /\ job' = "logical")
    BY <1>1
  <2> QED BY <1>2, <2>1 DEF Serving, Progress, Answered, InCommand, Transfers
<1>9. CASE exts = {}
  <2>1. ~ReadsTables'
    BY <1>1, <1>9 DEF ReadsTables, InCommand
  <2>2. ChainsKnown(PRIM)'
    <3> SUFFICES ASSUME NEW x \in 1 .. PRIM, Mbr[x].sys_id = EXT_PART
                 PROVE  ChainKnown(x, LOGI)'
      BY SameTables DEF ChainsKnown
    <3>1. x \in 1 .. i - 1
      BY <1>2, <1>4, <1>9
    <3> QED BY <3>1, SameTables DEF ChainsKnown
  <2>3. WalkKnows' /\ TablesKnown'
    BY <1>3, <1>7, <1>9, <2>1, <2>2 DEF WalkKnows, TablesKnown
  <2> QED BY <1>5, <1>6, <1>8, <2>3 DEF GInv
<1>10. CASE exts # {}
  <2>1. /\ walk' = [tbl |-> Mbr, i |-> j, k |-> 0, ext |-> Mbr[j].start_sect]
        /\ pc' = "cmd" /\ job' = "logical"
    BY <1>1, <1>10
  <2>2. ReadsTables'
    BY <2>1 DEF ReadsTables, InCommand
  <2>3. ChainsKnown(j - 1)'
    <3> SUFFICES ASSUME NEW x \in 1 .. j - 1, Mbr[x].sys_id = EXT_PART
                 PROVE  ChainKnown(x, LOGI)'
      BY SameTables DEF ChainsKnown
    <3>1. x \in 1 .. i - 1
      BY <1>2, <1>4
    <3> QED BY <3>1, SameTables DEF ChainsKnown
  <2>4. ChainKnown(j, 0)'
    BY DEF ChainKnown
  <2>5. /\ walk'.tbl = Mbr /\ walk'.i = j /\ walk'.k = 0 /\ walk'.ext = Mbr[j].start_sect
        /\ walk' = [tbl |-> walk'.tbl, i |-> walk'.i, k |-> walk'.k, ext |-> walk'.ext]
    BY <2>1
  <2>6. Mbr[j].start_sect \in Nat /\ Link(j, 0) = Mbr[j].start_sect
    BY <1>2, <1>4, TableTypes DEF Mbr, Link
  <2>7. Link(j, 0)' = Mbr[j].start_sect /\ Mbr' = Mbr
    BY <2>6, SameTables
  <2>8. WalkKnows'
    BY <1>2, <1>4, <1>7, <1>10, <2>3, <2>4, <2>5, <2>6, <2>7 DEF WalkKnows
  <2>9. TablesKnown'
    BY <2>2 DEF TablesKnown
  <2> QED BY <1>5, <1>6, <1>8, <2>8, <2>9 DEF GInv
<1> QED BY <1>9, <1>10

LEMMA PrimaryKeeps == DInv /\ GInv /\ PrimaryData => GInv'
<1> SUFFICES ASSUME DInv, GInv, PrimaryData PROVE GInv'
  OBVIOUS
<1>1. /\ pc = "data" /\ job = "primary" /\ read_primary_partitions(Mbr, 1)
      /\ UNCHANGED <<req, open_cnt, logical, disk>>
  BY DEF PrimaryData, Mbr, env
<1>2. InCommand /\ 1 \in 1 .. PRIM + 1
  BY <1>1, HardDiskAssumption DEF InCommand
<1>3. PrimaryKnown(1 - 1) /\ ChainsKnown(1 - 1)'
  BY DEF PrimaryKnown, ChainsKnown
<1>4. logical' \in [0 .. PRIM * LOGI - 1 -> Places]
  BY <1>1 DEF GInv, InfoTypes
<1> QED BY <1>1, <1>2, <1>3, <1>4, ScanKeeps

LEMMA LogicalKeeps == DInv /\ GInv /\ LogicalData => GInv'
<1> SUFFICES ASSUME DInv, GInv, LogicalData PROVE GInv'
  OBVIOUS
<1>1. /\ pc = "data" /\ job = "logical" /\ read_logical_partitions
      /\ UNCHANGED <<req, open_cnt, disk>>
  BY DEF LogicalData, env
<1>2. /\ PRIM \in Nat \ {0, 1} /\ LOGI \in Nat \ {0} /\ disk \in Disks
      /\ InCommand /\ ReadsTables /\ open_cnt > 0 /\ req.type = "DEV_OPEN"
  BY <1>1, HardDiskAssumption DEF GInv, InfoTypes, Serving, ReadsTables, InCommand
<1>3. PICK i, k, ext : i = walk.i /\ k = walk.k /\ ext = walk.ext
  OBVIOUS
<1>4. /\ walk = [tbl |-> Mbr, i |-> i, k |-> k, ext |-> ext]
      /\ i \in 1 .. PRIM /\ k \in 0 .. LOGI - 1 /\ ext \in Nat
      /\ k \in {0, 1} => ext = Link(i, k)
      /\ Mbr[i].sys_id = EXT_PART
      /\ PrimaryKnown(i) /\ ChainsKnown(i - 1) /\ ChainKnown(i, k)
  BY <1>1, <1>2, <1>3 DEF GInv, WalkKnows
<1> DEFINE e == TableAt(ext)
           d == (i - 1) * LOGI + k
<1>5. /\ logical' = [logical EXCEPT ![d] = Logical(ext)]
      /\ IF e[2].sys_id # NO_PART /\ k + 1 < LOGI
         THEN /\ walk' = [walk EXCEPT !.k = @ + 1, !.ext = @ + e[2].start_sect]
              /\ pc' = "cmd" /\ job' = "logical"
              /\ UNCHANGED primary
         ELSE read_primary_partitions(Mbr, i + 1)
  BY <1>1, <1>3, <1>4 DEF read_logical_partitions, Logical, get_part_table, start_cmd
<1>6. /\ d \in 0 .. PRIM * LOGI - 1
      /\ \A x \in 1 .. PRIM, n \in 0 .. LOGI - 1 :
            d = (x - 1) * LOGI + n => i = x /\ k = n
  BY <1>4, EntryOf
<1>7. logical' \in [0 .. PRIM * LOGI - 1 -> Places]
  <2>1. /\ e[1].start_sect \in Nat /\ e[1].nr_sects \in Nat
    BY <1>2, TableTypes
  <2>2. Logical(ext) \in Places
    BY <1>4, <2>1 DEF Logical, Places
  <2> QED BY <1>5, <1>6, <2>2 DEF GInv, InfoTypes
<1>8. \A x \in 1 .. PRIM, n \in 0 .. LOGI - 1 :
         logical'[(x - 1) * LOGI + n] =
            IF i = x /\ k = n THEN Logical(ext) ELSE logical[(x - 1) * LOGI + n]
  <2> TAKE x \in 1 .. PRIM, n \in 0 .. LOGI - 1
  <2>1. PICK y : y = (x - 1) * LOGI + n
    OBVIOUS
  <2>2. y \in 0 .. PRIM * LOGI - 1
    BY <2>1, EntryOf
  <2>3. logical'[y] = IF y = d THEN Logical(ext) ELSE logical[y]
    BY <1>5, <2>2 DEF GInv, InfoTypes
  <2>4. y = d <=> i = x /\ k = n
    BY <1>6, <2>1
  <2> QED BY <2>1, <2>3, <2>4
<1> HIDE DEF d
<1>9. ChainsKnown(i - 1)'
  <2> SUFFICES ASSUME NEW x \in 1 .. i - 1, Mbr[x].sys_id = EXT_PART,
                      NEW n \in 0 .. LOGI - 1, HasLink(x, n)
               PROVE  logical'[(x - 1) * LOGI + n] = Logical(Link(x, n))
    BY <1>1, SameTables DEF ChainsKnown, ChainKnown
  <2>1. x \in 1 .. PRIM /\ x # i
    BY <1>2, <1>4
  <2>2. logical'[(x - 1) * LOGI + n] = logical[(x - 1) * LOGI + n]
    BY <1>8, <2>1
  <2>3. n < LOGI
    BY <1>2
  <2> QED BY <1>4, <2>2, <2>3 DEF ChainsKnown, ChainKnown
<1>10. ChainKnown(i, k + 1)'
  <2> SUFFICES ASSUME NEW n \in 0 .. LOGI - 1, n < k + 1, HasLink(i, n)
               PROVE  logical'[(i - 1) * LOGI + n] = Logical(Link(i, n))
    BY <1>1, SameTables DEF ChainKnown
  <2>1. CASE n = k
    <3>1. ext = Link(i, k)
      BY <1>4, <2>1 DEF HasLink
    <3> QED BY <1>4, <1>8, <2>1, <3>1
  <2>2. CASE n < k
    <3>1. logical'[(i - 1) * LOGI + n] = logical[(i - 1) * LOGI + n]
      BY <1>4, <1>8, <2>2
    <3> QED BY <1>4, <2>2, <3>1 DEF ChainKnown
  <2> QED BY <1>4, <2>1, <2>2
<1>11. CASE e[2].sys_id # NO_PART /\ k + 1 < LOGI
  <2>1. /\ walk' = [tbl |-> Mbr, i |-> i, k |-> k + 1, ext |-> ext + e[2].start_sect]
        /\ pc' = "cmd" /\ job' = "logical" /\ primary' = primary
    BY <1>4, <1>5, <1>11
  <2>2. /\ walk'.tbl = Mbr /\ walk'.i = i /\ walk'.k = k + 1 /\ walk'.ext = ext + e[2].start_sect
        /\ walk' = [tbl |-> walk'.tbl, i |-> walk'.i, k |-> walk'.k, ext |-> walk'.ext]
    BY <2>1
  <2>3. ReadsTables' /\ InCommand'
    BY <2>1 DEF ReadsTables, InCommand
  <2>4. ext + e[2].start_sect \in Nat
    BY <1>2, <1>4, TableTypes
  <2>5. k + 1 \in {0, 1} => ext + e[2].start_sect = Link(i, k + 1)
    <3> SUFFICES ASSUME k = 0 PROVE ext + e[2].start_sect = Link(i, 1)
      BY <1>4
    <3> QED BY <1>4 DEF Link
  <2>6. PrimaryKnown(i)'
    BY <1>1, <1>4, <2>1, SameTables DEF PrimaryKnown
  <2>7. Mbr' = Mbr /\ Link(i, k + 1)' = Link(i, k + 1)
    BY <1>1, SameTables
  <2>8. k + 1 \in 0 .. LOGI - 1
    BY <1>2, <1>4, <1>11
  <2>9. WalkKnows'
    BY <1>4, <1>9, <1>10, <2>2, <2>4, <2>5, <2>6, <2>7, <2>8 DEF WalkKnows
  <2>10. InfoTypes' /\ DriveKnown' /\ TablesKnown'
    BY <1>1, <1>7, <2>1, <2>3 DEF GInv, InfoTypes, DriveKnown, TablesKnown
  <2>11. Serving' /\ Progress' /\ Answered'
    BY <1>1, <1>2, <2>1 DEF Serving, Progress, Answered
  <2> QED BY <2>9, <2>10, <2>11 DEF GInv
<1>12. CASE ~(e[2].sys_id # NO_PART /\ k + 1 < LOGI)
  <2>1. ASSUME NEW n \in 0 .. LOGI - 1, HasLink(i, n) PROVE n < k + 1
    <3>1. CASE k = 0 /\ e[2].sys_id = NO_PART
      <4>1. e = TableAt(Mbr[i].start_sect)
        BY <1>4, <3>1 DEF Link
      <4>2. n = 0
        BY <2>1, <3>1, <4>1 DEF HasLink
      <4> QED BY <3>1, <4>2
    <3>2. CASE k > 0
      BY <1>4, <2>1, <3>2 DEF HasLink
    <3>3. CASE k + 1 >= LOGI
      BY <1>2, <1>4, <3>3
    <3> QED BY <1>2, <1>4, <1>12, <3>1, <3>2, <3>3
  <2>2. ChainKnown(i, LOGI)'
    BY <1>1, <1>10, <2>1, SameTables DEF ChainKnown
  <2>3. ChainsKnown(i)'
    <3> SUFFICES ASSUME NEW x \in 1 .. i, Mbr[x].sys_id = EXT_PART
                 PROVE  ChainKnown(x, LOGI)'
      BY <1>1, SameTables DEF ChainsKnown
    <3>1. x = i \/ x \in 1 .. i - 1
      BY <1>4
    <3> QED BY <1>1, <1>9, <2>2, <3>1, SameTables DEF ChainsKnown
  <2>4. PICK n : n = i + 1 /\ n \in 1 .. PRIM + 1 /\ n - 1 = i
    BY <1>2, <1>4
  <2>5. read_primary_partitions(Mbr, n)
    BY <1>5, <1>12, <2>4
  <2>6. PrimaryKnown(n - 1) /\ ChainsKnown(n - 1)'
    BY <1>4, <2>3, <2>4
  <2> QED BY <1>1, <1>2, <1>7, <2>4, <2>5, <2>6, ScanKeeps
<1> QED BY <1>11, <1>12

LEMMA InitGInv == Init => GInv
<1> SUFFICES ASSUME Init PROVE GInv
  OBVIOUS
<1>1. /\ pc = "recv" /\ open_cnt = 0 /\ disk \in Disks
      /\ primary = [m \in 0 .. PRIM |-> NoPart]
      /\ logical = [m \in 0 .. PRIM * LOGI - 1 |-> NoPart]
  BY DEF Init, hd_init
<1>2. req \in Requests
  <2>1. (CHOOSE m \in Minors : TRUE) \in Minors
    BY HardDiskAssumption
  <2>2. PICK m \in Minors : req = [type |-> "DEV_CLOSE", minor |-> m, pos |-> 0, cnt |-> 0]
    BY <2>1 DEF Init
  <2> QED BY <2>2 DEF Requests
<1>3. NoPart \in Places
  BY DEF NoPart, Places
<1>4. InfoTypes
  BY <1>1, <1>2, <1>3 DEF InfoTypes
<1>5. ~InCommand /\ ~ReadsTables
  BY <1>1 DEF InCommand, ReadsTables
<1> QED BY <1>1, <1>4, <1>5 DEF GInv, DriveKnown, WalkKnows, TablesKnown, Serving, Progress,
                              Answered

LEMMA NextGInv == DInv /\ GInv /\ [Next]_vars => GInv'
<1> SUFFICES ASSUME DInv, GInv, [Next]_vars PROVE GInv'
  OBVIOUS
<1> DEFINE same == UNCHANGED <<pc, req, job, cmd, left, moved, walk, open_cnt, primary, logical, disk>>
<1>1. CASE Driver
  BY <1>1, InterruptKeeps, IdentifyKeeps, PrimaryKeeps, LogicalKeeps, ReadKeeps, ReplyKeeps
     DEF Driver
<1>2. CASE DriveReady
  <2>1. same /\ dsk'.lba = dsk.lba
    BY <1>2 DEF DriveReady, drvVars, hdInfo, DInv, Types
  <2> QED BY <2>1, EnvironmentKeeps
<1>3. CASE DriveFails
  <2>1. same /\ dsk'.lba = dsk.lba
    BY <1>3 DEF DriveFails, drvVars, hdInfo, env, DInv, Types
  <2> QED BY <2>1, EnvironmentKeeps
<1>4. CASE hd_handler
  <2>1. same /\ dsk'.lba = dsk.lba
    BY <1>4 DEF hd_handler, drvVars, hdInfo
  <2> QED BY <2>1, EnvironmentKeeps
<1>5. CASE Tick
  <2>1. same /\ dsk'.lba = dsk.lba
    BY <1>5 DEF Tick, drvVars, hdInfo
  <2> QED BY <2>1, EnvironmentKeeps
<1>6. CASE UNCHANGED vars
  <2>1. same /\ dsk'.lba = dsk.lba
    BY <1>6 DEF vars, drvVars, hdInfo, env
  <2> QED BY <2>1, EnvironmentKeeps
<1>7. CASE TicksLost
  <2>1. Halted' /\ UNCHANGED <<req, walk, open_cnt, primary, logical, disk>>
    BY <1>7 DEF TicksLost, Halted, hdInfo, env
  <2> QED BY <2>1, PanicKeeps DEF GInv, InfoTypes
<1> QED BY <1>1, <1>2, <1>3, <1>4, <1>5, <1>6, <1>7, ReceiveKeeps, CommandKeeps, WriteKeeps
        DEF Next, Poll

\* The entry of a partition that exists is where the tables on the disk say.
LEMMA EntryIsGeometry ==
    ASSUME InfoTypes, DriveKnown, open_cnt > 0, PrimaryKnown(PRIM), ChainsKnown(PRIM),
           NEW m \in Minors, Exists(m)
    PROVE  part_of(m) = Geometry(m)
<1>1. PRIM \in Nat \ {0, 1} /\ LOGI \in Nat \ {0}
  BY HardDiskAssumption
<1>2. CASE m \in 0 .. PRIM /\ part_of(m) = primary[m]
  <2>1. CASE m = 0
    BY <1>2, <2>1 DEF DriveKnown, Geometry
  <2>2. CASE m # 0
    <3>1. m \in 1 .. PRIM /\ m <= PRIM /\ ~(m > PRIM)
      BY <1>1, <1>2, <2>2
    <3>2. Mbr[m].sys_id # NO_PART
      BY <2>2, <3>1 DEF Exists, Mbr
    <3>3. primary[m] = Primary(m)
      BY <3>1, <3>2 DEF PrimaryKnown
    <3> QED BY <1>2, <2>2, <3>1, <3>3 DEF Geometry, Primary, Mbr
  <2> QED BY <2>1, <2>2
<1>3. ASSUME NEW i \in 1 .. PRIM, NEW k \in 0 .. LOGI - 1, m > PRIM,
             (m - MINOR_NR_hd1a) \div LOGI + 1 = i, (m - MINOR_NR_hd1a) % LOGI = k,
             part_of(m) = logical[(i - 1) * LOGI + k]
      PROVE  part_of(m) = Geometry(m)
  <2>1. m # 0 /\ m \notin 1 .. PRIM /\ ~(m <= PRIM)
    BY <1>1, <1>3, HardDiskAssumption
  <2>2. Mbr[i].sys_id = EXT_PART /\ HasLink(i, k)
    BY <1>3, <2>1 DEF Exists, Mbr, HasLink
  <2>3. k < LOGI
    BY <1>1
  <2>4. part_of(m) = Logical(Link(i, k))
    BY <1>3, <2>2, <2>3 DEF ChainsKnown, ChainKnown
  <2> QED BY <1>3, <2>1, <2>4 DEF Geometry, Logical, Link, Mbr
<1> QED BY <1>2, <1>3, MinorEntry

-----------------------------------------------------------------------------
(* Theorems *)

\* task_hd and hd_handler: the data port is read only while the drive offers a
\* sector of the command in progress; when the driver answers or waits for a
\* message the drive is at rest, or hung, and no interrupt is on its way, so that
\* none is ever taken for a request.
THEOREM AlwaysInStep == Spec => []InStep
<1>1. DInv => InStep
  <2> SUFFICES ASSUME DInv PROVE InStep
    OBVIOUS
  <2>1. pc = "data" => dsk.drq /\ ~dsk.bsy /\ dsk.op = cmd.op
    BY DEF DInv, Offered
  <2>2. pc \in {"reply", "recv"} => ~has_int /\ ~irq /\ ~dsk.drq /\ (dsk.bsy => dsk.stuck)
    BY DEF DInv, Resting, AtRest, Quiet
  <2>3. pc # "spin"
    BY DEF DInv, Types
  <2> QED BY <2>1, <2>2, <2>3 DEF InStep
<1> QED BY <1>1, InitDInv, NextDInv, PTL DEF Spec

\* task_hd: a read or write of a partition moves the sectors that the tables on
\* the disk give it, each one once and in order, and IOCTL_GET_PART says where it
\* is, whatever was opened, closed and read before.
THEOREM AlwaysAnsweredFromPartition == Spec => []AnsweredFromPartition
<1>1. GInv => AnsweredFromPartition
  <2> SUFFICES ASSUME GInv, pc = "reply", Exists(req.minor)
               PROVE  /\ req.type = "DEV_IOCTL" => moved =
                           <<Geometry(req.minor).start_sect, Geometry(req.minor).sect_cnt>>
                      /\ req.type \in Transfers =>
                           moved = [i \in 1 .. req.cnt |->
                              (Geometry(req.minor).start_sect + req.pos + i - 1) % LBA_MOD]
    BY DEF AnsweredFromPartition
  <2>1. ~ReadsTables
    BY DEF ReadsTables, InCommand
  <2>2. req.minor \in Minors
    BY RequestTypes DEF GInv, InfoTypes
  <2>3. ASSUME req.type # "DEV_CLOSE" PROVE part_of(req.minor) = Geometry(req.minor)
    BY <2>1, <2>2, <2>3, EntryIsGeometry DEF GInv, Serving, TablesKnown, Halted
  <2>4. CASE req.type = "DEV_IOCTL"
    BY <2>3, <2>4 DEF GInv, Answered, Transfers
  <2>5. CASE req.type \in Transfers
    <3>1. Copied(req.cnt) /\ req.type # "DEV_CLOSE" /\ req.type # "DEV_IOCTL"
      BY <2>5 DEF GInv, Answered, Transfers
    <3>2. First = Geometry(req.minor).start_sect + req.pos
      BY <2>3, <3>1 DEF First
    <3>3. moved = [i \in 1 .. req.cnt |-> moved[i]]
      BY <3>1 DEF Copied
    <3>4. moved = [i \in 1 .. req.cnt |-> (First + i - 1) % LBA_MOD]
      BY <3>1, <3>3 DEF Copied
    <3> QED BY <3>1, <3>2, <3>4
  <2> QED BY <2>4, <2>5
<1> QED BY <1>1, InitDInv, NextDInv, InitGInv, NextGInv, PTL DEF Spec
=============================================================================
