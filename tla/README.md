# A TLA+ model of kOS

kOS is a small microkernel-style system for one 32-bit x86 CPU: a kernel that
schedules processes and passes messages between them, four server tasks
(terminal, hard disk, file system, process manager) and a system task, a shell
and a few user programs. Everything a program asks for is a message. This
directory holds TLA+ modules of the parts in which the order of events matters,
TLC configurations that check them on small instances, and TLAPS proofs that
hold for any number of processes. `PROJECT.json` lists components, runs, faults,
source lines, findings, hazards and theorems.

Names of variables and actions are those of the source wherever TLA+ allows it.

## 1. Inventory

| Component | State | Operations | Talks to |
|---|---|---|---|
| IPC (`src/kernel/ipc.c`, `src/lib/sys/ipc.c`) | per process: `proc_state`, `pending_msg`, `q_pending_proc`, `pid_recvingfrom`, `pid_sendingto`, `has_int_msg` | SEND, RECEIVE, `check_deadlock`, `hw_int_notification`, `assert_multiple` | everybody; interrupt handlers |
| Entry code (`src/kernel/kernel.asm`, `8259.c`) | `nested_int`, masked lines | save, restart, `sys_call`, `hwint_master` | calls the handlers; interrupts are enabled in both system calls and handlers |
| Scheduler and clock (`src/kernel/process.c`, `src/device/timer.c`) | `p_proc_ready`, `ticks`, `priority`, `sys_ticks` | `schedule`, `clock_handler`, `block`/`unblock` | IPC, process manager (through `proc_state`) |
| Process manager (`src/task/task_pm.c`, `src/task/pm`) | `proc_table` entries: flags, `p_parent`, `exit_status`; memory of a slot | fork, exit, wait, exec | FS (FORK, EXIT), callers |
| FS message loop (`src/task/task_fs.c`) | `fs_msg`, `caller_proc` | request, device request, reply, SUSPEND/RESUME | callers, terminal, disk, PM |
| FS files (`src/task/fs`) | root directory, inode and sector maps, `inode_table`, `file_desc_table`, `file_desc` | open, close, read, write, lseek, stat, unlink, fork, exit, mkfs | disk, PM (shares `proc_table`) |
| Terminal (`src/task/task_tty.c`) | key queue and pending read per terminal, `current_console` | key loop, DEV_READ, DEV_WRITE, DEV_OPEN, HW_INT | FS, keyboard buffer, clock interrupt |
| Keyboard (`src/device/keyboard.c`, `keymap.h`) | `kb_in` with its two pointers, `key_pressed`, modifiers, locks | `keyboard_handler`, `keyboard_read` | terminal |
| Console (`src/device/console.c`) | cursor, screen start and `is_full` of each console; the CRT controller | `console_print_char`, scrolling, switching | terminal; the kernel (`printl`) |
| Hard disk (`src/device/hd.c`, `src/task/task_hd.c`) | `hd_info` (open counts, partitions), command block, interrupt flag | open, close, read, write, ioctl, partition walk, time-outs | FS, drive, interrupt, clock |
| System task, library, shell, applications, boot loaders | no shared state worth modelling | | |

What makes this code hard:

* **Interrupts inside system calls.** `sys_call` enables interrupts, so
  `hw_int_notification` may rewrite a process between two statements of SEND or
  RECEIVE that examine and change the same process.
* **Preemption of servers.** PM changes `proc_table` entries of other processes
  with plain loads and stores while those processes run.
* **One field, two jobs.** `q_pending_proc` is the head of a process's own queue
  and its link in the queue of another.
* **Calls that are two steps.** SEND_RECEIVE is a SEND and a RECEIVE; a server
  that answers quickly, or copies the caller in between, meets a process that is
  RUNNABLE.
* **Servers calling servers.** FS sends to the terminal, the terminal sends
  RESUME_PROC to FS, PM sends to FS.
* **Reference counts** shared by FS and PM through copied pointers.
* **A device with its own pace.** The disk driver knows of the drive only a status
  register, which it polls against a tick counter that wraps, and one interrupt
  flag.
* **Two writers of one console.** The kernel prints while the terminal task is in
  the middle of printing.
* **Byte streams cut at any place**: scan codes of up to six bytes, read whenever
  the terminal task runs, into queues that drop what does not fit.
* **Limits**: full tables, full maps, a directory that grows and shrinks, transfers
  that end in the middle of a sector or behind the file.

Correct means: fields never contradict each other; a message that was accepted
arrives, once, where it was sent; no circle of SENDs; no interrupt and no key
press is slept through; what runs is runnable and nobody starves; an exit is
collected exactly once by a parent that exists; an answer goes to somebody who
asked; a file that is open stays what it is and its bytes are where it says; the
driver and the drive agree on where they are; what is typed is what is read; the
screen shows the console that was chosen.

## 2. Modules

| Module | Models | Runs | Proofs |
|---|---|---|---|
| `Rendezvous` | what message passing promises (abstract specification) | | |
| `Ipc` | kernel message passing, most general clients | `ipc` | `IpcProofs` |
| `IpcRendezvous` (extends `Ipc`) | the refinement mapping from `Ipc` to `Rendezvous` | `ipc` | `IpcProofs` |
| `Services` (extends `Ipc`) | users, FS loop, terminal loop, keyboard and clock interrupts over the real IPC | `services`, `services_writers`, `services_queue` | `IpcProofs` |
| `Scheduler` | `schedule()`, clock, blocking | `scheduler` | `SchedulerProofs` |
| `ProcMgr` | fork, exit, wait and their callers | `procmgr` | `ProcMgrProofs` |
| `FileTable` | directory, inode map and cache, descriptors | `filetable` | `FileTableProofs` |
| `FileData` | sector map, sizes, positions, bytes moved | `filedata`, `filedata_overrun` | `FileDataProofs` |
| `HardDisk` | disk driver, drive, interrupt, clock | `harddisk` | `HardDiskProofs` |
| `Console` | cursor, scrolling, switching, two printers | `console` | `ConsoleProofs` |
| `Keyboard`, `Terminal` (extends it) | scan codes, keyboard buffer, key queues, editing, readers | `terminal` | `TerminalProofs` |

`MC*` modules give TLC the values of constants that a `.cfg` cannot express
(symmetry, sequences, message bodies). They replace nothing.

Definitions whose name has a suffix after `_` (`RcvDone_NoAssert`,
`InUse_OffByOne`, ...) and whose comment begins with *Fault* are plausible
mistakes in the code next to them. `PROJECT.json` names, for each property of a
passing run, the fault with which TLC finds that property violated.

### Ipc

`proc_state[p]` is the set of flags (`{}` is RUNNABLE); `pending_msg[p]` is
whether the pointer is set, and `msg[p]` the buffer it would point to, with the
header (source and type) of its message. At most one process is in the kernel;
`kpc` says at which statement its call is and `kcall` who called and with whom
it wants to communicate. A call is cut where an interrupt handler can tell the
difference: in SEND between the check of the receiver, the assert of position 1,
the copy, the clearing of `pending_msg` and the clearing of the flags; in RECEIVE
between the test of `has_int_msg`, the scan for a sender, `pid_recvingfrom` and
the asserts of position 8. `HwInt` is one step: its interrupt line is masked
while it runs and no other handler touches the same process. If it strikes while
SEND copies into the same buffer, the header is any mix of the two writes
(`HwIntHeaders`).

The sending queue is not an abstract sequence. `Walk`, `Chain`, `Tail`, `Prev`
follow `q_pending_proc` as the loops of the code do, and a loop that would not
end stops the model with `"hang"`. RECEIVE(INTERRUPT) reads `proc_table[-10]`;
what lies there is chosen from `OobSending`. A failed assert or a panic sets
`halted`.

### Services

The loops of the users, of FS and of the terminal, cut at their IPC calls, on top
of the unchanged actions of `Ipc`. FS_LSEEK stands for the requests FS answers
from its own data; reads and writes go to the terminal, which answers a read with
SUSPEND_PROC and later sends RESUME_PROC. When FS gets a RESUME_PROC where it waits for
the terminal's answer, the assert of `read_write.c:45` compares the counts of two
requests: it fails, or the counts are equal and FS goes on (`FsDevGot` has both). One
key is one line. `keyboard_handler`
may run at any time; the clock calls `hw_int_notification` while `key_pressed` is
set.

### Scheduler

`schedule()` iteration by iteration, because it runs with interrupts enabled.
`mode` tells whether it was called by a system call (a tick may nest and
decrements the ticks of the candidate of the moment) or by `clock_handler` (ticks
are masked). `Suspend` is a server changing the flags of another process.

### ProcMgr

PM and its callers; PM can be preempted between any two accesses to
`proc_table`. `upc` says whether a process has sent its request and whether it
has reached the RECEIVE of its SEND_RECEIVE. `proc_state |= WAITING` is a load
(`WaitScan`) and a store (`WaitStore`), as the unoptimised build compiles it. The copy
of the parent's entry by `do_fork` is two steps (`ForkCopy`, `ForkCopyState`): the
registers come first, `proc_state` last, and the parent may reach its RECEIVE in
between. The SEND_RECEIVEs to FS (`ForkFs`, `ExitFs`) may take for ever.
`memory_size` is chosen initially, so that `alloc_mem` can meet its panic. IPC is
reduced to rendezvous. exec changes no flag and is left out.

### FileTable

FS serves one request at a time, so a request is a step; a fork is two
(`PmFork`, `fs_fork`), since PM copies the pointers before FS counts them.
`dir` keeps the entries past the end of the directory too. `Visible`, `Holes` and
`clear_directory_entry` have the exact bounds of the three loops. `leaked` counts,
for each slot of the cache, the references that refused unlinks have kept; it bounds
them (`MaxLeak`) and lets `DescriptorsShared` say exactly what `inode_cnt` is. Left
out: the sector map (a creation may stop in its assert at any time), positions and the
sizes of files, which are `FileData`'s. The root can be opened like a file: O_TRUNC
makes the directory empty (`Truncate`), and reads through its descriptor move its size
past the end, by whole entries or by less (`ReadRoot`, `ragged`). A write through it
could put anything into the directory and is left out; unused sectors of the directory
are zero. `strcpy` into an entry that had a longer name leaves bytes of it behind, and
the entry then has a name that no lookup finds (`Written`, `STALE`).

### Rendezvous and IpcRendezvous

In `Rendezvous` a process offers to send or to receive, matching offers meet and
the message is handed over: no queue, no flag, no pointer. For tasks notified of
interrupts the promise is weaker, as the code is: a notification may end the
receiver's wait in the middle of a meeting (`Notify`), leaving a mix of both
headers, and the sender goes on (`Overtaken`). The mapping reads an offer off the
flags and pid fields, or off `kpc` while a call has begun and its fields do not
say so yet; the buffer of a process that is receiving counts as empty until it
goes on. A failed assert or a panic is `Stop`.

### FileData

Where files are: `sector_map` is the set of bits that are set, `inode` has start,
number of sectors and size of each file, `desc` the position of each descriptor.
`alloc_sect_map_bit` and `clear_sector_map_bits` work on bits, bytes and sectors
with the bounds of the loops. `Moved` is the sequence of disk addresses a transfer
touches, sector by sector and chunk by chunk, as `do_read_write_regular` cuts it.
References and names are `FileTable`'s; contents are left out.

### HardDisk

The driver is cut at every register access that the drive, its interrupt or the
clock can tell apart. The drive (external) is busy, offers or accepts one sector
at a time, raises one interrupt for each, and may hang with BSY set, idle or at work,
though not between offering a sector and its transfer. Its error bit is left out: the
driver looks at BSY and DRQ only. `get_ticks()` is a SEND_RECEIVE to the system task; it
gives the ticks, or never comes back (`TicksLost`), as when line 145 of `ipc.c` loses
a queue.
`hd_handler` and `hw_int_notification` turn the interrupt into one flag. The
partition walk is modelled with its recursion and the shared `hdbuf`; disks are
functions from sectors to partition tables. Sector counts and addresses have the
width of the registers (`COUNT_MOD`, `LBA_MOD`).

### Console

Positions are words of video memory, unsigned. `console_print_char` is cut where
the kernel can preempt the terminal task: before the store, before the test for a
full console, before the loop that brings the cursor onto the screen. The macros
without parentheses (`const.h:74-76`) are modelled as they expand. The kernel
prints on console 0 as one party (`pr["kernel"]`), and nothing else runs meanwhile.
Any character may be printed anywhere, a backspace at the beginning of a line too.

### Keyboard and Terminal

A key is a row of the keymap; `keymap` has a row for each kind of key (letter,
sign, pad key, modifier, lock, function key, E0 variant, Pause, PrintScreen).
`keyboard_handler` stores a byte through `p_head` and drops it when the buffer is
full. The terminal task takes bytes (`keyboard_read`), turns a complete code into a
key, queues it for the terminal that was shown when the call began, and hands
queued keys to the pending reader, with backspace, the end of a line and the
count asked for. After a lock key it is in `set_leds`, where `kb_ack` swallows whatever
the keyboard sends before its answer. Readers are served directly, but the SEND of
RESUME_PROC is a step of its own (`Resume`), which may never be taken: FS is in
`Services`. `meant`, `line` and `dropped` are history variables: what was typed, what
was taken for a reader, and whether a byte or a key was thrown away. That happens when
the buffer or the queue is full, to keys behind Pause or PrintScreen in the same call of
`keyboard_read`, and in `kb_ack`.

## 3. Runs

Passing runs, with distinct states:

* **`ipc`** (14 thousand). Three processes, one of them an interrupt task, two
  bodies, every legal SEND and RECEIVE, an interrupt between any two statements.
  `FieldsAgree`, `NoSendCycle`, `AssertsThatHold` (positions 2, 6 and 9),
  `NoMissedInterrupt`, two properties of steps, `SendDelivers` and
  `ReceiveFromNamed`, and the refinement `ImplementsRendezvous`. Three processes
  give chains of SENDs through a third one, queues of two, and a sender that is
  itself sent to. The asserts of positions 1, 4, 5 and 8 *can* fail in this model:
  an interrupt between the test and the use makes 1, 4 and 8 fail (8 for the
  terminal when a clock tick falls between `has_int_msg` and `RECEIVING`), and the
  shared queue field makes 5 and the assert of line 205 fail. They stop the system,
  and they are what keeps `SendDelivers` and `NoMissedInterrupt` true. Links that
  form a cycle (`"hang"`) need four general clients.
* **`services`** (356 thousand): two users, FS, terminal, with reads, writes and
  seeks. `AnswersOnlyCallers`: FS never answers twice or somebody who did not ask,
  even when it takes a RESUME_PROC for the terminal's answer.
  `StopsOnlyForReads`: the servers run into `check_deadlock`, or into a message
  they do not expect, only once a read has been suspended. (Then they do: the terminal
  may send RESUME_PROC while FS sends it a device request.)
* **`services_writers`** (92 thousand): the same without reads; under fairness
  `KeysDrained`.
* **`scheduler`** (18 thousand): four slots with priorities 3, 1, 2, 3, one of which
  never blocks. `TicksBounded`, `ReadyIsRunnable`, and under fairness `NoStarvation`,
  `ScheduleEnds`. `NoStarvation` has one exception, which the code does allow: a process
  whose ticks are taken again and again by clock interrupts inside `schedule()`, while
  it is the candidate (`Robbed`).
* **`procmgr`** (674 thousand): INIT and three slots, memory for three or four.
  `ParentsLive`, `NoMissedExit`, `TargetInCall`, `AnswerFindsReceiver` and, under
  fairness, `PmReturns`: PM comes back to its loop, unless FS never answers it or it
  sends to the one process whose RECEIVING `do_wait` has overwritten. Four slots suffice for grandchildren, adoption by INIT
  of live and of dead children, a full table, and slots used again.
* **`filetable`** (415 thousand): two processes with two descriptors each, two
  shared descriptors, three cache slots, two file names, three inodes, a directory of
  up to three entries, two in a sector; the root stands for special files.
  `DescriptorsShared` (the counts of descriptors and of cached inodes are exact, up to
  the references a refused unlink keeps), `OpenFilesExist`, `CachedOnce`,
  `EntriesOwnInodes` (whatever happens to sizes and names, no two entries share an inode
  and none has a free one), `FilesStay`. The descriptor tables and the inode map can be
  full (the cache, with a slot for each inode, cannot; its panic changes nothing but
  `halted`); the directory grows, gets holes, shrinks over live entries, is truncated,
  overwritten, and grows again over what is still there.
* **`filedata`** (113 thousand): three files, two descriptors, sectors of two bytes,
  bytes of two bits, files of two sectors, `cmd.tar` of three behind a gap.
  `MapMatchesFiles`: the map has exactly the bits of the files, which do not
  overlap. `TransferExact`: a transfer within the file moves the right bytes, in
  order.
* **`harddisk`** (216 thousand): three disks, requests of 1, 4 (the register wraps to
  0, which stands for all of them) and 5 sectors, a drive that may hang,
  a `get_ticks()` that may be lost. `InStep`, `AnsweredFromPartition` and, under fairness, `Served` and
  `FailureNoticed`.
* **`console`** (1.0 million): two consoles of five characters with screens of two by
  two. `AssertsHold` (except where the kernel interferes), `ShownIsCurrent` and, under
  fairness, `PrintEnds` (except when a backspace has put the cursor above the screen).
* **`terminal`** (234 thousand): six texts with Shift, Caps Lock, Num Lock, pad,
  backspaces, Pause, PrintScreen and Alt+F1; two terminals, three readers, two of
  them on one terminal; a buffer of three bytes and queues of two keys.
  `KeysAsTyped`, `LineDelivered`, `ReadersKnown` and, under fairness,
  `EnterEndsRead`.

Runs in which the code does not do what a comment says:

* **`services_queue`** (`SenderQueued`): when FS itself has to queue for a user that
  is not receiving yet, line 145 of `ipc.c` clears the head of its own queue. Its clients are
  SENDING and no longer in the queue.
* **`filedata_overrun`** (`WrittenIsAllocated`): a write that goes past the sectors
  of its file writes the first sector behind it, which may be another file's.

Nine further configurations, to be run by hand, show other places where the code does
less than its comments or its readers expect; TLC reports a violation of the one property each of them names:

* `MCServicesLost.cfg` (`ReceiverHasMsg`): a tick between line 115 and lines 119-123
  of `ipc.c` completes the terminal's RECEIVE with HW_INT; SEND goes on, clears the
  flags and succeeds, and its message is nowhere. (`Overtaken` of `Rendezvous`.)
* `MCServicesAnswer.cfg` (`OwnAnswer`): FS waits for the terminal, gets the RESUME_PROC of
  another process's read, and the counts are equal: the assert of `read_write.c:45`
  passes and FS gives its caller the other process's message for an answer.
* `MCProcMgrWaitersHaveChildren.cfg` (`WaitersHaveChildren`): a released slot keeps
  `p_parent`; `do_wait` counts it and suspends a process without children.
* `MCProcMgrBlockedUntilUnblocked.cfg` (`BlockedUntilUnblocked`): RECEIVING, set
  between the load and the store of `|= WAITING`, is lost.
* `MCFileTableDir.cfg` (`EntryFound`): create a, b, c, remove a, then c: the
  directory now ends before b. Removing b releases its inode and fails
  `assert(de_found)`; creating a file would overwrite b's entry.
* `MCFileTableLeak.cfg` (`InodesShared`): a refused unlink keeps its reference.
* `MCTerminalBuffer.cfg` (`BytesInBuffer`): `kb_in.p_head` and `p_tail` start as null
  pointers (`keyboard.c:20`), so the first bytes are not in the buffer.
* `MCTerminalLost.cfg` (`LostOnlyWhenFull`): with no buffer full, `kb_ack`
  (`keyboard.c:297`) throws away bytes of keys; so does `keyboard_read` with keys behind
  a Pause or PrintScreen.
* `MCConsoleBackspace.cfg` (`PrintAlwaysEnds`): a backspace behind the first character of
  a screen that has scrolled puts the cursor above it; on a console that was never full,
  the loop of `console.c:78` scrolls down for ever and does not find it.

### What the properties had to leave out

Writing the properties so that they hold showed where the code does less than one
would expect. These are facts of the model that no run states on its own:

* A request for more than 256 sectors never ends: the count register has 8 bits and
  the driver waits for interrupts of the others (`hd.c:82`; `Served`). Waiting for
  an interrupt has no time-out (`hd.c:302`), and a status wait that begins less than
  the time-out before `sys_ticks` wraps never times out (`hd.c:313`;
  `FailureNoticed`).
* Third and later logical partitions are placed wrong, since each link is added to
  the last one instead of the start of the extended partition (`hd.c:205`;
  `AnsweredFromPartition` is about the first two). FS never sends DEV_CLOSE.
* `w_console_size` is 10922 for want of parentheses, so consoles overlap in video
  memory (`const.h:74-76`, `console.c:20`). The assert of `console.c:39` can fail when
  `printl` preempts the terminal task on a full console 0 (`AssertsHold`).
* Alt+Fn switches the console at once, but keys found in the same call of
  `keyboard_read` still go to the old terminal; a Pause or PrintScreen makes that
  call skip what follows (`keyboard.c:51`, `62`). Right Alt is taken for the left
  one (`keyboard.c:156`). A read of no bytes is never resumed (`task_tty.c:162`).
  A second reader of a terminal takes the place of the first, who is not resumed
  (`task_tty.c:178`; `ReadersKnown`).
* A read is not limited by the size of the file: at its end it returns stale bytes,
  and moves the size (`read_write.c:71`, `90`; `TransferExact` is about transfers
  within it). A run of free sectors that is interrupted fails an assert
  (`open_close.c:225`), and the map has bits for sectors behind the partition
  (`open_close.c:208`).

A further point that no run states as a property: fork copies `proc_state`, so a
parent that has sent FORK and not yet reached its RECEIVE gives a child that is
RUNNABLE before its memory exists; and if the parent blocks in the middle of the copy,
the child is RECEIVING with registers from before its RECEIVE, executes it again once
PM's birth message has come, and waits for ever (`ForkCopyState`).

Deadlock checking is off where the system may stop for good: general clients may
all wait for each other, a terminal may wait for a key for ever, and a panic ends
everything. `scheduler` checks it.

### Fairness

* `Services`: a system call in progress goes on and the clock ticks while
  `key_pressed` is set (weak fairness); FS and the terminal get the CPU again and
  again while they can go on (strong fairness, since each user's system call
  disables them for a while). The latter is what `NoStarvation` says of the
  scheduler, but for its exception.
* `Scheduler`: `schedule()` goes on (weak), and the clock, which knows nothing of
  system calls, does not always hit kernel mode (strong). Where in `schedule()` ticks
  fall is not restricted: one that falls there is charged to the candidate of the
  moment, which can lose its whole quantum without running, and when that happens again
  and again the process starves. `NoStarvation` names this (`Robbed`) and excludes
  everything else.
* `ProcMgr`: PM goes on, and a process that has sent its request reaches its
  RECEIVE (weak), again by `NoStarvation`. Nothing is assumed of FS, in whose queue PM
  can be lost (`SenderQueued`). `PmReturns` says where PM can stay for ever: in its
  calls to FS, and in a SEND to a process that `do_wait` made forget its RECEIVING.
* `HardDisk`: the driver goes on, a drive that has not failed gets ready, its interrupt
  is handled, the clock ticks (weak). The polling loops, whose conditions come and go
  with the clock, meet a condition that keeps coming up, since they are executed many
  times in a tick (strong), as long as the system task answers: that it does is not
  assumed (`TicksLost`).
* `Console`: the kernel finishes what it prints (weak), and the terminal task gets the
  CPU again and again between the kernel's prints (strong).
* `Terminal`: the keyboard's interrupt is handled and the terminal task goes on
  (weak); its RECEIVE, which requests of other processes compete with, gets the
  notification of a key at some time (strong): `has_int_msg` is examined before
  the queue of senders. That the keyboard answers `set_leds` and that the SEND of
  RESUME_PROC ends is not assumed; `EnterEndsRead` excludes staying there for ever.

### Bounds

`MaxKeys` (lines in the keyboard buffer, 1: the buffer is empty or full),
`MaxLeak` (1 for each slot: enough for a slot that is never free again), `MaxEntries` (3:
as many entries as inodes, in two sectors), `MaxRead` (1: how far reads through a
descriptor of the root make it grow; with 3, which takes 909 thousand states, the
properties hold as well), `OpenRoot` (whether the root is truncated and read past its
end), `MaxOpens` (2: first and later opens of a drive), `MaxLen` and `MaxPos` (3 and 4 bytes: transfers over two
sectors of two bytes, over the end of the file and of its sectors), the sizes of the
tables and the sets of processes, users, bodies, names and texts in each `.cfg`.
`HD_TIMEOUT` 2 and `MAX_TICKS` 4 let the tick counter wrap within and between waits.
`COUNT_MOD` 4 stands for 2^8, `LBA_MOD` 16 for 2^28, `WORD_MOD` 10 for 2^32. The
consoles of the instance have two and a half lines (5 words, 2 a line), as the real ones
have a part of a line left over (10922 words, 80 a line): scrolling line by line steps
over the end of the ring, and the start of the screen then runs through all words of the
video memory. That is why addresses wrap at its size in this instance. `PrintEnds` and
the two invariants also hold for consoles of four whole lines (`VIDEO_MEM_SIZE` 16,
`WORD_MOD` 32).

## 4. Proofs

Proofs are for all values of the constants that satisfy the assumptions named in the
modules:

* `ConstantsAssumption` (`Ipc`): interrupt tasks are processes, and the special values
  are distinct and no processes.
* `ServicesAssumption`: the processes are the users, FS and the terminal, the terminal
  alone is notified of interrupts, and messages have one of the types FS and the
  terminal know. Any number of users.
* `SchedulerAssumption`: positive priorities and at least one process that never
  blocks, the APPs of `init_process`.
* `ProcMgrAssumption`: at least one slot, and no slot is NO_TASK.
* `FileTableAssumption`, `NewRootAssumption`: finitely many processes, tables with at
  least one entry, and what mkfs installs has distinct names and fits into the inodes.
* `FileDataAssumption`, `InstallFits`: sizes are positive, `cmd.tar` lies behind the
  root directory, and the assert of `create_cmd_dot_tar` (`fs.c:145`) holds: its
  sectors are on the disk and so have bits in the map.
* `HardDiskAssumption`: tables of at least two entries with natural numbers in them,
  minor numbers of the first drive.
* `ConsoleAssumption`, `ScreenFits`: at least two consoles, each with room for a screen
  and for what the boot loader has printed.
* `KeyboardAssumption`, `TextsAssumption`: the keyboard buffer has at least one cell,
  and what is typed are keys the driver's table has, each pressed or let go, in any
  order and number.
* `TerminalAssumption`: at least two consoles, a key queue of at least one entry, each
  reader has one terminal open and asks for a natural number of bytes.

Every safety invariant is a part, or a consequence, of an inductive one; there is one
lemma per action, and the theorem follows by temporal logic.

**IpcProofs.** `TypeCorrect`, `FieldsAlwaysAgree`, `SendsNeverCycle`,
`AssertsHold`, `InterruptsNotMissed`: `Spec => []P` for `TypeOK`, `FieldsAgree`,
`NoSendCycle`, `AssertsThatHold`, `NoMissedInterrupt`. None is inductive alone.
The invariant `IInv` adds

* `CallOK`: the call in progress names a process and a legal peer;
* `CallerState`: what the call has established by each point and an interrupt
  cannot take back: the caller is idle until it becomes RECEIVING, a receiver
  once found is not SENDING, at `snd_clear` its pointer has been cleared;
* `PendingOnlyInCall`: an interrupt is recorded for a task that waits for one
  only between `pid_recvingfrom` and the asserts of position 8.

`NoSendCycle` is about every set of processes; `NoCycleShrink` says that ending SENDs
closes no circle, `NoCycleSend` that a new SEND closes none when the set of processes
`check_deadlock` visits, closed under "sends to", does not hold the sender. Nothing is
assumed about the queue links, which may be wrong: the proof only needs that they point
to processes.

`SendsDeliver`, `ReceivesFromNamed` (`Spec => SendDelivers`,
`Spec => ReceiveFromNamed`) and the refinement `IpcImplementsRendezvous`
(`Spec => ImplementsRendezvous`) rest on `DInv`, which adds to `IInv`

* `SourceIsSender`: the buffer of a process that sends has that process as source;
* `Handover`: while SEND hands a message over, the receiver still waits for this
  sender, and after the copy has the message, or is an interrupt task whose wait a
  notification has ended;
* `OnlyIrqTasks`: interrupts are recorded for interrupt tasks only.

`Mapping` shows that the cases of the mapping exclude each other (`MappingFacts`).
Entries of calls map to offers, `SndClear` and `TakeFrom` to `Meet` (or `Overtaken`),
`HwInt` to `Notify`, what lies between them to stutters, asserts to `Stop`.

Of `Services`, the same module proves `AnswersAlwaysAwaited` (`AnswersOnlyCallers`) and
`StopsAlwaysForReads` (`StopsOnlyForReads`). The servers are looked at through the
refinement: what matters of a process is its program counter, its offer and its
message, not flags and links. The invariant `SInv` has, while nothing has halted,

* `UserPlaces`, `FsPlaces`, `TtyPlaces`: which offers a process makes at each point;
* `InTransit`, `Received`: what can be in a message that is offered or was received;
* `OneKeeper`: a user's call that is not answered yet is with the terminal or with FS,
  never with both, except while the terminal's SUSPEND_PROC is on its way.

The last part is why no call is answered twice; the second is why no message is met
where it is not expected unless a read was suspended.

**SchedulerProofs.** `SchedTypeCorrect`, `QuantumBounded`, `ScheduledIsRunnable`
from `SchedInv`: types, `TicksBounded`, and that a scan with `greatest_ticks > 0`
has a runnable candidate. The candidate stays runnable during the scan because
interrupts only make processes runnable.

**ProcMgrProofs.** `TypeCorrect`, `ParentsAlwaysLive`, `ExitNeverMissed`,
`TargetsInCall`, `AnswersFindReceivers`. The properties about an idle PM are not
inductive, since PM is preempted in the middle of everything it does. `PInv` adds

* `FlagsAgree`: the combinations of flags there are, and where in its call a process
  with them is;
* `PointState`: what PM knows at each point of fork, exit and wait about the processes
  it works on, which the others cannot destroy;
* `ParentsThere`: the parent of a process lives and is no zombie, except that the
  children of a process that has just exited are still to be adopted;
* `WaitersMissNothing`: `NoMissedExit` at every point, not only when PM is idle;
* `InitStays`, `NotOwnParent`.

**FileTableProofs.** `CountsAlwaysExact` (`DescriptorsShared`),
`OpenFilesAlwaysExist`, `InodesCachedOnce`, `EntriesAlwaysOwnInodes`, the step property
`FilesAlwaysStay` and type correctness. `TInv` adds to the invariants

* `CopiesMatch`: a child that FS has not heard of has the pointers of its parent, and
  there is at most one such child; this is what makes the counts exact again when FS
  counts them;
* `CachedAllocated`: what is cached is allocated.

`EntriesOwnInodes` is itself about the entries past the end of the directory too, which
the lookup may find and truncation or reads of the root may bring back. Nothing is
needed about names, which may be stale or repeat.

The counts are cardinalities, so most lemmas are about adding elements to finite sets
and removing them.

**FileDataProofs.** `MapAlwaysMatches` (`MapMatchesFiles`). `ClearsRun` is the lemma
about `clear_sector_map_bits`: the bits in the first byte, the whole bytes and the bits
left over are exactly the run that was asked for, for any size of a byte and wherever
in a byte the run begins and ends. `FInv` says where files are (`Placed`), that open
ones exist (`Opened`), what each bit means (`BitsInUse`), that files do not overlap
(`Apart`) and that unlink's asserts have not failed. `TransferAlwaysExact`
(`TransferExact`) needs of the state only `FInv` and that positions and sizes are never
negative (`Positions`). The rest is about the loop of `do_read_write_regular`: one round
appends the bytes of one chunk to a run that ends where the chunk begins (`OneChunk`),
so that after any number of rounds there is one run from the position on (`AllChunks`,
`TransferIsRun`), for any sizes of sectors and chunks and wherever in a sector it begins
and ends. `AllChunks` is an induction over the rounds of a recursive function, done from
a least round at which the claim would fail (`LeastMember`, which follows from the
library's `WFMin`).

**HardDiskProofs.** `AlwaysInStep` (`InStep`) and `AlwaysAnsweredFromPartition`
(`AnsweredFromPartition`). For the first, `DInv` says for each point of the driver what
the drive is doing, how many sectors it has left, which are never more than the driver
expects, and that exactly one thing announces the interrupt the driver waits for: the
busy drive (which may have hung), its line, or the message (`Announced`). Whenever no
command is running the drive is at rest or hung. For the second, `GInv` adds

* `WalkKnows`: while the tables are read, all entries before the one the walk is at are
  known, and where in a chain the walk is;
* `TablesKnown`, `DriveKnown`: once the drive is open, `hd_info` agrees with the tables
  on the disk for every partition the property is about;
* `Serving`, `Progress`, `Answered`: what was moved so far is the beginning of what was
  asked for, and the drive is at the address of the next sector.

`EntryOf` and `MinorEntry` are the arithmetic of the entries of logical partitions,
`NextAddress` that of the address registers, which wrap.

**ConsoleProofs.** `AssertsAlwaysHold` (`AssertsHold`) and `AlwaysShowsCurrent`
(`ShownIsCurrent`). `CInv` adds `CursorInside`, that the cursor has left its console
only between the switch of `console_print_char` and the test behind it, and
`ShownUnlessPrinting`, that the controller shows the current console whenever nobody is
in the middle of changing it. Nothing is assumed about how consoles and lines divide
(see *Bounds*): these two properties hold for consoles of any size.

**TerminalProofs.** `TerminalTypes`, `ReadersAlwaysKnown` (`ReadersKnown`),
`LinesAlwaysDelivered` (`LineDelivered`), `KeysAlwaysAsTyped` (`KeysAsTyped`). The first
three follow from `ReadInv`:

* `ReadersInv`: a terminal with bytes left to give, or one that is about to resume its
  reader, has a suspended reader of its own, and what it has given and has left to give
  add up to what was asked for;
* `LineInv`: the buffer of each reader begins with the line that its keys write, as
  long as the counts say, whether the read has ended or not.

What a line is (`Edited`) is defined by recursion over the keys. `LinesExist` and
`LinesUnique` show that it has one value, `EditedAppend` that one more key is one more
step of editing; all three from a least counterexample, as above.

`KeysAlwaysAsTyped` is about what the driver makes of bytes that may arrive in the
middle of a key's code, with another key's bytes behind them, and of modifiers that
may have changed meanwhile. `KeysInv` says that, as long as no key was thrown away (by a
full buffer or queue, behind Pause or PrintScreen, or by `kb_ack`), the
bytes under way (in the driver, in the buffer, on the wire) can be labelled: each byte
with its key, the key's code and the place in it, the modifiers before it and what is
written before it (`Labelled`). The labels at the first byte agree with the driver's
modifiers and with the queue, those at the last with the keys held and with what was
meant (`Between`); the ring `kb_in` holds the bytes in order (`Buffered`). `QueuesInv`:
only the terminal the TTY task is at has keys in its queue. That the codes can be told
apart byte by byte is `BeginningUnfinished` and `WholeCode`, that the driver's table and
the meaning of a key agree is `KeyTable` and `KeyWritten`.

**Only model-checked**:

* everything about liveness (`KeysDrained`, `NoStarvation`, `ScheduleEnds`,
  `PmReturns`, `Served`, `FailureNoticed`, `PrintEnds`, `EnterEndsRead`), which is out
  of the prover's reach;
* the properties that are violated (`SenderQueued`, `WrittenIsAllocated`).

Every invariant and every step property of a passing run is stated by a theorem.

## 5. Not modelled

* Boot loaders, protection set-up, register saving: straight-line code or hardware
  set-up.
* `printf`, strings: text formatting. The disk log is compiled out.
* The system task answers each request from a counter or a table and keeps nothing;
  to its callers it is what FS is for a seek in `Services`.
* exec reads an image and sets up a stack; it changes no field the models have.
* Shell and applications: clients; the models have more general ones.
* Of the keyboard driver, that the interrupt handler may take the very answer `kb_ack`
  waits for (`keyboard.c:297`) and put it into the buffer; `init_keyboard` but for the
  pointers it leaves unset.
* Writes through a descriptor of the root directory, which put there whatever the process
  likes, and the error bit of the drive, which the driver never reads.
* Characters in video memory, contents of files, texts of messages.
* `sys_ticks` and `m_delay` in the scheduler (`HardDisk` has the wrap of `sys_ticks`).
* Addresses and segments: that `m->type` is read before the address is translated
  (`ipc.c:15`), and stores through null pointers (`open_close.c:113`).

## 6. Plan

Done, in the order of importance: IPC with its proofs and its refinement of the
rendezvous, the servers on top of it, the scheduler, the process manager, the files and
their sectors, the disk driver, the keyboard with the terminal, the consoles; proofs of
the safety properties of all of them.

Next: path names, stat and the super block; exec, if its argument stack is of interest.
