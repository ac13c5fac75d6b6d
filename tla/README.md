# A TLA+ model of 2Y_OS

2Y_OS is a teaching operating system for the i386 in the style of Orange'S and
Minix: a small kernel that knows processes, interrupts and synchronous messages,
and five tasks (TTY, SYS, HD, FS, MM) that do everything else as servers.  This
directory models its concurrent and stateful core, checks it with TLC and proves, with
TLAPS, the message passing, also with interrupts between its statements, the entry to and exit
from the kernel, fork, exit and wait, the reference counts and names of the file system, its
sectors and what is in them, who answers whom between programs, FS and TTY, paging with
copy-on-write, and the disk driver as an implementation of what it promises FS.  Line numbers
below are those of this commit.

    tlc -workers 2 -config MCIpc.cfg MCIpc      # any run: <cfg>, <module>
    tlapm IpcProofs.tla                         # 2281 obligations
    tlapm KernelEntryProofs.tla                 # 3683
    tlapm ForkExitProofs.tla                    # 1592
    tlapm FsDirProofs.tla                       # 4919
    tlapm FsSectProofs.tla                      # 6085
    tlapm TtyFsProofs.tla                       # 1200
    tlapm PageMemProofs.tla                     # 2414
    tlapm HdProofs.tla                          # 6104

`PROJECT.json` lists the runs, what each definition models (`map`), the hazards
of the code and the properties that watch them, and for each property a mutant of
the model: an operator that changes one definition the way a plausible bug would,
and that breaks the property.  The mutants stand in the modules, before what they
change.

## 1. The system

### Parts, their state and how they interact

| part | code | state | operations |
|---|---|---|---|
| message passing | kernel/proc.c, lib/misc.c | p_flags, p_msg, p_recvfrom, p_sendto, q_sending / next_sending, has_int_msg of each entry of proc_table | sys_sendrec (msg_send, msg_receive), inform_int, send_recv |
| kernel entry and exit | kernel/kernel.asm, i8259.c, kliba.asm | the kernel stack, k_reenter, tss.esp0, the stackframes in proc_table, the masks of the 8259 | save, restart, sys_call, hwint_*, page_fault, exceptions, disable_int, put_irq_handler |
| scheduler, clock | kernel/proc.c, kernel/clock.c | ticks and priority of each process, p_proc_ready | schedule, clock_handler |
| MM: processes | mm/forkexit.c, mm/main.c | proc_table (p_parent, exit_status, WAITING and HANGING in p_flags) | FORK, EXIT, WAIT |
| MM: memory | mm/memory.c, mm/main.c, mm/exec.c, mm/break.c | page_table (uses of each frame), the page directory, regions, brk | page faults, copy_on_write, alloc_mem, free_mem, EXEC, BRK |
| FS: names, inodes, descriptors | fs/open.c, link.c, misc.c, fs_stat.c, main.c | inode map, inodes and directories on disk, inode_table, f_desc_table, filp, pwd and root | OPEN, CLOSE, MKDIR, UNLINK, CHDIR, STAT, FORK, EXIT |
| FS: sectors | fs/read_write.c, open.c, link.c, main.c | sector map, zones, file data | READ, WRITE, LSEEK of files, mkfs; the sectors of OPEN and UNLINK |
| FS: character devices | fs/main.c, read_write.c | the request of a suspended caller | READ, WRITE, SUSPEND_PROC, RESUME_PROC |
| TTY | kernel/tty.c | a buffer and one reader per terminal, key_pressed | DEV_READ, DEV_WRITE, HARD_INT |
| keyboard | kernel/keyboard.c | keyboard buffer, modifiers, locks, the key being read | keyboard_handler, keyboard_read, set_leds, kb_ack |
| console | kernel/console.c | video memory, console_table, the CRT controller | out_char, scroll_screen, select_console, flush |
| HD | kernel/hd.c | hd_info, hdbuf, hd_status | DEV_OPEN, DEV_READ, DEV_WRITE, DEV_IOCTL, the interrupt |
| SYS | kernel/systask.c | none | ticks, pid, time |
| boot of FS | fs/main.c | what is on the root device, super_block | init_fs, mkfs |
| untar | kernel/main.c | what of cmd.tar is in the root directory | untar, in INIT |
| boot, shell | boot/, kernel/main.c, protect.c, start.c | proc_table at the start | kernel_main, Init() |
| getcwd | lib/getcwd.c, dir.c, readdir.c, seekdir.c, closedir.c | the caller's directory, a stream, the names found | getcwd, opendir, readdir, rewinddir, closedir |
| user library, commands | lib/, command/ | the heap of one process | |

Interactions.  A user process calls FS, MM, TTY or SYS with send_recv(BOTH): a
SEND and a RECEIVE, two system calls with a point of preemption between them.  MM
calls FS for fork, exit and exec; FS calls HD and TTY; TTY calls FS back when a
line is complete.  Interrupt handlers do not send: inform_int wakes a task that
waits for ANY or INTERRUPT, or latches has_int_msg.  Besides messages the tasks
share memory: MM writes the p_flags and the whole entries of other processes, FS
the filp and pwd in them, clock_handler reads TTY's key_pressed, and any ring-1
task writes user memory through phys_copy, with the write protection of pages not
enforced on it (CR0.WP is clear) unless it calls verify_area first.

What is hard: interrupts between any two statements of a system call (`sti` in
sys_call, kernel.asm:434); a fork that copies the entry of a process at any point
of its call; exits, waits and adoptions in any order; pages shared by several
forks; two tasks that send to each other; reference counts that five operations
of several processes move; keys and clock ticks against a task that reads; interrupts
inside interrupts on one kernel stack; a drive whose interrupt comes early or late; a
power failure between two sectors.

What makes each part correct is the list of properties in section 3.

### Inventory of modules

| module | models | state in the code |
|---|---|---|
| `Rendezvous` | what message passing promises | abstract: an offer and a want per process, a latch per task |
| `Ipc` | sys_sendrec, msg_send, msg_receive, deadlock, inform_int, send_recv(BOTH) | the fields of proc_table by their names; inbox is the buffer of each process |
| `IpcWindow` (extends Ipc) | the same calls with interrupts between their statements | kcall: the call inside the kernel; owed, dropped (ghosts): interrupts not yet told, and lost |
| `IpcProofs` (extends IpcWindow) | theorems about both | |
| `Sched` | schedule, clock_handler, block, unblock, as actions for KernelEntry | ticks, p_proc_ready, the runnable set |
| `KernelEntry` (extends Sched) | save, restart, sys_call, hwint_*, page_fault, exceptions, the 8259 | stack: the entries not left; regs, k_reenter, esp0, frame, imr, irr |
| `KernelEntryProofs` (extends KernelEntry, Keyboard) | theorems about both | |
| `ForkExit` | do_fork, do_exit, cleanup, do_wait, task_mm's loop, fork/exit/wait of lib/ | p_flags, p_parent, exit_status, filp, fd_cnt; mm is the point MM has reached |
| `ForkExitProofs` (extends ForkExit) | theorems | |
| `PageMem` | mm/memory.c and its callers | memory: page directory, entries, page_table, free counter; tlb: translations taken back and still in use |
| `PageMemProofs` (extends PageMem) | theorems | |
| `TtyFs` | task_tty and the device half of task_fs | fs, tty: their points; the buffers and the reader of one terminal |
| `TtyFsProofs` (extends TtyFs) | theorems | |
| `Keyboard` | keyboard.c, and in_process's choice of what a key does | wire, port, kb_in; at: where TTY is; mods |
| `Console` | console.c, echo and write of tty.c, printx's way to the screen | con, cells (the video memory), hw (the CRT controller); job: where TTY and the kernel are |
| `FsDir` | names, inodes, descriptors of FS | imap, inode, i_cnt, f_desc, filp, pwd |
| `Getcwd` (extends FsDir) | getcwd and the directory streams of lib/ | cwd: where the call is, its stream and names |
| `FsDirProofs` (extends Getcwd) | theorems | |
| `FsSect` | sectors and zones of regular files, their bytes, mkfs | smap, the disk, inodes on it and in inode_table, fd_pos |
| `FsSectProofs` (extends FsSect) | theorems | |
| `Disk` | what the disk driver promises FS | abstract: disk, buffer, request, sectors done |
| `HdDriver` | task_hd, its interrupt, and the drive | pc, job, walk (partition()), hd_info; irq, has_int, drive, disk |
| `FsBoot` (extends HdDriver) | init_fs and mkfs, power failures; the refinement of `Disk` | stage and todo of init_fs |
| `Untar` (extends FsBoot) | INIT unpacking cmd.tar | init: where it is; the rest is on the disk |
| `HdProofs` (extends Untar) | theorems | |

The `MC*` modules give the constants.  What composes what: KernelEntry runs the actions of
Sched; FsBoot sends its requests to HdDriver, and Untar its files through FsBoot, so that
the run `fs_boot` is the whole column INIT - FS - HD - drive.  ForkExit and TtyFs take the
message passing from Ipc in reduced form: a SEND blocks until the receiver takes it, and
the senders of one receiver wait in order (ExactlyOnce and MessagesInOrder of
Ipc are what justifies that).

## 2. How the modules read the code

**Ipc.**  A system call runs with the kernel entered, so clock_handler returns at
k_reenter and no other process runs: each path of msg_send and msg_receive is one
action, with its assertions as a condition whose failure is `Halt`.  Halting keeps
the rest of the state, as panic() and a failed assertion do.  Any runnable process
may make any call at any time, which covers every server and client.  Reading
proc_table[INTERRUPT], an entry before the table (a RECEIVE from INTERRUPT at
proc.c:403 takes its address), is modelled as an entry that is not sending; SEND to ANY
or INTERRUPT has no caller and is not modelled.

**IpcWindow.**  The three paths that share fields with inform_int are cut at each of
their statements that touches one: in msg_receive the test of has_int_msg, the copy of HARD_INT, the
clear and the last assertions (351-372), and the choice to block, the flag, p_recvfrom and the last
assertions (458-488); in msg_send the choice of the receiver, the assertion on its p_msg, the read of
p_msg for the copy, the copy, p_msg = 0, the flag, p_recvfrom (264-290).  InformInt may run between
any two of them.  An interrupt in the middle of phys_copy counts as one before or after it.
An interrupt between 351 and 367 is taken along by the clear: the HARD_INT on its way is
told after it, and the task looks at its device then.  One between 367 and 372 stops the machine.
`owed` and `dropped` (ghosts) hold the tasks with an interrupt since they were last told,
and those of them whose HARD_INT msg_send's two windows lose.

**Sched and KernelEntry.**  An entry into the kernel is a frame of `stack`: what it is,
whether its C code has run, where save left esi, what save pushed, and whether it returns
to restart or restart_reenter.  Registers are abstracted to whose they are and to
eax, which is either the process's own or the result of its call; `owed` (ghost) is the eax
each process is to find.  Interrupts are taken before the next instruction whenever
the flag and the masks allow (`Quiet`), the clock before the others.  A handler's C
code is one step, UserTick or KernelTick by k_reenter for the clock; so is the body of a
system call, which blocks the caller, unblocks another or does neither (Ipc says
which).  A page fault's C code comes and goes in one step, as interrupts are off in it.  Any other
exception stops the machine (`hlt` with interrupts off).  The order of the scan in
schedule (the last entry wins a tie) is the code's.

**ForkExit.**  MM's handlers are cut where MM calls FS or sends, since clients run
then; a client may be preempted anywhere, also between its SEND and its RECEIVE.
`told`, the ends already reported, is a ghost.  do_fork's copy takes all of the
parent's entry, p_flags included, as proc_table[child] = *p does.

**PageMem.**  The routines are operators from memory to memory; a loop is
a function of its rounds, in the order of the code, with its early `continue`s and
jumps.  MM and the fault handler are not interleaved with each other (section 6).
All processes share one CR3 and a task switch does not load it, so a translation the CPU has used
lasts until invalidate(), which do_no_page and un_wp_page call and copy_on_write and free_page_tables do
not.  `tlb` holds up to TlbSize translations that the tables have taken back (Superseded) and the CPU may
still use; it keeps or drops them as it likes (Kept), and a fault drops all.  A program's access
goes through the table or through `tlb`.  A task stores after
verify_area (Stores), as HD, SYS and the copies of messages do, or without (StoresBlindly), as FS, TTY,
printx and inform_int do.

**TtyFs.**  One terminal; a key is a character, Backspace or Enter.  FS and TTY
are cut at their SENDs and RECEIVEs; Key and Tick are the two interrupt handlers.

**Keyboard.**  Bytes travel from the keyboard (`wire`) to the port, by the interrupt handler to
kb_in, and from there to TTY, which is a step for each byte it takes, since it spins for the
rest of a key with interrupts on.  set_leds sends a byte and polls for the
acknowledgement, which the handler may read before it.  `make` starts uninitialised, as in the code.
`meant` and `user` are what the user typed and holds; `lost` marks where the code goes wrong
(section 5).

**Console.**  The video memory is an array of cells with a cursor and a window per
console; out_char is cut where it writes a character and at each turn of the loop that follows
the cursor.  scroll_screen is cut between its tests (Scroll) and its assignment (Move), which is relative
to the window of that moment or to the console's start, and flush at its reads and writes (FlushReads,
FlushCursor, FlushStart); select_console changes current_console and flushes.  printx of the kernel
may run between any two steps of TTY.  `paper` is what a
plain terminal of one screen would show.  `hurt` (ghost, section 3) is where the code goes wrong;
nothing is begun after that, but what has begun goes on.

**FsDir.**  FS serves one request at a time, and nobody else writes its tables
while a caller is blocked in it: a request is a step.  exec is four requests (tell_fs,
stat, open, close) with others in between.  Directories are kept entry by entry,
with free slots, the size that do_unlink lowers, and the entry beyond the size
that find_entry compares too; the contents of a chunk stay when it is freed and
given to another directory.

**Getcwd.**  getcwd goes up by chdir("..") and notes the name it finds in ".." for where it was, until
"." and ".." are the same, and comes down again by the names.  Each of its stat, open, close and
chdir is a request of FsDir; between two of them the other processes and MM make theirs.  A stream is
its descriptor, its position, and the entries read and not yet looked at, which may be stale by then.
`changed` (ghost) records that another process has changed a directory meanwhile.

**FsSect.**  The same requests seen from the disk, again one step each.  A sector is
its bit in the map, a byte is the file and position it was written for, so that one
put in the wrong place shows.  An allocation is an operator from map, disk and zones
to the same (AllocSecond, AllocThird, one for each level of alloc_zone; a loop is a
function of its rounds), and a read or write goes through the zones as rdwt_zones does, in whole
sectors from the one the position is in.  The inode in inode_table and the one on the
disk are apart, and closing forgets the first.  FsDir takes allocation of the first
eight sectors from here and FsSect takes names and inode numbers from there; they
share no other state.  `written` is a ghost.  mkfs clears one sector of inodes, eight of them
(fs/main.c:335-373), so the inode of a new file has whatever zones 8 and 9 the disk had:
these are the constant OldZones, and BlankDisk says that there are none.

**HdDriver, FsBoot, Untar.**  The driver is cut at each wait: for the status (a poll, which
the clock may end with a panic), for the interrupt (HARD_INT, latched in has_int when HD does not
wait), and for a sector.  The drive is what the driver relies on: busy after a command, an
interrupt per sector, READ's before its data and WRITE's after.  partition() walks the chain
of extended tables.  A sector is the set of things in it (a name of a super block, an entry, an
inode), a request of FS a list of sectors to read and write, in the order of the
calls of rw_sector.  Crash leaves the disk and starts the rest anew.  Untar gives every
write of create_file and of do_rdwt its own sector request; a removed or grown file does not occur there.

## 3. Runs: what they check and with which bounds

| run | states | properties |
|---|---|---|
| `ipc` | 223 000 | WellFormed, NoSendCycle, NobodySleepsInVain, AssertsHold, ExactlyOnce, MessagesInOrder, ImplementsRendezvous |
| `ipc_window` | 170 000 | WindowIsSound |
| `kernel_entry` | 432 000 | EntryConsistent, ContextKept, BoundedWait, NoStarvation |
| `page_fault_frame` | violation | EntriesAreWhole |
| `fork_exit` | 360 000 | NoUnheardZombie, MmCanReply, UserCodeIsWhole, WaitTellsTheTruth, CallsEnd |
| `page_mem` | 242 000 | UsesCounted, WritableIsPrivate, StoresArePrivate |
| `tty_fs` | 59 800 | SuspendedIsServed, RepliesMatchCalls, KeysAreRead, EnterEndsRead |
| `keyboard` | 377 000 | KeysFollowTheUser, TtyComesBack |
| `console` | 568 000 | ScreenIsTrue, OutputEnds |
| `fs_dir` | 239 000 | PointersCounted, HeldIsAllocated, NamesAreAllocated, GetcwdReturns |
| `fs_sect` | 277 000 | SectorsHaveOneOwner, InodeIsSynced, ReadsBack |
| `fs_boot` | 202 000 | InterruptsPaired, DiskIsFound, UnpackedIsWhole, ImplementsDisk, FsComesUp |

The type invariant of a module is the first conjunct of the first invariant of its run.

*ipc.*  Three processes, one of them informed of interrupts, two SENDs each: the
least with a cycle of three senders, a queue of two, and a call after a call.
Processes that take no interrupts are interchangeable (SYMMETRY over them; the
action property and the refinement are safety properties, for which it is
sound).  The proofs say the same for any number.  There is deadlock by design (all
wait in RECEIVE), so it is not checked as such; NoSendCycle and NobodySleepsInVain
say what must not happen.

*ipc_window.*  One SEND each: one call is inside the kernel at a
time, and what can meet is a RECEIVE or a SEND with interrupts, several of them if need be.

*kernel_entry.*  TTY, a task with a line of its own (HD) and an idle user process, with
priorities 2, 1 and 1 in place of 15 and 5; WaitBound is computed from the numbers.  Two
lines and the call make a stack of up to three: a handler, the clock in it, and the
call below.  The ghost `waited` is cut off one above the bound.  After an exception the
machine stands still, so deadlock is not checked.  FaultWords = 18: a page fault fits here.
*page_fault_frame* has what it takes, and finds it does not.

*fork_exit.*  INIT and three entries, so that a parent that is not INIT's child can
end before and after its own child, one fork by INIT and a shared descriptor.  The
system may stop: everybody may wait, or spin after the failed assertion in fork().

*page_mem.*  Three regions, so that a page has up to three users; two tables of three
entries each and five frames, few enough that memory runs out (the panic is reached);
the programs use the first two pages of a region (INIT's image has both), and exec the last one as well: image and stack.  TlbSize is 1:
one stale translation is what it takes for a write to go astray.  PageMemAssumption
asks for a page no program uses, as there is between data and stack; copy_on_write stops there, and not when
it is the last entry of a table, which it does not look at (section 5).

*tty_fs.*  Two programs, of which one reads (as the shell does, and nobody else), three keys: a line, a Backspace at the
start of one, and keys while TTY is busy; buffers of one and two so that both fill up.

*keyboard.*  Eleven of the fourteen keys modelled (a letter, shift and alt keys, both locks, a
console key, arrows of one and two bytes, PrintScreen and Pause), three presses or releases: a
modifier, a key, and its release or another key; a buffer of six bytes, which
PrintScreen and an arrow overflow.

*console.*  Two consoles of four lines of two cells, a screen of two lines, six characters:
the end of a console is reached twice, so that a full ring is written again;
scrolling in both directions and switching at any time between outputs, and printx at any time.
The texts are characters, newlines and Backspaces, which programs write too.
Assumed of the programs (ConsoleAssumption): a read is shorter than a screen less a line, so that
the Backspaces of its echo stay on it.

*fs_dir.*  Two processes, one terminal and two free inodes, so that a directory in a
directory, a file of the same name, two entries in use and their reuse occur; one
file per process and two descriptors; an inode table of three with four inodes, so
that its panic is reached; a sector of four entries, so that sizes below, at and
above its end occur.  One of the two calls getcwd at any moment outside an exec (`Callers`), with room for
one name (`MaxNames`), so that from a directory in a directory it fails on the way and has to
come back.  Assumed of the programs: none makes a file its directory,
truncates a directory, or removes one that is the ".." of another; section 5 says
what the code does then.  Assumed of the disk: the inode map does not fill up and
files do not contain what looks like directory entries.

*fs_sect.*  cmd.tar and two files, which are alike (SYMMETRY; the properties are
invariants).  Two bytes in a sector, one direct zone and blocks of two, so that a file
of four sectors uses all three levels and a write crosses levels; fifteen sectors beside
the reserved bit, of which eight are taken at the start and one such file takes the
rest, so that the map fills up and alloc_bit's and alloc_smap_bit's assertions
fail; two descriptors, so that do_open's panic is reached.  `Careful` is what is assumed
of the programs, since the code does something else otherwise (section 5): they read and
write from the start of a sector, end in the middle of one only where the file ends, grow
the third level by one sector at a time, remove only files that have not grown, and
leave cmd.tar as it is.  With Careful = FALSE the same run finds the violations.  untar itself is
not careful: it writes 16 sectors at a time, and a file of it past the second level loses some (section 5).
OldZones is empty in this run (BlankDisk); section 5 says what happens otherwise.
Each file has one descriptor at a time: sharing is FsDir's and ForkExit's.

*fs_boot.*  A disk of 23 sectors with a plain primary partition, an empty entry, and an
extended one with two logical partitions, of which the first is the root device; two files
in cmd.tar, so that the second finds the first's entry, inode and sector; two power
failures, so that one hits what the boot after the other has repaired; two requests of programs
after that.  HD_TIMEOUT is one tick, so that the polls do give up.  DiskIsFound begins with RequestsFit, which
the refinement rests on; the assumptions of the proofs are evaluated on this layout and archive.


### Exceptions in properties

Where the code goes wrong in a way section 5 describes, a ghost records that it has, and the
properties are stated of the rest:

* `hurt`: a console on which printx wrote while TTY was writing on it, scrolling it or selecting it;
  one that clear_screen ran into past the end of the console before it; one scrolled back around
  the ring and written onto its oldest lines; one with a Backspace over the top of the screen.
* `dropped`: an interrupt whose HARD_INT msg_send loses.
* `lost`: how Keyboard lost track.
* `torn`: the power failed in mkfs.
* `slipped`: it failed between a directory's entry and its size.
* `changed`: another process changed a directory during getcwd.

Two more exceptions are in the properties themselves.  StoresArePrivate is of areas that begin on a
page and of writes through the tables, not through a translation in `tlb`.  BoundedWait counts the ticks that are
charged in user mode: those that fall into the kernel charge and do not schedule (clock.c:48), and the code
sets no bound to them.

### Fairness

*KernelEntry*: weak fairness of the CPU (the kernel's next step, enable_int, an interrupt that
may be taken); strong fairness of the kernel at each depth, since interrupts leave each handler
some time; strong fairness of a tick in user mode: not every tick falls into the
kernel.  Without the last a process may starve, since such a tick charges but does not
schedule (clock.c:48).  *ForkExit*: MM is scheduled, a client that has sent goes on to its
RECEIVE (NoStarvation of KernelEntry), and INIT's loop calls wait(); no program is assumed to
call anything.  *TtyFs*: FS and TTY are scheduled, the clock ticks, clients reach their
RECEIVE; nobody is assumed to type.  *Keyboard*: the handler and TTY run.
*Console*: out_char goes on, in TTY and in the kernel, and so do scrolling and flush.  *FsBoot, Untar*: HD, its interrupt
handler, the drive, FS and INIT go on; the clock is not assumed to be punctual, nor the power to
fail.  All but KernelEntry's is weak fairness of steps that nothing but scheduling holds up.

OrphansAreReaped (in CallsEnd) is stated with an exception that the code needs: do_wait takes
the first hanging child of the table, so that an entry may be passed over as long as
lower ones keep ending.

## 4. What is proved

`IpcProofs` proves, for every set of processes, every set of interrupt tasks and
every MaxSends, from IpcAssumption alone (the special values are no processes and
differ):

* IpcInvariant: `IInv` holds in every reachable state;
* IpcTypeOK, IpcQueues, IpcWellFormed, IpcNoMissedRendezvous, IpcNoLostInterrupt,
  IpcNobodySleepsInVain, IpcExactlyOnce, IpcAssertsHold: the invariants of the run and
  their parts, each from IInv;
* IpcNoSendCycle: deadlock() lets no cycle of any length form;
* IpcMessagesInOrder: the action properties of MessagesInOrder (both halves of BOTH are with
  the same process, and nobody overtakes another in a queue);
* IpcImplementsRendezvous: Ipc implements `Rendezvous`.

No invariant of the run but TypeOK is inductive alone.  IInv joins TypeOK,
FieldsMatchFlags, QueueMatchesSenders, NoMissedRendezvous, NoLostInterrupt,
ExactlyOnce and AssertsHold: to fetch a sender one must know that an entry of the
queue is blocked with a message (QueueMatchesSenders, ExactlyOnce), to wake a
receiver that nothing else keeps it blocked (FieldsMatchFlags), to block that no
sender is overlooked (the queue holds all senders), and AssertsHold follows because
these facts are what the assertions test.  One lemma per action (SendDeliversIInv
... InformIntIInv), each with one step per conjunct the action disturbs;
EnqueueLemma, UnlinkLemma and OrderLemma say what the list operations do.

NoSendCycle is proved apart: only SendQueues adds an edge s -> d to the graph of
senders, and the guard (deadlock() follows p_sendto from d and does not come back to
s) says that the set it went through is closed and lacks s; a cycle after the step
would contain s, hence d, hence that set (SendQueuesAcyclic); FewerSenders handles
the steps that only remove edges.

The refinement maps an offer to the message of a SENDING process, a want to the
sources a RECEIVING one accepts, and the latch to has_int_msg; each action maps to
an abstract step, or to a stutter.

Its second part extends this to IpcWindow, whose calls an interrupt may enter between any two
statements:

* WindowInvariant: its `WInv` holds in every reachable state;
* WindowTable: WindowKeepsTheTable, the table is whole whenever no call is half done;
* WindowTells: InterruptsAreTold, no task sleeps through an interrupt but one that msg_send has lost;
* WindowHolds: WindowIsSound, both.

At each stage of the call in progress the invariant of Ipc holds but for the entry whose fields the
call is changing and for the count of the message on its way (InvBut); what is left out there is
said of the stage, and InformKeeps says what
an interrupt can do to it: wake the caller of a RECEIVE that has its flag and its source, or the receiver
of a SEND, even one whose p_msg is 0 already; the rest of the call finds an assertion that holds or stops
the machine.  InterruptsAreTold is from the same invariant and ToldLemma: a task with an interrupt
it has not been told of has it latched, or is in `dropped`.  Of a machine that an
assertion has stopped nothing is claimed.

`KernelEntryProofs` proves, for every set of processes, priorities and interrupt lines, from
SchedAssumption (numbers, finitely many, some of them never block) and EntryAssumption (a line
has a task; lines, the call and an exception differ):

* EntryInvariant: its `IInv` holds in every reachable state;
* EntryIsConsistent: k_reenter, the masks of the 8259 and tss.esp0 agree with the stack;
* EntryKeepsContext: everybody goes on with its own registers, and a caller with its result;
* SchedulerFindsSomebody: schedule() chooses a process that can run;
* WaitIsBounded: BoundedWait, no runnable process waits for longer than WaitBound ticks charged to
  others in user mode (section 3).

ContextKept speaks of the process that runs; that restart gives it the right registers needs
that every other process has its own in its entry, but for the eax of a caller that is
not yet written (FrameOK); that eax goes to the caller, and not to whom p_proc_ready points by then,
needs that esi at every level is where the outermost save went (StackOK), and that a call
is always outermost (StackConsistent); that a handler is not entered twice needs that a line on the
stack has its handler and is masked (StackOK, StackConsistent); and that there is somebody
to go on with, that the idle loops are runnable (SchedOK).  SaveLemma, SetTopLemma, GoLemma,
HwintEndsLemma and SysCallEndsLemma are the ways in, through and out; GreatestValue, by
well-founded induction over finite sets, is what the scans of schedule() find, and ScheduleLemma
what it leaves.

BoundedWait counts the user-mode ticks of a process since it last ran.  Each tick that it waits is one taken from
somebody else who runs, so WaitOK bounds what it has waited by what the others have used up
of a full round (the sum of their priorities less the ticks they have left), once over or, until the next refill,
twice.  The sums are the community module's MapThenSumSet; that its recursion has a value, and what it does
when one term changes, is shown by the least subset without one (LeastSubset, SumExists, SumRest, SumGrows).

The last part of the module is about one interrupt handler and its task, the keyboard; it shares no state with the
rest, and proves, for every set of the keys modelled, buffer size and number of presses, from
KeyboardAssumption:

* KeysArrive: KeysFollowTheUser.

What TTY has made of the keys and what the user has typed differ by the bytes under way, so the
invariant KeyInv says what these still do: `Goes(Mine, Unread, Yours)`, that from TTY's modifiers, console and effects
the unread bytes (seen, then kb_in, then wire) lead, stroke by stroke, to the user's, as long as nothing
is in `lost`.  A stroke is what keyboard_read reads at once.  It is known by its first bytes: where TTY does
not wait for more, the first stroke ends (EndLemma, StrokeLemma), so that the last byte of a key takes the first stroke
off and does what it says (DropLemma, KeyKeepsKeys).  A press puts a stroke at the end, whose reading is what
the user meant (FoundLemma, ModsLemma, MeansLemma, PressLemma), and so does an acknowledgement, of which
TTY makes nothing (AckMore).  keyboard_handler and the bytes inside a key move bytes and change nothing.
The path is a function over positions, since a recursive reading of the bytes is out of the prover's
reach; `Goes` asks whether there is one, so TLC checks what KeyInv implies and not KeyInv itself.

`HdProofs` proves, for every layout of partitions, every archive, every sequence of requests of
programs and as many power failures as cmd.tar has files, from BootAssumption (programs ask for at least a
sector, of a device that is there, and for no more than the buffer of FS holds), HdAssumption (the minor
numbers of logical partitions are above the primary ones), LayoutAssumption (what a partitioning program
leaves: no two tables in a sector, each chain begins where its extended partition does and is not too long
for hd_info) and RootAssumption (the sectors that untar uses are on the disk and programs write past them; there
is room for the files of cmd.tar and for as many more, since a sector or an inode that a power
failure leaves taken without use is never given back, and alloc_imap_bit panics and alloc_smap_bit asserts when
there is none: open.c:364, 423):

* DriverInvariant: its `IInv` holds in every reachable state;
* DriverPairsInterrupts: InterruptsPaired, one interrupt for each wait of the driver;
* DriverFindsPartitions: PartitionsFound (the part of DiskIsFound that is the driver's), and its
  invariant `PInv`;
* FilesInvariant: `FsInv`, what FS and INIT have made of the root device, and `TInv` of the transfer;
* DriverImplementsDisk: ImplementsDisk;
* FsFindsDisk: DiskIsFound, all of it;
* UntarUnpacksAll: UnpackedIsWhole.

InterruptsPaired only says that interrupts come where the driver waits for one.  That they do needs
what the drive does at each place of the driver (DriverOK): while it waits for a sector to read the
drive has as many to go as the driver has; after the last sector written the drive is idle with its
interrupt pending; and where the driver waits for a status the drive owes none.  The sectors
to go (JobOK) start at one or more because FS never asks for none (ReqOK, Asking), and a power
failure leaves a drive at rest.  One lemma per action.

PartitionsFound speaks of the driver between two messages; PInv says of each step of partition() what it
has entered so far and that the table it waits for is the next of the chain (Walking), so that TableAt
gives that table and no other (TableAtLemma: tables are in different sectors), its entries have their own places
in hd_info.logical (NrLemma), and at the end of a chain all extended partitions up to this one are
done (NextExtendedLemma).  That FS opens the device before it reads (OpenedFirst) is what makes the tables
those of the power cycle.

The refinement hides everything but two moments: the drive has put a sector on the disk, and the driver has
read one into the buffer.  That these are the sectors asked for, in their order, needs TInv: the command is
the request (Aimed: it was made from the driver's table, which WhereLemma compares with the layout), the
drive is as many sectors behind the end as it has to go, and its data register holds what the sector or the
buffer has (Carried), although FS's buffer and the disk are only looked at steps before.  At the answer nothing is
left (Delivered).  It also needs that FS asks for sectors that are there (RequestsFit), which is not the driver's
doing: the sector numbers untar asks for come from inodes that are themselves on the disk, half
written perhaps.  That is the last invariant.

FsInv says of the root device (Root) that the power may fail now (MayFail), and of the requests left of the call
that the disk is such a one after each of them, and what the call promises after the last (Runs, Ended).  So
a call is looked at once, when it is made: a step of the driver moves nothing but the sector of the
request, and Held, the disk with what is being written on it already, is the same before and after
(DriverHolds); Ask goes one request along Runs (RunsOn).  What the power may leave is Bootable: no root
directory, or a file system (IsFileSystem).  That names by Holds what is in each sector,
and by Sound how these hang together: no two inodes share a sector, no two
entries a name or an inode, every entry's inode is there and taken in the map; at most one entry is beyond the size
of the directory; and of the sectors and inodes taken, all but one for each power failure belong to a file, so
that there is always one to take (RoomLemma).  From it come what FS reads back of an inode or an entry
(ReadingLemma), that the six writes of create_file lead from a file system to another with the new file, each
state between one that FS can start from (CreatedLemma), and that writing one file leaves the others as they are
(FileWrittenLemma).  UntarAt says at each place of INIT that the files so far are there, the
one that is open excepted, and that the archive is as it was: its first sector is cleared
only when all files are there (TarKept), which is what lets the next boot skip it.  `slipped` is needed exactly
where Bootable says that no entry is beyond the size.

`ForkExitProofs` proves, for every set of entries, descriptors and statuses and every number of forks,
from ForkExitAssumption (entries are finitely many numbers):

* ForkExitInvariant: its `IInv` holds in every reachable state;
* NoDeathIsLost, MmIsNeverStuck, UserCodeRunsWhole: the invariants NoUnheardZombie, MmCanReply and
  UserCodeIsWhole;
* WaitIsTold: the action property WaitTellsTheTruth, from the same invariant.

NoUnheardZombie is not inductive: that a parent found waiting has been answered before MM
looks at the next orphan needs where MM is, and whom it has in hand.  IInv says of each entry which
of six things it is (ClientOK: free, at work, queued, waiting, hanging, in MM's hands) and of each
point of MM what its locals are and that the clients it names are in their calls (MmOK).
The copy that do_fork makes of an entry is one of a caller in its hands, never of
a waiting or hanging one, which is why the child comes out of its fork() and of nothing else.  That
an end is reported once needs that whoever was reported is free or about to be (ToldOK).

`FsDirProofs` proves, for every set of processes, paths and names and every size of the tables but those
of FsDirAssumption (a directory has room for as many names as there are inodes, since the model has no
second chunk), and under what Unlink and Open assume of the programs (section 3):

* FsDirInvariant: its `IInv` holds in every reachable state;
* CountsAreExact, HeldExists, NamesFindFiles: PointersCounted, HeldIsAllocated, NamesAreAllocated;
* WalkInvariant, GetcwdComesBack: GetcwdReturns, from GetcwdAssumption (names have no "/").

The counts need that what is counted is finite and disjoint (TakeLemma, CloseLemma, MoveLemma, ForkLemma,
ExitLemma: one for each way a reference moves); that do_unlink frees only what nobody holds is then
i_cnt = 0, with HeldIsAllocated.  NamesAreAllocated is not inductive, for find_entry looks one entry
beyond the size and new_dirent takes the first free slot within it, wherever old entries are left: IInv has the
names of all entries of the disk, within the size or not, allocated and different (NamesOK,
NamesDiffer).  That a directory never overflows then follows, as its names are at most as many as the inodes
(SlotLemma).  search_file is a function defined by recursion on the components; that there is one
such function (TrailExists) is proved from the least length that has none (MinLemma), so that each
component found is an allocated inode (TrailLemma).

GetcwdReturns speaks of the end of a call that has gone up and down by a dozen requests, between which the others
make theirs.  CallOK says at each place of it that, unless another process has changed a directory, the
names found so far lead from where the call is back to where it began (Leads: each is in its directory,
for the next one), and that the stream it reads is that of the directory it is in (StatLemma, UpLemma, one lemma for each
action).  Going up one is back where the name was found because every directory but the root has a ".."
other than itself (DotsOK).  Coming down, each chdir is to be of the next name, which takes the
path of a search to be one component (OneLemma).  That nobody else moves the caller, or closes its stream, is
KeepsLemma.

`FsSectProofs` proves, for every finite set of files, every size of a sector, a block and the map, every
number of direct zones and of descriptors, and every place and size of cmd.tar, from FsSectAssumption (these are
numbers; cmd.tar lies in the map, past the root directory, reaches the third level and does not end with a
block), and under two hypotheses that stand in the theorems: `Careful` programs and a `BlankDisk` (section 3),

* FsSectInvariant: its `Inv` holds in every reachable state;
* OneOwner, ReadsComeBack: SectorsHaveOneOwner and ReadsBack;

and under Careful alone, whatever zones the disk had before mkfs,

* InodesAreSynced: InodeIsSynced, from an invariant of its own, SyncInv.

Without BlankDisk the first three are false of the code (section 5), and without Careful all are.

A file of n sectors has places for sector numbers (Places): zones of its inode, slots of its block, slots of its
block of blocks, and slots of those.  Inv says of every file that exactly these are filled
(Shaped), that all places of all files hold different sectors, none of the root directory's, and that
each other sector of the map is held by one (Owners); that each written byte is in the sector that the
place of its number holds (Kept); and of the inodes what FS relies on (FilesOK: an open inode is as on the
disk, direct zones are consecutive, cmd.tar has more than those).  That an allocation changes only blocks of its own file,
and gives out only sectors that were free, is one relation, Grown, which is transitive (GrownTwice); one
lemma for each kind of place (FillZone, FillSecond, FillThird, FillBlock) shows it of one slot, and
LoopInduction carries it through the loops of alloc_zone (AllocSecondLemma, AllocThirdLemma).  That other
files keep their places and bytes is then because they do not share a sector with that one (GrownOwners,
WriteKept).  A read comes back since rdwt_zones finds the sectors by the same places (SectorLemma, ReadLemma).
Initially the map is mkfs's, and alloc_zone_for_cmd_tar has the same shape as alloc_zone
(TarRoundLemma, TarLoopLemma, TarOwnsLemma), unless alloc_bit has found no sector and has stopped
the machine in mkfs, before the first state of the module.  SectorsHaveOneOwner counts: the number of places follows from the
number of sectors (PlacesSize), and the sums over the files are those of their disjoint sets (TotalLemma).

`TtyFsProofs` proves, for every set of programs, lengths, buffer sizes and number of keys, from TtyFsAssumption (a
terminal has one reader, the shell, kernel/main.c:267, and no read asks for 0 characters):

* TtyFsInvariant: its `IInv` holds in every reachable state;
* ReadersAreServed, RepliesAreDue: SuspendedIsServed and RepliesMatchCalls.

A suspended read is known to three parties: the program that waits, FS, which goes on to others, and TTY,
which has its length and its count.  IInv says who of the two servers owes a program its answer
(Answered: each program in a call is served by FS or collected for by TTY), that TTY's numbers are those of
the program's request (Collected), and that nobody is in FS's queue who is not in the middle of his SEND
(Queue), until msg_send has found the cycle of TTY and FS and stopped.

`PageMemProofs` proves, for every number of frames, tables, entries of a table and regions, from
PageMemAssumption (they are numbers, a table has two entries or more, and there is the hole):

* PageMemInvariant: its `IInv` holds in every reachable state;
* PageMemCounts, PageMemWrites: UsesCounted and WritableIsPrivate, the latter of what the tables
  allow: a translation that copy_on_write took back and the CPU still uses is excepted, rightly
  (EveryWriteIsPrivate, section 5);
* PageMemStores: StoresArePrivate, from the same invariant, of the stores that follow a
  verify_area (BlindStoresArePrivate, section 5, has those that do not).

The invariant is that memory is one of `Goods`: page_table is the number of uses (Counted), mm_free_mem the
number of frames with none (FreeCounted), a missing table has no entries (Tabled), an entry is writable only
if its page has one use (Private), and the hole of every region is empty (HolesFree).  Beside it `tlb` has only what differs from the tables
(SupersededLemma, Tighter).  Each routine keeps Goods, with or without a panic.  Whatever it does is one entry that goes from a frame to another, or to none,
so that one lemma on a set that gains or loses one element (OneChanged) gives the new counts (EntryUses,
TableUses, CountedLemma, FreeChanged).  A write bit is set only on a page of one use or on one just taken, which no entry
names (GetFreePageLemma); do_fork clears it in both entries (ShareLemma), and another
writable entry of the same page would be a second use.  HolesFree is what keeps the cursor of copy_on_write in its
region: it does not pass the hole (CopyRoundLemma), whatever tables it creates before.  For the
loops, LoopExists shows by the least number without one that there is a function of the rounds, and
LoopInduction carries from round to round what the lemma of one round says; the cursor of free_page_tables is on
the region's tables all along (FreePageTablesLemma).  A task that stores after verify_area meets no stale
translation where it has faulted, nor where there was none to begin with (HiddenLemma, StoresLemma).

Only model-checked: Console's ScreenIsTrue, a ring of cells with division and remainder.  Liveness under fairness (NoStarvation, CallsEnd and those of the other runs) is out of
the prover's reach and stays with TLC.

## 5. Where the code and what it says disagree

Shown by a run:

* `page_fault_frame`: page_fault (kernel.asm:346) stays on the stack the CPU gives it, the 18
  words at the start of the process's entry, and calls C code there; the pushes go into
  the entry before.  kernel.asm:402 says of the same stack that nothing may be pushed,
  since that destroys the process table.

Shown by TLC when a run is asked for a property without its exception (the modules state these properties as
what the code does not keep; put in the cfg of the run, each is violated):

* EveryInterruptIsTold (`ipc_window`): inform_int is to "inform a proc that an interrupt has occured"
  (proc.c:498).  An interrupt for the receiver of a message that comes after msg_send has cleared its p_msg
  (278) and before it clears its flag (279) writes HARD_INT to address 0, and one between the read of
  p_msg and the copy (275) has its HARD_INT overwritten: the task sleeps on, with nothing latched.
* DestHasTheMessage (`ipc_window`): proc.c:279 says "dest has received the msg".  An interrupt between the
  assertion on p_msg and its read (270-275) wakes the receiver, and the message goes to address 0; one
  between the copy and 278 writes HARD_INT over it.
* EveryWriteIsPrivate (`page_mem`): forkexit.c:111 promises "copy on write otherwise".  copy_on_write
  (memory.c:377) takes the parent's write bits back without invalidate(), and nothing reloads CR3: through
  the translation the CPU has kept the parent writes the page it shares with its child.
* BlindStoresArePrivate (`page_mem`): memory.c:259 has verify_area for areas "that need to write".  FS
  (read_write.c:109, 153, 219, misc.c:88), TTY (tty.c:270) and the kernel (proc.c:82) store for a
  program without it, in ring 0 or 1, where the write bit does not hold (CR0.WP is clear): what a child
  reads from a file appears in its parent.
* OutCharAsserts (`console`): out_char asserts that the cursor is in the console, before and after
  (console.c:93, 132).  A printx that comes after TTY has moved the cursor to the end and before it
  wraps finds the assertion false.
* OutCharPrints (`console`): out_char is to "print a char" (console.c:84).  A Backspace that a program
  writes with the cursor at the top of the screen and above the start of the console takes it above the
  window, and the loop (134-139), which only scrolls up, does not end.
* SectorsHaveOneOwner (`fs_sect`, with `OldZones <- MCUsed` in place of MCBlank): new_inode (open.c:447)
  sets eight zones and keeps the other two as they were on the disk, of which mkfs has cleared only the first
  eight inodes.  A file with another inode that grows past its direct zones on a disk used before takes
  old sector numbers for its own, and writes into files of others.

Excepted from a property, with the ghost that marks it (section 3):

* `slipped`: new_dirent writes the block of a directory and then its size (open.c:511-517), and
  find_entry compares one entry more than the size has (misc.c:118-141).  After a power
  failure between the two, the next boot finds that entry, does not count it, and writes the next
  file's over it: a file of cmd.tar is missing.
* `torn`: mkfs writes the super block first (fs/main.c:251), and init_fs takes a disk with one for
  a whole file system: after a power failure in mkfs the next boot goes wrong, and INIT's assertion fails.
* `lost`: a key read in the call of keyboard_read that has read Pause or PrintScreen is
  taken for it (keyboard.c:182), one read in the call that has switched the console goes to the
  former (326), the handler drops bytes at a full buffer (62), and a key between the acknowledgement
  and kb_ack's poll hangs TTY (385-392).  Right ALT sets alt_l (221-222), as `alt` of the module has it.
* `hurt`: beside what OutCharAsserts and OutCharPrints show, printx between the tests of
  scroll_screen and its assignment (console.c:262-299) may put the window outside the console, and between
  the parts of flush leave the CRT controller with older values; clear_screen clears beyond the console's end
  when a scrolled-back console is written in the middle of its last line (138); a newline after
  scrolling a full console to its oldest line writes over lines that are not cleared.
* `dropped`: what EveryInterruptIsTold shows.

Met while modelling, in the modules but not each a run:

* An interrupt after msg_receive has tested has_int_msg (proc.c:351) and before it sets
  p_recvfrom is latched, and the assertion at proc.c:488 stops the machine (IpcWindow), as the one at
  372 does for an interrupt after the clear at 367.  So no wake-up of a RECEIVE is lost silently there
  (InterruptsAreTold).
* copy_on_write (memory.c:371) does not advance past an absent page, and the child gets none
  of the later ones; nor is the last entry of a table copied (388).  PageMem does the same.
* TTY's RESUME_PROC meets FS's DEV_READ or DEV_WRITE, and msg_send panics (proc.c:264);
  TtyFs stops there (`deadlock`).
* Every tick may fall into the kernel, where it charges but does not schedule (clock.c:48): a
  process then starves.  KernelEntry's fairness excludes it.
* Any exception but a page fault stops the machine, whoever causes it.
* waitfor may time out without having looked once when its process is preempted (hd.c:503).
* do_wait (forkexit.c:270) counts freed entries by their stale p_parent, which cleanup
  (241) leaves: a process whose only child has been cleaned up waits for ever, though
  forkexit.c:183 says of WAITING "a proc has at least one child".
* lib/fork.c:47 asserts that MM's answer is 0, while do_fork answers -1 when the table is
  full: the caller spins (`Failed` in ForkExit).
* free_page_tables (memory.c:133) skips its increments at an absent table, so that
  memory of regions with one is not returned to the free counter.
* verify_area (memory.c:268-271) rounds the address down before it adds what it cut off to
  the size, and leaves out the last page of some areas; StoresArePrivate is stated of
  areas that begin on a page.
* A second DEV_READ overwrites the first (tty.c:311), and a read of 0 is never answered
  (tty.c:265): TtyFsAssumption has one reader and no length 0.
* do_unlink (link.c:219) lowers the size, when the last entry goes, to the number of entries
  in use before it; the comment at 183-187 counts "unused slots" in the size.  With two
  free slots live entries fall beyond the end and are overwritten; with one, the entry
  just beyond the end is still found, and unlinking it fails the assertion at 218.
* create_file takes "the full path of the new file" (open.c:233) and uses its first
  component: creating a/b enters a second a in the start directory.  Unlinking a/b frees
  the inode and then fails the assertion.
* do_mkdir does not ask whether the name exists, stores the path as given, and works in the
  directory of TASK FS, which the last exec set; lib/stat.c promises "a directory named pathname".
* do_unlink removes directories that have children.  The child's ".." is then stale, and once
  the inode is taken again: a process in it is no longer counted (new_inode sets i_cnt to 1),
  and do_unlink, which looks for the inode number, may clear the ".." and leave the name.
* getcwd does not hold the directory it leaves by chdir("..").  Another process may unlink it meanwhile,
  or mkdir, which does not ask whether the name exists, put a second entry of the same name before
  it: recover() then fails to go down, which chdir does not report (fs_stat.c:92 drops what
  change_proc_dir returns), or goes down into another directory, and the caller is left there.
  GetcwdReturns excepts it (`changed`).
* chdir to the current directory fails the assertion at fs_stat.c:131; chdir to a file works.
* alloc_zone (read_write.c:550) clears a new block of the third level with the variable of the
  loop around it, and goes on 129 sectors later: of a growth by several sectors only the first
  gets a zone, although the function returns all (385: "the amount of allocated zones").  The
  others keep NO_ZONE and are written to sector 0.  untar writes 16 sectors at a time, so a
  file of more than 68 KB meets it.
* rdwt_zones transfers whole sectors from the start of the one the position is in: what is
  written from the middle of a sector is put at its start, a write that ends in the middle
  overwrites the rest with what follows the buffer, and one that starts inside a sector and ends
  with one is a sector short.  The size may then exceed the sectors, and a read fails the
  assertion at 83.  A read stores up to a sector beyond what it was asked for.
* do_unlink (link.c:123) clears as many consecutive bits as the file has sectors, from its first;
  the sectors of a file that has grown are not consecutive, and its blocks are not counted: it
  frees sectors of others, loses its own, or fails the assertion at 137.
* alloc_smap_bit (open.c:409) asserts that eight sectors from the first free one are free: when
  files have grown and gone, creating one stops the machine.
* A new file has the size 4096 (open.c:446) and the bytes that were in its sectors.
* alloc_zone_for_cmd_tar does not write its last block if the size, without the first 136
  sectors, is a multiple of 128 (read_write.c:740); config.h's 4096 is not (FsSectAssumption).
* INIT copies root_inode (main.c:336-338) and counts it up without asking whether FS has
  finished init_fs.

Met while reading what is not modelled:

* hd_rdwt does not compare a request with the size of the partition, and a count that is no
  multiple of 512 never ends (hd.c:201-216); FS asks for whole sectors.
* malloc does not advance proc_use (lib/malloc.c:100-104), free() does not advance its cursor
  and spins when the block is not the first (127-132), sbrk's size leaves out the header (95), and
  do_brk takes a break below the data (break.c:54).
* A child of the shell whose execv fails goes on as a second shell on the terminal (kernel/main.c:310-318);
  cd without an argument calls chdir(0) after chdir("/") (289-293).

## 6. Not modelled, and why

* exec's argument stack and loading of ELF segments, and the arithmetic of brk: sequential code
  over the memory of one process; what they do to the page tables is in PageMem, their requests to FS
  in FsDir.
* The shell's parsing, malloc and the commands: sequential code over private data.
* Directories as files beyond a chunk, and two descriptors of one open file in FsSect: FsDir has
  the entries and the sharing, without bytes.
* A power failure between the sectors of do_unlink or of a file that grows: FsBoot and Untar
  have those of mkfs and of new files.  Nothing repairs the disk at the next boot, so that
  there is no recovery to check.
* A page fault of one process during MM's work on another's pages: PageMem does not interleave them.
* TASK SYS but for the ticks that HD asks it for: its answers have no state.
* The boot loader and protected-mode set-up run before there is concurrency; printf and the log
  (switched off in config.h) are formatting; UnitTest/ are host programs that test copies of
  three routines.
* A spurious interrupt of the 8259, and what an exception prints.

Over-approximations: in Ipc any process may call anything; in KernelEntry any system call may
block, unblock or do neither; in ForkExit a client may be
preempted for as long as it likes, though tasks run before users.

## 7. Plan

Done: message passing, also with interrupts inside it, kernel entry and scheduler, fork, exit and wait,
names, descriptors and sectors of FS, getcwd, a terminal between FS and TTY, paging, the disk driver,
the keyboard, boot and untar, with their proofs; the console, model-checked.  What would
come next:

1. An abstract file, a sequence of bytes, that FsSect implements while its programs are
   careful.
2. The page fault of another process interleaved with MM in PageMem, with KernelEntry's rules of when
   it can come.
3. do_unlink on the disk of FsBoot, a power failure between its sectors.
4. A run of FsDir without the assumption on "..", in place of a violation already understood.
5. A proof of ScreenIsTrue of Console.
