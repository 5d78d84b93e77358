# mona-rpzero: formal models of the kernel and its programs

TLA+ models of `src/kernel-aarch64`, the single-CPU, cooperative Unix-like
kernel for the Raspberry Pi Zero 2 W (and QEMU `raspi3b`), and of the user
programs in `src/userland` that depend most on it, with TLC runs and TLAPS
proofs. The source is the reference for every definition; `PROJECT.json`
maps each definition to the lines it models.

Contents: 1 inventory, 2 plan, 3 modules, 4 runs, 5 fairness, 6 proofs,
7 disagreements between the code and its comments, 8 what is not modelled.

## 1. Inventory

The kernel runs with interrupts masked from exception entry to `eret`, so a
system call is atomic with respect to other processes. There are only two
places where something else can happen in the middle of one: inside the loop of
`sched_pick_next_runnable` (time passes, devices fill their FIFOs) and inside
its idle window, where interrupts are unmasked. What makes the kernel hard is
therefore not shared-memory races but *continuations*: a call that blocks leaves
fields in its `proc_t`, and some other process's system call completes it later.

| Component (source) | State | Operations | What makes it correct |
|---|---|---|---|
| Process table (`proc.c`, `sys_proc.c`) | `g_procs[]`: state, pid, ppid, exit code, wait target and status pointer, memory block, page tables | `clone`, `wait4`, `exit`, `kill`, `execve`, `brk`, `mmap`, `munmap`, `reboot` | no lost wake-up between exit and wait, statuses reach the right parent, memory is conserved, the live page tables never map freed memory |
| Scheduler (`sched.c`) | `g_cur_proc`, `g_last_sched` | pick next, switch, complete a pending read / ping / receive | only runnable processes run, sleepers wake, no starvation, the machine halts only when nothing can happen |
| Idle loop, timer, interrupts (`sched.c`, `time.c`, `irq.c`, `uart_pl011.c`) | one-shot timer, interrupt masks, UART FIFO | program timer, `wfi`, IRQ handlers | a wake-up source that fires around the `wfi` is not lost; no sleep outlasts its deadline |
| Console input (`console_in.c`) | ring of bytes | poll, inject, pop | bounded, FIFO, input reaches a blocked reader |
| Pipes (`pipe.c`) | ring, positions, count, reference counts | create, abort, read, write, inc/dec ref | a FIFO; EOF only after the last writer and byte; EPIPE iff no reader |
| Descriptors (`fd.c`, `sys_fs.c`) | per-process tables, shared descriptions with counts | open, close, dup3, pipe2, fork, exit | counts equal the references, objects live exactly as long as someone refers to them |
| RAM file system (`vfs.c`, `sys_fs.c`) | directories, names, inodes with link counts | create, link, symlink, unlink, mkdir, rmdir, open, read, write, seek, truncate | link counts match names, an open descriptor keeps meaning the same file |
| Initramfs (`initramfs.c`, `cpio_newc.c`) | read-only archive | lookup, iterate | entries found exactly when present |
| Areas (`sys_proc.c`: brk, mmap, munmap) | heap limits, `vmas[]`, `mmap_next` | brk, mmap, munmap | areas disjoint, within bounds; unmapping removes exactly its range |
| Program loading (`sys_proc.c`, `elf64.c`) | user image | execve | a failed call leaves the caller intact |
| Physical memory (`pmm.c`) | bitmap | allocate, free page and 2 MiB block | no block handed out twice |
| Page tables, caches (`mmu.c`, `cache.c`) | TTBR0/1, tables | create, switch | the live tables belong to the running process |
| IPv6 (`net_ipv6.c`, `net.c`, `sys_net.c`) | neighbour cache, address and router learned, ping in flight, UDP sockets, TCP connections | send, receive, timers | an answer completes exactly the call it belongs to, time-outs and late answers do not mix, queues bounded, a stream arrives whole |
| USB (`usb*.c`) | addresses, endpoints, data toggles, accumulator of RNDIS messages, keys held | enumerate, bind, poll, transfer, command | no two devices share an address, frames and keys arrive once and in order, no late answer passes for another |
| Console output (`termfb.c`, `fb.c`, `klog.c`, `sys_dmesg.c`) | framebuffer, visible part, cursor, log ring | print, scroll, clear, escape sequences, dmesg | the screen shows, and the log keeps, what was written |
| Paths (`sys_util.c`, `sys_fs.c`) | working directory | normalise, join, follow links, chdir, getcwd | a path leads where its names lead; what does not fit is refused, not cut |
| Boot (`main.c`, `fdt.c`, `arch/*.S`, `exceptions.c`) | – | start, dispatch | dispatch runs the right handler and time-slices; what boot has put in memory stays |
| Shell, init (`sh.c`, `kinit.c`) | processes and pipe of a pipeline; line, cursor, history | pipelines, captured commands, editing, completion | every child waited for, unused pipe ends closed, nothing lost; the terminal shows the line |
| Tools (`userland/src`) | per program | filter, sort, list, remove, copy, move, compare, search, run | the output does not depend on how the input is cut into reads; no file or word is lost on the way |

Interactions. Every system call enters through `exception_handle`
(`exceptions.c`), calls its handler, and unless the handler switched already,
stores the result and calls `sched_maybe_switch`. Process calls use the scheduler
to block, the physical memory manager and page tables for address spaces, and
the descriptor layer on fork and exit. The descriptor layer counts references
to pipes and sockets. The scheduler polls the console and, in builds with USB,
the keyboard and the network; it delivers pending results by writing into user
memory through the resumed process's address space. Frames reach `net_ipv6.c` only
when the USB driver is polled: by the scheduler, and by the loops of the calls that
wait for the network with the processor in their hands. User programs meet each
other in pipes, which never block: a full or empty pipe is EAGAIN, and the program
has to try again.

Hard behaviours, each listed under "hazards" in `PROJECT.json` with its line:
an exit before, while or after its parent blocks in `wait4`; writing a status
word through another address space; three copies of the reaping code; the
scheduler called by a process that is itself the next to run, asleep, or
dead; interrupts around `wfi`; the UART FIFO drained and then acknowledged;
partial transfers around the end of a ring; error paths that undo half of a
`pipe2` or a TCP `connect`; shared counts that must change together; answers that
come after their caller has given up; segments and transfers lost, repeated or
reordered; caches and tables that are full; loops that read a directory while they
empty it; arguments read out of memory that is about to be overwritten.

## 2. Plan

Built, in this order, most important behaviour first:

1. `ProcSched`: process life cycle and scheduler; `ProcSchedProofs`.
2. `Idle`: the idle window, refining what `ProcSched`'s `PickIdle` leaves abstract.
3. `PipeFifo` (abstract), `Pipe` (detailed), `PipeProofs` with the refinement.
4. `FdTable`: tables, descriptions, pipe and socket counts composed.
5. `AddressSpace` (abstract), `Vmem`: `brk`, `mmap`, `munmap`; `VmemProofs` with
   the invariant and the refinement.
6. `Files` (abstract), `RamFs`: names, inodes, links, open files, the refinement.
7. `Udp6`, `Neighbour`, `Tcp6`: sockets and their blocking receives, discovery and
   ping6, a TCP connection, over a network that loses, repeats and reorders.
8. `Listing`, `Paths`, `Exec`, `Memory`: the other halves of the file system calls
   and of fork and execve.
9. `UsbBus`, `UsbNet`, `Term`: the devices as far as they have state of their own.
10. `Pipeline`, `LineEdit`, `Filters`, `Sort`, `Copy`, `Xargs`, `Diff`, `Find`: the
    programs as clients of the kernel.

11. The proofs about 4 to 10: `FdTableProofs`, `VmemProofs` (the searches, `Exec`),
    `RamFsProofs` (with the refinement), `Udp6Proofs`, `IoProofs` (`Neighbour`, `Tcp6`,
    `Idle`, `Term`), `BootProofs` (`Memory`, `UsbBus`) and `PipeProofs` (`Pipeline` and
    `LineEdit` too).

Left, for proofs: the toggles of `UsbNet` and the position of `Listing`, as far as they do
not compare with a fold. For models: the indices of the console's ring, the retries of
`dns6`, the shell's splitting of a line into words.

## 3. Modules

### `ProcSched`

Each field of `proc_t` is a function of the slot under the field's own name;
`g_cur_proc`, `g_last_sched`, `g_next_pid` are the globals. `free` and `tables` are
the physical memory manager seen from here, `ttbr0` the memory the live tables
map, `ring` and `uart` byte counts. `kcont` is the kernel's continuation: `user`
while the current process is in EL0; the caller of `sched_pick_next_runnable`
(`yield`, `wait`, `exit`, `selfkill`, `sleep`, `read`) while the kernel is in that
loop; `off` after power-off; `halt` when the exit path found nothing to run and
parks the CPU. Three history variables carry what properties need: the status
word in each block (`wstatus`), the code each pid died with (`died`), the child a
wait last reported (`report`).

One action per system call (`sys_clone`, `sys_wait4`, `sys_exit`, `sys_kill`,
`sys_nanosleep`, `sys_read`, `sys_reboot`; `Return` for every call that changes
nothing modelled), one per outcome of a pass of the scheduler loop (`PickOne`,
`PickNone`, `PickIdle`), and the environment (`Tick`, `UartRx`). `proc_switch_to`
and what each caller does with the scheduler's answer (`Resume`) are part of the
pick. Forks are bounded by `NTables`, since page tables really are never freed.
`KillSelf` says whether a process may pass its own pid to `kill`; it isolates the
flaw of section 7 from the properties that are right without it.

### `Idle`

The idle window at the grain of single instructions: scan, program the timer,
`irq_enable`, `wfi`, `irq_disable`, poll. Between `irq_enable` and `irq_disable` the
timer and UART handlers may run before any step. There is at most one sleeper
and one reader (either may be missing), which is all the loop distinguishes:
the earliest deadline, and whether someone waits for input. `polling` tells the
USB build from the UART-only one and never changes. Conversion of nanoseconds to ticks
may round either way by one and is at least one tick, as in `time.c`. The wake-up
condition of `wfi` (a pending enabled interrupt) is the architecture's and marked
external; at most one byte arrives between draining the FIFO and acknowledging the
interrupt. The periodic mode of the timer is only used before the first idle and is
represented by the initial state.

### `PipeFifo`, `Pipe`

`PipeFifo` is the promise: a bounded queue with readers and writers counted, read
takes a prefix, 0 is end of file only if the queue is empty and no writer is left,
EAGAIN and EPIPE otherwise. `Pipe` is one slot of `g_pipes`: buffer, `rpos`,
`wpos`, `count`, both reference counts. A read or write needs the end it uses to
be held, which is what a descriptor guarantees (checked in `FdTable`). The
refinement maps the queue to the `count` bytes from `rpos` around the ring.

### `FdTable`

One record `k` holds descriptor tables, descriptions, pipe slots and socket slots.
Handlers are operators from such records to such records, so that a system call
composes the same sub-calls in the same order as the code (`fd_alloc_into`,
`desc_decref`, `desc_clear`, `pipe_dec_reader` and so on), error paths included.
Actions: open, close, dup, dup3, pipe2, socket, TCP connect with its failures,
fork, exit. Data is left to `Pipe`.

### `AddressSpace`, `Vmem`

`AddressSpace` is the promise: `mmap` hands out a range in which nothing was
mapped, `munmap` removes exactly its range or does nothing. `Vmem` is one process:
`heap_base`, `heap_end`, `stack_low`, `mmap_next` and `vmas[]` under their own names,
`image_end` for the program last loaded. Addresses count granules of 16 bytes (what
`brk` aligns to), a page is `Page` granules. Calls that do not loop are one action;
the search of `sys_mmap` (`mmap_place`), the slot loop of `sys_munmap` (`unmap_slot`,
`unmap_done`) and `proc_recompute_mmap_next` take one step per pass, with their C
locals in `cursor`, `alen`, `lo`, `hi`, `any`. Two history variables, `start` and
`before`, hold where a search began and what was mapped before a `munmap`. Since no
process runs between those passes, the refinement shows the address space as it
was `before` until the loop is through. `execve` and the child's side of `clone`
appear as what they do to these fields: nothing, and `proc_clear`.

### `Files`, `RamFs`

`Files` is the promise: directories, names that map to files, files that live as
long as they have a name and share no contents. `RamFs` has the tables of `vfs.c`
(`dirs`, `files`, `inodes`) and the descriptions of RAM files; an action is a system
call. Paths are sequences of components, already absolute and normalised, so the
working directory plays no part. Contents are cells; a symbolic link's text is one
cell, and a link whose text a `write` has damaged leads `Nowhere`. (`sys_write`
looks neither at the access mode nor at the kind of the file, so this can happen: a
description whose name was removed may find a link in its slot.) A name
always takes the first free slot, as the scans in the code do. `open` of a missing
file with `O_CREAT` and truncation take effect even if no description or descriptor
is left, which `Describe` allows at any time since descriptors are per process.

### `Neighbour`

The neighbour cache in order of its slots, the address and the router learned from
advertisements, and the one ping request in flight, which is kernel state and outlives
the call that made it. Two processes call ping6, one of them keeps sending until it is
no longer told EAGAIN. `sys_mona_ping6` holds the processor until it returns, so what
arrives in between does so inside its loop; after it has given up, answers still come.
The network is a set of frames from which any may be lost or delivered again. A MAC
address is named after the neighbour it belongs to. `talkers`, the hosts that speak of
their own accord, decide whether the cache suffices.

### `Udp6`

Sockets with ports, reference counts and queues, and for each process the fields with
which `recvfrom` blocks: `pending`, `deadline`, the state. One step is one turn of the
kernel, because frames are only taken from the device where the kernel polls it: in
`sched_pick_next_runnable` (`Schedule`), in the loop of `recvfrom` (`Inline`), and in calls
that poll on their way (`Poll`). The ephemeral ports are tried in the code's order from
a counter that wraps. `Resume` is the completion in `proc_switch_to`.

### `Tcp6`

One connection: `connect` with its time-out, `recv`, `send`, `close`, and the handling of a
segment, with sequence numbers modulo `SeqMod`, a receive buffer of `RxCap` and a window.
The peer follows the protocol, sends the bytes `1 .. Len`, closes, and repeats whatever
is not acknowledged, cut up as it likes. Any segment it may have sent can therefore
arrive at any time, and the network needs no state.

### `Listing`

`getdents64`, whose position counts entries, over the archive and the overlay, with the
table of names already emitted; `ls` and `rm -r` as clients, the second of which empties
the directory it is reading, while others create and remove names.

### `Exec`

The user region is an array of cells. `Snapshot` is everything `sys_execve` reads and
checks before it destroys anything: path, vectors, strings, the file in the archive, the
ELF header. `LoadSegment` checks and loads one program header, `BuildStack` lays out
strings, auxiliary vector, `envp` and `argv`. `ExecFailsClean` says which failures leave the
caller as it was. `ExecAssumption` says what a cpio archive and an ELF file are: the numbers of
a header are unsigned, and an entry is a file, a directory, the trailer or cannot be parsed.

### `Memory`

The bitmap of `pmm.c` and everybody who takes from it: the kernel's image and the device
tree at boot, the identity mapping, the framebuffer (which is then mapped as device
memory), the block and the three table pages of each fork, and reaping, which gives the
block back but not the tables. Addresses count half pages, so ranges may end within one.
`RoomToBoot` says that a machine which `pmm_init` accepts has seven pages left for boot
itself. `pmm_init` only asks for a minimum of pages in all; on a machine with fewer than
three left for the self-test of `main`, that test returns page 0 for the one it did not
get, and a reserved page becomes free.

### `Paths`

Normalising, joining and link-following as pure operators, with `chdir`, `getcwd` and the
comings and goings of directories around them. A string is the sequence of what stands
between its slashes. `ResolvedRight` compares with `Meaning`, a definition by walking the
names and never by buffers.

### `UsbBus`, `UsbNet`

`UsbBus` is enumeration behind a hub, one port after the other, endpoint selection out of
a configuration, and RNDIS commands with their answers; a control transfer may fail
before or after the device has seen it, and after its data has come. `UsbNet` is what
follows: bulk transfers with data toggles, the accumulator that turns them into RNDIS
messages, the frames sent, and keyboard reports compared with the last one.

A step of `UsbNet` is one packet (`Packet`): it may be short or empty, its handshake may be
lost, and a transfer asks for as many as `Req` cells take. The controller alternates the
toggle with every packet (`PidAfter`), the driver turns the copy it starts the next transfer
with once (`InPidAfter`). A transfer ends with a short packet or the last one; it is broken
off when the time is up (`NoMore`) or the toggles differ, and what it has brought is dropped
(`Dropped`). The history variables `cuts` and `evens` count the transfers broken off with
something in them and those of an even number of packets, which are what `UsbFramesIntact`
has to except: without any, the frames are the device's, each once and in order; in every
behaviour what is missing or repeated is bounded by them. `SentArrives` is the same for
frames sent, where only the frame after an even or failed transfer is at risk.

### `Term`

The framebuffer as rows of characters, `off` for the visible part, the cursor with its
colours, and `ansi`, the parser of escape sequences: its state, the numbers it has and the
one it is reading. A program writes a character, or a sequence of one character after the
other, in which the kernel prints nothing: a `write` is copied out within one call. `esc` says
where in its sequence the writer is. `ideal` is the screen a reader expects, kept without
scrolling, wrapping or copying, on which a whole sequence has its effect at once. The log
ring of `klog.c` is compared with everything said so far.

`TermAssumption` bounds what is written to what the parser has room for: four numbers below
1000. A sequence that sets colours does not end in an empty number, which the parser drops
(section 7). The programs of the repository write `ESC[2J`, `ESC[H` and colours
(`clear.c:29`, `main.c`).

### `Pipeline`

`cmd1 | cmd2` of the shell and `run_capture` of kinit: processes with the pipe ends they
hold, the kernel's pipe reduced to its bytes, one system call per step. Writers that
retry, write once, never end or do not exist, against readers that are patient, give up
on EAGAIN, want only the head or do not exist.

### `LineEdit`

`read_line`, one step per key: the buffer (`text`), `pos`, `last_draw_len`, the history ring
and browsing, completion with its second TAB. `row` and `col` are the terminal's, which has
`Width` columns: its cells from the start of the row in which the line began, and where its
cursor is in them. What is written past the end of a row goes on in the next; a carriage
return leads to the start of the cursor's row (`RowStart`), and what is above it no redraw
reaches, so `row` then begins later (`Reachable`). The cursor wraps with the last character
of a row, as that of `termfb.c` does. `clean` says that the prompt was the first thing in
its row and that prompt and line have fitted the row since: then the terminal shows them
and nothing else. In any case they stand, up to the cursor, right before the terminal's
cursor, however many rows they take.

Completion has commands (`Builtins` and what `Bin` lists) for a first word without a slash,
also behind `|` and `;`, and otherwise the names in the word's directory or the current
one; names that begin with a dot only when one was typed. The prompt is the same for all
lines. Directories list in full: names are shorter than 64 characters, words shorter than 128,
there are at most 64 candidates, and no call fails (a directory that cannot be read has no
names).

### `Filters`, `Sort`

`Filters` runs wc, head, tail, uniq, cut, grep, tr and rev over every cut of an input into
reads, each byte through the tool's own state machine with its bounded buffers, and
compares what is printed with a definition on the whole input. `Sort` is `quicksort_iter`
with its stack, the scans that rely on the pivot to stop them, and `-u`.

### `Copy`, `Xargs`, `Diff`, `Find`

`Copy` is `cp` and `mv`, one step per system call that has an effect, over names that lead
to inodes: the target is created or truncated, a buffer carried over in as many writes as
it takes, the source of `mv` unlinked. `MaxFaults` calls may fail for no reason the model
has (no descriptor left, an I/O error). `CopyRight` says where each file is at every moment,
for commands that name no file twice. `Xargs` keeps the arena, the pointers into it and the
batch that is run when either is full, at the characters of the input; a run of the command
is its argument list and a code. `Diff` has the side-by-side comparison, whose two buffers are
filled and used up independently, and the hunk of `-u`; `DiffRight` applies the hunk as
`patch` would. `Find` is the recursive walk with a descriptor per level, in any order of
entries, and the backtracking of `match_glob`, compared with what a pattern means.
`newfstatat` and `getdents64` may fail at any time (`Unknown`, `Unlisted`); `missed` has the
paths that are not visited for it, and `FindRight` says that these and what is below them
is all that is left out.

### `MCIo`, `MCKernel`, `MCUser`, `MCRamFs`

Instances for TLC. Components that share no state are put in one module whose variable
`which`, fixed initially, says which of them a behaviour follows; the variables of the
others stay as they are. A state of such a run is therefore a state of one component, and
the runs check each of them in isolation. Real composition is inside the modules:
descriptors with pipes and sockets in `FdTable`, processes with memory, console and
scheduler in `ProcSched`, sockets with the scheduler in `Udp6`, programs with a pipe and
`wait4` in `Pipeline`.

`MCIo` extends `Neighbour`, `Tcp6` and `Idle`; `MCKernel` extends `FdTable`, `Memory`, `UsbBus`,
`Exec` and `Term`; `MCUser` extends `Pipe`, `Pipeline` and `LineEdit`: so what they check of
these modules is the very formula the theorems are about. The names every module has
therefore carry a prefix there (`TcpInit`, `idleVars`, `MemNext`). Components without theorems
are instances.

## 4. Runs

| Run | Shows | Bounds |
|---|---|---|
| `proc` | safety of `ProcSched` and progress: sleepers wake, runnable processes run, input reaches a reader; self-kill included | 3 slots, 2 blocks, 2 forks: parent, child and grandchild or two children, both ways of reaping, running out of blocks before slots, slots reused with new pids |
| `proc_selfkill`, `proc_waiter` | the two disagreements of section 7 in process calls | as above |
| `io` | `Neighbour`: the cache never confuses hosts, a ping's answer is its host's, a sender gets through; `Tcp6`: the stream arrives intact, in the end whole; `Idle`: the timer is right, the next input repairs a missed wake-up | 2 cache slots and 4 addresses, 2 pings of 2 identifiers; a stream of 4, a window of 2, a buffer of 3, sequence numbers that wrap; sleeps of up to 3 ticks on both sides of the poll period |
| `idle_input`, `idle_deadline` | the two disagreements of section 7 in the idle loop | sleeps of up to 2 ticks |
| `udp` | sockets, ports and counts agree, datagrams arrive once and in order, nobody runs who should wait, every receive returns | 2 processes, 2 sockets, queues of 2, two ephemeral ports (fewer than binds may want), 2 datagrams |
| `vmem` | areas disjoint, no room overlooked, no address space lost, refinement of `AddressSpace`, every loop ends | region of 8 pages, 3 areas, lengths of one and of three pages, stack pointers that move the ceiling by a page, a break that is not page-aligned |
| `vmem_image` | the disagreement of section 7 in memory calls | the same, an image of one and a half pages |
| `ramfs` | link counts exact, tree sound, open files keep their file, links are followed to their end, refinement of `Files` | a file of the initramfs, three more paths, one inside another; 2 directories, 2 names, 2 inodes of 2 cells, 2 descriptions, 3 hops; a write longer than a file |
| `kernel` | `FdTable`, `Listing`, `Exec`, `UsbNet`, `UsbBus`, `Term`, `Paths`, `Memory`, each on its own | 2 processes, 3 descriptors, 3 descriptions, 1 pipe, 1 socket (each can run out); a buffer that holds some names but not all; programs whose segments fit, overlap, touch the end or lie outside; streams of two messages, of which one nearly fills the accumulator, in packets of two cells and transfers of three packets, two things going wrong; frames sent in up to four packets; three ports and room for two devices; two rows of three in a framebuffer of three rows, a log of 3, 4 characters or escape sequences; paths of three segments, links of every length up to one too many; six machines whose kernel, device tree and framebuffer share pages and blocks |
| `user` | `Pipe` implements the FIFO; `Pipeline`, `LineEdit` (twice), `Filters`, `Sort`, `Copy`, `Xargs`, `Diff`, `Find` | pipe of 3 and transfers of 4, two references per end; output longer than the pipe; lines of 3 with a history of 2 that wraps, lines of 6 with completion in three directories and behind a `;`, on terminals of 4 and 5 columns, which prompt and line outgrow; inputs of up to 5 bytes and buffers of 4; 5 lines and a stack of 2; four names, files below and above what a new one holds, one failure; 5 characters in an arena of 5, batches of up to 3, more arguments than `execve` takes; files of up to 4 bytes read by 2; a tree with one level more than there are descriptors, calls that fail until three paths are missed |

Why the bounds are enough: the process code treats slots uniformly apart from
slot 0 and scans in index order, so init and two more cover parent, child, sibling,
grandchild and stranger; the theorems remove the bound for the safety
properties. `Codes = {257}` exceeds eight bits, so the truncation in the status
word is exercised. The theorems about pipes, pipelines, the line editor, descriptors, areas,
files, sockets, the neighbour cache, a connection, the timer, memory, the USB bus, the
console and the failures of `execve` remove their bounds too. In
`kernel` two processes suffice to share a description across a fork; two pipes open at
once would need four descriptions, but slots do not interact (the theorems hold for any
number of them). In `ramfs` two name
slots are two names of one file, one name of each of two files, or a chain of two
links; the second slot is freed and reused while the first stays. A link to itself
(`a` to `a`) exhausts any number of hops. In the others every buffer, ring, cache and
table is smaller than what is put into it, and everything of size `n` that wraps
(rings, sequence numbers, ports, the history, the viewport) wraps at least once.

Deadlock is checked where the system must go on for ever (`proc` and its
variants, `idle_*`); elsewhere behaviours end because the inputs do.

Every property has a mutant: a plausible slip in the code (a dropped guard, a
missing reset, a wrong start of a scan), named `<definition>_<slip>` next to
the definition it replaces, under which TLC finds the property violated.

## 5. Fairness

`ProcSched` assumes weak fairness of the current process making its next call, of
the scheduler loop, and of time. The first is what a cooperative kernel needs from
its programs and cannot enforce: a process that never calls the kernel is never
pre-empted. `NobodyStarves` holds only if the console becomes quiet, because ready
console readers are served first; the property says so. `Idle` assumes weak
fairness of process, kernel steps and time, and strong fairness of the two
instructions after which an interrupt may be taken again and again: a serial line
cannot deliver bytes at the pace of single instructions for ever. `Vmem` assumes
weak fairness of the kernel's own loops, which nothing interrupts.

`Udp6` assumes weak fairness of the scheduler and of each process's clock; the
network owes it nothing, since a receive may time out. `Neighbour` assumes that the
kernel's loop ends (`Return`), that the program tries again (`Send`), that the router
goes on advertising, and, strongly, that a question asked again and again is
answered at last: without it there is no liveness over a network that loses. `Tcp6`
likewise assumes strong fairness of the peer's repetitions and of its hearing of
acknowledgements, and weak fairness of the program's own reading. `Pipeline` assumes
weak fairness of each process, which the round robin of `ProcSched` provides
(`NobodyStarves`).

In `MCIo` fairness is stated of disjunctions of steps of different components. A
behaviour only ever takes steps of one of them, so this is the fairness of each.

## 6. Proofs

`ProcSchedProofs` proves, for every number of slots, blocks, page tables and every
set of arguments allowed by the two assumptions of `ProcSched`:
`Spec => []Inductive`, and from it type correctness, `BlocksConserved`,
`LiveAddressSpace`, `WaitersSound` (`NoMissedExit` and `AnyWaiterHasLiveChild`),
`WaitReportsTruth` and `Slot0IsInit`.

None of these is inductive alone. That a reaped block is not the live address
space needs to know whose memory the kernel can reach inside a scheduler call
(`KernelSpaceSound`); that a status reaches the right parent needs that pids
identify slots and that a parent is older than its child (`PidsSound`), which also
gives that nobody is its own parent; `WaitReportsTruth` needs that a zombie's
`exit_code` is what it died with (`HistorySound`) and that no two processes share
a block (`BlocksConserved`); `NoMissedExit` and `AnyWaiterHasLiveChild` support
each other: exit looks for a waiter, finds it by pid, and leaves a zombie only
if there was none. The proof has one lemma per action, and under it one step per
conjunct the action can disturb; actions that share code (`exit` and `kill`,
the three copies of reaping) share lemmas.

`PipeProofs` proves `PipeInv` and the refinement `Spec => Fifo!Spec` for every buffer
size, set of bytes, transfer length and number of references. The argument is
about indices: a read of `n` bytes drops the first `n` of the slice from `rpos`, a
write of `n` appends them, both because the positions are taken modulo the buffer
size and `wpos` stays `count` ahead of `rpos`. The lemmas on remainders and slices
that this needs come first in the module.

In the same module, `PipelineWhole`: `PipelineInv` says which descriptors each of the three
processes holds at each place of its program (a reference of the pipe is one of them),
which places the three can be at together (a parent that has reaped a child has forked it),
and that what the reader has, what lies in the pipe and what the writer has still to write
are the output. That the right program reads to the end then follows: a read returns 0 only
when no process holds the writing end, so the writer is through.

`LineShown` and `EditsKeepLine`: `EditInv` joins the line with what was last drawn
(`last_draw_len` is its length), what the terminal shows, and the slots of the history ring
with the lines entered (`RingHolds`), which also covers the line being browsed
(`Recalled`). What the terminal shows has two parts. `Stood`, that prompt and line stand
before the cursor, holds for every width and however often they wrap: a redraw writes them
again from wherever the row begins. `Shown`, that there is nothing else, is claimed while
`clean` holds: then the row's beginning is the prompt's, and the blanks printed are as many
as the line has become shorter. Every redraw goes through one lemma; TAB, which writes before
it redraws, has one more. For completion, what is added is the longest prefix the candidates
share; it is found as the greatest of a bounded set of numbers.

`VmemProofs` proves `VmemInv` and the refinement `Spec => AS!Spec` for every region,
page size, number of areas and set of arguments. What makes `munmap` work is the
part of `LoopsSound` about its loop: slots already passed no longer meet the range,
the addresses outside the range are as they were, and before the first cut nothing
has changed. The delicate case is the split that finds no slot. It would leave a
half-done `munmap` if another area had been cut before; but an area that must be
split contains the whole range, so, areas being disjoint, no other area meets it
(`SplitMeetsOneArea`), and the failing call has changed nothing. The new right part
of a split may land in a slot the loop has still to visit, where it is skipped,
since it begins where the range ends.

Two more properties of the same module are about its loops. `PlaceSkipsNoFit`, that the
search of `sys_mmap` never passes over an address that would have done, follows from
`SearchSound`: above the cursor nothing fits, because each jump goes just below an area
that meets every placement in between. `NothingLost`, that after `munmap` the next search
begins above every hole, follows from `WalkSound`: the walk of `proc_recompute_mmap_next`
down from the top has so far passed over mapped addresses only.

In `ProcSched` also `HaltIsFinal`, since a scheduler that answers -1 has found nobody
whom time or input could wake (`NoneLeft`), and that self-kill is the only way to the
violation of `proc_selfkill`: with `~KillSelf`, `OnlyRunnableRuns` holds for every size
(`OnlySelfKillRunsTheDead`). The invariant for that (`RunSound`) says in which state each
call has left its caller when it enters the scheduler.

`FdTableProofs`: `CountsExact`, `ObjectsKept` and that no count exceeds the number of
descriptors. An invariant that relates counts to cardinalities of sets of
descriptors directly is awkward in the middle of a call, when a count has
changed and the table has not, or the reverse. The invariant `FdInv` says instead that there
is a function `h` (in `Holds`) from places to descriptions with which every count agrees. The
places are the entries of the tables and two spare ones, for what a call holds before it is
in a table; so each primitive (`fd_alloc_into`, `desc_decref`, `pipe_dec_reader`) changes `h` in
one place, a system call composes them, and between calls the spare places are empty
(`Settled`). That processes not alive have no descriptors is what fork relies on.

`RamFsProofs`: `FsInv` is `TypeOK`, `LinkCountsExact` and `Tree` (what is in the overlay lies
in a directory, has its path alone and hides nothing of the archive, where a directory is
what the tables say and not what a lookup finds). From it `OverlaySound`, the action
properties `OpenFileStays` and `OpensNoLink`, and the refinement of `Files`, for
every number of names, files and inodes.

`Udp6Proofs`: `UdpInv` joins types, sockets (`SocketsSound`), that an unused slot is empty
(`FreeIsEmpty`), that a datagram is in one queue or with one receiver, in the order in which
they were sent (`IdsSound`), and that without fork no two processes have one socket and a
receiver was woken for a reason (`WaitSound`). It gives `SocketsSound`,
`DatagramsOnceInOrder` and `SoleHolderStaysBlocked`, the last of which is not inductive alone:
that the queue still has what the receiver was woken for is due to its being the only holder.

In the same module, `ExecFailsClean`: until the first segment is loaded memory is the
caller's (`ExecInv`), and a header the loader refuses is one that is bad. What the lookup finds
is the least number of a set, so the lemma that there is one is all it needs.

`IoProofs` is about four components. `NeighbourInv` joins the cache with the ping in flight;
it gives `CacheSound` and `PingAnsweredByItsHost`. `SenderIsNotForgotten` is the part of
`SenderGetsThrough` that is safety: if the talkers fit the cache, no entry is replaced.
`StreamInv` of `Tcp6` relates the numbers of the receive side, which wrap, to
positions in the stream: what is in the buffer is the stream between what the reader has
and what is acknowledged, as long as the peer sends its FIN alone. It assumes
(`Tcp6Assumption`) that sequence numbers are more than twice the stream, as 2^32 is for any
stream of less than 2 GiB; with numbers that come round within a stream `net_ipv6.c`
would take an old segment for a new one. For `Idle`, `TimerRight` follows from `IdleInv`,
which says what the timer is set to at each step of the window: that it is armed as long as
a sleeper or a poll needs it and it has not fired (`Armed`), not for later than the first of
them (`NeverLate`), and not at all without need (`Tickless`).

For `Term`, `ConsoleRight` is proved for every size of screen, framebuffer and log and every
sequence `TermAssumption` admits. `Showing` says that the visible rows of the framebuffer are
the reader's grid, that the visible part lies inside it, and that it has not moved if the
firmware refuses to move it. Each operation on the terminal has a lemma of the form "if `t`
shows `g`, what drawing makes of `t` shows what a reader makes of `g`": for the three ways to
scroll, the copy back to the top among them, and for a character, a line break, a backspace and a clear.
`ParserInv` relates the parser to the writer: it has the numbers written so far and the
value of the digits of the next (`Values`, `SoFar`), so with the last character both have the
same numbers (`NumbersAgree`). Colours are a fold over them that both sides share, so it is
never unfolded. `LogInv` says where in the ring the k-th newest character is.

`BootProofs`: `MemInv` says that every used page belongs to exactly one of those who took
pages (`Owned`), that children hold whole blocks (`Children`), what boot has reserved by
when (`Booted`), and that a block of device memory has part of the framebuffer in it
(`Devices`). The last is why a child's block is never a device: that part is a page that is
reserved, and the block was free. It holds for every size of page, block and machine under
`MemoryAssumption` and `RoomToBoot`, both of which TLC evaluates for `MCKernel`'s machines.

`UsbBusRight`: `UsbInv` has two parts. `BusInv` says that the next address is above every one given, that a device is
at 0 only while it is being enumerated or after it failed to take its address (`stray`), that
drivers hold devices which answer where they are bound. `RndisInv` says that the answers a
device has ready are those to the commands it took, in order. That the endpoints found are a pair of one
interface needs an invariant of the walk over the descriptors, position by position; since the
walk is a function on numbers, the proof looks at the first position where it would fail.

Loops and counts need induction over numbers: that n calls of `pmm_alloc_page` return n pages
if there are so many, for instance. The library's induction schemas take an operator as
parameter, so these lemmas use the least element of a set of numbers, which
well-foundedness gives (`CountsUp` in `BootProofs`).

Only model-checked: everything with fairness (`NobodyStarves`, `InputReachesReader`,
`RecoversOnInput`, `CallsReturn`, `SenderGetsThrough`, `StreamArrives`, `ReceiveReturns`,
`PromptReturns`), which is beyond the prover. `CallsRight` (listing, paths and the stack of a new
program), `UsbNetRight` (messages put together from transfers) and `ToolsRight` (the filters,
`sort`, `cp`, `mv`, `xargs`, `diff`, `find`) compare folds and recursive functions with definitions
on the whole input, which would need induction over data.

## 7. Where the code and its comments disagree

Each is a run whose property states the comment and which TLC refutes.

- `proc_selfkill`: `sys_kill` on the caller with nothing else runnable returns into
  the process it has just made a zombie (`sys_proc.c:965`).
- `proc_waiter`: `wait4` for a pid that is no child blocks as long as there is
  some child (`sys_proc.c:818`); nothing will wake that parent.
- `idle_input`: a UART interrupt taken between `irq_enable` and `wfi` leaves the byte
  in the ring and the CPU asleep (`sched.c:287`) until the next interrupt.
- `idle_deadline`: likewise for a one-shot timer that fires before the `wfi`
  (`sched.c:282`): it has disabled itself, so the sleeper is not woken by time.
- `vmem_image`: "Heap is initialized on first execve()" (`proc.c:118`), but no path
  of `sys_execve` does it; the lazy initialisation then puts the heap at the start
  of the region, on top of the program (`sys_proc.c:30`).

Also seen while modelling, without a property: `sys_brk` looks at the stack but
not at the areas (`sys_proc.c:50`), so the heap can grow into mappings that `mmap`
keeps above it; a bad status pointer makes `wait4`
fail and keep the zombie if the child is dead already, but loses the status
silently if the parent had blocked first (`sys_proc.c:801` and `:891`); children
of a dead parent are never re-parented, so their slots and blocks are never
reused (`sys_proc.c:857`). A length within a page of 2^64 is rounded up to zero
(`sys_proc.c:134`); `mmap` makes an area of length 0 of it, and
`proc_recompute_mmap_next` never ends once that area is at its top. `Vmem` assumes
lengths that do not wrap. A child's table of areas is empty although its memory is
a copy of its parent's, so its `mmap` may hand out addresses already in use. A
description of a RAM file holds a slot of `g_ramfiles`; when its name is removed and
another file created, the slot may be that file's, and the description reads and
writes it (`vfs.c:448`, `vfs.c:540`). `open` creates or truncates before it can fail with
`EMFILE` (`sys_fs.c:649`, `:713`).
Truncation keeps the old bytes; a write through another description, whose offset
lies beyond the new end, makes those in between part of the file again
(`vfs.c:554`, `sys_fs.c:1214`).

In the network. `ping6` whose first transmission fails returns without cancelling the
request in flight (`sys_net.c:341`), and later calls get EBUSY; `PingAnsweredByItsHost`
assumes that transmissions succeed. When the neighbour cache is full only its first
slot is ever replaced (`net_ipv6.c:155`), so `SenderGetsThrough` assumes it suffices. A
solicitation before an echo is meant to teach the neighbour our global address
(`net_ipv6.c:1668`), but comes from the link-local one (`SolicitationTeachesGlobal` in
`Neighbour` states the comment, and does not hold).
The last acknowledgement of a TCP handshake is never
repeated if it is lost. A FIN that comes with data moves `rcv_nxt` by one and
the data is dropped (`net_ipv6.c:1484`), so `StreamIntact` is about peers that send it
alone. When two processes share a socket after a fork, a
datagram wakes both, and the one that comes second runs although its receive is still
pending (`sched.c:168`), and takes what is in its register for the result.
`SoleHolderStaysBlocked` is about a socket that one process holds.

In the file system. An overlay name that does not fit the caller's buffer makes the
whole `getdents64` fail with ENOENT, one of the archive is skipped and not counted, so
that later names are lost or listed twice (`sys_fs.c:1247`; `EveryEntryListed` in `Listing`
does not hold). `..` is lexical and only a final component is followed as a link; a
working directory whose path is within three characters of the longest cannot be left
by `cd ..`, and one that is removed stays current.

In memory. `pmm.c` aligns page numbers, not addresses: if RAM did not start at a
multiple of 2 MiB, blocks would not be aligned. The translation tables of reaped
children, and the pages of tables that could not be completed (`mmu.c:160`), are
never given back, so that fork fails in the end. The self-test in `main.c` takes 0 for a
page when none is left. The framebuffer reserves pages but maps whole blocks as device
memory.

In the devices. The USB network driver asks for 2048 bytes and sends whole frames, in
packets of the endpoint's size (`usb_host.c:281`, `:338`), but turns its toggle once for a
transfer (`usb_net.c:844`, `:147`): after one of an even number of packets the two ends are out
of step, and the next packet is lost or the last one repeated, before they are in step again.
A transfer that does not end within 2 ms counts as "no data" although packets of it may have
come, which are dropped (`usb_host.c:364`); the comment at `usb_net.c:794` describes the loss and
how reading in packets avoids it, and the lines below no longer do so. `UsbFramesIntact`
excepts both and bounds what they cost. A USB device that does not take its address stays at 0 and answers the
next `SET_ADDRESS`; after an RNDIS command that timed out, answers are one behind
(`usb_net.c:357`). A tab in the last columns of the terminal never ends, because the
cursor wraps before it reaches a stop (`termfb.c:442`): `Term` takes that loop step by step and
checks what it draws, not that it ends.
A trailing empty parameter of an escape sequence is dropped. `dmesg` with a short
buffer and the clear flag drops what it has not read. The UART interrupt injects `\r`
as it is, polling converts it (`irq.c:72`). After a fault `exception_handle` does not
look at the exception class.

In the programs. `cat` writes once and goes on, losing what did not fit the pipe
(`cat.c:22`; the comment at `cat.c:8` says that it copies; `CatCopies` in `Pipeline` states
it and does not hold); `PipelineWhole` leaves such writers out, as it does `tr`, which
gives up on the first EAGAIN. A second fork that fails in `run_pipeline` leaves the
left child unwaited, and the text "execve failed" goes into the pipe. `tail` prints a
line too many and
`uniq` loses the last line when the input does not end in a newline. A line of full
length is returned without Enter, so recalling one runs it. `cp` and `mv` do not see that
source and target are one file: `cp a a` empties it, `mv a a`, or a move onto a hard link,
loses what it held (`mv.c:200`); two sources with one base name overwrite each other with
status 0. `xargs` batches up to 48 words, but `execve` takes 31 arguments (`sys_proc.c:359`), so
large batches fail with 127 and their words are lost. `diff -u` calls files equal that
differ in the final newline only, `diff` does not. `find` leaves out, without a word, what
lies below the directories it has descriptors for, paths of 256 characters, and what
`newfstatat` or `getdents64` fail for (`find.c:165`, `:191`), so the rest of
a directory of the overlay whose entries do not fit its buffer of 512 bytes
(`sys_fs.c:1332`), and all below it. A shell line longer than a row of the terminal is not redrawn in place: the carriage
return of `redraw_line` (`sh.c:469`) leads to the last of its rows, so each key leaves a copy of the
rows above it.

## 8. Not modelled, and why

EL0 faults (dispatched as if they were calls; which call depends on register
contents), a clock of frequency zero, cache maintenance and the bits of page tables,
lengths that wrap around 2^64, permission bits, `stat` and the files of `/proc`. The
registers of the USB controller, of the UART and of the mailbox; a bus without a hub;
glyphs. The parsing of archive, ELF and packet headers beyond the fields named above,
checksums, duplicate address detection. The device-tree parser, a read-only walk over
data the firmware provides. `kinit`'s list of self-tests and the shell's splitting of a
line into words and its built-in commands. The other tools (awk, sed, printf, od
and the rest) compute or print sequentially; a reference definition for them
would be as long as they are. `PROJECT.json` lists every component with what is missing.
