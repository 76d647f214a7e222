# Verification of the ucore lab8 kernel (OS2025)

The repository holds the labs of a teaching operating system for RISC-V. Each
lab directory is a complete kernel that extends the one before it; `lab8` is the
last and the only one with all parts. This project models the lab8 kernel, and
from the earlier labs what lab8 does not have: the buddy and best-fit allocators of
lab2 and the stride scheduler of lab6.

The kernel runs on one hart and is never preempted inside the kernel: a process
gives up the processor only where it calls `schedule()`. System calls run with
interrupts off. What makes the code hard nevertheless are the places where state
is left behind across a call of `schedule()`: a process asleep in `do_wait`,
`do_sleep`, on a semaphore or in a read of the keyboard can be woken by the event
it waits for, by a kill, or by one after the other, before it runs again.

## Inventory

| component | state | operations | interacts with | what makes it correct |
|---|---|---|---|---|
| process manager (`kern/process/proc.c`) | `proc_struct`s: state, wait_state, flags, parent, family links; `nr_process` | do_fork, do_exit, do_wait, do_kill, do_yield, do_sleep, init_main | scheduler (wakeup_proc, schedule), timers, mm, files | no exit missed by a waiting parent, no orphan, zombies reaped, kill is effective |
| pid allocation (`get_pid`) | `last_pid`, `next_safe` kept between calls | get_pid | process list | fresh pids from a stale interval, termination |
| scheduler (`kern/schedule`) | run queue, time slices, need_resched | wakeup_proc, schedule, RR_* | every blocking call, timer interrupt | queue holds exactly the runnable, nobody starves |
| timers (`sched.c`) | delta list of `timer_t` on sleepers' stacks | add_timer, del_timer, run_timer_list | do_sleep, timer interrupt | relative times add up, no timer outlives its frame |
| trap (`kern/trap`) | `PF_EXITING`, need_resched looked at on return | trap, timer interrupt | all of the above | a killed process exits |
| semaphores, wait queues (`kern/sync`) | value, FIFO of `wait_t` | up, down, try_down | scheduler; sfs and disk locks | units conserved under direct hand-off, FIFO |
| monitors | mutex, next, next_count, condition counts | cond_wait, cond_signal | semaphores | one active process, no signal lost |
| philosophers (`check_sync.c`) | forks' states | take, put, twice | semaphores, monitor | neighbours exclude, all finish |
| page allocator (`kern/mm/default_pmm.c`) | free list of page links, block sizes, flags, nr_free | alloc_pages, free_pages | all memory users | no page given twice or lost, blocks joined |
| buddy and best fit (`lab2/kern/mm`) | one list per order, sizes and flags; the first-fit list | alloc_pages, free_pages | all memory users of lab2 | blocks divide memory up, buddies merge, the smallest fit is taken |
| kernel heap (`kern/mm/kmalloc.c`) | ring of free blocks, `slobfree`, list of large blocks | kmalloc, kfree | page allocator | free and used blocks divide the pages up, neighbours joined |
| virtual memory (`kern/mm/vmm.c`, `pmm.c`) | area lists, three levels of tables, free pages | mm_map, dup_mmap, exit_mmap, get_pte, copy_range, exit_range | fork, exec, exit, page allocator | areas disjoint, no page used twice or lost, failures undone |
| stride scheduler (`lab6/kern/schedule`) | strides, priorities, skew heap | enqueue, pick_next, dequeue, proc_tick, lab6_set_priority | wakeup_proc, schedule, timer interrupt | shares in proportion to priorities, nobody starves |
| stdin device | ring buffer, read and write positions, wait queue | dev_stdin_write (interrupt), dev_stdin_read | wait queues, do_kill | keys in order, no reader asleep beside a key |
| file descriptors, VFS (`kern/fs/file.c`, `fs.c`, `vfs/`) | fd tables, `ref_count` and `open_count` of inodes, working directories | open, close, dup, chdir, the calls on files; fork, exec and exit | processes, file system, devices | counts are the number of holders, nothing is freed in use or kept for ever |
| file contents (`kern/fs/sfs/sfs_inode.c`, `bitmap.c`) | free map, block maps with an indirect block, sizes, dirty flags, positions of descriptors | open, close, read, write, seek, fsync, truncate | descriptors, disk | a file is an array of bytes, a block belongs to one owner |
| inode cache (`sfs_inode.c`, `sfs_fs.c`) | hash list, `reclaim_count`, dirty flags, `fs_sem` and the inodes' locks | sfs_load_inode, sfs_fsync, sfs_reclaim, sfs_cleanup | VFS counts, disk | one copy in memory, no update that is marked dirty lost, no deadlock |
| drivers, boot, debugging, library, user programs, mksfs | - | - | - | not modelled: hardware access, printing, or host tools |

Otherwise lab1 to lab6 are earlier states of the same kernel. `PROJECT.json` lists every
component with its status, and under `hazards` the places where a test would
hardly reach what can go wrong.

## Modules

| module | models | state and actions |
|---|---|---|
| `Proc` | proc.c, sched.c, default_sched.c, tail of trap.c | one variable per field; `pc[p]` is where p stands in the kernel; one action per system call, per stretch between two calls of `schedule()`, and per stage of the timer interrupt |
| `MCProc` | - | the symmetry of user processes, for TLC |
| `GetPid` | get_pid with set_links and remove_links | `last_pid`, `next_safe`, the process list; `Enter`, `Scan`, `ScanEnd`, `Link`, `Unlink` |
| `PidAllocator` | abstract: any unused pid is taken or released | refined by `GetPid` |
| `Semaphore` | sem.c and the wait queue of wait.c | `Down`, `Up`, `TryDown`, `Kill` as operators on a set of semaphores |
| `SemLock` | the use of a semaphore as in sfs_lock.c | threads that lock, try, unlock and are killed |
| `Permits` | abstract: at most N holders | refined by `SemLock` |
| `Philosophers` | check_sync.c with semaphores | one action per stretch between two semaphore calls |
| `Monitor`, `PhilosophersCV` | monitor.c; check_sync.c with condition variables | each `down` that may sleep ends an action |
| `FirstFit` | default_pmm.c over the pointers of libs/list.h | `AllocFound`, `AllocFailed`, `FreePages` |
| `PagePool` | abstract: runs of free pages are taken and given back | refined by `FirstFit` |
| `Stdin` | dev_stdin.c with wait.c | `DevStdinWrite` (interrupt), `DevStdinRead`, the two ways on behind `schedule()`, `Kill` |
| `Files` | file.c, fs.c, counts of vfs/inode.c, vfsfile.c, vfspath.c; the part of fork, exec and exit that concerns files | descriptor tables, both counts of every inode; one action per call and per way it ends, a failed assertion (`Panic`) included |
| `SfsFile` | sfs_inode.c from sfs_block_alloc to sfs_truncfile and sfs_fsync, bitmap.c, file_open to file_fsync | a record `sfs` that operators named after the functions transform: the inodes in memory (`din`), their `dirty` flags, what the disk has of them (`saved`), the blocks and the free map; `Open`, `Close`, `Fsync`, `Read`, `Write`, `Seek` |
| `ByteFiles` | abstract: files are sequences of words | refined by `SfsFile` |
| `MCSfsFile` | - | which descriptors meet on which files, for TLC |
| `SfsCache` | sfs_load_inode, sfs_io's and sfs_fsync's locking, sfs_reclaim, sfs_cleanup, inode_ref_dec | inodes in memory and on disk, two kinds of locks; an action ends where a thread may have to wait for a lock or for the disk |
| `AddrSpace` | vmm.c, the tables of pmm.c, copy_mm, load_icode, the memory side of do_execve and do_exit | areas and tables of each process, the free pages; `Exec` and `Fork` with the step at which something fails (`cut`), `Exit`; a loop is `Repeat` over its rounds |
| `Slob` | kmalloc.c | ring fields at every address, list of large blocks; `KmallocSmall`, `KmallocBig`, `KmallocPanics`, `KfreeSmall`, `KfreeBig` |
| `Buddy` | lab2's buddysystem_pmm.c | lists, sizes and flags; `AllocPages`, `AllocFailed`, `FreePages`, `FreePanics` |
| `BestFit` | lab2's best_fit_pmm.c, over the list of `FirstFit` | `BestAlloc`, `BestAllocFailed` |
| `Stride` | lab6's default_sched_stride.c, skew_heap.h, schedule, wakeup_proc, trap | strides of `WORD` bits, the heap as a tree; ticks, calls and wakeups |
| `StrideShare` | - | `Stride` with history variables for strides that do not wrap |
| `MCSync` | - | `SemLock`, `Philosophers`, `PhilosophersCV` and `Stdin` beside each other, one of them at a time |
| `MCInodes` | - | `Files` and `SfsCache` beside each other, one of them at a time |
| `MCMemory` | the choice of init_pmm_manager | `FirstFit`, `BestFit`, `Buddy`, `Slob` and `AddrSpace` on small instances, one of them at a time |
| `SeqLemmas`, `*_proofs` | - | lemmas and theorems |

Conventions. A process is named by its pid; `GetPid` justifies that `Proc` takes
any unused pid in do_fork. The sibling chain `cptr`/`optr` is a set, because
nothing depends on its order but which of several zombies do_wait collects
first, and the model lets it collect any. `UNINIT` stands for a pid without a
`proc_struct`. In `Proc` a process that is not current is parked behind the call
of `schedule()` it made; `Schedule` moves the caller to the point where the call
will return. `kthread` marks threads that run kernel code with interrupts on.
Killing init is allowed, as in the code, and ends in the panic of do_exit
(`halted`). `NoEffect` stands for every system call that leaves this state alone.

`SemLock`, `Philosophers` and `PhilosophersCV` interleave their threads freely
between two semaphore calls, which covers the schedules of the non-preemptive
kernel. In `Stdin` the reader is one step from one sleep to the next, because it
runs with interrupts off.

In `Files`, `SfsFile`, `AddrSpace` and `Slob` a call is one step: it runs with
interrupts off and the locks it takes are free, because nothing sleeps while it
holds one (the disk is in memory). The read of stdin is the exception, and two
actions of `Files`. `SfsCache` does not rely on this: it lets the disk take its
time, so that the locks are really contended, which is what they are there for.
A path is the inode it leads to, an ELF file the list of its segments, an address
the number of its page, and the contents of a file are words of a small set. Blocks,
tables, strides and heap units are a few of each, with the same layout as in the
code: one direct block and an index block of two entries; two entries in each level
of the tables; strides of 3 bits with `BIG_STRIDE` a quarter of the range; a
page of six heap units.

`Files` and `AddrSpace` look at the same calls of proc.c from two sides. What joins
them to `Proc` is that fork, exec and exit are steps of the current process; `Proc`
does not depend on their outcome except that a failed exec is an exit.

An inode of `SfsFile` is in memory while a descriptor has its file open. The last close
writes it if it is marked dirty and drops it, and the next open reads what the disk has, so
that a change made without setting `dirty` can get lost, as it does in the code (finding
4). `SfsCache` takes the other half: an update that *is* marked dirty survives every
interleaving of lookups, writes and reclaims. How long an unused inode stays in memory is
`SfsCache`'s matter; `SfsFile` drops it at the last close.

`MCSfsFile` lets a behaviour of `SfsFile` move two descriptors over one file, one over two
files, or one by small calls while the other takes blocks and gives them back: what one
descriptor does under another needs one file, what a file gets from another needs one
descriptor, and the third kind reaches the long history in which a file grows over a block
its inode has lost. `MCSync`, `MCInodes` and `MCMemory` put components side by side that
share no state. The variable `part`, chosen at the start, says which of them a behaviour
exercises; the others keep their initial values. The reachable states are the sum of theirs
and not the product, and nothing is lost: a property of one of them depends on its own
variables only.

Two runs identify states by a `VIEW`. That of `SfsFile` leaves out `got` and `left`, which
are about the last call and which no next state depends on. That of `MCMemory` leaves out
`property` and `page_link` of pages that are not the head of a free block: the allocators
write these fields before they read them.

Definitions marked *Mutant* are not used by any specification. Each is a
plausible slip in the code which some property must notice when it takes the
place of the definition that follows it.

## Runs

| run | bounds | result |
|---|---|---|
| `proc_safety` | 3 user pids, slice 1, sleeps of 1 or 2 ticks | passes, 460 028 states |
| `proc_liveness` | 2 user pids | passes |
| `proc_kill` | 2 user pids | `KilledExits` violated: finding 1 |
| `get_pid` | MAX_PID 7, MAX_PROCESS 6, every history | passes |
| `sync` | 4 threads at 2 units; 4 philosophers with semaphores, 1 meal each, and 3 with the monitor, 2 meals each; 2 readers, a buffer of 2, reads of up to 3 keys, 5 keys | passes, 19 540 states |
| `stdin_kill` | the readers of `sync` | `KilledReaderLeaves` violated: finding 3 |
| `memory` | first and best fit: 6 pages, the top one kept free; buddies: frames 1 to 7, 3 orders; heap: 3 pages of 6 units, objects of 2 and 4 units with their headers, one that panics, of one and of two pages; address spaces: 2 processes, 16 frames, 2 entries per level of tables, 3 programs | passes, 29 246 states |
| `first_fit_top` | 7 pages, all usable | `CheckedFreeList` violated: finding 2 |
| `inodes` | files: 2 processes, 2 directories, a file, stdin and stdout, 2 descriptors each, 2 open at once, 1 lost reference; cache: 3 threads, 1 inode, 2 places in memory | passes, 241 040 states |
| `sfs_file` | 2 files, 2 descriptors (one appends), 3 blocks of 3 words, an index block of 2 entries, transfers of 1 and 5 words, positions 4 and 8 | passes, 205 802 states |
| `sfs_dirty` | those of `sfs_file` | `DirtyIfModified` violated: finding 4 |
| `stride` | 3 processes, one forked at once or late, which also sleeps and exits, priorities 1 and 2, 3-bit strides | passes, 81 024 states |

Why these bounds. Three user processes give a parent, a child and a third that
kills either, or a grandchild that is inherited; two timers of 1 and 2 ticks give
equal and different expiries, and a killed sleeper in front of and behind another
one. A slice of 1 makes every tick a preemption. With MAX_PID 7 and up to five live
pids the counter wraps with all pids but one taken. Four threads and two units
have two sleepers behind two holders, and four philosophers have non-neighbours
that eat at once; at the monitor a second meal meets the neighbours in every state
the first one leaves behind. Six pages, five of them for the clients, have a gap that is large
enough in front of a smaller one that is large enough, so that first fit and best fit take
different blocks, and two of equal size, of which best fit takes the lower; seven are needed
before the self-linked block is reused. A buffer of two
keys is full, empty and wrapped within five keys, and a read of three is longer
than the buffer.

Two processes with two descriptors have every way a descriptor is shared after a
fork, and a full table. A disk of three blocks
is full while two files compete, with and without an index block. With three words per
block a transfer of one word lies inside a block, and one of five has, at an unaligned position,
a head and a whole block or a head and a tail, and at an aligned one a whole block and a tail.
Three threads are one that gives an inode back, one that looks it up at that moment and
one that writes; inodes meet only in fs_sem, and the second place in memory is where a
second copy would be. Seven frames from 1 on begin at no multiple of a block and are no
power of two, so that buddies lie outside. Strides of 3 bits wrap around every four to
eight picks, and with priorities 1 and 2 passes are the whole and the half of BIG_STRIDE.
Sixteen pages hold two programs of the usual size with all their tables exactly, and a large
one leaves some over; whatever memory is left, `cut` makes each step fail.
Three pages of heap have a page above, below and between those in use.

`MAX_PROCESS` is checked against the state in `Proc`, where do_fork fails into
`NoEffect`. The cfg of `sync` lets the system stop: nobody has to type or to lock, and
the philosophers end by quitting. In `inodes`, `sfs_file` and `memory` a failed
assertion ends the behaviour, as it ends the kernel; the cache of `inodes` ends when all
processes have quit and `Cleanup`, a single step because nobody is left to contend,
has written what is dirty.

`Headroom` keeps clients of `FirstFit` from taking the topmost pages. As long as
the topmost block is never handed out and given back, the defect shown by
`first_fit_top` does not occur, and `memory` shows that everything else in the
allocator is right. At run time this is the case until memory has once been used
up to its end.

### Fairness

- `Proc`: `WF(Handler)`: an interrupt handler runs to its end. `SF(Tick)`: the timer
  keeps running and its interrupt stays pending until interrupts are on. `SF(KernelStep)`:
  kernel threads run with interrupts on, but a handler is short, so kernel code
  gets on between two ticks. Nothing is assumed of `Syscall`: a user program may
  loop for ever.
- `GetPid`: the scan goes on once it has begun, with interrupts off.
- `SemLock`: a holder leaves its critical section. Nobody has to enter it.
- `Philosophers`, `PhilosophersCV`: a philosopher that can go on does, which
  round robin (`RunnableRuns`) provides.
- `Stdin`: a reader that is runnable runs. Nobody has to type.
- `SfsCache`, in `inodes`: strong fairness of taking a lock, which is given to the one that has
  waited longest (`FirstComeFirstServed`, `WaiterGetsIn` of `sync`), and weak
  fairness of going on with a lock held. Nobody has to begin a call.
- `Stride`: the timer goes on, and a process with need_resched set reaches the end of
  its trap. Nobody has to wake up, yield or fork. `EveryoneRuns` is about behaviours in
  which processes stop falling asleep, waking, forking and exiting at some time.

### Findings

1. `proc_kill`: a process killed while preempted in user mode can block in `wait`
   and stay there: `trap()` looks at `PF_EXITING` before `schedule()`, do_wait only
   behind it, and do_kill wakes once. `KilledAwakeExits` states what does hold.
2. `first_fit_top`: `default_free_pages` links the topmost block to itself.
3. `stdin_kill`: a key that arrives between the kill of a sleeping reader and its
   next run overwrites the reason of the wakeup, and the reader sleeps again.
4. `sfs_dirty`: `din->blocks` changes without `dirty` being set, where a block is added to
   an index block that exists and where `sfs_truncfile` runs out of blocks. The inode is
   dropped without being written, and its reload has fewer blocks than are in use. The
   block is not lost (`BlocksExact`: it is found again by the same entry), but when the file
   is truncated it is not freed, and when the file grows again it shows its old words. That
   step (`Exposes`) is the only exception `ImplementsByteFiles` makes; without the exception
   the refinement is violated in `sfs_file`.

Further assertions and comments of the code that its model does not keep are stated in
the modules, under the names given here. No run of the list checks them; TLC reports
each of them violated with the bounds of the component's run.

- `Files!UnusedReclaimed`: `vfs_open` with O_CREAT and O_EXCL on an existing file keeps
  the reference of its lookup (`vfsfile.c:49`), so the inode is never reclaimed.
- `Files!ExitFreesFiles`: do_execve has set `current->mm` to NULL when load_icode fails,
  and do_exit calls put_files only for a process with an mm (`proc.c:653`).
- `Files!GetdirentryReturns`: operations an inode does not have are asserted
  (`inode.h:196`), where the contract says "On non-directory objects, return ENOTDIR."
- `SfsFile!IndexAsserted`: a write at the position of a descriptor whose file was
  truncated meanwhile fails `assert(index <= din->blocks)` (`sfs_inode.c:365`).
- `SfsFile!TruncAsserted`: a seek that runs out of blocks leaves those it has added, and
  `assert(tblks == din->blocks)` counts them later (`sfs_inode.c:992`).
- `SfsFile!AppendsAtEnd`: file_open sets the position once (`file.c:191`), where
  `unistd.h:49` says of O_APPEND "append on each write".
- `Buddy!FreeAsserted`, `Buddy!MergedUntilImpossible`: merge_page leaves PG_property on
  the upper half of a merged block and clears that of the merged block
  (`buddysystem_pmm.c:173-181`), so freeing the block later fails an assertion, or it is
  never merged again.
- `AddrSpace!TablesFreed`: exit_range frees a directory with tables of another area in it
  (`pmm.c:415`). The pages of the programs are not lost (`FramesSafe`).
- `AddrSpace!OverlapAsserted`: mm_map tests only where a new area begins (`vmm.c:184`).
- `AddrSpace!MemoryAsserted`: copy_range and load_icode assert that there is memory for a
  page of data or of the stack (`pmm.c:463`, `proc.c:904`).
- `AddrSpace!CheckedMapped`: user_mem_check accepts the unmapped pages of the stack area,
  which nothing maps when they are touched (`proc.c:903`, `trap.c:198-206`).
- `Slob!SizeAsserted`: sizes from PAGE_SIZE - 2 * SLOB_UNIT on pass the test of __kmalloc
  (`kmalloc.c:234`) and fail the assertion of slob_alloc.
- `Stride`: without its premise, and with two processes that sleep, `EveryoneRuns` fails. A process that has slept keeps its
  stride; when the others are half of the range ahead, it is ordered behind what it should
  precede, and two processes that sleep in turn can overtake a third one for ever. A
  priority above BIG_STRIDE makes the pass 0, with the same effect.

For these reasons some of the hazards in `PROJECT.json` are caught by no property, and say so
in a note: the files of a process whose exec failed, the reference kept by O_EXCL, the
assertions on a truncated or overlapping range, the write at a stale position, the freed
directory of tables. Two more are caught in part: `BlocksPartition` leaves out the flags of
`Buddy`, and `EveryoneRuns` what two sleepers can do to a third process. A do_fork that fails
in copy_files leaks the address space it copied (`proc.c:595`); `AddrSpace!Fork` ends with
copy_mm and does not show it.

## Proofs

`Proc_proofs` proves, for any finite set of pids and any bounds, that the run queue
is exact, that exactly the sleeping processes wait, that parents are alive and that
no exit is missed. None of these is inductive alone. The invariant `IInv` joins
them, because each wakeup is safe only if its target is asleep (`WaitersSleep`), the
target of do_exit exists (`ParentAlive`), and what is asleep is not on the queue
(`RunQueueExact`), and adds

- `PcState`: where a process stands fixes which states it can be in; in particular
  current is RUNNABLE unless it is about to call `schedule()`;
- `TimersLive`: a timer belongs to a process inside do_sleep, which has one timer,
  so that a zombie owns none;
- `Roots`: init is idle's child, idle has no parent, nobody is its own parent, so
  that do_exit neither reparents nor wakes itself.

There is one lemma per action, and one for the actions that only move the current
process on (`Move`); `WakeupKeeps` is the fact about wakeup_proc they share.

Two more layers stand on `IInv`, each with its own invariant and its own effect of
every action, so that the actions that do not touch it are one case.

- *The family* (`FamilyInv`): nr_process is the number of processes, and in every set
  of user processes there is one whose parent is outside the set. The second
  is how a finite tree is written without recursion. When do_wait tells init that it
  has no child, the set of all user processes would have no such member, so it is empty:
  init ends alone (`InitIsLast`).
- *The clock* (`ClockInv`): each timer's `expires` is the difference between what its
  process and the one before it still have to sleep. That the sums of the list are exact
  (`TimersAreExact`) follows by induction along the list. A sleep that ends,
  ends at the head of the list with nothing left, or by a kill
  (`SleepsLastLongEnough`).

`GetPid_proofs` proves that pids are fresh, that `last_pid` stays in 1..MAX_PID, and that `GetPid` implements
`PidAllocator`. The invariant says what the scan has seen so far: no pid met lies
between `last_pid` and `next_safe`; between calls it holds of all live pids.

`Sync_proofs` is about the composition `MCSync`, in three parts.

- *The lock*: conservation of units, exactness of the queue and the refinement of
  `Permits` for any number of threads and units, and that threads are let in in the
  order they queued up (`ServedInOrder`). These are theorems of `SemLock` alone.
- *Stdin* (`KeysInv`): `KeysInOrder` and `NobodySleepsBesideKey`, for any size of
  the buffer, any readers and any lengths of reads. What the readers got, followed by
  what lies unread in the ring buffer, is one stream. A read moves the boundary inside
  the stream (`ReadMoves`); a key is appended to it (`KeyIsLast`), or, when the buffer is
  full, replaces its first unread element (`KeyTakesOldest`). Positions less than
  STDIN_BUFSIZE apart have slots of their own, and those that far apart share one.
- *The composition* (`SyncInv`): the two modules about the philosophers are instantiated
  with the variables of their table; a step of `SyncNext` is a step of theirs or leaves
  their variables alone. So `TablesExclude`, `MonitorExcludes` and `NoSignalLost` are
  theorems about the specification the run checks.

At the table with semaphores, neighbours never eat together because whoever writes
`state_sema` holds the mutex, a philosopher becomes EATING only while neither
neighbour is, and its own semaphore has its unit only once it is EATING. With the
monitor (`PhilosophersCV_proofs`), the right to run in the monitor is a token (`OneToken`): it is
the unit of the mutex, of `next` or of one condition variable, or one active thread has
it, and never two of these. cond_signal gives it to the waiter it wakes
and gets it back through `next`. `MonitorExcludes` and `NoSignalLost` follow from that
and from where each thread stands (`Places`).

`SfsCache_proofs` proves that an inode is in memory once, is never freed under a thread
that uses it, is counted exactly, and that no update that is marked dirty is lost
(`MarkedUpdatesKept`): a node that is marked dirty or being written has the last such update
(`Fresh`), and without one the disk has it (`MarkedKept`). What makes it
inductive is `Counted`: reclaim_count is the number of threads about to reclaim the
node, and one more while it is in use. So the thread that finds it 1 and ref_count 0,
with fs_sem in its hands, is the only one that knows the node.

`Files_proofs` proves that the two counts of every inode are the descriptors, working
directories and owners there are, and that no inode in use is given up. Every action
replaces the table of one process, or of two in a fork, so
that the counts of an inode change by the difference between the old and the new table.

`Memory_proofs` is about the page allocators, the address spaces and the heap, as
`MCMemory` puts them beside each other.

- *The free list* (`FirstFitExact`, `BestFitExact`), pointer by pointer and for memory of
  any size. The invariant `ListInv` says that the links are a ring through the heads of
  the free blocks in increasing order (`Linked`), and that these blocks with their
  `property` tile the free pages with no two of them adjacent (`Tiled`). `Linked` is
  stated by what follows and what precedes each entry, which is why no induction along the
  list is needed: alloc_pages and free_pages change it at one entry.
- *What a request gets*: the first-fit allocator implements the pool, initial state and
  every step (`FirstFitIsPool`); best fit serves the smallest gap that is large enough, the
  lowest of these (`BestFitIsBest`). The search along the list is a recursive function;
  what it stands at is followed from entry to entry with `Repeated`.
- *The frames* (`FramesAreSafe`). While fork or exec builds an address space, the frames
  it began with are divided up between those still free and those the new tables refer
  to, each in one place (`Owns`). Each page, table and loop keeps this, so it holds wherever
  a call is cut. Taking an address space down frees no frame it did not own
  (`ExitRangeFrees`), and all of its pages, because every page that is mapped lies in an
  area (`Covered`); the tables it may lose are excepted, and `UserKept` says that these
  are never the last place of a program's page.
- *The heap* (`HeapIsExact`), for any number and size of pages, any unit and any sizes
  asked for. `HeapInv` says that the ring passes through the free blocks in the
  order of the addresses and back to the arena (`Circled`), that free blocks and pieces in
  use cut the heap's units up, each as long as its first unit says (`Cut`), and that no two
  free blocks could be one. A walk from any block on comes back to it and has met every
  other once (`RingWalks`), so the loop of slob_free ends at the block below the one it is
  given (`StopsBehind`), joins it with that above and that below (`Upwards`, `Downwards`),
  and the search of slob_alloc misses no block (`ChosenFits`, `Taken`). A new page is a piece
  in use that is given back, which ends in one block of the ring at least as large
  (`RunInRing`): the second search of slob_alloc succeeds.

`SeqLemmas` holds what the others need about queues and ring buffers, and induction over
the natural numbers in the form of a least element of a set, `LeastNatural`.

Assumptions are those named in the modules (`PidAssumption`, `BoundAssumption`,
and the like): distinct pids for idle and init, finite sets, natural bounds,
MAX_PID above MAX_PROCESS as get_pid asserts statically, two philosophers or more,
programs whose segments are non-empty ranges of user addresses, as USER_ACCESS demands,
a page of a whole number of heap units, at least four, and sizes other than 0.
The theorems about the free lists also assume `Headroom # 0`, that some pages at the top
stay free: without it they are false, by finding 2.

Type correctness of `Proc`, `GetPid`, `SemLock` and `SfsCache`, `NoUnitLost` and
`InUseStays` are stated by theorems only; no run repeats them.

Only model-checked:

- all liveness: under fairness it is out of the prover's reach;
- `Buddy` and `SfsFile`: `BlocksPartition`, `BlocksExact` and the refinement of `ByteFiles`
  are about what loops over the orders and the blocks of a file compute;
- `Stride` and `StrideShare`: recursive operators on trees, which no theorem can be about.

## Plan

Done: processes, scheduling, timers, pid allocation, semaphores, monitors,
philosophers, stdin, the page allocators, the kernel heap, address spaces, open
files, file contents, the inode cache, the stride scheduler; theorems about
processes, timers, pids, the semaphore, the philosophers, the monitor, stdin, the inode
cache, open files, the first-fit and best-fit allocators, address spaces and the kernel heap.

Theorems to add: `BlocksPartition` of `Buddy`; `BlocksExact` of `SfsFile`.

## Not modelled

- Register save and restore, context switching and the TLB: assembly.
- Drivers, boot, printing, the kernel monitor: hardware access or run once.
- The parsing of paths and the device list (`vfslookup.c`, `vfsdev.c`), the search of a
  name in a directory: they read structures that nothing changes after boot, as the
  file system has no operation that creates, links or unlinks a name.
- The buffers of `sysfile.c` between user and kernel memory, the copying of arguments
  in do_execve: sequential copying.
- lab6's FIFO and SJF classes, swapfs, monitor_free, ksize: not called.
- lab1 to lab5 otherwise, and lab6 apart from its scheduler: the same functions as in
  lab8 in an earlier form. They are most of the repository's lines, so that the
  share of it the map names stays small.
- User programs and the image tool mksfs: they run outside the kernel.
