# A TLA+ verification of the Moggers operating system

Moggers (IF2230) is a small 32-bit x86 kernel with a FAT32-like file system,
paging, processes under a round-robin scheduler, a keyboard, a real-time clock
and a user-mode shell. This directory holds TLA+ models of it, the TLC
configurations that check them, and TLAPS proofs. Paths below are relative to
`src/src/`.

## 1. The system

The kernel runs with interrupts off: all gates of the IDT are interrupt gates,
so a system call, the timer handler or the keyboard handler runs to its end
before anything else does. What interleaves is therefore

* the *requests* of several user processes (each makes any call, with arguments
  that may be stale, because another process ran in between);
* the *timer*, between any two instructions of user code;
* the *keyboard*, between any two instructions of user code and of `kernel_setup`;
* the *power switch*, between any two disk writes and between the sectors of one;
* the *clock chip*, which counts while its registers are read.

| Component | State | Operations | Hard about it |
|---|---|---|---|
| File system, `filesystem/fat32.c` | FAT and clusters on disk; cached FAT and directory buffer | boot, format, `read_directory`, `read`, `write`, `delete` | several disk writes per call and no journal; stale parent clusters; a full disk; erased rows that match a nameless request |
| Paging, `paging/paging.c` | frame map and counter, page directories | `paging_allocate_check`, allocate, free, create and free a directory | resources at their limit; an unchecked `NULL` |
| Processes, `process/process.c` | process table, CR3 | `process_create_user_process`, `process_destroy` | failure half-way; slots and pids used again |
| Scheduler, `scheduler/scheduler.c` | current and next index | `timer_isr`, `scheduler_switch_to_next_process` | the next process is chosen one switch ahead; scan bounds; starvation |
| Kernel start, `kernel/kernel.c`, `kernel-entrypoint.s` | GDT, TSS, interrupt mask | `kernel_setup`, `process_context_switch` | the order, with interrupts on from the third call |
| Interrupts and system calls, `interrupt/` | IDT, TSS, interrupt controller | stubs, dispatch, `pic_remap`, `pic_ack` | offsets that assembly and C must agree on; interrupts that come too early or are not acknowledged |
| Clock, `cmos/cmos.c`, and clock program, `timer/timer.c` | – | `read_rtc`, `main` | registers change under the reader |
| Keyboard, `keyboard/keyboard.c` | one-character buffer | `keyboard_isr`, `get_keyboard_buffer` | lost keys, several readers |
| Input line, `user_mode/user-shell.c` | line, arguments, cursor | `get_command`, `handle_keyboard_input` | two records of one line; a parser without bounds |
| Shell and commands, `user_mode/` | current directory and path | `cd`, `ls`, `mkdir`, `rm`, `mv`, `cp`, `cat`, `find`, `exec`, `kill` | a cached directory; commands that are several calls |
| Screen, ATA disk, GDT/TSS/IDT, strings, inserter, demonstration programs | – | – | output, port I/O and static tables |

How they meet: the shell and the other programs reach the kernel only through
interrupt 0x30 (`interrupt.c`). `process_create_user_process` calls paging to get
a directory and two frames and the file system to read the executable;
`process_destroy` calls paging to give them back; `timer_isr` saves the context,
CR3 included, and switches. The keyboard handler leaves a character in a buffer
that every shell polls by call 4. The file system knows nothing of its callers but
the parent cluster number they send.

What makes each part correct:

* *File system*: whatever a directory names is allocated and belongs to it alone,
  also after a power failure; a file appears whole or not at all and is changed by
  nothing but its removal; no space is lost; every call ends; a full disk is
  reported.
* *Paging and processes*: counters are exact; address spaces are apart; the checks
  at the head of a creation are enough for everything that follows; a kill returns
  what the process had.
* *Scheduler*: exactly the current process is RUNNING; a switch goes to a living
  process; the scan stays inside the table; nobody starves.
* *Interrupts*: none comes before its handler can deal with it; whatever comes, a
  process goes on with the registers it had; no device is left waiting for good.
* *Clock*: what is returned is one moment, in western Indonesian time (WIB).
* *Keyboard and line*: keys arrive once and in order, unless one overtakes the shell;
  the line, what the screen shows of it and what the parser makes of it are what was
  typed.
* *Shell*: the directory and the path on display are those that commands apply to;
  `mv` does not lose the file; `find` finds it.

The list of hazards, each at its line and with the properties that watch it, is in
`PROJECT.json`.

## 2. Modules

| Module | Models |
|---|---|
| `Fat32` | the driver, one action per disk write; power failure; boot and format |
| `FileStore` | what a file system promises, without clusters or a FAT |
| `Fat32Refinement` | the mapping under which `Fat32` implements `FileStore` |
| `Paging` | the frame and directory managers, as operators on their state |
| `Process` | the process table, creation and destruction, on top of `Paging` |
| `Scheduler` | set-up, the process system calls and the timer: composes `Process` and `Paging` into a specification |
| `Interrupt` | entry to and return from the kernel, contexts, the interrupt controller and the steps of `kernel_setup` |
| `Keyboard` | the keyboard driver, on top of `Interrupt` |
| `CommandLine` | shells that poll the keyboard, edit and parse a line: composes `Interrupt`, `Keyboard` and the input line into a specification |
| `Cmos` | `read_rtc` against the chip, and the clock program |
| `Shell` | shells and their commands, each system call a step of `Fat32`: composes the two |
| `SchedulerProofs` | theorems about `Scheduler` |
| `Fat32Proofs`, `Fat32ChainProofs`, `Fat32EntryProofs` | theorems about `Fat32`: types, cache and names; lemmas about chains; structure of the disk and lost space |
| `Fat32RefinementProofs` | that `Fat32` implements `FileStore` |
| `CommandLineProofs` | theorems about the machine, the keys and the line |
| `CmosProofs` | theorems about `Cmos` |
| `ShellProofs` | theorems about `Shell` |
| `MCFat32`, `MCScheduler`, `MCCommandLine`, `MCCmos`, `MCShell` | constants and symmetry for TLC |

Definitions keep the names of the source. Definitions marked "Fault:" are
variants of an operation with a plausible slip in it. They are used by no
specification; each shows, put in the place of the definition it is named after,
that a property notices the slip.

### Fat32

State: `signed` (the boot sector), `diskFat` and `disk` survive a power failure;
`cluster_map` and `dir_table_buf` are the cached FAT and directory of
`struct FAT32DriverState` and do not; `pc` and `call` say which call is under way
and how far. `mkdir` is `MkdirFat`, `MkdirParent`, `MkdirTable`; writing a file is
`WriteFirst`, `WriteNext`…, `WriteFat`, `WriteRow`; removing a folder is
`RmdirParent`, `RmdirTable`, `RmdirFat`; removing a file is `RmRow`,
`RmCluster`…, `RmFat`, `RmLast`. `Crash` may come after any of them. Requests that
are refused, with the code's order of checks, are `WriteReject` and
`DeleteReject`; `ReadCode` and `ReadDirectoryCode` give the codes of the readers.

Abstractions:

* A name stands for the pair of name and extension. The shell never sets an
  extension, folder entries store an empty one, and `read_directory` compares
  names alone.
* A request may carry any data cluster as its parent, since a shell may have kept a
  number that is no longer a directory. Parent clusters 0 and 1 hold no directory
  table and would be refused like any other such cluster.
* The contents of a buffer are a model value; a cluster of a file records which
  part of which buffer it is and how many bytes of it were copied, which is what
  the arithmetic on sizes in `write` decides.
* A cluster is written sector by sector. Power failing in between matters where a
  write changes several sectors: the FAT at the end of a file's `write` and of its
  `delete` (`FatTorn`) and the table of a new folder (`MkdirTableTorn`). A row or a
  FAT entry that changes alone lies in one sector, the table of a removed folder
  changes in row 0 and empty rows, and the data of a file goes to clusters that no
  row names yet. A torn table over the data of a file that was never finished ends
  in `pc = "garbled"`: the driver would read bytes of the file as rows.
* Where the code leaves its own data the model stops, in one of the places of `Lost`, and
  nothing more is claimed: `"overrun"`, a `write` has searched past a full cluster map;
  `"garbled"`, see above; `"wild"` and `"spin"`, the loop of `read` or `delete` has followed a
  link out of the data clusters. There the next link is read from foreign memory, and may
  lead anywhere (`"wild"`) or back to the same place for ever, with interrupts off
  (`"spin"`). `CallReturns` counts neither of these two as an end of the call.

`FileStore` has directories, items in them and at most one file being written. A
new folder is first named by its parent and can be used when its table has been
written (`OpenFolder`); removing goes the other way (`RemoveFolder`, `CloseFolder`).
This is where `Fat32` is looser than an ideal store, and it is visible to users only
after a power failure between the two writes.

### Paging, Process, Scheduler

`mem` is the state of the two managers: the frame map, its counter, the
directories in use and what each maps at its two user pages (the image at 0, the
stack below the kernel). `used`, `active` and `pcb` are the process table, `cr3` the
register, `cur` and `nxt` the two indices of the scheduler. `phase` tells set-up
from user mode; `"down"` is a machine that has halted (page-fault handler, or no page
directory), `"wild"` one that uses uninitialised or foreign memory. `short` and `strays`
are history: whether a process was created with fewer than two frames, and how many kills
found their slot empty.

A request says how many frames it needs: one for a size of 0 (`process.c:37` adds only the
stack's), and for sizes close to 2^32 the sum wraps and it may be none. Two frames are taken
whatever it says, or as many as there are, so `Exec` has the process that gets one frame,
and `ExecOverrun` the creation that has passed the checks and finds no slot or no directory.
`KillContextless` is the kill of a pid that a slot without a context answers to: the one of a
creation that failed, or, for pid 0, an empty slot. The count is lowered and the slot cleared
as for any other; then memory at address 0 is taken for the page directory, so that nothing
of the process is given back and, as that memory has it, frame 0 is set free, or a frame
that belongs to somebody (`"wild"`). `active` is an unsigned counter and wraps at `CountMod`,
2^32 in the code.

`virtual_addr_used` holds *frame numbers* plus 0xC0000000, so the loop of
`process_destroy` frees frame 0 through the kernel's entry of the directory, then
the image, and never the stack. `ReleaseFrames` is that loop, eight calls on the pages of
the recorded addresses (`RecordedPage`).

Left out of the PCB: general registers and names. Left out of the page tables:
flags and TLB flushes.

### Interrupt, Keyboard, CommandLine

`cpu` holds the registers, `context` the ones saved in the PCBs, `at` the place of each
process in its program. The value of a register is a word that says which register,
process and place it is from, so that a value that ends in the wrong place shows.
A frame is the sequence of words on the kernel stack: `Pushed` by the processor,
`Stacked` by the stub, with the user's stack pointer put in by `Entered` at the
offsets of `intsetup.s`, read by C through `CPURegister` and `int_number`, and taken
down by `Returned`. `Saved`, `NewContext` and `process_context_switch` are
`struct Context` as it is written and popped. Every call of `kernel_setup` is an
action; the timer ticks from the first one on. Which process a tick chooses is left
to `Scheduler`: here it may be any that exists.

The processor, the 8259 and the keyboard controller are external. Of the 8259, requests,
mask, service and priority are modelled, of the controller the one scancode it holds
until it is read and the interrupt it requests with it. A scancode is one with a
character or one without, such as the release of a key; the latter stores a 0 in the
buffer like any other. `hasty`, `struck` and `received` are history.

A step of a shell in `CommandLine` is a system call with the code up to the next one.
`echo` takes the two calls of `handle_keyboard_input` and the editing of the line in one
step: what they touch is the shell's own. `getchar` is call 4, `parse` the rest of
`get_command`, and a command either leaves keyboard and processes alone or is an `exec`
of a further shell. `buf` is tested before it is set, so `print_template` goes on with
or without a first poll. A store past the end of the line, of an argument or of the
arguments ends in place `"overrun"`; `ParsedWords` says for which lines only. A wrap at
the right edge of the screen is in `putchar`. Rows are counted from the prompt's, and the
cells are those the shell itself has written.

### Cmos

The chip is external and is modelled from how the code uses it: it raises its flag,
replaces the registers one after the other, and lowers the flag. `read_rtc` is one
action per register it reads. Reads are not assumed to be quick: an update may start
right after the flag was seen low. `seen` is a history variable, the times the chip
has shown since the call began. `Begin` and `Show` are the loop of the clock program,
which clears its structure, makes the call and puts fourteen digits (`Face`) on the
screen. All four modes of register B are initial states.

### Shell

Each shell has its copy of the current directory (`dir`), its path and, during `mv` and
`cp`, the job under way. A command is the sequence of system calls the code makes:
`mkdir` and `rm` are one call and `cd_refresh`; `mv` is `ReadSource`, `DeleteSource`,
`WriteTarget`, `cd_refresh`; `cp` has neither the delete nor the refresh. Every call is
the first step of a call of `Fat32`, which then runs to its end before any shell makes
another. Result codes are not looked at, as in the code. Two fields are history: `stale`
(a `cp` since the last reload) and `strayed` (a `cd` was given the name of the directory
it was made in, which row 0 of the table matches: the shell stays where it is and its
path grows). Two fields of a job are history as well: `sure`, whether the file of a `mv` that
begins is one `read` can see and its new place is free (`Sure`, a statement about the disk
and not about what the calls return), and `was`, what that file holds. Before the shells start,
the inserter writes files into the root; one that is empty or missing has size 0 and becomes a
folder.

`cat` is a read, which loads the FAT again. A command that clears or fills more than the
buffer on its stack ends in `"overrun"` (`BufferOverrun`): `cat` and `cp` of a file of
several clusters, and `mv` of a row of size 0 that can be read. `find` changes nothing
and is a function of the disk, `find_recursive`. Every folder it enters takes a place in an
array of ten, which already holds the path of the prompt; the recursion is over the places
left (`PlacesLeft`), and a folder found with none left is stored over the length of the path:
the answer is then `PathOverrun`, and nothing more is said of that search.

Left out: the match of commands by prefix, the text on the screen, and `ls`, which shows
the copy of the directory. A buffer nothing was read into
is one model value, whether it holds zeros or what was on the stack. `cd ..` compares four
bytes of the last name on the path with `root` (`cd.c:63`), so a folder whose name begins
with them is taken for the root: no such folder is among the names. A command typed
without its argument sends the name of eight NULs; requests of that kind are the subject of
`fat32_nameless` and are not among the names of `Shell` either.

## 3. Runs

| Run | Configuration | Shows |
|---|---|---|
| `fat32_store` | 5 clusters, 4 rows, two names, two payloads, sizes 0, 2, 3 (cluster size 2), 4 FAT entries and 3 rows to a sector | with power failures, torn writes included: types, `EntryAllocated`, `LinkAllocated`, `NoSharedCluster`, `DirectoryAllocated`, `DotDotIsParent`, that the driver implements `FileStore` (`ImplementsStore`), and that calls end (`CallReturns`) |
| `fat32_nameless` | 5 clusters, names `a` and the one of eight NULs | `CacheCoherent`, `NamesUnique`, `Reserved`, although a nameless request matches erased rows, up to the point where one sends `delete` out of the map or round for ever |
| `scheduler` | 3 slots, 6 frames, 5 directories, a counter modulo 4, requests for 0, 1 or 2 frames | the eight invariants and `EventuallyRuns` of `Scheduler` |
| `shell` | one shell, 5 clusters, two names, path of 4 | `CopyIsCurrent`, `PathIsCurrent`, `MvMoves`, `FindFinds`, and that no cluster is lost (`NoLeak`) |
| `command_line` | two shells, six keys, a screen of 6 columns, a line of 4 and one argument of 2 characters | `ResumesExact`, `SafeToInterrupt`, `KeysInOrder`, `LineIsEdited`, `EchoIsLine`, `ParsedWords`, and that a key is served (`KeyServed`) |
| `cmos` | three start times, three updates | `Snapshot`, `ClockFaceInWib`, `ReadReturns` |
| `fat32_full_map` | 4 clusters | *violated*: a full map is run past, not reported |
| `fat32_whole_clusters` | sizes 2 and 4 | *violated*: a file of two full clusters loses the second |
| `scheduler_kill` | 3 slots | *violated*: a kill returns frame 0 and not the stack |
| `scheduler_cr3` | 3 slots | *violated*: after a failed `exec` the caller runs in a foreign directory |
| `scheduler_dead` | 3 slots | *violated*: a killed process is switched to |
| `cmos_day` | one update | *violated*: the day is not the day in WIB |

Why the bounds are enough. *Fat32*: with a root and two folders, or a file of two
clusters, every action, every early return and every
position of a power failure occurs, and clusters are reused after being freed, which
is where a structure error shows. Four rows leave two for entries, so that an entry
can be created behind, and removed before, another. The sector ends fall inside the
FAT and inside the table, so that a torn write leaves a part of each. *Scheduler*: the
ratio of the real constants (16 slots, 32 frames, 32 directories) is kept: two frames to a
slot, and with the kernel's frame taken no more frames than directories, so that what runs out
first is what runs out first in the code. Two processes with both frames can be alive besides
the kernel; a third gets the one frame that is left, takes the last slot and with it
`ScanInBounds` to its limit. Requests for 0, 1 and 2 frames are the cases the code tells
apart, since it takes two whatever is asked. A counter modulo 4 has room for the three slots
and wraps when kills of the empty slot 0 take it below zero. *Shell*: the
directories of two levels, a file that fits the buffer of `mv` and one that does not;
the path is long enough for `cd` to go down, up and astray, and short enough for `find` to
run past it. Answers of `find` through more than one folder need more clusters than TLC
gets through; they rest on the theorem. The properties of `Shell` are
claims about a shell that is alone: with two, another shell can take the name between the
delete and the write of `mv`, and TLC finds the file lost; the code does nothing against
that and claims nothing. *CommandLine*: six keys fill the line, the argument
and the row of the screen and pass the end of each, with backspaces in between; one letter
is enough since no character but space, backspace and newline is told apart; the second
shell is started by the first, so that both orders of any two polls and both kinds of
return from a tick (to the same process and to another) occur. *Cmos*: the start times make one, three and all six registers change, and
three updates allow one in each of two passes and one before; `MaxTick` stands
for less than a minute between two reads of the seconds. Symmetry is used only
where no name or payload is singled out and no temporal property with fairness is
checked.

`ImplementsStore` is checked for sizes of at most one cluster and sizes that are no
multiple of it. For the others it does not hold: that is what
`fat32_whole_clusters` shows.

Fairness. `Fat32`: a call under way goes on (nothing preempts it; interrupts are
off). `Scheduler`: set-up goes on, and the timer keeps firing (the PIT is programmed
as a rate generator and user code runs with interrupts on). `CommandLine`: set-up goes on, a tick
the processor would accept is served (weak fairness), and so is a key that could be
served again and again (strong fairness): the handler of the timer, which has priority,
is short against its period. Nothing is assumed of ticks, keys or shells. `Cmos`: a call goes on,
and an update the chip has begun ends. No request, key press or boot is ever
assumed to happen. `ReadReturns` holds because only finitely many updates fall into
one call, which takes microseconds where the chip takes a second.

## 4. Proofs

Everything in this section holds for every value of the constants that the named
assumptions allow; `tlapm` checks it to the last leaf. A theorem `Spec => []Inv` rests on
an inductive invariant, and there is one lemma for each action. The inductive
invariants were run through TLC before they were proved.

| Theorem | States | From |
|---|---|---|
| `SchedulerProofs`: `TypeCorrect`, `FramesCounted`, `ProcessesCounted`, `SingleRunning`, `ScanSafe`, `DirectoryAvailable`, `DirectoriesApart`, `FramesApart` | `TypeOK`, `FreeCountExact`, `ActiveExact`, `OneRunning`, `ScanInBounds`, `DirLeft`, `DirsOwned`, `OnlyFrameZeroShared` | `Invariance` |
| `Fat32Proofs`: `TypeCorrect`, `CacheNeverStale`, `OneEntryPerName`, `SystemClustersKept` | `TypeOK`, `CacheCoherent`, `NamesUnique`, `Reserved` | `Invariance` |
| `Fat32EntryProofs`: `EntriesAllocated`, `ChainsEnd`, `NothingShared`, `DirectoriesAllocated`, `CdGoesBack` | `EntryAllocated`, `LinkAllocated`, `NoSharedCluster`, `DirectoryAllocated`, `DotDotIsParent` | `DiskStaysSound` |
| `Fat32EntryProofs`: `NoSpaceLost` | `NoLeak`, without power failures | `LeakInv` |
| `Fat32RefinementProofs`: `FilesStayWhole`, `DriverImplementsStore` | `FilesWhole`, `ImplementsStore` | `StoreInv` |
| `CommandLineProofs`: `RegistersComeBack`, `InterruptsAreSafe` | `ResumesExact`, `SafeToInterrupt` | `MachineInvariance` |
| `CommandLineProofs`: `KeysArriveInOrder` | `KeysInOrder` | `KeyInvariance` |
| `CommandLineProofs`: `LineTypeCorrect`, `LineStaysEdited`, `EchoShowsLine` | `LineTypeOK`, `LineIsEdited`, `EchoIsLine` | `LineInvariance` |
| `CommandLineProofs`: `CommandsGetTheirWords` | `ParsedWords` | `LineInvariance`, `WordsInv` |
| `CmosProofs`: `ClockTypeCorrect`, `NoTornRead`, `ClockIsRight` | `TypeOK`, `Snapshot`, `ClockFaceInWib` | `ClockInvariance` |
| `ShellProofs`: `ShellsUseDriver` | every behaviour of the shells is one of the driver (`PoweredSpec`) | `Kept` |
| `ShellProofs`: `ShellTyped`, `ShellsKeepDisk`, `ShellsKeepTree`, `ShellsLoseNoSpace`, for any number of shells | `ShellTypeOK`; the five properties of `DiskStaysSound`; `TreeInv`; `NoLeak` | `Kept` |
| `ShellProofs`: `CopyStaysCurrent`, `PathStaysCurrent`, `MvLosesNothing`, `FindIsRight`, for a shell that is alone | `CopyIsCurrent`, `PathIsCurrent`, `MvMoves`, `FindFinds` | `Kept`, `CopyInv`, `PathInv`, `MvInv` |

### Processes

Assumptions: `PagingAssumption` (as many directories as frames, but for the kernel's frame),
`ProcessAssumption` (more than one slot, at most two frames to a slot, and a counter that can
hold the number of slots) and `FrameNeedsAssumption` (a request needs a natural number of
frames, 0 included). The code has 32 directories, 32 frames, 16 slots and 2^32 values.

Why the inductive invariant is more than the invariants a user cares for. That the first,
unchecked probe of the scheduler stays in the table (`ScanInBounds`) and that a directory
is left when two frames are (`DirLeft`) are facts about the *frames*, as long as every
process got two (`~ short`): each slot in use has paid two frames, the kernel one, and a kill,
although it returns the wrong frames, returns at most two. That is `Budget`. A kill of the
empty slot 0 may return frame 0 for nothing, but only while frame 0 is taken: this frame is
set aside as soon as slot 0 is empty (`Owed`). Directories are paid for by one frame each and
by one other than frame 0 (`Zero`), since a process whose creation failed can be killed without
its directory being freed; that is why as many directories are needed as there are frames.
`Budget` is carried through a kill only if the killed slot is the one the pid names (`PidIsSlot`),
if its directory belongs to no other process (`DirsOwned`, `UnusedBlank`) and if the free frames
are counted. `ActiveExact` is no part of that argument, for the count of processes may be
wrong: all it does when it has wrapped is refuse creations. `OnlyFrameZeroShared` needs that
what is mapped is marked (`MappedTaken`), and `DirsOwned` needs `Cr3NotShared`, since the timer
saves whatever CR3 holds. `SlotBound`, `QuietStart` and `CurAlive` cover first-fit slots, the
state before the first switch and the running process. Lemmas about the paging operators
(`AllocateEffect`, `FreeEffect`, …) come first; `LoopIsTwoCalls` unfolds the loop of
`process_destroy`: after the second of its calls that can do something there is nothing left
it would free (`NothingToFree`).

### File system

Assumptions: `SizeAssumption` (more than three clusters and two rows, a sector of the FAT has
an entry and one of a table two rows) and `NameAssumption` (the name of eight NULs is
neither that of the root nor that of row 1, these two differ, and a buffer with nothing in
it is not one of the buffers).

`Fat32Proofs` needs no more. Its `IInv` has the types, that the cache is saved when no call
is under way (`CacheSaved`), that what passes for a directory is marked in the FAT
(`DirsMarked`), that no row and no link leads to the root or to the reserved clusters
(`RowsOffRoot`, `LinksOffRoot`, of both FATs), that a cluster which does not
pass for a directory has no rows in use (`NoStrayRows`), and for every place in a call what it has
found and done so far (`CallSound`).

The structure of the disk is kept as `DiskSound`: the chain of every entry ends
(`ChainsSound`), two entries have no cluster in common (`ChainsApart`), directories are
allocated and no part of a file (`DirsSound`), rows 0 and 1 say where the folder is
(`HeadersSound`), and a row is in use exactly when it has a name (`UseIsNamed`). It is a
statement about the FAT *on the disk*, while the calls work on the cached one, so
`NamedInv` adds that both agree on every cluster some entry holds (`Held`, `Agree`), that
what a call under way owns is held by nobody (`CallOwns`), that the chain a `write`
has built goes up from cluster to cluster over free ones (`Building`), and that what a
`delete` still has to free is cut off from everything held (`Detached`). `Agree` is what
makes a torn FAT harmless: sectors may be new or old, but where something is held they are
the same. All of it is for `ZeroName \notin Names`; with requests
for the name of eight NULs a row can be in use without a name, and what remains true then
is what `fat32_nameless` checks and `Fat32Proofs` proves.

`NoSpaceLost` is about behaviours without power failures (`PoweredSpec`). At every step an
allocated cluster is the root's, named, linked to or owned by the call (`Accounted`, `Own`).

`DriverImplementsStore` shows of every action that it is a step of `FileStore` under the
mapping of `Fat32Refinement`, or a stutter. What decides it is that the files do not
change under writes to clusters that are not theirs: `StoreInv` says that every file holds
all parts of its buffer (`FilesHold`) and that a `write` under way has stored as many parts
as it has links (`CallWrites`), and `NamedInv` that the written cluster is nobody's.
Most disk writes are stutters; `RmRow`, `WriteRow`, `MkdirParent`, `MkdirTable`,
`RmdirParent` and `RmdirTable` are the ones that users see. It holds for sizes
of which `write` copies all bytes (`SizeKept`), at most one cluster or no multiple of it;
`fat32_whole_clusters` shows that the others are cut.

Facts about chains, which are recursive functions, need induction. The provers cannot use an
induction theorem that takes a predicate, so the lemmas of `Fat32ChainProofs` take the
least counterexample instead: the theorem on minimal elements takes a *set*.

### Machine, keyboard and line

Assumptions: `ProcessesAssumption`, `KeyAssumption` (letters are none of the special
codes) and `LineAssumption` (a screen wider than the prompt, and room for one character
and one argument).

`MachineInv` says what each call of `kernel_setup` has brought about (`StageInv`), that a
process runs from then on (`RunningInv`) with the registers it had (`ResumesExact`), that the
contexts of the others hold theirs (`ContextInv`), and that no interrupt is left in service
(`ServiceInv`). The lemmas ahead of it follow
the words through the kernel stack: what the processor and the stub push is what the
stub pops (`Returned`), what C saves is what `process_context_switch` loads, and the user's
stack pointer is in its place in between.

`KeyInv` puts the places a key can be in one after the other: received, in the buffer, in
the controller. `ShellsInv` ties the line to the keys taken (`Edited`) and the screen to
the line (`InStep`: as long as no wrap has happened, cursor and length are in step and the
cells are the characters), with the key between `getchar` and `echo` counted in.

`CommandsGetTheirWords` compares the loop of `get_command` with a definition that does not
scan: the words of a line are its longest stretches without a space, and argument *k* is the
one with *k* ahead of it. `ParseInv` says what the loop has done up to its place *i*: *i* is
at a space or at an end of the line, the arguments so far are those that end at or before
*i* (`Upto`), and the name ends at the first space. A round adds the next word and no other
(`ScanAdds`) or finds that it does not fit, and goes forward (`RoundInv`), so `LineBytes`
rounds are enough (`ParsedSays`). `WordsInv` carries the line from the newline to the parser
and its words to the command.

### Clock

Assumptions: `StartsAssumption` (a start is a date and a time) and `TickAssumption`
(fewer than sixty updates in a call, less than a minute).

`read_rtc` compares two passes of reads without knowing when the chip updates. `ClockInv`
names the tick *c* at which the flag was last seen down: every register of the earlier pass
is one the chip showed at *c* or before, every register of this one at *c* or after (`PassInv`).
If they agree, the seconds, which tell any two of fewer than sixty ticks apart, are those of *c*,
and every other register is on the same side of the end of the minute as *c*, in one of the
passes (`PassesAgree`). The flag makes *c* a moment at which the registers were complete.
`ClockIsRight` follows the conversion through the arithmetic of BCD, the 12-hour bit
and the change to WIB.

### Shells

Assumptions: `ShellAssumption` (there is room for a name on the path, and a write may have
no size or that of a cluster) and, named in each theorem, `ZeroName \notin Names`: commands
are given their arguments. The four theorems about a shell that is alone assume `Alone`, at
most one shell; with two they do not hold, see section 3. `PathStaysCurrent` also assumes
that no folder is called `root`.

*Any number of shells.* What a shell asks for comes out of its copy of a directory, which may be
of a folder that is gone. `FitInv` says what a copy is good for even then: it is a
table, so the numbers in it are clusters and the names are names, and the job of an `mv` or `cp`
carries names a request may carry. With it every step of a shell is a step of the driver
(`ShellStepPowered`), and what holds of the driver without power failures holds under shells.
`TreeInv` is added to the invariants of the driver. Allocation and chains do not say that
directories make a tree: `HeaderRows`, `FoldersThere`, `ParentsLead` and `EntriesRead` say
that rows 0 and 1 are folders, that a folder which is named has its table, that a table is named by
the directory in its row 1, and that a file starts with file data. Between
the two writes of a `mkdir` and of an `rm` of a folder one folder is exempt (`InMaking`,
`InRemoval`). `Kept` is all of this together. It is what makes `ShellTyped` true: the first
row that matches a name must lead to a table for `read_directory` and to data for `read`.

*The copy.* `CopyInv`: the directory of the copy is on the disk and its row 0 is
the copy's; at the prompt and during a `cp` whatever the copy lists is on the disk as well
(`Behind`), and without a `cp` since the last reload the copy is the table. That a command can
not take the ground from under the shell rests on `DeleteKeepsParent`: an `rm` in a directory
removes no directory but an empty one below it.

*The path.* `PathInv` names the directories along the path: a way that starts at the root,
each a folder of the one before. `cd ..` goes one back because row 1
names the directory a folder was entered from, which `ParentsLead` has from the tree
(`WayBack`). `strayed` is needed for the `cd` that stays where it is. `Resolve` is a
recursive function; `ResolveAlong` says that any sequence that obeys its equation ends
where it does.

*mv.* `Sure` is about rows of the disk, and that the calls then succeed is what has to be shown.
A file that has neither the name of row 0 nor that of row 1 is the first row of its name, and no
other row has it, so `read` finds it and copies what it holds (`SureReads`, `Noted`). `MvInv`
follows the job. Before the delete the source can be read and its contents are
those in the buffer (`Ready`), and these are what the file held when `mv` began. From the delete on, the old place has no entry of the name
(`Gone`, `Taken`), and a write to the target would be accepted, also while the delete still frees
clusters: when source and target are the same directory, because of the row the delete has
emptied. Then the call under way is the one that writes the buffer to the target, and when
it is over the contents are there (`Moved`).

*find.* `FindFinds` is about one state, so it needs no invariant of its own, but two
recursive functions must be unfolded. `RecursionExists` shows that a function given by recursion
over an interval exists, with the step as a function, since the provers cannot take it as an
operator; `FindIs` and `ReachIs` give the equations of `find_recursive` and of `Below`. `Below`
grows from the far end and `find_recursive` from the near one: `ReachFront` shows that the
rounds from a directory are those from its folders, one later. `FindLevel` is then one level of the
search: a folder read by its own name from its own cluster is that folder (`KidsAreDirs`, by
`ParentsLead` and `EntriesApart`), the first row with the name or with an answer decides
(`ScanRow`), and an answer with the folder's name ahead of it leads on (`LeadsOn`). The induction
is over the places left: a folder met with none left is a folder one deeper than the places, and
one more for every level above.

### Model-checked only

`CallReturns`, `EventuallyRuns`, `KeyServed`, `ReadReturns`: liveness is beyond the prover.
Every other property that a run checks and finds true is a theorem.

## 5. Findings

Each is a run that ends in a violation, with the line of the repository it contradicts in
`PROJECT.json`: the scan past a full cluster map (`fat32.c:258`), the lost last part of
files that fill their clusters (`fat32.c:328`), the frames a kill returns
(`process.c:117`), CR3 after a failed creation (`process.c:70`), the switch to
a killed process (`scheduler.c:63`), and the day of the clock (`cmos.c:72`).

Smaller observations without a run of their own: `read` returns −1 and 2 where
`fat32.h:229` has 2 and 3; `delete` with a nameless request takes an erased row for a
file at cluster 0; `paging_free_page_directory` always returns false;
`PROCESS_CREATE_FAIL_MAX_PROCESS_EXCEEDED` cannot occur because the table is full as long as
every process gets two frames, for the frames run out first, but `kill 0` repeated takes the
count below zero, it wraps, and then every creation fails with that code; "additional
frame for user stack" (`process.c:36`) is not what is checked for a request of no bytes, which
passes with one frame left and can so bring the last slot into use, behind which the scan
leaves the table; killing a process whose creation failed gives neither its frames nor its
directory back; `find` below a path that is full stores a folder over the length of its path
(`find.c:73`); `rm` without an argument may go round in `delete` for ever, with interrupts
off; `read_rtc` does not add the seven hours when the chip counts in binary, and
in the 12-hour mode takes the hours that begin with 12 for twelve hours later; `read`
and `read_directory` look at rows 0 and 1 too, so a file with the name of its folder
can be written and not read; `cp` does not refresh the directory; `mv` of a folder, of a
file larger than a cluster, of a file with the name of its folder, or into a folder that has
the name or no row left loses it; a key
struck before `pic_remap` leaves the keyboard silent, for its request is forgotten and its
scancode never read; the comment in `activate_timer_interrupt` would switch interrupts on
before the first process runs, which `SafeToInterrupt` shows to be wrong; spaces at the end of
a line count as an empty argument; after a wrap at the right edge backspace no longer
reaches the row of the prompt; `find` shows the current path when it finds nothing; `ps`
shows one digit of a pid.

## 6. Not modelled

* *Screen*: `puts`, the colours and the port I/O of the frame buffer: output that nothing
  reads back. The prompt's row and column are in `CommandLine`.
* *ATA disk*: port I/O with busy waiting, below the sector. The code looks at no error
  status, so a failing drive is a driver that waits for good.
* *Descriptor bits of GDT and IDT*: constants, of which only privilege level and kind of
  gate matter to what is modelled.
* *String functions*: their effect is part of the actions of their callers.
* *bounce, apple*: programs that draw. *ls, ps, clear, help*: commands that only show.
* *A stronger liveness property*, that every key reaches a shell that goes on polling: it
  needs strong fairness for every shell, and TLC does not finish at bounds at which
  anything happens.

## 7. Plan

1. Done: the models, the runs, and a theorem for every safety property the runs confirm.
2. `Shell` with two shells: what survives of `CopyIsCurrent` and `PathIsCurrent` when
   another shell removes or reuses a directory.
3. `Shell` with commands that lack their arguments, as `fat32_nameless` has them for the driver.
