----------------------------- MODULE Scheduler -----------------------------
(***************************************************************************)
(* The kernel's process side: kernel_setup (kernel.c), the system calls that *)
(* create and kill processes (interrupt.c) and the timer (scheduler.c).     *)
(* Handlers run with interrupts off and are atomic; the running process may *)
(* make any call at any time.                                               *)
(***************************************************************************)
EXTENDS Process

CONSTANT FrameNeeds     \* page_frame_count_needed of the requests made

\* One frame for a request of no bytes, and none when its size plus that of a frame
\* has wrapped to 0.
ASSUME FrameNeedsAssumption == FrameNeeds \subseteq Nat

VARIABLES
    cur,        \* current_process_idx
    nxt,        \* next_process_idx
    phase,      \* "off", "setup" and "start" inside kernel_setup, "user";
                \* "down": the machine has stopped;
                \* "wild": it works with memory that may hold anything
    short,      \* history: some process was created with fewer than two frames
    strays      \* history: the kills that found an unused slot, modulo CountMod

history == <<short, strays>>
vars == <<procVars, cur, nxt, phase, history>>

Init ==
    /\ ProcessInit
    /\ cur = 0
    /\ nxt = 0
    /\ phase = "off"
    /\ short = FALSE
    /\ strays = 0

\* kernel_setup takes the first frame for the kernel.
SetupMemory ==
    /\ phase = "off"
    /\ mem' = paging_allocate_user_page_frame(mem, KernelDir, "image")
    /\ phase' = "setup"
    /\ UNCHANGED <<used, active, pcb, cr3, cur, nxt, history>>

\* It creates the shell, whether or not there is one to read.
SetupCreate(ok) ==
    /\ phase = "setup"
    /\ IF CreateCode(2, FALSE) = 0
       THEN process_create_user_process(ok)
       ELSE UNCHANGED procVars
    /\ phase' = "start"
    /\ UNCHANGED <<cur, nxt, history>>

\* How far the scan that starts behind c goes before it looks at i.
Distance(c, i) == (i - c + NProc) % NProc

\* Fault: only the slots behind the current one are scanned.
Ready_NoWrap(c, p) == {i \in Proc : i > c /\ used[i] /\ p[i].state = "READY"}

Ready(c, p) == {i \in Proc \ {c} : used[i] /\ p[i].state = "READY"}

\* The process the scan from c settles on: the nearest ready one, or c.
IsNextReady(c, p, i) ==
    \/ Ready(c, p) = {} /\ i = c
    \/ i \in Ready(c, p) /\ \A j \in Ready(c, p) : Distance(c, i) <= Distance(c, j)

\* Fault: the process that gives way stays RUNNING.
scheduler_switch_to_next_process_StaysRunning(p) ==
    LET p2 == [p EXCEPT ![nxt].state = "RUNNING"]
    IN  /\ cur' = nxt
        /\ nxt' \in Proc /\ IsNextReady(nxt, p, nxt')
        /\ pcb' = p2
        /\ cr3' = p2[nxt].pd
        /\ \/ phase' = IF cr3' = NULL THEN "down" ELSE "user"
           \/ nxt + 1 = NProc /\ phase' = "wild"
        /\ UNCHANGED <<mem, used, active, history>>

\* scheduler_switch_to_next_process with the process list p.  The process
\* chosen at the previous switch runs, unseen whether it still exists; then its
\* successor is chosen.  Behind the last slot the scan begins outside the table, with
\* what stands there: it goes on from slot 0 or takes it for a process ("wild").
\* A page directory at address NULL stops the machine.
scheduler_switch_to_next_process(p) ==
    LET p1 == [p EXCEPT ![cur].state = "READY"]
        p2 == [p1 EXCEPT ![nxt].state = "RUNNING"]
    IN  /\ cur' = nxt
        /\ nxt' \in Proc /\ IsNextReady(nxt, p1, nxt')
        /\ pcb' = p2
        /\ cr3' = p2[nxt].pd
        /\ \/ phase' = IF cr3' = NULL THEN "down" ELSE "user"
           \/ nxt + 1 = NProc /\ phase' = "wild"
        /\ UNCHANGED <<mem, used, active, history>>

SetupSwitch ==
    /\ phase = "start"
    /\ scheduler_switch_to_next_process(pcb)

\* timer_isr: the context, CR3 included, goes to the first running process.
Tick ==
    /\ phase = "user"
    /\ \E i \in Proc :
         /\ i = First({j \in Proc : used[j] /\ pcb[j].state = "RUNNING"})
         /\ scheduler_switch_to_next_process([pcb EXCEPT ![i].pd = cr3])

\* There is a slot and a page directory to create a process with.
Room == (\E i \in Proc : ~ used[i]) /\ FreeDirs(mem) # {}

\* System calls 11 and 15 (the latter with two frames).  Without a frame for the
\* image the read, or the return from the call, faults.
Exec(frames, ok) ==
    /\ phase = "user"
    /\ CreateCode(frames, FALSE) = 0
    /\ Room
    /\ process_create_user_process(ok)
    /\ phase' = IF mem.free = 0 THEN "down" ELSE phase
    /\ short' = IF mem.free < 2 THEN TRUE ELSE short
    /\ UNCHANGED <<cur, nxt, strays>>

\* The index -1 or the directory NULL is used unchecked.
ExecOverrun(frames) ==
    /\ phase = "user"
    /\ CreateCode(frames, FALSE) = 0
    /\ ~ Room
    /\ phase' = "wild"
    /\ UNCHANGED <<procVars, cur, nxt, history>>

\* Fault: the page directory is taken ahead of the checks.
ExecReject_DirectoryFirst(frames, high) ==
    /\ phase = "user"
    /\ CreateCode(frames, high) # 0
    /\ FreeDirs(mem) # {}
    /\ mem' = paging_create_new_page_directory(mem)
    /\ UNCHANGED <<used, active, pcb, cr3, cur, nxt, phase, history>>

ExecReject(frames, high) ==
    /\ phase = "user"
    /\ CreateCode(frames, high) # 0
    /\ UNCHANGED vars

\* System call 13.  A process that kills itself goes on with its pages gone,
\* faults, and the fault handler halts with interrupts off.  In a directory that
\* a failed exec left behind it goes on, and the next tick has no running
\* process to save the context to.
Kill(k) ==
    /\ phase = "user"
    /\ Slots(k) # {}
    /\ pcb[k].pd # NULL
    /\ process_destroy(First(Slots(k)), k)
    /\ phase' = IF First(Slots(k)) # cur THEN phase
                ELSE IF pcb[k].pd = cr3 THEN "down" ELSE "wild"
    /\ UNCHANGED <<cur, nxt, history>>

\* Inverse of Decrement.
OneMore(n) == IF n = CountMod - 1 THEN 0 ELSE n + 1

FreeFrameZero(m) == IF m.map[0] THEN [m EXCEPT !.map[0] = FALSE, !.free = @ + 1] ELSE m

\* The pid of a slot whose context was never filled in or is already erased, 0
\* for one.  It is counted and cleared as any other, and user memory at address 0
\* is taken for its page directory.  What stands there may name a frame that is
\* free, or frame 0; or ("wild") another one, in use by somebody or behind the
\* end of the map.
KillContextless(k) ==
    /\ phase = "user"
    /\ Slots(k) # {}
    /\ pcb[k].pd = NULL
    /\ LET i == First(Slots(k))
       IN  /\ active' = Decrement(active)
           /\ used' = [used EXCEPT ![i] = FALSE]
           /\ pcb' = [pcb EXCEPT ![i] = ZeroPcb]
           /\ strays' = IF used[i] THEN strays ELSE OneMore(strays)
    /\ mem' \in {mem, FreeFrameZero(mem)}
    /\ phase' \in {"user", "wild"}
    /\ UNCHANGED <<cr3, cur, nxt, short>>

KillUnknown(k) ==
    /\ phase = "user"
    /\ Slots(k) = {}
    /\ UNCHANGED vars

Stopped == phase \in {"down", "wild"} /\ UNCHANGED vars

Next ==
    \/ SetupMemory
    \/ \E ok \in BOOLEAN : SetupCreate(ok)
    \/ SetupSwitch
    \/ Tick
    \/ \E n \in FrameNeeds, ok \in BOOLEAN : Exec(n, ok)
    \/ \E n \in FrameNeeds : ExecOverrun(n)
    \/ \E n \in FrameNeeds, high \in BOOLEAN : ExecReject(n, high)
    \/ \E k \in Proc : Kill(k) \/ KillContextless(k) \/ KillUnknown(k)
    \/ Stopped

\* The PIT keeps firing, and user code runs with interrupts on.
Fairness == WF_vars(SetupMemory \/ (\E ok \in BOOLEAN : SetupCreate(ok)) \/ SetupSwitch)
            /\ WF_vars(Tick)

Spec == Init /\ [][Next]_vars /\ Fairness

-----------------------------------------------------------------------------
(* Properties *)

\* The variables have their types.
TypeOK ==
    /\ mem \in Mem
    /\ used \in [Proc -> BOOLEAN]
    /\ active \in 0 .. CountMod - 1
    /\ pcb \in [Proc -> Pcb]
    /\ cr3 \in {NULL} \cup PageDir \cup {KernelDir}
    /\ cur \in Proc
    /\ nxt \in Proc
    /\ phase \in {"off", "setup", "start", "user", "down", "wild"}
    /\ short \in BOOLEAN
    /\ strays \in 0 .. CountMod - 1

UsedSlots == {i \in Proc : used[i]}
UsedDirs == {d \in PageDir : mem.dirUsed[d]}

\* The counter that paging_allocate_check trusts is the number of free frames,
\* whatever processes are created and killed, the frame 0 that kills set free
\* over and over included.
FreeCountExact == mem.free = Cardinality(FreeFrames(mem))

\* active_process_count is the number of slots in use, less one for every kill
\* that found its slot empty already (kill 0 once the first process is gone),
\* in the width of the counter: below zero it wraps, and then every creation
\* is refused until the other kills have brought it down again.
ActiveExact ==
    LET n == Cardinality(UsedSlots) IN active + strays \in {n, n + CountMod}

\* In user mode exactly the current process is RUNNING, so that timer_isr saves
\* the interrupted context to the process it belongs to.
OneRunning ==
    phase = "user" => {i \in Proc : used[i] /\ pcb[i].state = "RUNNING"} = {cur}

\* The scan of the scheduler starts inside the process table as long as every
\* process got both its frames: they run out before the last slot is ever used,
\* failed creations and killed processes included.  A request of no bytes that
\* takes the last frame alone ends this.
ScanInBounds == short \/ nxt + 1 < NProc

\* Under the same condition there is a page directory left while there are two
\* frames left, and paging_create_new_page_directory does not return NULL, although
\* kills of processes without a context give neither directory nor image back.
DirLeft == ~ short /\ mem.free >= 2 => FreeDirs(mem) # {}

\* No two processes have one page directory, and the directory of a process is
\* not up for reuse; nor is the one the processor works with.
DirsOwned ==
    /\ \A i \in Proc : used[i] /\ pcb[i].pd # NULL => pcb[i].pd \in UsedDirs
    /\ \A i, j \in Proc :
          used[i] /\ used[j] /\ pcb[i].pd = pcb[j].pd /\ pcb[i].pd # NULL => i = j
    /\ phase = "user" => cr3 \in UsedDirs

\* Frame 0 is the only frame that two address spaces, or two pages of one, can
\* ever share: kills set free no other frame that is still mapped.
OnlyFrameZeroShared ==
    \A d1, d2 \in PageDir, p1, p2 \in UserPage :
        /\ mem.dirUsed[d1] /\ mem.dirUsed[d2]
        /\ mem.dir[d1][p1] = mem.dir[d2][p2]
        /\ mem.dir[d1][p1] \notin {0, NoFrame}
        => d1 = d2 /\ p1 = p2

\* Round robin starves nobody: a process in the table gets the processor,
\* unless it is killed or the machine stops.
EventuallyRuns ==
    \A i \in Proc : []<>(cur = i \/ ~ used[i] \/ phase # "user")

\* "release page frame" (process.c:114): a kill sets free the frames of the
\* process it ends, and no others.
KillReturnsFrames ==
    [][\A k \in Proc : Kill(k) =>
          FreeFrames(mem') \ FreeFrames(mem) =
              {mem.dir[pcb[k].pd][p] : p \in UserPage} \ {NoFrame}]_vars

\* "CPU register CR3, containing pointer to active page directory"
\* (process.h:55): the running process runs in its own page directory.
Cr3OfRunning == phase = "user" => cr3 = pcb[cur].pd

\* "context switch to new process" (scheduler.h:53): a switch goes to a process
\* that exists.
SwitchToLiving == [][Tick => used'[cur']]_vars

-----------------------------------------------------------------------------
(* The inductive invariant *)

Zero(m) == IF m.map[0] THEN 1 ELSE 0

\* Frame 0 is taken and the slot that a further kill 0 would find is empty: that
\* kill may return the frame for nothing.
Owed == IF phase = "user" /\ ~ used[0] THEN Zero(mem) ELSE 0

\* Two frames pay for each process, and a kill returns at most two: the budget of
\* the frames behind the kernel's is never exceeded.  One frame other than frame 0
\* pays for each page directory, as long as it is in use.
Budget ==
    /\ phase = "off" => mem = BlankMem /\ used = [i \in Proc |-> FALSE]
    /\ phase # "off" /\ ~ short =>
          /\ mem.free + 2 * Cardinality(UsedSlots) + Owed <= NFrame - 1
          /\ mem.free + Cardinality(UsedDirs) + Zero(mem) <= NFrame

SlotBound == ~ short => \A i \in Proc : used[i] => i + 1 < NProc

\* A slot in use answers to its own index, an unused one to 0.
PidIsSlot ==
    \A i \in Proc : pcb[i].pid = IF used[i] THEN i ELSE 0

UnusedBlank == \A i \in Proc : ~ used[i] => pcb[i].pd = NULL

\* Before the first switch slot 0 comes first; the running process has a context.
CurAlive ==
    /\ phase \in {"off", "setup", "start"} => cur = 0 /\ nxt = 0
    /\ phase = "user" => used[cur] /\ pcb[cur].pd # NULL

\* Nobody but the running process has the directory the processor works with.
Cr3NotShared ==
    phase = "user" => \A i \in Proc : used[i] /\ i # cur => pcb[i].pd # cr3

\* Nothing runs before the first switch, and the shell gets its frames.
QuietStart ==
    phase \in {"off", "setup", "start"} =>
        ~ short /\ \A i \in Proc : pcb[i].state = "READY"

\* What a directory maps is marked as taken (frame 0 excepted), and a
\* directory not in use maps nothing.
MappedTaken ==
    \A d \in PageDir, p \in UserPage :
        /\ mem.dir[d][p] \notin {0, NoFrame} => mem.map[mem.dir[d][p]]
        /\ ~ mem.dirUsed[d] => mem.dir[d][p] = NoFrame

\* What every reachable state satisfies and every step preserves.
IInv ==
    /\ TypeOK
    /\ FreeCountExact /\ ActiveExact
    /\ Budget /\ SlotBound /\ ScanInBounds
    /\ PidIsSlot /\ UnusedBlank
    /\ OneRunning /\ QuietStart /\ CurAlive
    /\ DirsOwned /\ Cr3NotShared
    /\ MappedTaken /\ OnlyFrameZeroShared

=============================================================================
