------------------------------ MODULE Process ------------------------------
(***************************************************************************)
(* Processes, src/src/process/process.c.  The read of the executable (and   *)
(* everything of the request but its size) is reduced to whether it         *)
(* succeeds; every caller loads at address 0.                               *)
(***************************************************************************)
EXTENDS Paging

CONSTANTS
    NProc,      \* PROCESS_COUNT_MAX
    CountMod    \* 2^32, the values of active_process_count

PROCESS_PAGE_FRAME_COUNT_MAX == 8

\* 16 processes and 32 frames.
ASSUME ProcessAssumption ==
    /\ NProc \in Nat /\ NProc > 1
    /\ NFrame <= 2 * NProc
    /\ CountMod \in Nat /\ CountMod > NProc

Proc == 0 .. NProc - 1

VARIABLES
    mem,        \* page_manager_state and the page directories
    used,       \* process_manager_state._process_used
    active,     \* process_manager_state.active_process_count
    pcb,        \* _process_list: pid, state and context.page_directory_virtual_addr
    cr3         \* the active page directory

procVars == <<mem, used, active, pcb, cr3>>

Pcb == [pid : Proc, state : {"READY", "RUNNING"}, pd : {NULL} \cup PageDir \cup {KernelDir}]

ZeroPcb == [pid |-> 0, state |-> "READY", pd |-> NULL]

ProcessInit ==
    /\ mem = BlankMem
    /\ used = [i \in Proc |-> FALSE]
    /\ active = 0
    /\ pcb = [i \in Proc |-> ZeroPcb]
    /\ cr3 = KernelDir

\* Fault: the last used slot is taken for an inactive one.
process_list_get_inactive_index_Used ==
    IF \E i \in Proc : used[i] THEN CHOOSE i \in Proc : used[i] ELSE 0

process_list_get_inactive_index == First({i \in Proc : ~ used[i]})

\* frames is page_frame_count_needed; high, an entry point in kernel space.
CreateCode(frames, high) ==
    IF active >= NProc THEN 1
    ELSE IF high THEN 2
    ELSE IF ~ paging_allocate_check(mem, frames)
            \/ frames > PROCESS_PAGE_FRAME_COUNT_MAX THEN 3 ELSE 0

\* Two frames are taken whatever the request's size, or as many as there are: a
\* request of no bytes passes the checks when one is left.
MapProcess(m, d) ==
    LET m1 == paging_create_new_page_directory(m)
        m2 == paging_allocate_user_page_frame(m1, d, "image")
    IN  paging_allocate_user_page_frame(m2, d, "stack")

\* process_create_user_process past its checks.  When the read fails (~ ok) the
\* function leaves without going back to the caller's page directory, without
\* giving anything back and without the new process's context.
process_create_user_process(ok) ==
    LET i == process_list_get_inactive_index
        d == First(FreeDirs(mem))
    IN  /\ mem' = MapProcess(mem, d)
        /\ used' = [used EXCEPT ![i] = TRUE]
        /\ active' = active + 1
        /\ pcb' = [pcb EXCEPT ![i] = [pid |-> i, state |-> "READY",
                                      pd |-> IF ok THEN d ELSE @.pd]]
        /\ cr3' = IF ok THEN cr3 ELSE d

\* The page that the j-th recorded address lies in.  The "virtual addresses" of the
\* two frames are their indices plus 0xC0000000 and so lie in the kernel's page;
\* the other six are 0, the image.  (The -1 of a stack that got no frame lies in
\* the stack's page, whose entry also reads as frame 0.)
RecordedPage(j) == IF j <= 2 THEN "kernel" ELSE "image"

\* Fault: the stack is released besides the kernel's page, not in its place.
ReleaseFrames_StackToo(m, d) ==
    LET m1 == paging_free_user_page_frame(m, d, "kernel")
        m2 == paging_free_user_page_frame(m1, d, "image")
    IN  paging_free_user_page_frame(m2, d, "stack")

\* The release loop of process_destroy.
ReleaseFrames(m, d) ==
    LET w[j \in 0 .. PROCESS_PAGE_FRAME_COUNT_MAX] ==
            IF j = 0 THEN m ELSE paging_free_user_page_frame(w[j - 1], d, RecordedPage(j))
    IN  w[PROCESS_PAGE_FRAME_COUNT_MAX]

\* Fault: the count has no width.
Decrement_Unbounded(n) == n - 1

\* One less, in the width of the counter.
Decrement(n) == IF n = 0 THEN CountMod - 1 ELSE n - 1

Slots(k) == {i \in Proc : pcb[i].pid = k}

\* process_destroy on the slot i that answers to the pid k; the PCB it reads
\* the directory from is that of index k.
process_destroy(i, k) ==
    LET d == pcb[k].pd
    IN  /\ active' = Decrement(active)
        /\ used' = [used EXCEPT ![i] = FALSE]
        /\ mem' = paging_free_page_directory(ReleaseFrames(mem, d), d)
        /\ pcb' = [pcb EXCEPT ![i] = ZeroPcb]
        /\ UNCHANGED cr3

=============================================================================
