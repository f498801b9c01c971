------------------------------- MODULE Paging -------------------------------
(***************************************************************************)
(* Page frames and page directories, src/src/paging/paging.c.  The manager's *)
(* state is the record mem; each operator is one function of the file and   *)
(* yields the state it leaves behind, so that a caller's sequence of calls  *)
(* is a chain of LETs.                                                      *)
(*                                                                         *)
(* A directory maps three pages: "image" (entry 0, the program), "stack"    *)
(* (entry 0x2FF) and "kernel" (entry 0x300, always physical frame 0).       *)
(***************************************************************************)
EXTENDS Integers, FiniteSets

CONSTANTS
    NFrame,     \* PAGE_FRAME_MAX_COUNT
    NPageDir    \* PAGING_DIRECTORY_TABLE_MAX_COUNT

ASSUME PagingAssumption ==
    /\ NFrame \in Nat /\ NFrame > 0
    /\ NPageDir \in Nat /\ NPageDir > 0
    /\ NPageDir >= NFrame - 1           \* 32 directories, 32 frames

Frame == 0 .. NFrame - 1
NoFrame == NFrame
UserPage == {"image", "stack"}
Page == UserPage \cup {"kernel"}

NULL == 0
PageDir == 1 .. NPageDir
KernelDir == NPageDir + 1       \* _paging_kernel_page_directory

Mem == [map : [Frame -> BOOLEAN], free : Nat, dirUsed : [PageDir -> BOOLEAN],
        dir : [PageDir \cup {KernelDir} -> [UserPage -> Frame \cup {NoFrame}]]]

NoPages == [p \in UserPage |-> NoFrame]

BlankMem == [map |-> [f \in Frame |-> FALSE], free |-> NFrame,
             dirUsed |-> [d \in PageDir |-> FALSE],
             dir |-> [d \in PageDir \cup {KernelDir} |-> NoPages]]

First(S) == CHOOSE x \in S : \A y \in S : x <= y

FreeFrames(m) == {f \in Frame : ~ m.map[f]}
FreeDirs(m) == {d \in PageDir : ~ m.dirUsed[d]}

paging_allocate_check(m, amount) == amount <= m.free

\* Fault: the counter is not kept.
paging_allocate_user_page_frame_NoCount(m, d, p) ==
    IF FreeFrames(m) = {} THEN m
    ELSE [m EXCEPT !.map[First(FreeFrames(m))] = TRUE,
                   !.dir[d][p] = First(FreeFrames(m))]

\* Fault: the frames in use are taken to be the first ones.
paging_allocate_user_page_frame_Bump(m, d, p) ==
    IF FreeFrames(m) = {} THEN m
    ELSE [m EXCEPT !.map[NFrame - m.free] = TRUE,
                   !.free = @ - 1,
                   !.dir[d][p] = NFrame - m.free]

\* First fit; without a free frame it returns -1 and changes nothing.
paging_allocate_user_page_frame(m, d, p) ==
    IF FreeFrames(m) = {} THEN m
    ELSE [m EXCEPT !.map[First(FreeFrames(m))] = TRUE,
                   !.free = @ - 1,
                   !.dir[d][p] = First(FreeFrames(m))]

\* The frame in entry p of directory d: an entry that is not present has
\* lower_address 0, and so has the entry of the kernel.
LowerAddress(m, d, p) ==
    IF p = "kernel" THEN 0
    ELSE IF m.dir[d][p] = NoFrame THEN 0 ELSE m.dir[d][p]

\* The entry's flags are then copied from an uninitialised variable; the only
\* caller clears the whole directory afterwards.
paging_free_user_page_frame(m, d, p) ==
    LET f == LowerAddress(m, d, p)
    IN  IF ~ m.map[f] THEN m
        ELSE [m EXCEPT !.map[f] = FALSE,
                       !.free = @ + 1,
                       !.dir[d] = [q \in UserPage |-> IF q = p THEN NoFrame ELSE @[q]]]

\* Fault: the directory is not marked.
paging_create_new_page_directory_Unmarked(m) == m

paging_create_new_page_directory(m) ==
    [m EXCEPT !.dirUsed[First(FreeDirs(m))] = TRUE]

paging_free_page_directory(m, d) ==
    [m EXCEPT !.dirUsed[d] = FALSE, !.dir[d] = NoPages]

=============================================================================
