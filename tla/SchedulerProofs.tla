--------------------------- MODULE SchedulerProofs ---------------------------
(***************************************************************************)
(* Proofs about processes, page frames and the scheduler (Scheduler.tla).   *)
(***************************************************************************)
EXTENDS Scheduler, FiniteSetTheorems, WellFoundedInduction, TLAPS

-----------------------------------------------------------------------------
(* The operators the model is built from *)

\* The scans of the code (first fit, first unused) find the least element.
LEMMA FirstIsLeast ==
    ASSUME NEW S, S \subseteq Nat, S # {}
    PROVE  First(S) \in S /\ \A y \in S : First(S) <= y
<1>1. \E x \in S : \A y \in S : ~ (<<y, x>> \in {ss \in Nat \X Nat : ss[1] < ss[2]})
  <2>1. IsWellFoundedOn({ss \in Nat \X Nat : ss[1] < ss[2]}, Nat)
    BY NatLessThanWellFounded, Zenon DEF OpToRel
  <2> QED BY <2>1, WFMin, Zenon
<1>2. \E x \in S : \A y \in S : x <= y
  <2>1. PICK x \in S : \A y \in S : ~ (<<y, x>> \in {ss \in Nat \X Nat : ss[1] < ss[2]})
    BY <1>1
  <2>2. \A y \in S : ~ (y < x)
    BY <2>1
  <2> QED BY <2>2
<1> QED BY <1>2 DEF First

AllDirs == PageDir \cup {KernelDir}

\* Allocation marks one free frame, counts it and maps it.
LEMMA AllocateEffect ==
    ASSUME NEW m \in Mem, NEW d \in AllDirs, NEW p \in UserPage,
           FreeFrames(m) # {}, m.free > 0,
           NEW r, r = paging_allocate_user_page_frame(m, d, p),
           NEW f, f = First(FreeFrames(m))
    PROVE  /\ f \in Frame /\ ~ m.map[f]
           /\ r \in Mem
           /\ r.map = [m.map EXCEPT ![f] = TRUE]
           /\ r.free = m.free - 1
           /\ r.dirUsed = m.dirUsed
           /\ r.dir = [m.dir EXCEPT ![d] = [m.dir[d] EXCEPT ![p] = f]]
<1>1. FreeFrames(m) \subseteq Nat
  BY PagingAssumption DEF FreeFrames, Frame
<1>2. f \in FreeFrames(m)
  BY <1>1, FirstIsLeast
<1>3. f \in Frame /\ ~ m.map[f]
  BY <1>2 DEF FreeFrames
<1>4. r = [m EXCEPT !.map[f] = TRUE, !.free = @ - 1, !.dir[d][p] = f]
  BY DEF paging_allocate_user_page_frame
<1>5. r = [map |-> [m.map EXCEPT ![f] = TRUE], free |-> m.free - 1,
           dirUsed |-> m.dirUsed,
           dir |-> [m.dir EXCEPT ![d] = [m.dir[d] EXCEPT ![p] = f]]]
  BY <1>4 DEF Mem, AllDirs
<1>6. [m.map EXCEPT ![f] = TRUE] \in [Frame -> BOOLEAN]
  BY <1>3 DEF Mem
<1>7. m.free - 1 \in Nat
  BY DEF Mem
<1>8. [m.dir EXCEPT ![d] = [m.dir[d] EXCEPT ![p] = f]]
         \in [AllDirs -> [UserPage -> Frame \cup {NoFrame}]]
  BY <1>3 DEF Mem, AllDirs
<1> QED BY <1>3, <1>5, <1>6, <1>7, <1>8 DEF Mem, AllDirs

\* Freeing either finds the frame free already and changes nothing, or
\* unmarks it, counts it and unmaps the page.
LEMMA FreeEffect ==
    ASSUME NEW m \in Mem, NEW d \in AllDirs, NEW p \in Page,
           NEW r, r = paging_free_user_page_frame(m, d, p),
           NEW f, f = LowerAddress(m, d, p)
    PROVE  /\ f \in Frame
           /\ ~ m.map[f] => r = m
           /\ m.map[f] =>
                /\ r \in Mem
                /\ r.map = [m.map EXCEPT ![f] = FALSE]
                /\ r.free = m.free + 1
                /\ r.dirUsed = m.dirUsed
                /\ r.dir = [m.dir EXCEPT ![d] =
                               [q \in UserPage |-> IF q = p THEN NoFrame ELSE m.dir[d][q]]]
<1>1. f \in Frame
  BY PagingAssumption DEF LowerAddress, Mem, Frame, NoFrame, AllDirs, Page, UserPage
<1>2. ~ m.map[f] => r = m
  BY DEF paging_free_user_page_frame
<1> DEFINE pages == [q \in UserPage |-> IF q = p THEN NoFrame ELSE m.dir[d][q]]
<1>3. ASSUME m.map[f]
      PROVE  r = [map |-> [m.map EXCEPT ![f] = FALSE], free |-> m.free + 1,
                  dirUsed |-> m.dirUsed, dir |-> [m.dir EXCEPT ![d] = pages]]
  BY <1>3 DEF paging_free_user_page_frame, Mem, AllDirs
<1>4. pages \in [UserPage -> Frame \cup {NoFrame}]
  BY DEF Mem, AllDirs
<1>5. [m.dir EXCEPT ![d] = pages] \in [AllDirs -> [UserPage -> Frame \cup {NoFrame}]]
  <2> HIDE DEF pages
  <2> QED BY <1>4 DEF Mem, AllDirs
<1>6. [m.map EXCEPT ![f] = FALSE] \in [Frame -> BOOLEAN] /\ m.free + 1 \in Nat
  BY <1>1 DEF Mem
<1>7. ASSUME m.map[f]
      PROVE  /\ r \in Mem
             /\ r.map = [m.map EXCEPT ![f] = FALSE]
             /\ r.free = m.free + 1
             /\ r.dirUsed = m.dirUsed
             /\ r.dir = [m.dir EXCEPT ![d] = pages]
  <2> HIDE DEF pages
  <2>1. r = [map |-> [m.map EXCEPT ![f] = FALSE], free |-> m.free + 1,
             dirUsed |-> m.dirUsed, dir |-> [m.dir EXCEPT ![d] = pages]]
    BY <1>3, <1>7
  <2> QED BY <2>1, <1>5, <1>6 DEF Mem, AllDirs
<1> QED BY <1>1, <1>2, <1>7

\* A new page directory is one that was not in use.
LEMMA NewDirEffect ==
    ASSUME NEW m \in Mem, FreeDirs(m) # {},
           NEW r, r = paging_create_new_page_directory(m),
           NEW d, d = First(FreeDirs(m))
    PROVE  /\ d \in PageDir /\ ~ m.dirUsed[d]
           /\ r \in Mem
           /\ r.map = m.map /\ r.free = m.free /\ r.dir = m.dir
           /\ r.dirUsed = [m.dirUsed EXCEPT ![d] = TRUE]
<1>1. FreeDirs(m) \subseteq Nat
  BY PagingAssumption DEF FreeDirs, PageDir
<1>2. d \in FreeDirs(m)
  BY <1>1, FirstIsLeast
<1>3. d \in PageDir /\ ~ m.dirUsed[d]
  BY <1>2 DEF FreeDirs
<1>4. r = [map |-> m.map, free |-> m.free, dir |-> m.dir,
           dirUsed |-> [m.dirUsed EXCEPT ![d] = TRUE]]
  BY DEF paging_create_new_page_directory, Mem
<1> QED BY <1>3, <1>4 DEF Mem

\* A freed page directory is cleared.
LEMMA FreeDirEffect ==
    ASSUME NEW m \in Mem, NEW d \in PageDir,
           NEW r, r = paging_free_page_directory(m, d)
    PROVE  /\ r \in Mem
           /\ r.map = m.map /\ r.free = m.free
           /\ r.dirUsed = [m.dirUsed EXCEPT ![d] = FALSE]
           /\ r.dir = [m.dir EXCEPT ![d] = NoPages]
<1>1. r = [map |-> m.map, free |-> m.free, dir |-> [m.dir EXCEPT ![d] = NoPages],
           dirUsed |-> [m.dirUsed EXCEPT ![d] = FALSE]]
  BY DEF paging_free_page_directory, Mem
<1>2. NoPages \in [UserPage -> Frame \cup {NoFrame}]
  BY DEF NoPages
<1>3. [m.dir EXCEPT ![d] = NoPages]
         \in [AllDirs -> [UserPage -> Frame \cup {NoFrame}]]
  BY <1>2 DEF Mem, AllDirs
<1> QED BY <1>1, <1>3 DEF Mem, AllDirs

\* The free frames are finitely many, and their number is a natural number.
LEMMA FramesFinite ==
    ASSUME NEW m \in Mem
    PROVE  IsFiniteSet(FreeFrames(m)) /\ Cardinality(FreeFrames(m)) \in Nat
<1>1. IsFiniteSet(Frame)
  BY PagingAssumption, FS_Interval DEF Frame
<1>2. FreeFrames(m) \in SUBSET Frame
  BY DEF FreeFrames
<1>3. IsFiniteSet(FreeFrames(m))
  BY <1>1, <1>2, FS_Subset
<1> QED BY <1>3, FS_CardinalityType

\* Marking a free frame takes one from the number of free frames.
LEMMA CountMarked ==
    ASSUME NEW m \in Mem, NEW r \in Mem, NEW f \in Frame,
           ~ m.map[f], r.map = [m.map EXCEPT ![f] = TRUE]
    PROVE  Cardinality(FreeFrames(r)) = Cardinality(FreeFrames(m)) - 1
<1>1. FreeFrames(r) = FreeFrames(m) \ {f} /\ f \in FreeFrames(m)
  BY DEF FreeFrames, Mem
<1> QED BY <1>1, FramesFinite, FS_RemoveElement

\* Unmarking a frame that is taken adds one to the number of free frames.
LEMMA CountUnmarked ==
    ASSUME NEW m \in Mem, NEW r \in Mem, NEW f \in Frame,
           m.map[f], r.map = [m.map EXCEPT ![f] = FALSE]
    PROVE  Cardinality(FreeFrames(r)) = Cardinality(FreeFrames(m)) + 1
<1>1. FreeFrames(r) = FreeFrames(m) \cup {f} /\ f \notin FreeFrames(m)
  BY DEF FreeFrames, Mem
<1> QED BY <1>1, FramesFinite, FS_AddElement

Exact(m) == m.free = Cardinality(FreeFrames(m))

\* An exact count above zero means that paging_allocate_user_page_frame finds a
\* free frame.
LEMMA ExactFree ==
    ASSUME NEW m \in Mem, Exact(m), m.free > 0
    PROVE  FreeFrames(m) # {}
<1>1. Cardinality({}) = 0
  BY FS_EmptySet
<1> QED BY <1>1 DEF Exact

\* What an allocation for page p of directory d does to an exact manager.
Allocated(m, d, p, r) ==
    /\ r \in Mem /\ Exact(r)
    /\ r.free = m.free - 1
    /\ r.dirUsed = m.dirUsed
    /\ \E f \in Frame :
         /\ ~ m.map[f]
         /\ r.map = [m.map EXCEPT ![f] = TRUE]
         /\ r.dir = [m.dir EXCEPT ![d] = [m.dir[d] EXCEPT ![p] = f]]

\* An allocation keeps the count exact.
LEMMA AllocateExact ==
    ASSUME NEW m \in Mem, Exact(m), m.free > 0,
           NEW d \in AllDirs, NEW p \in UserPage,
           NEW r, r = paging_allocate_user_page_frame(m, d, p)
    PROVE  Allocated(m, d, p, r)
<1> DEFINE f == First(FreeFrames(m))
<1>1. FreeFrames(m) # {}
  BY ExactFree
<1> HIDE DEF f
<1>2. /\ f \in Frame /\ ~ m.map[f]
      /\ r \in Mem
      /\ r.map = [m.map EXCEPT ![f] = TRUE]
      /\ r.free = m.free - 1
      /\ r.dirUsed = m.dirUsed
      /\ r.dir = [m.dir EXCEPT ![d] = [m.dir[d] EXCEPT ![p] = f]]
  BY <1>1, AllocateEffect DEF f
<1>3. Exact(r)
  BY <1>2, CountMarked DEF Exact
<1> QED BY <1>2, <1>3 DEF Allocated

\* What the creation of a process does to it: directory d is taken, with two
\* frames nobody had.
Mapped(m, d, r) ==
    /\ d \in PageDir /\ ~ m.dirUsed[d]
    /\ r \in Mem /\ Exact(r)
    /\ r.free = m.free - 2
    /\ r.dirUsed = [m.dirUsed EXCEPT ![d] = TRUE]
    /\ \E f, g \in Frame :
         /\ f # g /\ ~ m.map[f] /\ ~ m.map[g]
         /\ r.map = [[m.map EXCEPT ![f] = TRUE] EXCEPT ![g] = TRUE]
         /\ r.dir = [m.dir EXCEPT ![d] =
                        [m.dir[d] EXCEPT !["image"] = f, !["stack"] = g]]

\* A process gets a directory of its own, with two frames nobody had.
LEMMA MapProcessEffect ==
    ASSUME NEW m \in Mem, Exact(m), m.free >= 2, FreeDirs(m) # {},
           NEW d, d = First(FreeDirs(m)),
           NEW r, r = MapProcess(m, d)
    PROVE  Mapped(m, d, r)
<1> DEFINE m1 == paging_create_new_page_directory(m)
           m2 == paging_allocate_user_page_frame(m1, d, "image")
<1>1. r = paging_allocate_user_page_frame(m2, d, "stack")
  BY DEF MapProcess
<1> HIDE DEF m1, m2
<1>2. /\ d \in PageDir /\ ~ m.dirUsed[d]
      /\ m1 \in Mem
      /\ m1.map = m.map /\ m1.free = m.free /\ m1.dir = m.dir
      /\ m1.dirUsed = [m.dirUsed EXCEPT ![d] = TRUE]
  BY NewDirEffect DEF m1
<1>3. Exact(m1) /\ m1.free > 0 /\ m1.free \in Nat
  BY <1>2 DEF Exact, FreeFrames, Mem
<1>4. d \in AllDirs /\ "image" \in UserPage /\ "stack" \in UserPage
  BY <1>2 DEF AllDirs, UserPage
<1>5. /\ m2 \in Mem /\ Exact(m2)
      /\ m2.free = m1.free - 1
      /\ m2.dirUsed = m1.dirUsed
      /\ \E f \in Frame :
            /\ ~ m1.map[f]
            /\ m2.map = [m1.map EXCEPT ![f] = TRUE]
            /\ m2.dir = [m1.dir EXCEPT ![d] = [m1.dir[d] EXCEPT !["image"] = f]]
  <2>1. m2 = paging_allocate_user_page_frame(m1, d, "image")
    BY DEF m2
  <2>2. m1 \in Mem /\ Exact(m1) /\ m1.free > 0 /\ d \in AllDirs /\ "image" \in UserPage
    BY <1>2, <1>3, <1>4
  <2>3. Allocated(m1, d, "image", m2)
    BY ONLY <2>1, <2>2, AllocateExact
  <2> QED BY <2>3 DEF Allocated
<1>6. PICK f \in Frame :
            /\ ~ m1.map[f]
            /\ m2.map = [m1.map EXCEPT ![f] = TRUE]
            /\ m2.dir = [m1.dir EXCEPT ![d] = [m1.dir[d] EXCEPT !["image"] = f]]
  BY <1>5
<1>7. m2.free > 0
  BY <1>2, <1>3, <1>5 DEF Mem
<1>8. /\ r \in Mem /\ Exact(r)
      /\ r.free = m2.free - 1
      /\ r.dirUsed = m2.dirUsed
      /\ \E g \in Frame :
            /\ ~ m2.map[g]
            /\ r.map = [m2.map EXCEPT ![g] = TRUE]
            /\ r.dir = [m2.dir EXCEPT ![d] = [m2.dir[d] EXCEPT !["stack"] = g]]
  <2>1. m2 \in Mem /\ Exact(m2) /\ m2.free > 0 /\ d \in AllDirs /\ "stack" \in UserPage
    BY <1>4, <1>5, <1>7
  <2>2. Allocated(m2, d, "stack", r)
    BY ONLY <1>1, <2>1, AllocateExact
  <2> QED BY <2>2 DEF Allocated
<1>9. PICK g \in Frame :
            /\ ~ m2.map[g]
            /\ r.map = [m2.map EXCEPT ![g] = TRUE]
            /\ r.dir = [m2.dir EXCEPT ![d] = [m2.dir[d] EXCEPT !["stack"] = g]]
  BY <1>8
<1>10. f # g /\ ~ m.map[f] /\ ~ m.map[g]
  BY <1>2, <1>6, <1>9 DEF Mem
<1>11. r.map = [[m.map EXCEPT ![f] = TRUE] EXCEPT ![g] = TRUE]
  BY <1>2, <1>6, <1>9
<1>12. r.dir = [m.dir EXCEPT ![d] = [m.dir[d] EXCEPT !["image"] = f, !["stack"] = g]]
  <2>1. m.dir \in [AllDirs -> [UserPage -> Frame \cup {NoFrame}]]
    BY DEF Mem, AllDirs
  <2>2. m2.dir = [m.dir EXCEPT ![d] = [m.dir[d] EXCEPT !["image"] = f]]
    BY <1>2, <1>6
  <2>3. m2.dir[d] = [m.dir[d] EXCEPT !["image"] = f]
    BY <2>1, <2>2, <1>4
  <2>4. r.dir = [[m.dir EXCEPT ![d] = [m.dir[d] EXCEPT !["image"] = f]] EXCEPT ![d] =
                    [[m.dir[d] EXCEPT !["image"] = f] EXCEPT !["stack"] = g]]
    BY <1>9, <2>2, <2>3
  <2> QED BY ONLY <2>1, <2>4, <1>4
<1>13. r.free = m.free - 2
  BY <1>2, <1>3, <1>5, <1>8 DEF Mem
<1>14. r.dirUsed = [m.dirUsed EXCEPT ![d] = TRUE]
  BY <1>2, <1>5, <1>8
<1>15. \E x, y \in Frame :
          /\ x # y /\ ~ m.map[x] /\ ~ m.map[y]
          /\ r.map = [[m.map EXCEPT ![x] = TRUE] EXCEPT ![y] = TRUE]
          /\ r.dir = [m.dir EXCEPT ![d] = [m.dir[d] EXCEPT !["image"] = x, !["stack"] = y]]
  BY ONLY <1>10, <1>11, <1>12, f \in Frame, g \in Frame, Zenon
<1>16. d \in PageDir /\ ~ m.dirUsed[d] /\ r \in Mem /\ Exact(r)
  BY <1>2, <1>8
<1> QED BY ONLY <1>13, <1>14, <1>15, <1>16, Zenon DEF Mapped

\* A count of zero means that there is no frame left.
LEMMA ExactNone ==
    ASSUME NEW m \in Mem, Exact(m), m.free = 0
    PROVE  FreeFrames(m) = {}
BY FramesFinite, FS_EmptySet DEF Exact

\* What a creation does to the manager however many frames there are: directory d is
\* taken, and what it maps nobody had.
Fresh(m, d, r) ==
    /\ d \in PageDir /\ ~ m.dirUsed[d]
    /\ r \in Mem /\ Exact(r)
    /\ m.free >= 2 => r.free = m.free - 2
    /\ r.dirUsed = [m.dirUsed EXCEPT ![d] = TRUE]
    /\ \A e \in PageDir \ {d} : r.dir[e] = m.dir[e]
    /\ \A h \in Frame : m.map[h] => r.map[h]
    /\ \A p \in UserPage :
         \/ r.dir[d][p] = NoFrame
         \/ r.dir[d][p] \in Frame /\ ~ m.map[r.dir[d][p]] /\ r.map[r.dir[d][p]]
    /\ r.dir[d]["image"] = r.dir[d]["stack"] => r.dir[d]["image"] = NoFrame

\* A creation gets what is left: two frames, one, or none.
LEMMA CreationIsFresh ==
    ASSUME NEW m \in Mem, Exact(m), FreeDirs(m) # {},
           NEW d, d = First(FreeDirs(m)),
           \A p \in UserPage : m.dir[d][p] = NoFrame,
           NEW r, r = MapProcess(m, d)
    PROVE  Fresh(m, d, r)
<1>0. m.free \in Nat /\ NoFrame \notin Frame
  BY PagingAssumption DEF Mem, NoFrame, Frame
<1>1. CASE m.free >= 2
  <2>1. Mapped(m, d, r)
    BY <1>1, MapProcessEffect
  <2>2. /\ d \in PageDir /\ ~ m.dirUsed[d]
        /\ r \in Mem /\ Exact(r)
        /\ r.free = m.free - 2
        /\ r.dirUsed = [m.dirUsed EXCEPT ![d] = TRUE]
    BY <2>1 DEF Mapped
  <2>3. PICK f \in Frame, g \in Frame :
           /\ f # g /\ ~ m.map[f] /\ ~ m.map[g]
           /\ r.map = [[m.map EXCEPT ![f] = TRUE] EXCEPT ![g] = TRUE]
           /\ r.dir = [m.dir EXCEPT ![d] =
                          [m.dir[d] EXCEPT !["image"] = f, !["stack"] = g]]
    BY <2>1 DEF Mapped
  <2>4. /\ \A e \in PageDir \ {d} : r.dir[e] = m.dir[e]
        /\ r.dir[d]["image"] = f /\ r.dir[d]["stack"] = g
        /\ r.map[f] /\ r.map[g]
        /\ \A h \in Frame : m.map[h] => r.map[h]
    BY <2>2, <2>3 DEF Mem, UserPage
  <2> QED BY <2>2, <2>3, <2>4 DEF Fresh, UserPage
<1>2. CASE m.free < 2
  <2> DEFINE m1 == paging_create_new_page_directory(m)
             m2 == paging_allocate_user_page_frame(m1, d, "image")
  <2>1. r = paging_allocate_user_page_frame(m2, d, "stack")
    BY DEF MapProcess
  <2> HIDE DEF m1, m2
  <2>2. /\ d \in PageDir /\ ~ m.dirUsed[d]
        /\ m1 \in Mem
        /\ m1.map = m.map /\ m1.free = m.free /\ m1.dir = m.dir
        /\ m1.dirUsed = [m.dirUsed EXCEPT ![d] = TRUE]
    BY NewDirEffect DEF m1
  <2>3. Exact(m1)
    BY <2>2 DEF Exact, FreeFrames
  <2>4. CASE m.free = 0
    <3>1. FreeFrames(m1) = {}
      BY <2>2, <2>3, <2>4, ExactNone
    <3>2. m2 = m1 /\ r = m1
      BY <2>1, <3>1 DEF m2, paging_allocate_user_page_frame
    <3> QED BY <1>0, <2>2, <2>3, <2>4, <3>2 DEF Fresh, UserPage
  <2>5. CASE m.free = 1
    <3>1. d \in AllDirs /\ "image" \in UserPage /\ m1.free > 0
      BY <2>2, <2>5 DEF AllDirs, UserPage
    <3>2. Allocated(m1, d, "image", m2)
      BY <2>2, <2>3, <3>1, AllocateExact DEF m2
    <3>3. m2 \in Mem /\ Exact(m2) /\ m2.free = 0 /\ m2.dirUsed = m1.dirUsed
      BY <2>2, <2>5, <3>2 DEF Allocated
    <3>4. r = m2
      BY <2>1, <3>3, ExactNone DEF paging_allocate_user_page_frame
    <3>5. PICK f \in Frame :
             /\ ~ m1.map[f]
             /\ m2.map = [m1.map EXCEPT ![f] = TRUE]
             /\ m2.dir = [m1.dir EXCEPT ![d] = [m1.dir[d] EXCEPT !["image"] = f]]
      BY <3>2 DEF Allocated
    <3>6. /\ \A e \in PageDir \ {d} : r.dir[e] = m.dir[e]
          /\ r.dir[d]["image"] = f /\ r.dir[d]["stack"] = NoFrame
          /\ r.map[f] /\ ~ m.map[f]
          /\ \A h \in Frame : m.map[h] => r.map[h]
      BY <2>2, <3>4, <3>5 DEF Mem, UserPage
    <3> QED BY <1>0, <2>2, <2>5, <3>3, <3>4, <3>5, <3>6 DEF Fresh, UserPage
  <2> QED BY <1>0, <1>2, <2>4, <2>5
<1> QED BY <1>0, <1>1, <1>2

\* What freeing page p of directory d does to an exact manager.
Freed(m, d, p, r) ==
    /\ r \in Mem /\ Exact(r)
    /\ m.free <= r.free /\ r.free <= m.free + 1
    /\ r.dirUsed = m.dirUsed
    /\ \A e \in AllDirs \ {d} : r.dir[e] = m.dir[e]
    /\ \A q \in UserPage \ {p} : r.dir[d][q] = m.dir[d][q]
    /\ \A f \in Frame : f # LowerAddress(m, d, p) => r.map[f] = m.map[f]

\* Freeing a page keeps the count exact, whether or not its frame was taken.
LEMMA FreeExact ==
    ASSUME NEW m \in Mem, Exact(m), NEW d \in AllDirs, NEW p \in Page,
           NEW r, r = paging_free_user_page_frame(m, d, p)
    PROVE  Freed(m, d, p, r)
<1> DEFINE f == LowerAddress(m, d, p)
<1>1. /\ f \in Frame
      /\ ~ m.map[f] => r = m
      /\ m.map[f] =>
           /\ r \in Mem
           /\ r.map = [m.map EXCEPT ![f] = FALSE]
           /\ r.free = m.free + 1
           /\ r.dirUsed = m.dirUsed
           /\ r.dir = [m.dir EXCEPT ![d] =
                          [q \in UserPage |-> IF q = p THEN NoFrame ELSE m.dir[d][q]]]
  BY FreeEffect
<1>2. CASE ~ m.map[f]
  BY <1>1, <1>2 DEF Freed, Mem
<1>3. CASE m.map[f]
  <2>1. Exact(r)
    BY <1>1, <1>3, CountUnmarked DEF Exact
  <2>2. \A g \in Frame : g # f => r.map[g] = m.map[g]
    BY <1>1, <1>3 DEF Mem
  <2>3. /\ \A e \in AllDirs \ {d} : r.dir[e] = m.dir[e]
        /\ \A q \in UserPage \ {p} : r.dir[d][q] = m.dir[d][q]
    BY <1>1, <1>3 DEF Mem, AllDirs
  <2>4. m.free <= r.free /\ r.free <= m.free + 1
    BY <1>1, <1>3 DEF Mem
  <2> QED BY <1>1, <1>3, <2>1, <2>2, <2>3, <2>4 DEF Freed
<1> QED BY <1>2, <1>3

\* Call j of the loop, on the state x.
FreeCall(x, d, j) == paging_free_user_page_frame(x, d, RecordedPage(j))

IsFreeLoop(m, d, w) == w = [j \in 0 .. 8 |-> IF j = 0 THEN m ELSE FreeCall(w[j - 1], d, j)]

\* Nothing happens to a frame that is free already.
LEMMA NothingToFree ==
    ASSUME NEW m, NEW d, NEW p, ~ m.map[LowerAddress(m, d, p)]
    PROVE  paging_free_user_page_frame(m, d, p) = m
BY DEF paging_free_user_page_frame

\* A call finds the frame free, or frees it and unmaps the page.
LEMMA FreeCases ==
    ASSUME NEW m \in Mem, NEW d \in AllDirs, NEW p \in Page,
           NEW r, r = paging_free_user_page_frame(m, d, p)
    PROVE  /\ r \in Mem /\ ~ r.map[LowerAddress(m, d, p)]
           /\ \A g \in Frame : ~ m.map[g] => ~ r.map[g]
           /\ r = m \/ (p \in UserPage => r.dir[d][p] = NoFrame)
<1> DEFINE f == LowerAddress(m, d, p)
<1>1. CASE ~ m.map[f]
  <2>1. r = m
    BY <1>1, NothingToFree
  <2> QED BY <1>1, <2>1
<1>2. CASE m.map[f]
  <2>1. /\ f \in Frame /\ r \in Mem /\ r.map = [m.map EXCEPT ![f] = FALSE]
        /\ r.dir = [m.dir EXCEPT ![d] =
                       [q \in UserPage |-> IF q = p THEN NoFrame ELSE m.dir[d][q]]]
    BY <1>2, FreeEffect
  <2> HIDE DEF f
  <2>2. ~ r.map[f] /\ \A g \in Frame : ~ m.map[g] => ~ r.map[g]
    BY <2>1 DEF Mem
  <2>3. p \in UserPage => r.dir[d][p] = NoFrame
    BY <2>1 DEF Mem, AllDirs
  <2> QED BY <2>1, <2>2, <2>3 DEF f
<1> QED BY <1>1, <1>2

\* A second call of a kind finds the frame free.
LEMMA SecondCall ==
    ASSUME NEW m \in Mem, NEW d \in AllDirs,
           NEW a, a = paging_free_user_page_frame(m, d, "kernel"),
           NEW b, b = paging_free_user_page_frame(a, d, "image")
    PROVE  /\ paging_free_user_page_frame(a, d, "kernel") = a
           /\ paging_free_user_page_frame(b, d, "image") = b
<1>0. "kernel" \in Page /\ "image" \in Page /\ "image" \in UserPage /\ 0 \in Frame
  BY PagingAssumption DEF Page, UserPage, Frame
<1>1. \A x : LowerAddress(x, d, "kernel") = 0
  BY DEF LowerAddress
<1>2. a \in Mem /\ ~ a.map[LowerAddress(m, d, "kernel")]
  BY <1>0, FreeCases
<1>3. ~ a.map[0] /\ ~ a.map[LowerAddress(a, d, "kernel")]
  BY <1>1, <1>2
<1>4. paging_free_user_page_frame(a, d, "kernel") = a
  BY <1>3, NothingToFree
<1>5. /\ b \in Mem /\ ~ b.map[LowerAddress(a, d, "image")]
      /\ \A g \in Frame : ~ a.map[g] => ~ b.map[g]
      /\ b = a \/ b.dir[d]["image"] = NoFrame
  BY <1>0, <1>2, FreeCases
<1>6. ~ b.map[LowerAddress(b, d, "image")]
  <2>1. CASE b = a
    BY <1>5, <2>1
  <2>2. CASE b.dir[d]["image"] = NoFrame
    <3>1. LowerAddress(b, d, "image") = 0
      BY <2>2 DEF LowerAddress
    <3> QED BY <1>0, <1>3, <1>5, <3>1
  <2> QED BY <1>5, <2>1, <2>2
<1>7. paging_free_user_page_frame(b, d, "image") = b
  BY <1>6, NothingToFree
<1> QED BY <1>4, <1>7

\* The eight calls of the release loop amount to two: one for frame 0 and one for
\* the image, never one for the stack.
LEMMA LoopIsTwoCalls ==
    ASSUME NEW m \in Mem, NEW d \in AllDirs,
           NEW a, a = paging_free_user_page_frame(m, d, "kernel"),
           NEW b, b = paging_free_user_page_frame(a, d, "image")
    PROVE  ReleaseFrames(m, d) = b
<1>1. /\ FreeCall(m, d, 1) = a /\ FreeCall(a, d, 2) = a /\ FreeCall(a, d, 3) = b
      /\ \A j \in 4 .. 8 : FreeCall(b, d, j) = b
  BY SecondCall DEF FreeCall, RecordedPage
<1>3. ReleaseFrames(m, d) = (CHOOSE w : IsFreeLoop(m, d, w))[8]
  BY DEF ReleaseFrames, IsFreeLoop, FreeCall, PROCESS_PAGE_FRAME_COUNT_MAX
<1>4. \E w : IsFreeLoop(m, d, w)
  <2> DEFINE w == [j \in 0 .. 8 |-> IF j = 0 THEN m ELSE IF j <= 2 THEN a ELSE b]
  <2>1. \A j \in 0 .. 8 : w[j] = IF j = 0 THEN m ELSE FreeCall(w[j - 1], d, j)
    <3> SUFFICES ASSUME NEW j \in 0 .. 8
                 PROVE  w[j] = IF j = 0 THEN m ELSE FreeCall(w[j - 1], d, j)
      OBVIOUS
    <3>1. CASE j \in {0, 1, 2, 3}
      BY <1>1, <3>1
    <3>2. CASE j \in 4 .. 8
      <4>1. w[j] = b /\ w[j - 1] = b
        BY <3>2
      <4> QED BY <1>1, <3>2, <4>1
    <3> QED BY <3>1, <3>2
  <2>2. w = [j \in 0 .. 8 |-> w[j]]
    OBVIOUS
  <2> HIDE DEF w
  <2> QED BY <2>1, <2>2 DEF IsFreeLoop
<1>5. PICK w : ReleaseFrames(m, d) = w[8] /\ IsFreeLoop(m, d, w)
  BY <1>3, <1>4
<1>6. \A j \in 0 .. 8 : w[j] = IF j = 0 THEN m ELSE FreeCall(w[j - 1], d, j)
  BY <1>5 DEF IsFreeLoop
<1>7. w[3] = b
  <2>1. w[0] = m
    BY <1>6
  <2>2. w[1] = a
    BY <1>1, <1>6, <2>1
  <2>3. w[2] = a
    BY <1>1, <1>6, <2>2
  <2> QED BY <1>1, <1>6, <2>3
<1>8. \A j \in 4 .. 8 : w[j - 1] = b => w[j] = b
  BY <1>1, <1>6
<1>9. w[8] = b
  <2>1. w[4] = b
    BY <1>7, <1>8
  <2>2. w[5] = b
    BY <1>8, <2>1
  <2>3. w[6] = b
    BY <1>8, <2>2
  <2>4. w[7] = b
    BY <1>8, <2>3
  <2> QED BY <1>8, <2>4
<1> QED BY <1>5, <1>9

\* What a kill does to it: the directory is free and blank, and no frame but
\* frame 0 and the image's has changed.
Released(m, d, r) ==
    /\ r \in Mem /\ Exact(r)
    /\ m.free <= r.free /\ r.free <= m.free + Zero(m) + 1
    /\ ~ r.map[0]
    /\ r.dirUsed = [m.dirUsed EXCEPT ![d] = FALSE]
    /\ r.dir[d] = NoPages
    /\ \A e \in AllDirs \ {d} : r.dir[e] = m.dir[e]
    /\ \A f \in Frame : f # 0 /\ f # m.dir[d]["image"] => r.map[f] = m.map[f]

\* The first call sets frame 0 free.
LEMMA KernelFreed ==
    ASSUME NEW m \in Mem, NEW d \in AllDirs,
           NEW r, r = paging_free_user_page_frame(m, d, "kernel")
    PROVE  ~ r.map[0] /\ r.free = m.free + Zero(m)
<1>1. SUFFICES ASSUME NEW f, f = LowerAddress(m, d, "kernel"), NEW p, p = "kernel"
               PROVE  ~ r.map[f] /\ r.free = m.free + Zero(m)
  BY DEF LowerAddress
<1>2. /\ p \in Page /\ r = paging_free_user_page_frame(m, d, p)
      /\ f = LowerAddress(m, d, p)
  BY <1>1 DEF Page
<1>5. f = 0
  BY <1>1 DEF LowerAddress
<1>6. /\ f \in Frame
      /\ ~ m.map[f] => r = m
      /\ m.map[f] =>
           /\ r \in Mem
           /\ r.map = [m.map EXCEPT ![f] = FALSE]
           /\ r.free = m.free + 1
           /\ r.dirUsed = m.dirUsed
           /\ r.dir = [m.dir EXCEPT ![d] =
                          [q \in UserPage |-> IF q = p THEN NoFrame ELSE m.dir[d][q]]]
  BY ONLY m \in Mem, d \in AllDirs, <1>2, FreeEffect
<1>3. CASE ~ m.map[f]
  BY <1>3, <1>5, <1>6 DEF Zero, Mem
<1>4. CASE m.map[f]
  <2>1. f \in Frame /\ r.map = [m.map EXCEPT ![f] = FALSE] /\ r.free = m.free + 1
    BY <1>4, <1>6
  <2> QED BY <1>4, <1>5, <2>1 DEF Zero, Mem
<1> QED BY <1>3, <1>4

\* The release loop of process_destroy and the freeing of the directory keep
\* the count exact and return at most two frames.
LEMMA ReleaseEffect ==
    ASSUME NEW m \in Mem, Exact(m), NEW d \in PageDir,
           NEW r, r = paging_free_page_directory(ReleaseFrames(m, d), d)
    PROVE  Released(m, d, r)
<1> DEFINE m1 == paging_free_user_page_frame(m, d, "kernel")
           m2 == paging_free_user_page_frame(m1, d, "image")
<1>1. r = paging_free_page_directory(m2, d)
  BY LoopIsTwoCalls DEF AllDirs
<1>2. d \in AllDirs /\ "kernel" \in Page /\ "image" \in Page
      /\ "image" \in UserPage \ {"kernel"}
  BY DEF AllDirs, Page, UserPage
<1>3. Freed(m, d, "kernel", m1)
  BY <1>2, FreeExact
<1>4. Freed(m1, d, "image", m2)
  <2>1. m1 \in Mem /\ Exact(m1)
    BY <1>3 DEF Freed
  <2> HIDE DEF m1
  <2> QED BY <1>2, <2>1, FreeExact
<1> HIDE DEF m1, m2
<1>5. m2 \in Mem /\ Exact(m2)
  BY <1>4 DEF Freed
<1>6. /\ r \in Mem
      /\ r.map = m2.map /\ r.free = m2.free
      /\ r.dirUsed = [m2.dirUsed EXCEPT ![d] = FALSE]
      /\ r.dir = [m2.dir EXCEPT ![d] = NoPages]
  BY <1>1, <1>5, FreeDirEffect
<1>7. Exact(r)
  BY <1>5, <1>6 DEF Exact, FreeFrames
<1>8. m.free <= r.free /\ r.free <= m.free + Zero(m) + 1 /\ ~ r.map[0]
  <2>1. 0 \in Frame /\ m1 \in Mem
    BY <1>3, PagingAssumption DEF Frame, Freed
  <2>2. ~ m1.map[0] /\ m1.free <= m.free + Zero(m) /\ m.free <= m1.free
    <3>1. m1 = paging_free_user_page_frame(m, d, "kernel")
      BY DEF m1
    <3>2. ~ m1.map[0] /\ m1.free = m.free + Zero(m)
      BY <1>2, <3>1, KernelFreed
    <3> QED BY <3>2 DEF Mem, Zero
  <2>3. ~ m2.map[0]
    BY <1>2, <2>1, <2>2, FreeCases DEF m2
  <2> QED BY <1>4, <1>6, <2>1, <2>2, <2>3 DEF Freed, Mem, Zero
<1>9. m2.dirUsed = m.dirUsed
  BY <1>3, <1>4 DEF Freed
<1>10. \A e \in AllDirs \ {d} : m2.dir[e] = m.dir[e]
  BY <1>3, <1>4 DEF Freed
<1>11. /\ r.dir[d] = NoPages
       /\ \A e \in AllDirs \ {d} : r.dir[e] = m.dir[e]
  BY <1>2, <1>5, <1>6, <1>10 DEF Mem, AllDirs
<1>12. m1.dir[d]["image"] = m.dir[d]["image"]
  BY <1>2, <1>3 DEF Freed
<1>13. LowerAddress(m, d, "kernel") = 0
  BY DEF LowerAddress
<1>14. LowerAddress(m1, d, "image") \in {0, m.dir[d]["image"]}
  BY <1>12 DEF LowerAddress
<1>15. \A f \in Frame : f # 0 /\ f # m.dir[d]["image"] => r.map[f] = m.map[f]
  BY <1>3, <1>4, <1>6, <1>13, <1>14 DEF Freed
<1> QED BY <1>6, <1>7, <1>8, <1>9, <1>11, <1>15 DEF Released

-----------------------------------------------------------------------------
(* Slots and directories are never exhausted before the frames are *)

\* The slots and the directories in use are finitely many.
LEMMA SetsFinite ==
    /\ IsFiniteSet(UsedSlots) /\ Cardinality(UsedSlots) \in Nat
    /\ IsFiniteSet(UsedDirs) /\ Cardinality(UsedDirs) \in Nat
<1>1. IsFiniteSet(Proc) /\ UsedSlots \in SUBSET Proc
  <2>1. IsFiniteSet(0 .. NProc - 1)
    BY ProcessAssumption, FS_Interval
  <2> QED BY <2>1 DEF Proc, UsedSlots
<1>2. IsFiniteSet(PageDir) /\ UsedDirs \in SUBSET PageDir
  <2>1. IsFiniteSet(1 .. NPageDir)
    BY PagingAssumption, FS_Interval
  <2> QED BY <2>1 DEF PageDir, UsedDirs
<1>3. IsFiniteSet(UsedSlots) /\ IsFiniteSet(UsedDirs)
  BY <1>1, <1>2, FS_Subset
<1> QED BY <1>3, FS_CardinalityType

\* There are no more slots in use than slots.
LEMMA SlotsCounted ==
    ASSUME TypeOK
    PROVE  /\ Cardinality(UsedSlots) <= NProc
           /\ (\E i \in Proc : ~ used[i]) \/ Cardinality(UsedSlots) = NProc
<1>1. IsFiniteSet(Proc) /\ Cardinality(Proc) = NProc
  <2>1. Cardinality(Proc) = NProc
    BY ProcessAssumption, FS_Interval DEF Proc
  <2>2. IsFiniteSet(0 .. NProc - 1)
    BY ProcessAssumption, FS_Interval
  <2> QED BY <2>1, <2>2 DEF Proc
<1>2. UsedSlots \in SUBSET Proc
  BY DEF UsedSlots
<1>3. Cardinality(UsedSlots) <= NProc
  BY <1>1, <1>2, FS_Subset
<1>4. CASE \A i \in Proc : used[i]
  <2>1. UsedSlots = Proc
    BY <1>4 DEF UsedSlots
  <2> QED BY <1>1, <2>1, <1>3
<1> QED BY <1>3, <1>4

\* The slot process_create_user_process takes is the first unused one.
LEMMA InactiveIndex ==
    ASSUME \E j \in Proc : ~ used[j],
           NEW i, i = process_list_get_inactive_index
    PROVE  i \in Proc /\ ~ used[i] /\ \A j \in Proc : ~ used[j] => i <= j
<1> DEFINE U == {j \in Proc : ~ used[j]}
<1>1. U # {} /\ U \subseteq Nat
  BY ProcessAssumption DEF Proc
<1>2. i = First(U)
  BY DEF process_list_get_inactive_index
<1>3. i \in U /\ \A j \in U : i <= j
  <2> HIDE DEF U
  <2> QED BY <1>1, <1>2, FirstIsLeast
<1> QED BY <1>3

\* While every process has had its two frames, there is a slot and a directory for
\* the next two, and the slot is not the last.
LEMMA FramesGoFirst ==
    ASSUME TypeOK, Budget, phase # "off", ~ short, mem.free >= 2
    PROVE  /\ \E j \in Proc : ~ used[j]
           /\ process_list_get_inactive_index + 1 < NProc
           /\ FreeDirs(mem) # {}
<1>1. /\ mem.free \in Nat
      /\ mem.free + 2 * Cardinality(UsedSlots) <= NFrame - 1
      /\ mem.free + Cardinality(UsedDirs) <= NFrame
      /\ NFrame \in Nat /\ NProc \in Nat /\ NFrame <= 2 * NProc
  <2>1. Owed \in {0, 1} /\ Zero(mem) \in {0, 1}
    BY DEF Owed, Zero
  <2>2. mem.free \in Nat
    BY DEF TypeOK, Mem
  <2>3. /\ mem.free + 2 * Cardinality(UsedSlots) + Owed <= NFrame - 1
        /\ mem.free + Cardinality(UsedDirs) + Zero(mem) <= NFrame
    BY DEF Budget
  <2> QED BY <2>1, <2>2, <2>3, SetsFinite, PagingAssumption, ProcessAssumption
<1>2. 2 * Cardinality(UsedSlots) + 2 <= 2 * NProc - 1
  BY <1>1, SetsFinite
<1>3. Cardinality(UsedSlots) + 1 < NProc
  BY <1>1, <1>2, SetsFinite
<1>4. \E j \in Proc : ~ used[j]
  BY <1>1, <1>3, SlotsCounted, SetsFinite
<1>5. process_list_get_inactive_index + 1 < NProc
  <2> DEFINE i == process_list_get_inactive_index
  <2> HIDE DEF i
  <2>1. i \in Proc /\ \A j \in Proc : ~ used[j] => i <= j
    BY <1>4, InactiveIndex DEF i
  <2>2. i \in Nat /\ 0 .. i - 1 \in SUBSET UsedSlots
    BY <2>1, ProcessAssumption DEF UsedSlots, Proc
  <2>3. Cardinality(0 .. i - 1) = i
    BY <2>2, FS_Interval
  <2>4. Cardinality(0 .. i - 1) <= Cardinality(UsedSlots)
    BY <2>2, SetsFinite, FS_Subset
  <2>5. i + 1 < NProc
    BY <1>1, <1>3, <2>2, <2>3, <2>4, SetsFinite
  <2> QED BY <2>5 DEF i
<1>6. FreeDirs(mem) # {}
  <2>1. SUFFICES ASSUME FreeDirs(mem) = {} PROVE FALSE
    OBVIOUS
  <2>2. UsedDirs = PageDir
    BY <2>1 DEF UsedDirs, FreeDirs
  <2>3. Cardinality(PageDir) = NPageDir
    BY PagingAssumption, FS_Interval DEF PageDir
  <2> QED BY <1>1, <2>2, <2>3, PagingAssumption
<1> QED BY <1>4, <1>5, <1>6

-----------------------------------------------------------------------------
(* Every step preserves the invariant *)

\* The creation of a process, as kernel_setup and exec call it.
LEMMA CreatePreserves ==
    ASSUME IInv, NEW ok \in BOOLEAN, active < NProc,
           \E j \in Proc : ~ used[j], FreeDirs(mem) # {},
           process_create_user_process(ok), UNCHANGED <<cur, nxt, strays>>,
           short' = IF mem.free < 2 THEN TRUE ELSE short,
           \/ phase = "setup" /\ phase' = "start" /\ mem.free >= 2
           \/ phase = "user" /\ phase' \in {"user", "down"}
    PROVE  IInv'
<1> DEFINE i == process_list_get_inactive_index
           d == First(FreeDirs(mem))
<1>1. /\ mem' = MapProcess(mem, d)
      /\ used' = [used EXCEPT ![i] = TRUE]
      /\ active' = active + 1
      /\ pcb' = [pcb EXCEPT ![i] = [pid |-> i, state |-> "READY",
                                    pd |-> IF ok THEN d ELSE pcb[i].pd]]
      /\ cr3' = IF ok THEN cr3 ELSE d
  BY DEF process_create_user_process
<1> HIDE DEF i, d
<1>2. /\ TypeOK /\ FreeCountExact /\ ActiveExact /\ Budget /\ SlotBound
      /\ ScanInBounds /\ PidIsSlot /\ UnusedBlank /\ OneRunning /\ QuietStart /\ CurAlive
      /\ DirsOwned /\ Cr3NotShared /\ MappedTaken /\ OnlyFrameZeroShared
      /\ phase # "off"
  BY DEF IInv
<1>3. /\ i \in Proc /\ ~ used[i]
      /\ ~ used[0] => i = 0
      /\ ~ short' => i + 1 < NProc /\ ~ short /\ mem.free >= 2
  <2>1. i \in Proc /\ ~ used[i] /\ \A j \in Proc : ~ used[j] => i <= j
    BY InactiveIndex DEF i
  <2>2. ~ used[0] => i = 0
    BY <2>1, ProcessAssumption DEF Proc
  <2>3. ~ short' => ~ short /\ mem.free >= 2
    BY <1>2 DEF TypeOK, Mem
  <2> QED BY <1>2, <2>1, <2>2, <2>3, FramesGoFirst DEF i
<1>4. mem \in Mem /\ Exact(mem)
  BY <1>2 DEF TypeOK, FreeCountExact, Exact
<1>5. \A p \in UserPage : mem.dir[d][p] = NoFrame
  <2>1. d \in PageDir /\ ~ mem.dirUsed[d]
    BY <1>4, NewDirEffect DEF d
  <2> QED BY <1>2, <2>1 DEF MappedTaken
<1>6. Fresh(mem, d, mem')
  BY <1>1, <1>4, <1>5, CreationIsFresh DEF d
<1>7. /\ d \in PageDir /\ ~ mem.dirUsed[d] /\ mem' \in Mem /\ Exact(mem')
      /\ mem.free >= 2 => mem'.free = mem.free - 2
      /\ mem'.dirUsed = [mem.dirUsed EXCEPT ![d] = TRUE]
  BY <1>6 DEF Fresh
<1>8. d # NULL /\ d # KernelDir /\ d \in Nat
  BY <1>7, PagingAssumption DEF PageDir, NULL, KernelDir
<1>9. TypeOK'
  <2>1. pcb' \in [Proc -> Pcb]
    BY <1>1, <1>2, <1>3, <1>7 DEF TypeOK, Pcb
  <2>2. used' \in [Proc -> BOOLEAN]
    BY <1>1, <1>2, <1>3 DEF TypeOK
  <2>4. active' \in 0 .. CountMod - 1
    BY <1>1, <1>2, ProcessAssumption DEF TypeOK
  <2>5. short' \in BOOLEAN
    BY <1>2 DEF TypeOK
  <2>3. cr3' \in {NULL} \cup PageDir \cup {KernelDir}
    BY <1>1, <1>2, <1>7 DEF TypeOK
  <2> QED BY <1>2, <1>7, <2>1, <2>2, <2>3, <2>4, <2>5 DEF TypeOK
<1>10. FreeCountExact'
  BY <1>7 DEF FreeCountExact, Exact
<1>11. ActiveExact'
  <2>1. UsedSlots' = UsedSlots \cup {i} /\ i \notin UsedSlots
    BY <1>1, <1>2, <1>3 DEF UsedSlots, TypeOK
  <2>2. Cardinality(UsedSlots') = Cardinality(UsedSlots) + 1
    BY <2>1, SetsFinite, FS_AddElement
  <2>3. active + strays \in {Cardinality(UsedSlots), Cardinality(UsedSlots) + CountMod}
    BY <1>2 DEF ActiveExact
  <2>4. active' = active + 1 /\ strays' = strays /\ active \in Nat /\ strays \in Nat
    BY <1>1, <1>2, ProcessAssumption DEF TypeOK
  <2>5. active' + strays' \in {Cardinality(UsedSlots'), Cardinality(UsedSlots') + CountMod}
    BY <2>2, <2>3, <2>4, SetsFinite, ProcessAssumption
  <2> QED BY <2>5 DEF ActiveExact
<1>12. Budget'
  <2>0. Cardinality(UsedSlots') = Cardinality(UsedSlots) + 1
    <3>1. UsedSlots' = UsedSlots \cup {i} /\ i \notin UsedSlots
      BY <1>1, <1>2, <1>3 DEF UsedSlots, TypeOK
    <3> QED BY <3>1, SetsFinite, FS_AddElement
  <2>1. UsedDirs' = UsedDirs \cup {d} /\ d \notin UsedDirs
    BY <1>4, <1>7 DEF UsedDirs, Mem
  <2>2. Cardinality(UsedDirs') = Cardinality(UsedDirs) + 1
    BY <2>1, SetsFinite, FS_AddElement
  <2>3. mem.free \in Nat /\ Zero(mem) \in {0, 1} /\ Zero(mem)' \in {0, 1} /\ Owed \in {0, 1}
    BY <1>2 DEF TypeOK, Mem, Zero, Owed
  <2>4. Owed' = 0
    <3>1. used'[0]
      BY <1>1, <1>2, <1>3, ProcessAssumption DEF TypeOK, Proc
    <3> QED BY <3>1 DEF Owed
  <2>5. phase' # "off"
    BY <1>2
  <2>6. ASSUME ~ short'
        PROVE  /\ mem'.free + 2 * Cardinality(UsedSlots') + Owed' <= NFrame - 1
               /\ mem'.free + Cardinality(UsedDirs') + Zero(mem)' <= NFrame
    <3>1. ~ short /\ mem.free >= 2 /\ mem'.free = mem.free - 2
      BY <1>3, <1>7, <2>6
    <3>2. /\ mem.free + 2 * Cardinality(UsedSlots) + Owed <= NFrame - 1
          /\ mem.free + Cardinality(UsedDirs) + Zero(mem) <= NFrame
      BY <1>2, <3>1 DEF Budget
    <3> QED BY <2>0, <2>2, <2>3, <2>4, <3>1, <3>2, SetsFinite, PagingAssumption
  <2> QED BY <2>5, <2>6 DEF Budget
<1>13. SlotBound' /\ ScanInBounds'
  BY <1>1, <1>2, <1>3 DEF SlotBound, ScanInBounds, TypeOK
<1>14. PidIsSlot' /\ UnusedBlank'
  BY <1>1, <1>2, <1>3 DEF PidIsSlot, UnusedBlank, TypeOK, Pcb
<1>15. OneRunning'
  BY <1>1, <1>2, <1>3 DEF OneRunning, TypeOK, Pcb
<1>16. QuietStart' /\ CurAlive'
  <2>1. CASE phase = "setup"
    <3>1. ~ short'
      BY <1>2, <2>1 DEF QuietStart, TypeOK, Mem
    <3> QED BY <1>1, <1>2, <1>3, <2>1, <3>1 DEF QuietStart, CurAlive, TypeOK, Pcb
  <2>2. CASE phase = "user"
    BY <1>1, <1>2, <1>3, <2>2 DEF QuietStart, CurAlive, TypeOK, Pcb
  <2> QED BY <2>1, <2>2
<1>17. \A j \in Proc : used[j] => j # i /\ used'[j] /\ pcb'[j] = pcb[j]
  BY <1>1, <1>2, <1>3 DEF TypeOK
<1>18. \A j \in Proc : used'[j] => used[j] \/ j = i
  BY <1>1, <1>2, <1>3 DEF TypeOK
<1>19. pcb'[i].pd \in {NULL, d}
  BY <1>1, <1>2, <1>3 DEF TypeOK, UnusedBlank
<1>20. \A e \in UsedDirs : e \in UsedDirs' /\ e # d
  BY <1>4, <1>7 DEF UsedDirs, Mem
<1>21. d \in UsedDirs'
  BY <1>4, <1>7 DEF UsedDirs, Mem
<1>22. \A j \in Proc : used[j] /\ pcb[j].pd # NULL => pcb[j].pd \in UsedDirs
  BY <1>2 DEF DirsOwned
<1>23. DirsOwned'
  <2>1. phase' = "user" => cr3' \in UsedDirs'
    BY <1>1, <1>2, <1>20, <1>21 DEF DirsOwned
  <2>2. \A j \in Proc : used'[j] /\ pcb'[j].pd # NULL => pcb'[j].pd \in UsedDirs'
    BY <1>17, <1>18, <1>19, <1>20, <1>21, <1>22
  <2>3. ASSUME NEW j \in Proc, NEW k \in Proc, used'[j], used'[k],
               pcb'[j].pd = pcb'[k].pd, pcb'[j].pd # NULL
        PROVE  j = k
    <3>1. CASE used[j] /\ used[k]
      BY <2>3, <3>1, <1>2, <1>17 DEF DirsOwned
    <3>2. CASE j = i /\ used[k]
      BY <2>3, <3>2, <1>17, <1>19, <1>20, <1>22
    <3>3. CASE used[j] /\ k = i
      BY <2>3, <3>3, <1>17, <1>19, <1>20, <1>22
    <3> QED BY <2>3, <1>18, <3>1, <3>2, <3>3
  <2> QED BY <2>1, <2>2, <2>3 DEF DirsOwned
<1>24. Cr3NotShared'
  <2>1. SUFFICES ASSUME phase' = "user", NEW j \in Proc, used'[j], j # cur
                 PROVE  pcb'[j].pd # cr3'
    BY DEF Cr3NotShared
  <2>2. phase = "user" /\ cr3 \in UsedDirs /\ cr3 # NULL
    BY <2>1, <1>2, PagingAssumption DEF DirsOwned, UsedDirs, PageDir, NULL
  <2>3. CASE used[j]
    BY <2>1, <2>2, <2>3, <1>1, <1>2, <1>8, <1>17, <1>20, <1>22 DEF Cr3NotShared
  <2>4. CASE j = i
    <3>1. CASE ok
      BY <2>2, <2>4, <3>1, <1>1, <1>19, <1>20
    <3>2. CASE ~ ok
      <4>1. pcb'[i].pd = NULL
        BY <3>2, <1>1, <1>2, <1>3 DEF UnusedBlank, TypeOK
      <4> QED BY <2>4, <3>2, <4>1, <1>1, <1>8
    <3> QED BY <3>1, <3>2
  <2> QED BY <2>1, <2>3, <2>4, <1>18
<1>25. /\ \A p \in UserPage :
            \/ mem'.dir[d][p] = NoFrame
            \/ /\ mem'.dir[d][p] \in Frame
               /\ ~ mem.map[mem'.dir[d][p]] /\ mem'.map[mem'.dir[d][p]]
       /\ mem'.dir[d]["image"] = mem'.dir[d]["stack"] => mem'.dir[d]["image"] = NoFrame
  BY <1>6 DEF Fresh
<1>26. /\ \A e \in PageDir \ {d} : mem'.dir[e] = mem.dir[e] /\ mem'.dirUsed[e] = mem.dirUsed[e]
       /\ mem'.dirUsed[d]
       /\ \A h \in Frame : mem.map[h] => mem'.map[h]
  BY <1>4, <1>6, <1>7 DEF Mem, Fresh
<1>27. \A e \in PageDir, p \in UserPage : mem.dir[e][p] \in Frame \cup {NoFrame}
  BY <1>4 DEF Mem
<1>28. MappedTaken'
  BY <1>2, <1>25, <1>26, <1>27 DEF MappedTaken, UserPage
<1>29. OnlyFrameZeroShared'
  BY <1>2, <1>25, <1>26, <1>27 DEF MappedTaken, OnlyFrameZeroShared, UserPage
<1> QED BY <1>9, <1>10, <1>11, <1>12, <1>13, <1>14, <1>15, <1>16, <1>23,
            <1>24, <1>28, <1>29 DEF IInv

\* A process list a switch may start from: the contexts it holds are those of
\* live processes, each with a directory of its own.
Switchable(p) ==
    /\ p \in [Proc -> Pcb]
    /\ \A i \in Proc : p[i].pid = pcb[i].pid /\ p[i].state = pcb[i].state
    /\ \A i \in Proc : ~ used[i] => p[i].pd = NULL
    /\ \A i \in Proc : used[i] /\ p[i].pd # NULL => p[i].pd \in UsedDirs
    /\ \A i, j \in Proc :
          used[i] /\ used[j] /\ p[i].pd = p[j].pd /\ p[i].pd # NULL => i = j

\* scheduler_switch_to_next_process preserves the invariant.
LEMMA SwitchPreserves ==
    ASSUME IInv, NEW p, Switchable(p), phase \in {"start", "user"},
           scheduler_switch_to_next_process(p)
    PROVE  IInv'
<1> DEFINE p1 == [p EXCEPT ![cur].state = "READY"]
           p2 == [p1 EXCEPT ![nxt].state = "RUNNING"]
<1>1. /\ TypeOK /\ FreeCountExact /\ ActiveExact /\ Budget /\ SlotBound
      /\ ScanInBounds /\ PidIsSlot /\ UnusedBlank /\ OneRunning /\ QuietStart /\ CurAlive
      /\ DirsOwned /\ Cr3NotShared /\ MappedTaken /\ OnlyFrameZeroShared
  BY DEF IInv
<1>2. /\ cur' = nxt
      /\ nxt' \in Proc /\ IsNextReady(nxt, p1, nxt')
      /\ pcb' = p2
      /\ cr3' = p2[nxt].pd
      /\ \/ phase' = IF cr3' = NULL THEN "down" ELSE "user"
         \/ nxt + 1 = NProc /\ phase' = "wild"
      /\ UNCHANGED <<mem, used, active, short, strays>>
  BY DEF scheduler_switch_to_next_process, history
<1>3. cur \in Proc /\ nxt \in Proc /\ p \in [Proc -> Pcb]
  BY <1>1 DEF TypeOK, Switchable
<1>4. p2 \in [Proc -> Pcb]
  <2>1. p1 \in [Proc -> Pcb]
    BY <1>3 DEF Pcb
  <2> QED BY <1>3, <2>1 DEF Pcb
<1>5. \A i \in Proc :
        /\ pcb'[i].pid = pcb[i].pid
        /\ pcb'[i].pd = p[i].pd
        /\ pcb'[i].state = IF i = nxt THEN "RUNNING"
                           ELSE IF i = cur THEN "READY" ELSE pcb[i].state
  BY <1>2, <1>3 DEF Pcb, Switchable
<1>6. cr3' = p[nxt].pd
  BY <1>2, <1>3, <1>5
<1>7. phase' \in {"user", "down", "wild"} /\ (phase' = "user" => p[nxt].pd # NULL)
  BY <1>2, <1>6
<1>8. phase' = "user" => used[nxt]
  BY <1>3, <1>7 DEF Switchable
<1>9. TypeOK'
  <2>1. pcb' \in [Proc -> Pcb]
    BY <1>2, <1>4
  <2>2. cr3' \in {NULL} \cup PageDir \cup {KernelDir}
    BY <1>3, <1>6 DEF Pcb
  <2> HIDE DEF p1, p2
  <2> QED BY <1>1, <1>2, <1>3, <1>7, <2>1, <2>2 DEF TypeOK
<1>10. FreeCountExact' /\ ActiveExact' /\ SlotBound' /\ MappedTaken' /\ OnlyFrameZeroShared'
  BY <1>1, <1>2 DEF FreeCountExact, ActiveExact, UsedSlots, SlotBound, MappedTaken,
                    OnlyFrameZeroShared
<1>11. Budget'
  <2>1. Owed' <= Owed /\ Owed \in {0, 1} /\ Owed' \in {0, 1}
    <3>1. CASE phase = "start"
      <4>1. nxt = 0
        BY <1>1, <3>1 DEF CurAlive
      <4> QED BY <1>2, <1>8, <4>1 DEF Owed, Zero
    <3>2. CASE phase = "user"
      BY <1>2, <3>2 DEF Owed, Zero
    <3> QED BY <3>1, <3>2
  <2>2. phase # "off" /\ phase' # "off"
    BY <1>7
  <2>3. mem.free \in Nat
    BY <1>1 DEF TypeOK, Mem
  <2>4. UsedSlots' = UsedSlots /\ UsedDirs' = UsedDirs /\ mem' = mem /\ short' = short
    BY <1>2 DEF UsedSlots, UsedDirs
  <2>5. Zero(mem)' = Zero(mem)
    BY <2>4 DEF Zero
  <2>6. ASSUME ~ short
        PROVE  /\ mem.free + 2 * Cardinality(UsedSlots) + Owed' <= NFrame - 1
               /\ mem.free + Cardinality(UsedDirs) + Zero(mem) <= NFrame
    <3>1. /\ mem.free + 2 * Cardinality(UsedSlots) + Owed <= NFrame - 1
          /\ mem.free + Cardinality(UsedDirs) + Zero(mem) <= NFrame
      BY <1>1, <2>2, <2>6 DEF Budget
    <3> QED BY <2>1, <2>3, <3>1, SetsFinite, PagingAssumption
  <2> QED BY <2>2, <2>4, <2>5, <2>6 DEF Budget
<1>12. ScanInBounds'
  <2>1. nxt' = nxt \/ used[nxt']
    BY <1>2 DEF IsNextReady, Ready
  <2> QED BY <2>1, <1>1, <1>2 DEF ScanInBounds, SlotBound
<1>13. PidIsSlot' /\ UnusedBlank'
  BY <1>1, <1>2, <1>5 DEF PidIsSlot, UnusedBlank, Switchable
<1>14. QuietStart' /\ CurAlive'
  BY <1>2, <1>3, <1>5, <1>7, <1>8 DEF QuietStart, CurAlive
<1>15. OneRunning'
  <2>1. SUFFICES ASSUME phase' = "user"
                 PROVE  {j \in Proc : used'[j] /\ pcb'[j].state = "RUNNING"} = {cur'}
    BY DEF OneRunning
  <2>2. \A j \in Proc : used[j] /\ pcb[j].state = "RUNNING" => j = cur
    BY <1>1 DEF OneRunning, QuietStart
  <2>3. \A j \in Proc : used[j] /\ pcb'[j].state = "RUNNING" => j = nxt
    BY <1>5, <2>2
  <2>4. used[nxt] /\ pcb'[nxt].state = "RUNNING"
    BY <1>3, <1>5, <1>8, <2>1
  <2>5. cur' = nxt /\ used' = used
    BY <1>2
  <2> QED BY <1>3, <2>3, <2>4, <2>5
<1>16. DirsOwned'
  BY <1>2, <1>3, <1>5, <1>6, <1>7, <1>8 DEF DirsOwned, Switchable, UsedDirs
<1>17. Cr3NotShared'
  BY <1>2, <1>3, <1>5, <1>6, <1>7, <1>8 DEF Cr3NotShared, Switchable
<1> QED BY <1>9, <1>10, <1>11, <1>12, <1>13, <1>14, <1>15, <1>16, <1>17 DEF IInv

\* timer_isr saves the context to the current process, then switches.
LEMMA TickPreserves ==
    ASSUME IInv, Tick
    PROVE  IInv'
<1>1. /\ TypeOK /\ OneRunning /\ UnusedBlank /\ DirsOwned /\ Cr3NotShared
      /\ phase = "user"
  BY DEF IInv, Tick
<1> DEFINE R == {j \in Proc : used[j] /\ pcb[j].state = "RUNNING"}
<1>2. R = {cur} /\ cur \in Proc /\ used[cur]
  BY <1>1 DEF OneRunning, TypeOK
<1>3. First(R) = cur
  <2>1. R \subseteq Nat /\ R # {}
    BY <1>2, ProcessAssumption DEF Proc
  <2> HIDE DEF R
  <2>2. First(R) \in R
    BY <2>1, FirstIsLeast
  <2> QED BY <1>2, <2>2
<1>4. scheduler_switch_to_next_process([pcb EXCEPT ![cur].pd = cr3])
  BY <1>3 DEF Tick
<1>5. Switchable([pcb EXCEPT ![cur].pd = cr3])
  <2> DEFINE p == [pcb EXCEPT ![cur].pd = cr3]
  <2>1. p \in [Proc -> Pcb]
    BY <1>1, <1>2 DEF TypeOK, Pcb
  <2>2. \A i \in Proc : /\ p[i].pid = pcb[i].pid /\ p[i].state = pcb[i].state
                        /\ p[i].pd = IF i = cur THEN cr3 ELSE pcb[i].pd
    BY <1>1, <1>2 DEF TypeOK, Pcb
  <2> HIDE DEF p
  <2>3. Switchable(p)
    BY <1>1, <1>2, <2>1, <2>2 DEF Switchable, UnusedBlank, DirsOwned, Cr3NotShared
  <2> QED BY <2>3 DEF p
<1> QED BY <1>1, <1>4, <1>5, SwitchPreserves

\* A kill takes its process out of the table and its directory out of use, and
\* what it sets free nobody else had, frame 0 excepted.
LEMMA KillPreserves ==
    ASSUME IInv, NEW k \in Proc, Kill(k)
    PROVE  IInv'
<1>1. /\ TypeOK /\ FreeCountExact /\ ActiveExact /\ Budget /\ SlotBound
      /\ ScanInBounds /\ PidIsSlot /\ UnusedBlank /\ OneRunning /\ QuietStart /\ CurAlive
      /\ DirsOwned /\ Cr3NotShared /\ MappedTaken /\ OnlyFrameZeroShared
      /\ phase = "user" /\ pcb[k].pd # NULL
  BY DEF IInv, Kill
<1>2. used[k] /\ pcb[k].pid = k
  BY <1>1 DEF UnusedBlank, PidIsSlot, TypeOK
<1>3. First(Slots(k)) = k
  <2>1. k \in Slots(k) /\ Slots(k) \subseteq Nat /\ k \in Nat
    BY <1>2, ProcessAssumption DEF Slots, Proc
  <2>2. First(Slots(k)) \in Slots(k) /\ First(Slots(k)) <= k
    BY <2>1, FirstIsLeast
  <2>3. \A i \in Slots(k) : i = k \/ (k = 0 /\ i >= 0)
    BY <1>1, ProcessAssumption DEF Slots, PidIsSlot, Proc, TypeOK
  <2> QED BY <2>1, <2>2, <2>3
<1> DEFINE d == pcb[k].pd
<1>4. /\ active' = Decrement(active)
      /\ used' = [used EXCEPT ![k] = FALSE]
      /\ mem' = paging_free_page_directory(ReleaseFrames(mem, d), d)
      /\ pcb' = [pcb EXCEPT ![k] = ZeroPcb]
      /\ cr3' = cr3 /\ cur' = cur /\ nxt' = nxt /\ short' = short /\ strays' = strays
      /\ phase' = IF k # cur THEN phase ELSE IF d = cr3 THEN "down" ELSE "wild"
  BY <1>3 DEF Kill, process_destroy, history
<1>5. d \in UsedDirs /\ d \in PageDir /\ mem.dirUsed[d]
  BY <1>1, <1>2 DEF DirsOwned, UsedDirs
<1> HIDE DEF d
<1>6. mem \in Mem /\ Exact(mem)
  BY <1>1 DEF TypeOK, FreeCountExact, Exact
<1>7. Released(mem, d, mem')
  BY <1>4, <1>5, <1>6, ReleaseEffect
<1>8. /\ mem' \in Mem /\ Exact(mem')
      /\ mem.free <= mem'.free /\ mem'.free <= mem.free + Zero(mem) + 1
      /\ ~ mem'.map[0]
      /\ mem'.dirUsed = [mem.dirUsed EXCEPT ![d] = FALSE]
      /\ mem'.dir[d] = NoPages
      /\ \A e \in AllDirs \ {d} : mem'.dir[e] = mem.dir[e]
      /\ \A f \in Frame : f # 0 /\ f # mem.dir[d]["image"] => mem'.map[f] = mem.map[f]
  BY <1>7 DEF Released
<1>9. phase' \in {"user", "down", "wild"} /\ (phase' = "user" => k # cur)
  BY <1>1, <1>4
<1>10. \A j \in Proc : IF j = k THEN ~ used'[j] /\ pcb'[j] = ZeroPcb
                       ELSE used'[j] = used[j] /\ pcb'[j] = pcb[j]
  BY <1>1, <1>4 DEF TypeOK
<1>11. UsedSlots' = UsedSlots \ {k} /\ k \in UsedSlots
  BY <1>2, <1>10 DEF UsedSlots
<1>12. Cardinality(UsedSlots') = Cardinality(UsedSlots) - 1
  BY <1>11, SetsFinite, FS_RemoveElement
<1>13. UsedDirs' = UsedDirs \ {d}
  BY <1>5, <1>6, <1>8 DEF UsedDirs, Mem
<1>14. Cardinality(UsedDirs') = Cardinality(UsedDirs) - 1
  BY <1>5, <1>13, SetsFinite, FS_RemoveElement
<1>15. ActiveExact'
  <2>1. /\ active \in Nat /\ strays \in 0 .. CountMod - 1
        /\ active' = (IF active = 0 THEN CountMod - 1 ELSE active - 1)
    BY <1>1, <1>4, ProcessAssumption DEF TypeOK, Decrement
  <2>2. active + strays \in {Cardinality(UsedSlots), Cardinality(UsedSlots) + CountMod}
    BY <1>1 DEF ActiveExact
  <2>3. active' + strays \in {Cardinality(UsedSlots) - 1, Cardinality(UsedSlots) - 1 + CountMod}
    BY <2>1, <2>2, SetsFinite, ProcessAssumption
  <2> QED BY <1>4, <1>12, <2>3 DEF ActiveExact
<1>16. active' \in 0 .. CountMod - 1
  BY <1>1, <1>4, ProcessAssumption DEF TypeOK, Decrement
<1>17. TypeOK'
  <2>1. ZeroPcb \in Pcb
    BY ProcessAssumption DEF ZeroPcb, Pcb, Proc
  <2>2. pcb' \in [Proc -> Pcb] /\ used' \in [Proc -> BOOLEAN]
    BY <1>1, <1>4, <2>1 DEF TypeOK
  <2> QED BY <1>1, <1>4, <1>8, <1>9, <1>16, <2>2 DEF TypeOK
<1>18. FreeCountExact'
  BY <1>8 DEF FreeCountExact, Exact
<1>19. Budget'
  <2>1. /\ mem.free \in Nat /\ mem'.free \in Nat
        /\ Zero(mem) \in {0, 1} /\ Owed \in {0, 1}
    BY <1>1, <1>6, <1>8 DEF TypeOK, Mem, Zero, Owed
  <2>2. Zero(mem)' = 0 /\ Owed' = 0
    BY <1>8 DEF Zero, Owed
  <2>3. ASSUME ~ short
        PROVE  /\ mem'.free + 2 * Cardinality(UsedSlots') + Owed' <= NFrame - 1
               /\ mem'.free + Cardinality(UsedDirs') + Zero(mem)' <= NFrame
    <3>1. /\ mem.free + 2 * Cardinality(UsedSlots) + Owed <= NFrame - 1
          /\ mem.free + Cardinality(UsedDirs) + Zero(mem) <= NFrame
      BY <1>1, <2>3 DEF Budget
    <3>2. mem'.free <= mem.free + Zero(mem) + 1
      BY <1>8
    <3> QED BY <1>12, <1>14, <2>1, <2>2, <3>1, <3>2, SetsFinite, PagingAssumption
  <2>4. phase' # "off" /\ short' = short
    BY <1>4, <1>9
  <2> QED BY <2>3, <2>4 DEF Budget
<1>20. SlotBound' /\ ScanInBounds'
  BY <1>1, <1>4, <1>10 DEF SlotBound, ScanInBounds
<1>21. PidIsSlot' /\ UnusedBlank'
  BY <1>1, <1>10 DEF PidIsSlot, UnusedBlank, ZeroPcb
<1>22. QuietStart' /\ CurAlive'
  BY <1>1, <1>4, <1>9, <1>10 DEF QuietStart, CurAlive, TypeOK
<1>23. OneRunning'
  BY <1>1, <1>4, <1>9, <1>10 DEF OneRunning
<1>24. \A e \in UsedDirs : e # d => e \in UsedDirs'
  BY <1>13
<1>25. DirsOwned'
  <2>1. \A j \in Proc : used[j] /\ j # k => pcb[j].pd # d
    BY <1>1, <1>2 DEF DirsOwned, d
  <2>2. \A j \in Proc : used'[j] => j # k /\ used[j] /\ pcb'[j] = pcb[j]
    BY <1>10
  <2>3. phase' = "user" => cr3' \in UsedDirs'
    BY <1>1, <1>2, <1>4, <1>9, <1>24 DEF DirsOwned, Cr3NotShared, d
  <2>4. \A j \in Proc : used'[j] /\ pcb'[j].pd # NULL => pcb'[j].pd \in UsedDirs'
    BY <1>1, <1>24, <2>1, <2>2 DEF DirsOwned
  <2>5. \A i, j \in Proc : used'[i] /\ used'[j] /\ pcb'[i].pd = pcb'[j].pd
                             /\ pcb'[i].pd # NULL => i = j
    BY <1>1, <2>2 DEF DirsOwned
  <2> QED BY <2>3, <2>4, <2>5 DEF DirsOwned
<1>26. Cr3NotShared'
  BY <1>1, <1>4, <1>9, <1>10 DEF Cr3NotShared
<1>27. \A e \in PageDir, p \in UserPage :
         /\ mem.dir[e][p] \in Frame \cup {NoFrame}
         /\ e # d => mem'.dir[e][p] = mem.dir[e][p] /\ mem'.dirUsed[e] = mem.dirUsed[e]
         /\ e = d => mem'.dir[e][p] = NoFrame
  <2>1. \A e \in PageDir, p \in UserPage : mem.dir[e][p] \in Frame \cup {NoFrame}
    BY <1>6 DEF Mem
  <2>2. \A e \in PageDir : e # d => mem'.dir[e] = mem.dir[e]
    BY <1>8 DEF AllDirs
  <2>3. \A e \in PageDir : e # d => mem'.dirUsed[e] = mem.dirUsed[e]
    BY <1>6, <1>8 DEF Mem
  <2>4. \A p \in UserPage : mem'.dir[d][p] = NoFrame
    BY <1>8 DEF NoPages
  <2> QED BY <2>1, <2>2, <2>3, <2>4
<1>28. MappedTaken'
  <2>1. SUFFICES ASSUME NEW e \in PageDir, NEW p \in UserPage
                 PROVE  /\ mem'.dir[e][p] \notin {0, NoFrame} => mem'.map[mem'.dir[e][p]]
                        /\ ~ mem'.dirUsed[e] => mem'.dir[e][p] = NoFrame
    BY DEF MappedTaken
  <2>2. CASE e = d
    BY <2>2, <1>27
  <2>3. CASE e # d
    <3>1. ~ mem'.dirUsed[e] => mem'.dir[e][p] = NoFrame
      BY <2>3, <1>1, <1>27 DEF MappedTaken
    <3>2. ASSUME mem'.dir[e][p] \notin {0, NoFrame} PROVE mem'.map[mem'.dir[e][p]]
      <4>1. mem'.dir[e][p] = mem.dir[e][p] /\ mem.dir[e][p] \in Frame
            /\ mem.dir[e][p] # 0 /\ mem.dir[e][p] # NoFrame
        BY <2>3, <3>2, <1>27
      <4>2. mem.dirUsed[e] /\ mem.map[mem.dir[e][p]]
        BY <4>1, <1>1 DEF MappedTaken
      <4>3. mem.dir[e][p] # mem.dir[d]["image"]
        BY <2>3, <4>1, <4>2, <1>1, <1>5 DEF OnlyFrameZeroShared, UserPage
      <4> QED BY <4>1, <4>2, <4>3, <1>8
    <3> QED BY <3>1, <3>2
  <2> QED BY <2>2, <2>3
<1>29. OnlyFrameZeroShared'
  BY <1>1, <1>27 DEF OnlyFrameZeroShared
<1> QED BY <1>15, <1>17, <1>18, <1>19, <1>20, <1>21, <1>22, <1>23, <1>25, <1>26,
            <1>28, <1>29 DEF IInv

\* kernel_setup has taken the kernel's frame, and nothing else.
LEMMA SetupMemoryPreserves ==
    ASSUME IInv, SetupMemory
    PROVE  IInv'
<1>1. /\ TypeOK /\ FreeCountExact /\ ActiveExact /\ Budget /\ SlotBound
      /\ ScanInBounds /\ PidIsSlot /\ UnusedBlank /\ OneRunning /\ QuietStart /\ CurAlive
      /\ DirsOwned /\ Cr3NotShared /\ MappedTaken /\ OnlyFrameZeroShared
      /\ phase = "off" /\ phase' = "setup" /\ mem = BlankMem
      /\ used = [i \in Proc |-> FALSE]
      /\ mem' = paging_allocate_user_page_frame(mem, KernelDir, "image")
      /\ UNCHANGED <<used, active, pcb, cr3, cur, nxt, short, strays>>
  BY DEF IInv, SetupMemory, Budget, history
<1>2. mem \in Mem /\ Exact(mem) /\ mem.free = NFrame
  BY <1>1 DEF TypeOK, FreeCountExact, Exact, BlankMem
<1>3. KernelDir \in AllDirs /\ "image" \in UserPage /\ mem.free > 0
  BY <1>2, PagingAssumption DEF AllDirs, UserPage
<1>4. Allocated(mem, KernelDir, "image", mem')
  BY <1>1, <1>2, <1>3, AllocateExact
<1>5. /\ mem' \in Mem /\ Exact(mem')
      /\ mem'.free = NFrame - 1 /\ mem'.dirUsed = mem.dirUsed
  BY <1>2, <1>4 DEF Allocated
<1>6. PICK f \in Frame :
         /\ ~ mem.map[f]
         /\ mem'.map = [mem.map EXCEPT ![f] = TRUE]
         /\ mem'.dir = [mem.dir EXCEPT ![KernelDir] =
                            [mem.dir[KernelDir] EXCEPT !["image"] = f]]
  BY <1>4 DEF Allocated
<1>7. \A d \in PageDir : mem'.dir[d] = mem.dir[d] /\ d # KernelDir
  BY <1>2, <1>6, PagingAssumption DEF Mem, PageDir, KernelDir
<1>8. \A d \in PageDir, p \in UserPage : mem'.dir[d][p] = NoFrame /\ ~ mem'.dirUsed[d]
  <2>1. /\ mem.dir = [d \in PageDir \cup {KernelDir} |-> NoPages]
        /\ mem.dirUsed = [d \in PageDir |-> FALSE]
    BY <1>1 DEF BlankMem
  <2>2. \A d \in PageDir : mem'.dir[d] = NoPages
    BY <1>7, <2>1
  <2>3. \A d \in PageDir : ~ mem'.dirUsed[d]
    BY <1>5, <2>1
  <2> QED BY <2>2, <2>3 DEF NoPages
<1>9. MappedTaken' /\ OnlyFrameZeroShared'
  BY <1>8 DEF MappedTaken, OnlyFrameZeroShared
<1>10. UsedDirs = {} /\ UsedDirs' = {}
  BY <1>1, <1>8, PagingAssumption DEF UsedDirs, BlankMem, UserPage
<1>11. Budget'
  <2>1. Cardinality(UsedDirs') = 0
    BY <1>10, FS_EmptySet
  <2>2. UsedSlots' = {}
    BY <1>1 DEF UsedSlots
  <2>3. Cardinality(UsedSlots') = 0
    BY <2>2, FS_EmptySet
  <2>4. Owed' = 0 /\ Zero(mem)' \in {0, 1}
    BY <1>1 DEF Owed, Zero
  <2>5. /\ mem'.free + 2 * Cardinality(UsedSlots') + Owed' <= NFrame - 1
        /\ mem'.free + Cardinality(UsedDirs') + Zero(mem)' <= NFrame
    BY <1>5, <2>1, <2>3, <2>4, PagingAssumption
  <2> QED BY <1>1, <2>5 DEF Budget
<1>12. TypeOK'
  BY <1>1, <1>5 DEF TypeOK
<1>13. FreeCountExact'
  BY <1>5 DEF FreeCountExact, Exact
<1>14. /\ ActiveExact' /\ SlotBound' /\ ScanInBounds' /\ PidIsSlot' /\ UnusedBlank'
       /\ OneRunning' /\ QuietStart' /\ CurAlive' /\ Cr3NotShared'
  BY <1>1 DEF ActiveExact, UsedSlots, SlotBound, ScanInBounds, PidIsSlot, UnusedBlank,
              OneRunning, QuietStart, CurAlive, Cr3NotShared
<1>15. DirsOwned'
  BY <1>1, <1>10 DEF DirsOwned
<1> QED BY <1>9, <1>11, <1>12, <1>13, <1>14, <1>15 DEF IInv

\* A creation that passes its checks has the frames it asks for.
LEMMA CreateCodeFrames ==
    ASSUME TypeOK, NEW n \in Nat, NEW high \in BOOLEAN,
           CreateCode(n, high) = 0
    PROVE  mem.free >= n /\ active < NProc
<1>1. mem.free \in Nat /\ active \in Nat /\ NProc \in Nat
  BY ProcessAssumption DEF TypeOK, Mem
<1> QED BY <1>1 DEF CreateCode, paging_allocate_check

\* The kill of a slot without a context takes it out of the table and leaves the
\* address spaces alone, frame 0 excepted.
LEMMA KillContextlessPreserves ==
    ASSUME IInv, NEW k \in Proc, KillContextless(k)
    PROVE  IInv'
<1>1. /\ TypeOK /\ FreeCountExact /\ ActiveExact /\ Budget /\ SlotBound
      /\ ScanInBounds /\ PidIsSlot /\ UnusedBlank /\ OneRunning /\ QuietStart /\ CurAlive
      /\ DirsOwned /\ Cr3NotShared /\ MappedTaken /\ OnlyFrameZeroShared
      /\ phase = "user" /\ pcb[k].pd = NULL /\ Slots(k) # {}
  BY DEF IInv, KillContextless
<1>2. k # cur /\ cur \in Proc
  BY <1>1 DEF CurAlive, TypeOK
<1>3. First(Slots(k)) = k /\ (~ used[k] => k = 0)
  <2>1. 0 \in Proc /\ Slots(k) \subseteq Nat /\ k \in Nat
    BY ProcessAssumption DEF Slots, Proc
  <2>2. \A i \in Slots(k) : i = k \/ k = 0
    BY <1>1 DEF Slots, PidIsSlot
  <2>3. k = 0 => k \in Slots(k)
    BY <1>1, <2>1 DEF Slots, PidIsSlot
  <2>4. First(Slots(k)) \in Slots(k) /\ \A y \in Slots(k) : First(Slots(k)) <= y
    BY <1>1, <2>1, FirstIsLeast
  <2>5. First(Slots(k)) = k
    BY <2>1, <2>2, <2>3, <2>4
  <2>6. pcb[k].pid = k
    BY <2>4, <2>5 DEF Slots
  <2> QED BY <1>1, <2>5, <2>6 DEF PidIsSlot
<1>4. /\ active' = Decrement(active)
      /\ used' = [used EXCEPT ![k] = FALSE]
      /\ pcb' = [pcb EXCEPT ![k] = ZeroPcb]
      /\ strays' = IF used[k] THEN strays ELSE OneMore(strays)
      /\ mem' \in {mem, FreeFrameZero(mem)}
      /\ phase' \in {"user", "wild"}
      /\ cr3' = cr3 /\ cur' = cur /\ nxt' = nxt /\ short' = short
  BY <1>3 DEF KillContextless
<1>5. mem \in Mem /\ Exact(mem) /\ 0 \in Frame
  BY <1>1, PagingAssumption DEF TypeOK, FreeCountExact, Exact, Frame
<1>6. /\ mem' \in Mem /\ Exact(mem')
      /\ mem'.free + Zero(mem') = mem.free + Zero(mem)
      /\ mem'.dirUsed = mem.dirUsed /\ mem'.dir = mem.dir
      /\ \A f \in Frame : f # 0 => mem'.map[f] = mem.map[f]
      /\ mem' = mem \/ ~ mem'.map[0]
  <2>1. CASE mem' = mem
    BY <2>1, <1>5
  <2>2. CASE mem' # mem
    <3>1. /\ mem.map[0]
          /\ mem' = [mem EXCEPT !.map[0] = FALSE, !.free = @ + 1]
      BY <1>4, <2>2 DEF FreeFrameZero
    <3>2. mem' = [map |-> [mem.map EXCEPT ![0] = FALSE], free |-> mem.free + 1,
                  dirUsed |-> mem.dirUsed, dir |-> mem.dir]
      BY <1>5, <3>1 DEF Mem
    <3>3. mem' \in Mem
      BY <1>5, <3>2 DEF Mem
    <3>4. Exact(mem')
      <4>1. mem'.map = [mem.map EXCEPT ![0] = FALSE] /\ mem'.free = mem.free + 1
        BY <3>2
      <4>2. Cardinality(FreeFrames(mem')) = Cardinality(FreeFrames(mem)) + 1
        BY <1>5, <3>1, <3>3, <4>1, CountUnmarked
      <4> QED BY <1>5, <4>1, <4>2 DEF Exact
    <3>5. ~ mem'.map[0] /\ mem'.free = mem.free + 1
          /\ \A f \in Frame : f # 0 => mem'.map[f] = mem.map[f]
      BY <1>5, <3>2 DEF Mem
    <3>6. mem'.free + Zero(mem') = mem.free + Zero(mem)
      BY <1>5, <3>1, <3>5 DEF Zero, Mem
    <3> QED BY <3>2, <3>3, <3>4, <3>5, <3>6
  <2> QED BY <2>1, <2>2
<1>7. \A j \in Proc : IF j = k THEN ~ used'[j] /\ pcb'[j] = ZeroPcb
                      ELSE used'[j] = used[j] /\ pcb'[j] = pcb[j]
  BY <1>1, <1>4 DEF TypeOK
<1>8. UsedDirs' = UsedDirs
  BY <1>6 DEF UsedDirs
<1>9. /\ used[k] => Cardinality(UsedSlots') = Cardinality(UsedSlots) - 1
      /\ ~ used[k] => UsedSlots' = UsedSlots
  <2>1. UsedSlots' = UsedSlots \ {k}
    BY <1>7 DEF UsedSlots
  <2>2. CASE used[k]
    <3>1. k \in UsedSlots
      BY <2>2 DEF UsedSlots
    <3> QED BY <2>1, <2>2, <3>1, SetsFinite, FS_RemoveElement
  <2>3. CASE ~ used[k]
    BY <2>1, <2>3 DEF UsedSlots
  <2> QED BY <2>2, <2>3
<1>10. ActiveExact' /\ active' \in 0 .. CountMod - 1 /\ strays' \in 0 .. CountMod - 1
  <2> DEFINE n == Cardinality(UsedSlots)
  <2> HIDE DEF n
  <2>1. /\ active \in 0 .. CountMod - 1 /\ strays \in 0 .. CountMod - 1
        /\ active' = (IF active = 0 THEN CountMod - 1 ELSE active - 1)
    BY <1>1, <1>4 DEF TypeOK, Decrement
  <2>2. active + strays \in {n, n + CountMod} /\ n \in Nat /\ n <= NProc
    BY <1>1, SetsFinite, SlotsCounted DEF ActiveExact, n
  <2>3. CASE used[k]
    <3>1. strays' = strays /\ Cardinality(UsedSlots') = n - 1
      BY <1>4, <1>9, <2>3 DEF n
    <3>2. active' + strays' \in {n - 1, n - 1 + CountMod}
      BY <2>1, <2>2, <3>1, <2>3, ProcessAssumption
    <3>3. ActiveExact'
      BY <3>1, <3>2 DEF ActiveExact
    <3> QED BY <2>1, <3>1, <3>3, ProcessAssumption
  <2>4. CASE ~ used[k]
    <3>1. strays' = (IF strays = CountMod - 1 THEN 0 ELSE strays + 1)
      BY <1>4, <2>4 DEF OneMore
    <3>2. Cardinality(UsedSlots') = n
      BY <1>9, <2>4 DEF n
    <3>3. active' + strays' \in {n, n + CountMod}
      BY <2>1, <2>2, <3>1, ProcessAssumption
    <3>4. ActiveExact'
      BY <3>2, <3>3 DEF ActiveExact
    <3> QED BY <2>1, <3>1, <3>4, ProcessAssumption
  <2> QED BY <2>3, <2>4
<1>11. Budget'
  <2>1. /\ mem.free \in Nat /\ mem'.free \in Nat
        /\ Zero(mem) \in {0, 1} /\ Zero(mem') \in {0, 1}
        /\ Owed \in {0, 1} /\ Owed' \in {0, 1}
        /\ Owed' <= Zero(mem')
    BY <1>5, <1>6 DEF Mem, Zero, Owed
  <2>2. ~ used[k] => Owed = Zero(mem)
    BY <1>1, <1>3 DEF Owed
  <2>3. ASSUME ~ short
        PROVE  /\ mem'.free + 2 * Cardinality(UsedSlots') + Owed' <= NFrame - 1
               /\ mem'.free + Cardinality(UsedDirs') + Zero(mem') <= NFrame
    <3>1. /\ mem.free + 2 * Cardinality(UsedSlots) + Owed <= NFrame - 1
          /\ mem.free + Cardinality(UsedDirs) + Zero(mem) <= NFrame
      BY <1>1, <2>3 DEF Budget
    <3>2. mem'.free + Zero(mem') = mem.free + Zero(mem)
      BY <1>6
    <3>3. mem'.free + Cardinality(UsedDirs') + Zero(mem') <= NFrame
      BY <1>8, <2>1, <3>1, <3>2, SetsFinite, PagingAssumption
    <3>4. CASE used[k]
      BY <1>9, <2>1, <3>1, <3>2, <3>3, <3>4, SetsFinite, PagingAssumption
    <3>5. CASE ~ used[k]
      <4>1. Owed = Zero(mem) /\ Cardinality(UsedSlots') = Cardinality(UsedSlots)
        BY <1>9, <2>2, <3>5
      <4> QED BY <2>1, <3>1, <3>2, <3>3, <4>1, SetsFinite, PagingAssumption
    <3> QED BY <3>4, <3>5
  <2>4. phase' # "off" /\ short' = short
    BY <1>4
  <2> QED BY <2>3, <2>4 DEF Budget
<1>12. TypeOK'
  <2>1. ZeroPcb \in Pcb
    BY ProcessAssumption DEF ZeroPcb, Pcb, Proc
  <2>2. pcb' \in [Proc -> Pcb] /\ used' \in [Proc -> BOOLEAN]
    BY <1>1, <1>4, <2>1 DEF TypeOK
  <2> QED BY <1>1, <1>4, <1>6, <1>10, <2>2 DEF TypeOK
<1>13. FreeCountExact'
  BY <1>6 DEF FreeCountExact, Exact
<1>14. SlotBound' /\ ScanInBounds'
  BY <1>1, <1>4, <1>7 DEF SlotBound, ScanInBounds
<1>15. PidIsSlot' /\ UnusedBlank'
  BY <1>1, <1>7 DEF PidIsSlot, UnusedBlank, ZeroPcb
<1>16. QuietStart' /\ CurAlive'
  BY <1>1, <1>2, <1>4, <1>7 DEF QuietStart, CurAlive
<1>17. OneRunning' /\ Cr3NotShared'
  BY <1>1, <1>2, <1>4, <1>7 DEF OneRunning, Cr3NotShared
<1>18. DirsOwned'
  BY <1>1, <1>4, <1>7, <1>8 DEF DirsOwned
<1>19. MappedTaken' /\ OnlyFrameZeroShared'
  <2>1. \A e \in PageDir, p \in UserPage : mem.dir[e][p] \in Frame \cup {NoFrame}
    BY <1>5 DEF Mem
  <2> QED BY <1>1, <1>6, <2>1 DEF MappedTaken, OnlyFrameZeroShared
<1> QED BY <1>10, <1>11, <1>12, <1>13, <1>14, <1>15, <1>16, <1>17, <1>18, <1>19 DEF IInv

\* A step that moves only from one phase to a later one.
LEMMA PhasePreserves ==
    ASSUME IInv, UNCHANGED <<procVars, cur, nxt, history>>,
           \/ phase' = phase
           \/ phase = "setup" /\ phase' = "start"
           \/ phase = "user" /\ phase' = "wild"
    PROVE  IInv'
<1>1. UNCHANGED <<mem, used, active, pcb, cr3, cur, nxt, short, strays>>
  BY DEF procVars, history
<1>2. /\ TypeOK /\ FreeCountExact /\ ActiveExact /\ Budget /\ SlotBound
      /\ ScanInBounds /\ PidIsSlot /\ UnusedBlank /\ OneRunning /\ QuietStart /\ CurAlive
      /\ DirsOwned /\ Cr3NotShared /\ MappedTaken /\ OnlyFrameZeroShared
  BY DEF IInv
<1>3. TypeOK'
  BY <1>1, <1>2 DEF TypeOK
<1>4. FreeCountExact' /\ ActiveExact' /\ SlotBound' /\ ScanInBounds' /\ PidIsSlot'
      /\ UnusedBlank' /\ MappedTaken' /\ OnlyFrameZeroShared'
  BY <1>1, <1>2 DEF FreeCountExact, ActiveExact, UsedSlots, SlotBound, ScanInBounds,
       PidIsSlot, UnusedBlank, MappedTaken, OnlyFrameZeroShared
<1>5. OneRunning' /\ QuietStart' /\ CurAlive'
  BY <1>1, <1>2 DEF OneRunning, QuietStart, CurAlive
<1>7. Budget'
  <2>1. Owed' <= Owed /\ Owed \in {0, 1} /\ Owed' \in {0, 1}
    BY <1>1 DEF Owed, Zero
  <2>2. /\ phase' = "off" => phase = "off"
        /\ phase # "off" => phase' # "off"
    OBVIOUS
  <2>3. mem.free \in Nat
    BY <1>2 DEF TypeOK, Mem
  <2>4. UsedSlots' = UsedSlots /\ UsedDirs' = UsedDirs
    BY <1>1 DEF UsedSlots, UsedDirs
  <2>5. Zero(mem)' = Zero(mem)
    BY <1>1 DEF Zero
  <2>6. ASSUME ~ short, phase # "off"
        PROVE  /\ mem.free + 2 * Cardinality(UsedSlots) + Owed' <= NFrame - 1
               /\ mem.free + Cardinality(UsedDirs) + Zero(mem) <= NFrame
    <3>1. /\ mem.free + 2 * Cardinality(UsedSlots) + Owed <= NFrame - 1
          /\ mem.free + Cardinality(UsedDirs) + Zero(mem) <= NFrame
      BY <1>2, <2>6 DEF Budget
    <3> QED BY <2>1, <2>3, <3>1, SetsFinite, PagingAssumption
  <2> QED BY <1>1, <1>2, <2>2, <2>4, <2>5, <2>6 DEF Budget
<1>6. DirsOwned' /\ Cr3NotShared'
  BY <1>1, <1>2 DEF DirsOwned, UsedDirs, Cr3NotShared
<1> QED BY <1>3, <1>4, <1>5, <1>6, <1>7 DEF IInv

\* kernel_setup starts from an empty process table and a blank memory.
LEMMA InitEstablishes ==
    Init => IInv
<1>1. SUFFICES ASSUME Init PROVE IInv
  OBVIOUS
<1>2. /\ mem = BlankMem /\ used = [i \in Proc |-> FALSE] /\ active = 0
      /\ pcb = [i \in Proc |-> ZeroPcb] /\ cr3 = KernelDir
      /\ cur = 0 /\ nxt = 0 /\ phase = "off" /\ short = FALSE /\ strays = 0
  BY <1>1 DEF Init, ProcessInit
<1>3. 0 \in Proc /\ ZeroPcb \in Pcb
  BY ProcessAssumption DEF Proc, ZeroPcb, Pcb
<1>4. mem \in Mem
  BY <1>2, PagingAssumption DEF BlankMem, Mem, NoPages
<1>5. TypeOK
  <2>1. used \in [Proc -> BOOLEAN] /\ pcb \in [Proc -> Pcb] /\ short \in BOOLEAN
    BY <1>2, <1>3
  <2>2. 0 \in 0 .. CountMod - 1
    BY ProcessAssumption
  <2> QED BY <1>2, <1>3, <1>4, <2>1, <2>2 DEF TypeOK
<1>6. FreeCountExact
  <2>1. FreeFrames(mem) = Frame
    BY <1>2 DEF FreeFrames, BlankMem
  <2>2. Cardinality(Frame) = NFrame
    BY PagingAssumption, FS_Interval DEF Frame
  <2> QED BY <1>2, <2>1, <2>2 DEF FreeCountExact, BlankMem
<1>7. ActiveExact
  <2>1. UsedSlots = {}
    BY <1>2 DEF UsedSlots
  <2> QED BY <1>2, <2>1, FS_EmptySet DEF ActiveExact
<1>8. Budget /\ SlotBound /\ ScanInBounds /\ OneRunning /\ Cr3NotShared
  BY <1>2, ProcessAssumption DEF Budget, SlotBound, ScanInBounds, OneRunning, Cr3NotShared
<1>9. PidIsSlot /\ UnusedBlank /\ QuietStart /\ CurAlive
  BY <1>2 DEF PidIsSlot, UnusedBlank, QuietStart, CurAlive, ZeroPcb
<1>10. DirsOwned
  BY <1>2 DEF DirsOwned
<1>11. MappedTaken /\ OnlyFrameZeroShared
  BY <1>2 DEF MappedTaken, OnlyFrameZeroShared, BlankMem, NoPages
<1> QED BY <1>5, <1>6, <1>7, <1>8, <1>9, <1>10, <1>11 DEF IInv

\* Every step of kernel_setup, of the system calls and of the timer preserves
\* the invariant.
LEMMA NextPreserves ==
    ASSUME IInv, [Next]_vars
    PROVE  IInv'
<1>1. CASE SetupMemory
  BY <1>1, SetupMemoryPreserves
<1>2. ASSUME NEW ok \in BOOLEAN, SetupCreate(ok) PROVE IInv'
  <2>1. CASE CreateCode(2, FALSE) = 0
    <3>1. /\ process_create_user_process(ok)
          /\ cur' = cur /\ nxt' = nxt /\ short' = short /\ strays' = strays
          /\ phase = "setup" /\ phase' = "start"
      BY <1>2, <2>1 DEF SetupCreate, history
    <3>2. mem.free >= 2 /\ active < NProc
      <4>1. TypeOK /\ 2 \in Nat /\ FALSE \in BOOLEAN
        BY DEF IInv
      <4> QED BY <2>1, <4>1, CreateCodeFrames
    <3>3. ~ short /\ mem.free \in Nat
      BY <3>1 DEF IInv, QuietStart, TypeOK, Mem
    <3>4. (\E j \in Proc : ~ used[j]) /\ FreeDirs(mem) # {}
      BY <3>1, <3>2, <3>3, FramesGoFirst DEF IInv
    <3>6. ~ (mem.free < 2)
      BY <3>2, <3>3
    <3>5. short' = IF mem.free < 2 THEN TRUE ELSE short
      BY <3>1, <3>6, Zenon
    <3> QED BY <3>1, <3>2, <3>4, <3>5, CreatePreserves
  <2>2. CASE CreateCode(2, FALSE) # 0
    BY <1>2, <2>2, PhasePreserves DEF SetupCreate
  <2> QED BY <2>1, <2>2
<1>3. CASE SetupSwitch
  <2>1. phase = "start" /\ scheduler_switch_to_next_process(pcb)
    BY <1>3 DEF SetupSwitch
  <2>2. Switchable(pcb)
    BY DEF IInv, Switchable, TypeOK, UnusedBlank, DirsOwned
  <2> QED BY <2>1, <2>2, SwitchPreserves
<1>4. CASE Tick
  BY <1>4, TickPreserves
<1>5. ASSUME NEW n \in FrameNeeds, NEW ok \in BOOLEAN, Exec(n, ok) PROVE IInv'
  <2>1. /\ process_create_user_process(ok) /\ UNCHANGED <<cur, nxt, strays>>
        /\ short' = IF mem.free < 2 THEN TRUE ELSE short
        /\ phase = "user" /\ phase' \in {"user", "down"} /\ CreateCode(n, FALSE) = 0
        /\ (\E j \in Proc : ~ used[j]) /\ FreeDirs(mem) # {}
    BY <1>5 DEF Exec, Room
  <2>2. n \in Nat
    BY FrameNeedsAssumption
  <2>3. active < NProc
    BY <2>1, <2>2, CreateCodeFrames DEF IInv
  <2> QED BY <2>1, <2>3, CreatePreserves
<1>12. ASSUME NEW n \in FrameNeeds, ExecOverrun(n) PROVE IInv'
  BY <1>12, PhasePreserves DEF ExecOverrun
<1>6. ASSUME NEW k \in Proc, Kill(k) PROVE IInv'
  BY <1>6, KillPreserves
<1>7. ASSUME NEW k \in Proc, KillContextless(k) PROVE IInv'
  BY <1>7, KillContextlessPreserves
<1>8. ASSUME UNCHANGED vars PROVE IInv'
  BY <1>8, PhasePreserves DEF vars
<1>9. ASSUME NEW n \in FrameNeeds, NEW high \in BOOLEAN, ExecReject(n, high) PROVE IInv'
  BY <1>8, <1>9 DEF ExecReject
<1>10. ASSUME NEW k \in Proc, KillUnknown(k) PROVE IInv'
  BY <1>8, <1>10 DEF KillUnknown
<1>11. CASE Stopped
  BY <1>8, <1>11 DEF Stopped
<1> QED BY <1>1, <1>2, <1>3, <1>4, <1>5, <1>6, <1>7, <1>8, <1>9, <1>10, <1>11, <1>12
        DEF Next

-----------------------------------------------------------------------------
(* The theorems *)

\* The invariant holds in every reachable state, for every number of slots,
\* frames and directories the assumptions admit.
THEOREM Invariance == Spec => []IInv
<1>1. Init => IInv
  BY InitEstablishes
<1>2. IInv /\ [Next]_vars => IInv'
  BY NextPreserves
<1> QED BY <1>1, <1>2, PTL DEF Spec

\* The variables of the process side always have their types.
THEOREM TypeCorrect == Spec => []TypeOK
<1>1. IInv => TypeOK
  BY DEF IInv
<1> QED BY <1>1, Invariance, PTL

\* The counter of free frames, which creation checks, is exact after any
\* sequence of creations, failed creations and kills.
THEOREM FramesCounted == Spec => []FreeCountExact
<1>1. IInv => FreeCountExact
  BY DEF IInv
<1> QED BY <1>1, Invariance, PTL

\* The counter of active processes, the other one creation checks, is wrong by
\* exactly the kills that found their slot empty, wrapping included.
THEOREM ProcessesCounted == Spec => []ActiveExact
<1>1. IInv => ActiveExact
  BY DEF IInv
<1> QED BY <1>1, Invariance, PTL

\* timer_isr never saves a context to a process it does not belong to.
THEOREM SingleRunning == Spec => []OneRunning
<1>1. IInv => OneRunning
  BY DEF IInv
<1> QED BY <1>1, Invariance, PTL

\* The scheduler's scan, which has no bound check on its first probe, does not start
\* behind the end of the process table until a process is created with fewer than
\* its two frames.
THEOREM ScanSafe == Spec => []ScanInBounds
<1>1. IInv => ScanInBounds
  BY DEF IInv
<1> QED BY <1>1, Invariance, PTL

\* Until then process_create_user_process, which does not check for NULL, gets a
\* page directory for every two frames it is granted.
THEOREM DirectoryAvailable == Spec => []DirLeft
<1>1. IInv => DirLeft
  <2>1. SUFFICES ASSUME IInv, ~ short, mem.free >= 2 PROVE FreeDirs(mem) # {}
    BY DEF DirLeft
  <2>2. CASE phase = "off"
    <3>1. 1 \in PageDir
      BY PagingAssumption DEF PageDir
    <3>2. mem = BlankMem
      BY <2>1, <2>2 DEF IInv, Budget
    <3> QED BY <3>1, <3>2 DEF FreeDirs, BlankMem
  <2>3. CASE phase # "off"
    BY <2>1, <2>3, FramesGoFirst DEF IInv
  <2> QED BY <2>2, <2>3
<1> QED BY <1>1, Invariance, PTL

\* Address spaces stay apart: every living process has a page directory of its
\* own, in use for as long as it lives.
THEOREM DirectoriesApart == Spec => []DirsOwned
<1>1. IInv => DirsOwned
  BY DEF IInv
<1> QED BY <1>1, Invariance, PTL

\* No two pages, of one process or of two, have one frame other than frame 0.
THEOREM FramesApart == Spec => []OnlyFrameZeroShared
<1>1. IInv => OnlyFrameZeroShared
  BY DEF IInv
<1> QED BY <1>1, Invariance, PTL

=============================================================================
