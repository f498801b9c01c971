---------------------------- MODULE ShellProofs ----------------------------
(***************************************************************************)
(* Proofs about the shells over the file system (Shell.tla): what they ask  *)
(* of the driver, the copy of the directory and the path a shell keeps, and *)
(* what mv and find leave and show.                                         *)
(***************************************************************************)
EXTENDS Shell, Fat32EntryProofs, SequenceTheorems

-----------------------------------------------------------------------------
(* The tree of directories, as long as the power stays on *)

Formatted == pc \notin {"off", "fmtFat", "fmtRoot"}

\* Directory d of disk dk has the folder c under the name n.
FolderIn(dk, d, n, c) ==
    \E r \in Row : /\ LiveIn(dk, d, r)
                   /\ dk[d].tab[r].sub /\ dk[d].tab[r].name = n /\ dk[d].tab[r].cluster = c

\* Rows 0 and 1 of a directory are the folder itself and another folder.
HeaderRows(dk) ==
    \A d \in DataCluster :
        /\ dk[d].tab[0].used => dk[d].tab[0].sub
        /\ ValidDir(dk[d].tab) =>
              /\ dk[d].tab[0].cluster = d
              /\ dk[d].tab[1].used /\ dk[d].tab[1].sub /\ dk[d].tab[1].name = DotDot
              /\ dk[d].tab[1].cluster \in DataCluster

RootSound(dk) ==
    /\ ValidDir(dk[ROOT_CLUSTER_NUMBER].tab)
    /\ dk[ROOT_CLUSTER_NUMBER].tab[0].name = RootName
    /\ dk[ROOT_CLUSTER_NUMBER].tab[1].cluster = ROOT_CLUSTER_NUMBER

\* Every folder that a directory names is there, but for x.
FoldersThere(dk, x) ==
    \A d \in DataCluster, r \in Row :
        LiveIn(dk, d, r) /\ dk[d].tab[r].sub /\ dk[d].tab[r].cluster # x =>
            ValidDir(dk[dk[d].tab[r].cluster].tab)

\* Every directory but the root and x is a folder of the one its row 1 names.
ParentsLead(dk, x) ==
    \A c \in FileCluster : ValidDir(dk[c].tab) /\ c # x =>
        FolderIn(dk, dk[c].tab[1].cluster, dk[c].tab[0].name, c)

\* Entries have names that requests carry, and files start with file data.
EntriesRead(dk) ==
    \A d \in DataCluster, r \in Row : LiveIn(dk, d, r) =>
        /\ dk[d].tab[r].name \in Names
        /\ ~ dk[d].tab[r].sub => dk[dk[d].tab[r].cluster].data.p \in Payloads

\* The tree of disk dk, but for the folder x not yet opened and y not yet closed.
Tree(dk, x, y) ==
    HeaderRows(dk) /\ FoldersThere(dk, x) /\ ParentsLead(dk, y) /\ EntriesRead(dk)

\* What a call writes is what it was asked to write.
CallBrings ==
    /\ pc \in {"mkdirParent", "mkdirTable", "fill", "writeRow"} => call.name \in Names
    /\ pc \in {"fill", "writeRow"} =>
          call.payload \in Payloads /\ disk[call.start].data.p = call.payload

\* The folder a mkdir has named and not yet opened; the one an rm has not yet closed.
InMaking == IF pc = "mkdirTable" THEN call.start ELSE 0
InRemoval == IF pc = "rmdirTable" THEN call.start ELSE 0

TreeInv == Tree(disk, InMaking, InRemoval) /\ (Formatted => RootSound(disk)) /\ CallBrings

-----------------------------------------------------------------------------
(* The memory of the shells *)

\* What a shell has in its memory, whatever the others do.
MemoryFits(m) ==
    /\ m.st = "start" => m.path = << >>
    /\ m.st # "start" => Len(m.path) > 0 /\ Len(m.path) <= MaxPath /\ m.path[1] = RootName
    /\ m.st \in {"delete", "write"} =>
          m.job.src \in Names /\ m.job.as \in Names /\ m.job.cmd # "none"

FitInv == shell \in [Shells -> State] /\ \A s \in Shells : MemoryFits(shell[s])

Working == {"prompt", "refresh", "delete", "write"}

\* Rows 0 and 1 of t, and whatever t lists, are as on the disk (u).
Behind(t, u) == \A r \in Row : r < 2 \/ t[r].used => u[r] = t[r]

\* The copy of the directory, for a shell that is alone.
CopyInv(m) ==
    LET d == m.dir[0].cluster
    IN  /\ m.st \in Working =>
              /\ d \in DataCluster /\ ValidDir(disk[d].tab) /\ disk[d].tab[0] = m.dir[0]
              /\ pc = "rmdirTable" => call.start # d
        /\ m.st = "prompt" \/ (m.st = "write" /\ m.job.cmd = "cp") =>
              Behind(m.dir, disk[d].tab) /\ pc \in {"idle", "wild", "spin", "overrun", "fill", "writeRow"}
        /\ m.st = "prompt" /\ ~ m.stale => pc \in {"idle", "wild", "spin", "overrun"} /\ m.dir = disk[d].tab
        /\ m.st = "delete" => pc \in {"idle", "wild", "spin", "overrun"} /\ m.job.from = d /\ m.job.cmd = "mv"

\* w is the way from the root along the path.
IsWay(dk, path, w) ==
    /\ w \in [1 .. Len(path) -> DataCluster]
    /\ w[1] = ROOT_CLUSTER_NUMBER
    /\ \A i \in 2 .. Len(path) :
          path[i] \in Names \ {DotDot} /\ FolderIn(dk, w[i - 1], path[i], w[i])

PathInv(m) ==
    m.st \in Working /\ ~ m.strayed =>
        \E w : IsWay(disk, m.path, w) /\ w[Len(m.path)] = m.dir[0].cluster

\* Directory d has no entry of name n.
Gone(dk, d, n) == \A r \in Row : LiveIn(dk, d, r) => dk[d].tab[r].name # n

\* The file is where mv has put it.
Moved(dk, j) ==
    \E r \in Row : /\ LiveIn(dk, j.to, r) /\ dk[j.to].tab[r].name = j.as
                   /\ dk[dk[j.to].tab[r].cluster].data.p = j.payload

\* Before mv deletes the source, and after it.
Ready(j) ==
    /\ Sure(j.from, j.src, j.to, j.as)
    /\ ReadCode(disk[j.from].tab, j.src, ClusterSize) = 0

Taken(dk, j) ==
    /\ j.from \in DataCluster /\ j.to \in DataCluster /\ Gone(dk, j.from, j.src)
    /\ j.to = j.from => j.as # j.src

MvInv(m) ==
    LET j == m.job IN
    /\ m.st \in {"start", "prompt"} => ~ j.sure
    /\ j.sure => j.cmd = "mv" /\ j.was = j.payload
    /\ j.sure /\ pc \notin {"wild", "spin", "overrun"} =>
          /\ m.st = "delete" => Ready(j)
          /\ m.st \in {"write", "refresh"} => Taken(disk, j)
          /\ m.st = "write" => /\ WriteCode(disk[j.to].tab, j.as) = 0
                               /\ pc \in {"idle", "rmFirst", "rmLoop", "rmLast"}
          /\ m.st = "refresh" =>
                \/ pc = "idle" /\ Moved(disk, j)
                \/ /\ pc \in {"fill", "writeRow"} /\ call.parent = j.to
                   /\ call.name = j.as /\ call.payload = j.payload

-----------------------------------------------------------------------------
(* What the steps of the driver do to the directories *)

\* Row r of directory d is set: every other row stays.
LEMMA RowSetKeeps ==
    ASSUME NEW dk, NEW dk2, NEW d, NEW r, NEW e, RowSet(dk, dk2, d, r, e)
    PROVE  /\ d \in DataCluster /\ r \in Row /\ r >= 2 /\ ValidDir(dk[d].tab)
           /\ \A x \in DataCluster : ValidDir(dk2[x].tab) <=> ValidDir(dk[x].tab)
           /\ \A x \in DataCluster : /\ dk2[x].tab[0] = dk[x].tab[0]
                                     /\ dk2[x].tab[1] = dk[x].tab[1]
           /\ \A x \in DataCluster, y \in Row : x # d \/ y # r =>
                 /\ LiveIn(dk2, x, y) <=> LiveIn(dk, x, y)
                 /\ dk2[x].tab[y] = dk[x].tab[y]
           /\ \A x \in DataCluster : x # d => dk2[x] = dk[x]
           /\ LiveIn(dk2, d, r) <=> e.used
           /\ dk2[d].tab[r] = e
<1>1. /\ d \in DataCluster /\ r \in Row /\ r >= 2 /\ ValidDir(dk[d].tab)
      /\ dk2[d].tab[r] = e /\ \A y \in Row : y # r => dk2[d].tab[y] = dk[d].tab[y]
      /\ \A x \in DataCluster : x # d => dk2[x] = dk[x]
  BY DEF RowSet
<1>2. 0 \in Row /\ 0 # r /\ 1 \in Row /\ 1 # r
  BY <1>1, Constants
<1>3. \A x \in DataCluster : ValidDir(dk2[x].tab) <=> ValidDir(dk[x].tab)
  BY <1>1, <1>2 DEF ValidDir
<1> QED BY <1>1, <1>2, <1>3 DEF LiveIn

\* What an entry names is held; a file does not start in a directory.
LEMMA EntryHeld ==
    ASSUME NEW dk, NEW f, DiskSound(dk, f), NEW x \in DataCluster, NEW y \in Row, LiveIn(dk, x, y)
    PROVE  /\ dk[x].tab[y].cluster \in FileCluster /\ dk[x].tab[y].cluster \in DataCluster
           /\ dk[x].tab[y].cluster \in Held(dk, f) /\ x \in Held(dk, f)
           /\ ~ dk[x].tab[y].sub => ~ ValidDir(dk[dk[x].tab[y].cluster].tab)
<1>1. dk[x].tab[y].cluster \in FileCluster /\ dk[x].tab[y].cluster \in DataCluster
  BY DEF DiskSound, ChainsSound, FileCluster
<1>2. dk[x].tab[y].cluster \in ChainSet(f, dk[x].tab[y].cluster)
  BY <1>1, ChainStart
<1>3. ~ dk[x].tab[y].sub => ~ ValidDir(dk[dk[x].tab[y].cluster].tab)
  BY <1>1, <1>2 DEF DiskSound, DirsSound
<1> QED BY <1>1, <1>2, <1>3 DEF Held, LiveIn

\* Clusters that nothing holds may be overwritten, with no table; the others stay.
Still(dk, dk2, H) ==
    \A x \in DataCluster : dk2[x] = dk[x] \/ (x \notin H /\ dk2[x].tab = ZeroTable)

LEMMA StillKeeps ==
    ASSUME NEW dk, NEW dk2, NEW f, DiskSound(dk, f), Still(dk, dk2, Held(dk, f))
    PROVE  /\ \A x \in DataCluster : ValidDir(dk2[x].tab) <=> ValidDir(dk[x].tab)
           /\ \A x \in DataCluster : ValidDir(dk[x].tab) => dk2[x] = dk[x]
           /\ \A x \in DataCluster, y \in Row : LiveIn(dk2, x, y) <=> LiveIn(dk, x, y)
           /\ \A x \in DataCluster, y \in Row : LiveIn(dk, x, y) =>
                 /\ dk2[x] = dk[x]
                 /\ dk2[dk[x].tab[y].cluster] = dk[dk[x].tab[y].cluster]
<1>1. \A x \in DataCluster : ValidDir(dk[x].tab) => dk2[x] = dk[x]
  BY DEF Still, Held
<1>2. \A x \in DataCluster : ValidDir(dk2[x].tab) => ValidDir(dk[x].tab)
  BY BlankTypes DEF Still
<1>3. \A x \in DataCluster, y \in Row : LiveIn(dk2, x, y) <=> LiveIn(dk, x, y)
  BY <1>1, <1>2 DEF LiveIn
<1>4. ASSUME NEW x \in DataCluster, NEW y \in Row, LiveIn(dk, x, y)
      PROVE  dk2[dk[x].tab[y].cluster] = dk[dk[x].tab[y].cluster]
  BY <1>4, EntryHeld DEF Still
<1>5. \A x \in DataCluster, y \in Row : LiveIn(dk, x, y) => dk2[x] = dk[x]
  BY <1>1 DEF LiveIn
<1> QED BY <1>1, <1>2, <1>3, <1>4, <1>5

LEMMA PlacedStill ==
    ASSUME NEW dk, NEW dk2, NEW H, NEW c, c \notin H, Placed(dk, c, ZeroTable, dk2)
    PROVE  Still(dk, dk2, H)
BY DEF Placed, Still

\* What a write begins with: nothing holds the cluster it takes.
LEMMA WriteFirstDoes ==
    ASSUME Sound, NEW d \in DataCluster, NEW n \in Names,
           NEW s \in Sizes \ {0}, NEW p \in Payloads, WriteFirst(d, n, s, p)
    PROVE  /\ Still(disk, disk', Held(disk, diskFat))
           /\ pc = "idle" /\ pc' = "fill" /\ WriteCode(disk[d].tab, n) = 0
           /\ call'.parent = d /\ call'.name = n /\ call'.payload = p
           /\ disk'[call'.start].data.p = p
<1>1. PICK r \in Row, c \in DataCluster :
         /\ IsFirst(FreeRow(disk[d].tab), r)
         /\ IsFirst(FreeCluster(cluster_map), c)
         /\ call' = [NoCall EXCEPT !.parent = d, !.name = n, !.size = s,
                                   !.payload = p, !.row = r, !.start = c,
                                   !.cur = c, !.need = Needed(s) - 1]
         /\ disk' = [disk EXCEPT ![c] = DataBlock(p, 0, ClusterSize)]
  BY DEF WriteFirst
<1>2. pc = "idle" /\ WriteCode(disk[d].tab, n) = 0 /\ pc' = "fill" /\ Loaded
  BY DEF WriteFirst, Loaded
<1>3. cluster_map[c] = FAT32_FAT_EMPTY_ENTRY
  BY <1>1 DEF IsFirst, FreeCluster
<1>4. c \notin Held(disk, diskFat)
  BY <1>2, <1>3, FreeNotHeld DEF Sound
<1>5. disk \in [DataCluster -> Block]
  BY DEF Sound, IInv, TypeOK
<1>6. DataBlock(p, 0, ClusterSize) \in Block /\ DataBlock(p, 0, ClusterSize).tab = ZeroTable
  BY DataBlockType, SizeAssumption
<1>7. DataBlock(p, 0, ClusterSize).data.p = p
  BY DEF DataBlock
<1> HIDE DEF DataBlock
<1>8. Still(disk, disk', Held(disk, diskFat))
  BY <1>1, <1>4, <1>5, <1>6, DataWrite, PlacedStill
<1>9. /\ call'.parent = d /\ call'.name = n /\ call'.payload = p /\ call'.start = c
  BY <1>1 DEF NoCall
<1>10. disk'[c].data.p = p
  BY <1>1, <1>5, <1>7
<1> QED BY <1>2, <1>8, <1>9, <1>10

LEMMA WriteNextDoes ==
    ASSUME Sound, WriteNext
    PROVE  /\ Still(disk, disk', Held(disk, diskFat))
           /\ pc = "fill" /\ pc' = "fill"
           /\ call'.parent = call.parent /\ call'.name = call.name
           /\ call'.payload = call.payload /\ call'.start = call.start
           /\ disk'[call.start] = disk[call.start]
<1>1. PICK c \in DataCluster :
         /\ IsFirst(FreeAfter(cluster_map, call.cur), c)
         /\ disk' = [disk EXCEPT ![c] =
                        DataBlock(call.payload, Needed(call.size) - call.need,
                                  PartSize(call.size, call.need))]
         /\ call' = [call EXCEPT !.cur = c, !.need = @ - 1]
         /\ cluster_map' = [cluster_map EXCEPT ![call.cur] = c,
                                               ![c] = FAT32_FAT_END_OF_FILE]
  BY DEF WriteNext
<1>2. pc = "fill" /\ pc' = "fill" /\ Loaded
  BY DEF WriteNext, Loaded
<1>3. cluster_map[c] = FAT32_FAT_EMPTY_ENTRY /\ c > call.cur
  BY <1>1, <1>2, NextIsFree DEF Sound
<1>4. c \notin Held(disk, diskFat)
  BY <1>2, <1>3, FreeNotHeld DEF Sound
<1>5. Placed(disk, c, ZeroTable, disk')
  BY WriteNextPlaces, <1>1, <1>2 DEF Sound
<1>6. call \in Call /\ call.cur \in Nat
  BY <1>2, Constants DEF Sound, IInv, TypeOK, CallSound, FileCluster
<1>7. PICK m \in 0 .. NCluster : Building(cluster_map, m, Held(disk, diskFat))
  BY <1>2 DEF Sound, NamedInv, CallOwns
<1>8. call.start \in DataCluster /\ call.start <= call.cur
  <2>1. Chain(cluster_map, call.start)[0] = call.start
    BY ChainRounds
  <2>2. 0 \in 0 .. m /\ (m = 0 \/ 0 < m)
    BY SizeAssumption
  <2> DEFINE w == Chain(cluster_map, call.start)
  <2>3. /\ w[m] = call.cur /\ w[0] \in DataCluster
        /\ 0 < m => w[0] < call.cur
    BY <1>7, <2>2 DEF Building
  <2> HIDE DEF w
  <2>4. w[0] = call.start
    BY <2>1 DEF w
  <2>5. call.start \in DataCluster /\ call.start \in Nat
    BY <2>3, <2>4, Constants
  <2>6. CASE m = 0
    BY <1>6, <2>3, <2>4, <2>5, <2>6
  <2>7. CASE 0 < m
    BY <1>6, <2>3, <2>4, <2>5, <2>7
  <2> QED BY <2>2, <2>5, <2>6, <2>7
<1>9. call.start # c
  BY <1>3, <1>6, <1>8, Constants
<1>10. disk'[call.start] = disk[call.start]
  BY <1>5, <1>8, <1>9 DEF Placed
<1>11. /\ call'.parent = call.parent /\ call'.name = call.name
       /\ call'.payload = call.payload /\ call'.start = call.start
  BY <1>1, <1>6 DEF Call
<1> QED BY <1>2, <1>4, <1>5, <1>10, <1>11, PlacedStill

LEMMA RmClusterDoes ==
    ASSUME Sound, RmCluster
    PROVE  Still(disk, disk', Held(disk, diskFat)) /\ pc \in {"rmFirst", "rmLoop"} /\ pc' = "rmLoop"
<1>1. /\ pc \in {"rmFirst", "rmLoop"} /\ pc' = "rmLoop" /\ call.nxt \in DataCluster
      /\ disk' = [disk EXCEPT ![call.nxt] = ZeroBlock]
  BY DEF RmCluster
<1>2. call.nxt \notin Held(disk, diskFat)
  BY <1>1 DEF Sound, NamedInv, CallOwns, Detached
<1>3. disk \in [DataCluster -> Block]
  BY DEF Sound, IInv, TypeOK
<1> QED BY <1>1, <1>2, <1>3, BlankTypes, DataWrite, PlacedStill

LEMMA RmLastDoes ==
    ASSUME Sound, RmLast
    PROVE  Still(disk, disk', Held(disk, diskFat)) /\ pc = "rmLast" /\ pc' = "idle"
<1>1. pc = "rmLast" /\ pc' = "idle" /\ disk' = [disk EXCEPT ![call.cur] = ZeroBlock]
  BY DEF RmLast, Return
<1>2. call.cur \notin Held(disk, diskFat) /\ call.cur \in DataCluster
  BY <1>1 DEF Sound, NamedInv, CallOwns, IInv, CallSound, FileCluster
<1>3. disk \in [DataCluster -> Block]
  BY DEF Sound, IInv, TypeOK
<1> QED BY <1>1, <1>2, <1>3, BlankTypes, DataWrite, PlacedStill

LEMMA MkdirParentDoes ==
    ASSUME Sound, MkdirParent
    PROVE  /\ RowSet(disk, disk', call.parent, call.row, DirEntry(call.name, call.start))
           /\ ~ disk[call.parent].tab[call.row].used /\ call.start \notin Held(disk, diskFat)
           /\ call.start \in DataCluster
           /\ pc = "mkdirParent" /\ pc' = "mkdirTable" /\ call' = call
<1>1. /\ pc = "mkdirParent" /\ pc' = "mkdirTable" /\ call' = call
      /\ dir_table_buf' = [dir_table_buf EXCEPT ![call.row] = DirEntry(call.name, call.start)]
      /\ disk' = [disk EXCEPT ![call.parent] = TableBlock(dir_table_buf')]
  BY DEF MkdirParent
<1>2. /\ call.parent \in DataCluster /\ ValidDir(disk[call.parent].tab)
      /\ call.row \in Row /\ call.row >= 2 /\ call.start \in DataCluster
      /\ dir_table_buf = disk[call.parent].tab
      /\ disk \in [DataCluster -> Block] /\ dir_table_buf \in Table /\ dir_table_buf' \in Table
  BY <1>1 DEF Sound, IInv, CallSound, TypeOK, Call, FileCluster
<1>3. ~ disk[call.parent].tab[call.row].used /\ call.start \notin Held(disk, diskFat)
  BY <1>1 DEF Sound, NamedInv, CallOwns
<1>4. Placed(disk, call.parent, dir_table_buf', disk')
  BY <1>1, <1>2, TableWrite
<1>5. RowSet(disk, disk', call.parent, call.row, DirEntry(call.name, call.start))
  BY <1>1, <1>2, <1>4 DEF Placed, Table, RowSet
<1> QED BY <1>1, <1>2, <1>3, <1>5

LEMMA WriteRowDoes ==
    ASSUME Sound, WriteRow
    PROVE  /\ RowSet(disk, disk', call.parent, call.row, FileEntry(call.name, call.start, call.size))
           /\ ~ disk[call.parent].tab[call.row].used /\ ~ ValidDir(disk[call.start].tab)
           /\ call.start \in DataCluster
           /\ pc = "writeRow" /\ pc' = "idle"
<1> DEFINE e == FileEntry(call.name, call.start, call.size)
           t == [dir_table_buf EXCEPT ![call.row] = e]
<1>1. /\ pc = "writeRow" /\ pc' = "idle"
      /\ disk' = [disk EXCEPT ![call.parent] = TableBlock(t)]
  BY DEF WriteRow, Return
<1>2. /\ call.parent \in DataCluster /\ ValidDir(disk[call.parent].tab)
      /\ call.row \in Row /\ call.row >= 2 /\ call.start \in DataCluster
      /\ dir_table_buf = disk[call.parent].tab
      /\ disk \in [DataCluster -> Block] /\ dir_table_buf \in Table /\ call \in Call
  BY <1>1 DEF Sound, IInv, CallSound, TypeOK, Call, FileCluster
<1>3. /\ ~ disk[call.parent].tab[call.row].used
      /\ ChainSet(diskFat, call.start) \cap Held(disk, diskFat) = {}
  BY <1>1 DEF Sound, NamedInv, CallOwns
<1>4. ~ ValidDir(disk[call.start].tab)
  BY <1>2, <1>3, ChainStart DEF Held
<1>5. e \in Entry
  BY <1>2 DEF FileEntry, Entry, Call
<1> HIDE DEF e
<1>6. t \in Table /\ t[call.row] = e /\ \A y \in Row : y # call.row => t[y] = dir_table_buf[y]
  BY <1>2, <1>5 DEF Table
<1> HIDE DEF t
<1>7. Placed(disk, call.parent, t, disk')
  BY <1>1, <1>2, <1>6, TableWrite
<1>8. RowSet(disk, disk', call.parent, call.row, e)
  BY <1>2, <1>6, <1>7 DEF Placed, RowSet
<1> QED BY <1>1, <1>2, <1>3, <1>4, <1>8 DEF e

\* Row r of directory d, an entry, is erased.
Erases(dk, dk2, d, r) ==
    LiveIn(dk, d, r) /\ \E e : RowSet(dk, dk2, d, r, e) /\ ~ e.used /\ e.name = ZeroName

LEMMA RmdirParentDoes ==
    ASSUME Sound, ZeroName \notin Names, NEW d \in DataCluster, NEW n \in Names, RmdirParent(d, n)
    PROVE  /\ pc = "idle" /\ pc' = "rmdirTable"
           /\ call'.start \in FileCluster /\ TargetEmpty(disk[call'.start].tab)
           /\ call'.parent = d
           /\ \E r \in Row :
                 /\ Erases(disk, disk', d, r) /\ disk[d].tab[r].sub
                 /\ disk[d].tab[r].name = n /\ disk[d].tab[r].cluster = call'.start
<1>1. PICK r \in DeleteRow(disk[d].tab, n) :
         /\ disk[d].tab[r].sub
         /\ call' = [NoCall EXCEPT !.parent = d, !.row = r, !.start = disk[d].tab[r].cluster]
         /\ dir_table_buf' = [disk[d].tab EXCEPT ![r] = ErasedDir(disk[d].tab[r])]
  BY DEF RmdirParent
<1>2. /\ pc = "idle" /\ DeleteCode(disk[d].tab, n) = 0 /\ pc' = "rmdirTable"
      /\ disk' = [disk EXCEPT ![d] = TableBlock(dir_table_buf')]
  BY DEF RmdirParent
<1>3. /\ ValidDir(disk[d].tab) /\ r \in Row /\ r >= 2 /\ disk[d].tab[r] \in Entry
      /\ disk[d].tab[r].cluster \in FileCluster /\ disk[d].tab[r].name = n
      /\ TargetEmpty(disk[disk[d].tab[r].cluster].tab)
  BY <1>1, <1>2, DeleteBegins DEF Sound
<1>4. disk[d].tab[r].used
  BY <1>1, <1>2, FoundInUse
<1>5. disk \in [DataCluster -> Block] /\ disk[d].tab \in Table /\ dir_table_buf' \in Table
  BY DEF Sound, IInv, TypeOK, Block
<1> DEFINE e == ErasedDir(disk[d].tab[r])
<1>6. ~ e.used /\ e.name = ZeroName
  BY <1>3, ErasedType
<1> HIDE DEF e
<1>7. Placed(disk, d, dir_table_buf', disk')
  BY <1>2, <1>5, TableWrite
<1>8. RowSet(disk, disk', d, r, e)
  <2>1. dir_table_buf'[r] = e /\ \A y \in Row : y # r => dir_table_buf'[y] = disk[d].tab[y]
    BY <1>1, <1>3, <1>5 DEF Table, e
  <2> QED BY <1>3, <1>7, <2>1 DEF Placed, RowSet
<1>9. call'.start = disk[d].tab[r].cluster /\ call'.parent = d
  BY <1>1 DEF NoCall
<1>10. LiveIn(disk, d, r)
  BY <1>3, <1>4 DEF LiveIn
<1>11. Erases(disk, disk', d, r)
  BY <1>6, <1>8, <1>10 DEF Erases
<1> QED BY <1>1, <1>2, <1>3, <1>9, <1>11

LEMMA RmRowDoes ==
    ASSUME Sound, ZeroName \notin Names, NEW d \in DataCluster, NEW n \in Names, RmRow(d, n)
    PROVE  /\ pc = "idle" /\ pc' = "rmFirst"
           /\ \E r \in Row :
                 /\ Erases(disk, disk', d, r) /\ ~ disk[d].tab[r].sub /\ disk[d].tab[r].name = n
<1>1. PICK r \in DeleteRow(disk[d].tab, n) :
         /\ ~ disk[d].tab[r].sub
         /\ dir_table_buf' = [disk[d].tab EXCEPT ![r] = ZeroEntry]
  BY DEF RmRow
<1>2. /\ pc = "idle" /\ DeleteCode(disk[d].tab, n) = 0 /\ pc' = "rmFirst"
      /\ disk' = [disk EXCEPT ![d] = TableBlock(dir_table_buf')]
  BY DEF RmRow
<1>3. ValidDir(disk[d].tab) /\ r \in Row /\ r >= 2 /\ disk[d].tab[r].name = n
  BY <1>1, <1>2, DeleteBegins DEF Sound
<1>4. disk[d].tab[r].used
  BY <1>1, <1>2, FoundInUse
<1>5. disk \in [DataCluster -> Block] /\ disk[d].tab \in Table /\ dir_table_buf' \in Table
  BY DEF Sound, IInv, TypeOK, Block
<1>6. ~ ZeroEntry.used /\ ZeroEntry.name = ZeroName
  BY DEF ZeroEntry
<1>7. Placed(disk, d, dir_table_buf', disk')
  BY <1>2, <1>5, TableWrite
<1>8. RowSet(disk, disk', d, r, ZeroEntry)
  <2>1. dir_table_buf'[r] = ZeroEntry /\ \A y \in Row : y # r => dir_table_buf'[y] = disk[d].tab[y]
    BY <1>1, <1>3, <1>5 DEF Table
  <2> QED BY <1>3, <1>7, <2>1 DEF Placed, RowSet
<1>9. LiveIn(disk, d, r)
  BY <1>3, <1>4 DEF LiveIn
<1>10. Erases(disk, disk', d, r)
  BY <1>6, <1>8, <1>9 DEF Erases
<1> QED BY <1>1, <1>2, <1>3, <1>10

\* The folder that mkdir has named has its table.
LEMMA MkdirTableDoes ==
    ASSUME Sound, MkdirTable
    PROVE  /\ pc = "mkdirTable" /\ pc' = "idle"
           /\ call.start \in FileCluster /\ call.parent \in DataCluster /\ call.row \in Row
           /\ ~ ValidDir(disk[call.start].tab) /\ TargetEmpty(disk'[call.start].tab)
           /\ disk'[call.start].tab[0] = DirEntry(call.name, call.start)
           /\ disk'[call.start].tab[1] = DirEntry(DotDot, call.parent)
           /\ \A x \in DataCluster : x # call.start => disk'[x] = disk[x]
           /\ LiveIn(disk, call.parent, call.row)
           /\ disk[call.parent].tab[call.row] = DirEntry(call.name, call.start)
<1> DEFINE t == init_directory_table(call.name, call.start, call.parent)
<1>1. /\ pc = "mkdirTable" /\ pc' = "idle"
      /\ disk' = [disk EXCEPT ![call.start] = TableBlock(t)]
  BY DEF MkdirTable, Return
<1>2. /\ call.start \in FileCluster /\ call.start \in DataCluster /\ call.start \in Cluster
      /\ call.name \in AllNames /\ call.parent \in Cluster /\ call.parent \in DataCluster
      /\ call.row \in Row /\ call.row >= 2 /\ ValidDir(disk[call.parent].tab)
      /\ ~ ValidDir(disk[call.start].tab) /\ disk \in [DataCluster -> Block]
  BY <1>1, Constants DEF Sound, IInv, CallSound, TypeOK, Call, FileCluster
<1>3. disk[call.parent].tab[call.row] = DirEntry(call.name, call.start)
  BY <1>1 DEF Sound, NamedInv, CallOwns
<1>4. /\ t \in Table /\ TargetEmpty(t)
      /\ t[0] = DirEntry(call.name, call.start) /\ t[1] = DirEntry(DotDot, call.parent)
  BY <1>2, NewTable
<1> HIDE DEF t
<1>5. Placed(disk, call.start, t, disk')
  BY <1>1, <1>2, <1>4, TableWrite
<1>6. LiveIn(disk, call.parent, call.row)
  BY <1>2, <1>3 DEF LiveIn, DirEntry
<1> HIDE DEF DirEntry
<1> QED BY <1>1, <1>2, <1>3, <1>4, <1>5, <1>6 DEF Placed

LEMMA RmdirTableDoes ==
    ASSUME Sound, RmdirTable
    PROVE  /\ pc = "rmdirTable" /\ pc' = "rmdirFat"
           /\ call.start \in FileCluster /\ TargetEmpty(disk[call.start].tab)
           /\ ~ disk'[call.start].tab[0].used /\ TargetEmpty(disk'[call.start].tab)
           /\ \A x \in DataCluster : x # call.start => disk'[x] = disk[x]
           /\ \A d \in DataCluster, r \in Row :
                 LiveIn(disk, d, r) => disk[d].tab[r].cluster # call.start
<1>1. pc = "rmdirTable" /\ pc' = "rmdirFat"
  BY DEF RmdirTable
<1> DEFINE c == call.start
           t == disk[c].tab
<1>2. /\ c \in FileCluster /\ c \in DataCluster /\ TargetEmpty(t) /\ disk \in [DataCluster -> Block]
  BY <1>1 DEF Sound, IInv, CallSound, FileCluster, TypeOK
<1>3. t \in Table /\ t[0] \in Entry
  BY <1>2, Constants DEF Block, Table
<1>4. /\ Placed(disk, c, disk'[c].tab, disk')
      /\ \A r \in Row : r >= 2 => disk'[c].tab[r] = t[r]
  BY RmdirTableEffect DEF Sound
<1>5. disk'[c].tab = [t EXCEPT ![0] = ErasedDir(t[0]), ![1] = ErasedDir(t[1])]
  BY <1>2 DEF RmdirTable, Block
<1>6. disk'[c].tab[0] = ErasedDir(t[0])
  BY <1>3, <1>5, Constants DEF Table
<1>7. ~ disk'[c].tab[0].used
  BY <1>3, <1>6, ErasedType
<1>8. TargetEmpty(disk'[c].tab)
  BY <1>2, <1>4 DEF TargetEmpty
<1>9. ASSUME NEW d \in DataCluster, NEW r \in Row, LiveIn(disk, d, r)
      PROVE  disk[d].tab[r].cluster # c
  <2>1. c \notin ChainSet(diskFat, disk[d].tab[r].cluster)
    BY <1>1, <1>9 DEF Sound, NamedInv, CallOwns
  <2> QED BY <1>2, <2>1, ChainStart
<1> QED BY <1>1, <1>2, <1>4, <1>7, <1>8, <1>9 DEF Placed

-----------------------------------------------------------------------------
(* The tree under each kind of step *)

LEMMA FolderIs ==
    ASSUME NEW dk, NEW d, NEW n, NEW c, NEW r \in Row, LiveIn(dk, d, r), dk[d].tab[r].sub,
           dk[d].tab[r].name = n, dk[d].tab[r].cluster = c
    PROVE  FolderIn(dk, d, n, c)
BY DEF FolderIn

LEMMA StillFolder ==
    ASSUME NEW dk, NEW dk2, NEW f, DiskSound(dk, f), Still(dk, dk2, Held(dk, f)),
           NEW d, NEW n, NEW c, FolderIn(dk, d, n, c)
    PROVE  FolderIn(dk2, d, n, c)
<1>1. PICK r \in Row : /\ LiveIn(dk, d, r) /\ dk[d].tab[r].sub /\ dk[d].tab[r].name = n
                       /\ dk[d].tab[r].cluster = c
  BY DEF FolderIn
<1>2. d \in DataCluster
  BY <1>1 DEF LiveIn
<1>3. LiveIn(dk2, d, r) /\ dk2[d] = dk[d]
  BY <1>1, <1>2, StillKeeps
<1> QED BY <1>1, <1>3, FolderIs

LEMMA TreeStill ==
    ASSUME NEW dk, NEW dk2, NEW f, DiskSound(dk, f), Still(dk, dk2, Held(dk, f)),
           NEW x, NEW y, Tree(dk, x, y)
    PROVE  Tree(dk2, x, y)
<1>1. /\ \A z \in DataCluster : ValidDir(dk2[z].tab) <=> ValidDir(dk[z].tab)
      /\ \A z \in DataCluster : ValidDir(dk[z].tab) => dk2[z] = dk[z]
      /\ \A z \in DataCluster, r \in Row : LiveIn(dk2, z, r) <=> LiveIn(dk, z, r)
      /\ \A z \in DataCluster, r \in Row : LiveIn(dk, z, r) =>
            /\ dk2[z] = dk[z]
            /\ dk2[dk[z].tab[r].cluster] = dk[dk[z].tab[r].cluster]
  BY StillKeeps
<1>2. HeaderRows(dk2)
  <2>1. \A d \in DataCluster : dk2[d].tab[0].used => dk2[d].tab[0].sub
    <3>1. ~ ZeroTable[0].used
      BY BlankTypes, Constants DEF ZeroEntry
    <3> QED BY <3>1 DEF Still, Tree, HeaderRows
  <2> QED BY <1>1, <2>1 DEF Tree, HeaderRows
<1>3. FoldersThere(dk2, x)
  BY <1>1 DEF Tree, FoldersThere
<1>4. ASSUME NEW c \in FileCluster, ValidDir(dk2[c].tab), c # y
      PROVE  FolderIn(dk2, dk2[c].tab[1].cluster, dk2[c].tab[0].name, c)
  <2>1. c \in DataCluster
    BY DEF FileCluster
  <2>2. ValidDir(dk[c].tab) /\ dk2[c] = dk[c]
    BY <1>1, <1>4, <2>1
  <2>3. FolderIn(dk, dk[c].tab[1].cluster, dk[c].tab[0].name, c)
    BY <1>4, <2>2 DEF Tree, ParentsLead
  <2> QED BY <2>2, <2>3, StillFolder
<1>5. EntriesRead(dk2)
  BY <1>1 DEF Tree, EntriesRead
<1> QED BY <1>2, <1>3, <1>4, <1>5 DEF Tree, ParentsLead

\* A row that was not in use is filled in.
LEMMA SetFolder ==
    ASSUME NEW dk, NEW dk2, NEW d, NEW r, NEW e, RowSet(dk, dk2, d, r, e),
           NEW p, NEW n, NEW c, FolderIn(dk, p, n, c),
           ~ dk[d].tab[r].used \/ ~ dk[d].tab[r].sub \/ dk[d].tab[r].cluster # c
    PROVE  FolderIn(dk2, p, n, c)
<1>1. PICK q \in Row : /\ LiveIn(dk, p, q) /\ dk[p].tab[q].sub /\ dk[p].tab[q].name = n
                       /\ dk[p].tab[q].cluster = c
  BY DEF FolderIn
<1>2. p \in DataCluster /\ (p # d \/ q # r)
  BY <1>1 DEF LiveIn
<1>3. LiveIn(dk2, p, q) /\ dk2[p].tab[q] = dk[p].tab[q]
  BY <1>1, <1>2, RowSetKeeps
<1> QED BY <1>1, <1>3, FolderIs

\* The entry that is put in is a file with data, or the folder x.
Brings(dk, e, x) ==
    /\ e.used /\ e.name \in Names
    /\ e.sub => e.cluster = x
    /\ ~ e.sub => /\ e.cluster \in DataCluster /\ ~ ValidDir(dk[e.cluster].tab)
                  /\ dk[e.cluster].data.p \in Payloads

LEMMA TreeAdded ==
    ASSUME NEW dk, NEW dk2, NEW f, DiskSound(dk, f), NEW d, NEW r, NEW e,
           RowSet(dk, dk2, d, r, e), ~ dk[d].tab[r].used, NEW x, Brings(dk, e, x),
           Tree(dk, 0, 0)
    PROVE  Tree(dk2, x, 0)
<1>0. /\ d \in DataCluster /\ r \in Row /\ r >= 2 /\ ValidDir(dk[d].tab)
      /\ \A z \in DataCluster : ValidDir(dk2[z].tab) <=> ValidDir(dk[z].tab)
      /\ \A z \in DataCluster : dk2[z].tab[0] = dk[z].tab[0] /\ dk2[z].tab[1] = dk[z].tab[1]
      /\ \A z \in DataCluster, y \in Row : z # d \/ y # r =>
            (LiveIn(dk2, z, y) <=> LiveIn(dk, z, y)) /\ dk2[z].tab[y] = dk[z].tab[y]
      /\ \A z \in DataCluster : z # d => dk2[z] = dk[z]
      /\ dk2[d].tab[r] = e
  BY RowSetKeeps
<1>1. \A z \in DataCluster, y \in Row : LiveIn(dk, z, y) => dk[z].tab[y].cluster \in DataCluster
  BY EntryHeld
<1>2. HeaderRows(dk2)
  BY <1>0 DEF Tree, HeaderRows
<1>3. ASSUME NEW z \in DataCluster, NEW y \in Row, LiveIn(dk2, z, y), dk2[z].tab[y].sub,
             dk2[z].tab[y].cluster # x
      PROVE  ValidDir(dk2[dk2[z].tab[y].cluster].tab)
  <2>1. z # d \/ y # r
    BY <1>0, <1>3 DEF Brings
  <2>2. LiveIn(dk, z, y) /\ dk2[z].tab[y] = dk[z].tab[y]
    BY <1>0, <1>3, <2>1
  <2>3. dk[z].tab[y].cluster \in DataCluster /\ dk[z].tab[y].cluster # 0
    BY <1>1, <2>2, Constants DEF FAT32_FAT_EMPTY_ENTRY
  <2>4. ValidDir(dk[dk[z].tab[y].cluster].tab)
    BY <1>3, <2>2, <2>3 DEF Tree, FoldersThere
  <2> QED BY <1>0, <2>2, <2>3, <2>4
<1>4. ASSUME NEW c \in FileCluster, ValidDir(dk2[c].tab), c # 0
      PROVE  FolderIn(dk2, dk2[c].tab[1].cluster, dk2[c].tab[0].name, c)
  <2>1. c \in DataCluster
    BY DEF FileCluster
  <2>2. FolderIn(dk, dk[c].tab[1].cluster, dk[c].tab[0].name, c)
    BY <1>0, <1>4, <2>1 DEF Tree, ParentsLead
  <2>3. FolderIn(dk2, dk[c].tab[1].cluster, dk[c].tab[0].name, c)
    BY <2>2, SetFolder
  <2> QED BY <1>0, <2>1, <2>3
<1>5. ASSUME NEW z \in DataCluster, NEW y \in Row, LiveIn(dk2, z, y)
      PROVE  /\ dk2[z].tab[y].name \in Names
             /\ ~ dk2[z].tab[y].sub => dk2[dk2[z].tab[y].cluster].data.p \in Payloads
  <2>1. CASE z = d /\ y = r
    <3>1. ~ e.sub => e.cluster # d
      BY <1>0 DEF Brings
    <3> QED BY <1>0, <2>1, <3>1 DEF Brings
  <2>2. CASE z # d \/ y # r
    <3>1. LiveIn(dk, z, y) /\ dk2[z].tab[y] = dk[z].tab[y]
      BY <1>0, <1>5, <2>2
    <3>2. ~ dk[z].tab[y].sub => dk[z].tab[y].cluster # d /\ dk[z].tab[y].cluster \in DataCluster
      BY <1>0, <3>1, EntryHeld
    <3> QED BY <1>0, <3>1, <3>2 DEF Tree, EntriesRead
  <2> QED BY <2>1, <2>2
<1> QED BY <1>2, <1>3, <1>4, <1>5 DEF Tree, FoldersThere, ParentsLead, EntriesRead

\* An entry is taken out: a file, or the folder y.
LEMMA TreeErased ==
    ASSUME NEW dk, NEW dk2, NEW f, DiskSound(dk, f), NEW d, NEW r, Erases(dk, dk2, d, r),
           NEW y, dk[d].tab[r].sub => dk[d].tab[r].cluster = y, Tree(dk, 0, 0)
    PROVE  Tree(dk2, 0, y)
<1>e. PICK e : RowSet(dk, dk2, d, r, e) /\ ~ e.used /\ LiveIn(dk, d, r)
  BY DEF Erases
<1>0. /\ d \in DataCluster /\ r \in Row /\ r >= 2 /\ ValidDir(dk[d].tab)
      /\ \A z \in DataCluster : ValidDir(dk2[z].tab) <=> ValidDir(dk[z].tab)
      /\ \A z \in DataCluster : dk2[z].tab[0] = dk[z].tab[0] /\ dk2[z].tab[1] = dk[z].tab[1]
      /\ \A z \in DataCluster, q \in Row : z # d \/ q # r =>
            (LiveIn(dk2, z, q) <=> LiveIn(dk, z, q)) /\ dk2[z].tab[q] = dk[z].tab[q]
      /\ \A z \in DataCluster : z # d => dk2[z] = dk[z]
      /\ ~ LiveIn(dk2, d, r)
  BY <1>e, RowSetKeeps
<1>1. \A z \in DataCluster, q \in Row : LiveIn(dk2, z, q) =>
         LiveIn(dk, z, q) /\ dk2[z].tab[q] = dk[z].tab[q]
  BY <1>0
<1>2. HeaderRows(dk2)
  BY <1>0 DEF Tree, HeaderRows
<1>3. FoldersThere(dk2, 0)
  <2>1. \A z \in DataCluster, q \in Row : LiveIn(dk, z, q) => dk[z].tab[q].cluster \in DataCluster
    BY EntryHeld
  <2> QED BY <1>0, <1>1, <2>1 DEF Tree, FoldersThere
<1>4. ASSUME NEW c \in FileCluster, ValidDir(dk2[c].tab), c # y
      PROVE  FolderIn(dk2, dk2[c].tab[1].cluster, dk2[c].tab[0].name, c)
  <2>1. c \in DataCluster /\ c # 0
    BY Constants DEF FileCluster, FAT32_FAT_EMPTY_ENTRY
  <2>2. FolderIn(dk, dk[c].tab[1].cluster, dk[c].tab[0].name, c)
    BY <1>0, <1>4, <2>1 DEF Tree, ParentsLead
  <2>3. FolderIn(dk2, dk[c].tab[1].cluster, dk[c].tab[0].name, c)
    BY <1>e, <1>4, <2>2, SetFolder
  <2> QED BY <1>0, <2>1, <2>3
<1>5. ASSUME NEW z \in DataCluster, NEW q \in Row, LiveIn(dk2, z, q)
      PROVE  /\ dk2[z].tab[q].name \in Names
             /\ ~ dk2[z].tab[q].sub => dk2[dk2[z].tab[q].cluster].data.p \in Payloads
  <2>1. LiveIn(dk, z, q) /\ dk2[z].tab[q] = dk[z].tab[q]
    BY <1>1, <1>5
  <2>2. ~ dk[z].tab[q].sub => dk[z].tab[q].cluster # d /\ dk[z].tab[q].cluster \in DataCluster
    BY <1>0, <2>1, EntryHeld
  <2> QED BY <1>0, <2>1, <2>2 DEF Tree, EntriesRead
<1> QED BY <1>2, <1>3, <1>4, <1>5 DEF Tree, ParentsLead, EntriesRead

\* Two entries that name the same cluster are one.
LEMMA EntriesApart ==
    ASSUME NEW dk, NEW f, DiskSound(dk, f), NEW d1 \in DataCluster, NEW r1 \in Row,
           NEW d2 \in DataCluster, NEW r2 \in Row, LiveIn(dk, d1, r1), LiveIn(dk, d2, r2),
           dk[d1].tab[r1].cluster = dk[d2].tab[r2].cluster
    PROVE  d1 = d2 /\ r1 = r2
<1>1. dk[d1].tab[r1].cluster \in DataCluster
  BY EntryHeld
<1>2. dk[d1].tab[r1].cluster \in ChainSet(f, dk[d1].tab[r1].cluster)
  BY <1>1, ChainStart
<1> QED BY <1>2 DEF DiskSound, ChainsApart

LEMMA TreeOpened ==
    ASSUME Sound, Tree(disk, call.start, 0), call.name \in Names, MkdirTable
    PROVE  Tree(disk', 0, 0)
<1> DEFINE c == call.start
<1>0. /\ c \in FileCluster /\ c \in DataCluster /\ call.parent \in DataCluster /\ call.row \in Row
      /\ ~ ValidDir(disk[c].tab) /\ TargetEmpty(disk'[c].tab)
      /\ disk'[c].tab[0] = DirEntry(call.name, c) /\ disk'[c].tab[1] = DirEntry(DotDot, call.parent)
      /\ \A x \in DataCluster : x # c => disk'[x] = disk[x]
      /\ LiveIn(disk, call.parent, call.row)
      /\ disk[call.parent].tab[call.row] = DirEntry(call.name, c)
  BY MkdirTableDoes DEF FileCluster
<1>s. DiskSound(disk, diskFat)
  BY DEF Sound, NamedInv
<1> HIDE DEF c
<1>1. /\ disk'[c].tab[0].used /\ disk'[c].tab[0].sub /\ disk'[c].tab[0].name = call.name
      /\ disk'[c].tab[0].cluster = c /\ disk'[c].tab[1].used /\ disk'[c].tab[1].sub
      /\ disk'[c].tab[1].name = DotDot /\ disk'[c].tab[1].cluster = call.parent
      /\ disk[call.parent].tab[call.row].sub /\ disk[call.parent].tab[call.row].name = call.name
      /\ disk[call.parent].tab[call.row].cluster = c
  BY <1>0 DEF DirEntry
<1>2. \A z \in DataCluster, r \in Row :
         (LiveIn(disk', z, r) <=> LiveIn(disk, z, r)) /\ (LiveIn(disk, z, r) => z # c)
  BY <1>0 DEF LiveIn, TargetEmpty
<1>3. HeaderRows(disk')
  BY <1>0, <1>1 DEF Tree, HeaderRows, ValidDir
<1>4. FoldersThere(disk', 0)
  <2>1. SUFFICES ASSUME NEW z \in DataCluster, NEW r \in Row, LiveIn(disk, z, r), disk[z].tab[r].sub
                 PROVE  ValidDir(disk'[disk[z].tab[r].cluster].tab)
    BY <1>0, <1>2 DEF FoldersThere
  <2>2. disk[z].tab[r].cluster \in DataCluster
    BY <1>s, <2>1, EntryHeld
  <2>3. CASE disk[z].tab[r].cluster = c
    BY <1>1, <2>3 DEF ValidDir
  <2>4. CASE disk[z].tab[r].cluster # c
    <3>1. ValidDir(disk[disk[z].tab[r].cluster].tab)
      BY <2>1, <2>4 DEF Tree, FoldersThere, c
    <3> QED BY <1>0, <2>2, <2>4, <3>1
  <2> QED BY <2>3, <2>4
<1>5. ASSUME NEW p, NEW n, NEW b, FolderIn(disk, p, n, b)
      PROVE  FolderIn(disk', p, n, b)
  <2>1. PICK r \in Row : LiveIn(disk, p, r) /\ disk[p].tab[r].sub /\ disk[p].tab[r].name = n
                         /\ disk[p].tab[r].cluster = b
    BY <1>5 DEF FolderIn
  <2>2. p \in DataCluster
    BY <2>1 DEF LiveIn
  <2>3. LiveIn(disk', p, r) /\ disk'[p] = disk[p]
    BY <1>0, <1>2, <2>1, <2>2
  <2> QED BY <2>1, <2>3, FolderIs
<1>6. ParentsLead(disk', 0)
  <2>1. SUFFICES ASSUME NEW b \in FileCluster, ValidDir(disk'[b].tab)
                 PROVE  FolderIn(disk', disk'[b].tab[1].cluster, disk'[b].tab[0].name, b)
    BY DEF ParentsLead
  <2>2. CASE b = c
    <3>1. FolderIn(disk, call.parent, call.name, c)
      BY <1>0, <1>1, FolderIs
    <3> QED BY <1>1, <1>5, <2>2, <3>1
  <2>3. CASE b # c
    <3>1. b \in DataCluster /\ disk'[b] = disk[b] /\ b # 0
      BY <1>0, <2>3, Constants DEF FileCluster, FAT32_FAT_EMPTY_ENTRY
    <3>2. FolderIn(disk, disk[b].tab[1].cluster, disk[b].tab[0].name, b)
      BY <2>1, <3>1 DEF Tree, ParentsLead
    <3> QED BY <1>5, <3>1, <3>2
  <2> QED BY <2>2, <2>3
<1>7. EntriesRead(disk')
  <2>1. SUFFICES ASSUME NEW z \in DataCluster, NEW r \in Row, LiveIn(disk, z, r)
                 PROVE  /\ disk[z].tab[r].name \in Names
                        /\ ~ disk[z].tab[r].sub => disk'[disk[z].tab[r].cluster].data.p \in Payloads
    BY <1>0, <1>2 DEF EntriesRead
  <2>2. ~ disk[z].tab[r].sub => disk[z].tab[r].cluster # c
    BY <1>0, <1>1, <1>s, <2>1, EntriesApart
  <2>3. disk[z].tab[r].cluster \in DataCluster
    BY <1>s, <2>1, EntryHeld
  <2> QED BY <1>0, <2>1, <2>2, <2>3 DEF Tree, EntriesRead
<1> QED BY <1>3, <1>4, <1>6, <1>7 DEF Tree

LEMMA TreeClosed ==
    ASSUME Sound, Tree(disk, 0, call.start), RmdirTable
    PROVE  Tree(disk', 0, 0)
<1> DEFINE c == call.start
<1>0. /\ c \in FileCluster /\ c \in DataCluster /\ TargetEmpty(disk[c].tab)
      /\ ~ disk'[c].tab[0].used /\ TargetEmpty(disk'[c].tab)
      /\ \A x \in DataCluster : x # c => disk'[x] = disk[x]
      /\ \A d \in DataCluster, r \in Row : LiveIn(disk, d, r) => disk[d].tab[r].cluster # c
  BY RmdirTableDoes DEF FileCluster
<1>s. DiskSound(disk, diskFat)
  BY DEF Sound, NamedInv
<1>t. HeaderRows(disk) /\ FoldersThere(disk, 0) /\ ParentsLead(disk, c) /\ EntriesRead(disk)
  BY DEF Tree
<1> HIDE DEF c
<1>1. ~ ValidDir(disk'[c].tab)
  BY <1>0 DEF ValidDir
<1>2. \A z \in DataCluster, r \in Row :
         (LiveIn(disk', z, r) <=> LiveIn(disk, z, r)) /\ (LiveIn(disk, z, r) => z # c)
  BY <1>0, <1>1 DEF LiveIn, TargetEmpty
<1>3. HeaderRows(disk')
  BY <1>0, <1>1, <1>t DEF HeaderRows
<1>4. \A z \in DataCluster, r \in Row : LiveIn(disk, z, r) =>
         /\ disk[z].tab[r].cluster \in DataCluster /\ disk'[z] = disk[z]
         /\ disk'[disk[z].tab[r].cluster] = disk[disk[z].tab[r].cluster]
  BY <1>0, <1>2, <1>s, EntryHeld
<1>5. FoldersThere(disk', 0) /\ EntriesRead(disk')
  BY <1>2, <1>4, <1>t DEF FoldersThere, EntriesRead
<1>6. ASSUME NEW b \in FileCluster, ValidDir(disk'[b].tab)
      PROVE  FolderIn(disk', disk'[b].tab[1].cluster, disk'[b].tab[0].name, b)
  <2>1. b # c /\ b \in DataCluster /\ disk'[b] = disk[b]
    BY <1>0, <1>1, <1>6 DEF FileCluster
  <2> DEFINE p == disk[b].tab[1].cluster
             n == disk[b].tab[0].name
  <2>2. FolderIn(disk, p, n, b)
    BY <1>6, <1>t, <2>1 DEF ParentsLead
  <2> HIDE DEF p, n
  <2>3. PICK r \in Row : LiveIn(disk, p, r) /\ disk[p].tab[r].sub /\ disk[p].tab[r].name = n
                         /\ disk[p].tab[r].cluster = b
    BY <2>2 DEF FolderIn
  <2>4. p \in DataCluster
    BY <2>3 DEF LiveIn
  <2>5. LiveIn(disk', p, r) /\ disk'[p] = disk[p]
    BY <1>2, <1>4, <2>3, <2>4
  <2>6. FolderIn(disk', p, n, b)
    BY <2>3, <2>5, FolderIs
  <2> QED BY <2>1, <2>6 DEF p, n
<1> QED BY <1>3, <1>5, <1>6 DEF Tree, ParentsLead

LEMMA TreeFormatted ==
    ASSUME IInv, HeaderRows(disk), FormatRoot
    PROVE  Tree(disk', 0, 0) /\ RootSound(disk')
<1> DEFINE c == ROOT_CLUSTER_NUMBER
<1>1. pc = "fmtRoot" /\ disk' = [disk EXCEPT ![c] = TableBlock(RootTable)]
  BY DEF FormatRoot
<1>2. c \in DataCluster /\ c \in Cluster /\ RootName \in AllNames /\ disk \in [DataCluster -> Block]
  BY Constants DEF IInv, TypeOK, AllNames
<1>3. /\ RootTable \in Table /\ TargetEmpty(RootTable) /\ ValidDir(RootTable)
      /\ RootTable[0] = DirEntry(RootName, c) /\ RootTable[1] = DirEntry(DotDot, c)
  BY <1>2, NewTable DEF RootTable
<1>4. Placed(disk, c, RootTable, disk')
  BY <1>1, <1>2, <1>3, TableWrite
<1>5. disk'[c].tab = RootTable /\ \A x \in DataCluster : x # c => disk'[x] = disk[x]
  BY <1>4 DEF Placed
<1>6. \A d \in DataCluster : ~ ValidDir(disk[d].tab)
  BY <1>1 DEF IInv, Unformatted
<1>7. \A d \in DataCluster, r \in Row : ~ LiveIn(disk', d, r)
  BY <1>3, <1>5, <1>6 DEF LiveIn, TargetEmpty
<1> HIDE DEF c
<1>8. /\ disk'[c].tab[0].used /\ disk'[c].tab[0].sub /\ disk'[c].tab[0].name = RootName
      /\ disk'[c].tab[0].cluster = c /\ disk'[c].tab[1].used /\ disk'[c].tab[1].sub
      /\ disk'[c].tab[1].name = DotDot /\ disk'[c].tab[1].cluster = c
  BY <1>3, <1>5 DEF DirEntry
<1>9. HeaderRows(disk')
  BY <1>2, <1>5, <1>6, <1>8 DEF HeaderRows, ValidDir
<1>10. ParentsLead(disk', 0)
  BY <1>5, <1>6 DEF ParentsLead, FileCluster, c
<1>11. FoldersThere(disk', 0) /\ EntriesRead(disk')
  BY <1>7 DEF FoldersThere, EntriesRead
<1>12. RootSound(disk')
  BY <1>8 DEF RootSound, ValidDir, c
<1> QED BY <1>9, <1>10, <1>11, <1>12 DEF Tree

-----------------------------------------------------------------------------
(* The tree in every state *)

LEMMA TreeInit == Init => TreeInv
<1> SUFFICES ASSUME Init PROVE TreeInv
  OBVIOUS
<1>1. \A d \in DataCluster : disk[d].tab = ZeroTable
  BY BlankTypes DEF Init
<1>2. ~ ZeroTable[0].used
  BY BlankTypes, Constants DEF ZeroEntry
<1>3. \A d \in DataCluster : ~ ValidDir(disk[d].tab)
  BY <1>1, BlankTypes
<1>4. HeaderRows(disk)
  BY <1>1, <1>2, <1>3 DEF HeaderRows
<1>5. FoldersThere(disk, InMaking) /\ EntriesRead(disk)
  BY <1>3 DEF FoldersThere, EntriesRead, LiveIn
<1>6. ParentsLead(disk, InRemoval)
  BY <1>3 DEF ParentsLead, FileCluster
<1>7. ~ Formatted /\ CallBrings
  BY DEF Init, Formatted, CallBrings
<1> QED BY <1>4, <1>5, <1>6, <1>7 DEF TreeInv, Tree

LEMMA InNothing ==
    ASSUME pc \notin {"mkdirTable", "rmdirTable"}
    PROVE  InMaking = 0 /\ InRemoval = 0
BY DEF InMaking, InRemoval

\* Steps that leave the directories alone.
LEMMA TreeQuiet ==
    ASSUME Sound, TreeInv, Still(disk, disk', Held(disk, diskFat)),
           pc \notin {"mkdirTable", "rmdirTable"}, pc' \notin {"mkdirTable", "rmdirTable"},
           Formatted' => Formatted, CallBrings'
    PROVE  TreeInv'
<1>1. DiskSound(disk, diskFat)
  BY DEF Sound, NamedInv
<1>2. InMaking = 0 /\ InRemoval = 0 /\ InMaking' = 0 /\ InRemoval' = 0
  BY DEF InMaking, InRemoval
<1>3. Tree(disk', 0, 0)
  <2>1. Tree(disk, 0, 0)
    BY <1>2 DEF TreeInv
  <2> QED BY <1>1, <2>1, TreeStill
<1>4. ASSUME Formatted' PROVE RootSound(disk')
  <2>1. RootSound(disk)
    BY <1>4 DEF TreeInv
  <2>2. disk'[ROOT_CLUSTER_NUMBER] = disk[ROOT_CLUSTER_NUMBER]
    BY <1>1, <2>1, StillKeeps, Constants DEF RootSound
  <2> QED BY <2>1, <2>2 DEF RootSound
<1> QED BY <1>2, <1>3, <1>4 DEF TreeInv

LEMMA SameStill == \A H : disk' = disk => Still(disk, disk', H)
BY DEF Still

\* Steps that change nothing on the disk but the FAT, and bring nothing.
LEMMA TreeSame ==
    ASSUME Sound, TreeInv, disk' = disk, Formatted' => Formatted,
           pc \notin {"mkdirTable", "rmdirTable"},
           pc' \in {"off", "fmtFat", "fmtRoot", "idle", "wild", "spin", "overrun", "rmLast"}
    PROVE  TreeInv'
<1>1. CallBrings'
  BY DEF CallBrings
<1> QED BY <1>1, TreeQuiet, SameStill

LEMMA TreeRead ==
    ASSUME Sound, TreeInv, NEW d \in DataCluster, NEW n,
           \/ ReadDirectory(d, n)
           \/ \E s \in Sizes : Read(d, n, s) \/ ReadRunaway(d, n, s)
           \/ WriteReject(d, n) \/ WriteOverrun(d, n) \/ DeleteReject(d, n)
    PROVE  TreeInv'
<1>1. disk' = disk /\ pc = "idle"
  BY DEF ReadDirectory, Read, ReadRunaway, WriteReject, WriteOverrun, DeleteReject, durable
<1>2. pc' \in {"idle", "wild", "spin", "overrun"}
  BY DEF ReadDirectory, Read, ReadRunaway, WriteReject, WriteOverrun, DeleteReject, Return
<1> QED BY <1>1, <1>2, TreeSame DEF Formatted

LEMMA TreeMkdirFat ==
    ASSUME Sound, TreeInv, NEW d \in DataCluster, NEW n \in Names, MkdirFat(d, n)
    PROVE  TreeInv'
<1>1. disk' = disk /\ pc = "idle" /\ pc' = "mkdirParent"
  BY DEF MkdirFat
<1>2. call'.name = n
  BY DEF MkdirFat, NoCall
<1>3. CallBrings'
  BY <1>1, <1>2 DEF CallBrings
<1> QED BY <1>1, <1>3, TreeQuiet, SameStill DEF Formatted

LEMMA TreeWriteFirst ==
    ASSUME Sound, TreeInv, NEW d \in DataCluster, NEW n \in Names,
           NEW s \in Sizes \ {0}, NEW p \in Payloads, WriteFirst(d, n, s, p)
    PROVE  TreeInv'
<1>1. /\ Still(disk, disk', Held(disk, diskFat)) /\ pc = "idle" /\ pc' = "fill"
      /\ call'.name = n /\ call'.payload = p /\ disk'[call'.start].data.p = p
  BY WriteFirstDoes
<1>2. CallBrings'
  BY <1>1 DEF CallBrings
<1> QED BY <1>1, <1>2, TreeQuiet DEF Formatted

LEMMA TreeFill ==
    ASSUME Sound, TreeInv, WriteNext \/ WriteFat
    PROVE  TreeInv'
<1>1. /\ Still(disk, disk', Held(disk, diskFat)) /\ pc = "fill" /\ pc' \in {"fill", "writeRow"}
      /\ call'.name = call.name /\ call'.payload = call.payload /\ call'.start = call.start
      /\ disk'[call.start] = disk[call.start]
  <2>1. CASE WriteNext
    BY <2>1, WriteNextDoes
  <2>2. CASE WriteFat
    BY <2>2, SameStill DEF WriteFat
  <2> QED BY <2>1, <2>2
<1>2. CallBrings'
  BY <1>1 DEF TreeInv, CallBrings
<1> QED BY <1>1, <1>2, TreeQuiet DEF Formatted

LEMMA TreeRm ==
    ASSUME Sound, TreeInv, RmCluster \/ RmLast
    PROVE  TreeInv'
<1>1. /\ Still(disk, disk', Held(disk, diskFat)) /\ pc \in {"rmFirst", "rmLoop", "rmLast"}
      /\ pc' \in {"rmLoop", "idle"}
  BY RmClusterDoes, RmLastDoes
<1>2. CallBrings'
  BY <1>1 DEF CallBrings
<1> QED BY <1>1, <1>2, TreeQuiet DEF Formatted

\* The root stays the root where a row of contents is set.
LEMMA RootRowSet ==
    ASSUME NEW dk, NEW dk2, NEW d, NEW r, NEW e, RowSet(dk, dk2, d, r, e), RootSound(dk)
    PROVE  RootSound(dk2)
BY RowSetKeeps, Constants DEF RootSound

LEMMA TreeMkdirParent == ASSUME Sound, TreeInv, MkdirParent PROVE TreeInv'
<1> DEFINE e == DirEntry(call.name, call.start)
<1>1. /\ RowSet(disk, disk', call.parent, call.row, e)
      /\ ~ disk[call.parent].tab[call.row].used
      /\ pc = "mkdirParent" /\ pc' = "mkdirTable" /\ call' = call
  BY MkdirParentDoes
<1>2. DiskSound(disk, diskFat) /\ Tree(disk, 0, 0) /\ call.name \in Names /\ RootSound(disk)
  BY <1>1, InNothing DEF Sound, NamedInv, TreeInv, CallBrings, Formatted
<1>3. Brings(disk, e, call.start)
  BY <1>2 DEF Brings, DirEntry
<1> HIDE DEF e
<1>4. Tree(disk', call.start, 0)
  BY <1>1, <1>2, <1>3, TreeAdded
<1>5. InMaking' = call.start /\ InRemoval' = 0 /\ CallBrings'
  BY <1>1, <1>2 DEF InMaking, InRemoval, CallBrings
<1>6. RootSound(disk')
  BY <1>1, <1>2, RootRowSet
<1> QED BY <1>4, <1>5, <1>6 DEF TreeInv

LEMMA TreeWriteRow == ASSUME Sound, TreeInv, WriteRow PROVE TreeInv'
<1> DEFINE e == FileEntry(call.name, call.start, call.size)
<1>1. /\ RowSet(disk, disk', call.parent, call.row, e)
      /\ ~ disk[call.parent].tab[call.row].used /\ ~ ValidDir(disk[call.start].tab)
      /\ call.start \in DataCluster /\ pc = "writeRow" /\ pc' = "idle"
  BY WriteRowDoes
<1>2. /\ DiskSound(disk, diskFat) /\ Tree(disk, 0, 0) /\ RootSound(disk)
      /\ call.name \in Names /\ disk[call.start].data.p \in Payloads
  BY <1>1, InNothing DEF Sound, NamedInv, TreeInv, CallBrings, Formatted
<1>3. Brings(disk, e, 0)
  BY <1>1, <1>2 DEF Brings, FileEntry
<1> HIDE DEF e
<1>4. Tree(disk', 0, 0)
  BY <1>1, <1>2, <1>3, TreeAdded
<1>5. InMaking' = 0 /\ InRemoval' = 0 /\ CallBrings'
  BY <1>1 DEF InMaking, InRemoval, CallBrings
<1>6. RootSound(disk')
  BY <1>1, <1>2, RootRowSet
<1> QED BY <1>4, <1>5, <1>6 DEF TreeInv

LEMMA TreeDelete ==
    ASSUME Sound, ZeroName \notin Names, TreeInv, NEW d \in DataCluster, NEW n \in Names,
           RmdirParent(d, n) \/ RmRow(d, n)
    PROVE  TreeInv'
<1>1. /\ pc = "idle" /\ pc' \in {"rmdirTable", "rmFirst"}
      /\ \E r \in Row : /\ Erases(disk, disk', d, r)
                        /\ disk[d].tab[r].sub =>
                              pc' = "rmdirTable" /\ disk[d].tab[r].cluster = call'.start
  <2>1. CASE RmdirParent(d, n)
    BY <2>1, RmdirParentDoes
  <2>2. CASE RmRow(d, n)
    BY <2>2, RmRowDoes
  <2> QED BY <2>1, <2>2
<1>2. PICK r \in Row : /\ Erases(disk, disk', d, r)
                       /\ disk[d].tab[r].sub =>
                             pc' = "rmdirTable" /\ disk[d].tab[r].cluster = call'.start
  BY <1>1
<1>3. DiskSound(disk, diskFat) /\ Tree(disk, 0, 0) /\ RootSound(disk)
  BY <1>1, InNothing DEF Sound, NamedInv, TreeInv, Formatted
<1>4. disk[d].tab[r].sub => disk[d].tab[r].cluster = InRemoval'
  BY <1>2 DEF InRemoval
<1>5. Tree(disk', 0, InRemoval')
  BY <1>2, <1>3, <1>4, TreeErased
<1>6. InMaking' = 0 /\ CallBrings'
  BY <1>1 DEF InMaking, CallBrings
<1>7. RootSound(disk')
  BY <1>2, <1>3, RootRowSet DEF Erases
<1> QED BY <1>5, <1>6, <1>7 DEF TreeInv

LEMMA TreeTables ==
    ASSUME Sound, TreeInv, MkdirTable \/ RmdirTable
    PROVE  TreeInv'
<1>1. CASE MkdirTable
  <2>1. pc = "mkdirTable" /\ pc' = "idle" /\ call.start \in FileCluster
        /\ \A x \in DataCluster : x # call.start => disk'[x] = disk[x]
    BY <1>1, MkdirTableDoes
  <2>2. Tree(disk, call.start, 0) /\ call.name \in Names /\ RootSound(disk)
    BY <2>1 DEF TreeInv, InMaking, InRemoval, CallBrings, Formatted
  <2>3. Tree(disk', 0, 0)
    BY <1>1, <2>2, TreeOpened
  <2>4. InMaking' = 0 /\ InRemoval' = 0 /\ CallBrings'
    BY <2>1 DEF InMaking, InRemoval, CallBrings
  <2>5. RootSound(disk')
    BY <2>1, <2>2, Constants DEF RootSound, FileCluster
  <2> QED BY <2>3, <2>4, <2>5 DEF TreeInv
<1>2. CASE RmdirTable
  <2>1. pc = "rmdirTable" /\ pc' = "rmdirFat" /\ call.start \in FileCluster
        /\ \A x \in DataCluster : x # call.start => disk'[x] = disk[x]
    BY <1>2, RmdirTableDoes
  <2>2. Tree(disk, 0, call.start) /\ RootSound(disk)
    BY <2>1 DEF TreeInv, InMaking, InRemoval, Formatted
  <2>3. Tree(disk', 0, 0)
    BY <1>2, <2>2, TreeClosed
  <2>4. InMaking' = 0 /\ InRemoval' = 0 /\ CallBrings'
    BY <2>1 DEF InMaking, InRemoval, CallBrings
  <2>5. RootSound(disk')
    BY <2>1, <2>2, Constants DEF RootSound, FileCluster
  <2> QED BY <2>3, <2>4, <2>5 DEF TreeInv
<1> QED BY <1>1, <1>2

LEMMA TreeFormat ==
    ASSUME Sound, TreeInv, LeakInv, FormatSignature \/ FormatFat \/ FormatRoot \/ Boot
    PROVE  TreeInv'
<1>1. CASE FormatRoot
  <2>1. pc' = "idle" /\ HeaderRows(disk) /\ IInv
    BY <1>1 DEF FormatRoot, Return, TreeInv, Tree, Sound
  <2>2. Tree(disk', 0, 0) /\ RootSound(disk')
    BY <1>1, <2>1, TreeFormatted
  <2>3. InMaking' = 0 /\ InRemoval' = 0 /\ CallBrings'
    BY <2>1 DEF InMaking, InRemoval, CallBrings
  <2> QED BY <2>2, <2>3 DEF TreeInv
<1>2. CASE FormatSignature \/ FormatFat
  <2>1. disk' = disk /\ pc \in {"off", "fmtFat"} /\ pc' \in {"fmtFat", "fmtRoot"}
    BY <1>2 DEF FormatSignature, FormatFat
  <2> QED BY <2>1, TreeSame DEF Formatted
<1>3. ~ Boot
  BY DEF Boot, LeakInv
<1> QED BY <1>1, <1>2, <1>3

LEMMA TreeStops ==
    ASSUME Sound, TreeInv, FillOverrun \/ RmRunaway \/ RmFat \/ RmdirFat
    PROVE  TreeInv'
<1>1. /\ disk' = disk /\ pc \in {"fill", "rmFirst", "rmLoop", "rmdirFat"}
      /\ pc' \in {"idle", "wild", "spin", "overrun", "rmLast"}
  BY DEF FillOverrun, RmRunaway, RmFat, RmdirFat, Return, durable
<1> QED BY <1>1, TreeSame DEF Formatted

LEMMA TreeStutter == ASSUME TreeInv, UNCHANGED vars PROVE TreeInv'
<1>1. disk' = disk /\ pc' = pc /\ call' = call
  BY DEF vars, durable
<1>2. InMaking' = InMaking /\ InRemoval' = InRemoval /\ CallBrings' /\ (Formatted' <=> Formatted)
  BY <1>1 DEF InMaking, InRemoval, CallBrings, Formatted, TreeInv
<1> QED BY <1>1, <1>2 DEF TreeInv

LEMMA TreeNext ==
    ASSUME Sound, TreeInv, LeakInv, ZeroName \notin Names, [PoweredNext]_vars
    PROVE  TreeInv'
<1>1. CASE Continue
  BY <1>1, TreeFormat, TreeMkdirParent, TreeTables, TreeFill, TreeStops, TreeWriteRow, TreeRm
     DEF Continue
<1>2. CASE Request
  BY <1>2, TreeRead, TreeMkdirFat, TreeWriteFirst, TreeDelete DEF Request
<1> QED BY <1>1, <1>2, TreeFormat, TreeStutter DEF PoweredNext, Wild, Lost

-----------------------------------------------------------------------------
(* What a shell reads *)

LEMMA FirstRow ==
    ASSUME NEW t, NEW n, NEW r0 \in Nat, MatchFrom(t, n, r0) # {}
    PROVE  \E r \in Row : /\ IsFirst(MatchFrom(t, n, r0), r)
                          /\ r >= r0 /\ t[r].name = n
<1>1. MatchFrom(t, n, r0) \subseteq Nat
  BY Constants DEF MatchFrom
<1>2. PICK r \in MatchFrom(t, n, r0) : \A y \in MatchFrom(t, n, r0) : r <= y
  BY <1>1, LeastNumber
<1> QED BY <1>2 DEF MatchFrom, IsFirst

LEMMA FirstUnique ==
    ASSUME NEW S, NEW x \in Row, NEW y \in Row, IsFirst(S, x), IsFirst(S, y)
    PROVE  x = y
<1>1. x \in Nat /\ y \in Nat /\ x <= y /\ y <= x
  BY Constants DEF IsFirst
<1> QED BY <1>1

\* The row that read and read_directory settle on.
LEMMA ReadRowFound ==
    ASSUME NEW t, NEW n, MatchFrom(t, n, 0) # {}
    PROVE  /\ ReadRow(t, n) \in Row /\ t[ReadRow(t, n)].name = n
           /\ IsFirst(MatchFrom(t, n, 0), ReadRow(t, n))
<1>1. \E r \in Row : IsFirst(MatchFrom(t, n, 0), r)
  BY FirstRow
<1>2. ReadRow(t, n) \in Row /\ IsFirst(MatchFrom(t, n, 0), ReadRow(t, n))
  BY <1>1 DEF ReadRow
<1> QED BY <1>2 DEF IsFirst, MatchFrom

LEMMA RowKinds == \A r \in Row : r = 0 \/ r = 1 \/ r >= 2
BY Constants

\* What read_directory loads is a folder of the directory, by its name, the
\* directory itself or the one row 1 names.
LEMMA FolderRead ==
    ASSUME IInv, TreeInv, NEW d \in DataCluster, NEW n,
           ReadDirectoryCode(disk[d].tab, n) = 0
    PROVE  \E r \in Row :
              /\ IsFirst(MatchFrom(disk[d].tab, n, 0), r)
              /\ ValidDir(disk[d].tab) /\ disk[d].tab[r].name = n /\ disk[d].tab[r].sub
              /\ disk[d].tab[r].cluster \in DataCluster
              /\ DirectoryRead(d, n) = disk[disk[d].tab[r].cluster].tab
<1> DEFINE t == disk[d].tab
           r == ReadRow(t, n)
<1>1. t[0].used /\ MatchFrom(t, n, 0) # {} /\ t[r].sub
  BY DEF ReadDirectoryCode, ReadRow
<1>2. r \in Row /\ t[r].name = n /\ IsFirst(MatchFrom(t, n, 0), r)
  BY <1>1, ReadRowFound
<1>3. ValidDir(t)
  BY <1>1 DEF TreeInv, Tree, HeaderRows, ValidDir
<1>4. t[r].cluster \in DataCluster
  <2>1. CASE r = 0 \/ r = 1
    BY <1>3, <2>1 DEF TreeInv, Tree, HeaderRows
  <2>2. CASE r >= 2
    BY <1>1, <1>2, <2>2 DEF IInv, RowsOffRoot, FileCluster
  <2> QED BY <1>2, <2>1, <2>2, RowKinds
<1>5. DirectoryRead(d, n) = disk[t[r].cluster].tab
  BY DEF DirectoryRead
<1> QED BY <1>1, <1>2, <1>3, <1>4, <1>5

LEMMA DirectoryTyped ==
    ASSUME IInv, TreeInv, NEW d, NEW n
    PROVE  DirectoryRead(d, n) \in Table
<1>1. CASE d \in DataCluster /\ ReadDirectoryCode(disk[d].tab, n) = 0
  BY <1>1, FolderRead DEF IInv, TypeOK, Block
<1>2. CASE ~ (d \in DataCluster /\ ReadDirectoryCode(disk[d].tab, n) = 0)
  BY <1>2, BlankTypes DEF DirectoryRead
<1> QED BY <1>1, <1>2

\* What read loads is the start of a file the directory has by its name.
LEMMA FileReads ==
    ASSUME IInv, NamedInv, TreeInv, ZeroName \notin Names,
           NEW d \in DataCluster, NEW n \in Names, ReadCode(disk[d].tab, n, ClusterSize) = 0
    PROVE  \E r \in Row :
              /\ IsFirst(MatchFrom(disk[d].tab, n, 0), r)
              /\ LiveIn(disk, d, r) /\ disk[d].tab[r].name = n /\ ~ disk[d].tab[r].sub
              /\ FileRead(d, n) = disk[disk[d].tab[r].cluster].data.p
              /\ FileRead(d, n) \in Payloads
<1> DEFINE t == disk[d].tab
           r == ReadRow(t, n)
<1>1. t[0].used /\ MatchFrom(t, n, 0) # {} /\ ~ t[r].sub
  BY DEF ReadCode
<1>2. r \in Row /\ t[r].name = n /\ IsFirst(MatchFrom(t, n, 0), r)
  BY <1>1, ReadRowFound
<1>3. ValidDir(t)
  BY <1>1 DEF TreeInv, Tree, HeaderRows, ValidDir
<1>4. r >= 2
  BY <1>1, <1>2, <1>3, RowKinds DEF TreeInv, Tree, HeaderRows, ValidDir
<1>5. t[r].used
  BY <1>2, <1>4 DEF NamedInv, DiskSound, UseIsNamed
<1>6. LiveIn(disk, d, r)
  BY <1>2, <1>3, <1>4, <1>5 DEF LiveIn
<1>7. FileRead(d, n) = disk[t[r].cluster].data.p
  BY DEF FileRead
<1>8. disk[t[r].cluster].data.p \in Payloads
  BY <1>1, <1>2, <1>6 DEF TreeInv, Tree, EntriesRead
<1> QED BY <1>1, <1>2, <1>6, <1>7, <1>8

LEMMA FileTyped ==
    ASSUME IInv, NamedInv, TreeInv, ZeroName \notin Names, NEW d, NEW n \in Names
    PROVE  FileRead(d, n) \in Payloads
<1>1. CASE d \in DataCluster /\ ReadCode(disk[d].tab, n, ClusterSize) = 0
  BY <1>1, FileReads
<1>2. CASE ~ (d \in DataCluster /\ ReadCode(disk[d].tab, n, ClusterSize) = 0)
  BY <1>2, ShellAssumption DEF FileRead
<1> QED BY <1>1, <1>2

\* read gives what a plain file holds.
LEMMA SureReads ==
    ASSUME IInv, NamedInv, TreeInv, ZeroName \notin Names, NEW d \in DataCluster,
           NEW n \in Names, \E r \in Row : PlainFile(d, n, r)
    PROVE  ReadCode(disk[d].tab, n, ClusterSize) = 0 /\ Contents(d, n) = FileRead(d, n)
<1> DEFINE t == disk[d].tab
           r0 == ReadRow(t, n)
           c == CHOOSE r \in Row : PlainFile(d, n, r)
<1>1. c \in Row /\ PlainFile(d, n, c)
  OBVIOUS
<1> HIDE DEF c
<1>2. PICK r \in Row : r = c
  BY <1>1
<1>3. /\ Live(d, r) /\ t[r].name = n /\ ~ t[r].sub /\ t[r].size <= ClusterSize
      /\ n # t[0].name /\ n # t[1].name
  BY <1>1, <1>2 DEF PlainFile, EntryOf
<1>4. r >= 2 /\ ValidDir(t) /\ t[r].used /\ t[0].used
  BY <1>3 DEF Live, ValidDir
<1>5. MatchFrom(t, n, 0) # {}
  <2> HIDE DEF t
  <2>1. r \in Nat
    BY Constants
  <2>2. r >= 0
    BY <2>1
  <2>3. r \in MatchFrom(t, n, 0)
    BY <1>3, <2>2 DEF MatchFrom
  <2> QED BY <2>3
<1>6. r0 \in Row /\ t[r0].name = n
  BY <1>5, ReadRowFound
<1> HIDE DEF r0
<1>7. r0 >= 2
  BY <1>3, <1>6, RowKinds
<1>8. t[r0].used
  BY <1>6, <1>7 DEF NamedInv, DiskSound, UseIsNamed
<1>9. Live(d, r0)
  BY <1>4, <1>6, <1>7, <1>8 DEF Live
<1>10. r0 = r
  BY <1>3, <1>6, <1>9 DEF IInv, NamesUnique, EntryOf
<1>11. t[r].size \in Nat /\ ClusterSize \in Nat
  <2>1. t \in Table
    BY DEF IInv, TypeOK, Block
  <2>2. t[r] \in Entry
    BY <2>1 DEF Table
  <2>3. \A x \in Entry : x.size \in Sizes \cup {0}
    BY DEF Entry
  <2>4. \A x \in Sizes \cup {0} : x \in Nat
    BY SizeAssumption
  <2> HIDE DEF t
  <2> QED BY <2>2, <2>3, <2>4, SizeAssumption
<1>12. ~ (ClusterSize < t[r].size)
  BY <1>3, <1>11
<1>13. ReadCode(t, n, ClusterSize) = 0
  BY <1>3, <1>4, <1>5, <1>10, <1>12 DEF ReadCode, r0
<1>14. Contents(d, n) = disk[t[r].cluster].data.p
  BY <1>2 DEF Contents, EntryOf, c
<1>15. FileRead(d, n) = disk[t[r].cluster].data.p
  BY <1>10, <1>13 DEF FileRead, r0
<1> QED BY <1>13, <1>14, <1>15

\* What a mv notes of its file.
Noted(b, d, n) == IF b THEN Contents(d, n) ELSE Unread

LEMMA NotedTyped ==
    ASSUME IInv, NamedInv, TreeInv, ZeroName \notin Names, NEW d, NEW n \in Names, NEW to, NEW as,
           NEW b, b => Sure(d, n, to, as)
    PROVE  /\ Noted(b, d, n) \in Payloads
           /\ b => /\ Noted(b, d, n) = FileRead(d, n)
                   /\ ReadCode(disk[d].tab, n, ClusterSize) = 0
<1>1. CASE b
  <2>1. d \in DataCluster /\ \E r \in Row : PlainFile(d, n, r)
    BY <1>1 DEF Sure
  <2>2. ReadCode(disk[d].tab, n, ClusterSize) = 0 /\ Contents(d, n) = FileRead(d, n)
    BY <2>1, SureReads
  <2> QED BY <1>1, <2>2, FileTyped DEF Noted
<1>2. CASE ~ b
  BY <1>2, ShellAssumption DEF Noted
<1> QED BY <1>1, <1>2

-----------------------------------------------------------------------------
(* The path *)

\* A path starts at the root.
IsPath(p) == p \in Seq(AllNames) /\ Len(p) > 0 /\ p[1] = RootName

LEMMA FrontOf ==
    ASSUME NEW p, IsPath(p), Len(p) > 1
    PROVE  IsPath(Front(p)) /\ Len(Front(p)) = Len(p) - 1 /\ \A i \in 1 .. Len(p) - 1 : Front(p)[i] = p[i]
<1>1. Front(p) = SubSeq(p, 1, Len(p) - 1) /\ Len(p) \in Nat
  BY DEF Front, IsPath
<1> QED BY <1>1 DEF IsPath

LEMMA AppendOf ==
    ASSUME NEW p, IsPath(p), NEW n \in AllNames
    PROVE  /\ IsPath(Append(p, n)) /\ Len(Append(p, n)) = Len(p) + 1
           /\ Append(p, n)[Len(p) + 1] = n /\ \A i \in 1 .. Len(p) : Append(p, n)[i] = p[i]
BY DEF IsPath

LEMMA PathAfterTyped ==
    ASSUME NEW p, IsPath(p), NEW n \in AllNames, NEW t
    PROVE  IsPath(PathAfter(p, n, t))
<1>1. Last(p) # RootName => Len(p) > 1
  BY DEF Last, IsPath
<1> QED BY <1>1, FrontOf, AppendOf DEF PathAfter

-----------------------------------------------------------------------------
(* What the commands do to the memory of a shell *)

\* The memory of shell s becomes this; the others' stays.
Turns(s, st, dir, path, job, stale, strayed) ==
    /\ shell'[s] = [st |-> st, dir |-> dir, path |-> path, job |-> job,
                    stale |-> stale, strayed |-> strayed]
    /\ \A q \in Shells : q # s => shell'[q] = shell[q]
    /\ shell' = [q \in Shells |-> shell'[q]]

LEMMA TurnsState ==
    ASSUME FitInv, NEW s \in Shells, NEW x, shell' = [shell EXCEPT ![s].st = x]
    PROVE  Turns(s, x, shell[s].dir, shell[s].path, shell[s].job,
                 shell[s].stale, shell[s].strayed)
<1>1. shell \in [Shells -> State] /\ shell[s] \in State
  BY DEF FitInv
<1> QED BY <1>1 DEF State, Turns

LEMMA TurnsFields ==
    ASSUME NEW s, NEW st, NEW dir, NEW path, NEW job, NEW stale, NEW strayed,
           Turns(s, st, dir, path, job, stale, strayed)
    PROVE  /\ shell'[s].st = st /\ shell'[s].dir = dir /\ shell'[s].path = path
           /\ shell'[s].job = job /\ shell'[s].stale = stale /\ shell'[s].strayed = strayed
BY DEF Turns

LEMMA OnlyState ==
    ASSUME FitInv, NEW s \in Shells, NEW x, shell' = [shell EXCEPT ![s].st = x]
    PROVE  /\ shell'[s].st = x /\ shell'[s].dir = shell[s].dir /\ shell'[s].path = shell[s].path
           /\ shell'[s].job = shell[s].job /\ shell'[s].stale = shell[s].stale
           /\ shell'[s].strayed = shell[s].strayed
<1>1. Turns(s, x, shell[s].dir, shell[s].path, shell[s].job, shell[s].stale, shell[s].strayed)
  BY TurnsState
<1> QED BY <1>1, TurnsFields

LEMMA CdRootTurns ==
    ASSUME FitInv, NEW s \in Shells, cd_root(s)
    PROVE  Turns(s, "prompt", DirectoryRead(ROOT_CLUSTER_NUMBER, RootName),
                 Append(shell[s].path, RootName), shell[s].job,
                 shell[s].stale, shell[s].strayed)
<1>1. PICK t : t = DirectoryRead(ROOT_CLUSTER_NUMBER, RootName)
  OBVIOUS
<1>2. PICK p : p = Append(shell[s].path, RootName)
  OBVIOUS
<1>3. shell' = [shell EXCEPT ![s].st = "prompt", ![s].dir = t, ![s].path = p]
  BY <1>1, <1>2 DEF cd_root
<1>4. shell \in [Shells -> State] /\ shell[s] \in State
  BY DEF FitInv
<1>5. Turns(s, "prompt", t, p, shell[s].job, shell[s].stale, shell[s].strayed)
  BY <1>3, <1>4 DEF State, Turns
<1> QED BY <1>1, <1>2, <1>5

LEMMA CdTurns ==
    ASSUME FitInv, NEW s \in Shells, NEW n, cd(s, n)
    PROVE  LET t == DirectoryRead(get_cluster_number(s), n)
               p == PathAfter(shell[s].path, n, t)
           IN  \/ Turns(s, "overrun", t, shell[s].path, shell[s].job, FALSE,
                        shell[s].strayed \/ n = shell[s].dir[0].name)
               \/ /\ ~ (Len(p) > MaxPath)
                  /\ Turns(s, "prompt", t, p, shell[s].job, FALSE,
                           shell[s].strayed \/ n = shell[s].dir[0].name)
<1>1. PICK t : t = DirectoryRead(get_cluster_number(s), n)
  OBVIOUS
<1>2. PICK p : p = PathAfter(shell[s].path, n, t)
  OBVIOUS
<1>3. PICK full : full = (Len(p) > MaxPath)
  OBVIOUS
<1>4. shell' = [shell EXCEPT
            ![s].st = IF full THEN "overrun" ELSE @,
            ![s].path = IF full THEN @ ELSE p,
            ![s].dir = t,
            ![s].stale = FALSE,
            ![s].strayed = @ \/ n = shell[s].dir[0].name]
  BY <1>1, <1>2, <1>3 DEF cd
<1>5. shell[s].st = "prompt" /\ shell \in [Shells -> State] /\ shell[s] \in State
  BY DEF cd, FitInv
<1>6. CASE full
  <2>1. Turns(s, "overrun", t, shell[s].path, shell[s].job, FALSE,
              shell[s].strayed \/ n = shell[s].dir[0].name)
    BY <1>4, <1>5, <1>6 DEF State, Turns
  <2> QED BY <1>1, <2>1
<1>7. CASE ~ full
  <2>1. Turns(s, "prompt", t, p, shell[s].job, FALSE,
              shell[s].strayed \/ n = shell[s].dir[0].name)
    BY <1>4, <1>5, <1>7 DEF State, Turns
  <2> QED BY <1>1, <1>2, <1>3, <1>7, <2>1
<1> QED BY <1>3, <1>6, <1>7

LEMMA RefreshTurns ==
    ASSUME FitInv, NEW s \in Shells, cd_refresh(s)
    PROVE  Turns(s, "prompt", DirectoryRead(get_cluster_number(s), shell[s].dir[0].name),
                 shell[s].path, NoJob, FALSE, shell[s].strayed)
<1>1. PICK t : t = DirectoryRead(get_cluster_number(s), shell[s].dir[0].name)
  OBVIOUS
<1>2. shell' = [shell EXCEPT ![s].st = "prompt", ![s].dir = t, ![s].job = NoJob, ![s].stale = FALSE]
  BY <1>1 DEF cd_refresh
<1>3. shell \in [Shells -> State] /\ shell[s] \in State
  BY DEF FitInv
<1> HIDE DEF NoJob
<1>4. Turns(s, "prompt", t, shell[s].path, NoJob, FALSE, shell[s].strayed)
  BY <1>2, <1>3 DEF State, Turns
<1> QED BY <1>1, <1>4

LEMMA CatTurns ==
    ASSUME FitInv, NEW s \in Shells, NEW n, cat(s, n)
    PROVE  \E x \in {"prompt", "overrun"} :
              Turns(s, x, shell[s].dir, shell[s].path, shell[s].job,
                    shell[s].stale, shell[s].strayed)
<1>1. PICK b : b = BufferOverrun(s, "cat", n)
  OBVIOUS
<1>2. PICK x : x = IF b THEN "overrun" ELSE shell[s].st
  OBVIOUS
<1>3. shell[s].st = "prompt" /\ shell' = [shell EXCEPT ![s].st = IF b THEN "overrun" ELSE @]
  BY <1>1 DEF cat
<1>4. shell' = [shell EXCEPT ![s].st = x]
  BY <1>2, <1>3
<1>5. x \in {"prompt", "overrun"}
  BY <1>2, <1>3
<1> QED BY <1>4, <1>5, TurnsState

\* What mv n1 n2 and cp n1 n2 note when they begin.
IsJob(s, cmd, n1, n2, j) ==
    /\ j = [cmd |-> cmd, src |-> n1, from |-> get_cluster_number(s), to |-> j.to, as |-> j.as,
            payload |-> FileRead(get_cluster_number(s), n1), sure |-> j.sure,
            was |-> Noted(j.sure, get_cluster_number(s), n1)]
    /\ j.sure = (cmd = "mv" /\ Sure(get_cluster_number(s), n1, j.to, j.as))
    /\ \/ j.to = get_cluster_number(s) /\ j.as = n2
       \/ /\ j.as = n1
          /\ \E r \in Row : r >= 2 /\ shell[s].dir[r].sub /\ j.to = shell[s].dir[r].cluster

LEMMA ReadSourceTurns ==
    ASSUME FitInv, NEW s \in Shells, NEW cmd \in {"mv", "cp"}, NEW n1, NEW n2,
           ReadSource(s, cmd, n1, n2)
    PROVE  /\ shell[s].st = "prompt" /\ sys_read(get_cluster_number(s), n1)
           /\ \E j, x : /\ IsJob(s, cmd, n1, n2, j)
                        /\ x \in {"overrun", IF cmd = "mv" THEN "delete" ELSE "write"}
                        /\ Turns(s, x, shell[s].dir, shell[s].path, j,
                                 shell[s].stale, shell[s].strayed)
<1> DEFINE d == get_cluster_number(s)
           rows == get_entry_row(s, n2)
           first == shell[s].dir[CHOOSE r \in rows : IsFirst(rows, r)]
           whither == IF rows = {} THEN d ELSE first.cluster
<1> HIDE DEF whither
<1>0. PICK to : to = whither
  OBVIOUS
<1>1. to = IF rows = {} THEN d ELSE first.cluster
  BY <1>0 DEF whither
<1>2. PICK as : as = IF rows = {} THEN n2 ELSE n1
  OBVIOUS
<1>3a. PICK z : z = (cmd = "mv" /\ Sure(d, n1, to, as))
  OBVIOUS
<1>3b. PICK w : w = Noted(z, d, n1)
  OBVIOUS
<1>3. PICK j : j = [cmd |-> cmd, src |-> n1, from |-> d, to |-> to, as |-> as,
                    payload |-> FileRead(d, n1), sure |-> z, was |-> w]
  OBVIOUS
<1>4. PICK b : b = BufferOverrun(s, cmd, n1)
  OBVIOUS
<1>5. PICK x : x = IF b THEN "overrun" ELSE IF cmd = "mv" THEN "delete" ELSE "write"
  OBVIOUS
<1>6. shell[s].st = "prompt" /\ sys_read(d, n1) /\ (rows # {} => first.sub)
  BY DEF ReadSource
<1>7. shell' = [shell EXCEPT ![s].st = x, ![s].job = j]
  BY <1>1, <1>2, <1>3a, <1>3b, <1>3, <1>4, <1>5 DEF ReadSource, Noted
<1>8. IsJob(s, cmd, n1, n2, j)
  <2>1. j.to = to /\ j.as = as /\ j.sure = z
    BY <1>3
  <2>1a. /\ j = [cmd |-> cmd, src |-> n1, from |-> d, to |-> j.to, as |-> j.as,
                 payload |-> FileRead(d, n1), sure |-> j.sure, was |-> Noted(j.sure, d, n1)]
         /\ j.sure = (cmd = "mv" /\ Sure(d, n1, j.to, j.as))
    BY <1>3a, <1>3b, <1>3, <2>1
  <2>2. CASE rows = {}
    BY <1>1, <1>2, <2>1, <2>1a, <2>2 DEF IsJob
  <2>3. CASE rows # {}
    <3>1. PICK r \in Row : IsFirst(rows, r) /\ r >= 2
      BY <2>3, FirstRow DEF get_entry_row
    <3>2. r \in rows
      BY <3>1 DEF IsFirst
    <3>3. \E y \in rows : IsFirst(rows, y)
      BY <3>1, <3>2
    <3> DEFINE y == CHOOSE r1 \in rows : IsFirst(rows, r1)
    <3>4. y \in rows
      BY <3>3
    <3>5. y \in Row /\ y >= 2
      BY <3>4 DEF get_entry_row, MatchFrom
    <3>6. first = shell[s].dir[y] /\ first.sub /\ as = n1 /\ to = shell[s].dir[y].cluster
      BY <1>1, <1>2, <1>6, <2>3
    <3> HIDE DEF y, rows, first
    <3>7. \E r1 \in Row : r1 >= 2 /\ shell[s].dir[r1].sub /\ to = shell[s].dir[r1].cluster
      BY <3>5, <3>6
    <3> QED BY <2>1, <2>1a, <3>6, <3>7 DEF IsJob
  <2> QED BY <2>2, <2>3
<1>9. shell \in [Shells -> State] /\ shell[s] \in State
  BY DEF FitInv
<1>10. Turns(s, x, shell[s].dir, shell[s].path, j, shell[s].stale, shell[s].strayed)
  BY <1>7, <1>9 DEF State, Turns
<1> QED BY <1>5, <1>6, <1>8, <1>10

LEMMA WriteTargetTurns ==
    ASSUME FitInv, NEW s \in Shells, WriteTarget(s)
    PROVE  Turns(s, IF shell[s].job.cmd = "mv" THEN "refresh" ELSE "prompt",
                 shell[s].dir, shell[s].path,
                 IF shell[s].job.cmd = "mv" THEN shell[s].job ELSE NoJob,
                 TRUE, shell[s].strayed)
<1>1. PICK x : x = IF shell[s].job.cmd = "mv" THEN "refresh" ELSE "prompt"
  OBVIOUS
<1>2. PICK j : j = IF shell[s].job.cmd = "mv" THEN shell[s].job ELSE NoJob
  OBVIOUS
<1>3. shell \in [Shells -> State] /\ shell[s] \in State
  BY DEF FitInv
<1> HIDE DEF NoJob
<1>4. shell' = [shell EXCEPT ![s].st = x,
          ![s].job = IF shell[s].job.cmd = "mv" THEN @ ELSE NoJob,
          ![s].stale = TRUE]
  BY <1>1 DEF WriteTarget
<1>5. Turns(s, x, shell[s].dir, shell[s].path, j, TRUE, shell[s].strayed)
  BY <1>2, <1>3, <1>4 DEF State, Turns
<1> QED BY <1>1, <1>2, <1>5

LEMMA FitTurns ==
    ASSUME FitInv, NEW s \in Shells, NEW st, NEW dir, NEW path, NEW job, NEW stale, NEW strayed,
           Turns(s, st, dir, path, job, stale, strayed),
           st \in {"start", "prompt", "refresh", "delete", "write", "overrun"},
           dir \in Table, job \in Job, stale \in BOOLEAN, strayed \in BOOLEAN,
           st # "start", IsPath(path), Len(path) <= MaxPath,
           st \in {"delete", "write"} =>
              job.src \in Names /\ job.as \in Names /\ job.cmd # "none"
    PROVE  FitInv'
<1>1. shell'[s] \in State
  BY DEF Turns, State, IsPath
<1>2. MemoryFits(shell'[s])
  BY DEF Turns, MemoryFits, IsPath
<1>3. \A q \in Shells : q # s => shell'[q] \in State /\ MemoryFits(shell'[q])
  BY DEF Turns, FitInv
<1>4. \A q \in Shells : shell'[q] \in State /\ MemoryFits(shell'[q])
  BY <1>1, <1>2, <1>3
<1>5. shell' \in [Shells -> State]
  BY <1>4 DEF Turns
<1> QED BY <1>4, <1>5 DEF FitInv

\* What is known of the memory of a shell.
LEMMA Fits ==
    ASSUME FitInv, NEW s \in Shells
    PROVE  /\ shell[s].dir \in Table /\ shell[s].job \in Job
           /\ shell[s].stale \in BOOLEAN /\ shell[s].strayed \in BOOLEAN
           /\ shell[s].st \in {"start", "prompt", "refresh", "delete", "write", "overrun"}
           /\ shell[s].st = "start" => shell[s].path = << >>
           /\ shell[s].st # "start" => IsPath(shell[s].path) /\ Len(shell[s].path) <= MaxPath
           /\ shell[s].st \in {"delete", "write"} =>
                 /\ shell[s].job.src \in Names /\ shell[s].job.as \in Names
                 /\ shell[s].job.cmd # "none"
           /\ get_cluster_number(s) \in Cluster /\ shell[s].dir[0].name \in AllNames
<1>1. shell[s] \in State /\ MemoryFits(shell[s])
  BY DEF FitInv
<1>2. shell[s].dir \in Table /\ shell[s].path \in Seq(AllNames)
  BY <1>1 DEF State
<1>3. shell[s].dir[0] \in Entry
  BY <1>2, Constants DEF Table
<1>4. get_cluster_number(s) \in Cluster /\ shell[s].dir[0].name \in AllNames
  BY <1>3 DEF Entry, get_cluster_number
<1> QED BY <1>1, <1>2, <1>4 DEF MemoryFits, State, IsPath

\* What the disk and the shells are, before a step and after it.
Kept == IInv /\ NamedInv /\ LeakInv /\ TreeInv /\ FitInv

LEMMA FitCd ==
    ASSUME Kept, NEW s \in Shells,
           cd_root(s) \/ cd_refresh(s) \/ \E n \in AllNames : cd(s, n)
    PROVE  FitInv'
<1>0. IInv /\ TreeInv /\ FitInv
  BY DEF Kept
<1>1. CASE cd_root(s)
  <2>1. shell[s].st = "start"
    BY <1>1 DEF cd_root
  <2>2. IsPath(Append(shell[s].path, RootName)) /\ Len(Append(shell[s].path, RootName)) <= MaxPath
    <3>1. shell[s].path = << >> /\ RootName \in AllNames
      BY <1>0, <2>1, Fits DEF AllNames
    <3>2. IsPath(Append(<< >>, RootName)) /\ Len(Append(<< >>, RootName)) <= MaxPath
      BY <3>1, ShellAssumption DEF IsPath
    <3> QED BY <3>1, <3>2
  <2>3. DirectoryRead(ROOT_CLUSTER_NUMBER, RootName) \in Table
    BY <1>0, DirectoryTyped
  <2> QED BY <1>0, <1>1, <2>2, <2>3, Fits, CdRootTurns, FitTurns
<1>2. CASE cd_refresh(s)
  <2>1. shell[s].st = "refresh"
    BY <1>2 DEF cd_refresh
  <2>2. DirectoryRead(get_cluster_number(s), shell[s].dir[0].name) \in Table
    BY <1>0, DirectoryTyped
  <2>3. NoJob \in Job
    BY ShellAssumption, Constants DEF NoJob, Job, AllNames
  <2>4. PICK t : t = DirectoryRead(get_cluster_number(s), shell[s].dir[0].name)
    OBVIOUS
  <2>5. t \in Table /\ Turns(s, "prompt", t, shell[s].path, NoJob, FALSE, shell[s].strayed)
    BY <1>0, <1>2, <2>2, <2>4, RefreshTurns
  <2> HIDE DEF NoJob
  <2> QED BY <1>0, <2>1, <2>3, <2>5, Fits, FitTurns
<1>3. ASSUME NEW n \in AllNames, cd(s, n)
      PROVE  FitInv'
  <2>1. shell[s].st = "prompt"
    BY <1>3 DEF cd
  <2>2. PICK t : t = DirectoryRead(get_cluster_number(s), n)
    OBVIOUS
  <2>3. t \in Table
    BY <1>0, <2>2, DirectoryTyped
  <2>4. PICK p : p = PathAfter(shell[s].path, n, t)
    OBVIOUS
  <2>5. IsPath(shell[s].path) /\ IsPath(p)
    BY <1>0, <2>1, <2>4, Fits, PathAfterTyped
  <2>6. PICK b : b = (shell[s].strayed \/ n = shell[s].dir[0].name)
    OBVIOUS
  <2>7. b \in BOOLEAN
    BY <2>6, Zenon
  <2>8. \/ Turns(s, "overrun", t, shell[s].path, shell[s].job, FALSE, b)
        \/ ~ (Len(p) > MaxPath) /\ Turns(s, "prompt", t, p, shell[s].job, FALSE, b)
    BY <1>0, <1>3, <2>2, <2>4, <2>6, CdTurns
  <2>9. Len(shell[s].path) <= MaxPath /\ (~ (Len(p) > MaxPath) => Len(p) <= MaxPath)
    BY <1>0, <2>1, <2>5, Fits, ShellAssumption DEF IsPath
  <2> QED BY <1>0, <2>3, <2>5, <2>7, <2>8, <2>9, Fits, FitTurns
<1> QED BY <1>1, <1>2, <1>3

LEMMA FitOther ==
    ASSUME Kept, ZeroName \notin Names, NEW s \in Shells,
           \/ \E n \in Names : mkdir(s, n) \/ rm(s, n) \/ mv_nothing(s, n) \/ cat(s, n)
           \/ \E n1, n2 \in Names, cmd \in {"mv", "cp"} : ReadSource(s, cmd, n1, n2)
           \/ DeleteSource(s) \/ WriteTarget(s) \/ Overrun(s)
    PROVE  FitInv'
<1>0. IInv /\ NamedInv /\ TreeInv /\ FitInv
  BY DEF Kept
<1>1. ASSUME NEW n \in Names, mkdir(s, n) \/ rm(s, n) \/ mv_nothing(s, n)
      PROVE  FitInv'
  <2>1. shell' = [shell EXCEPT ![s].st = "refresh"] /\ shell[s].st = "prompt"
    BY <1>1 DEF mkdir, rm, mv_nothing
  <2> QED BY <1>0, <2>1, TurnsState, Fits, FitTurns
<1>2. ASSUME NEW n \in Names, cat(s, n)
      PROVE  FitInv'
  <2>1. shell[s].st = "prompt"
    BY <1>2 DEF cat
  <2>2. PICK x \in {"prompt", "overrun"} :
           Turns(s, x, shell[s].dir, shell[s].path, shell[s].job, shell[s].stale, shell[s].strayed)
    BY <1>0, <1>2, CatTurns
  <2> QED BY <1>0, <2>1, <2>2, Fits, FitTurns
<1>3. ASSUME NEW n1 \in Names, NEW n2 \in Names, NEW cmd \in {"mv", "cp"},
             ReadSource(s, cmd, n1, n2)
      PROVE  FitInv'
  <2>1. shell[s].st = "prompt"
    BY <1>0, <1>3, ReadSourceTurns
  <2>2. PICK j, x : /\ IsJob(s, cmd, n1, n2, j)
                    /\ x \in {"overrun", IF cmd = "mv" THEN "delete" ELSE "write"}
                    /\ Turns(s, x, shell[s].dir, shell[s].path, j,
                             shell[s].stale, shell[s].strayed)
    BY <1>0, <1>3, ReadSourceTurns
  <2>3. j \in Job /\ j.src \in Names /\ j.as \in Names /\ j.cmd # "none"
    <3>1. FileRead(get_cluster_number(s), n1) \in Payloads
      BY <1>0, FileTyped
    <3>2. get_cluster_number(s) \in Cluster /\ shell[s].dir \in Table
      BY <1>0, Fits
    <3>3. j.to \in Cluster /\ j.as \in Names
      BY <2>2, <3>2 DEF IsJob, Table, Entry
    <3>4. PICK b, w : b = j.sure /\ w = Noted(b, get_cluster_number(s), n1)
      OBVIOUS
    <3>4a. b = (cmd = "mv" /\ Sure(get_cluster_number(s), n1, j.to, j.as))
      BY <2>2, <3>4 DEF IsJob
    <3>5. b \in BOOLEAN
      BY <3>4a, Zenon
    <3>5a. w \in Payloads
      <4>1. b => Sure(get_cluster_number(s), n1, j.to, j.as)
        BY <3>4a, Zenon
      <4> QED BY <1>0, <3>4, <4>1, NotedTyped
    <3>6. j = [cmd |-> cmd, src |-> n1, from |-> get_cluster_number(s), to |-> j.to,
               as |-> j.as, payload |-> FileRead(get_cluster_number(s), n1), sure |-> b,
               was |-> w]
      BY <2>2, <3>4 DEF IsJob
    <3>7. j.src = n1 /\ j.cmd # "none"
      BY <3>6
    <3> QED BY <3>1, <3>2, <3>3, <3>5, <3>5a, <3>6, <3>7 DEF Job, AllNames
  <2>4. x \in {"overrun", "delete", "write"}
    BY <2>2
  <2> QED BY <1>0, <2>1, <2>2, <2>3, <2>4, Fits, FitTurns
<1>4. CASE DeleteSource(s)
  <2>1. shell' = [shell EXCEPT ![s].st = "write"] /\ shell[s].st = "delete"
    BY <1>4 DEF DeleteSource
  <2> QED BY <1>0, <2>1, TurnsState, Fits, FitTurns
<1>5. CASE WriteTarget(s)
  <2>1. shell[s].st = "write"
    BY <1>5 DEF WriteTarget
  <2>2. NoJob \in Job
    BY ShellAssumption, Constants DEF NoJob, Job, AllNames
  <2>3. PICK j : j = IF shell[s].job.cmd = "mv" THEN shell[s].job ELSE NoJob
    OBVIOUS
  <2>4. PICK x : x = IF shell[s].job.cmd = "mv" THEN "refresh" ELSE "prompt"
    OBVIOUS
  <2>5. Turns(s, x, shell[s].dir, shell[s].path, j, TRUE, shell[s].strayed)
    BY <1>0, <1>5, <2>3, <2>4, WriteTargetTurns
  <2>6. j \in Job /\ x \in {"refresh", "prompt"}
    BY <1>0, <2>2, <2>3, <2>4, Fits
  <2> QED BY <1>0, <2>1, <2>5, <2>6, Fits, FitTurns
<1>6. CASE Overrun(s)
  <2>1. shell' = shell
    BY <1>6 DEF Overrun, shellVars
  <2> QED BY <1>0, <2>1 DEF FitInv
<1> QED BY <1>1, <1>2, <1>3, <1>4, <1>5, <1>6

-----------------------------------------------------------------------------
(* What the shells ask of the driver *)

LEMMA CallsAreRequests ==
    ASSUME NEW d
    PROVE  /\ \A n \in AllNames : sys_read_directory(d, n) => [Request]_vars
           /\ \A n \in Names : sys_read(d, n) => [Request]_vars
           /\ \A n \in Names, size \in Sizes : \A p : size = 0 \/ p \in Payloads =>
                 (sys_write(d, n, size, p) => [Request]_vars)
           /\ \A n \in Names : sys_delete(d, n) => [Request]_vars
<1>1. ASSUME NEW n \in AllNames, sys_read_directory(d, n)
      PROVE  [Request]_vars
  BY <1>1 DEF sys_read_directory, Request
<1>2. ASSUME NEW n \in Names, sys_read(d, n)
      PROVE  [Request]_vars
  <2>1. CASE d \in DataCluster
    <3>1. Read(d, n, ClusterSize) \/ ReadRunaway(d, n, ClusterSize)
      BY <1>2, <2>1 DEF sys_read
    <3> QED BY <1>2, <2>1, <3>1, ShellAssumption DEF Request
  <2>2. CASE d \notin DataCluster
    BY <1>2, <2>2 DEF sys_read
  <2> QED BY <2>1, <2>2
<1>3. ASSUME NEW n \in Names, NEW size \in Sizes, NEW p, size = 0 \/ p \in Payloads,
             sys_write(d, n, size, p)
      PROVE  [Request]_vars
  <2>1. CASE d \in DataCluster
    <3>1. WriteReject(d, n) \/ WriteOverrun(d, n)
             \/ (size = 0 /\ MkdirFat(d, n)) \/ (size # 0 /\ WriteFirst(d, n, size, p))
      BY <1>3, <2>1 DEF sys_write
    <3> QED BY <1>3, <2>1, <3>1 DEF Request
  <2>2. CASE d \notin DataCluster
    BY <1>3, <2>2 DEF sys_write
  <2> QED BY <2>1, <2>2
<1>4. ASSUME NEW n \in Names, sys_delete(d, n)
      PROVE  [Request]_vars
  BY <1>4 DEF sys_delete, Request
<1> QED BY <1>1, <1>2, <1>3, <1>4

LEMMA CommandRequests ==
    ASSUME FitInv, NEW s \in Shells, Command(s)
    PROVE  [Request]_vars
<1>1. /\ shell[s].dir[0].name \in AllNames /\ RootName \in AllNames /\ shell[s].job \in Job
      /\ shell[s].st \in {"delete", "write"} => shell[s].job.src \in Names /\ shell[s].job.as \in Names
  BY Fits DEF AllNames
<1>2. shell[s].job.payload \in Payloads /\ 0 \in Sizes /\ ClusterSize \in Sizes
  BY <1>1, ShellAssumption DEF Job
<1>3. CASE cd_root(s)
  BY <1>1, <1>3, CallsAreRequests DEF cd_root
<1>4. CASE cd_refresh(s)
  BY <1>1, <1>4, CallsAreRequests DEF cd_refresh
<1>5. ASSUME NEW n \in AllNames, cd(s, n)
      PROVE  [Request]_vars
  BY <1>5, CallsAreRequests DEF cd
<1>6. ASSUME NEW n \in Names, mkdir(s, n) \/ rm(s, n) \/ mv_nothing(s, n) \/ cat(s, n)
      PROVE  [Request]_vars
  <2>1. CASE mkdir(s, n)
    BY <1>2, <2>1, CallsAreRequests DEF mkdir
  <2>2. CASE rm(s, n)
    BY <2>2, CallsAreRequests DEF rm
  <2>3. CASE mv_nothing(s, n)
    BY <2>3 DEF mv_nothing
  <2>4. CASE cat(s, n)
    BY <2>4, CallsAreRequests DEF cat
  <2> QED BY <1>6, <2>1, <2>2, <2>3, <2>4
<1>7. ASSUME NEW n1 \in Names, NEW n2 \in Names, NEW cmd \in {"mv", "cp"},
             ReadSource(s, cmd, n1, n2)
      PROVE  [Request]_vars
  BY <1>7, ReadSourceTurns, CallsAreRequests
<1>8. CASE DeleteSource(s)
  BY <1>1, <1>8, CallsAreRequests DEF DeleteSource
<1>9. CASE WriteTarget(s)
  BY <1>1, <1>2, <1>9, CallsAreRequests DEF WriteTarget
<1>10. CASE Overrun(s)
  BY <1>10 DEF Overrun, shellVars
<1> QED BY <1>3, <1>4, <1>5, <1>6, <1>7, <1>8, <1>9, <1>10 DEF Command

LEMMA ShellStepPowered ==
    ASSUME FitInv, [ShellNext]_shellVars
    PROVE  [PoweredNext]_vars
<1>1. ASSUME NEW n \in Names, NEW size \in Sizes, NEW p \in Payloads \ {Unread},
             Insert(n, size, p)
      PROVE  [Request]_vars
  BY <1>1, CallsAreRequests DEF Insert
<1>2. (\E s \in Shells : Command(s)) => [Request]_vars
  BY CommandRequests
<1>3. shellVars' = shellVars => UNCHANGED vars
  BY DEF shellVars
<1> QED BY <1>1, <1>2, <1>3 DEF ShellNext, PoweredNext

LEMMA FitStep ==
    ASSUME Kept, ZeroName \notin Names, [ShellNext]_shellVars
    PROVE  FitInv'
<1>1. CASE shell' = shell
  BY <1>1 DEF Kept, FitInv
<1>2. ASSUME NEW s \in Shells, Command(s)
      PROVE  FitInv'
  BY <1>2, FitCd, FitOther DEF Command
<1> QED BY <1>1, <1>2 DEF ShellNext, Insert, shellVars

LEMMA KeptInit == ShellInit => Kept
<1>1. SUFFICES ASSUME ShellInit PROVE Kept
  OBVIOUS
<1>2. IInv /\ NamedInv /\ LeakInv /\ TreeInv
  BY <1>1, InitHolds, NamedInit, TreeInit DEF Init, LeakInv, ShellInit
<1>3. NoJob \in Job
  BY ShellAssumption, Constants DEF NoJob, Job, AllNames
<1> HIDE DEF NoJob
<1>4. ZeroTable \in Table /\ << >> \in Seq(AllNames)
  BY BlankTypes
<1> HIDE DEF ZeroTable
<1>5. FitInv
  BY <1>1, <1>3, <1>4 DEF ShellInit, FitInv, State, MemoryFits
<1> QED BY <1>2, <1>5 DEF Kept

LEMMA KeptStep ==
    ASSUME ZeroName \notin Names
    PROVE  Kept /\ [ShellNext]_shellVars => Kept'
<1>1. SUFFICES ASSUME Kept, [ShellNext]_shellVars PROVE Kept'
  OBVIOUS
<1>2. [PoweredNext]_vars /\ FitInv'
  BY <1>1, ShellStepPowered, FitStep DEF Kept
<1>3. [Next]_vars
  BY <1>2 DEF PoweredNext, Next
<1>4. IInv'
  BY <1>1, <1>3, NextPreserves DEF Kept
<1>5. NamedInv'
  BY <1>1, <1>3, <1>4, NamedNext DEF Sound, Kept
<1>6. LeakInv'
  BY <1>1, <1>2, <1>4, LeakNext DEF Counting, Kept
<1>7. TreeInv'
  BY <1>1, <1>2, <1>4, TreeNext DEF Sound, Kept
<1> QED BY <1>2, <1>4, <1>5, <1>6, <1>7 DEF Kept

\* Any number of shells together with the inserter ask of the driver only what
\* Fat32 allows: whatever is proved of a driver that stays on holds under them.
THEOREM ShellsUseDriver ==
    ASSUME ZeroName \notin Names
    PROVE  ShellSpec => PoweredSpec
<1>1. ShellInit => Kept /\ Init
  BY KeptInit DEF ShellInit
<1>2. Kept /\ [ShellNext]_shellVars => [PoweredNext]_vars
  BY ShellStepPowered DEF Kept
<1> QED BY <1>1, <1>2, KeptStep, PTL DEF ShellSpec, PoweredSpec

\* The memory of every shell keeps its type, whatever the others do to the directory
\* it is in: what cd and cd_refresh load is a table, and the buffer of mv and cp holds
\* the contents of a file.
THEOREM ShellTyped ==
    ASSUME ZeroName \notin Names
    PROVE  ShellSpec => []ShellTypeOK
<1>1. Kept => ShellTypeOK
  BY DEF Kept, FitInv, ShellTypeOK
<1> QED BY <1>1, KeptInit, KeptStep, PTL DEF ShellSpec

\* Whatever the shells ask for, and whatever stale number they ask it with, what a
\* directory names is allocated, chains end, no cluster has two owners, what passes for
\* a directory is one, and .. leads back.
THEOREM ShellsKeepDisk ==
    ASSUME ZeroName \notin Names
    PROVE  ShellSpec => [](/\ EntryAllocated /\ LinkAllocated /\ NoSharedCluster
                           /\ DirectoryAllocated /\ DotDotIsParent)
<1>1. Kept => /\ EntryAllocated /\ LinkAllocated /\ NoSharedCluster
              /\ DirectoryAllocated /\ DotDotIsParent
  BY EntryAllocatedHolds, LinkAllocatedHolds, NoSharedClusterHolds, DirectoryAllocatedHolds,
     DotDotIsParentHolds DEF Kept
<1> QED BY <1>1, KeptInit, KeptStep, PTL DEF ShellSpec

\* Whatever the shells ask for, the directories are one tree between calls: every
\* folder that is named has its table, and every table is named by the one its row 1 says.
THEOREM ShellsKeepTree ==
    ASSUME ZeroName \notin Names
    PROVE  ShellSpec => []TreeInv
<1>1. Kept => TreeInv
  BY DEF Kept
<1> QED BY <1>1, KeptInit, KeptStep, PTL DEF ShellSpec

\* No command of any shell, nor the inserter, loses space of the disk.
THEOREM ShellsLoseNoSpace ==
    ASSUME ZeroName \notin Names
    PROVE  ShellSpec => []NoLeak
BY ShellsUseDriver, NoSpaceLost, PTL

-----------------------------------------------------------------------------
(* The directories that stay under a step *)

LEMMA KeptSound == Kept /\ Kept' => Sound /\ DiskSound(disk, diskFat)
BY DEF Kept, Sound, NamedInv

LEMMA BehindTransitive ==
    ASSUME NEW t, NEW u, NEW v, Behind(t, u), Behind(u, v)
    PROVE  Behind(t, v)
BY DEF Behind

LEMMA BehindHead ==
    ASSUME NEW t, NEW u, Behind(t, u)
    PROVE  u[0] = t[0] /\ u[1] = t[1]
BY Constants DEF Behind

\* Directory d is still one, with its header and all it lists.
Stays(d) == ValidDir(disk'[d].tab) /\ Behind(disk[d].tab, disk'[d].tab)

LEMMA SameStays ==
    ASSUME NEW d, ValidDir(disk[d].tab), disk'[d] = disk[d]
    PROVE  Stays(d)
BY DEF Stays, Behind

LEMMA StillStays ==
    ASSUME Kept, Kept', Still(disk, disk', Held(disk, diskFat)),
           NEW d \in DataCluster, ValidDir(disk[d].tab)
    PROVE  disk'[d] = disk[d] /\ Stays(d)
<1>1. disk'[d] = disk[d]
  BY KeptSound, StillKeeps
<1> QED BY <1>1, SameStays

LEMMA AddedStays ==
    ASSUME NEW x, NEW r, NEW e, RowSet(disk, disk', x, r, e), ~ disk[x].tab[r].used,
           NEW d \in DataCluster, ValidDir(disk[d].tab)
    PROVE  Stays(d)
<1>1. ValidDir(disk'[d].tab) /\ r >= 2 /\ r \in Row
  BY RowSetKeeps
<1>2. \A y \in Row : d # x \/ y # r => disk'[d].tab[y] = disk[d].tab[y]
  BY RowSetKeeps
<1>3. \A y \in Row : y < 2 => y # r
  BY <1>1, Constants
<1> QED BY <1>1, <1>2, <1>3 DEF Stays, Behind

\* The steps that carry a call on.
Carry == Boot \/ FormatSignature \/ Continue \/ Wild

\* A call under way leaves every directory, but the one it removes.
LEMMA CarryStays ==
    ASSUME Kept, Kept', Carry, NEW d \in DataCluster, ValidDir(disk[d].tab),
           pc = "rmdirTable" => call.start # d
    PROVE  Stays(d)
<1>1. Sound /\ DiskSound(disk, diskFat)
  BY KeptSound
<1>2. ~ Boot /\ ~ FormatSignature /\ ~ FormatFat /\ ~ FormatRoot
  BY DEF Kept, Boot, LeakInv, IInv, Unformatted, FormatSignature, FormatFat, FormatRoot
<1>3. CASE MkdirParent
  BY <1>1, <1>3, MkdirParentDoes, AddedStays
<1>4. CASE WriteRow
  BY <1>1, <1>4, WriteRowDoes, AddedStays
<1>5. CASE MkdirTable
  <2>1. disk'[d] = disk[d]
    BY <1>1, <1>5, MkdirTableDoes
  <2> QED BY <2>1, SameStays
<1>6. CASE RmdirTable
  <2>1. disk'[d] = disk[d]
    BY <1>1, <1>6, RmdirTableDoes
  <2> QED BY <2>1, SameStays
<1>7. CASE WriteNext \/ RmCluster \/ RmLast
  BY <1>1, <1>7, WriteNextDoes, RmClusterDoes, RmLastDoes, StillStays
<1>8. CASE FillOverrun \/ WriteFat \/ RmdirFat \/ RmRunaway \/ RmFat \/ Wild
  <2>1. disk' = disk
    BY <1>8 DEF FillOverrun, WriteFat, RmdirFat, RmRunaway, RmFat, Wild, Lost, vars, durable
  <2> QED BY <2>1, SameStays
<1> QED BY <1>2, <1>3, <1>4, <1>5, <1>6, <1>7, <1>8 DEF Carry, Continue

\* Where a call under way goes.
LEMMA CarryGoes ==
    ASSUME Carry
    PROVE  /\ pc' # "rmdirTable"
           /\ pc \in {"idle", "wild", "spin", "overrun"} => pc' = pc /\ disk' = disk /\ call' = call
           /\ pc \in {"fill", "writeRow"} => pc' \in {"idle", "wild", "spin", "overrun", "fill", "writeRow"}
           /\ pc \in {"wild", "spin", "overrun"} => pc' = pc
<1>1. CASE Continue
  BY <1>1 DEF Continue, FormatFat, FormatRoot, MkdirParent, MkdirTable, WriteNext, FillOverrun,
     WriteFat, WriteRow, RmdirTable, RmdirFat, RmCluster, RmRunaway, RmFat, RmLast, Return
<1>2. CASE Boot \/ FormatSignature \/ Wild
  BY <1>2 DEF Boot, FormatSignature, Wild, Lost, vars, durable
<1> QED BY <1>1, <1>2 DEF Carry

LEMMA ReadDirectoryLeaves ==
    ASSUME NEW d, NEW n, sys_read_directory(d, n)
    PROVE  pc = "idle" /\ pc' = "idle" /\ disk' = disk
BY DEF sys_read_directory, ReadDirectory, Return, vars, durable

LEMMA ReadLeaves ==
    ASSUME NEW d, NEW n, sys_read(d, n)
    PROVE  pc = "idle" /\ pc' \in {"idle", "wild", "spin", "overrun"} /\ disk' = disk
BY DEF sys_read, Read, ReadRunaway, Return, vars, durable

LEMMA WriteLeaves ==
    ASSUME Kept, Kept', NEW d, NEW n \in Names, NEW size \in Sizes, NEW p,
           size = 0 \/ p \in Payloads, sys_write(d, n, size, p)
    PROVE  /\ pc = "idle" /\ pc' \in {"idle", "wild", "spin", "overrun", "mkdirParent", "fill"}
           /\ size # 0 => pc' # "mkdirParent"
           /\ Still(disk, disk', Held(disk, diskFat))
<1>1. CASE size # 0 /\ d \in DataCluster /\ WriteFirst(d, n, size, p)
  BY <1>1, WriteFirstDoes, KeptSound
<1>2. CASE size = 0 /\ d \in DataCluster /\ MkdirFat(d, n)
  <2>1. pc = "idle" /\ pc' = "mkdirParent" /\ disk' = disk
    BY <1>2 DEF MkdirFat
  <2> QED BY <1>2, <2>1, SameStill
<1>3. CASE WriteReject(d, n) \/ WriteOverrun(d, n) \/ (pc = "idle" /\ UNCHANGED vars)
  <2>1. pc = "idle" /\ pc' \in {"idle", "wild", "spin", "overrun"} /\ disk' = disk
    BY <1>3 DEF WriteReject, WriteOverrun, Return, vars, durable
  <2> QED BY <2>1, SameStill
<1> QED BY <1>1, <1>2, <1>3 DEF sys_write

\* A delete leaves every directory and its header, and all it lists but one entry,
\* which is a file or an empty folder.
LEMMA DeleteLeaves ==
    ASSUME Kept, Kept', ZeroName \notin Names, NEW d, NEW n \in Names, sys_delete(d, n)
    PROVE  /\ pc = "idle" /\ pc' \in {"idle", "rmFirst", "rmdirTable"}
           /\ \/ disk' = disk /\ pc' = "idle"
              \/ \E r \in Row : 
                    /\ Erases(disk, disk', d, r) /\ d \in DataCluster
                    /\ disk[d].tab[r].name = n
                    /\ disk[d].tab[r].sub =>
                          /\ pc' = "rmdirTable"
                          /\ disk[d].tab[r].cluster = call'.start
                          /\ TargetEmpty(disk[call'.start].tab)
                    /\ ~ disk[d].tab[r].sub => pc' = "rmFirst"
<1>1. CASE d \in DataCluster /\ RmdirParent(d, n)
  BY <1>1, RmdirParentDoes, KeptSound
<1>2. CASE d \in DataCluster /\ RmRow(d, n)
  BY <1>2, RmRowDoes, KeptSound
<1>3. CASE DeleteReject(d, n) \/ (pc = "idle" /\ UNCHANGED vars)
  BY <1>3 DEF DeleteReject, Return, vars, durable
<1> QED BY <1>1, <1>2, <1>3 DEF sys_delete

-----------------------------------------------------------------------------
(* The copy of the directory *)

LEMMA IdleTree ==
    ASSUME Kept, pc = "idle"
    PROVE  /\ Tree(disk, 0, 0) /\ RootSound(disk) /\ DiskSound(disk, diskFat)
           /\ disk \in [DataCluster -> Block]
BY InNothing DEF Kept, TreeInv, NamedInv, Formatted, IInv, TypeOK

\* Rows in use have names: the folder itself, .. and entries.
LEMMA UsedIsNamed ==
    ASSUME Kept, pc = "idle", ZeroName \notin Names, NEW d \in DataCluster,
           ValidDir(disk[d].tab), NEW r \in Row, disk[d].tab[r].used
    PROVE  /\ disk[d].tab[r].name # ZeroName
           /\ r = 0 => disk[d].tab[r].name \in Names \cup {RootName}
<1>1. Tree(disk, 0, 0) /\ RootSound(disk)
  BY IdleTree
<1>2. CASE r = 0
  <2>1. CASE d = ROOT_CLUSTER_NUMBER
    BY <1>1, <1>2, <2>1, NameAssumption DEF RootSound
  <2>2. CASE d # ROOT_CLUSTER_NUMBER
    <3>1. d \in FileCluster /\ d # 0
      BY <2>2, Constants DEF FileCluster, FAT32_FAT_EMPTY_ENTRY
    <3>2. FolderIn(disk, disk[d].tab[1].cluster, disk[d].tab[0].name, d)
      BY <1>1, <3>1 DEF Tree, ParentsLead
    <3>3. disk[d].tab[0].name \in Names
      BY <1>1, <3>2 DEF FolderIn, LiveIn, Tree, EntriesRead
    <3> QED BY <1>2, <3>3
  <2> QED BY <2>1, <2>2
<1>3. CASE r = 1
  BY <1>1, <1>3, NameAssumption DEF Tree, HeaderRows
<1>4. CASE r >= 2
  <2>1. LiveIn(disk, d, r)
    BY <1>4 DEF LiveIn
  <2> QED BY <1>1, <1>4, <2>1 DEF Tree, EntriesRead
<1> QED BY <1>2, <1>3, <1>4, RowKinds

\* A folder that is listed, .. or the directory itself is loaded.
LEMMA CdLoads ==
    ASSUME Kept, pc = "idle", ZeroName \notin Names, NEW d \in DataCluster,
           ValidDir(disk[d].tab), NEW r \in Row, disk[d].tab[r].used, disk[d].tab[r].sub
    PROVE  \E r0 \in Row :
              /\ IsFirst(MatchFrom(disk[d].tab, disk[d].tab[r].name, 0), r0)
              /\ disk[d].tab[r0].name = disk[d].tab[r].name
              /\ disk[d].tab[r0].sub /\ disk[d].tab[r0].used
              /\ disk[d].tab[r0].cluster \in DataCluster
              /\ ValidDir(disk[disk[d].tab[r0].cluster].tab)
              /\ DirectoryRead(d, disk[d].tab[r].name) = disk[disk[d].tab[r0].cluster].tab
<1> DEFINE t == disk[d].tab
           n == t[r].name
           r0 == ReadRow(t, n)
<1>1. Tree(disk, 0, 0) /\ RootSound(disk) /\ DiskSound(disk, diskFat)
  BY IdleTree
<1>2. n # ZeroName
  BY UsedIsNamed
<1>3. MatchFrom(t, n, 0) # {} /\ r \in MatchFrom(t, n, 0)
  BY Constants DEF MatchFrom
<1>4. r0 \in Row /\ t[r0].name = n /\ IsFirst(MatchFrom(t, n, 0), r0)
  BY <1>3, ReadRowFound
<1>5. r0 <= r
  BY <1>3, <1>4 DEF IsFirst
<1> HIDE DEF r0
<1>6. t[r0].used /\ t[r0].sub
  <2>1. CASE r0 = 0 \/ r0 = 1
    BY <1>1, <2>1 DEF Tree, HeaderRows, ValidDir
  <2>2. CASE r0 >= 2
    <3>1. t[r0].used
      BY <1>1, <1>2, <1>4, <2>2 DEF DiskSound, UseIsNamed
    <3>2. r0 \in Nat /\ r \in Nat
      BY <1>4, Constants
    <3>4. r >= 2
      BY <1>5, <2>2, <3>2
    <3>5. Live(d, r0) /\ Live(d, r)
      BY <1>4, <2>2, <3>1, <3>4 DEF Live
    <3>3. r0 = r
      BY <1>4, <3>5 DEF Kept, IInv, NamesUnique, EntryOf
    <3> QED BY <3>1, <3>3
  <2> QED BY <1>4, <2>1, <2>2, RowKinds
<1>7. ReadDirectoryCode(t, n) = 0
  BY <1>3, <1>6 DEF ReadDirectoryCode, ReadRow, ValidDir, r0
<1>8. PICK r1 \in Row : /\ IsFirst(MatchFrom(t, n, 0), r1)
                        /\ t[r1].cluster \in DataCluster
                        /\ DirectoryRead(d, n) = disk[t[r1].cluster].tab
  BY <1>7, FolderRead DEF Kept
<1>9. r1 = r0
  BY <1>4, <1>8, FirstUnique
<1>10. ValidDir(disk[t[r0].cluster].tab)
  <2>1. CASE r0 = 0
    BY <1>1, <2>1 DEF Tree, HeaderRows
  <2>2. CASE r0 = 1
    <3>1. CASE d = ROOT_CLUSTER_NUMBER
      BY <1>1, <2>2, <3>1 DEF RootSound
    <3>2. CASE d # ROOT_CLUSTER_NUMBER
      <4>1. d \in FileCluster /\ d # 0
        BY <3>2, Constants DEF FileCluster, FAT32_FAT_EMPTY_ENTRY
      <4>2. FolderIn(disk, t[1].cluster, t[0].name, d)
        BY <1>1, <4>1 DEF Tree, ParentsLead
      <4> QED BY <2>2, <4>2 DEF FolderIn, LiveIn
    <3> QED BY <3>1, <3>2
  <2>3. CASE r0 >= 2
    <3>1. LiveIn(disk, d, r0)
      BY <1>4, <1>6, <2>3 DEF LiveIn
    <3>2. t[r0].cluster # 0
      BY <1>8, <1>9, Constants DEF FAT32_FAT_EMPTY_ENTRY
    <3> QED BY <1>1, <1>4, <1>6, <3>1, <3>2 DEF Tree, FoldersThere
  <2> QED BY <1>4, <2>1, <2>2, <2>3, RowKinds
<1> QED BY <1>4, <1>6, <1>8, <1>9, <1>10

\* By the name in its row 0 a directory loads itself.
LEMMA SelfLoads ==
    ASSUME Kept, pc = "idle", ZeroName \notin Names, NEW d \in DataCluster,
           ValidDir(disk[d].tab)
    PROVE  DirectoryRead(d, disk[d].tab[0].name) = disk[d].tab
<1>1. 0 \in Row /\ disk[d].tab[0].used /\ disk[d].tab[0].sub
  BY Constants DEF ValidDir
<1>2. PICK n : n = disk[d].tab[0].name
  OBVIOUS
<1>3. PICK r0 \in Row : /\ IsFirst(MatchFrom(disk[d].tab, n, 0), r0)
                        /\ DirectoryRead(d, n) = disk[disk[d].tab[r0].cluster].tab
  BY <1>1, <1>2, CdLoads
<1>4. r0 = 0
  BY <1>1, <1>2, <1>3, Constants DEF IsFirst, MatchFrom
<1>5. disk[d].tab[0].cluster = d
  BY IdleTree DEF Tree, HeaderRows
<1> QED BY <1>2, <1>3, <1>4, <1>5

LEMMA RootLoads ==
    ASSUME Kept, pc = "idle", ZeroName \notin Names
    PROVE  /\ ROOT_CLUSTER_NUMBER \in DataCluster /\ ValidDir(disk[ROOT_CLUSTER_NUMBER].tab)
           /\ DirectoryRead(ROOT_CLUSTER_NUMBER, RootName) = disk[ROOT_CLUSTER_NUMBER].tab
<1>1. RootSound(disk) /\ ROOT_CLUSTER_NUMBER \in DataCluster
  BY IdleTree, Constants
<1>2. /\ ValidDir(disk[ROOT_CLUSTER_NUMBER].tab)
      /\ disk[ROOT_CLUSTER_NUMBER].tab[0].name = RootName
  BY <1>1 DEF RootSound
<1> QED BY <1>1, <1>2, SelfLoads

\* The table of the directory in c has been loaded.
LEMMA CopyLoaded ==
    ASSUME Kept, NEW c \in DataCluster, ValidDir(disk[c].tab), disk' = disk, pc' = "idle",
           NEW s \in Shells, NEW path, NEW job, NEW stale, NEW strayed,
           Turns(s, "prompt", disk[c].tab, path, job, stale, strayed)
    PROVE  CopyInv(shell[s])' /\ shell'[s].dir[0].cluster = c
<1>1. disk[c].tab[0].cluster = c
  BY DEF Kept, TreeInv, Tree, HeaderRows
<1>2. shell'[s].st = "prompt" /\ shell'[s].dir = disk[c].tab
  BY DEF Turns
<1> QED BY <1>1, <1>2 DEF CopyInv, Behind

LEMMA CopyIdle ==
    ASSUME NEW s, shell'[s].st \notin Working
    PROVE  CopyInv(shell[s])'
BY DEF CopyInv, Working

LEMMA CopyCd ==
    ASSUME Kept, Kept', ZeroName \notin Names, NEW s \in Shells, CopyInv(shell[s]),
           cd_root(s) \/ cd_refresh(s) \/ \E n \in AllNames : cd(s, n)
    PROVE  CopyInv(shell[s])'
<1>0. FitInv
  BY DEF Kept
<1>1. CASE cd_root(s)
  <2>1. pc = "idle" /\ pc' = "idle" /\ disk' = disk
    BY <1>1, ReadDirectoryLeaves DEF cd_root
  <2>2. Turns(s, "prompt", disk[ROOT_CLUSTER_NUMBER].tab, Append(shell[s].path, RootName),
              shell[s].job, shell[s].stale, shell[s].strayed)
    BY <1>0, <1>1, <2>1, RootLoads, CdRootTurns
  <2> QED BY <2>1, <2>2, RootLoads, CopyLoaded
<1> DEFINE d == get_cluster_number(s)
<1>2. shell[s].st \in Working =>
         d \in DataCluster /\ ValidDir(disk[d].tab) /\ disk[d].tab[0] = shell[s].dir[0]
  BY DEF CopyInv, get_cluster_number
<1>3. CASE cd_refresh(s)
  <2>1. pc = "idle" /\ pc' = "idle" /\ disk' = disk /\ shell[s].st = "refresh"
    BY <1>3, ReadDirectoryLeaves DEF cd_refresh
  <2>2. d \in DataCluster /\ ValidDir(disk[d].tab) /\ disk[d].tab[0] = shell[s].dir[0]
        /\ Tree(disk, 0, 0)
    BY <1>2, <2>1, IdleTree DEF Working
  <2>5. DirectoryRead(d, shell[s].dir[0].name) = disk[d].tab
    BY <2>1, <2>2, SelfLoads
  <2>6. Turns(s, "prompt", disk[d].tab, shell[s].path, NoJob, FALSE, shell[s].strayed)
    BY <1>0, <1>3, <2>5, RefreshTurns
  <2> HIDE DEF NoJob
  <2> QED BY <2>1, <2>2, <2>6, CopyLoaded
<1>4. ASSUME NEW n \in AllNames, cd(s, n)
      PROVE  CopyInv(shell[s])'
  <2>1. pc = "idle" /\ pc' = "idle" /\ disk' = disk /\ shell[s].st = "prompt"
    BY <1>4, ReadDirectoryLeaves DEF cd
  <2>2. d \in DataCluster /\ ValidDir(disk[d].tab) /\ Behind(shell[s].dir, disk[d].tab)
    BY <1>2, <2>1 DEF Working, CopyInv, get_cluster_number
  <2>3. PICK r \in Row : shell[s].dir[r].used /\ shell[s].dir[r].sub /\ shell[s].dir[r].name = n
    BY <1>4 DEF cd, SubRows
  <2>4. disk[d].tab[r].used /\ disk[d].tab[r].sub /\ disk[d].tab[r].name = n
    BY <2>2, <2>3 DEF Behind
  <2>5. PICK c \in DataCluster : ValidDir(disk[c].tab) /\ DirectoryRead(d, n) = disk[c].tab
    BY <2>1, <2>2, <2>4, CdLoads
  <2>6. PICK b : b = (shell[s].strayed \/ n = shell[s].dir[0].name)
    OBVIOUS
  <2>7. \/ Turns(s, "overrun", disk[c].tab, shell[s].path, shell[s].job, FALSE, b)
        \/ Turns(s, "prompt", disk[c].tab, PathAfter(shell[s].path, n, disk[c].tab),
                 shell[s].job, FALSE, b)
    BY <1>0, <1>4, <2>5, <2>6, CdTurns
  <2>8. CASE Turns(s, "overrun", disk[c].tab, shell[s].path, shell[s].job, FALSE, b)
    <3>1. shell'[s].st = "overrun"
      BY <2>8 DEF Turns
    <3> QED BY <3>1, CopyIdle DEF Working
  <2>9. CASE Turns(s, "prompt", disk[c].tab, PathAfter(shell[s].path, n, disk[c].tab),
                   shell[s].job, FALSE, b)
    BY <2>1, <2>5, <2>9, CopyLoaded
  <2> QED BY <2>7, <2>8, <2>9
<1> QED BY <1>1, <1>3, <1>4

\* Where a shell that is at work is.
LEMMA CopyHead ==
    ASSUME NEW s, CopyInv(shell[s]), shell[s].st \in Working
    PROVE  LET d == get_cluster_number(s)
           IN  /\ d \in DataCluster /\ ValidDir(disk[d].tab) /\ disk[d].tab[0] = shell[s].dir[0]
               /\ pc = "rmdirTable" => call.start # d
BY DEF CopyInv, get_cluster_number

\* A shell that is not at the prompt needs its directory only.
LEMMA CopyBusy ==
    ASSUME NEW s, shell'[s].st = "refresh" \/ (shell'[s].st = "write" /\ shell'[s].job.cmd = "mv"),
           NEW d \in DataCluster, shell'[s].dir[0].cluster = d, ValidDir(disk'[d].tab),
           disk'[d].tab[0] = shell'[s].dir[0], pc' = "rmdirTable" => call'.start # d
    PROVE  CopyInv(shell[s])'
BY DEF CopyInv

LEMMA CopyCarry ==
    ASSUME Kept, Kept', NEW s \in Shells, CopyInv(shell[s]), Carry, shell' = shell
    PROVE  CopyInv(shell[s])'
<1> DEFINE m == shell[s]
           d == m.dir[0].cluster
<1>1. CASE m.st \notin Working
  BY <1>1, CopyIdle
<1>2. CASE m.st \in Working
  <2>1. /\ d \in DataCluster /\ ValidDir(disk[d].tab) /\ disk[d].tab[0] = m.dir[0]
        /\ pc = "rmdirTable" => call.start # d
    BY <1>2, CopyHead DEF get_cluster_number
  <2>2. ValidDir(disk'[d].tab) /\ Behind(disk[d].tab, disk'[d].tab)
    BY <2>1, CarryStays DEF Stays
  <2>3. disk'[d].tab[0] = m.dir[0]
    BY <2>1, <2>2, BehindHead
  <2>7. pc' # "rmdirTable"
    BY CarryGoes
  <2>4. m.st = "prompt" \/ (m.st = "write" /\ m.job.cmd = "cp") =>
           Behind(m.dir, disk'[d].tab) /\ pc' \in {"idle", "wild", "spin", "overrun", "fill", "writeRow"}
    BY <2>2, BehindTransitive, CarryGoes DEF CopyInv
  <2>5. m.st = "prompt" /\ ~ m.stale => pc' \in {"idle", "wild", "spin", "overrun"} /\ m.dir = disk'[d].tab
    BY CarryGoes DEF CopyInv
  <2>6. m.st = "delete" => pc' \in {"idle", "wild", "spin", "overrun"} /\ m.job.from = d /\ m.job.cmd = "mv"
    BY CarryGoes DEF CopyInv
  <2> QED BY <2>1, <2>2, <2>3, <2>4, <2>5, <2>6, <2>7 DEF CopyInv
<1> QED BY <1>1, <1>2

LEMMA CopyWrites ==
    ASSUME Kept, Kept', NEW s \in Shells, CopyInv(shell[s]),
           WriteTarget(s) \/ \E n \in Names : mkdir(s, n)
    PROVE  CopyInv(shell[s])'
<1>0. FitInv
  BY DEF Kept
<1> DEFINE m == shell[s]
           d == get_cluster_number(s)
<1>1. CASE WriteTarget(s)
  <2>1. m.st = "write" /\ sys_write(m.job.to, m.job.as, ClusterSize, m.job.payload)
    BY <1>1 DEF WriteTarget
  <2>2. m.job.as \in Names /\ m.job.payload \in Payloads /\ ClusterSize \in Sizes
        /\ ClusterSize # 0 /\ m.job.cmd \in {"mv", "cp"}
    BY <1>0, <2>1, Fits, ShellAssumption, SizeAssumption DEF Job
  <2>3. pc' \in {"idle", "wild", "spin", "overrun", "fill"} /\ Still(disk, disk', Held(disk, diskFat))
    BY <2>1, <2>2, WriteLeaves
  <2>4. /\ d \in DataCluster /\ ValidDir(disk[d].tab) /\ disk[d].tab[0] = m.dir[0]
    BY <2>1, CopyHead DEF Working
  <2>5. disk'[d] = disk[d]
    BY <2>3, <2>4, StillStays
  <2>6. /\ shell'[s].dir = m.dir /\ shell'[s].stale = TRUE
        /\ m.job.cmd = "mv" => shell'[s].st = "refresh"
        /\ m.job.cmd # "mv" => shell'[s].st = "prompt"
    <3>0. PICK x : x = IF m.job.cmd = "mv" THEN "refresh" ELSE "prompt"
      OBVIOUS
    <3>1. PICK j : Turns(s, x, m.dir, m.path, j, TRUE, m.strayed)
      BY <1>0, <1>1, <3>0, WriteTargetTurns
    <3>2. shell'[s].st = x /\ shell'[s].dir = m.dir /\ shell'[s].stale = TRUE
      BY <3>1 DEF Turns
    <3> QED BY <3>0, <3>2
  <2>7. CASE m.job.cmd = "mv"
    BY <2>3, <2>4, <2>5, <2>6, <2>7, CopyBusy DEF get_cluster_number
  <2>8. CASE m.job.cmd = "cp"
    <3>1. Behind(m.dir, disk[d].tab)
      BY <2>1, <2>8 DEF CopyInv, get_cluster_number
    <3>2. shell'[s].st = "prompt" /\ shell'[s].dir[0].cluster = d
      BY <2>6, <2>8 DEF get_cluster_number
    <3> HIDE DEF d
    <3> QED BY <2>3, <2>4, <2>5, <2>6, <3>1, <3>2 DEF CopyInv
  <2> QED BY <2>2, <2>7, <2>8
<1>2. ASSUME NEW n \in Names, mkdir(s, n)
      PROVE  CopyInv(shell[s])'
  <2>1. m.st = "prompt" /\ sys_write(d, n, 0, NoPayload) /\ 0 \in Sizes
    BY <1>2, ShellAssumption DEF mkdir
  <2>2. pc' # "rmdirTable" /\ Still(disk, disk', Held(disk, diskFat))
    BY <2>1, WriteLeaves
  <2>3. /\ d \in DataCluster /\ ValidDir(disk[d].tab) /\ disk[d].tab[0] = m.dir[0]
    BY <2>1, CopyHead DEF Working
  <2>4. disk'[d] = disk[d]
    BY <2>2, <2>3, StillStays
  <2>5. shell' = [shell EXCEPT ![s].st = "refresh"]
    BY <1>2 DEF mkdir
  <2>6. shell'[s].dir = m.dir /\ shell'[s].st = "refresh"
    BY <1>0, <2>5, OnlyState
  <2> QED BY <2>2, <2>3, <2>4, <2>6, CopyBusy DEF get_cluster_number
<1> QED BY <1>1, <1>2

\* A delete does not remove the directory it is asked in, nor its header.
LEMMA DeleteKeepsParent ==
    ASSUME Kept, Kept', ZeroName \notin Names, NEW d \in DataCluster, NEW n \in Names,
           sys_delete(d, n), ValidDir(disk[d].tab)
    PROVE  /\ ValidDir(disk'[d].tab) /\ disk'[d].tab[0] = disk[d].tab[0]
           /\ pc' = "rmdirTable" => call'.start # d
<1>1. CASE disk' = disk /\ pc' = "idle"
  BY <1>1
<1>2. ASSUME NEW r \in Row, Erases(disk, disk', d, r),
             disk[d].tab[r].sub => TargetEmpty(disk[call'.start].tab),
             ~ disk[d].tab[r].sub => pc' = "rmFirst"
      PROVE  /\ ValidDir(disk'[d].tab) /\ disk'[d].tab[0] = disk[d].tab[0]
             /\ pc' = "rmdirTable" => call'.start # d
  <2>1. PICK e : RowSet(disk, disk', d, r, e)
    BY <1>2 DEF Erases
  <2>2. ValidDir(disk'[d].tab) /\ disk'[d].tab[0] = disk[d].tab[0]
    BY <2>1, RowSetKeeps
  <2>3. ~ TargetEmpty(disk[d].tab)
    BY <1>2 DEF Erases, LiveIn, TargetEmpty
  <2> QED BY <1>2, <2>2, <2>3
<1> QED BY <1>1, <1>2, DeleteLeaves

LEMMA CopyDeletes ==
    ASSUME Kept, Kept', ZeroName \notin Names, NEW s \in Shells, CopyInv(shell[s]),
           DeleteSource(s) \/ \E n \in Names : rm(s, n)
    PROVE  CopyInv(shell[s])'
<1>0. FitInv
  BY DEF Kept
<1> DEFINE m == shell[s]
           d == get_cluster_number(s)
<1>1. PICK n \in Names, x \in {"refresh", "write"} :
         /\ sys_delete(d, n) /\ shell' = [shell EXCEPT ![s].st = x] /\ m.st \in Working
         /\ x = "write" => m.job.cmd = "mv"
  <2>1. CASE DeleteSource(s)
    <3>1. m.st = "delete" /\ sys_delete(m.job.from, m.job.src)
          /\ shell' = [shell EXCEPT ![s].st = "write"]
      BY <2>1 DEF DeleteSource
    <3>2. m.job.from = d /\ m.job.src \in Names /\ m.job.cmd = "mv" /\ m.st \in Working
      BY <1>0, <3>1, Fits DEF CopyInv, get_cluster_number, Working
    <3> QED BY <3>1, <3>2
  <2>2. ASSUME NEW n \in Names, rm(s, n)
        PROVE  /\ sys_delete(d, n) /\ shell' = [shell EXCEPT ![s].st = "refresh"]
               /\ m.st \in Working
    BY <2>2 DEF rm, Working
  <2> QED BY <2>1, <2>2
<1>2. /\ d \in DataCluster /\ ValidDir(disk[d].tab) /\ disk[d].tab[0] = m.dir[0]
  BY <1>1, CopyHead
<1>3. /\ ValidDir(disk'[d].tab) /\ disk'[d].tab[0] = disk[d].tab[0]
      /\ pc' = "rmdirTable" => call'.start # d
  BY <1>1, <1>2, DeleteKeepsParent
<1>4. shell'[s].dir = m.dir /\ shell'[s].st = x /\ shell'[s].job = m.job
  BY <1>0, <1>1, OnlyState
<1> QED BY <1>1, <1>2, <1>3, <1>4, CopyBusy DEF get_cluster_number

LEMMA CopyReads ==
    ASSUME Kept, Kept', NEW s \in Shells, CopyInv(shell[s]),
           \/ \E n \in Names : cat(s, n) \/ mv_nothing(s, n)
           \/ \E n1, n2 \in Names, cmd \in {"mv", "cp"} : ReadSource(s, cmd, n1, n2)
           \/ Overrun(s)
    PROVE  CopyInv(shell[s])'
<1>0. FitInv
  BY DEF Kept
<1> DEFINE m == shell[s]
           d == m.dir[0].cluster
<1>1. m.st = "prompt" => /\ d \in DataCluster /\ ValidDir(disk[d].tab) /\ disk[d].tab[0] = m.dir[0]
                         /\ Behind(m.dir, disk[d].tab)
                         /\ ~ m.stale => m.dir = disk[d].tab
  BY DEF CopyInv, Working
<1>2. ASSUME NEW n \in Names, cat(s, n)
      PROVE  CopyInv(shell[s])'
  <2>1. m.st = "prompt" /\ pc' \in {"idle", "wild", "spin", "overrun"} /\ disk' = disk
    BY <1>2, ReadLeaves DEF cat
  <2>2. /\ shell'[s].dir = m.dir /\ shell'[s].st \in {"prompt", "overrun"}
        /\ shell'[s].job = m.job /\ shell'[s].stale = m.stale
    BY <1>0, <1>2, CatTurns, TurnsFields
  <2> QED BY <1>1, <2>1, <2>2 DEF CopyInv, Working
<1>3. ASSUME NEW n \in Names, mv_nothing(s, n)
      PROVE  CopyInv(shell[s])'
  <2>1. m.st = "prompt" /\ pc' = "idle" /\ disk' = disk /\ shell' = [shell EXCEPT ![s].st = "refresh"]
    BY <1>3 DEF mv_nothing, vars, durable
  <2>2. shell'[s].dir = m.dir /\ shell'[s].st = "refresh"
    BY <1>0, <2>1, OnlyState
  <2> QED BY <1>1, <2>1, <2>2, CopyBusy
<1>4. ASSUME NEW n1 \in Names, NEW n2 \in Names, NEW cmd \in {"mv", "cp"},
             ReadSource(s, cmd, n1, n2)
      PROVE  CopyInv(shell[s])'
  <2>1. m.st = "prompt" /\ pc' \in {"idle", "wild", "spin", "overrun"} /\ disk' = disk
    BY <1>0, <1>4, ReadSourceTurns, ReadLeaves
  <2>2. PICK j, x : /\ IsJob(s, cmd, n1, n2, j)
                    /\ x \in {"overrun", IF cmd = "mv" THEN "delete" ELSE "write"}
                    /\ Turns(s, x, m.dir, m.path, j, m.stale, m.strayed)
    BY <1>0, <1>4, ReadSourceTurns
  <2>3. j.cmd = cmd /\ j.from = d
    BY <2>2 DEF IsJob, get_cluster_number
  <2>4. /\ shell'[s].dir = m.dir /\ shell'[s].st = x /\ shell'[s].job = j
    BY <2>2 DEF Turns
  <2>5. CASE cmd = "mv"
    BY <1>1, <2>1, <2>2, <2>3, <2>4, <2>5 DEF CopyInv, Working
  <2>6. CASE cmd = "cp"
    BY <1>1, <2>1, <2>2, <2>3, <2>4, <2>6 DEF CopyInv, Working
  <2> QED BY <2>5, <2>6
<1>5. CASE Overrun(s)
  <2>1. shell' = shell /\ m.st = "overrun"
    BY <1>5 DEF Overrun, shellVars
  <2> QED BY <2>1, CopyIdle DEF Working
<1> QED BY <1>2, <1>3, <1>4, <1>5

LEMMA CopyCommand ==
    ASSUME Kept, Kept', ZeroName \notin Names, NEW s \in Shells, CopyInv(shell[s]), Command(s)
    PROVE  CopyInv(shell[s])'
BY CopyCd, CopyWrites, CopyDeletes, CopyReads DEF Command

\* At most one shell runs.
Alone == \A s, q \in Shells : s = q

CopiesInv == \A s \in Shells : CopyInv(shell[s])

LEMMA CopiesInit == ShellInit => CopiesInv
BY DEF ShellInit, CopiesInv, CopyInv, Working

LEMMA CopiesStep ==
    ASSUME ZeroName \notin Names, Alone
    PROVE  Kept /\ Kept' /\ CopiesInv /\ [ShellNext]_shellVars => CopiesInv'
<1>1. SUFFICES ASSUME Kept, Kept', CopiesInv, [ShellNext]_shellVars, NEW s \in Shells
               PROVE  CopyInv(shell[s])'
  BY DEF CopiesInv
<1>2. CopyInv(shell[s])
  BY <1>1 DEF CopiesInv
<1>3. CASE Carry /\ shell' = shell
  BY <1>1, <1>2, <1>3, CopyCarry
<1>4. ASSUME NEW n \in Names, NEW size \in Sizes, NEW p \in Payloads \ {Unread},
             Insert(n, size, p)
      PROVE  CopyInv(shell[s])'
  <2>1. shell' = shell /\ shell[s].st = "start"
    BY <1>4 DEF Insert
  <2> QED BY <2>1, CopyIdle DEF Working
<1>5. ASSUME NEW q \in Shells, Command(q)
      PROVE  CopyInv(shell[s])'
  BY <1>1, <1>2, <1>5, CopyCommand DEF Alone
<1>6. CASE UNCHANGED shellVars
  BY <1>2, <1>6 DEF CopyInv, shellVars, vars, durable, Behind
<1> QED BY <1>1, <1>3, <1>4, <1>5, <1>6 DEF ShellNext, Carry

\* The copy of a shell that is alone is the table of a directory of the disk, after
\* any sequence of mkdir, rm, mv, cp, cat and cd: the commands that change the
\* directory read it again, and nothing they remove is the directory they are in.
THEOREM CopyStaysCurrent ==
    ASSUME ZeroName \notin Names, Alone
    PROVE  ShellSpec => []CopyIsCurrent
<1>1. CopiesInv => CopyIsCurrent
  BY DEF CopiesInv, CopyInv, CopyIsCurrent, AtPrompt, get_cluster_number, Working
<1> QED BY <1>1, KeptInit, KeptStep, CopiesInit, CopiesStep, PTL DEF ShellSpec

-----------------------------------------------------------------------------
(* The path *)

\* One step of a path on the disk, and the directories it leads through.
Into(d, n) ==
    LET rows == {r \in Row : Live(d, r) /\ EntryOf(d, r).name = n}
    IN  IF rows = {} THEN 0 ELSE EntryOf(d, CHOOSE r \in rows : TRUE).cluster

IsTrail(d, path, at) ==
    at = [i \in 0 .. Len(path) |-> IF i = 0 THEN d ELSE Into(at[i - 1], path[i])]

LEMMA ResolveAlong ==
    ASSUME NEW d, NEW path, Len(path) \in Nat, NEW v, v[0] = d,
           \A i \in 1 .. Len(path) : v[i] = Into(v[i - 1], path[i])
    PROVE  Resolve(d, path) = v[Len(path)]
<1> DEFINE L == Len(path)
           u == [i \in 0 .. L |-> v[i]]
<1>1. IsTrail(d, path, u)
  <2>1. \A i \in 0 .. L : u[i] = v[i]
    OBVIOUS
  <2>2. \A i \in 0 .. L : i = 0 \/ (i \in 1 .. L /\ i - 1 \in 0 .. L)
    OBVIOUS
  <2>3. \A i \in 0 .. L : u[i] = IF i = 0 THEN d ELSE Into(u[i - 1], path[i])
    BY <2>1, <2>2
  <2>4. u = [i \in 0 .. L |-> u[i]]
    OBVIOUS
  <2> HIDE DEF u
  <2> QED BY <2>3, <2>4 DEF IsTrail
<1>2. PICK at : IsTrail(d, path, at) /\ Resolve(d, path) = at[L]
  <2>1. Resolve(d, path) = (CHOOSE at : IsTrail(d, path, at))[L]
    BY Zenon DEF Resolve, IsTrail, Into
  <2> QED BY <1>1, <2>1
<1>3. /\ at[0] = d
      /\ \A i \in 1 .. L : at[i] = Into(at[i - 1], path[i])
  BY <1>2 DEF IsTrail
<1> DEFINE Bad == {i \in Nat : i \in 0 .. L /\ at[i] # v[i]}
<1>4. SUFFICES ASSUME Bad # {} PROVE FALSE
  BY <1>2
<1>5. PICK m \in Bad : \A y \in Bad : m <= y
  <2>1. Bad \subseteq Nat
    OBVIOUS
  <2> HIDE DEF Bad
  <2> QED BY <1>4, <2>1, LeastNumber
<1>6. m \in 1 .. L /\ m - 1 \in Nat /\ m - 1 \in 0 .. L /\ m - 1 \notin Bad
  BY <1>3, <1>5
<1>7. at[m - 1] = v[m - 1]
  BY <1>6
<1> QED BY <1>3, <1>5, <1>6, <1>7

\* The entry of a name is the only one.
LEMMA EntryInto ==
    ASSUME Kept, NEW d, NEW r, Live(d, r)
    PROVE  Into(d, EntryOf(d, r).name) = EntryOf(d, r).cluster
<1> DEFINE n == EntryOf(d, r).name
           rows == {y \in Row : Live(d, y) /\ EntryOf(d, y).name = n}
<1>1. d \in DataCluster /\ r \in rows
  BY DEF Live
<1>2. \A y \in rows : y = r
  BY <1>1 DEF Kept, IInv, NamesUnique
<1>3. (CHOOSE y \in rows : TRUE) = r
  BY <1>1, <1>2
<1> QED BY <1>1, <1>3 DEF Into

LEMMA FolderInto ==
    ASSUME Kept, NEW d, NEW n, NEW c, FolderIn(disk, d, n, c)
    PROVE  Into(d, n) = c
<1>1. PICK r \in Row : LiveIn(disk, d, r) /\ disk[d].tab[r].name = n /\ disk[d].tab[r].cluster = c
  BY DEF FolderIn
<1>2. Live(d, r) /\ EntryOf(d, r).name = n /\ EntryOf(d, r).cluster = c
  BY <1>1, LiveIsLive DEF EntryOf
<1> QED BY <1>2, EntryInto

\* A path that is a way on the disk resolves to its end.
LEMMA WayResolves ==
    ASSUME Kept, NEW p, IsPath(p), NEW w, IsWay(disk, p, w)
    PROVE  Resolve(ROOT_CLUSTER_NUMBER, Tail(p)) = w[Len(p)]
<1> DEFINE t == Tail(p)
           v == [i \in 0 .. Len(p) - 1 |-> w[i + 1]]
<1>1. Len(p) \in Nat /\ Len(p) > 0 /\ Len(t) = Len(p) - 1
  BY DEF IsPath
<1>2. \A i \in 1 .. Len(p) - 1 : t[i] = p[i + 1]
  BY <1>1 DEF IsPath
<1>3. Len(t) \in Nat /\ v[0] = ROOT_CLUSTER_NUMBER /\ v[Len(t)] = w[Len(p)]
  BY <1>1 DEF IsWay
<1>4. ASSUME NEW i \in 1 .. Len(t)
      PROVE  v[i] = Into(v[i - 1], t[i])
  <2>1. i + 1 \in 2 .. Len(p) /\ (i + 1) - 1 = i /\ i \in 1 .. Len(p) - 1
    BY <1>1
  <2>2. FolderIn(disk, w[i], p[i + 1], w[i + 1])
    BY <2>1 DEF IsWay
  <2>3. v[i] = w[i + 1] /\ v[i - 1] = w[i]
    BY <2>1
  <2>4. Into(w[i], p[i + 1]) = w[i + 1]
    BY <2>2, FolderInto
  <2> QED BY <1>2, <2>1, <2>3, <2>4
<1> HIDE DEF v, t
<1>5. Resolve(ROOT_CLUSTER_NUMBER, t) = v[Len(t)]
  BY <1>3, <1>4, ResolveAlong
<1> QED BY <1>3, <1>5 DEF t

LEMMA FolderStays ==
    ASSUME NEW d, NEW n, NEW c, FolderIn(disk, d, n, c), Stays(d)
    PROVE  FolderIn(disk', d, n, c)
<1>1. PICK r \in Row : /\ LiveIn(disk, d, r) /\ disk[d].tab[r].sub /\ disk[d].tab[r].name = n
                       /\ disk[d].tab[r].cluster = c
  BY DEF FolderIn
<1>2. disk'[d].tab[r] = disk[d].tab[r] /\ LiveIn(disk', d, r)
  BY <1>1 DEF LiveIn, Stays, Behind
<1> QED BY <1>1, <1>2, FolderIs

LEMMA FolderParts ==
    ASSUME NEW dk, NEW d, NEW n, NEW c, FolderIn(dk, d, n, c)
    PROVE  d \in DataCluster /\ ValidDir(dk[d].tab) /\ ~ TargetEmpty(dk[d].tab)
BY DEF FolderIn, LiveIn, TargetEmpty

LEMMA CarryFolder ==
    ASSUME Kept, Kept', Carry, NEW d, NEW n, NEW c, FolderIn(disk, d, n, c)
    PROVE  FolderIn(disk', d, n, c)
<1>1. d \in DataCluster /\ ValidDir(disk[d].tab) /\ ~ TargetEmpty(disk[d].tab)
  BY FolderParts
<1>2. pc = "rmdirTable" => call.start # d
  BY <1>1 DEF Kept, IInv, CallSound
<1> QED BY <1>1, <1>2, CarryStays, FolderStays

\* No folder on the way is removed: all of them hold something.
LEMMA DeleteFolder ==
    ASSUME Kept, Kept', ZeroName \notin Names, NEW x \in DataCluster, NEW k \in Names,
           sys_delete(x, k), NEW d, NEW n, NEW c, FolderIn(disk, d, n, c),
           ~ TargetEmpty(disk[c].tab) \/ c = x
    PROVE  FolderIn(disk', d, n, c)
<1>1. CASE disk' = disk
  BY <1>1
<1>2. ASSUME NEW r \in Row, Erases(disk, disk', x, r),
             disk[x].tab[r].sub =>
                disk[x].tab[r].cluster = call'.start /\ TargetEmpty(disk[call'.start].tab)
      PROVE  FolderIn(disk', d, n, c)
  <2>1. PICK e : RowSet(disk, disk', x, r, e)
    BY <1>2 DEF Erases
  <2>2. PICK y \in Row : /\ LiveIn(disk, d, y) /\ disk[d].tab[y].sub /\ disk[d].tab[y].name = n
                         /\ disk[d].tab[y].cluster = c
    BY DEF FolderIn
  <2>3. ~ TargetEmpty(disk[x].tab)
    BY <1>2 DEF Erases, LiveIn, TargetEmpty
  <2>4. d # x \/ y # r
    BY <1>2, <2>2, <2>3
  <2>5. d \in DataCluster
    BY <2>2 DEF LiveIn
  <2>6. LiveIn(disk', d, y) /\ disk'[d].tab[y] = disk[d].tab[y]
    BY <2>1, <2>2, <2>4, <2>5, RowSetKeeps
  <2> QED BY <2>2, <2>6, FolderIs
<1> QED BY <1>1, <1>2, DeleteLeaves

\* The way stays if its folders do.
LEMMA WayStays ==
    ASSUME NEW dk, NEW dk2, NEW p, NEW w, IsWay(dk, p, w),
           \A i \in 2 .. Len(p) : FolderIn(dk2, w[i - 1], p[i], w[i])
    PROVE  IsWay(dk2, p, w)
BY DEF IsWay

LEMMA PathKeeps ==
    ASSUME NEW s, PathInv(shell[s]),
           shell'[s].st \in Working => shell[s].st \in Working,
           shell'[s].path = shell[s].path, shell'[s].dir[0].cluster = shell[s].dir[0].cluster,
           shell'[s].strayed = shell[s].strayed,
           \A w : IsWay(disk, shell[s].path, w) /\ w[Len(shell[s].path)] = shell[s].dir[0].cluster =>
              IsWay(disk', shell[s].path, w)
    PROVE  PathInv(shell[s])'
BY DEF PathInv

LEMMA WayStill ==
    ASSUME Kept, Kept', Still(disk, disk', Held(disk, diskFat)), NEW p, NEW w, IsWay(disk, p, w)
    PROVE  IsWay(disk', p, w)
<1>1. ASSUME NEW i \in 2 .. Len(p)
      PROVE  FolderIn(disk', w[i - 1], p[i], w[i])
  BY StillFolder, KeptSound DEF IsWay
<1> QED BY <1>1, WayStays

LEMMA PathStill ==
    ASSUME Kept, Kept', NEW s, PathInv(shell[s]), Still(disk, disk', Held(disk, diskFat)),
           shell'[s].st \in Working => shell[s].st \in Working,
           shell'[s].path = shell[s].path, shell'[s].dir[0].cluster = shell[s].dir[0].cluster,
           shell'[s].strayed = shell[s].strayed
    PROVE  PathInv(shell[s])'
BY WayStill, PathKeeps

LEMMA PathIdle ==
    ASSUME NEW s, shell'[s].st \notin Working
    PROVE  PathInv(shell[s])'
BY DEF PathInv

LEMMA PathCarry ==
    ASSUME Kept, Kept', NEW s \in Shells, PathInv(shell[s]), Carry, shell' = shell
    PROVE  PathInv(shell[s])'
<1>1. ASSUME NEW w, IsWay(disk, shell[s].path, w)
      PROVE  IsWay(disk', shell[s].path, w)
  <2>1. ASSUME NEW i \in 2 .. Len(shell[s].path)
        PROVE  FolderIn(disk', w[i - 1], shell[s].path[i], w[i])
    BY <1>1, CarryFolder DEF IsWay
  <2> QED BY <1>1, <2>1, WayStays
<1> QED BY <1>1, PathKeeps

\* The shell deletes in the directory at the end of its way.
LEMMA PathDelete ==
    ASSUME Kept, Kept', ZeroName \notin Names, NEW p, IsPath(p), NEW w, IsWay(disk, p, w),
           NEW k \in Names, sys_delete(w[Len(p)], k)
    PROVE  IsWay(disk', p, w)
<1>1. Len(p) \in Nat /\ Len(p) > 0
  BY DEF IsPath
<1>2. w[Len(p)] \in DataCluster
  BY <1>1 DEF IsWay
<1>3. ASSUME NEW i \in 2 .. Len(p)
      PROVE  FolderIn(disk', w[i - 1], p[i], w[i])
  <2>1. FolderIn(disk, w[i - 1], p[i], w[i])
    BY DEF IsWay
  <2>2. CASE i = Len(p)
    BY <1>2, <2>1, <2>2, DeleteFolder
  <2>3. CASE i # Len(p)
    <3>1. i + 1 \in 2 .. Len(p) /\ (i + 1) - 1 = i
      BY <1>1, <2>3
    <3>2. FolderIn(disk, w[i], p[i + 1], w[i + 1])
      BY <3>1 DEF IsWay
    <3>3. ~ TargetEmpty(disk[w[i]].tab)
      BY <3>2, FolderParts
    <3> QED BY <1>2, <2>1, <3>3, DeleteFolder
  <2> QED BY <2>2, <2>3
<1> QED BY <1>3, WayStays

LEMMA PathDeletes ==
    ASSUME Kept, Kept', ZeroName \notin Names, NEW s \in Shells, CopyInv(shell[s]),
           PathInv(shell[s]), DeleteSource(s) \/ \E n \in Names : rm(s, n)
    PROVE  PathInv(shell[s])'
<1>0. FitInv
  BY DEF Kept
<1> DEFINE m == shell[s]
<1>1. PICK n \in Names, x \in {"refresh", "write"} :
         /\ sys_delete(m.dir[0].cluster, n) /\ shell' = [shell EXCEPT ![s].st = x]
         /\ m.st \in Working
  <2>1. CASE DeleteSource(s)
    <3>1. m.st = "delete" /\ sys_delete(m.job.from, m.job.src)
          /\ shell' = [shell EXCEPT ![s].st = "write"]
      BY <2>1 DEF DeleteSource
    <3>2. m.job.from = m.dir[0].cluster /\ m.job.src \in Names /\ m.st \in Working
      BY <1>0, <3>1, Fits DEF CopyInv, Working
    <3> QED BY <3>1, <3>2
  <2>2. ASSUME NEW n \in Names, rm(s, n)
        PROVE  /\ sys_delete(m.dir[0].cluster, n) /\ shell' = [shell EXCEPT ![s].st = "refresh"]
               /\ m.st \in Working
    BY <2>2 DEF rm, Working, get_cluster_number
  <2> QED BY <2>1, <2>2
<1>2. shell'[s].dir = m.dir /\ shell'[s].path = m.path /\ shell'[s].strayed = m.strayed
  BY <1>0, <1>1, OnlyState
<1>3. IsPath(m.path)
  BY <1>0, <1>1, Fits DEF Working
<1>4. ASSUME NEW w, IsWay(disk, m.path, w), w[Len(m.path)] = m.dir[0].cluster
      PROVE  IsWay(disk', m.path, w)
  BY <1>1, <1>3, <1>4, PathDelete
<1> QED BY <1>1, <1>2, <1>4, PathKeeps

LEMMA PathQuiet ==
    ASSUME Kept, Kept', NEW s \in Shells, PathInv(shell[s]),
           \/ \E n \in Names : mkdir(s, n) \/ cat(s, n) \/ mv_nothing(s, n)
           \/ \E n1, n2 \in Names, cmd \in {"mv", "cp"} : ReadSource(s, cmd, n1, n2)
           \/ WriteTarget(s) \/ Overrun(s)
    PROVE  PathInv(shell[s])'
<1>0. FitInv
  BY DEF Kept
<1> DEFINE m == shell[s]
<1>1. ASSUME NEW n \in Names, mkdir(s, n)
      PROVE  PathInv(shell[s])'
  <2>1. m.st = "prompt" /\ sys_write(get_cluster_number(s), n, 0, NoPayload) /\ 0 \in Sizes
        /\ shell' = [shell EXCEPT ![s].st = "refresh"]
    BY <1>1, ShellAssumption DEF mkdir
  <2>2. Still(disk, disk', Held(disk, diskFat))
    BY <2>1, WriteLeaves
  <2>3. shell'[s].dir = m.dir /\ shell'[s].path = m.path /\ shell'[s].strayed = m.strayed
    BY <1>0, <2>1, OnlyState
  <2> QED BY <2>1, <2>2, <2>3, PathStill DEF Working
<1>2. ASSUME NEW n \in Names, cat(s, n)
      PROVE  PathInv(shell[s])'
  <2>1. m.st = "prompt" /\ disk' = disk
    BY <1>2, ReadLeaves DEF cat
  <2>2. shell'[s].dir = m.dir /\ shell'[s].path = m.path /\ shell'[s].strayed = m.strayed
    BY <1>0, <1>2, CatTurns, TurnsFields
  <2> QED BY <2>1, <2>2, SameStill, PathStill DEF Working
<1>3. ASSUME NEW n \in Names, mv_nothing(s, n)
      PROVE  PathInv(shell[s])'
  <2>1. m.st = "prompt" /\ disk' = disk /\ shell' = [shell EXCEPT ![s].st = "refresh"]
    BY <1>3 DEF mv_nothing, vars, durable
  <2>2. shell'[s].dir = m.dir /\ shell'[s].path = m.path /\ shell'[s].strayed = m.strayed
    BY <1>0, <2>1, OnlyState
  <2> QED BY <2>1, <2>2, SameStill, PathStill DEF Working
<1>4. ASSUME NEW n1 \in Names, NEW n2 \in Names, NEW cmd \in {"mv", "cp"},
             ReadSource(s, cmd, n1, n2)
      PROVE  PathInv(shell[s])'
  <2>1. m.st = "prompt" /\ disk' = disk
    BY <1>0, <1>4, ReadSourceTurns, ReadLeaves
  <2>2. PICK j, x : Turns(s, x, m.dir, m.path, j, m.stale, m.strayed)
    BY <1>0, <1>4, ReadSourceTurns
  <2>3. shell'[s].dir = m.dir /\ shell'[s].path = m.path /\ shell'[s].strayed = m.strayed
    BY <2>2, TurnsFields
  <2> QED BY <2>1, <2>3, SameStill, PathStill DEF Working
<1>5. CASE WriteTarget(s)
  <2>1. m.st = "write" /\ sys_write(m.job.to, m.job.as, ClusterSize, m.job.payload)
    BY <1>5 DEF WriteTarget
  <2>2. m.job.as \in Names /\ m.job.payload \in Payloads /\ ClusterSize \in Sizes
    BY <1>0, <2>1, Fits, ShellAssumption DEF Job
  <2>3. Still(disk, disk', Held(disk, diskFat))
    BY <2>1, <2>2, WriteLeaves
  <2>4. PICK j, x, b : Turns(s, x, m.dir, m.path, j, b, m.strayed)
    BY <1>0, <1>5, WriteTargetTurns, Zenon
  <2>5. shell'[s].dir = m.dir /\ shell'[s].path = m.path /\ shell'[s].strayed = m.strayed
    BY <2>4, TurnsFields
  <2> QED BY <2>1, <2>3, <2>5, PathStill DEF Working
<1>6. CASE Overrun(s)
  <2>1. shell' = shell /\ m.st = "overrun"
    BY <1>6 DEF Overrun, shellVars
  <2> QED BY <2>1, PathIdle DEF Working
<1> QED BY <1>1, <1>2, <1>3, <1>4, <1>5, <1>6

LEMMA PathRoot ==
    ASSUME Kept, Kept', ZeroName \notin Names, NEW s \in Shells, cd_root(s)
    PROVE  PathInv(shell[s])'
<1>0. FitInv
  BY DEF Kept
<1>1. pc = "idle" /\ disk' = disk /\ shell[s].st = "start"
  BY ReadDirectoryLeaves DEF cd_root
<1>2. shell'[s].dir = disk[ROOT_CLUSTER_NUMBER].tab /\ shell'[s].path = Append(shell[s].path, RootName)
  <2>1. PICK t, p : /\ t = disk[ROOT_CLUSTER_NUMBER].tab /\ p = Append(shell[s].path, RootName)
                    /\ Turns(s, "prompt", t, p, shell[s].job, shell[s].stale, shell[s].strayed)
    BY <1>0, <1>1, RootLoads, CdRootTurns
  <2> QED BY <2>1 DEF Turns
<1>3. shell'[s].dir[0].cluster = ROOT_CLUSTER_NUMBER /\ ROOT_CLUSTER_NUMBER \in DataCluster
  BY <1>1, <1>2, IdleTree, Constants DEF Tree, HeaderRows, RootSound
<1>4. shell[s].path = << >>
  BY <1>0, <1>1, Fits
<1>5. Append(<< >>, RootName) = <<RootName>> /\ Len(<<RootName>>) = 1
  OBVIOUS
<1>6. shell'[s].path = <<RootName>>
  BY <1>2, <1>4, <1>5
<1> DEFINE w == [i \in 1 .. 1 |-> ROOT_CLUSTER_NUMBER]
<1>7. IsWay(disk', <<RootName>>, w) /\ w[Len(<<RootName>>)] = ROOT_CLUSTER_NUMBER
  BY <1>3, <1>5 DEF IsWay
<1> HIDE DEF w
<1> QED BY <1>3, <1>6, <1>7 DEF PathInv

LEMMA PathRefresh ==
    ASSUME Kept, Kept', ZeroName \notin Names, NEW s \in Shells, CopyInv(shell[s]),
           PathInv(shell[s]), cd_refresh(s)
    PROVE  PathInv(shell[s])'
<1>0. FitInv
  BY DEF Kept
<1> DEFINE d == get_cluster_number(s)
<1>1. pc = "idle" /\ disk' = disk /\ shell[s].st = "refresh"
  BY ReadDirectoryLeaves DEF cd_refresh
<1>2. d \in DataCluster /\ ValidDir(disk[d].tab) /\ disk[d].tab[0] = shell[s].dir[0]
  BY <1>1, CopyHead DEF Working
<1>3. DirectoryRead(d, shell[s].dir[0].name) = disk[d].tab
  BY <1>1, <1>2, SelfLoads
<1>4. PICK b, j : Turns(s, "prompt", disk[d].tab, shell[s].path, j, b, shell[s].strayed)
  BY <1>0, <1>3, RefreshTurns, Zenon
<1>5. /\ shell'[s].dir = disk[d].tab /\ shell'[s].path = shell[s].path
      /\ shell'[s].strayed = shell[s].strayed
  BY <1>4, TurnsFields
<1>6. shell'[s].dir[0].cluster = shell[s].dir[0].cluster
  BY <1>2, <1>5
<1> QED BY <1>1, <1>5, <1>6, SameStill, PathStill DEF Working

\* cd .. goes back along the way.
LEMMA WayBack ==
    ASSUME Kept, pc = "idle", RootName \notin Names, NEW p, IsPath(p), NEW w,
           IsWay(disk, p, w), NEW t
    PROVE  LET q == PathAfter(p, DotDot, t)
               c == disk[w[Len(p)]].tab[1].cluster
           IN  \E v : IsWay(disk, q, v) /\ v[Len(q)] = c
<1> DEFINE L == Len(p)
           c == disk[w[L]].tab[1].cluster
           q == PathAfter(p, DotDot, t)
<1>1. L \in Nat /\ L > 0 /\ Last(p) = p[L]
  BY DEF IsPath, Last
<1>2. CASE L = 1
  <2>1. q = p /\ w[L] = ROOT_CLUSTER_NUMBER
    BY <1>1, <1>2 DEF PathAfter, IsPath, IsWay
  <2>2. c = ROOT_CLUSTER_NUMBER
    BY <2>1, IdleTree DEF RootSound
  <2> HIDE DEF q, c
  <2> QED BY <2>1, <2>2 DEF q, c
<1>3. CASE L > 1
  <2>1. L \in 2 .. L
    BY <1>1, <1>3
  <2>2. p[L] \in Names /\ FolderIn(disk, w[L - 1], p[L], w[L])
    BY <2>1 DEF IsWay
  <2>3. p[L] # RootName
    BY <2>2
  <2>4. q = Front(p)
    BY <1>1, <2>3 DEF PathAfter
  <2>5. PICK r \in Row : /\ LiveIn(disk, w[L - 1], r) /\ disk[w[L - 1]].tab[r].sub
                         /\ disk[w[L - 1]].tab[r].cluster = w[L]
    BY <2>2 DEF FolderIn
  <2>6. w[L - 1] \in DataCluster /\ w[L] \in DataCluster
    BY <1>1, <1>3 DEF IsWay
  <2>7. ValidDir(disk[w[L]].tab)
    <3>1. w[L] # 0
      BY <2>6, Constants DEF FAT32_FAT_EMPTY_ENTRY
    <3> QED BY <2>5, <2>6, <3>1, IdleTree DEF Tree, FoldersThere
  <2>8. c = w[L - 1]
    <3>1. HeadersSound(disk)
      BY IdleTree DEF DiskSound
    <3>2. PICK a \in DataCluster, z \in DataCluster : a = w[L - 1] /\ z = w[L]
      BY <2>6
    <3>3. LiveIn(disk, a, r) /\ disk[a].tab[r].sub /\ disk[a].tab[r].cluster = z /\ ValidDir(disk[z].tab)
      BY <2>5, <2>7, <3>2
    <3>4. Header(disk, a, z, disk[a].tab[r].name)
      BY <3>1, <3>3 DEF HeadersSound
    <3> QED BY <3>2, <3>4 DEF Header
  <2>9. Len(Front(p)) = L - 1 /\ \A i \in 1 .. L - 1 : Front(p)[i] = p[i]
    BY <1>3, FrontOf
  <2> DEFINE v == [i \in 1 .. L - 1 |-> w[i]]
  <2>10. IsWay(disk, Front(p), v) /\ v[L - 1] = w[L - 1]
    <3>1. v \in [1 .. L - 1 -> DataCluster] /\ v[1] = ROOT_CLUSTER_NUMBER /\ v[L - 1] = w[L - 1]
      BY <1>1, <1>3 DEF IsWay
    <3>2. ASSUME NEW i \in 2 .. L - 1
          PROVE  /\ Front(p)[i] \in Names \ {DotDot}
                 /\ FolderIn(disk, v[i - 1], Front(p)[i], v[i])
      <4>1. i \in 2 .. L /\ i \in 1 .. L - 1 /\ i - 1 \in 1 .. L - 1
        BY <1>1
      <4>2. v[i] = w[i] /\ v[i - 1] = w[i - 1] /\ Front(p)[i] = p[i]
        BY <2>9, <4>1
      <4>3. p[i] \in Names \ {DotDot} /\ FolderIn(disk, w[i - 1], p[i], w[i])
        BY <4>1 DEF IsWay
      <4> HIDE DEF v
      <4> QED BY <4>2, <4>3, Zenon
    <3> HIDE DEF v
    <3> QED BY <2>9, <3>1, <3>2 DEF IsWay
  <2> HIDE DEF v, q, c
  <2> QED BY <2>4, <2>8, <2>9, <2>10 DEF q, c
<1>4. L = 1 \/ L > 1
  <2>1. \A i \in Nat : i > 0 => i = 1 \/ i > 1
    OBVIOUS
  <2> HIDE DEF L
  <2> QED BY <1>1, <2>1
<1> QED BY <1>2, <1>3, <1>4, Zenon

\* cd to a folder goes one further.
LEMMA WayOn ==
    ASSUME NEW p, IsPath(p), NEW w, IsWay(disk, p, w), NEW n \in Names, n # DotDot, NEW c \in DataCluster,
           FolderIn(disk, w[Len(p)], n, c)
    PROVE  \E v : IsWay(disk, Append(p, n), v) /\ v[Len(Append(p, n))] = c
<1> DEFINE L == Len(p)
           q == Append(p, n)
           v == [i \in 1 .. L + 1 |-> IF i = L + 1 THEN c ELSE w[i]]
<1>1. L \in Nat /\ L > 0
  BY DEF IsPath
<1>2. Len(q) = L + 1 /\ q[L + 1] = n /\ \A i \in 1 .. L : q[i] = p[i]
  BY AppendOf DEF AllNames
<1> HIDE DEF q
<1>3. /\ v \in [1 .. L + 1 -> DataCluster] /\ v[1] = ROOT_CLUSTER_NUMBER /\ v[L + 1] = c
      /\ \A i \in 1 .. L : v[i] = w[i]
  BY <1>1 DEF IsWay
<1> HIDE DEF v
<1>4. ASSUME NEW i \in 2 .. L + 1
      PROVE  q[i] \in Names \ {DotDot} /\ FolderIn(disk, v[i - 1], q[i], v[i])
  <2>1. CASE i = L + 1
    <3>1. i - 1 = L /\ L \in 1 .. L
      BY <1>1, <2>1
    <3>2. v[i - 1] = w[L] /\ v[i] = c /\ q[i] = n
      BY <1>2, <1>3, <2>1, <3>1
    <3> QED BY <3>2
  <2>2. CASE i # L + 1
    <3>1. i \in 2 .. L /\ i \in 1 .. L /\ i - 1 \in 1 .. L
      BY <1>1, <2>2
    <3>2. v[i] = w[i] /\ v[i - 1] = w[i - 1] /\ q[i] = p[i]
      BY <1>2, <1>3, <3>1
    <3> QED BY <3>1, <3>2 DEF IsWay
  <2> QED BY <2>1, <2>2
<1>5. IsWay(disk, q, v)
  BY <1>2, <1>3, <1>4 DEF IsWay
<1> QED BY <1>2, <1>3, <1>5 DEF q

LEMMA PathCd ==
    ASSUME Kept, Kept', ZeroName \notin Names, RootName \notin Names, NEW s \in Shells,
           CopyInv(shell[s]), PathInv(shell[s]), NEW n \in AllNames, cd(s, n)
    PROVE  PathInv(shell[s])'
<1>0. FitInv
  BY DEF Kept
<1> DEFINE m == shell[s]
           d == get_cluster_number(s)
<1>1. pc = "idle" /\ disk' = disk /\ m.st = "prompt" /\ sys_read_directory(d, n)
  BY ReadDirectoryLeaves DEF cd
<1>2. /\ d \in DataCluster /\ ValidDir(disk[d].tab) /\ disk[d].tab[0] = m.dir[0]
      /\ Behind(m.dir, disk[d].tab)
  BY <1>1 DEF Working, CopyInv, get_cluster_number
<1>3. PICK r \in Row : m.dir[r].used /\ m.dir[r].sub /\ m.dir[r].name = n
  BY DEF cd, SubRows
<1>4. disk[d].tab[r].used /\ disk[d].tab[r].sub /\ disk[d].tab[r].name = n
  BY <1>2, <1>3 DEF Behind
<1>5. PICK r0 \in Row :
         /\ IsFirst(MatchFrom(disk[d].tab, n, 0), r0)
         /\ disk[d].tab[r0].name = n /\ disk[d].tab[r0].sub /\ disk[d].tab[r0].used
         /\ disk[d].tab[r0].cluster \in DataCluster
         /\ ValidDir(disk[disk[d].tab[r0].cluster].tab)
         /\ DirectoryRead(d, n) = disk[disk[d].tab[r0].cluster].tab
  BY <1>1, <1>2, <1>4, CdLoads
<1>6. PICK c, t : c = disk[d].tab[r0].cluster /\ t = disk[c].tab
  OBVIOUS
<1>7. DirectoryRead(d, n) = t /\ ValidDir(t) /\ c \in DataCluster
  BY <1>5, <1>6
<1>8. PICK q, b : q = PathAfter(m.path, n, t) /\ b = (m.strayed \/ n = m.dir[0].name)
  BY Zenon
<1>9. \/ Turns(s, "overrun", t, m.path, m.job, FALSE, b)
      \/ Turns(s, "prompt", t, q, m.job, FALSE, b)
  BY <1>0, <1>7, <1>8, CdTurns
<1>10. CASE Turns(s, "overrun", t, m.path, m.job, FALSE, b)
  <2>1. shell'[s].st = "overrun"
    BY <1>10 DEF Turns
  <2> QED BY <2>1, PathIdle DEF Working
<1>11. CASE Turns(s, "prompt", t, q, m.job, FALSE, b)
  <2>1. shell'[s].dir = t /\ shell'[s].path = q /\ shell'[s].strayed = b
    BY <1>11 DEF Turns
  <2>2. SUFFICES ASSUME ~ b
                 PROVE  \E v : IsWay(disk, q, v) /\ v[Len(q)] = c
    <3>1. HeaderRows(disk)
      BY <1>1, IdleTree DEF Tree
    <3>2. t[0].cluster = c
      BY <1>6, <1>7, <3>1 DEF HeaderRows
    <3> QED BY <1>1, <2>1, <3>2 DEF PathInv
  <2>3. ~ m.strayed /\ n # m.dir[0].name
    BY <1>8, <2>2
  <2>4. PICK w : IsWay(disk, m.path, w) /\ w[Len(m.path)] = d
    BY <1>1, <2>3 DEF PathInv, Working, get_cluster_number
  <2>5. IsPath(m.path) /\ r0 # 0
    BY <1>0, <1>1, <1>2, <1>5, <2>3, Fits
  <2>6. disk[d].tab[1].name = DotDot /\ 1 \in Row
    BY <1>1, <1>2, IdleTree, Constants DEF Tree, HeaderRows
  <2>7. CASE n = DotDot
    <3>1. 1 \in MatchFrom(disk[d].tab, n, 0)
      BY <2>6, <2>7 DEF MatchFrom
    <3>2. r0 <= 1
      BY <1>5, <3>1 DEF IsFirst
    <3>3. r0 = 1
      BY <2>5, <3>2, Constants
    <3>4. c = disk[w[Len(m.path)]].tab[1].cluster /\ q = PathAfter(m.path, DotDot, t)
      BY <1>6, <1>8, <2>4, <2>7, <3>3
    <3> QED BY <1>1, <2>4, <2>5, <3>4, WayBack
  <2>8. CASE n # DotDot
    <3>1. r0 >= 2
      BY <1>5, <2>5, <2>6, <2>8, RowKinds
    <3>2. LiveIn(disk, d, r0)
      BY <1>2, <1>5, <3>1 DEF LiveIn
    <3>3. n \in Names /\ FolderIn(disk, d, n, c)
      <4>1. n \in Names
        BY <1>1, <1>2, <1>5, <3>2, IdleTree DEF Tree, EntriesRead
      <4> QED BY <1>5, <1>6, <3>2, <4>1, FolderIs
    <3>4. q = Append(m.path, n)
      <4>1. t[1].used /\ t[1].sub /\ t[1].name # n
        BY <1>1, <1>6, <1>7, <2>8, IdleTree DEF Tree, HeaderRows
      <4>2. \E y \in SubRows(t) : t[y].name # n
        BY <2>6, <4>1 DEF SubRows
      <4> QED BY <1>8, <2>8, <4>2 DEF PathAfter
    <3> QED BY <1>7, <2>4, <2>5, <2>8, <3>3, <3>4, WayOn
  <2> QED BY <2>7, <2>8
<1> QED BY <1>9, <1>10, <1>11

WaysInv == \A s \in Shells : PathInv(shell[s])

LEMMA WaysStep ==
    ASSUME ZeroName \notin Names, RootName \notin Names, Alone
    PROVE  Kept /\ Kept' /\ CopiesInv /\ WaysInv /\ [ShellNext]_shellVars => WaysInv'
<1>1. SUFFICES ASSUME Kept, Kept', CopiesInv, WaysInv, [ShellNext]_shellVars, NEW s \in Shells
               PROVE  PathInv(shell[s])'
  BY DEF WaysInv
<1>2. CopyInv(shell[s]) /\ PathInv(shell[s])
  BY <1>1 DEF CopiesInv, WaysInv
<1>3. CASE Carry /\ shell' = shell
  BY <1>1, <1>2, <1>3, PathCarry
<1>4. ASSUME NEW n \in Names, NEW size \in Sizes, NEW p \in Payloads \ {Unread},
             Insert(n, size, p)
      PROVE  PathInv(shell[s])'
  <2>1. shell' = shell /\ shell[s].st = "start"
    BY <1>4 DEF Insert
  <2> QED BY <2>1, PathIdle DEF Working
<1>5. CASE Command(s)
  BY <1>1, <1>2, <1>5, PathRoot, PathRefresh, PathCd, PathDeletes, PathQuiet DEF Command
<1>6. ASSUME NEW q \in Shells, Command(q)
      PROVE  PathInv(shell[s])'
  BY <1>5, <1>6 DEF Alone
<1>7. CASE UNCHANGED shellVars
  BY <1>2, <1>7 DEF PathInv, shellVars, vars, durable
<1> QED BY <1>1, <1>3, <1>4, <1>6, <1>7 DEF ShellNext, Carry

\* The path at the prompt of a shell that is alone leads to the directory its commands
\* work in, whatever it makes, removes and moves on the way: cd and cd .. keep the
\* two in step.  No folder is called root; cd .. in one leaves the path as it is.
THEOREM PathStaysCurrent ==
    ASSUME ZeroName \notin Names, RootName \notin Names, Alone
    PROVE  ShellSpec => []PathIsCurrent
<1> DEFINE All == Kept /\ CopiesInv /\ WaysInv
<1>1. ShellInit => All
  BY KeptInit, CopiesInit DEF ShellInit, WaysInv, PathInv, Working
<1>2. All /\ [ShellNext]_shellVars => All'
  BY KeptStep, CopiesStep, WaysStep
<1>3. All => PathIsCurrent
  <2>1. SUFFICES ASSUME All, NEW s \in Shells, AtPrompt(s), ~ shell[s].strayed
                 PROVE  Resolve(ROOT_CLUSTER_NUMBER, Tail(shell[s].path)) = get_cluster_number(s)
    BY DEF PathIsCurrent
  <2>2. PICK w : IsWay(disk, shell[s].path, w) /\ w[Len(shell[s].path)] = get_cluster_number(s)
    BY <2>1 DEF WaysInv, PathInv, AtPrompt, Working, get_cluster_number
  <2>3. IsPath(shell[s].path)
    BY <2>1, Fits DEF Kept, AtPrompt
  <2> QED BY <2>1, <2>2, <2>3, WayResolves
<1> HIDE DEF All
<1> QED BY <1>1, <1>2, <1>3, PTL DEF ShellSpec

-----------------------------------------------------------------------------
(* What mv leaves *)

LEMMA MvUnsure ==
    ASSUME NEW s, shell'[s].job.sure = FALSE
    PROVE  MvInv(shell[s])'
BY DEF MvInv

LEMMA TakenStill ==
    ASSUME Kept, Kept', Still(disk, disk', Held(disk, diskFat)), NEW j, Taken(disk, j)
    PROVE  Taken(disk', j)
<1>1. \A x \in DataCluster, y \in Row :
         LiveIn(disk', x, y) => LiveIn(disk, x, y) /\ disk'[x] = disk[x]
  BY KeptSound, StillKeeps
<1> QED BY <1>1 DEF Taken, Gone

LEMMA WriteCodeStill ==
    ASSUME Kept, Kept', Still(disk, disk', Held(disk, diskFat)), NEW d \in DataCluster, NEW n,
           WriteCode(disk[d].tab, n) = 0
    PROVE  WriteCode(disk'[d].tab, n) = 0
<1>1. ValidDir(disk[d].tab)
  BY DEF WriteCode
<1>2. disk'[d] = disk[d]
  BY <1>1, StillStays
<1> QED BY <1>2

\* The row that ends a write is the file mv moves.
LEMMA MvRow ==
    ASSUME Kept, Kept', WriteRow, NEW j, Taken(disk, j), call.parent = j.to, call.name = j.as,
           call.payload = j.payload
    PROVE  Taken(disk', j) /\ Moved(disk', j)
<1> DEFINE e == FileEntry(call.name, call.start, call.size)
<1>1. /\ RowSet(disk, disk', call.parent, call.row, e) /\ call.start \in DataCluster
      /\ ~ ValidDir(disk[call.start].tab) /\ pc = "writeRow"
  BY WriteRowDoes, KeptSound
<1>2. e.used /\ e.name = call.name /\ e.cluster = call.start
  BY DEF FileEntry
<1> HIDE DEF e
<1>3. /\ call.row \in Row /\ ValidDir(disk[call.parent].tab)
      /\ LiveIn(disk', call.parent, call.row) /\ disk'[call.parent].tab[call.row] = e
      /\ \A x \in DataCluster : x # call.parent => disk'[x] = disk[x]
  BY <1>1, <1>2, RowSetKeeps
<1>4. call.start # call.parent
  BY <1>1, <1>3
<1>5. disk'[call.start].data.p = j.payload
  BY <1>1, <1>3, <1>4 DEF Kept, TreeInv, CallBrings
<1>6. Moved(disk', j)
  BY <1>2, <1>3, <1>5 DEF Moved
<1>7. ASSUME NEW y \in Row, LiveIn(disk', j.from, y)
      PROVE  disk'[j.from].tab[y].name # j.src
  <2>1. CASE j.from = call.parent /\ y = call.row
    BY <1>2, <1>3, <2>1 DEF Taken
  <2>2. CASE j.from # call.parent \/ y # call.row
    <3>1. LiveIn(disk, j.from, y) /\ disk'[j.from].tab[y] = disk[j.from].tab[y]
      BY <1>1, <1>7, <2>2, RowSetKeeps DEF Taken
    <3> QED BY <3>1 DEF Taken, Gone
  <2> QED BY <2>1, <2>2
<1> QED BY <1>6, <1>7 DEF Taken, Gone

\* Steps of a write and of a delete that change no directory.
LEMMA CarryQuiet ==
    ASSUME Kept, Kept', Carry, pc \in {"fill", "writeRow", "rmFirst", "rmLoop", "rmLast"}, ~ WriteRow
    PROVE  /\ Still(disk, disk', Held(disk, diskFat))
           /\ pc \in {"rmFirst", "rmLoop", "rmLast"} =>
                 pc' \in {"idle", "rmLoop", "rmLast", "wild", "spin", "overrun"}
           /\ pc \in {"fill", "writeRow"} =>
                 /\ pc' \in {"fill", "writeRow", "wild", "spin", "overrun"}
                 /\ call'.parent = call.parent /\ call'.name = call.name
                 /\ call'.payload = call.payload
<1>0. Sound
  BY KeptSound
<1>1. CASE WriteNext
  BY <1>0, <1>1, WriteNextDoes
<1>2. CASE RmCluster \/ RmLast
  BY <1>0, <1>2, RmClusterDoes, RmLastDoes
<1>3. CASE FillOverrun \/ WriteFat
  <2>1. pc = "fill" /\ pc' \in {"wild", "spin", "overrun", "writeRow"} /\ disk' = disk /\ call' = call
    BY <1>3 DEF FillOverrun, WriteFat, durable
  <2> QED BY <2>1, SameStill
<1>4. CASE RmRunaway \/ RmFat
  <2>1. pc \in {"rmFirst", "rmLoop"} /\ pc' \in {"wild", "spin", "overrun", "rmLast"} /\ disk' = disk
    BY <1>4 DEF RmRunaway, RmFat
  <2> QED BY <2>1, SameStill
<1>5. ~ Boot /\ ~ FormatSignature /\ ~ Wild /\ ~ FormatFat /\ ~ FormatRoot /\ ~ MkdirParent
      /\ ~ MkdirTable /\ ~ RmdirTable /\ ~ RmdirFat
  BY DEF Boot, FormatSignature, Wild, Lost, FormatFat, FormatRoot, MkdirParent, MkdirTable,
     RmdirTable, RmdirFat
<1> QED BY <1>1, <1>2, <1>3, <1>4, <1>5 DEF Carry, Continue

LEMMA MvCarry ==
    ASSUME Kept, Kept', NEW s \in Shells, CopyInv(shell[s]), MvInv(shell[s]), Carry, shell' = shell
    PROVE  MvInv(shell[s])'
<1> DEFINE m == shell[s]
<1>1. PICK j : j = m.job
  OBVIOUS
<1>2. CASE ~ (j.sure /\ pc \notin {"wild", "spin", "overrun"})
  BY <1>1, <1>2, CarryGoes DEF MvInv
<1>3. CASE j.sure /\ pc \notin {"wild", "spin", "overrun"}
  <2>0. j.cmd = "mv" /\ m.st \notin {"start", "prompt"}
    BY <1>1, <1>3 DEF MvInv
  <2>1. CASE m.st = "delete"
    <3>1. pc = "idle"
      BY <1>3, <2>1 DEF CopyInv
    <3>2. disk' = disk
      BY <3>1, CarryGoes
    <3>3. Ready(j)
      BY <1>1, <1>3, <2>1 DEF MvInv
    <3>4. Ready(j)'
      BY <3>2, <3>3 DEF Ready, Sure, PlainFile, Live, EntryOf
    <3> QED BY <1>1, <2>0, <2>1, <3>4 DEF MvInv
  <2>2. CASE m.st = "write"
    <3>1. /\ Taken(disk, j) /\ WriteCode(disk[j.to].tab, j.as) = 0
          /\ pc \in {"idle", "rmFirst", "rmLoop", "rmLast"}
      BY <1>1, <1>3, <2>2 DEF MvInv
    <3>2. pc' \in {"idle", "rmFirst", "rmLoop", "rmLast", "wild", "spin", "overrun"} /\ Still(disk, disk', Held(disk, diskFat))
      <4>1. CASE pc = "idle"
        BY <4>1, CarryGoes, SameStill
      <4>2. CASE pc # "idle"
        <5>1. ~ WriteRow
          BY <3>1 DEF WriteRow
        <5> QED BY <3>1, <4>2, <5>1, CarryQuiet
      <4> QED BY <4>1, <4>2
    <3>3. Taken(disk', j) /\ WriteCode(disk'[j.to].tab, j.as) = 0
      BY <3>1, <3>2, TakenStill, WriteCodeStill DEF Taken
    <3> QED BY <1>1, <2>0, <2>2, <3>2, <3>3 DEF MvInv
  <2>3. CASE m.st = "refresh"
    <3>1. /\ Taken(disk, j)
          /\ \/ pc = "idle" /\ Moved(disk, j)
             \/ /\ pc \in {"fill", "writeRow"} /\ call.parent = j.to
                /\ call.name = j.as /\ call.payload = j.payload
      BY <1>1, <1>3, <2>3 DEF MvInv
    <3>2. CASE pc = "idle"
      <4>1. pc' = "idle" /\ disk' = disk
        BY <3>2, CarryGoes
      <4>2. Taken(disk', j) /\ Moved(disk', j)
        BY <3>1, <3>2, <4>1
      <4> QED BY <1>1, <2>0, <2>3, <4>1, <4>2 DEF MvInv
    <3>3. CASE pc # "idle" /\ WriteRow
      <4>1. pc' = "idle"
        BY <3>3 DEF WriteRow, Return
      <4>2. Taken(disk', j) /\ Moved(disk', j)
        BY <3>1, <3>3, MvRow
      <4> QED BY <1>1, <2>0, <2>3, <4>1, <4>2 DEF MvInv
    <3>4. CASE pc # "idle" /\ ~ WriteRow
      <4>1. /\ pc' \in {"fill", "writeRow", "wild", "spin", "overrun"} /\ call'.parent = j.to
            /\ call'.name = j.as /\ call'.payload = j.payload
            /\ Still(disk, disk', Held(disk, diskFat))
        BY <3>1, <3>4, CarryQuiet
      <4>2. Taken(disk', j)
        BY <3>1, <4>1, TakenStill
      <4> QED BY <1>1, <2>0, <2>3, <4>1, <4>2 DEF MvInv
    <3> QED BY <3>2, <3>3, <3>4
  <2>4. CASE m.st \notin {"delete", "write", "refresh"}
    BY <1>1, <2>0, <2>4 DEF MvInv
  <2> QED BY <2>1, <2>2, <2>3, <2>4
<1> QED BY <1>2, <1>3

\* The delete of mv removes the file, and only that, from the directory.
LEMMA MvDeletes ==
    ASSUME Kept, Kept', ZeroName \notin Names, NEW j, Ready(j), j.src \in Names, j.as \in Names,
           sys_delete(j.from, j.src)
    PROVE  /\ pc' = "rmFirst" /\ Taken(disk', j) /\ WriteCode(disk'[j.to].tab, j.as) = 0
<1> DEFINE t == disk[j.from].tab
<1>1. /\ j.from \in DataCluster /\ j.to \in DataCluster
      /\ ReadCode(t, j.src, ClusterSize) = 0 /\ ValidDir(disk[j.to].tab)
      /\ MatchFrom(disk[j.to].tab, j.as, 2) = {}
      /\ j.to = j.from \/ FreeRow(disk[j.to].tab) # {}
  BY DEF Ready, Sure
<1>2. PICK r \in Row : LiveIn(disk, j.from, r) /\ t[r].name = j.src /\ ~ t[r].sub
  BY <1>1, FileReads DEF Kept
<1>3. r >= 2 /\ ValidDir(t) /\ r \in MatchFrom(t, j.src, 2)
  BY <1>2 DEF LiveIn, MatchFrom
<1>4. \A y \in Row : LiveIn(disk, j.from, y) /\ t[y].name = j.src => y = r
  BY <1>1, <1>2, LiveIsLive DEF Kept, IInv, NamesUnique, EntryOf
<1>5. \A y \in MatchFrom(t, j.src, 2) : y = r
  <2>1. \A y \in Row : y >= 2 /\ t[y].name = j.src => t[y].used
    BY <1>1 DEF Kept, NamedInv, DiskSound, UseIsNamed
  <2> QED BY <1>1, <1>3, <1>4, <2>1 DEF MatchFrom, LiveIn
<1>6. \A y \in DeleteRow(t, j.src) : y = r
  BY <1>5 DEF DeleteRow, IsFirst
<1>7. DeleteCode(t, j.src) = 0
  BY <1>2, <1>3, <1>6 DEF DeleteCode, NotEmpty
<1>8. RmRow(j.from, j.src)
  <2>1. ~ DeleteReject(j.from, j.src)
    BY <1>7 DEF DeleteReject
  <2>2. ~ RmdirParent(j.from, j.src)
    BY <1>2, <1>6 DEF RmdirParent
  <2> QED BY <1>1, <2>1, <2>2 DEF sys_delete
<1>9. PICK y \in Row : Erases(disk, disk', j.from, y) /\ t[y].name = j.src
  BY <1>1, <1>8, RmRowDoes, KeptSound
<1>10. y = r /\ pc' = "rmFirst"
  BY <1>4, <1>8, <1>9 DEF Erases, RmRow
<1>11. PICK e : RowSet(disk, disk', j.from, r, e) /\ ~ e.used /\ e.name = ZeroName
  BY <1>9, <1>10 DEF Erases
<1>12. /\ \A z \in Row : z # r => disk'[j.from].tab[z] = t[z]
       /\ \A z \in Row : z # r => (LiveIn(disk', j.from, z) <=> LiveIn(disk, j.from, z))
       /\ ~ LiveIn(disk', j.from, r) /\ disk'[j.from].tab[r] = e
       /\ ValidDir(disk'[j.to].tab)
       /\ j.to # j.from => disk'[j.to] = disk[j.to]
  BY <1>1, <1>11, RowSetKeeps
<1>13. j.to = j.from => j.as # j.src
  BY <1>1, <1>3
<1>14. Taken(disk', j)
  BY <1>1, <1>4, <1>12, <1>13 DEF Taken, Gone
<1>15. WriteCode(disk'[j.to].tab, j.as) = 0
  <2>1. CASE j.to # j.from
    BY <1>1, <1>12, <2>1 DEF WriteCode
  <2>2. CASE j.to = j.from
    <3>1. r \in FreeRow(disk'[j.to].tab)
      BY <1>3, <1>11, <1>12, <2>2 DEF FreeRow
    <3>2. MatchFrom(disk'[j.to].tab, j.as, 2) = {}
      BY <1>1, <1>11, <1>12, <2>2 DEF MatchFrom
    <3> QED BY <1>12, <3>1, <3>2 DEF WriteCode
  <2> QED BY <2>1, <2>2
<1> QED BY <1>10, <1>14, <1>15

LEMMA MvDelete ==
    ASSUME Kept, Kept', ZeroName \notin Names, NEW s \in Shells, CopyInv(shell[s]),
           MvInv(shell[s]), DeleteSource(s)
    PROVE  MvInv(shell[s])'
<1>0. FitInv
  BY DEF Kept
<1>1. PICK j : j = shell[s].job
  OBVIOUS
<1>2. /\ shell[s].st = "delete" /\ sys_delete(j.from, j.src)
      /\ shell' = [shell EXCEPT ![s].st = "write"]
  BY <1>1 DEF DeleteSource
<1>3. shell'[s].st = "write" /\ shell'[s].job = j
  BY <1>0, <1>1, <1>2, OnlyState
<1>4. j.src \in Names /\ j.as \in Names /\ j.sure \in BOOLEAN
  BY <1>0, <1>1, <1>2, Fits DEF Job
<1>5. CASE j.sure
  <2>1. pc = "idle" /\ j.cmd = "mv" /\ j.was = j.payload
    BY <1>1, <1>2, <1>4, <1>5, DeleteLeaves DEF MvInv
  <2>2. Ready(j)
    BY <1>1, <1>2, <1>5, <2>1 DEF MvInv
  <2>3. pc' = "rmFirst" /\ Taken(disk', j) /\ WriteCode(disk'[j.to].tab, j.as) = 0
    BY <1>2, <1>4, <2>2, MvDeletes
  <2> QED BY <1>3, <2>1, <2>3 DEF MvInv
<1>6. CASE ~ j.sure
  BY <1>3, <1>6 DEF MvInv
<1> QED BY <1>4, <1>5, <1>6

LEMMA MvWrite ==
    ASSUME Kept, Kept', NEW s \in Shells, MvInv(shell[s]), WriteTarget(s)
    PROVE  MvInv(shell[s])'
<1>0. FitInv
  BY DEF Kept
<1>1. PICK j : j = shell[s].job
  OBVIOUS
<1>2. shell[s].st = "write" /\ sys_write(j.to, j.as, ClusterSize, j.payload)
  BY <1>1 DEF WriteTarget
<1>3. j.as \in Names /\ j.payload \in Payloads /\ ClusterSize \in Sizes /\ ClusterSize # 0
      /\ j.sure \in BOOLEAN
  BY <1>0, <1>1, <1>2, Fits, ShellAssumption, SizeAssumption DEF Job
<1>4. /\ j.cmd = "mv" => shell'[s].st = "refresh" /\ shell'[s].job = j
      /\ j.cmd # "mv" => shell'[s].job.sure = FALSE
  <2>1. PICK x, k, b : /\ x = IF j.cmd = "mv" THEN "refresh" ELSE "prompt"
                       /\ k = IF j.cmd = "mv" THEN j ELSE NoJob
                       /\ Turns(s, x, shell[s].dir, shell[s].path, k, b, shell[s].strayed)
    BY <1>0, <1>1, WriteTargetTurns, Zenon
  <2>2. shell'[s].st = x /\ shell'[s].job = k
    BY <2>1, TurnsFields
  <2>3. NoJob.sure = FALSE
    BY DEF NoJob
  <2> HIDE DEF NoJob
  <2> QED BY <2>1, <2>2, <2>3
<1>5. CASE j.cmd # "mv"
  BY <1>4, <1>5, MvUnsure
<1>6. CASE j.cmd = "mv" /\ ~ j.sure
  BY <1>4, <1>6 DEF MvInv
<1>7. CASE j.cmd = "mv" /\ j.sure
  <2>1. pc = "idle" /\ pc' \in {"idle", "wild", "spin", "overrun", "fill"} /\ Still(disk, disk', Held(disk, diskFat))
    BY <1>2, <1>3, WriteLeaves
  <2>2. Taken(disk, j) /\ WriteCode(disk[j.to].tab, j.as) = 0 /\ j.was = j.payload
    BY <1>1, <1>2, <1>7, <2>1 DEF MvInv
  <2>3. Taken(disk', j) /\ j.to \in DataCluster
    BY <2>1, <2>2, TakenStill DEF Taken
  <2>4. ~ WriteReject(j.to, j.as)
    BY <2>2 DEF WriteReject
  <2>5. CASE WriteOverrun(j.to, j.as)
    <3>1. pc' \in {"wild", "spin", "overrun"}
      BY <2>5 DEF WriteOverrun
    <3> QED BY <1>4, <1>7, <2>2, <3>1 DEF MvInv
  <2>6. CASE WriteFirst(j.to, j.as, ClusterSize, j.payload)
    <3>1. pc' = "fill" /\ call'.parent = j.to /\ call'.name = j.as /\ call'.payload = j.payload
      BY <1>3, <2>3, <2>6, WriteFirstDoes, KeptSound
    <3> QED BY <1>4, <1>7, <2>2, <2>3, <3>1 DEF MvInv
  <2> QED BY <1>2, <1>3, <2>3, <2>4, <2>5, <2>6 DEF sys_write
<1> QED BY <1>3, <1>5, <1>6, <1>7

LEMMA MvBegins ==
    ASSUME Kept, Kept', ZeroName \notin Names, NEW s \in Shells, NEW n1 \in Names, NEW n2 \in Names,
           NEW cmd \in {"mv", "cp"}, ReadSource(s, cmd, n1, n2)
    PROVE  MvInv(shell[s])'
<1>0. FitInv
  BY DEF Kept
<1>1. disk' = disk
  BY <1>0, ReadSourceTurns, ReadLeaves
<1>2. PICK j, x : /\ IsJob(s, cmd, n1, n2, j)
                  /\ x \in {"overrun", IF cmd = "mv" THEN "delete" ELSE "write"}
                  /\ Turns(s, x, shell[s].dir, shell[s].path, j, shell[s].stale, shell[s].strayed)
  BY <1>0, ReadSourceTurns
<1>3. shell'[s].st = x /\ shell'[s].job = j
  BY <1>2, TurnsFields
<1>4. PICK b, w, d : b = j.sure /\ d = get_cluster_number(s) /\ w = Noted(b, d, n1)
  OBVIOUS
<1>5. /\ j = [cmd |-> cmd, src |-> n1, from |-> d, to |-> j.to, as |-> j.as,
              payload |-> FileRead(d, n1), sure |-> b, was |-> w]
      /\ b = (cmd = "mv" /\ Sure(d, n1, j.to, j.as))
  BY <1>2, <1>4 DEF IsJob
<1>6. j.cmd = cmd /\ j.src = n1 /\ j.from = d /\ j.sure = b /\ j.was = w /\ j.payload = FileRead(d, n1)
  BY <1>5
<1>7. CASE b
  <2>1. cmd = "mv" /\ Sure(d, n1, j.to, j.as)
    BY <1>5, <1>7
  <2>2. w = FileRead(d, n1) /\ ReadCode(disk[d].tab, n1, ClusterSize) = 0
    BY <1>4, <1>7, <2>1, NotedTyped DEF Kept
  <2>3. Ready(j)
    BY <1>6, <2>1, <2>2 DEF Ready
  <2>4. Ready(j)'
    BY <1>1, <2>3 DEF Ready, Sure, PlainFile, Live, EntryOf
  <2>5. x \in {"overrun", "delete"}
    BY <1>2, <2>1
  <2> QED BY <1>3, <1>6, <2>1, <2>2, <2>4, <2>5 DEF MvInv
<1>8. CASE ~ b
  BY <1>3, <1>6, <1>8 DEF MvInv
<1>9. b \in BOOLEAN
  BY <1>5, Zenon
<1> QED BY <1>7, <1>8, <1>9

LEMMA MvOther ==
    ASSUME Kept, Kept', NEW s \in Shells, MvInv(shell[s]),
           \/ cd_root(s) \/ cd_refresh(s) \/ \E n \in AllNames : cd(s, n)
           \/ \E n \in Names : mkdir(s, n) \/ rm(s, n) \/ mv_nothing(s, n) \/ cat(s, n)
           \/ Overrun(s)
    PROVE  MvInv(shell[s])'
<1>0. FitInv
  BY DEF Kept
<1>1. shell[s].st \in {"start", "prompt"} => ~ shell[s].job.sure
  BY DEF MvInv
<1>2. CASE cd_root(s)
  <2>1. PICK t, p : Turns(s, "prompt", t, p, shell[s].job, shell[s].stale, shell[s].strayed)
    BY <1>0, <1>2, CdRootTurns
  <2>2. shell'[s].job = shell[s].job
    BY <1>0, <2>1, TurnsFields
  <2>3. shell[s].st \in {"start", "prompt"}
    BY <1>2 DEF cd_root
  <2>4. ~ shell[s].job.sure
    BY <1>1, <2>3
  <2>5. ~ shell'[s].job.sure
    BY <2>2, <2>4
  <2> QED BY <2>5 DEF MvInv
<1>3. CASE cd_refresh(s)
  <2>1. PICK t, b : Turns(s, "prompt", t, shell[s].path, NoJob, b, shell[s].strayed)
    BY <1>0, <1>3, RefreshTurns, Zenon
  <2>2. NoJob.sure = FALSE
    BY DEF NoJob
  <2> HIDE DEF NoJob
  <2>3. shell'[s].job = NoJob
    BY <2>1, TurnsFields
  <2> QED BY <2>2, <2>3, MvUnsure
<1>4. ASSUME NEW n \in AllNames, cd(s, n)
      PROVE  MvInv(shell[s])'
  <2>1. PICK x, t, p, b, c : Turns(s, x, t, p, shell[s].job, b, c)
    BY <1>0, <1>4, CdTurns, Zenon
  <2>2. shell'[s].job = shell[s].job
    BY <1>0, <2>1, TurnsFields
  <2>3. shell[s].st \in {"start", "prompt"}
    BY <1>4 DEF cd
  <2>4. ~ shell[s].job.sure
    BY <1>1, <2>3
  <2>5. ~ shell'[s].job.sure
    BY <2>2, <2>4
  <2> QED BY <2>5 DEF MvInv
<1>5. ASSUME NEW n \in Names, mkdir(s, n) \/ rm(s, n) \/ mv_nothing(s, n)
      PROVE  MvInv(shell[s])'
  <2>1. shell' = [shell EXCEPT ![s].st = "refresh"] /\ shell[s].st = "prompt"
    BY <1>5 DEF mkdir, rm, mv_nothing
  <2>2. shell'[s].job = shell[s].job
    BY <1>0, <2>1, OnlyState
  <2> QED BY <1>1, <2>1, <2>2 DEF MvInv
<1>6. ASSUME NEW n \in Names, cat(s, n)
      PROVE  MvInv(shell[s])'
  <2>1. shell'[s].job = shell[s].job
    BY <1>0, <1>6, CatTurns, TurnsFields
  <2>2. shell[s].st = "prompt"
    BY <1>6 DEF cat
  <2> QED BY <1>1, <2>1, <2>2 DEF MvInv
<1>7. CASE Overrun(s)
  <2>1. shell' = shell /\ shell[s].st = "overrun"
    BY <1>7 DEF Overrun, shellVars
  <2> QED BY <2>1 DEF MvInv
<1> QED BY <1>2, <1>3, <1>4, <1>5, <1>6, <1>7

MovesInv == \A s \in Shells : MvInv(shell[s])

LEMMA MovesStep ==
    ASSUME ZeroName \notin Names, Alone
    PROVE  Kept /\ Kept' /\ CopiesInv /\ MovesInv /\ [ShellNext]_shellVars => MovesInv'
<1>1. SUFFICES ASSUME Kept, Kept', CopiesInv, MovesInv, [ShellNext]_shellVars, NEW s \in Shells
               PROVE  MvInv(shell[s])'
  BY DEF MovesInv
<1>2. CopyInv(shell[s]) /\ MvInv(shell[s])
  BY <1>1 DEF CopiesInv, MovesInv
<1>3. CASE Carry /\ shell' = shell
  BY <1>1, <1>2, <1>3, MvCarry
<1>4. ASSUME NEW n \in Names, NEW size \in Sizes, NEW p \in Payloads \ {Unread},
             Insert(n, size, p)
      PROVE  MvInv(shell[s])'
  <2>1. shell' = shell /\ shell[s].st = "start"
    BY <1>4 DEF Insert
  <2> QED BY <1>2, <2>1 DEF MvInv
<1>5. CASE Command(s)
  BY <1>1, <1>2, <1>5, MvDelete, MvWrite, MvBegins, MvOther DEF Command
<1>6. ASSUME NEW q \in Shells, Command(q)
      PROVE  MvInv(shell[s])'
  BY <1>5, <1>6 DEF Alone
<1>7. CASE UNCHANGED shellVars
  <2>1. shell' = shell /\ disk' = disk /\ pc' = pc /\ call' = call
    BY <1>7 DEF shellVars, vars, durable
  <2>2. \A j : Ready(j)' <=> Ready(j)
    BY <2>1 DEF Ready, Sure, PlainFile, Live, EntryOf
  <2> QED BY <1>2, <2>1, <2>2 DEF MvInv
<1> QED BY <1>1, <1>3, <1>4, <1>6, <1>7 DEF ShellNext, Carry

\* With nobody else at work mv moves a file of at most a cluster, if it does not have
\* the name of its own folder (mv.c:26-44 with fat32.c:177-184), to a place that is free,
\* although it deletes it before it writes it: the read cannot fail, the row and the name
\* the write needs are there when the delete is done, and what is written is what the
\* file held.
THEOREM MvLosesNothing ==
    ASSUME ZeroName \notin Names, Alone
    PROVE  ShellSpec => []MvMoves
<1> DEFINE All == Kept /\ CopiesInv /\ MovesInv
<1>1. ShellInit => All
  <2>1. NoJob.sure = FALSE
    BY DEF NoJob
  <2> HIDE DEF NoJob
  <2> QED BY <2>1, KeptInit, CopiesInit DEF ShellInit, MovesInv, MvInv
<1>2. All /\ [ShellNext]_shellVars => All'
  BY KeptStep, CopiesStep, MovesStep
<1>3. All => MvMoves
  <2>1. SUFFICES ASSUME All, NEW s \in Shells, pc = "idle", shell[s].st = "refresh", shell[s].job.sure
                 PROVE  LET j == shell[s].job IN
                        /\ \E r \in Row : /\ Live(j.to, r)
                                          /\ EntryOf(j.to, r).name = j.as
                                          /\ disk[EntryOf(j.to, r).cluster].data.p = j.was
                        /\ ~ \E r \in Row : Live(j.from, r) /\ EntryOf(j.from, r).name = j.src
    BY DEF MvMoves
  <2>2. PICK j : j = shell[s].job
    OBVIOUS
  <2>3. Moved(disk, j) /\ Gone(disk, j.from, j.src) /\ j.was = j.payload
    BY <2>1, <2>2 DEF MovesInv, MvInv, Taken
  <2> QED BY <2>2, <2>3, LiveIsLive DEF Moved, Gone, EntryOf
<1> HIDE DEF All
<1> QED BY <1>1, <1>2, <1>3, PTL DEF ShellSpec

-----------------------------------------------------------------------------
(* find *)

\* Induction over 0 .. N, the property as a set.
LEMMA Upward ==
    ASSUME NEW N \in Nat, NEW S, 0 \in S, \A k \in 1 .. N : k - 1 \in S => k \in S
    PROVE  \A k \in 0 .. N : k \in S
<1> DEFINE Bad == {k \in 0 .. N : k \notin S}
<1>1. SUFFICES ASSUME Bad # {} PROVE FALSE
  OBVIOUS
<1>2. Bad \subseteq Nat
  OBVIOUS
<1>3. PICK m \in Bad : \A y \in Bad : m <= y
  <2> HIDE DEF Bad
  <2> QED BY <1>1, <1>2, LeastNumber
<1>4. m \in 1 .. N /\ m - 1 \in 0 .. N /\ m - 1 \notin Bad
  BY <1>3
<1> QED BY <1>3, <1>4

\* A function given by recursion over 0 .. N exists.
Rounds(G, N, V) == G \in [1 .. N -> [V -> V]]

Recurs(f, N, V, v, G) ==
    f \in [0 .. N -> V] /\ f[0] = v /\ \A k \in 1 .. N : f[k] = G[k][f[k - 1]]

LEMMA RecursionExists ==
    ASSUME NEW N \in Nat, NEW V, NEW v \in V, NEW G, Rounds(G, N, V)
    PROVE  \E f : Recurs(f, N, V, v, G)
<1>0. G \in [1 .. N -> [V -> V]]
  BY DEF Rounds
<1> DEFINE Upto(f, K) == f[0] = v /\ \A k \in 1 .. K : f[k] = G[k][f[k - 1]]
           S == {K \in 0 .. N : \E f \in [0 .. N -> V] : Upto(f, K)}
<1>1. 0 \in S
  <2>1. PICK f : f = [i \in 0 .. N |-> v]
    OBVIOUS
  <2>2. f \in [0 .. N -> V] /\ Upto(f, 0)
    BY <2>1
  <2> QED BY <2>2
<1>2. ASSUME NEW k \in 1 .. N, k - 1 \in S
      PROVE  k \in S
  <2>1. PICK f \in [0 .. N -> V] : Upto(f, k - 1)
    BY <1>2
  <2>2. k - 1 \in 0 .. N /\ G[k][f[k - 1]] \in V
    BY <1>0
  <2> DEFINE g == [f EXCEPT ![k] = G[k][f[k - 1]]]
  <2>3. g \in [0 .. N -> V] /\ g[k] = G[k][f[k - 1]] /\ \A i \in 0 .. N : i # k => g[i] = f[i]
    BY <2>2
  <2> HIDE DEF g
  <2>4. \A i \in 1 .. k : i - 1 \in 0 .. N /\ i - 1 # k /\ i \in 0 .. N /\ (i # k => i \in 1 .. k - 1)
    OBVIOUS
  <2>5. \A i \in 1 .. k : g[i] = G[i][g[i - 1]]
    BY <2>1, <2>3, <2>4
  <2>6. g[0] = v
    BY <2>1, <2>3
  <2>7. g \in [0 .. N -> V] /\ Upto(g, k) /\ k \in 0 .. N
    BY <2>3, <2>5, <2>6
  <2> QED BY <2>7
<1>3. N \in S
  <2> HIDE DEF S
  <2>1. \A k \in 1 .. N : k - 1 \in S => k \in S
    BY <1>2
  <2>2. \A k \in 0 .. N : k \in S
    BY <1>1, <2>1, Upward
  <2> QED BY <2>2
<1>4. PICK f \in [0 .. N -> V] : Upto(f, N)
  BY <1>3
<1>5. Recurs(f, N, V, v, G)
  BY <1>4 DEF Recurs
<1> QED BY <1>5

\* The directories, the folders of one, and what Below adds in one round.
Dirs == {c \in DataCluster : ValidDir(disk[c].tab)}

Kids(d) == {EntryOf(d, r).cluster : r \in {x \in Row : Live(d, x) /\ EntryOf(d, x).sub}}

Spread(above) ==
    above \cup {EntryOf(x[1], x[2]).cluster :
                  x \in {y \in above \X Row : Live(y[1], y[2]) /\ EntryOf(y[1], y[2]).sub}}

IsReach(d, b) == b = [k \in 0 .. NCluster |-> IF k = 0 THEN {d} ELSE Spread(b[k - 1])]

Reach(d) == CHOOSE b : IsReach(d, b)

LEMMA SpreadIs ==
    ASSUME NEW X, NEW c
    PROVE  c \in Spread(X) <=> c \in X \/ \E d \in X : c \in Kids(d)
<1>1. ASSUME NEW d \in X, c \in Kids(d)
      PROVE  c \in Spread(X)
  <2>1. PICK r \in Row : Live(d, r) /\ EntryOf(d, r).sub /\ c = EntryOf(d, r).cluster
    BY <1>1 DEF Kids
  <2>2. <<d, r>> \in {y \in X \X Row : Live(y[1], y[2]) /\ EntryOf(y[1], y[2]).sub}
    BY <2>1
  <2> QED BY <2>1, <2>2 DEF Spread
<1>2. ASSUME c \in Spread(X), c \notin X
      PROVE  \E d \in X : c \in Kids(d)
  <2>1. PICK y \in X \X Row : Live(y[1], y[2]) /\ EntryOf(y[1], y[2]).sub /\ c = EntryOf(y[1], y[2]).cluster
    BY <1>2 DEF Spread
  <2> QED BY <2>1 DEF Kids
<1>3. c \in X => c \in Spread(X)
  BY DEF Spread
<1> QED BY <1>1, <1>2, <1>3

\* A folder is a directory, with the name it has in the directory above it.
LEMMA KidsAreDirs ==
    ASSUME Kept, pc = "idle", ZeroName \notin Names, NEW d, NEW r, Live(d, r), EntryOf(d, r).sub
    PROVE  /\ EntryOf(d, r).cluster \in Dirs /\ EntryOf(d, r).name \in Names
           /\ DirectoryRead(EntryOf(d, r).cluster, EntryOf(d, r).name) = disk[EntryOf(d, r).cluster].tab
<1>1. LiveIn(disk, d, r) /\ d \in DataCluster /\ r \in Row /\ disk[d].tab[r].sub
  BY LiveIsLive DEF EntryOf, Live
<1>2. PICK c, n : c = disk[d].tab[r].cluster /\ n = disk[d].tab[r].name
  OBVIOUS
<1>3. c \in FileCluster /\ c # 0 /\ c \in DataCluster
  BY <1>1, <1>2, Constants DEF Kept, IInv, RowsOffRoot, LiveIn, FileCluster, FAT32_FAT_EMPTY_ENTRY
<1>4. ValidDir(disk[c].tab) /\ n \in Names
  BY <1>1, <1>2, <1>3, IdleTree DEF Tree, FoldersThere, EntriesRead
<1>5. FolderIn(disk, disk[c].tab[1].cluster, disk[c].tab[0].name, c)
  BY <1>3, <1>4, IdleTree DEF Tree, ParentsLead
<1>6. PICK d1 \in DataCluster, r1 \in Row :
         /\ LiveIn(disk, d1, r1) /\ disk[d1].tab[r1].name = disk[c].tab[0].name
         /\ disk[d1].tab[r1].cluster = c
  BY <1>5 DEF FolderIn, LiveIn
<1>7. disk[c].tab[0].name = n
  <2>1. d1 = d /\ r1 = r
    <3>1. PICK f : f = diskFat /\ DiskSound(disk, f)
      BY IdleTree
    <3> QED BY <1>1, <1>2, <1>6, <3>1, EntriesApart
  <2> QED BY <1>2, <1>6, <2>1
<1>8. DirectoryRead(c, n) = disk[c].tab
  BY <1>3, <1>4, <1>7, SelfLoads
<1> QED BY <1>2, <1>3, <1>4, <1>8 DEF Dirs, EntryOf

LEMMA KidDirs ==
    ASSUME Kept, pc = "idle", ZeroName \notin Names, NEW d, NEW e \in Kids(d)
    PROVE  e \in Dirs
BY KidsAreDirs DEF Kids

\* The rounds of Below.
LEMMA ReachIs ==
    ASSUME Kept, NEW d \in DataCluster
    PROVE  /\ Reach(d)[0] = {d}
           /\ \A k \in 1 .. NCluster : Reach(d)[k] = Spread(Reach(d)[k - 1])
           /\ Below(d) = Reach(d)[NCluster]
<1> DEFINE V == SUBSET Cluster
           G == [k \in 1 .. NCluster |-> [X \in V |-> Spread(X)]]
<1>1. NCluster \in Nat /\ {d} \in V /\ disk \in [DataCluster -> Block]
  BY SizeAssumption, Constants DEF Kept, IInv, TypeOK
<1>2. ASSUME NEW X \in V
      PROVE  Spread(X) \in V
  <2>1. ASSUME NEW x \in Spread(X), x \notin X
        PROVE  x \in Cluster
    <3>1. PICK c, r : Live(c, r) /\ x = EntryOf(c, r).cluster
      BY <2>1 DEF Spread
    <3> QED BY <1>1, <3>1 DEF Live, EntryOf, Block, Table, Entry
  <2> QED BY <2>1
<1>3. G \in [1 .. NCluster -> [V -> V]]
  BY <1>2
<1>4. PICK f \in [0 .. NCluster -> V] :
         f[0] = {d} /\ \A k \in 1 .. NCluster : f[k] = G[k][f[k - 1]]
  <2>1. PICK N \in Nat, v \in V : N = NCluster /\ v = {d}
    BY <1>1
  <2>2. Rounds(G, N, V)
    BY <1>3, <2>1 DEF Rounds
  <2> HIDE DEF G, V
  <2>3. \E f : Recurs(f, N, V, v, G)
    BY <2>2, RecursionExists
  <2> QED BY <2>1, <2>3 DEF Recurs
<1>5. \A k \in 1 .. NCluster : f[k] = Spread(f[k - 1])
  <2>1. \A k \in 1 .. NCluster : k - 1 \in 0 .. NCluster
    BY <1>1
  <2> HIDE DEF V
  <2>2. \A k \in 1 .. NCluster : f[k - 1] \in V
    BY <2>1
  <2> QED BY <1>4, <2>2
<1>6. IsReach(d, f)
  <2>1. \A k \in 0 .. NCluster : k = 0 \/ k \in 1 .. NCluster
    BY <1>1
  <2>2. \A k \in 0 .. NCluster : f[k] = IF k = 0 THEN {d} ELSE Spread(f[k - 1])
    BY <1>4, <1>5, <2>1
  <2>3. f = [k \in 0 .. NCluster |-> f[k]]
    OBVIOUS
  <2> QED BY <2>2, <2>3 DEF IsReach
<1>7. IsReach(d, Reach(d))
  BY <1>6 DEF Reach
<1>8. \A k \in 0 .. NCluster : Reach(d)[k] = IF k = 0 THEN {d} ELSE Spread(Reach(d)[k - 1])
  BY <1>7 DEF IsReach
<1>9. 0 \in 0 .. NCluster /\ \A k \in 1 .. NCluster : k \in 0 .. NCluster /\ k # 0
  BY <1>1
<1>10. Below(d) = Reach(d)[NCluster]
  BY Zenon DEF Below, Reach, IsReach, Spread
<1> QED BY <1>8, <1>9, <1>10

LEMMA ReachMore ==
    ASSUME Kept, NEW d \in DataCluster, NEW k \in 1 .. NCluster
    PROVE  /\ Reach(d)[k - 1] \subseteq Reach(d)[k]
           /\ \A x \in Reach(d)[k - 1] : Kids(x) \subseteq Reach(d)[k]
           /\ \A x \in Reach(d)[k] : x \in Reach(d)[k - 1] \/ \E y \in Reach(d)[k - 1] : x \in Kids(y)
<1>1. Reach(d)[k] = Spread(Reach(d)[k - 1])
  BY ReachIs
<1> QED BY <1>1, SpreadIs

LEMMA ReachSelf ==
    ASSUME Kept, NEW d \in DataCluster
    PROVE  \A k \in 0 .. NCluster : d \in Reach(d)[k]
<1> DEFINE S == {k \in 0 .. NCluster : d \in Reach(d)[k]}
<1>1. NCluster \in Nat
  BY SizeAssumption
<1>2. 0 \in S
  BY <1>1, ReachIs
<1>3. \A k \in 1 .. NCluster : k - 1 \in S => k \in S
  BY <1>1, ReachMore
<1>4. \A k \in 0 .. NCluster : k \in S
  <2> HIDE DEF S
  <2> QED BY <1>1, <1>2, <1>3, Upward
<1> QED BY <1>4

\* The rounds from a directory are the rounds from its folders, one later.
LEMMA ReachFront ==
    ASSUME Kept, pc = "idle", ZeroName \notin Names, NEW d \in DataCluster
    PROVE  \A k \in 1 .. NCluster : \A x :
              x \in Reach(d)[k] <=> x = d \/ \E e \in Kids(d) : x \in Reach(e)[k - 1]
<1> DEFINE Parted(k) == \A x : x \in Reach(d)[k] <=> x = d \/ \E e \in Kids(d) : x \in Reach(e)[k - 1]
           S == {k \in 0 .. NCluster : k > 0 => Parted(k)}
<1>1. NCluster \in Nat /\ 0 \in S
  BY SizeAssumption
<1>2. Reach(d)[0] = {d} /\ \A e \in Kids(d) : e \in DataCluster /\ Reach(e)[0] = {e}
  BY KidDirs, ReachIs DEF Dirs
<1>3. ASSUME NEW k \in 1 .. NCluster, k - 1 \in S, NEW x
      PROVE  x \in Reach(d)[k] <=> x = d \/ \E e \in Kids(d) : x \in Reach(e)[k - 1]
  <2>1. x \in Reach(d)[k] <=> x \in Reach(d)[k - 1] \/ \E y \in Reach(d)[k - 1] : x \in Kids(y)
    BY ReachMore
  <2>2. CASE k = 1
    <3>1. k - 1 = 0
      BY <2>2
    <3> QED BY <1>2, <2>1, <3>1
  <2>3. CASE k # 1
    <3>1. PICK i : i = k - 1
      OBVIOUS
    <3>2. i \in 1 .. NCluster /\ i \in 0 .. NCluster /\ i > 0
      BY <1>1, <2>3, <3>1
    <3>3. Parted(i)
      BY <1>3, <3>1, <3>2
    <3>4. \A e \in Kids(d) :
             x \in Reach(e)[i] <=> x \in Reach(e)[i - 1] \/ \E y \in Reach(e)[i - 1] : x \in Kids(y)
      BY <1>2, <3>2, ReachMore
    <3>5. x \in Kids(d) => x \in Reach(x)[i]
      BY <1>2, <3>2, ReachSelf
    <3>6. ASSUME x \in Reach(d)[k]
          PROVE  x = d \/ \E e \in Kids(d) : x \in Reach(e)[i]
      <4>1. CASE x \in Reach(d)[i]
        BY <3>3, <3>4, <4>1
      <4>2. ASSUME NEW y \in Reach(d)[i], x \in Kids(y)
            PROVE  \E e \in Kids(d) : x \in Reach(e)[i]
        BY <3>3, <3>4, <3>5, <4>2
      <4> QED BY <2>1, <3>1, <3>6, <4>1, <4>2
    <3>7. ASSUME NEW e \in Kids(d), x \in Reach(e)[i]
          PROVE  x \in Reach(d)[k]
      <4>1. x \in Reach(e)[i - 1] => x \in Reach(d)[i]
        BY <3>3
      <4>2. \A y \in Reach(e)[i - 1] : y \in Reach(d)[i]
        BY <3>3
      <4> QED BY <2>1, <3>1, <3>4, <3>7, <4>1, <4>2
    <3>8. x = d => x \in Reach(d)[k]
      BY <1>1, ReachSelf
    <3> QED BY <3>1, <3>6, <3>7, <3>8
  <2> QED BY <2>2, <2>3
<1>4. \A k \in 1 .. NCluster : k - 1 \in S => k \in S
  BY <1>1, <1>3
<1>5. \A k \in 0 .. NCluster : k \in S
  <2> HIDE DEF S
  <2> QED BY <1>1, <1>4, Upward
<1> QED BY <1>1, <1>5

-----------------------------------------------------------------------------
\* What the folders of table t answer, given the answers g one level down, and
\* find_recursive as that step.
Answers(k, g, n, t) ==
    [r \in Row |-> IF r < 2 \/ r \notin SubRows(t) THEN NotFound
                    ELSE IF k = 0 THEN PathOverrun
                    ELSE g[n][DirectoryRead(t[r].cluster, t[r].name)]]

FindStep(k, g) == [n \in Names |-> [t \in Table |-> Scan(t, n, Answers(k, g, n, t))]]

IsFind(f) == f = [k \in 0 .. MaxPath |-> FindStep(k, f[k - 1])]

LEMMA ScanTyped ==
    ASSUME NEW t \in Table, NEW n, NEW below \in [Row -> Seq(AllNames)]
    PROVE  Scan(t, n, below) \in Seq(AllNames)
<1> DEFINE found == {r \in Row : r >= 2 /\ t[r].used /\ (t[r].name = n \/ below[r] # NotFound)}
           first == CHOOSE r \in found : IsFirst(found, r)
<1>1. NotFound \in Seq(AllNames) /\ << >> \in Seq(AllNames) /\ PathOverrun \in Seq(AllNames)
  BY DEF NotFound, PathOverrun, AllNames
<1>2. CASE found = {}
  BY <1>1, <1>2 DEF Scan
<1>3. CASE found # {}
  <2>1. PICK x \in found : \A y \in found : x <= y
    <3>1. found \subseteq Nat
      BY Constants
    <3> HIDE DEF found
    <3> QED BY <1>3, <3>1, LeastNumber
  <2>2. \E r \in found : IsFirst(found, r)
    BY <2>1 DEF IsFirst
  <2>3. first \in found
    <3> HIDE DEF found
    <3> QED BY <2>2
  <2>4. PICK i \in Row : i = first
    BY <2>3
  <2>5. PICK m, q : m = t[i].name /\ q = below[i] /\ m \in AllNames /\ q \in Seq(AllNames)
    BY DEF Table, Entry
  <2>6. <<m>> \in Seq(AllNames)
    BY <2>5
  <2>7. <<m>> \o q \in Seq(AllNames)
    BY <2>5, <2>6
  <2>8. Scan(t, n, below) = IF t[i].name = n THEN << >>
                             ELSE IF below[i] = PathOverrun THEN PathOverrun
                             ELSE <<t[i].name>> \o below[i]
    <3>1. Scan(t, n, below) = IF t[first].name = n THEN << >>
                               ELSE IF below[first] = PathOverrun THEN PathOverrun
                               ELSE <<t[first].name>> \o below[first]
      BY <1>3, Zenon DEF Scan
    <3> HIDE DEF first
    <3> QED BY <2>4, <3>1
  <2> HIDE DEF first, found
  <2>9. Scan(t, n, below) = IF m = n THEN << >> ELSE IF q = PathOverrun THEN PathOverrun ELSE <<m>> \o q
    BY <2>5, <2>8
  <2> QED BY <1>1, <2>7, <2>9
<1> QED BY <1>2, <1>3

LEMMA FindStepTyped ==
    ASSUME Kept, NEW k, NEW g \in [Names -> [Table -> Seq(AllNames)]]
    PROVE  FindStep(k, g) \in [Names -> [Table -> Seq(AllNames)]]
<1>1. NotFound \in Seq(AllNames) /\ PathOverrun \in Seq(AllNames)
  BY DEF NotFound, PathOverrun, AllNames
<1>2. ASSUME NEW n \in Names, NEW t \in Table
      PROVE  Scan(t, n, Answers(k, g, n, t)) \in Seq(AllNames)
  <2>1. \A r \in Row : g[n][DirectoryRead(t[r].cluster, t[r].name)] \in Seq(AllNames)
    BY DirectoryTyped DEF Kept
  <2>2. Answers(k, g, n, t) \in [Row -> Seq(AllNames)]
    BY <1>1, <2>1 DEF Answers
  <2> QED BY <2>2, ScanTyped
<1> QED BY <1>2 DEF FindStep

\* With no place left no folder is opened.
LEMMA FindStepLast ==
    ASSUME NEW g, NEW h
    PROVE  FindStep(0, g) = FindStep(0, h)
<1>1. \A n, t : Answers(0, g, n, t) = Answers(0, h, n, t)
  BY DEF Answers
<1> QED BY <1>1, Zenon DEF FindStep

LEMMA FindIs ==
    ASSUME Kept, NEW k \in 0 .. MaxPath, NEW n \in Names, NEW t \in Table
    PROVE  find_recursive[k][n][t] = Scan(t, n, Answers(k, find_recursive[k - 1], n, t))
<1> DEFINE V == [Names -> [Table -> Seq(AllNames)]]
           G == [i \in 1 .. MaxPath |-> [g \in V |-> FindStep(i, g)]]
           none == [m \in Names |-> [u \in Table |-> << >>]]
<1>1. MaxPath \in Nat
  BY ShellAssumption
<1>2. none \in V
  OBVIOUS
<1> HIDE DEF none
<1>3. FindStep(0, none) \in V /\ \A i : \A g \in V : FindStep(i, g) \in V
  BY <1>2, FindStepTyped
<1> HIDE DEF V
<1>4. G \in [1 .. MaxPath -> [V -> V]]
  BY <1>3
<1>5. PICK f \in [0 .. MaxPath -> V] :
         f[0] = FindStep(0, none) /\ \A i \in 1 .. MaxPath : f[i] = G[i][f[i - 1]]
  <2>1. PICK N \in Nat, v \in V : N = MaxPath /\ v = FindStep(0, none)
    BY <1>1, <1>3
  <2>2. Rounds(G, N, V)
    BY <1>4, <2>1 DEF Rounds
  <2> HIDE DEF G
  <2>3. \E f : Recurs(f, N, V, v, G)
    BY <2>2, RecursionExists
  <2> QED BY <2>1, <2>3 DEF Recurs
<1>6. \A i \in 1 .. MaxPath : f[i] = FindStep(i, f[i - 1])
  <2>1. \A i \in 1 .. MaxPath : i - 1 \in 0 .. MaxPath
    BY <1>1
  <2>2. \A i \in 1 .. MaxPath : f[i - 1] \in V
    BY <2>1
  <2> QED BY <1>5, <2>2
<1>7. IsFind(f)
  <2>1. \A i \in 0 .. MaxPath : i = 0 \/ i \in 1 .. MaxPath
    BY <1>1
  <2>2. f[0] = FindStep(0, f[0 - 1])
    BY <1>5, FindStepLast
  <2>3. \A i \in 0 .. MaxPath : f[i] = FindStep(i, f[i - 1])
    BY <1>6, <2>1, <2>2
  <2>4. f = [i \in 0 .. MaxPath |-> f[i]]
    OBVIOUS
  <2> QED BY <2>3, <2>4 DEF IsFind
<1>8. IsFind(find_recursive)
  <2>1. find_recursive = CHOOSE x : IsFind(x)
    BY Zenon DEF find_recursive, IsFind, FindStep, Answers
  <2> QED BY <1>7, <2>1
<1>9. find_recursive[k] = FindStep(k, find_recursive[k - 1])
  <2>1. PICK x : x = find_recursive
    OBVIOUS
  <2>2. x[k] = FindStep(k, x[k - 1])
    BY <1>8, <2>1 DEF IsFind
  <2> QED BY <2>1, <2>2
<1> QED BY <1>9 DEF FindStep

\* Path p leads from directory c through the directories of v.
Leads(c, p, v) ==
    /\ p \in Seq(AllNames) /\ v[0] = c
    /\ \A i \in 1 .. Len(p) : v[i] = Into(v[i - 1], p[i])

\* What an answer of find_recursive with k places left says of the directories below c.
Answered(k, c, n, p) ==
    /\ p = NotFound => \A j \in 0 .. NCluster : \A x \in Reach(c)[j] : ~ Holds(x, n)
    /\ p = PathOverrun =>
          \E q, v : Leads(c, q, v) /\ Len(q) = k + 1 /\ v[Len(q)] \in Dirs
    /\ p \notin {NotFound, PathOverrun} =>
          \E v : Leads(c, p, v) /\ Holds(v[Len(p)], n)

LEMMA Apart == << >> # NotFound /\ << >> # PathOverrun /\ NotFound # PathOverrun
<1>1. Len(NotFound) = 1 /\ Len(PathOverrun) = 2
  BY DEF NotFound, PathOverrun
<1> QED BY <1>1 DEF NotFound, PathOverrun

LEMMA LeadsNowhere == \A c : Leads(c, << >>, [i \in 0 .. 0 |-> c])
BY DEF Leads

\* A folder ahead of a path.
LEMMA LeadsOn ==
    ASSUME NEW c, NEW m \in AllNames, NEW e, e = Into(c, m), NEW q, NEW v, Leads(e, q, v)
    PROVE  \E w : /\ Leads(c, <<m>> \o q, w) /\ w[Len(<<m>> \o q)] = v[Len(q)]
                  /\ Len(<<m>> \o q) = Len(q) + 1
<1> DEFINE p == <<m>> \o q
           w == [i \in 0 .. Len(q) + 1 |-> IF i = 0 THEN c ELSE v[i - 1]]
<1>1. q \in Seq(AllNames) /\ v[0] = e /\ \A i \in 1 .. Len(q) : v[i] = Into(v[i - 1], q[i])
  BY DEF Leads
<1>2. /\ p \in Seq(AllNames) /\ Len(p) = Len(q) + 1 /\ Len(q) \in Nat
      /\ p[1] = m /\ \A i \in 2 .. Len(q) + 1 : p[i] = q[i - 1]
  BY <1>1
<1> HIDE DEF p
<1>3. w[0] = c /\ \A i \in 1 .. Len(q) + 1 : w[i] = v[i - 1]
  BY <1>2
<1> HIDE DEF w
<1>4. ASSUME NEW i \in 1 .. Len(q) + 1
      PROVE  w[i] = Into(w[i - 1], p[i])
  <2>1. CASE i = 1
    <3>1. w[1] = v[0] /\ i - 1 = 0
      BY <1>2, <1>3, <2>1
    <3> QED BY <1>1, <1>2, <1>3, <2>1, <3>1
  <2>2. CASE i # 1
    <3>1. PICK j : j = i - 1
      OBVIOUS
    <3>2. j \in 1 .. Len(q) /\ j \in 1 .. Len(q) + 1 /\ i \in 2 .. Len(q) + 1
      BY <1>2, <2>2, <3>1
    <3>3. v[j] = Into(v[j - 1], q[j])
      BY <1>1, <3>2
    <3>4. w[i] = v[j] /\ w[j] = v[j - 1] /\ p[i] = q[j]
      BY <1>2, <1>3, <3>1, <3>2
    <3> QED BY <3>1, <3>3, <3>4
  <2> QED BY <2>1, <2>2
<1>5. Leads(c, p, w)
  BY <1>2, <1>3, <1>4 DEF Leads
<1>6. w[Len(p)] = v[Len(q)]
  <2>1. Len(q) + 1 \in 1 .. Len(q) + 1 /\ (Len(q) + 1) - 1 = Len(q)
    BY <1>2
  <2> QED BY <1>2, <1>3, <2>1
<1> QED BY <1>2, <1>5, <1>6 DEF p

\* Scan settles on the first row that has the name or an answer.
Settles(t, n, below, p) ==
    \/ /\ p = NotFound
       /\ \A r \in Row : r >= 2 /\ t[r].used => t[r].name # n /\ below[r] = NotFound
    \/ \E i \in Row : i >= 2 /\ t[i].used /\ t[i].name = n /\ p = << >>
    \/ \E i \in Row : /\ i >= 2 /\ t[i].used /\ below[i] # NotFound
                      /\ p = IF below[i] = PathOverrun THEN PathOverrun
                             ELSE <<t[i].name>> \o below[i]

LEMMA ScanRow ==
    ASSUME NEW t, NEW n, NEW below
    PROVE  Settles(t, n, below, Scan(t, n, below))
<1> DEFINE found == {r \in Row : r >= 2 /\ t[r].used /\ (t[r].name = n \/ below[r] # NotFound)}
           first == CHOOSE r \in found : IsFirst(found, r)
<1>1. CASE found = {}
  <2>1. Scan(t, n, below) = NotFound
    BY <1>1, Zenon DEF Scan
  <2> QED BY <1>1, <2>1 DEF Settles
<1>2. CASE found # {}
  <2>1. PICK x \in found : \A y \in found : x <= y
    <3>1. found \subseteq Nat
      BY Constants
    <3> HIDE DEF found
    <3> QED BY <1>2, <3>1, LeastNumber
  <2>2. \E r \in found : IsFirst(found, r)
    BY <2>1 DEF IsFirst
  <2>3. first \in found
    <3> HIDE DEF found
    <3> QED BY <2>2
  <2>4. Scan(t, n, below) = IF t[first].name = n THEN << >>
                          ELSE IF below[first] = PathOverrun THEN PathOverrun
                          ELSE <<t[first].name>> \o below[first]
    BY <1>2, Zenon DEF Scan
  <2>5. PICK i \in Row : i = first /\ i \in found
    BY <2>3
  <2>6. Scan(t, n, below) = IF t[i].name = n THEN << >>
                          ELSE IF below[i] = PathOverrun THEN PathOverrun
                          ELSE <<t[i].name>> \o below[i]
    <3> HIDE DEF first
    <3> QED BY <2>4, <2>5
  <2>7. i >= 2 /\ t[i].used /\ (t[i].name = n \/ below[i] # NotFound)
    BY <2>5
  <2> HIDE DEF first, found
  <2>8. CASE t[i].name = n
    <3>1. Scan(t, n, below) = << >>
      BY <2>6, <2>8
    <3> QED BY <2>7, <2>8, <3>1 DEF Settles
  <2>9. CASE t[i].name # n
    <3>1. Scan(t, n, below) = IF below[i] = PathOverrun THEN PathOverrun
                               ELSE <<t[i].name>> \o below[i]
      BY <2>6, <2>9
    <3> QED BY <2>7, <2>9, <3>1 DEF Settles
  <2> QED BY <2>8, <2>9
<1> QED BY <1>1, <1>2

LEMMA LiveRow ==
    ASSUME NEW c \in Dirs, NEW r \in Row, r >= 2, disk[c].tab[r].used
    PROVE  Live(c, r) /\ EntryOf(c, r) = disk[c].tab[r]
BY DEF Dirs, Live, EntryOf

\* One level of the search.
LEMMA FindLevel ==
    ASSUME Kept, pc = "idle", ZeroName \notin Names, NEW k \in 0 .. MaxPath,
           NEW n \in Names, NEW c \in Dirs,
           k > 0 => \A e \in Dirs : Answered(k - 1, e, n, find_recursive[k - 1][n][disk[e].tab])
    PROVE  Answered(k, c, n, find_recursive[k][n][disk[c].tab])
<1> DEFINE t == disk[c].tab
           g == find_recursive[k - 1]
           below == Answers(k, g, n, t)
<1>1. c \in DataCluster /\ ValidDir(t) /\ t \in Table /\ NCluster \in Nat
  BY SizeAssumption DEF Dirs, Kept, IInv, TypeOK, Block
<1>2. PICK p : p = find_recursive[k][n][t] /\ p = Scan(t, n, below)
  BY <1>1, FindIs
\* A folder, and its answer.
<1>3. ASSUME NEW r \in Row, r >= 2, t[r].used, t[r].sub
      PROVE  /\ t[r].cluster \in Dirs /\ t[r].cluster \in Kids(c) /\ t[r].name \in Names
             /\ Into(c, t[r].name) = t[r].cluster
             /\ k = 0 => below[r] = PathOverrun
             /\ k > 0 => Answered(k - 1, t[r].cluster, n, below[r])
  <2>1. Live(c, r) /\ EntryOf(c, r) = t[r]
    BY <1>3, LiveRow
  <2>2. PICK e, m : e = t[r].cluster /\ m = t[r].name
    OBVIOUS
  <2>3. e \in Dirs /\ m \in Names /\ DirectoryRead(e, m) = disk[e].tab
    BY <1>3, <2>1, <2>2, KidsAreDirs
  <2>4. e \in Kids(c)
    BY <1>3, <2>1, <2>2 DEF Kids
  <2>5. Into(c, m) = e
    BY <2>1, <2>2, EntryInto
  <2>6. below[r] = IF k = 0 THEN PathOverrun ELSE g[n][DirectoryRead(e, m)]
    <3>1. r \in SubRows(t) /\ ~ (r < 2)
      BY <1>3, Constants DEF SubRows
    <3> QED BY <2>2, <3>1 DEF Answers
  <2> HIDE DEF below
  <2>7. k > 0 => Answered(k - 1, e, n, below[r])
    <3>1. k > 0 => k # 0
      OBVIOUS
    <3> QED BY <2>3, <2>6, <3>1
  <2> QED BY <2>2, <2>3, <2>4, <2>5, <2>6, <2>7
<1>4. ASSUME NEW r \in Row, below[r] # NotFound
      PROVE  r >= 2 /\ t[r].used /\ t[r].sub
  <2>1. r \in SubRows(t) /\ ~ (r < 2)
    BY <1>4 DEF Answers
  <2> QED BY <2>1, Constants DEF SubRows
<1> HIDE DEF below
<1>5. ASSUME p = NotFound,
             \A r \in Row : r >= 2 /\ t[r].used => t[r].name # n /\ below[r] = NotFound
      PROVE  Answered(k, c, n, p)
  <2>1. ~ Holds(c, n)
    BY <1>5 DEF Holds, Live, EntryOf
  <2>2. ASSUME NEW j \in 0 .. NCluster, NEW x \in Reach(c)[j], x # c
        PROVE  ~ Holds(x, n)
    <3>1. j # 0
      BY <1>1, <2>2, ReachIs
    <3>2. j \in 1 .. NCluster /\ j - 1 \in 0 .. NCluster
      BY <1>1, <3>1
    <3>3. PICK e \in Kids(c) : x \in Reach(e)[j - 1]
      BY <1>1, <2>2, <3>2, ReachFront
    <3>4. PICK r \in Row : Live(c, r) /\ EntryOf(c, r).sub /\ e = EntryOf(c, r).cluster
      BY DEF Kids
    <3>5. r >= 2 /\ t[r].used /\ t[r].sub /\ e = t[r].cluster
      BY <3>4 DEF Live, EntryOf
    <3>6. below[r] = NotFound /\ below[r] # PathOverrun
      BY <1>5, <3>5, Apart
    <3>7. Answered(k - 1, e, n, below[r])
      <4>1. k # 0
        BY <1>3, <3>5, <3>6
      <4>2. k > 0
        BY <4>1, ShellAssumption
      <4> QED BY <1>3, <3>5, <4>2
    <3> QED BY <3>2, <3>3, <3>6, <3>7 DEF Answered
  <2> QED BY <1>5, <2>1, <2>2, Apart DEF Answered
<1>6. ASSUME NEW i \in Row, i >= 2, t[i].used, t[i].name = n, p = << >>
      PROVE  Answered(k, c, n, p)
  <2>1. Holds(c, n)
    BY <1>6, LiveRow DEF Holds
  <2>2. PICK v : v = [j \in 0 .. 0 |-> c]
    OBVIOUS
  <2>3. Leads(c, p, v) /\ v[Len(p)] = c
    BY <1>6, <2>2, LeadsNowhere
  <2>4. p # NotFound /\ p # PathOverrun
    BY <1>6, Apart
  <2> QED BY <2>1, <2>3, <2>4 DEF Answered
\* The answer of the first folder that has one.
<1>7. ASSUME NEW i \in Row, i >= 2, t[i].used, below[i] # NotFound,
             p = IF below[i] = PathOverrun THEN PathOverrun ELSE <<t[i].name>> \o below[i]
      PROVE  Answered(k, c, n, p)
  <2>1. t[i].sub
    BY <1>4, <1>7
  <2>2. PICK e, m, q : e = t[i].cluster /\ m = t[i].name /\ q = below[i]
    OBVIOUS
  <2>3. /\ e \in Dirs /\ m \in Names /\ m \in AllNames /\ Into(c, m) = e
        /\ k = 0 => q = PathOverrun
        /\ k > 0 => Answered(k - 1, e, n, q)
    BY <1>3, <1>7, <2>1, <2>2 DEF AllNames
  <2>4. q # NotFound /\ p = IF q = PathOverrun THEN PathOverrun ELSE <<m>> \o q
    BY <1>7, <2>2
  <2>5. CASE k = 0
    <3>1. p = PathOverrun
      BY <2>3, <2>4, <2>5
    <3>2. PICK v : v = [j \in 0 .. 0 |-> e]
      OBVIOUS
    <3>3. Leads(e, << >>, v) /\ v[Len(<< >>)] = e
      BY <3>2, LeadsNowhere
    <3>3a. PICK u, o : u = <<m>> \o << >> /\ o = << >>
      OBVIOUS
    <3>4. PICK w : Leads(c, u, w) /\ w[Len(u)] = e /\ Len(u) = 0 + 1
      <4>0. Leads(e, o, v)
        BY <3>3, <3>3a
      <4>1. \E w : Leads(c, <<m>> \o o, w) /\ w[Len(<<m>> \o o)] = v[Len(o)]
                   /\ Len(<<m>> \o o) = Len(o) + 1
        BY <2>3, <4>0, LeadsOn
      <4>2. Len(o) = 0
        BY <3>3a
      <4> QED BY <3>3, <3>3a, <4>1, <4>2
    <3>5. Len(u) = k + 1
      BY <2>5, <3>4
    <3> QED BY <2>3, <3>1, <3>4, <3>5, Apart DEF Answered
  <2>6. CASE k # 0 /\ q = PathOverrun
    <3>1. k > 0 /\ p = PathOverrun /\ k \in Nat
      BY <2>4, <2>6, ShellAssumption
    <3>2. PICK o, v : Leads(e, o, v) /\ Len(o) = (k - 1) + 1 /\ v[Len(o)] \in Dirs
      BY <2>3, <2>6, <3>1 DEF Answered
    <3>3. PICK u, w : Leads(c, u, w) /\ w[Len(u)] = v[Len(o)] /\ Len(u) = Len(o) + 1
      <4>1. \E w : Leads(c, <<m>> \o o, w) /\ w[Len(<<m>> \o o)] = v[Len(o)]
                   /\ Len(<<m>> \o o) = Len(o) + 1
        BY <2>3, <3>2, LeadsOn
      <4> QED BY <4>1
    <3>4. Len(u) = k + 1
      BY <3>1, <3>2, <3>3
    <3> QED BY <3>1, <3>2, <3>3, <3>4, Apart DEF Answered
  <2>7. CASE k # 0 /\ q # PathOverrun
    <3>1. k > 0 /\ p = <<m>> \o q
      BY <2>4, <2>7, ShellAssumption
    <3>2. PICK v : Leads(e, q, v) /\ Holds(v[Len(q)], n)
      BY <2>3, <2>4, <2>7, <3>1 DEF Answered
    <3>3. PICK w : Leads(c, p, w) /\ w[Len(p)] = v[Len(q)]
      BY <2>3, <3>1, <3>2, LeadsOn
    <3>4. p # NotFound /\ p # PathOverrun
      <4>1. p[1] = m
        <5>1. q \in Seq(AllNames)
          BY <3>2 DEF Leads
        <5> QED BY <3>1, <5>1
      <4>2. NotFound[1] = ZeroName /\ PathOverrun[1] = ZeroName
        BY DEF NotFound, PathOverrun
      <4> QED BY <2>3, <4>1, <4>2
    <3> QED BY <3>2, <3>3, <3>4 DEF Answered
  <2> QED BY <2>5, <2>6, <2>7
<1>8. Answered(k, c, n, p)
  <2>1. Settles(t, n, below, p)
    BY <1>2, ScanRow
  <2> HIDE DEF t
  <2> QED BY <1>5, <1>6, <1>7, <2>1 DEF Settles
<1> QED BY <1>2, <1>8

LEMMA FindAnswers ==
    ASSUME Kept, pc = "idle", ZeroName \notin Names, NEW n \in Names, NEW c \in Dirs,
           NEW room \in 0 .. MaxPath
    PROVE  Answered(room, c, n, find_recursive[room][n][disk[c].tab])
<1> DEFINE Level(k) == \A e \in Dirs : Answered(k, e, n, find_recursive[k][n][disk[e].tab])
           S == {k \in 0 .. MaxPath : Level(k)}
<1>1. MaxPath \in Nat
  BY ShellAssumption
<1>2. 0 \in S
  BY <1>1, FindLevel
<1>3. \A k \in 1 .. MaxPath : k - 1 \in S => k \in S
  <2>1. ASSUME NEW k \in 1 .. MaxPath, Level(k - 1), NEW e \in Dirs
        PROVE  Answered(k, e, n, find_recursive[k][n][disk[e].tab])
    <3>1. k \in 0 .. MaxPath
      BY <1>1
    <3>2. PICK i : i = k - 1
      OBVIOUS
    <3>3. \A x \in Dirs : Answered(i, x, n, find_recursive[i][n][disk[x].tab])
      BY <2>1, <3>2
    <3> QED BY <3>1, <3>2, <3>3, FindLevel
  <2> QED BY <1>1, <2>1
<1>4. room \in S
  <2> HIDE DEF S
  <2> QED BY <1>1, <1>2, <1>3, Upward
<1> QED BY <1>4

\* find finds (find.c:42-83): in every state a shell that is alone can be in, at the
\* prompt and without a cp since the last reload, the path find shows leads to a directory
\* that has the name, it shows none only if no directory below has it, however the folders
\* lie on the disk, and it writes past the array of the path (find.c:73) only if folders
\* lie deeper than the array has places left.
THEOREM FindIsRight ==
    ASSUME ZeroName \notin Names, Alone
    PROVE  ShellSpec => []FindFinds
<1>1. Kept /\ CopiesInv => FindFinds
  <2>1. SUFFICES ASSUME Kept, CopiesInv, NEW s \in Shells, NEW n \in Names, AtPrompt(s),
                        ~ shell[s].stale
                 PROVE  LET d == get_cluster_number(s)
                            path == find(s, n)
                        IN  CASE path = NotFound -> \A x \in Below(d) : ~ Holds(x, n)
                              [] path = PathOverrun ->
                                    \E q \in [1 .. PlacesLeft(s) + 1 -> AllNames] :
                                        /\ Resolve(d, q) \in DataCluster
                                        /\ ValidDir(disk[Resolve(d, q)].tab)
                              [] OTHER -> Holds(Resolve(d, path), n)
    BY DEF FindFinds
  <2>2. PICK d, p, k : d = get_cluster_number(s) /\ p = find(s, n) /\ k = PlacesLeft(s)
    OBVIOUS
  <2>3. pc = "idle" /\ d \in Dirs /\ shell[s].dir = disk[d].tab /\ d \in DataCluster
    BY <2>1, <2>2 DEF CopiesInv, CopyInv, AtPrompt, Working, get_cluster_number, Dirs
  <2>4. k \in 0 .. MaxPath
    <3>1. IsPath(shell[s].path) /\ Len(shell[s].path) <= MaxPath
      BY <2>1, Fits DEF Kept, AtPrompt
    <3> QED BY <2>2, <3>1, ShellAssumption DEF IsPath, PlacesLeft
  <2>5. Answered(k, d, n, p)
    BY <2>1, <2>2, <2>3, <2>4, FindAnswers DEF find
  <2>6. Below(d) = Reach(d)[NCluster] /\ NCluster \in 0 .. NCluster
    BY <2>1, <2>3, ReachIs, SizeAssumption
  <2>7. CASE p = NotFound
    <3>1. \A x \in Below(d) : ~ Holds(x, n)
      BY <2>5, <2>6, <2>7 DEF Answered
    <3> QED BY <2>2, <2>7, <3>1, Apart
  <2>8. CASE p = PathOverrun
    <3>1. PICK q, v : Leads(d, q, v) /\ Len(q) = k + 1 /\ v[Len(q)] \in Dirs
      BY <2>5, <2>8 DEF Answered
    <3>2. q \in [1 .. k + 1 -> AllNames] /\ Len(q) \in Nat
      BY <3>1 DEF Leads
    <3>3. Resolve(d, q) = v[Len(q)]
      BY <3>1, <3>2, ResolveAlong DEF Leads
    <3>4. Resolve(d, q) \in DataCluster /\ ValidDir(disk[Resolve(d, q)].tab)
      BY <3>1, <3>3 DEF Dirs
    <3> QED BY <2>2, <2>8, <3>2, <3>4, Apart
  <2>9. CASE p \notin {NotFound, PathOverrun}
    <3>1. PICK v : Leads(d, p, v) /\ Holds(v[Len(p)], n)
      BY <2>5, <2>9 DEF Answered
    <3>2. Len(p) \in Nat
      BY <3>1 DEF Leads
    <3>3. Resolve(d, p) = v[Len(p)]
      BY <3>1, <3>2, ResolveAlong DEF Leads
    <3> QED BY <2>2, <2>9, <3>1, <3>3
  <2> QED BY <2>7, <2>8, <2>9
<1> QED BY <1>1, KeptInit, KeptStep, CopiesInit, CopiesStep, PTL DEF ShellSpec

=============================================================================
