----------------------------- MODULE Fat32Proofs -----------------------------
(***************************************************************************)
(* Proofs about the file system driver (Fat32.tla).                         *)
(*                                                                         *)
(* These hold for every set of names that requests may carry, the name of an *)
(* erased row included.  What the chains of clusters rest on is in           *)
(* Fat32ChainProofs.                                                         *)
(***************************************************************************)
EXTENDS Fat32, TLAPS

-----------------------------------------------------------------------------
(* The invariant for any names *)

\* Where the cached FAT has been saved, or loaded and not yet changed.
Saved == {"idle", "mkdirParent", "mkdirTable", "writeRow", "rmdirTable",
          "rmdirFat", "rmFirst", "rmLast"}

CacheSaved == pc \in Saved => cluster_map = diskFat

\* The cached FAT has been loaded.
Loaded == pc \notin {"off", "fmtFat", "fmtRoot"}

FileCluster == DataCluster \ {ROOT_CLUSTER_NUMBER}

Marked(f) == f[0] = CLUSTER_0_VALUE /\ f[1] = CLUSTER_1_VALUE

\* A table that passes for a directory is allocated in both FATs, and then the
\* root is there and the marks are set.
DirsMarked ==
    \A d \in DataCluster : ValidDir(disk[d].tab) =>
        /\ ValidDir(disk[ROOT_CLUSTER_NUMBER].tab)
        /\ Marked(diskFat) /\ diskFat[d] = FAT32_FAT_END_OF_FILE
        /\ Loaded => Marked(cluster_map) /\ cluster_map[d] = FAT32_FAT_END_OF_FILE

\* Before the disk is formatted it holds no directory.
Unformatted ==
    /\ pc \notin {"off", "wild", "spin", "overrun", "garbled"} => signed
    /\ (pc = "off" /\ ~ signed) \/ pc \in {"fmtFat", "fmtRoot"} =>
          \A d \in DataCluster : ~ ValidDir(disk[d].tab)
    /\ pc = "fmtRoot" => diskFat = FreshFat

\* No row of contents and no link leads to the root.
RowsOffRoot ==
    \A d \in DataCluster, r \in Row : r >= 2 =>
        /\ disk[d].tab[r].cluster \in FileCluster \cup {0}
        /\ disk[d].tab[r].sub => disk[d].tab[r].cluster \in FileCluster

LinksOffRoot(f) == \A c \in DataCluster : f[c] \notin {1, ROOT_CLUSTER_NUMBER}

\* A cluster that does not pass for a directory has no rows in use.
NoStrayRows ==
    \A d \in DataCluster : ValidDir(disk[d].tab) \/ TargetEmpty(disk[d].tab)

\* What a call under way has found out, and relies on.
CallSound ==
    /\ pc \in {"mkdirParent", "fill", "writeRow"} =>
          /\ dir_table_buf = disk[call.parent].tab
          /\ MatchFrom(dir_table_buf, call.name, 2) = {}
    /\ pc \in {"mkdirParent", "mkdirTable", "fill", "writeRow"} =>
          /\ call.parent \in DataCluster /\ ValidDir(disk[call.parent].tab)
          /\ call.row >= 2
          /\ call.start \in FileCluster
    /\ pc \in {"mkdirParent", "mkdirTable"} =>
          /\ diskFat[call.start] = FAT32_FAT_END_OF_FILE
          /\ ~ ValidDir(disk[call.start].tab)
    /\ pc = "fill" =>
          /\ call.cur \in FileCluster
          /\ ~ ValidDir(disk[call.cur].tab)
          /\ call.need <= Needed(call.size)
    /\ pc \in {"rmdirTable", "rmdirFat"} => call.start \in FileCluster
    /\ pc = "rmdirTable" => TargetEmpty(disk[call.start].tab)
    /\ pc = "rmdirFat" => ~ ValidDir(disk[call.start].tab)
    /\ pc \in {"rmFirst", "rmLoop"} => call.nxt \notin {1, ROOT_CLUSTER_NUMBER}
    /\ pc \in {"rmLoop", "rmLast"} => call.cur \in FileCluster

IInv ==
    /\ TypeOK
    /\ CacheSaved /\ DirsMarked /\ Unformatted
    /\ RowsOffRoot /\ LinksOffRoot(diskFat) /\ LinksOffRoot(cluster_map)
    /\ NoStrayRows /\ NamesUnique
    /\ CallSound

-----------------------------------------------------------------------------
(* The operators the model is built from *)

LEMMA Constants ==
    /\ Row \subseteq Nat /\ 0 \in Row /\ 1 \in Row
    /\ DataCluster \subseteq Cluster /\ Cluster \subseteq Nat
    /\ ROOT_CLUSTER_NUMBER \in DataCluster
    /\ 0 \in Cluster /\ 1 \in Cluster
    /\ FAT32_FAT_END_OF_FILE \in 0 .. NCluster + 1
    /\ FAT32_FAT_END_OF_FILE \notin Cluster
    /\ FAT32_FAT_EMPTY_ENTRY \notin DataCluster
    /\ CLUSTER_0_VALUE \in 0 .. NCluster + 1
    /\ CLUSTER_0_VALUE \notin Cluster
    /\ CLUSTER_1_VALUE = FAT32_FAT_END_OF_FILE
BY SizeAssumption DEF Row, DataCluster, Cluster, ROOT_CLUSTER_NUMBER,
   FAT32_FAT_END_OF_FILE, CLUSTER_0_VALUE, CLUSTER_1_VALUE, FAT32_FAT_EMPTY_ENTRY

\* The blank values have their types.
LEMMA BlankTypes ==
    /\ ZeroEntry \in Entry
    /\ ZeroTable \in Table /\ \A r \in Row : ZeroTable[r] = ZeroEntry
    /\ ~ ValidDir(ZeroTable) /\ TargetEmpty(ZeroTable)
    /\ NoData \in Data
    /\ ZeroBlock \in Block /\ ZeroBlock.tab = ZeroTable
    /\ NoCall \in Call
    /\ NoFat \in [Cluster -> 0 .. NCluster + 1]
<1>1. ZeroEntry \in Entry
  BY Constants DEF ZeroEntry, Entry, AllNames
<1>2. ZeroTable \in Table /\ \A r \in Row : ZeroTable[r] = ZeroEntry
  BY <1>1 DEF ZeroTable, Table
<1>3. ~ ValidDir(ZeroTable) /\ TargetEmpty(ZeroTable)
  BY <1>2, Constants DEF ValidDir, TargetEmpty, ZeroEntry
<1>4. NoData \in Data
  BY SizeAssumption DEF NoData, Data
<1>5. ZeroBlock \in Block /\ ZeroBlock.tab = ZeroTable
  BY <1>2, <1>4 DEF ZeroBlock, Block
<1>6. NoCall \in Call
  BY Constants DEF NoCall, Call, AllNames
<1>7. NoFat \in [Cluster -> 0 .. NCluster + 1]
  BY SizeAssumption DEF NoFat, FAT32_FAT_EMPTY_ENTRY
<1> QED BY <1>1, <1>2, <1>3, <1>4, <1>5, <1>6, <1>7

\* dk2 is dk with the table t in cluster c.
Placed(dk, c, t, dk2) ==
    /\ dk2 \in [DataCluster -> Block]
    /\ dk2[c].tab = t
    /\ \A x \in DataCluster : x # c => dk2[x] = dk[x]

\* A write of a table changes the table of one cluster.
LEMMA TableWrite ==
    ASSUME NEW dk \in [DataCluster -> Block], NEW c \in DataCluster, NEW t \in Table,
           NEW dk2, dk2 = [dk EXCEPT ![c] = TableBlock(t)]
    PROVE  Placed(dk, c, t, dk2)
<1>1. TableBlock(t) \in Block /\ TableBlock(t).tab = t
  BY BlankTypes DEF TableBlock, Block
<1> HIDE DEF TableBlock
<1> QED BY <1>1 DEF Placed

\* A piece of a file, or zeroes, do not pass for a table in use.
LEMMA DataWrite ==
    ASSUME NEW dk \in [DataCluster -> Block], NEW c \in DataCluster, NEW b \in Block,
           b.tab = ZeroTable,
           NEW dk2, dk2 = [dk EXCEPT ![c] = b]
    PROVE  Placed(dk, c, ZeroTable, dk2)
BY DEF Placed

LEMMA DataBlockType ==
    ASSUME NEW p \in Payloads \cup {NoPayload}, NEW k \in Nat, NEW n \in 0 .. ClusterSize
    PROVE  DataBlock(p, k, n) \in Block /\ DataBlock(p, k, n).tab = ZeroTable
<1>1. [p |-> p, k |-> k, n |-> n] \in Data
  BY DEF Data
<1> QED BY <1>1, BlankTypes DEF DataBlock, Block

\* The table of a new folder: two rows of its own and no contents.
LEMMA NewTable ==
    ASSUME NEW n \in AllNames, NEW self \in Cluster, NEW parent \in Cluster,
           NEW t, t = init_directory_table(n, self, parent)
    PROVE  /\ t \in Table
           /\ t[0] = DirEntry(n, self) /\ t[1] = DirEntry(DotDot, parent)
           /\ \A r \in Row : r >= 2 => t[r] = ZeroEntry
           /\ ValidDir(t) /\ TargetEmpty(t)
<1>1. DirEntry(n, self) \in Entry /\ DirEntry(DotDot, parent) \in Entry
  BY DEF DirEntry, Entry, AllNames
<1>2. t = [ZeroTable EXCEPT ![0] = DirEntry(n, self), ![1] = DirEntry(DotDot, parent)]
  BY DEF init_directory_table
<1>3. /\ t \in Table
      /\ t[0] = DirEntry(n, self) /\ t[1] = DirEntry(DotDot, parent)
      /\ \A r \in Row : r >= 2 => t[r] = ZeroEntry
  <2> HIDE DEF DirEntry
  <2> QED BY <1>1, <1>2, BlankTypes, Constants DEF Table
<1>4. ValidDir(t)
  BY <1>3 DEF ValidDir, DirEntry
<1>5. TargetEmpty(t)
  BY <1>3 DEF TargetEmpty, ZeroEntry
<1> QED BY <1>3, <1>4, <1>5

LEMMA SizesNat == \A s \in Sizes \cup {0} : s \in Nat
BY SizeAssumption

\* A file takes at least one cluster, and its last part fits one.
LEMMA NeededType ==
    ASSUME NEW s \in Nat
    PROVE  /\ Needed(s) \in Nat /\ (s > 0 => Needed(s) > 0)
           /\ s % ClusterSize \in 0 .. ClusterSize
<1>1. /\ s \div ClusterSize \in Nat
      /\ s % ClusterSize \in 0 .. ClusterSize - 1
      /\ s = ClusterSize * (s \div ClusterSize) + (s % ClusterSize)
  BY SizeAssumption
<1>2. ASSUME s > 0, s % ClusterSize = 0 PROVE s \div ClusterSize # 0
  BY <1>1, <1>2, SizeAssumption
<1> QED BY <1>1, <1>2, SizeAssumption DEF Needed

-----------------------------------------------------------------------------
(* Every step keeps the invariant for any names *)

\* The first FAT has the marks, and the root's entry.
LEMMA FreshFatMarks ==
    /\ FreshFat \in [Cluster -> 0 .. NCluster + 1]
    /\ Marked(FreshFat)
    /\ FreshFat[ROOT_CLUSTER_NUMBER] = FAT32_FAT_END_OF_FILE
    /\ LinksOffRoot(FreshFat)
<1>1. \A c \in Cluster :
        /\ c = 0 => FreshFat[c] = CLUSTER_0_VALUE
        /\ c = 1 => FreshFat[c] = CLUSTER_1_VALUE
        /\ c = ROOT_CLUSTER_NUMBER => FreshFat[c] = FAT32_FAT_END_OF_FILE
        /\ c \notin {0, 1, ROOT_CLUSTER_NUMBER} => FreshFat[c] = FAT32_FAT_EMPTY_ENTRY
  BY DEF FreshFat, ROOT_CLUSTER_NUMBER
<1>2. DOMAIN FreshFat = Cluster /\ FreshFat = [c \in Cluster |-> FreshFat[c]]
  BY DEF FreshFat
<1> QED BY <1>1, <1>2, SizeAssumption, Constants DEF Marked, LinksOffRoot,
   DataCluster, FAT32_FAT_END_OF_FILE, FAT32_FAT_EMPTY_ENTRY, ROOT_CLUSTER_NUMBER

LEMMA InitHolds == Init => IInv
<1> SUFFICES ASSUME Init PROVE IInv
  OBVIOUS
<1>1. disk \in [DataCluster -> Block] /\ \A d \in DataCluster : disk[d].tab = ZeroTable
  BY BlankTypes DEF Init
<1>2. TypeOK
  <2>1. pc \in PcValues /\ ret \in -1 .. 2
    BY DEF Init, PcValues, Lost
  <2>4. signed \in BOOLEAN
    BY Zenon DEF Init
  <2>2. diskFat \in [Cluster -> 0 .. NCluster + 1] /\ cluster_map \in [Cluster -> 0 .. NCluster + 1]
    BY BlankTypes, Zenon DEF Init
  <2>3. dir_table_buf \in Table /\ call \in Call
    BY BlankTypes, Zenon DEF Init
  <2> QED BY <1>1, <2>1, <2>2, <2>3, <2>4 DEF TypeOK
<1>3. \A d \in DataCluster : ~ ValidDir(disk[d].tab) /\ TargetEmpty(disk[d].tab)
  BY <1>1, BlankTypes
<1>4. RowsOffRoot
  BY <1>1, BlankTypes DEF RowsOffRoot, ZeroEntry
<1>5. LinksOffRoot(diskFat) /\ LinksOffRoot(cluster_map)
  BY Constants DEF Init, NoFat, LinksOffRoot, FAT32_FAT_EMPTY_ENTRY, ROOT_CLUSTER_NUMBER
<1>6. NamesUnique
  BY <1>3 DEF NamesUnique, Live
<1>7. CallSound
  BY DEF CallSound, Init
<1>8. CacheSaved /\ DirsMarked /\ Unformatted /\ NoStrayRows
  BY <1>3 DEF CacheSaved, DirsMarked, Unformatted, NoStrayRows, Init, Saved
<1> QED BY <1>2, <1>4, <1>5, <1>6, <1>7, <1>8 DEF IInv

\* Steps that leave the disk alone and end, or break, the call.
LEMMA QuietPreserves ==
    ASSUME IInv, TypeOK', UNCHANGED <<diskFat, disk>>,
           pc' \in {"off", "idle", "wild", "spin", "overrun", "garbled"},
           pc' \in {"off", "idle"} => signed',
           pc' = "off" => cluster_map' = NoFat,
           pc' = "idle" => cluster_map' = diskFat,
           pc' \in {"wild", "spin", "overrun", "garbled"} => cluster_map' = cluster_map /\ Loaded
    PROVE  IInv'
<1>1. CacheSaved' /\ Unformatted' /\ CallSound'
  BY DEF IInv, CacheSaved, Unformatted, CallSound, Saved
<1>2. RowsOffRoot' /\ NoStrayRows' /\ NamesUnique'
  BY DEF IInv, RowsOffRoot, NoStrayRows, NamesUnique, Live, EntryOf
<1>3. DirsMarked'
  BY DEF IInv, DirsMarked, Loaded
<1>4. LinksOffRoot(NoFat)
  BY Constants DEF NoFat, LinksOffRoot, FAT32_FAT_EMPTY_ENTRY, ROOT_CLUSTER_NUMBER
<1>5. LinksOffRoot(diskFat)' /\ LinksOffRoot(cluster_map)'
  BY <1>4 DEF IInv, LinksOffRoot
<1> QED BY <1>1, <1>2, <1>3, <1>5 DEF IInv

LEMMA CrashPreserves == ASSUME IInv, Crash PROVE IInv'
<1>1. TypeOK'
  BY BlankTypes DEF IInv, TypeOK, Crash, PowerOff, durable, PcValues, Lost
<1>2. signed'
  BY DEF IInv, Unformatted, Crash, durable, Lost
<1> QED BY <1>1, <1>2, QuietPreserves DEF Crash, PowerOff, durable, Lost

LEMMA BootPreserves == ASSUME IInv, Boot PROVE IInv'
<1>1. TypeOK'
  BY DEF IInv, TypeOK, Boot, durable, PcValues, Lost
<1> QED BY <1>1, QuietPreserves DEF Boot, durable

LEMMA ReadPreserves ==
    ASSUME IInv, NEW d \in DataCluster, NEW n,
           \/ ReadDirectory(d, n)
           \/ \E s \in Sizes : Read(d, n, s) \/ ReadRunaway(d, n, s)
           \/ WriteReject(d, n) \/ WriteOverrun(d, n) \/ DeleteReject(d, n)
    PROVE  IInv'
<1>1. signed /\ cluster_map = diskFat
  BY DEF IInv, CacheSaved, Saved, Unformatted, ReadDirectory, Read, ReadRunaway,
     WriteReject, WriteOverrun, DeleteReject
<1>2. TypeOK
  BY DEF IInv
<1>3. ASSUME NEW code \in -1 .. 2, Return(code), UNCHANGED durable,
             cluster_map' \in {diskFat, cluster_map}
      PROVE  IInv'
  <2>1. TypeOK'
    BY <1>2, <1>3, BlankTypes DEF TypeOK, Return, durable, PcValues, Lost
  <2> QED BY <1>1, <1>3, <2>1, QuietPreserves DEF Return, durable
<1>4. ASSUME pc = "idle", pc' \in {"wild", "spin", "overrun"},
             UNCHANGED <<durable, cluster_map, dir_table_buf, call, ret>>
      PROVE  IInv'
  <2>1. TypeOK'
    BY <1>2, <1>4 DEF TypeOK, durable, PcValues, Lost
  <2> QED BY <1>1, <1>4, <2>1, QuietPreserves DEF durable, Loaded
<1>5. CASE ReadDirectory(d, n)
  <2>1. ReadDirectoryCode(disk[d].tab, n) \in -1 .. 2
    BY DEF ReadDirectoryCode
  <2> QED BY <1>3, <1>5, <2>1 DEF ReadDirectory
<1>6. ASSUME NEW s \in Sizes, Read(d, n, s) PROVE IInv'
  <2>1. ReadCode(disk[d].tab, n, s) \in -1 .. 2
    BY DEF ReadCode
  <2> QED BY <1>3, <1>6, <2>1 DEF Read, Reload
<1>7. ASSUME NEW s \in Sizes, ReadRunaway(d, n, s) PROVE IInv'
  BY <1>4, <1>7 DEF ReadRunaway
<1>8. CASE WriteReject(d, n)
  <2>1. WriteCode(disk[d].tab, n) \in -1 .. 2
    BY DEF WriteCode
  <2> QED BY <1>3, <1>8, <2>1 DEF WriteReject
<1>9. CASE WriteOverrun(d, n)
  BY <1>4, <1>9 DEF WriteOverrun
<1>10. CASE DeleteReject(d, n)
  <2>1. DeleteCode(disk[d].tab, n) \in -1 .. 2
    BY DEF DeleteCode
  <2> QED BY <1>3, <1>10, <2>1 DEF DeleteReject
<1> QED BY <1>5, <1>6, <1>7, <1>8, <1>9, <1>10

\* What a new table of one cluster has to bring along.
RowsFit(t) ==
    /\ \A r \in Row : r >= 2 =>
          /\ t[r].cluster \in FileCluster \cup {0}
          /\ t[r].sub => t[r].cluster \in FileCluster
    /\ ValidDir(t) \/ TargetEmpty(t)
    /\ \A r1, r2 \in Row :
          r1 >= 2 /\ r2 >= 2 /\ t[r1].used /\ t[r2].used /\ t[r1].name = t[r2].name
             => r1 = r2

LEMMA OneTable ==
    ASSUME IInv, NEW c \in DataCluster, RowsFit(disk[c].tab)',
           \A x \in DataCluster : x # c => disk'[x] = disk[x]
    PROVE  RowsOffRoot' /\ NoStrayRows' /\ NamesUnique'
<1>1. RowsOffRoot' /\ NoStrayRows'
  BY DEF IInv, RowsOffRoot, NoStrayRows, RowsFit
<1>2. NamesUnique'
  BY DEF IInv, NamesUnique, Live, EntryOf, RowsFit
<1> QED BY <1>1, <1>2

\* The tables on the disk fit, wherever they pass for a directory.
LEMMA DiskRowsFit ==
    ASSUME IInv, NEW c \in DataCluster, ValidDir(disk[c].tab)
    PROVE  RowsFit(disk[c].tab)
<1>1. \A r \in Row : r >= 2 =>
          /\ disk[c].tab[r].cluster \in FileCluster \cup {0}
          /\ disk[c].tab[r].sub => disk[c].tab[r].cluster \in FileCluster
  BY DEF IInv, RowsOffRoot
<1>2. \A r1, r2 \in Row :
          r1 >= 2 /\ r2 >= 2 /\ disk[c].tab[r1].used /\ disk[c].tab[r2].used
             /\ disk[c].tab[r1].name = disk[c].tab[r2].name => r1 = r2
  BY DEF IInv, NamesUnique, Live, EntryOf
<1> QED BY <1>1, <1>2 DEF RowsFit

LEMMA ZeroTableFits == RowsFit(ZeroTable)
BY BlankTypes, Constants DEF RowsFit, ZeroEntry

LEMMA FormatPreserves ==
    ASSUME IInv, FormatSignature \/ FormatFat \/ FormatRoot
    PROVE  IInv'
<1>1. CASE FormatSignature
  <2>1. TypeOK'
    BY <1>1 DEF IInv, TypeOK, FormatSignature, PcValues, Lost
  <2>2. CacheSaved' /\ Unformatted' /\ CallSound' /\ DirsMarked'
    BY <1>1 DEF FormatSignature, IInv, CacheSaved, Saved, Unformatted, CallSound, DirsMarked, Loaded
  <2>3. RowsOffRoot' /\ NoStrayRows' /\ NamesUnique' /\ LinksOffRoot(diskFat)' /\ LinksOffRoot(cluster_map)'
    BY <1>1 DEF FormatSignature, IInv, RowsOffRoot, NoStrayRows, NamesUnique, Live, EntryOf, LinksOffRoot
  <2> QED BY <2>1, <2>2, <2>3 DEF IInv
<1>2. CASE FormatFat
  <2>1. TypeOK'
    BY <1>2, FreshFatMarks DEF IInv, TypeOK, FormatFat, PcValues, Lost
  <2>2. CacheSaved' /\ Unformatted' /\ CallSound' /\ DirsMarked'
    BY <1>2 DEF FormatFat, IInv, CacheSaved, Saved, Unformatted, CallSound, DirsMarked, Loaded
  <2>3. RowsOffRoot' /\ NoStrayRows' /\ NamesUnique'
    BY <1>2 DEF FormatFat, IInv, RowsOffRoot, NoStrayRows, NamesUnique, Live, EntryOf
  <2>4. LinksOffRoot(diskFat)' /\ LinksOffRoot(cluster_map)'
    BY <1>2, FreshFatMarks DEF FormatFat, IInv, LinksOffRoot
  <2> QED BY <2>1, <2>2, <2>3, <2>4 DEF IInv
<1>3. CASE FormatRoot
  <2>1. /\ RootTable \in Table /\ ValidDir(RootTable) /\ RowsFit(RootTable)
    <3>1. /\ RootTable \in Table /\ ValidDir(RootTable)
          /\ \A r \in Row : r >= 2 => RootTable[r] = ZeroEntry
      BY NewTable, Constants DEF RootTable, AllNames
    <3> QED BY <3>1 DEF RowsFit, ZeroEntry
  <2>2. /\ disk' \in [DataCluster -> Block]
        /\ disk'[ROOT_CLUSTER_NUMBER].tab = RootTable
        /\ \A x \in DataCluster : x # ROOT_CLUSTER_NUMBER => disk'[x] = disk[x]
    BY <1>3, <2>1, TableWrite, Constants DEF FormatRoot, IInv, TypeOK, Placed
  <2>3. TypeOK'
    BY <1>3, <2>2, FreshFatMarks, BlankTypes DEF IInv, TypeOK, FormatRoot, Return, PcValues, Lost
  <2>4. RowsOffRoot' /\ NoStrayRows' /\ NamesUnique'
    BY <2>1, <2>2, OneTable, Constants
  <2>5. pc' = "idle" /\ diskFat' = FreshFat /\ cluster_map' = FreshFat /\ signed'
    BY <1>3 DEF FormatRoot, Return, IInv, Unformatted
  <2>6. DirsMarked'
    <3>1. \A d \in DataCluster : ValidDir(disk[d].tab)' => d = ROOT_CLUSTER_NUMBER
      BY <1>3, <2>2 DEF IInv, Unformatted, FormatRoot
    <3> QED BY <2>1, <2>2, <2>5, <3>1, FreshFatMarks DEF DirsMarked, Loaded
  <2>7. CacheSaved' /\ Unformatted' /\ CallSound'
    BY <2>5 DEF CacheSaved, Unformatted, CallSound
  <2>8. LinksOffRoot(diskFat)' /\ LinksOffRoot(cluster_map)'
    BY <2>5, FreshFatMarks DEF LinksOffRoot
  <2> QED BY <2>3, <2>4, <2>6, <2>7, <2>8 DEF IInv
<1> QED BY <1>1, <1>2, <1>3

\* A valid directory, and a cluster the map has free: the directory is allocated,
\* and the free cluster is neither the root nor a directory.
LEMMA FreeIsUnused ==
    ASSUME IInv, Loaded, NEW d \in DataCluster, ValidDir(disk[d].tab),
           NEW c \in DataCluster, cluster_map[c] = FAT32_FAT_EMPTY_ENTRY
    PROVE  c \in FileCluster /\ ~ ValidDir(disk[c].tab) /\ c # d
<1>1. /\ ValidDir(disk[ROOT_CLUSTER_NUMBER].tab)
      /\ cluster_map[ROOT_CLUSTER_NUMBER] = FAT32_FAT_END_OF_FILE
      /\ cluster_map[d] = FAT32_FAT_END_OF_FILE
  BY Constants DEF IInv, DirsMarked
<1>2. FAT32_FAT_EMPTY_ENTRY # FAT32_FAT_END_OF_FILE
  BY SizeAssumption DEF FAT32_FAT_EMPTY_ENTRY, FAT32_FAT_END_OF_FILE
<1>3. ~ ValidDir(disk[c].tab)
  BY <1>2 DEF IInv, DirsMarked
<1> QED BY <1>1, <1>2, <1>3 DEF FileCluster

\* What write has found out when it starts to change things.
LEMMA WriteBegins ==
    ASSUME IInv, pc = "idle", NEW d \in DataCluster, NEW n \in Names,
           WriteCode(disk[d].tab, n) = 0,
           NEW r \in Row, NEW c \in DataCluster,
           IsFirst(FreeRow(disk[d].tab), r), IsFirst(FreeCluster(cluster_map), c)
    PROVE  /\ cluster_map = diskFat /\ cluster_map[c] = FAT32_FAT_EMPTY_ENTRY
           /\ ValidDir(disk[d].tab) /\ MatchFrom(disk[d].tab, n, 2) = {}
           /\ r >= 2 /\ ~ disk[d].tab[r].used
           /\ c \in FileCluster /\ ~ ValidDir(disk[c].tab) /\ c # d
<1>1. ValidDir(disk[d].tab) /\ MatchFrom(disk[d].tab, n, 2) = {}
  BY DEF WriteCode
<1>2. r >= 2 /\ ~ disk[d].tab[r].used
  BY DEF IsFirst, FreeRow
<1>3. cluster_map[c] = FAT32_FAT_EMPTY_ENTRY /\ cluster_map = diskFat
  BY DEF IsFirst, FreeCluster, IInv, CacheSaved, Saved
<1> QED BY <1>1, <1>2, <1>3, FreeIsUnused DEF Loaded

\* One entry of the FAT is stored.
Stored(f, c, v, g) ==
    /\ g \in [Cluster -> 0 .. NCluster + 1] /\ LinksOffRoot(g)
    /\ Marked(f) => Marked(g)
    /\ g[c] = v /\ \A x \in Cluster : x # c => g[x] = f[x]

LEMMA FatEntry ==
    ASSUME NEW f \in [Cluster -> 0 .. NCluster + 1], LinksOffRoot(f),
           NEW c \in DataCluster,
           NEW v \in 0 .. NCluster + 1, v \notin {1, ROOT_CLUSTER_NUMBER},
           NEW g, g = [f EXCEPT ![c] = v]
    PROVE  Stored(f, c, v, g)
<1>1. c \in Cluster /\ c \notin {0, 1}
  BY SizeAssumption DEF DataCluster, Cluster
<1> QED BY <1>1, Constants DEF LinksOffRoot, Marked, Stored

LEMMA Values ==
    /\ FAT32_FAT_END_OF_FILE \notin {1, ROOT_CLUSTER_NUMBER}
    /\ FAT32_FAT_EMPTY_ENTRY \notin {1, ROOT_CLUSTER_NUMBER}
    /\ FAT32_FAT_EMPTY_ENTRY \in 0 .. NCluster + 1
    /\ FAT32_FAT_END_OF_FILE \in 0 .. NCluster + 1
    /\ FAT32_FAT_EMPTY_ENTRY # FAT32_FAT_END_OF_FILE
BY SizeAssumption DEF FAT32_FAT_END_OF_FILE, FAT32_FAT_EMPTY_ENTRY, ROOT_CLUSTER_NUMBER

LEMMA MkdirFatPreserves ==
    ASSUME IInv, NEW d \in DataCluster, NEW n \in Names, 0 \in Sizes, MkdirFat(d, n)
    PROVE  IInv'
<1>1. PICK r \in Row, c \in DataCluster :
         /\ IsFirst(FreeRow(disk[d].tab), r)
         /\ IsFirst(FreeCluster(cluster_map), c)
         /\ call' = [NoCall EXCEPT !.parent = d, !.name = n, !.row = r, !.start = c]
         /\ cluster_map' = [cluster_map EXCEPT ![c] = FAT32_FAT_END_OF_FILE]
         /\ diskFat' = cluster_map'
  BY DEF MkdirFat
<1>2. /\ cluster_map = diskFat /\ cluster_map[c] = FAT32_FAT_EMPTY_ENTRY
      /\ ValidDir(disk[d].tab) /\ MatchFrom(disk[d].tab, n, 2) = {}
      /\ r >= 2 /\ c \in FileCluster /\ ~ ValidDir(disk[c].tab) /\ c # d
  BY <1>1, WriteBegins DEF MkdirFat
<1>3. /\ call' \in Call
      /\ call'.parent = d /\ call'.name = n /\ call'.row = r /\ call'.start = c
  BY <1>1, BlankTypes, Constants DEF Call, NoCall, AllNames
<1>4. Stored(cluster_map, c, FAT32_FAT_END_OF_FILE, cluster_map')
  <2>1. cluster_map \in [Cluster -> 0 .. NCluster + 1] /\ LinksOffRoot(cluster_map)
    BY DEF IInv, TypeOK
  <2>2. cluster_map' = [cluster_map EXCEPT ![c] = FAT32_FAT_END_OF_FILE]
    BY <1>1
  <2> QED BY <2>1, <2>2, FatEntry, Values
<1>5. UNCHANGED <<signed, disk>> /\ pc' = "mkdirParent" /\ ret' = 0
      /\ dir_table_buf' = disk[d].tab /\ pc = "idle" /\ diskFat' = cluster_map'
  BY <1>1 DEF MkdirFat
<1>6. TypeOK'
  BY <1>3, <1>4, <1>5 DEF IInv, TypeOK, PcValues, Lost, Block, Stored
<1>7. RowsOffRoot' /\ NoStrayRows' /\ NamesUnique'
  BY <1>5 DEF IInv, RowsOffRoot, NoStrayRows, NamesUnique, Live, EntryOf
<1>8. CacheSaved' /\ Unformatted'
  BY <1>5 DEF IInv, CacheSaved, Unformatted
<1>9. DirsMarked'
  BY <1>2, <1>4, <1>5, Constants DEF IInv, DirsMarked, Loaded, Stored
<1>10. CallSound'
  BY <1>2, <1>3, <1>4, <1>5 DEF CallSound, Stored
<1> QED BY <1>4, <1>5, <1>6, <1>7, <1>8, <1>9, <1>10 DEF IInv, Stored

\* A row of contents that names a cluster of its own goes into a directory.
LEMMA RowAdded ==
    ASSUME IInv, NEW d \in DataCluster, ValidDir(disk[d].tab),
           NEW r \in Row, r >= 2, NEW e \in Entry, e.cluster \in FileCluster,
           MatchFrom(disk[d].tab, e.name, 2) = {},
           NEW t, t = [disk[d].tab EXCEPT ![r] = e],
           disk' = [disk EXCEPT ![d] = TableBlock(t)]
    PROVE  /\ t \in Table /\ disk' \in [DataCluster -> Block]
           /\ disk'[d].tab = t /\ \A x \in DataCluster : x # d => disk'[x] = disk[x]
           /\ \A x \in DataCluster : ValidDir(disk[x].tab)' <=> ValidDir(disk[x].tab)
           /\ RowsOffRoot' /\ NoStrayRows' /\ NamesUnique'
<1>1. disk[d].tab \in Table
  BY DEF IInv, TypeOK, Block
<1>2. /\ t \in Table /\ t[r] = e
      /\ \A x \in Row : x # r => t[x] = disk[d].tab[x]
  BY <1>1 DEF Table
<1>3. /\ disk' \in [DataCluster -> Block]
      /\ disk'[d].tab = t /\ \A x \in DataCluster : x # d => disk'[x] = disk[x]
  BY <1>2, TableWrite DEF IInv, TypeOK, Placed
<1>4. ValidDir(t)
  BY <1>2, Constants DEF ValidDir
<1>5. RowsFit(t)
  BY <1>2, <1>4, DiskRowsFit DEF RowsFit, MatchFrom
<1>6. RowsOffRoot' /\ NoStrayRows' /\ NamesUnique'
  BY <1>3, <1>5, OneTable
<1> QED BY <1>2, <1>3, <1>4, <1>6

LEMMA MkdirParentPreserves == ASSUME IInv, MkdirParent PROVE IInv'
<1>1. /\ call.parent \in DataCluster /\ ValidDir(disk[call.parent].tab)
      /\ call.row \in Row /\ call.row >= 2 /\ call.start \in FileCluster
      /\ dir_table_buf = disk[call.parent].tab
      /\ MatchFrom(dir_table_buf, call.name, 2) = {}
      /\ diskFat[call.start] = FAT32_FAT_END_OF_FILE
      /\ ~ ValidDir(disk[call.start].tab)
      /\ call \in Call
  BY DEF IInv, CallSound, MkdirParent, TypeOK, Call
<1>2. DirEntry(call.name, call.start) \in Entry
  BY <1>1 DEF DirEntry, Entry, Call
<1>3. /\ DirEntry(call.name, call.start).cluster = call.start
      /\ DirEntry(call.name, call.start).name = call.name
  BY DEF DirEntry
<1>4. /\ dir_table_buf' = [disk[call.parent].tab EXCEPT ![call.row] = DirEntry(call.name, call.start)]
      /\ disk' = [disk EXCEPT ![call.parent] = TableBlock(dir_table_buf')]
  BY <1>1 DEF MkdirParent
<1>5. UNCHANGED <<signed, diskFat, cluster_map, call, ret>> /\ pc' = "mkdirTable"
  BY DEF MkdirParent
<1> HIDE DEF DirEntry
<1>6. /\ dir_table_buf' \in Table /\ disk' \in [DataCluster -> Block]
      /\ \A x \in DataCluster : ValidDir(disk[x].tab)' <=> ValidDir(disk[x].tab)
      /\ RowsOffRoot' /\ NoStrayRows' /\ NamesUnique'
  BY <1>1, <1>2, <1>3, <1>4, RowAdded
<1>7. TypeOK'
  BY <1>5, <1>6 DEF IInv, TypeOK, PcValues, Lost
<1>8. CacheSaved' /\ Unformatted'
  BY <1>5 DEF IInv, CacheSaved, Unformatted, Saved, MkdirParent
<1>9. DirsMarked'
  BY <1>5, <1>6, Constants DEF IInv, DirsMarked, Loaded, MkdirParent
<1>10. CallSound'
  BY <1>1, <1>5, <1>6 DEF CallSound, FileCluster
<1>11. LinksOffRoot(diskFat)' /\ LinksOffRoot(cluster_map)'
  BY <1>5 DEF IInv, LinksOffRoot
<1> QED BY <1>6, <1>7, <1>8, <1>9, <1>10, <1>11 DEF IInv

\* The table of a new folder is there, whole or up to a sector of it.
LEMMA FolderOpened ==
    ASSUME IInv, pc = "mkdirTable", NEW t \in Table,
           ValidDir(t), TargetEmpty(t), RowsFit(t),
           disk' = [disk EXCEPT ![call.start] = TableBlock(t)],
           UNCHANGED <<signed, diskFat>>, TypeOK',
           \/ pc' = "idle" /\ cluster_map' = cluster_map
           \/ pc' = "off" /\ cluster_map' = NoFat
    PROVE  IInv'
<1>1. /\ call.start \in FileCluster /\ call.start \in DataCluster /\ signed
      /\ ValidDir(disk[call.parent].tab) /\ call.parent \in DataCluster
      /\ diskFat[call.start] = FAT32_FAT_END_OF_FILE
      /\ cluster_map = diskFat
  BY DEF IInv, CallSound, FileCluster, Unformatted, CacheSaved, Saved
<1>2. Placed(disk, call.start, t, disk')
  <2>1. disk \in [DataCluster -> Block]
    BY DEF IInv, TypeOK
  <2>2. call.start \in DataCluster
    BY <1>1
  <2> QED BY <2>1, <2>2, TableWrite
<1>3. RowsOffRoot' /\ NoStrayRows' /\ NamesUnique'
  BY <1>1, <1>2, OneTable DEF Placed
<1>4. DirsMarked'
  BY <1>1, <1>2, Constants DEF IInv, DirsMarked, Loaded, FileCluster, Placed
<1>5. CacheSaved' /\ Unformatted' /\ CallSound'
  BY <1>1 DEF CacheSaved, Saved, Unformatted, CallSound
<1>6. LinksOffRoot(NoFat)
  BY Constants DEF NoFat, LinksOffRoot, FAT32_FAT_EMPTY_ENTRY, ROOT_CLUSTER_NUMBER
<1>7. LinksOffRoot(diskFat)' /\ LinksOffRoot(cluster_map)'
  BY <1>6 DEF IInv, LinksOffRoot
<1> QED BY <1>3, <1>4, <1>5, <1>7 DEF IInv

\* Row by row, a torn table is the new one or the old one; the two rows at the
\* top are new.
Mixed(old, new, t) ==
    /\ t \in Table
    /\ t[0] = new[0] /\ t[1] = new[1]
    /\ \A r \in Row : t[r] = new[r] \/ t[r] = old[r]

LEMMA TornTable ==
    ASSUME NEW old \in Table, NEW new \in Table, NEW k \in Row, k > 0
    PROVE  Mixed(old, new, Torn(old, new, k, SectorRows))
<1> DEFINE t == Torn(old, new, k, SectorRows)
<1>1. t = [x \in Row |-> IF x \div SectorRows < k THEN new[x] ELSE old[x]]
  BY DEF Torn, Table
<1>2. 0 \div SectorRows = 0 /\ 1 \div SectorRows = 0
  BY SizeAssumption
<1>3. k \in Nat
  BY Constants
<1> HIDE DEF t
<1>4. Mixed(old, new, t)
  BY <1>1, <1>2, <1>3, Constants DEF Table, Mixed
<1> QED BY <1>4 DEF t

LEMMA MkdirTablePreserves == ASSUME IInv, MkdirTable \/ MkdirTableTorn PROVE IInv'
<1> DEFINE new == init_directory_table(call.name, call.start, call.parent)
<1>1. /\ pc = "mkdirTable" /\ call.start \in DataCluster /\ call.start \in Cluster
      /\ call.name \in AllNames /\ call.parent \in Cluster
      /\ ~ ValidDir(disk[call.start].tab) /\ disk[call.start].tab \in Table
      /\ TargetEmpty(disk[call.start].tab) /\ signed
  BY Constants DEF IInv, CallSound, TypeOK, Call, Block, FileCluster, NoStrayRows,
     MkdirTable, MkdirTableTorn, Unformatted
<1>2. /\ new \in Table /\ ValidDir(new) /\ TargetEmpty(new)
      /\ \A r \in Row : r >= 2 => new[r] = ZeroEntry
  BY <1>1, NewTable
<1> HIDE DEF new
<1>3. RowsFit(new)
  BY <1>2 DEF RowsFit, ZeroEntry
<1>4. ASSUME NEW t \in Table, disk' = [disk EXCEPT ![call.start] = TableBlock(t)]
      PROVE  disk' \in [DataCluster -> Block]
  BY <1>1, <1>4, TableWrite DEF IInv, TypeOK, Placed
<1>5. CASE MkdirTable
  <2>1. disk' = [disk EXCEPT ![call.start] = TableBlock(new)]
    BY <1>5 DEF MkdirTable, new
  <2>2. TypeOK'
    <3>1. disk' \in [DataCluster -> Block]
      BY <1>2, <1>4, <2>1
    <3> QED BY <1>5, <3>1, BlankTypes DEF IInv, TypeOK, MkdirTable, Return, PcValues, Lost
  <2>3. pc' = "idle" /\ UNCHANGED <<signed, diskFat, cluster_map>>
    BY <1>5 DEF MkdirTable, Return
  <2> QED BY <1>1, <1>2, <1>3, <2>1, <2>2, <2>3, FolderOpened
<1>6. CASE MkdirTableTorn
  <2>1. CASE disk[call.start].data = NoData
    <3>1. PICK k \in Row :
            /\ k > 0
            /\ disk' = [disk EXCEPT ![call.start] =
                           TableBlock(Torn(disk[call.start].tab, new, k, SectorRows))]
      BY <1>6, <2>1 DEF MkdirTableTorn, new
    <3>2. PowerOff /\ UNCHANGED <<signed, diskFat>>
      BY <1>6, <2>1 DEF MkdirTableTorn
    <3> DEFINE t == Torn(disk[call.start].tab, new, k, SectorRows)
    <3>3. Mixed(disk[call.start].tab, new, t)
      <4>1. disk[call.start].tab \in Table /\ new \in Table /\ k > 0
        BY <1>1, <1>2, <3>1
      <4> QED BY <4>1, TornTable
    <3>4. disk' = [disk EXCEPT ![call.start] = TableBlock(t)]
      BY <3>1
    <3> HIDE DEF t
    <3>8. t \in Table
      BY <3>3 DEF Mixed
    <3>5. ValidDir(t) /\ TargetEmpty(t)
      BY <1>1, <1>2, <3>3 DEF ValidDir, TargetEmpty, Mixed
    <3>6. RowsFit(t)
      <4>1. \A r \in Row : r >= 2 =>
               /\ t[r].cluster \in FileCluster \cup {0}
               /\ t[r].sub => t[r].cluster \in FileCluster
        BY <1>1, <1>2, <3>3 DEF IInv, RowsOffRoot, ZeroEntry, Mixed
      <4> QED BY <4>1, <3>5 DEF RowsFit, TargetEmpty
    <3>7. TypeOK'
      <4>1. disk' \in [DataCluster -> Block]
        BY <3>8, <3>4, <1>4
      <4> QED BY <3>2, <4>1, BlankTypes DEF IInv, TypeOK, PowerOff, PcValues, Lost
    <3> QED BY <1>1, <3>2, <3>4, <3>5, <3>6, <3>7, <3>8, FolderOpened DEF PowerOff
  <2>2. CASE disk[call.start].data # NoData
    <3>1. pc' = "garbled" /\ UNCHANGED <<durable, cluster_map, dir_table_buf, call, ret>>
      BY <1>6, <2>2 DEF MkdirTableTorn
    <3>2. TypeOK'
      BY <3>1 DEF IInv, TypeOK, durable, PcValues, Lost
    <3> QED BY <1>1, <3>1, <3>2, QuietPreserves DEF durable, Loaded
  <2> QED BY <2>1, <2>2
<1> QED BY <1>5, <1>6

LEMMA WriteFirstPreserves ==
    ASSUME IInv, NEW d \in DataCluster, NEW n \in Names,
           NEW s \in Sizes \ {0}, NEW p \in Payloads, WriteFirst(d, n, s, p)
    PROVE  IInv'
<1>1. PICK r \in Row, c \in DataCluster :
         /\ IsFirst(FreeRow(disk[d].tab), r)
         /\ IsFirst(FreeCluster(cluster_map), c)
         /\ call' = [NoCall EXCEPT !.parent = d, !.name = n, !.size = s,
                                   !.payload = p, !.row = r, !.start = c,
                                   !.cur = c, !.need = Needed(s) - 1]
         /\ cluster_map' = [cluster_map EXCEPT ![c] = FAT32_FAT_END_OF_FILE]
         /\ disk' = [disk EXCEPT ![c] = DataBlock(p, 0, ClusterSize)]
  BY DEF WriteFirst
<1>2. /\ cluster_map = diskFat /\ cluster_map[c] = FAT32_FAT_EMPTY_ENTRY
      /\ ValidDir(disk[d].tab) /\ MatchFrom(disk[d].tab, n, 2) = {}
      /\ r >= 2 /\ c \in FileCluster /\ ~ ValidDir(disk[c].tab) /\ c # d
  BY <1>1, WriteBegins DEF WriteFirst
<1>3. /\ call' \in Call
      /\ call'.parent = d /\ call'.name = n /\ call'.row = r /\ call'.start = c
      /\ call'.cur = c /\ call'.need <= Needed(call'.size)
  <2>1. s \in Nat /\ Needed(s) \in Nat /\ Needed(s) > 0
    BY NeededType, SizeAssumption
  <2> HIDE DEF Needed
  <2>2. call' = [parent |-> d, name |-> n, size |-> s, payload |-> p, row |-> r, start |-> c,
                 cur |-> c, nxt |-> 0, need |-> Needed(s) - 1]
    BY <1>1 DEF NoCall
  <2>3. call' \in Call
    BY <2>1, <2>2, Constants DEF Call, AllNames
  <2> QED BY <2>1, <2>2, <2>3
<1>4. Stored(cluster_map, c, FAT32_FAT_END_OF_FILE, cluster_map')
  <2>1. cluster_map \in [Cluster -> 0 .. NCluster + 1] /\ LinksOffRoot(cluster_map)
    BY DEF IInv, TypeOK
  <2> QED BY <1>1, <2>1, FatEntry, Values
<1>5. Placed(disk, c, ZeroTable, disk')
  <2>1. DataBlock(p, 0, ClusterSize) \in Block /\ DataBlock(p, 0, ClusterSize).tab = ZeroTable
    BY DataBlockType, SizeAssumption
  <2>2. disk \in [DataCluster -> Block]
    BY DEF IInv, TypeOK
  <2> HIDE DEF DataBlock
  <2> QED BY <1>1, <2>1, <2>2, DataWrite
<1>6. UNCHANGED <<signed, diskFat>> /\ pc' = "fill" /\ ret' = 0
      /\ dir_table_buf' = disk[d].tab /\ pc = "idle"
  BY <1>1 DEF WriteFirst
<1>7. TypeOK'
  BY <1>3, <1>4, <1>5, <1>6 DEF IInv, TypeOK, PcValues, Lost, Block, Stored, Placed
<1>8. RowsOffRoot' /\ NoStrayRows' /\ NamesUnique'
  BY <1>5, OneTable, ZeroTableFits DEF Placed
<1>9. CacheSaved' /\ Unformatted'
  BY <1>6 DEF IInv, CacheSaved, Unformatted, Saved
<1>10. DirsMarked'
  BY <1>2, <1>4, <1>5, <1>6, Constants, BlankTypes DEF IInv, DirsMarked, Loaded, Stored,
     Placed, FileCluster
<1>11. CallSound'
  BY <1>2, <1>3, <1>4, <1>5, <1>6, BlankTypes DEF CallSound, Stored, Placed
<1>12. LinksOffRoot(diskFat)' /\ LinksOffRoot(cluster_map)'
  BY <1>4, <1>6 DEF IInv, LinksOffRoot, Stored
<1> QED BY <1>7, <1>8, <1>9, <1>10, <1>11, <1>12 DEF IInv

\* The cluster the fill loop takes next is free.
LEMMA NextIsFree ==
    ASSUME IInv, pc = "fill", NEW c \in DataCluster,
           IsFirst(FreeAfter(cluster_map, call.cur), c)
    PROVE  /\ cluster_map[c] = FAT32_FAT_EMPTY_ENTRY /\ c > call.cur
           /\ c \in FileCluster /\ ~ ValidDir(disk[c].tab)
           /\ c # call.parent /\ c # call.cur
<1>1. cluster_map[c] = FAT32_FAT_EMPTY_ENTRY /\ c > call.cur
  BY DEF IsFirst, FreeAfter, FreeCluster
<1>2. c # call.cur
  BY <1>1, Constants DEF IInv, TypeOK, Call
<1>3. call.parent \in DataCluster /\ ValidDir(disk[call.parent].tab)
  BY DEF IInv, CallSound
<1> QED BY <1>1, <1>2, <1>3, FreeIsUnused DEF Loaded

\* Two entries of the FAT are stored, one after the other.
LEMMA WriteNextMap ==
    ASSUME IInv, pc = "fill", NEW c \in FileCluster, c # call.cur,
           cluster_map' = [cluster_map EXCEPT ![call.cur] = c,
                                              ![c] = FAT32_FAT_END_OF_FILE]
    PROVE  /\ cluster_map' \in [Cluster -> 0 .. NCluster + 1] /\ LinksOffRoot(cluster_map')
           /\ Marked(cluster_map) => Marked(cluster_map')
           /\ cluster_map'[call.cur] = c /\ cluster_map'[c] = FAT32_FAT_END_OF_FILE
           /\ \A x \in Cluster : x \notin {c, call.cur} => cluster_map'[x] = cluster_map[x]
<1> DEFINE mid == [cluster_map EXCEPT ![call.cur] = c]
<1>1. cluster_map' = [mid EXCEPT ![c] = FAT32_FAT_END_OF_FILE]
  OBVIOUS
<1>2. cluster_map \in [Cluster -> 0 .. NCluster + 1] /\ LinksOffRoot(cluster_map)
  BY DEF IInv, TypeOK
<1>3. call.cur \in DataCluster /\ c \in DataCluster
  BY DEF IInv, CallSound, FileCluster
<1>4. c \in 0 .. NCluster + 1 /\ c \notin {1, ROOT_CLUSTER_NUMBER}
  BY SizeAssumption DEF FileCluster, DataCluster
<1>5. Stored(cluster_map, call.cur, c, mid)
  BY <1>2, <1>3, <1>4, FatEntry
<1> HIDE DEF mid
<1>6. mid \in [Cluster -> 0 .. NCluster + 1] /\ LinksOffRoot(mid)
  BY <1>5 DEF Stored
<1>7. Stored(mid, c, FAT32_FAT_END_OF_FILE, cluster_map')
  BY <1>1, <1>3, <1>6, FatEntry, Values
<1> QED BY <1>3, <1>5, <1>7, Constants DEF Stored

\* A round of the fill loop writes a piece of the file.
LEMMA WriteNextPlaces ==
    ASSUME IInv, pc = "fill", NEW c \in DataCluster,
           disk' = [disk EXCEPT ![c] =
                       DataBlock(call.payload, Needed(call.size) - call.need,
                                 PartSize(call.size, call.need))]
    PROVE  Placed(disk, c, ZeroTable, disk')
<1>1. /\ call.need \in Nat /\ call.size \in Nat /\ call.need <= Needed(call.size)
      /\ call.payload \in Payloads \cup {NoPayload}
  <2>1. call \in Call
    BY DEF IInv, TypeOK
  <2>2. call.need <= Needed(call.size)
    BY DEF IInv, CallSound
  <2>3. call.need \in Nat /\ call.size \in Sizes \cup {0} /\ call.payload \in Payloads \cup {NoPayload}
    BY <2>1 DEF Call
  <2>4. call.size \in Nat
    BY <2>3, SizesNat, Zenon
  <2> QED BY <2>2, <2>3, <2>4
<1>2. Needed(call.size) - call.need \in Nat /\ PartSize(call.size, call.need) \in 0 .. ClusterSize
  <2>1. Needed(call.size) \in Nat /\ call.size % ClusterSize \in 0 .. ClusterSize
    BY <1>1, NeededType
  <2> HIDE DEF Needed
  <2> QED BY <1>1, <2>1, SizeAssumption DEF PartSize
<1> DEFINE b == DataBlock(call.payload, Needed(call.size) - call.need,
                          PartSize(call.size, call.need))
<1>3. b \in Block /\ b.tab = ZeroTable
  BY <1>1, <1>2, DataBlockType
<1>4. disk \in [DataCluster -> Block]
  BY DEF IInv, TypeOK
<1>5. disk' = [disk EXCEPT ![c] = b]
  OBVIOUS
<1> HIDE DEF b
<1> QED BY <1>3, <1>4, <1>5, DataWrite

LEMMA WriteNextPreserves == ASSUME IInv, WriteNext PROVE IInv'
<1>1. PICK c \in DataCluster :
         /\ IsFirst(FreeAfter(cluster_map, call.cur), c)
         /\ cluster_map' = [cluster_map EXCEPT ![call.cur] = c,
                                               ![c] = FAT32_FAT_END_OF_FILE]
         /\ disk' = [disk EXCEPT ![c] =
                        DataBlock(call.payload, Needed(call.size) - call.need,
                                  PartSize(call.size, call.need))]
         /\ call' = [call EXCEPT !.cur = c, !.need = @ - 1]
  BY DEF WriteNext
<1>2. /\ pc = "fill" /\ call.need > 0
      /\ UNCHANGED <<signed, diskFat, dir_table_buf, pc, ret>>
  BY DEF WriteNext
<1>3. /\ c \in FileCluster /\ ~ ValidDir(disk[c].tab) /\ c # call.parent /\ c # call.cur
      /\ cluster_map[c] = FAT32_FAT_EMPTY_ENTRY
  BY <1>1, <1>2, NextIsFree
<1>4. /\ call.need \in Nat /\ call.size \in Nat /\ call.need <= Needed(call.size)
      /\ call.payload \in Payloads \cup {NoPayload} /\ call.cur \in FileCluster
      /\ call \in Call /\ ~ ValidDir(disk[call.cur].tab)
  <2>1. call \in Call
    BY DEF IInv, TypeOK
  <2>2. call.need <= Needed(call.size) /\ call.cur \in FileCluster /\ ~ ValidDir(disk[call.cur].tab)
    BY <1>2 DEF IInv, CallSound
  <2>3. call.need \in Nat /\ call.size \in Sizes \cup {0} /\ call.payload \in Payloads \cup {NoPayload}
    BY <2>1 DEF Call
  <2>4. call.size \in Nat
    BY <2>3, SizesNat, Zenon
  <2> QED BY <2>1, <2>2, <2>3, <2>4
<1>6. Placed(disk, c, ZeroTable, disk')
  BY <1>1, <1>2, WriteNextPlaces
<1>7. /\ call' \in Call /\ call'.cur = c /\ call'.need = call.need - 1
      /\ call'.parent = call.parent /\ call'.name = call.name /\ call'.row = call.row
      /\ call'.start = call.start /\ call'.size = call.size
  <2>1. call' = [call EXCEPT !.cur = c, !.need = call.need - 1]
    BY <1>1
  <2>2. call.need - 1 \in Nat
    BY <1>2, <1>4
  <2>3. call' \in Call
    BY <1>4, <2>1, <2>2, Constants DEF Call
  <2>4. call'.cur = c /\ call'.need = call.need - 1
    BY <1>4, <2>1 DEF Call
  <2>5. /\ call'.parent = call.parent /\ call'.name = call.name /\ call'.row = call.row
        /\ call'.start = call.start /\ call'.size = call.size
    BY <1>4, <2>1 DEF Call
  <2> QED BY <2>3, <2>4, <2>5
<1>8. /\ cluster_map' \in [Cluster -> 0 .. NCluster + 1] /\ LinksOffRoot(cluster_map')
      /\ Marked(cluster_map) => Marked(cluster_map')
      /\ \A x \in Cluster : x \notin {c, call.cur} => cluster_map'[x] = cluster_map[x]
  <2>1. cluster_map' = [cluster_map EXCEPT ![call.cur] = c, ![c] = FAT32_FAT_END_OF_FILE]
    BY <1>1
  <2> QED BY <1>2, <1>3, <2>1, WriteNextMap
<1>9. TypeOK'
  BY <1>2, <1>6, <1>7, <1>8 DEF IInv, TypeOK, Placed
<1>10. RowsOffRoot' /\ NoStrayRows' /\ NamesUnique'
  BY <1>6, OneTable, ZeroTableFits DEF Placed
<1>11. CacheSaved' /\ Unformatted'
  BY <1>2 DEF IInv, CacheSaved, Unformatted, Saved
<1>12. DirsMarked'
  BY <1>2, <1>3, <1>4, <1>6, <1>8, Constants, BlankTypes DEF IInv, DirsMarked, Loaded,
     Placed, FileCluster
<1>13. CallSound'
  <2>1. call'.need <= Needed(call'.size)
    BY <1>4, <1>7, NeededType
  <2> HIDE DEF Needed
  <2> QED BY <1>2, <1>3, <1>4, <1>6, <1>7, <2>1, BlankTypes DEF IInv, CallSound, Placed
<1>14. LinksOffRoot(diskFat)' /\ LinksOffRoot(cluster_map)'
  BY <1>2, <1>8 DEF IInv, LinksOffRoot
<1> QED BY <1>9, <1>10, <1>11, <1>12, <1>13, <1>14 DEF IInv

LEMMA FillOverrunPreserves == ASSUME IInv, FillOverrun PROVE IInv'
<1>1. TypeOK'
  BY DEF IInv, TypeOK, FillOverrun, durable, PcValues, Lost
<1> QED BY <1>1, QuietPreserves DEF FillOverrun, durable, Loaded

LEMMA WriteFatPreserves == ASSUME IInv, WriteFat PROVE IInv'
<1>1. /\ pc = "fill" /\ pc' = "writeRow" /\ diskFat' = cluster_map
      /\ UNCHANGED <<signed, disk, cluster_map, dir_table_buf, call, ret>>
  BY DEF WriteFat
<1>2. TypeOK'
  BY <1>1 DEF IInv, TypeOK, PcValues, Lost
<1>3. RowsOffRoot' /\ NoStrayRows' /\ NamesUnique' /\ LinksOffRoot(diskFat)' /\ LinksOffRoot(cluster_map)'
  BY <1>1 DEF IInv, RowsOffRoot, NoStrayRows, NamesUnique, Live, EntryOf, LinksOffRoot
<1>4. CacheSaved' /\ Unformatted' /\ CallSound'
  BY <1>1 DEF IInv, CacheSaved, Unformatted, CallSound
<1>5. DirsMarked'
  BY <1>1 DEF IInv, DirsMarked, Loaded
<1> QED BY <1>2, <1>3, <1>4, <1>5 DEF IInv

\* Entry by entry, a torn FAT is the new one or the old one.
LEMMA TornFat ==
    ASSUME NEW old \in [Cluster -> 0 .. NCluster + 1],
           NEW new \in [Cluster -> 0 .. NCluster + 1], NEW k,
           NEW f, f = Torn(old, new, k, SectorEntries)
    PROVE  /\ f \in [Cluster -> 0 .. NCluster + 1]
           /\ \A x \in Cluster : f[x] \in {new[x], old[x]}
<1>1. f = [x \in Cluster |-> IF x \div SectorEntries < k THEN new[x] ELSE old[x]]
  BY DEF Torn
<1> QED BY <1>1

LEMMA FatTornPreserves == ASSUME IInv, FatTorn PROVE IInv'
<1>1. /\ pc \in {"fill", "rmLoop"} /\ PowerOff /\ UNCHANGED <<signed, disk>>
      /\ pc' = "off" /\ cluster_map' = NoFat
  BY DEF FatTorn, PowerOff
<1>2. /\ diskFat' \in [Cluster -> 0 .. NCluster + 1]
      /\ \A x \in Cluster : diskFat'[x] \in {diskFat[x], cluster_map[x]}
  <2>1. PICK k \in Cluster : diskFat' = Torn(diskFat, cluster_map, k, SectorEntries)
    BY DEF FatTorn
  <2>2. diskFat \in [Cluster -> 0 .. NCluster + 1] /\ cluster_map \in [Cluster -> 0 .. NCluster + 1]
    BY DEF IInv, TypeOK
  <2> QED BY <2>1, <2>2, TornFat
<1>3. TypeOK'
  BY <1>1, <1>2, BlankTypes DEF IInv, TypeOK, PcValues, Lost, PowerOff
<1>4. RowsOffRoot' /\ NoStrayRows' /\ NamesUnique'
  BY <1>1 DEF IInv, RowsOffRoot, NoStrayRows, NamesUnique, Live, EntryOf
<1>5. CacheSaved' /\ Unformatted' /\ CallSound'
  BY <1>1 DEF IInv, CacheSaved, Saved, Unformatted, CallSound
<1>6. DirsMarked'
  BY <1>1, <1>2, Constants DEF IInv, DirsMarked, Loaded, Marked
<1>7. LinksOffRoot(NoFat)
  BY Constants DEF NoFat, LinksOffRoot, FAT32_FAT_EMPTY_ENTRY, ROOT_CLUSTER_NUMBER
<1>8. LinksOffRoot(diskFat)' /\ LinksOffRoot(cluster_map)'
  BY <1>1, <1>2, <1>7, Constants DEF IInv, LinksOffRoot
<1> QED BY <1>3, <1>4, <1>5, <1>6, <1>8 DEF IInv

LEMMA WriteRowPreserves == ASSUME IInv, WriteRow PROVE IInv'
<1>1. /\ call.parent \in DataCluster /\ ValidDir(disk[call.parent].tab)
      /\ call.row \in Row /\ call.row >= 2 /\ call.start \in FileCluster
      /\ dir_table_buf = disk[call.parent].tab
      /\ MatchFrom(dir_table_buf, call.name, 2) = {}
      /\ call \in Call /\ signed /\ cluster_map = diskFat
  BY DEF IInv, CallSound, WriteRow, TypeOK, Call, Unformatted, CacheSaved, Saved
<1> DEFINE e == FileEntry(call.name, call.start, call.size)
<1>2. e \in Entry /\ e.cluster = call.start /\ e.name = call.name
  BY <1>1 DEF FileEntry, Entry, Call
<1> DEFINE t == [disk[call.parent].tab EXCEPT ![call.row] = e]
<1>3. disk' = [disk EXCEPT ![call.parent] = TableBlock(t)]
  BY <1>1 DEF WriteRow
<1>4. UNCHANGED <<signed, diskFat, cluster_map>> /\ Return(0) /\ pc' = "idle"
  BY DEF WriteRow, Return
<1> HIDE DEF e
<1>5. /\ disk' \in [DataCluster -> Block]
      /\ \A x \in DataCluster : ValidDir(disk[x].tab)' <=> ValidDir(disk[x].tab)
      /\ RowsOffRoot' /\ NoStrayRows' /\ NamesUnique'
  BY <1>1, <1>2, <1>3, RowAdded
<1>6. TypeOK'
  BY <1>4, <1>5, BlankTypes DEF IInv, TypeOK, PcValues, Lost, Return
<1>7. CacheSaved' /\ Unformatted' /\ CallSound'
  BY <1>1, <1>4 DEF CacheSaved, Unformatted, CallSound
<1>8. DirsMarked'
  BY <1>1, <1>4, <1>5, Constants DEF IInv, DirsMarked, Loaded
<1>9. LinksOffRoot(diskFat)' /\ LinksOffRoot(cluster_map)'
  BY <1>4 DEF IInv, LinksOffRoot
<1> QED BY <1>5, <1>6, <1>7, <1>8, <1>9 DEF IInv

\* A row of contents is taken out of a directory.
LEMMA RowErased ==
    ASSUME IInv, NEW d \in DataCluster, ValidDir(disk[d].tab),
           NEW r \in Row, r >= 2, NEW e \in Entry, ~ e.used, ~ e.sub,
           e.cluster \in FileCluster \cup {0},
           NEW t, t = [disk[d].tab EXCEPT ![r] = e],
           disk' = [disk EXCEPT ![d] = TableBlock(t)]
    PROVE  /\ t \in Table /\ disk' \in [DataCluster -> Block]
           /\ disk'[d].tab = t /\ \A x \in DataCluster : x # d => disk'[x] = disk[x]
           /\ \A x \in DataCluster : ValidDir(disk[x].tab)' <=> ValidDir(disk[x].tab)
           /\ \A x \in DataCluster : TargetEmpty(disk[x].tab) => TargetEmpty(disk[x].tab)'
           /\ RowsOffRoot' /\ NoStrayRows' /\ NamesUnique'
<1>1. disk[d].tab \in Table
  BY DEF IInv, TypeOK, Block
<1>2. /\ t \in Table /\ t[r] = e
      /\ \A x \in Row : x # r => t[x] = disk[d].tab[x]
  BY <1>1 DEF Table
<1>3. /\ disk' \in [DataCluster -> Block]
      /\ disk'[d].tab = t /\ \A x \in DataCluster : x # d => disk'[x] = disk[x]
  BY <1>2, TableWrite DEF IInv, TypeOK, Placed
<1>4. ValidDir(t) /\ (TargetEmpty(disk[d].tab) => TargetEmpty(t))
  BY <1>2, Constants DEF ValidDir, TargetEmpty
<1>5. RowsFit(t)
  <2>1. RowsFit(disk[d].tab)
    BY DiskRowsFit
  <2> QED BY <1>2, <1>4, <2>1 DEF RowsFit
<1>6. RowsOffRoot' /\ NoStrayRows' /\ NamesUnique'
  BY <1>3, <1>5, OneTable
<1> QED BY <1>2, <1>3, <1>4, <1>6

\* What delete has found out when it starts to change things.
LEMMA DeleteBegins ==
    ASSUME IInv, pc = "idle", NEW d \in DataCluster, NEW n \in Names,
           DeleteCode(disk[d].tab, n) = 0, NEW r \in DeleteRow(disk[d].tab, n)
    PROVE  /\ ValidDir(disk[d].tab) /\ r \in Row /\ r >= 2
           /\ disk[d].tab[r] \in Entry /\ disk[d].tab[r].name = n
           /\ disk[d].tab[r].cluster \in FileCluster \cup {0}
           /\ disk[d].tab[r].sub =>
                 /\ disk[d].tab[r].cluster \in FileCluster
                 /\ TargetEmpty(disk[disk[d].tab[r].cluster].tab)
<1>1. ValidDir(disk[d].tab) /\ ~ NotEmpty(disk[d].tab, n)
  BY DEF DeleteCode
<1>2. r \in Row /\ r >= 2 /\ disk[d].tab[r].name = n
  BY DEF DeleteRow, IsFirst, MatchFrom
<1>3. disk[d].tab[r] \in Entry
  BY <1>2 DEF IInv, TypeOK, Block, Table
<1>4. /\ disk[d].tab[r].cluster \in FileCluster \cup {0}
      /\ disk[d].tab[r].sub => disk[d].tab[r].cluster \in FileCluster
  BY <1>2 DEF IInv, RowsOffRoot
<1>5. disk[d].tab[r].sub => TargetEmpty(disk[disk[d].tab[r].cluster].tab)
  BY <1>1 DEF NotEmpty
<1> QED BY <1>1, <1>2, <1>3, <1>4, <1>5

LEMMA ErasedType ==
    ASSUME NEW e \in Entry
    PROVE  /\ ErasedDir(e) \in Entry /\ ErasedDir(e).cluster = e.cluster
           /\ ErasedDir(e).name = ZeroName
           /\ ~ ErasedDir(e).used /\ ~ ErasedDir(e).sub
<1>1. ErasedDir(e) \in Entry
  BY DEF ErasedDir, Entry, AllNames
<1>2. ErasedDir(e).cluster = e.cluster /\ ErasedDir(e).name = ZeroName
  BY DEF ErasedDir, Entry
<1>3. ~ ErasedDir(e).used
  BY DEF ErasedDir, Entry
<1>4. ~ ErasedDir(e).sub
  BY DEF ErasedDir, Entry
<1> QED BY <1>1, <1>2, <1>3, <1>4

LEMMA RmdirParentPreserves ==
    ASSUME IInv, NEW d \in DataCluster, NEW n \in Names, RmdirParent(d, n)
    PROVE  IInv'
<1>1. PICK r \in DeleteRow(disk[d].tab, n) :
         /\ disk[d].tab[r].sub
         /\ call' = [NoCall EXCEPT !.parent = d, !.row = r, !.start = disk[d].tab[r].cluster]
         /\ dir_table_buf' = [disk[d].tab EXCEPT ![r] = ErasedDir(disk[d].tab[r])]
  BY DEF RmdirParent
<1>2. /\ pc = "idle" /\ DeleteCode(disk[d].tab, n) = 0 /\ pc' = "rmdirTable" /\ ret' = 0
      /\ disk' = [disk EXCEPT ![d] = TableBlock(dir_table_buf')]
      /\ UNCHANGED <<signed, diskFat, cluster_map>>
  BY DEF RmdirParent
<1>3. /\ ValidDir(disk[d].tab) /\ r \in Row /\ r >= 2 /\ disk[d].tab[r] \in Entry
      /\ disk[d].tab[r].cluster \in FileCluster
      /\ TargetEmpty(disk[disk[d].tab[r].cluster].tab)
  BY <1>1, <1>2, DeleteBegins
<1>4. /\ dir_table_buf' \in Table /\ disk' \in [DataCluster -> Block]
      /\ \A x \in DataCluster : ValidDir(disk[x].tab)' <=> ValidDir(disk[x].tab)
      /\ \A x \in DataCluster : TargetEmpty(disk[x].tab) => TargetEmpty(disk[x].tab)'
      /\ RowsOffRoot' /\ NoStrayRows' /\ NamesUnique'
  <2> DEFINE e == ErasedDir(disk[d].tab[r])
  <2>1. e \in Entry /\ ~ e.used /\ ~ e.sub /\ e.cluster \in FileCluster \cup {0}
    BY <1>3, ErasedType
  <2>2. /\ dir_table_buf' = [disk[d].tab EXCEPT ![r] = e]
        /\ disk' = [disk EXCEPT ![d] = TableBlock(dir_table_buf')]
    BY <1>1, <1>2
  <2> HIDE DEF e
  <2> QED BY <1>3, <2>1, <2>2, RowErased
<1>5. call' \in Call /\ call'.start = disk[d].tab[r].cluster
  <2>1. call' = [parent |-> d, name |-> ZeroName, size |-> 0, payload |-> NoPayload, row |-> r,
                 start |-> disk[d].tab[r].cluster, cur |-> 0, nxt |-> 0, need |-> 0]
    BY <1>1 DEF NoCall
  <2>2. disk[d].tab[r].cluster \in Cluster
    BY <1>3, Constants DEF FileCluster
  <2> QED BY <1>3, <2>1, <2>2, Constants DEF Call, AllNames
<1>6. TypeOK'
  BY <1>2, <1>4, <1>5 DEF IInv, TypeOK, PcValues, Lost
<1>7. CacheSaved' /\ Unformatted'
  BY <1>2 DEF IInv, CacheSaved, Saved, Unformatted
<1>8. DirsMarked'
  BY <1>2, <1>4, Constants DEF IInv, DirsMarked, Loaded
<1>9. CallSound'
  BY <1>2, <1>3, <1>4, <1>5 DEF CallSound, FileCluster
<1>10. LinksOffRoot(diskFat)' /\ LinksOffRoot(cluster_map)'
  BY <1>2 DEF IInv, LinksOffRoot
<1> QED BY <1>4, <1>6, <1>7, <1>8, <1>9, <1>10 DEF IInv

\* The header of a removed folder is erased, the rest of the block stays.
LEMMA RmdirTableEffect ==
    ASSUME IInv, RmdirTable, NEW t, t = disk[call.start].tab
    PROVE  /\ Placed(disk, call.start, disk'[call.start].tab, disk')
           /\ disk'[call.start].tab \in Table
           /\ ~ ValidDir(disk'[call.start].tab)
           /\ \A r \in Row : r >= 2 => disk'[call.start].tab[r] = t[r]
<1>1. call.start \in DataCluster
  BY DEF IInv, CallSound, RmdirTable, FileCluster
<1>2. disk \in [DataCluster -> Block] /\ t \in Table
  BY <1>1 DEF IInv, TypeOK, Block
<1> DEFINE u == [t EXCEPT ![0] = ErasedDir(t[0]), ![1] = ErasedDir(t[1])]
<1>3. disk' = [disk EXCEPT ![call.start].tab = u]
  BY DEF RmdirTable
<1>4. ErasedDir(t[0]) \in Entry /\ ErasedDir(t[1]) \in Entry /\ ~ ErasedDir(t[0]).used
  BY <1>2, ErasedType, Constants DEF Table
<1>5. u \in Table /\ u[0] = ErasedDir(t[0]) /\ \A r \in Row : r >= 2 => u[r] = t[r]
  <2> HIDE DEF ErasedDir
  <2> QED BY <1>2, <1>4, Constants DEF Table
<1>6. ~ ValidDir(u)
  BY <1>4, <1>5 DEF ValidDir
<1> HIDE DEF u
<1>7. /\ disk' \in [DataCluster -> Block] /\ disk'[call.start].tab = u
      /\ \A x \in DataCluster : x # call.start => disk'[x] = disk[x]
  BY <1>1, <1>2, <1>3, <1>5 DEF Block
<1> QED BY <1>5, <1>6, <1>7 DEF Placed

LEMMA RmdirTablePreserves == ASSUME IInv, RmdirTable PROVE IInv'
<1>1. /\ pc = "rmdirTable" /\ pc' = "rmdirFat"
      /\ UNCHANGED <<signed, diskFat, cluster_map, dir_table_buf, call, ret>>
  BY DEF RmdirTable
<1>2. /\ call.start \in FileCluster /\ call.start \in DataCluster
      /\ TargetEmpty(disk[call.start].tab)
  BY <1>1 DEF IInv, CallSound, FileCluster
<1>3. /\ Placed(disk, call.start, disk'[call.start].tab, disk')
      /\ ~ ValidDir(disk'[call.start].tab)
      /\ \A r \in Row : r >= 2 => disk'[call.start].tab[r] = disk[call.start].tab[r]
  BY RmdirTableEffect
<1>4. TypeOK'
  BY <1>1, <1>3 DEF IInv, TypeOK, PcValues, Lost, Placed
<1>5. RowsFit(disk'[call.start].tab)
  BY <1>2, <1>3 DEF RowsFit, TargetEmpty, IInv, RowsOffRoot
<1>6. RowsOffRoot' /\ NoStrayRows' /\ NamesUnique'
  <2>1. RowsFit(disk[call.start].tab)'
    BY <1>1, <1>5
  <2> QED BY <1>2, <1>3, <1>1, <1>5, OneTable DEF Placed
<1>7. CacheSaved' /\ Unformatted'
  BY <1>1 DEF IInv, CacheSaved, Saved, Unformatted
<1>8. DirsMarked'
  BY <1>1, <1>2, <1>3, Constants DEF IInv, DirsMarked, Loaded, Placed, FileCluster
<1>9. CallSound'
  BY <1>1, <1>2, <1>3 DEF CallSound
<1>10. LinksOffRoot(diskFat)' /\ LinksOffRoot(cluster_map)'
  BY <1>1 DEF IInv, LinksOffRoot
<1> QED BY <1>4, <1>6, <1>7, <1>8, <1>9, <1>10 DEF IInv

LEMMA RmdirFatPreserves == ASSUME IInv, RmdirFat PROVE IInv'
<1>1. /\ pc = "rmdirFat" /\ pc' = "idle" /\ diskFat' = cluster_map' /\ Return(0)
      /\ UNCHANGED <<signed, disk>> /\ cluster_map = diskFat
      /\ cluster_map' = [cluster_map EXCEPT ![call.start] = FAT32_FAT_EMPTY_ENTRY]
  BY DEF RmdirFat, Return, IInv, CacheSaved, Saved
<1>2. call.start \in FileCluster /\ call.start \in DataCluster /\ ~ ValidDir(disk[call.start].tab)
  BY <1>1 DEF IInv, CallSound, FileCluster
<1>3. Stored(cluster_map, call.start, FAT32_FAT_EMPTY_ENTRY, cluster_map')
  <2>1. cluster_map \in [Cluster -> 0 .. NCluster + 1] /\ LinksOffRoot(cluster_map)
    BY DEF IInv, TypeOK
  <2> QED BY <1>1, <1>2, <2>1, FatEntry, Values
<1>4. TypeOK'
  BY <1>1, <1>3, BlankTypes DEF IInv, TypeOK, PcValues, Lost, Stored, Return
<1>5. RowsOffRoot' /\ NoStrayRows' /\ NamesUnique'
  BY <1>1 DEF IInv, RowsOffRoot, NoStrayRows, NamesUnique, Live, EntryOf
<1>6. CacheSaved' /\ Unformatted' /\ CallSound'
  BY <1>1 DEF IInv, CacheSaved, Unformatted, CallSound
<1>7. DirsMarked'
  BY <1>1, <1>2, <1>3, Constants DEF IInv, DirsMarked, Loaded, Stored
<1>8. LinksOffRoot(diskFat)' /\ LinksOffRoot(cluster_map)'
  BY <1>1, <1>3 DEF LinksOffRoot, Stored
<1> QED BY <1>4, <1>5, <1>6, <1>7, <1>8 DEF IInv

LEMMA RmRowPreserves ==
    ASSUME IInv, NEW d \in DataCluster, NEW n \in Names, RmRow(d, n)
    PROVE  IInv'
<1>1. PICK r \in DeleteRow(disk[d].tab, n) :
         /\ ~ disk[d].tab[r].sub
         /\ call' = [NoCall EXCEPT !.parent = d, !.row = r, !.nxt = disk[d].tab[r].cluster]
         /\ dir_table_buf' = [disk[d].tab EXCEPT ![r] = ZeroEntry]
  BY DEF RmRow
<1>2. /\ pc = "idle" /\ DeleteCode(disk[d].tab, n) = 0 /\ pc' = "rmFirst" /\ ret' = 0
      /\ disk' = [disk EXCEPT ![d] = TableBlock(dir_table_buf')]
      /\ UNCHANGED <<signed, diskFat, cluster_map>>
  BY DEF RmRow
<1>3. /\ ValidDir(disk[d].tab) /\ r \in Row /\ r >= 2
      /\ disk[d].tab[r].cluster \in FileCluster \cup {0}
  BY <1>1, <1>2, DeleteBegins
<1>4. /\ dir_table_buf' \in Table /\ disk' \in [DataCluster -> Block]
      /\ \A x \in DataCluster : ValidDir(disk[x].tab)' <=> ValidDir(disk[x].tab)
      /\ RowsOffRoot' /\ NoStrayRows' /\ NamesUnique'
  <2>1. /\ ZeroEntry \in Entry /\ ~ ZeroEntry.used /\ ~ ZeroEntry.sub
        /\ ZeroEntry.cluster \in FileCluster \cup {0}
    BY BlankTypes DEF ZeroEntry
  <2>2. /\ dir_table_buf' = [disk[d].tab EXCEPT ![r] = ZeroEntry]
        /\ disk' = [disk EXCEPT ![d] = TableBlock(dir_table_buf')]
    BY <1>1, <1>2
  <2> QED BY <1>3, <2>1, <2>2, RowErased
<1>5. call' \in Call /\ call'.nxt \notin {1, ROOT_CLUSTER_NUMBER}
  <2>1. call' = [parent |-> d, name |-> ZeroName, size |-> 0, payload |-> NoPayload, row |-> r,
                 start |-> 0, cur |-> 0, nxt |-> disk[d].tab[r].cluster, need |-> 0]
    BY <1>1 DEF NoCall
  <2>2. disk[d].tab[r].cluster \in Nat \ {1, ROOT_CLUSTER_NUMBER}
    BY <1>3, Constants DEF FileCluster, DataCluster, ROOT_CLUSTER_NUMBER
  <2> QED BY <1>3, <2>1, <2>2, Constants DEF Call, AllNames
<1>6. TypeOK'
  BY <1>2, <1>4, <1>5 DEF IInv, TypeOK, PcValues, Lost
<1>7. CacheSaved' /\ Unformatted'
  BY <1>2 DEF IInv, CacheSaved, Saved, Unformatted
<1>8. DirsMarked'
  BY <1>2, <1>4, Constants DEF IInv, DirsMarked, Loaded
<1>9. CallSound'
  BY <1>2, <1>5 DEF CallSound
<1>10. LinksOffRoot(diskFat)' /\ LinksOffRoot(cluster_map)'
  BY <1>2 DEF IInv, LinksOffRoot
<1> QED BY <1>4, <1>6, <1>7, <1>8, <1>9, <1>10 DEF IInv

LEMMA RmClusterPreserves == ASSUME IInv, RmCluster PROVE IInv'
<1>1. /\ pc \in {"rmFirst", "rmLoop"} /\ pc' = "rmLoop" /\ call.nxt \in DataCluster
      /\ call' = [call EXCEPT !.cur = call.nxt, !.nxt = cluster_map[call.nxt]]
      /\ cluster_map' = [cluster_map EXCEPT ![call.nxt] = FAT32_FAT_EMPTY_ENTRY]
      /\ disk' = [disk EXCEPT ![call.nxt] = ZeroBlock]
      /\ UNCHANGED <<signed, diskFat, dir_table_buf, ret>>
  BY DEF RmCluster
<1>2. call.nxt \in FileCluster
  BY <1>1 DEF IInv, CallSound, FileCluster
<1>3. /\ cluster_map \in [Cluster -> 0 .. NCluster + 1] /\ LinksOffRoot(cluster_map)
      /\ call \in Call /\ disk \in [DataCluster -> Block]
  BY DEF IInv, TypeOK
<1>4. Stored(cluster_map, call.nxt, FAT32_FAT_EMPTY_ENTRY, cluster_map')
  BY <1>1, <1>3, FatEntry, Values
<1>5. Placed(disk, call.nxt, ZeroTable, disk')
  <2>1. ZeroBlock \in Block /\ ZeroBlock.tab = ZeroTable
    BY BlankTypes
  <2> HIDE DEF ZeroBlock
  <2> QED BY <1>1, <1>3, <2>1, DataWrite
<1>6. cluster_map[call.nxt] \in Nat /\ cluster_map[call.nxt] \notin {1, ROOT_CLUSTER_NUMBER}
  BY <1>1, <1>3, SizeAssumption, Constants DEF LinksOffRoot
<1>7. call' \in Call /\ call'.cur = call.nxt /\ call'.nxt = cluster_map[call.nxt]
  <2> DEFINE v == cluster_map[call.nxt]
  <2>1. call.nxt \in Cluster /\ v \in Nat /\ call' = [call EXCEPT !.cur = call.nxt, !.nxt = v]
    BY <1>1, <1>6, Constants
  <2> HIDE DEF v
  <2>2. call' \in Call
    BY <1>3, <2>1 DEF Call
  <2>3. call'.cur = call.nxt /\ call'.nxt = v
    BY <1>3, <2>1 DEF Call
  <2> QED BY <2>2, <2>3 DEF v
<1>8. TypeOK'
  BY <1>1, <1>4, <1>5, <1>7 DEF IInv, TypeOK, PcValues, Lost, Placed, Stored
<1>9. RowsOffRoot' /\ NoStrayRows' /\ NamesUnique'
  BY <1>1, <1>5, OneTable, ZeroTableFits DEF Placed
<1>10. CacheSaved' /\ Unformatted'
  BY <1>1 DEF IInv, CacheSaved, Unformatted, Saved
<1>11. DirsMarked'
  BY <1>1, <1>2, <1>4, <1>5, Constants, BlankTypes DEF IInv, DirsMarked, Loaded,
     Placed, Stored, FileCluster
<1>12. CallSound'
  BY <1>1, <1>2, <1>6, <1>7 DEF CallSound
<1>13. LinksOffRoot(diskFat)' /\ LinksOffRoot(cluster_map)'
  BY <1>1, <1>4 DEF IInv, LinksOffRoot, Stored
<1> QED BY <1>8, <1>9, <1>10, <1>11, <1>12, <1>13 DEF IInv

LEMMA RmRunawayPreserves == ASSUME IInv, RmRunaway PROVE IInv'
<1>1. signed' \in BOOLEAN
  BY DEF RmRunaway
<1>2. TypeOK'
  BY <1>1 DEF IInv, TypeOK, RmRunaway, PcValues, Lost
<1> QED BY <1>2, QuietPreserves DEF RmRunaway, Loaded

LEMMA RmFatPreserves == ASSUME IInv, RmFat PROVE IInv'
<1>1. /\ pc = "rmLoop" /\ pc' = "rmLast" /\ diskFat' = cluster_map
      /\ UNCHANGED <<signed, disk, cluster_map, dir_table_buf, call, ret>>
  BY DEF RmFat
<1>2. TypeOK'
  BY <1>1 DEF IInv, TypeOK, PcValues, Lost
<1>3. RowsOffRoot' /\ NoStrayRows' /\ NamesUnique' /\ LinksOffRoot(diskFat)' /\ LinksOffRoot(cluster_map)'
  BY <1>1 DEF IInv, RowsOffRoot, NoStrayRows, NamesUnique, Live, EntryOf, LinksOffRoot
<1>4. CacheSaved' /\ Unformatted' /\ CallSound'
  BY <1>1 DEF IInv, CacheSaved, Unformatted, CallSound
<1>5. DirsMarked'
  BY <1>1 DEF IInv, DirsMarked, Loaded
<1> QED BY <1>2, <1>3, <1>4, <1>5 DEF IInv

LEMMA RmLastPreserves == ASSUME IInv, RmLast PROVE IInv'
<1>1. /\ pc = "rmLast" /\ pc' = "idle" /\ Return(0)
      /\ disk' = [disk EXCEPT ![call.cur] = ZeroBlock]
      /\ UNCHANGED <<signed, diskFat, cluster_map>>
  BY DEF RmLast, Return
<1>2. call.cur \in FileCluster /\ call.cur \in DataCluster /\ cluster_map = diskFat
  BY <1>1 DEF IInv, CallSound, FileCluster, CacheSaved, Saved
<1>3. Placed(disk, call.cur, ZeroTable, disk')
  <2>1. ZeroBlock \in Block /\ ZeroBlock.tab = ZeroTable /\ disk \in [DataCluster -> Block]
    BY BlankTypes DEF IInv, TypeOK
  <2> HIDE DEF ZeroBlock
  <2> QED BY <1>1, <1>2, <2>1, DataWrite
<1>4. TypeOK'
  BY <1>1, <1>3, BlankTypes DEF IInv, TypeOK, PcValues, Lost, Placed, Return
<1>5. RowsOffRoot' /\ NoStrayRows' /\ NamesUnique'
  BY <1>2, <1>3, OneTable, ZeroTableFits DEF Placed
<1>6. CacheSaved' /\ Unformatted' /\ CallSound'
  BY <1>1, <1>2 DEF IInv, CacheSaved, Unformatted, CallSound
<1>7. DirsMarked'
  BY <1>1, <1>2, <1>3, Constants, BlankTypes DEF IInv, DirsMarked, Loaded, Placed, FileCluster
<1>8. LinksOffRoot(diskFat)' /\ LinksOffRoot(cluster_map)'
  BY <1>1 DEF IInv, LinksOffRoot
<1> QED BY <1>4, <1>5, <1>6, <1>7, <1>8 DEF IInv

LEMMA StutterPreserves == ASSUME IInv, UNCHANGED vars PROVE IInv'
<1>1. TypeOK'
  BY DEF IInv, TypeOK, vars, durable
<1>2. CacheSaved' /\ DirsMarked' /\ Unformatted' /\ RowsOffRoot' /\ NoStrayRows' /\ NamesUnique'
  BY DEF IInv, CacheSaved, DirsMarked, Unformatted, RowsOffRoot, NoStrayRows, NamesUnique,
     Loaded, Live, EntryOf, vars, durable
<1>3. LinksOffRoot(diskFat)' /\ LinksOffRoot(cluster_map)'
  BY DEF IInv, LinksOffRoot, vars, durable
<1>4. CallSound'
  BY DEF IInv, CallSound, vars, durable
<1> QED BY <1>1, <1>2, <1>3, <1>4 DEF IInv

LEMMA RequestPreserves == ASSUME IInv, Request PROVE IInv'
<1>1. PICK d \in DataCluster :
        \/ \E n \in AllNames : ReadDirectory(d, n)
        \/ \E n \in Names :
              \/ \E s \in Sizes : Read(d, n, s) \/ ReadRunaway(d, n, s)
              \/ WriteReject(d, n) \/ WriteOverrun(d, n) \/ DeleteReject(d, n)
        \/ \E n \in Names : 0 \in Sizes /\ MkdirFat(d, n)
        \/ \E n \in Names : \E s \in Sizes \ {0}, p \in Payloads : WriteFirst(d, n, s, p)
        \/ \E n \in Names : RmdirParent(d, n) \/ RmRow(d, n)
  BY Zenon DEF Request
<1>2. CASE \/ \E n \in AllNames : ReadDirectory(d, n)
           \/ \E n \in Names :
                 \/ \E s \in Sizes : Read(d, n, s) \/ ReadRunaway(d, n, s)
                 \/ WriteReject(d, n) \/ WriteOverrun(d, n) \/ DeleteReject(d, n)
  BY <1>2, ReadPreserves
<1>3. CASE \E n \in Names : 0 \in Sizes /\ MkdirFat(d, n)
  BY <1>3, MkdirFatPreserves
<1>4. CASE \E n \in Names : \E s \in Sizes \ {0}, p \in Payloads : WriteFirst(d, n, s, p)
  BY <1>4, WriteFirstPreserves
<1>5. CASE \E n \in Names : RmdirParent(d, n) \/ RmRow(d, n)
  BY <1>5, RmdirParentPreserves, RmRowPreserves
<1> QED BY <1>1, <1>2, <1>3, <1>4, <1>5

LEMMA NextPreserves == IInv /\ [Next]_vars => IInv'
<1> SUFFICES ASSUME IInv, [Next]_vars PROVE IInv'
  OBVIOUS
<1>1. CASE Continue
  BY <1>1, FormatPreserves, MkdirParentPreserves, MkdirTablePreserves, WriteNextPreserves,
     FillOverrunPreserves, WriteFatPreserves, WriteRowPreserves, RmdirTablePreserves,
     RmdirFatPreserves, RmClusterPreserves, RmRunawayPreserves, RmFatPreserves,
     RmLastPreserves DEF Continue
<1>2. CASE Failure
  BY <1>2, CrashPreserves, MkdirTablePreserves, FatTornPreserves DEF Failure
<1> QED BY <1>1, <1>2, BootPreserves, FormatPreserves, RequestPreserves, StutterPreserves
   DEF Next, Wild, Lost

-----------------------------------------------------------------------------
(* The theorems for any names *)

\* The invariant holds in every reachable state, whatever names requests carry.
THEOREM Invariance == Spec => []IInv
<1> QED BY InitHolds, NextPreserves, PTL DEF Spec

\* What lies on the disk is always a table or a piece of a file, and a link of
\* the FAT an index of the map or a mark.
THEOREM TypeCorrect == Spec => []TypeOK
<1>1. IInv => TypeOK
  BY DEF IInv
<1> QED BY <1>1, Invariance, PTL

\* No call returns with a cached FAT that differs from the one on the disk.
THEOREM CacheNeverStale == Spec => []CacheCoherent
<1>1. IInv => CacheCoherent
  BY DEF IInv, CacheSaved, Saved, CacheCoherent
<1> QED BY <1>1, Invariance, PTL

\* No sequence of writes, deletes and power failures leaves two entries of one
\* name in a directory.
THEOREM OneEntryPerName == Spec => []NamesUnique
<1>1. IInv => NamesUnique
  BY DEF IInv
<1> QED BY <1>1, Invariance, PTL

\* The boot sector, the FAT and the root are never handed out or removed while
\* some directory can be written to.
THEOREM SystemClustersKept == Spec => []Reserved
<1>1. IInv => Reserved
  BY DEF IInv, DirsMarked, Marked, Reserved
<1> QED BY <1>1, Invariance, PTL

=============================================================================
