-------------------------- MODULE Fat32EntryProofs --------------------------
(***************************************************************************)
(* Proofs that the file system never loses or mixes up what its directories *)
(* name (see Fat32ChainProofs for the invariant and for what a write to the *)
(* disk leaves sound).  Every lemma about a step assumes the invariant for   *)
(* any names before and after it (Fat32Proofs).                             *)
(***************************************************************************)
EXTENDS Fat32ChainProofs

\* What a step finds, and what Fat32Proofs shows of where it leads.
Sound == IInv /\ IInv' /\ NamedInv

\* A disk without directories holds nothing.
LEMMA NoDirectories ==
    ASSUME NEW dk, NEW f, UseIsNamed(dk), \A d \in DataCluster : ~ ValidDir(dk[d].tab)
    PROVE  DiskSound(dk, f) /\ Held(dk, f) = {}
<1>1. \A d \in DataCluster, r \in Row : ~ LiveIn(dk, d, r)
  BY DEF LiveIn
<1>2. ChainsSound(dk, f) /\ ChainsApart(dk, f) /\ DirsSound(dk, f)
  BY <1>1 DEF ChainsSound, ChainsApart, DirsSound
<1>3. HeadersSound(dk)
  BY <1>1 DEF HeadersSound
<1> QED BY <1>1, <1>2, <1>3 DEF DiskSound, Held

LEMMA NamedInit == Init => NamedInv
<1> SUFFICES ASSUME Init PROVE NamedInv
  OBVIOUS
<1>1. \A d \in DataCluster : disk[d].tab = ZeroTable
  BY BlankTypes DEF Init
<1>2. UseIsNamed(disk)
  BY <1>1, BlankTypes DEF UseIsNamed, ZeroEntry
<1>3. DiskSound(disk, diskFat)
  BY <1>1, <1>2, BlankTypes, NoDirectories
<1>4. ~ Loaded /\ CallOwns
  BY DEF Init, Loaded, CallOwns
<1> QED BY <1>3, <1>4 DEF NamedInv

\* Where the call is over, only the disk and the cached FAT matter; where the FAT
\* is saved, the cached one is the one on the disk.
LEMMA NamedSaved ==
    ASSUME IInv', DiskSound(disk', diskFat'), CallOwns',
           pc' \in Saved \cup {"off", "fmtFat", "fmtRoot"}
    PROVE  NamedInv'
<1>1. Loaded' => cluster_map' = diskFat'
  BY DEF IInv, CacheSaved, Saved, Loaded
<1>2. Loaded' => Agree(cluster_map', diskFat', Held(disk', diskFat'))
  BY <1>1 DEF Agree
<1> QED BY <1>2 DEF NamedInv

LEMMA CallOver ==
    ASSUME pc' \in {"off", "fmtFat", "fmtRoot", "idle", "wild", "spin", "overrun", "garbled"}
    PROVE  CallOwns'
BY DEF CallOwns

\* Steps that leave the disk alone and end, or break, the call.
LEMMA NamedQuiet ==
    ASSUME Sound, UNCHANGED <<diskFat, disk>>,
           pc' \in {"off", "fmtFat", "idle"} \/
              (pc' \in {"wild", "spin", "overrun", "garbled"} /\ cluster_map' = cluster_map /\ Loaded)
    PROVE  NamedInv'
<1>1. DiskSound(disk', diskFat') /\ IInv'
  BY DEF Sound, NamedInv
<1>2. CallOwns'
  BY CallOver
<1>3. CASE pc' \in {"off", "fmtFat", "idle"}
  BY <1>1, <1>2, <1>3, NamedSaved DEF Saved
<1>4. CASE cluster_map' = cluster_map /\ Loaded
  <2>1. Agree(cluster_map', diskFat', Held(disk', diskFat'))
    BY <1>4 DEF Sound, NamedInv
  <2> QED BY <1>1, <1>2, <2>1 DEF NamedInv
<1> QED BY <1>3, <1>4

LEMMA NamedFormat ==
    ASSUME Sound, FormatSignature \/ FormatFat \/ FormatRoot
    PROVE  NamedInv'
<1>1. CASE FormatSignature
  BY <1>1, NamedQuiet DEF FormatSignature
<1>2. CASE FormatFat
  <2>1. \A d \in DataCluster : ~ ValidDir(disk[d].tab)
    BY <1>2 DEF Sound, IInv, Unformatted, FormatFat
  <2>2. UseIsNamed(disk) /\ IInv'
    BY DEF Sound, NamedInv, DiskSound
  <2>3. DiskSound(disk', diskFat')
    BY <1>2, <2>1, <2>2, NoDirectories DEF FormatFat
  <2>4. pc' = "fmtRoot"
    BY <1>2 DEF FormatFat
  <2> QED BY <2>2, <2>3, <2>4, CallOver, NamedSaved
<1>3. CASE FormatRoot
  <2>1. /\ \A d \in DataCluster : ~ ValidDir(disk[d].tab)
        /\ diskFat = FreshFat /\ diskFat' = diskFat /\ pc' = "idle"
        /\ disk' = [disk EXCEPT ![ROOT_CLUSTER_NUMBER] = TableBlock(RootTable)]
    BY <1>3 DEF Sound, IInv, Unformatted, FormatRoot, Return
  <2>2. DiskSound(disk, diskFat) /\ IInv' /\ disk \in [DataCluster -> Block]
    BY DEF Sound, NamedInv, IInv, TypeOK
  <2>3. /\ RootTable \in Table /\ ValidDir(RootTable) /\ TargetEmpty(RootTable)
        /\ \A r \in Row : r >= 2 => RootTable[r] = ZeroEntry
    <3>1. RootName \in AllNames /\ ROOT_CLUSTER_NUMBER \in Cluster
      BY Constants DEF AllNames
    <3>2. RootTable = init_directory_table(RootName, ROOT_CLUSTER_NUMBER, ROOT_CLUSTER_NUMBER)
      BY DEF RootTable
    <3> QED BY <3>1, <3>2, NewTable
  <2>4. Placed(disk, ROOT_CLUSTER_NUMBER, RootTable, disk')
    BY <2>1, <2>2, <2>3, TableWrite, Constants
  <2>5. /\ ValidDir(disk'[ROOT_CLUSTER_NUMBER].tab) /\ TargetEmpty(disk'[ROOT_CLUSTER_NUMBER].tab)
        /\ \A x \in DataCluster : x # ROOT_CLUSTER_NUMBER => disk'[x] = disk[x]
        /\ \A r \in Row : r >= 2 => disk'[ROOT_CLUSTER_NUMBER].tab[r] = ZeroEntry
    BY <2>3, <2>4 DEF Placed
  <2>6. \A r \in Row : r >= 2 => (disk'[ROOT_CLUSTER_NUMBER].tab[r].used
                                    <=> disk'[ROOT_CLUSTER_NUMBER].tab[r].name # ZeroName)
    BY <2>5 DEF ZeroEntry
  <2>7. \A d \in DataCluster, r \in Row : ~ LiveIn(disk, d, r)
    BY <2>1 DEF LiveIn
  <2>8. diskFat[ROOT_CLUSTER_NUMBER] = FAT32_FAT_END_OF_FILE
    BY <2>1, FreshFatMarks
  <2>9. Opens(disk, disk', diskFat, ROOT_CLUSTER_NUMBER)
    BY <2>1, <2>5, <2>6, <2>7, <2>8, Constants DEF Opens
  <2>10. DiskSound(disk', diskFat)
    BY <2>2, <2>9, DirOpened
  <2> QED BY <2>1, <2>2, <2>10, CallOver, NamedSaved DEF Saved
<1> QED BY <1>1, <1>2, <1>3

LEMMA NamedPower ==
    ASSUME Sound, Crash \/ Boot \/ Wild \/ UNCHANGED vars
    PROVE  NamedInv'
<1>1. CASE Crash
  BY <1>1, NamedQuiet DEF Crash, PowerOff, durable, Lost
<1>2. CASE Boot
  BY <1>2, NamedQuiet DEF Boot, durable
<1>3. CASE UNCHANGED vars
  <2>1. UNCHANGED <<disk, diskFat, cluster_map, dir_table_buf, pc, call>>
    BY <1>3 DEF vars, durable
  <2>2. CallOwns'
    BY <2>1 DEF Sound, NamedInv, CallOwns, Building, Detached
  <2> QED BY <2>1, <2>2 DEF Sound, NamedInv, Loaded
<1> QED BY <1>1, <1>2, <1>3 DEF Wild, Lost

LEMMA NamedRead ==
    ASSUME Sound, NEW d \in DataCluster, NEW n,
           \/ ReadDirectory(d, n)
           \/ \E s \in Sizes : Read(d, n, s) \/ ReadRunaway(d, n, s)
           \/ WriteReject(d, n) \/ WriteOverrun(d, n) \/ DeleteReject(d, n)
    PROVE  NamedInv'
<1>1. UNCHANGED <<diskFat, disk>>
  BY DEF ReadDirectory, Read, ReadRunaway, WriteReject, WriteOverrun, DeleteReject, durable
<1>2. \/ pc' = "idle"
      \/ pc' \in {"wild", "spin", "overrun"} /\ cluster_map' = cluster_map /\ Loaded
  BY DEF ReadDirectory, Read, ReadRunaway, WriteReject, WriteOverrun, DeleteReject, Return, Loaded
<1> QED BY <1>1, <1>2, NamedQuiet

-----------------------------------------------------------------------------
(* write *)

\* A free cluster of the cached FAT is held by nothing.
LEMMA FreeNotHeld ==
    ASSUME NamedInv, Loaded, NEW c, cluster_map[c] = FAT32_FAT_EMPTY_ENTRY
    PROVE  c \notin Held(disk, diskFat)
<1>1. ASSUME c \in Held(disk, diskFat) PROVE FALSE
  <2>1. diskFat[c] = FAT32_FAT_EMPTY_ENTRY
    BY <1>1 DEF NamedInv, Agree
  <2>2. DiskSound(disk, diskFat)
    BY DEF NamedInv
  <2> QED BY <1>1, <2>1, <2>2, HeldAllocated
<1> QED BY <1>1

LEMMA NamedMkdirFat ==
    ASSUME Sound, ZeroName \notin Names,
           NEW d \in DataCluster, NEW n \in Names, MkdirFat(d, n)
    PROVE  NamedInv'
<1>1. PICK r \in Row, c \in DataCluster :
         /\ IsFirst(FreeRow(disk[d].tab), r)
         /\ IsFirst(FreeCluster(cluster_map), c)
         /\ call' = [NoCall EXCEPT !.parent = d, !.name = n, !.row = r, !.start = c]
         /\ cluster_map' = [cluster_map EXCEPT ![c] = FAT32_FAT_END_OF_FILE]
         /\ diskFat' = cluster_map'
  BY DEF MkdirFat
<1>2. /\ pc = "idle" /\ WriteCode(disk[d].tab, n) = 0 /\ pc' = "mkdirParent"
      /\ disk' = disk /\ Loaded
  BY DEF MkdirFat, Loaded
<1>3. /\ cluster_map = diskFat /\ cluster_map[c] = FAT32_FAT_EMPTY_ENTRY
      /\ ~ disk[d].tab[r].used
  BY <1>1, <1>2, WriteBegins DEF Sound
<1>4. /\ call'.name = n /\ call'.parent = d /\ call'.row = r /\ call'.start = c
  BY <1>1 DEF NoCall
<1>5. c \notin Held(disk, diskFat)
  BY <1>2, <1>3, FreeNotHeld DEF Sound
<1>6. Agree(diskFat', diskFat, Held(disk, diskFat))
  <2>1. diskFat \in [Cluster -> 0 .. NCluster + 1] /\ Held(disk, diskFat) \subseteq Cluster
    BY Constants DEF Sound, IInv, TypeOK, Held
  <2> QED BY <1>1, <1>3, <1>5, <2>1 DEF Agree
<1>7. DiskSound(disk, diskFat') /\ Held(disk, diskFat') = Held(disk, diskFat)
  BY <1>6, FatFrame DEF Sound, NamedInv
<1>8. CallOwns'
  BY <1>2, <1>3, <1>4, <1>5, <1>7 DEF CallOwns
<1>9. DiskSound(disk', diskFat') /\ IInv'
  BY <1>2, <1>7 DEF Sound
<1> QED BY <1>2, <1>8, <1>9, NamedSaved DEF Saved

LEMMA NamedMkdirParent == ASSUME Sound, MkdirParent PROVE NamedInv'
<1>1. /\ pc = "mkdirParent" /\ pc' = "mkdirTable"
      /\ UNCHANGED <<signed, diskFat, cluster_map, call, ret>>
      /\ dir_table_buf' = [dir_table_buf EXCEPT ![call.row] = DirEntry(call.name, call.start)]
      /\ disk' = [disk EXCEPT ![call.parent] = TableBlock(dir_table_buf')]
  BY DEF MkdirParent
<1>2. /\ call.parent \in DataCluster /\ ValidDir(disk[call.parent].tab)
      /\ call.row \in Row /\ call.row >= 2 /\ call.start \in FileCluster
      /\ dir_table_buf = disk[call.parent].tab
      /\ diskFat[call.start] = FAT32_FAT_END_OF_FILE
      /\ disk \in [DataCluster -> Block] /\ dir_table_buf \in Table
  BY <1>1 DEF Sound, IInv, CallSound, TypeOK, Call
<1>3. /\ call.name # ZeroName /\ ~ disk[call.parent].tab[call.row].used
      /\ call.start \notin Held(disk, diskFat)
      /\ DiskSound(disk, diskFat)
  BY <1>1 DEF Sound, NamedInv, CallOwns
<1> DEFINE e == DirEntry(call.name, call.start)
<1>4. e.used /\ e.sub /\ e.name = call.name /\ e.cluster = call.start
  BY DEF DirEntry
<1> HIDE DEF e
<1>5. ChainSet(diskFat, e.cluster) = {call.start} /\ ChainEnds(diskFat, e.cluster)
  BY <1>2, <1>4, ChainOfOne DEF FileCluster
<1>6. dir_table_buf' \in Table
  BY DEF Sound, IInv, TypeOK
<1>7. Placed(disk, call.parent, dir_table_buf', disk')
  BY <1>1, <1>2, <1>6, TableWrite
<1>8. /\ disk'[call.parent].tab[call.row] = e
      /\ \A y \in Row : y # call.row => disk'[call.parent].tab[y] = disk[call.parent].tab[y]
      /\ \A x \in DataCluster : x # call.parent => disk'[x] = disk[x]
  BY <1>1, <1>2, <1>7 DEF Placed, Table, e
<1>9. ValidDir(disk[ROOT_CLUSTER_NUMBER].tab)
  BY <1>2 DEF Sound, IInv, DirsMarked
<1>10. Fresh(disk, diskFat, e) /\ RowSet(disk, disk', call.parent, call.row, e)
  BY <1>2, <1>3, <1>4, <1>5, <1>8 DEF Fresh, RowSet
<1>11. DiskSound(disk', diskFat)
  BY <1>3, <1>9, <1>10, EntryAdded
<1>12. CallOwns'
  BY <1>1, <1>8 DEF CallOwns, e
<1>13. DiskSound(disk', diskFat') /\ IInv'
  BY <1>1, <1>11 DEF Sound
<1> QED BY <1>1, <1>12, <1>13, NamedSaved DEF Saved

\* The new folder has its table, or the first sector of it.
LEMMA NamedOpened ==
    ASSUME Sound, pc = "mkdirTable", NEW t \in Table,
           Mixed(disk[call.start].tab, init_directory_table(call.name, call.start, call.parent), t),
           disk' = [disk EXCEPT ![call.start] = TableBlock(t)],
           diskFat' = diskFat, pc' \in {"idle", "off"}
    PROVE  NamedInv'
<1> DEFINE c == call.start
           new == init_directory_table(call.name, call.start, call.parent)
<1>1. /\ c \in DataCluster /\ c \in FileCluster /\ c \in Cluster
      /\ call.name \in AllNames /\ call.parent \in Cluster
      /\ call.parent \in DataCluster /\ call.row \in Row /\ call.row >= 2
      /\ ValidDir(disk[call.parent].tab)
      /\ ~ ValidDir(disk[c].tab) /\ diskFat[c] = FAT32_FAT_END_OF_FILE
      /\ disk \in [DataCluster -> Block]
  BY Constants DEF Sound, IInv, CallSound, TypeOK, Call, FileCluster
<1>2. TargetEmpty(disk[c].tab)
  BY <1>1 DEF Sound, IInv, NoStrayRows
<1>3. /\ DiskSound(disk, diskFat) /\ UseIsNamed(disk)
      /\ disk[call.parent].tab[call.row] = DirEntry(call.name, call.start)
  BY DEF Sound, NamedInv, CallOwns, DiskSound
<1>4. /\ new[0] = DirEntry(call.name, c) /\ new[1] = DirEntry(DotDot, call.parent)
      /\ \A r \in Row : r >= 2 => new[r] = ZeroEntry
  BY <1>1, NewTable
<1>5. Placed(disk, c, t, disk')
  BY <1>1, TableWrite
<1>6. /\ disk'[c].tab = t /\ \A x \in DataCluster : x # c => disk'[x] = disk[x]
  BY <1>5 DEF Placed
<1>7. /\ t[0] = new[0] /\ t[1] = new[1]
      /\ \A r \in Row : t[r] = new[r] \/ t[r] = disk[c].tab[r]
  BY DEF Mixed
<1> HIDE DEF new, c
<1>8. ValidDir(t) /\ t[0].cluster = c /\ t[0].name = call.name /\ t[1].cluster = call.parent
  BY <1>4, <1>7 DEF ValidDir, DirEntry
<1>9. TargetEmpty(t)
  BY <1>2, <1>4, <1>7 DEF TargetEmpty, ZeroEntry
<1>10. \A r \in Row : r >= 2 => (t[r].used <=> t[r].name # ZeroName)
  BY <1>1, <1>3, <1>4, <1>7 DEF UseIsNamed, ZeroEntry
<1>11. LiveIn(disk, call.parent, call.row) /\ disk[call.parent].tab[call.row].cluster = c
       /\ disk[call.parent].tab[call.row].sub /\ disk[call.parent].tab[call.row].name = call.name
  BY <1>1, <1>3 DEF LiveIn, DirEntry, c
<1>12. ASSUME NEW d \in DataCluster, NEW r \in Row, LiveIn(disk, d, r),
              c \in ChainSet(diskFat, disk[d].tab[r].cluster)
       PROVE  d = call.parent /\ r = call.row
  <2>1. c \in ChainSet(diskFat, disk[call.parent].tab[call.row].cluster)
    BY <1>1, <1>11, ChainStart
  <2>2. ~ (ChainSet(diskFat, disk[d].tab[r].cluster)
             \cap ChainSet(diskFat, disk[call.parent].tab[call.row].cluster) = {})
    BY <1>12, <2>1
  <2> QED BY <1>1, <1>3, <1>11, <1>12, <2>2 DEF DiskSound, ChainsApart
<1>13. \A d \in DataCluster, r \in Row :
         LiveIn(disk, d, r) /\ c \in ChainSet(diskFat, disk[d].tab[r].cluster) =>
            /\ disk[d].tab[r].sub
            /\ disk'[c].tab[0].cluster = c
            /\ disk'[c].tab[0].name = disk[d].tab[r].name
            /\ disk'[c].tab[1].cluster = d
  BY <1>6, <1>8, <1>11, <1>12
<1>14. /\ ValidDir(disk'[c].tab) /\ TargetEmpty(disk'[c].tab)
       /\ \A r \in Row : r >= 2 => (disk'[c].tab[r].used <=> disk'[c].tab[r].name # ZeroName)
  BY <1>6, <1>8, <1>9, <1>10
<1>15. Opens(disk, disk', diskFat, c)
  BY <1>1, <1>6, <1>13, <1>14 DEF Opens
<1>16. DiskSound(disk', diskFat)
  BY <1>3, <1>15, DirOpened
<1>17. DiskSound(disk', diskFat') /\ IInv' /\ CallOwns'
  BY <1>16, CallOver DEF Sound
<1> QED BY <1>17, NamedSaved DEF Saved

LEMMA NamedMkdirTable == ASSUME Sound, MkdirTable \/ MkdirTableTorn PROVE NamedInv'
<1> DEFINE old == disk[call.start].tab
           new == init_directory_table(call.name, call.start, call.parent)
<1>1. /\ pc = "mkdirTable" /\ call.start \in DataCluster /\ call.start \in Cluster
      /\ call.name \in AllNames /\ call.parent \in Cluster /\ old \in Table
  BY Constants DEF Sound, IInv, CallSound, TypeOK, Call, Block, FileCluster,
     MkdirTable, MkdirTableTorn
<1>2. new \in Table
  BY <1>1, NewTable
<1>3. CASE MkdirTable
  <2>1. Mixed(old, new, new)
    BY <1>2 DEF Mixed
  <2>2. disk' = [disk EXCEPT ![call.start] = TableBlock(new)] /\ diskFat' = diskFat /\ pc' = "idle"
    BY <1>3 DEF MkdirTable, Return
  <2> HIDE DEF new
  <2> QED BY <1>1, <1>2, <2>1, <2>2, NamedOpened DEF new
<1>4. ASSUME NEW k \in Row, k > 0, PowerOff, diskFat' = diskFat,
             disk' = [disk EXCEPT ![call.start] = TableBlock(Torn(old, new, k, SectorRows))]
      PROVE  NamedInv'
  <2>1. Mixed(old, new, Torn(old, new, k, SectorRows))
    BY <1>1, <1>2, <1>4, TornTable
  <2>2. Torn(old, new, k, SectorRows) \in Table /\ pc' = "off"
    BY <1>4, <2>1 DEF Mixed, PowerOff
  <2> HIDE DEF new
  <2> QED BY <1>1, <1>4, <2>1, <2>2, NamedOpened DEF new
<1>5. CASE MkdirTableTorn
  <2>1. CASE disk[call.start].data = NoData
    BY <1>4, <1>5, <2>1 DEF MkdirTableTorn
  <2>2. CASE disk[call.start].data # NoData
    <3>1. pc' = "garbled" /\ UNCHANGED <<durable, cluster_map, dir_table_buf, call, ret>> /\ Loaded
      BY <1>5, <2>2 DEF MkdirTableTorn, Loaded
    <3> QED BY <3>1, NamedQuiet DEF durable
  <2> QED BY <2>1, <2>2
<1> QED BY <1>3, <1>5

\* File data, or zeroes, go to a cluster that is no directory.
LEMMA DataPlaced ==
    ASSUME NEW dk, NEW dk2, NEW f, DiskSound(dk, f), NEW c \in DataCluster,
           ~ ValidDir(dk[c].tab), Placed(dk, c, ZeroTable, dk2)
    PROVE  DiskSound(dk2, f) /\ Held(dk2, f) \subseteq Held(dk, f)
<1>1. Closes(dk, dk2, c)
  BY BlankTypes DEF Closes, Placed, ZeroEntry
<1> QED BY <1>1, DirClosed

LEMMA NamedWriteFirst ==
    ASSUME Sound, ZeroName \notin Names, NEW d \in DataCluster, NEW n \in Names,
           NEW s \in Sizes \ {0}, NEW p \in Payloads, WriteFirst(d, n, s, p)
    PROVE  NamedInv'
<1>1. PICK r \in Row, c \in DataCluster :
         /\ IsFirst(FreeRow(disk[d].tab), r)
         /\ IsFirst(FreeCluster(cluster_map), c)
         /\ call' = [NoCall EXCEPT !.parent = d, !.name = n, !.size = s,
                                   !.payload = p, !.row = r, !.start = c,
                                   !.cur = c, !.need = Needed(s) - 1]
         /\ cluster_map' = [cluster_map EXCEPT ![c] = FAT32_FAT_END_OF_FILE]
         /\ disk' = [disk EXCEPT ![c] = DataBlock(p, 0, ClusterSize)]
  BY DEF WriteFirst
<1>2. /\ pc = "idle" /\ WriteCode(disk[d].tab, n) = 0 /\ pc' = "fill"
      /\ diskFat' = diskFat /\ Loaded
  BY DEF WriteFirst, Loaded
<1>3. /\ cluster_map = diskFat /\ cluster_map[c] = FAT32_FAT_EMPTY_ENTRY
      /\ ~ disk[d].tab[r].used /\ c # d /\ ~ ValidDir(disk[c].tab)
  BY <1>1, <1>2, WriteBegins DEF Sound
<1>4. /\ call'.name = n /\ call'.parent = d /\ call'.row = r /\ call'.start = c /\ call'.cur = c
  BY <1>1 DEF NoCall
<1>5. c \notin Held(disk, diskFat)
  BY <1>2, <1>3, FreeNotHeld DEF Sound
<1>6. /\ disk \in [DataCluster -> Block] /\ diskFat \in [Cluster -> 0 .. NCluster + 1]
      /\ DiskSound(disk, diskFat) /\ Held(disk, diskFat) \subseteq Cluster
  BY Constants DEF Sound, IInv, TypeOK, NamedInv, Held
<1>7. Placed(disk, c, ZeroTable, disk')
  <2>1. DataBlock(p, 0, ClusterSize) \in Block /\ DataBlock(p, 0, ClusterSize).tab = ZeroTable
    BY DataBlockType, SizeAssumption
  <2> QED BY <1>1, <1>6, <2>1, DataWrite
<1>8. DiskSound(disk', diskFat') /\ Held(disk', diskFat') \subseteq Held(disk, diskFat)
  BY <1>2, <1>3, <1>6, <1>7, DataPlaced
<1>9. Agree(cluster_map', diskFat', Held(disk', diskFat'))
  BY <1>1, <1>2, <1>3, <1>5, <1>6, <1>8 DEF Agree
<1>10. cluster_map'[c] = FAT32_FAT_END_OF_FILE
  BY <1>1, <1>3, <1>6, Constants
<1>11. Building(cluster_map, 0, Held(disk, diskFat))'
  <2>1. Chain(cluster_map', c)[0] = c
    BY ChainRounds
  <2>2. c \in DataCluster \ Held(disk', diskFat') /\ 0 <= c - 2
    BY <1>5, <1>8 DEF DataCluster
  <2>3. \A k \in 0 .. 0 : k = 0
    OBVIOUS
  <2> QED BY <1>4, <1>10, <2>1, <2>2, <2>3 DEF Building
<1>12. disk'[d] = disk[d]
  BY <1>3, <1>7 DEF Placed
<1>13. CallOwns'
  <2>1. 0 \in 0 .. NCluster
    BY SizeAssumption
  <2>2. (\E m \in 0 .. NCluster : Building(cluster_map, m, Held(disk, diskFat)))'
    BY <1>11, <2>1
  <2> HIDE DEF Building
  <2> QED BY <1>2, <1>3, <1>4, <1>12, <2>2 DEF CallOwns
<1> QED BY <1>8, <1>9, <1>13 DEF NamedInv

\* The chain that a write builds goes on by one cluster.
LEMMA ChainGrows ==
    ASSUME NEW f, NEW g, NEW c \in DataCluster, NEW m \in 0 .. NCluster, NEW H,
           call.cur \in DataCluster, c > call.cur, c \notin H,
           Building(f, m, H), g[call.cur] = c, g[c] = FAT32_FAT_END_OF_FILE,
           \A x \in DataCluster : x \notin {c, call.cur} => g[x] = f[x]
    PROVE  LET w == Chain(g, call.start)
           IN  /\ m + 1 \in 0 .. NCluster
               /\ w[m + 1] = c /\ m + 1 <= c - 2
               /\ \A k \in 0 .. m + 1 : w[k] \in DataCluster \ H /\ (k < m + 1 => w[k] < c)
<1> DEFINE v == Chain(f, call.start)
           w == Chain(g, call.start)
<1>1. /\ v[m] = call.cur /\ m <= call.cur - 2
      /\ \A k \in 0 .. m : v[k] \in DataCluster \ H /\ (k < m => v[k] < call.cur)
  BY DEF Building
<1>2. call.cur \in Nat /\ c \in Nat /\ c < NCluster /\ m \in Nat
  BY SizeAssumption DEF DataCluster
<1>3. \A k \in 0 .. m - 1 : v[k] \in DataCluster => g[v[k]] = f[v[k]]
  <2>1. SUFFICES ASSUME NEW k \in 0 .. m - 1, v[k] \in DataCluster PROVE g[v[k]] = f[v[k]]
    OBVIOUS
  <2>2. v[k] < call.cur
    BY <1>1, <1>2
  <2>3. v[k] \notin {c, call.cur}
    <3>1. v[k] \in Nat
      BY <2>1, Constants
    <3> QED BY <1>2, <2>2, <3>1
  <2> QED BY <2>1, <2>3
<1>4. \A k \in 0 .. m : w[k] = v[k]
  BY <1>3, ChainPrefix
<1>5. m + 1 <= c - 2 /\ m + 1 \in 0 .. NCluster /\ m \in 0 .. NCluster - 1
  BY <1>1, <1>2, SizeAssumption
<1>6. w[m + 1] = Follow(g, w[m])
  BY <1>5, ChainRounds
<1>7. w[m] = call.cur
  BY <1>1, <1>2, <1>4
<1>8. w[m + 1] = c
  BY <1>6, <1>7 DEF Follow
<1> HIDE DEF v, w
<1>9. ASSUME NEW k \in 0 .. m + 1
      PROVE  w[k] \in DataCluster \ H /\ (k < m + 1 => w[k] < c)
  <2>1. CASE k = m + 1
    BY <1>2, <1>8, <2>1
  <2>2. CASE k # m + 1
    <3>1. k \in 0 .. m
      BY <1>2, <2>2
    <3>2. w[k] \in DataCluster \ H /\ (k < m => w[k] < call.cur) /\ (k = m => w[k] = call.cur)
      BY <1>1, <1>4, <3>1
    <3>3. w[k] \in Nat
      BY <3>2, Constants
    <3>4. k < m \/ k = m
      BY <1>2, <3>1
    <3> QED BY <1>2, <3>2, <3>3, <3>4
  <2> QED BY <2>1, <2>2
<1> QED BY <1>5, <1>8, <1>9 DEF w

LEMMA NamedWriteNext == ASSUME Sound, WriteNext PROVE NamedInv'
<1>1. PICK c \in DataCluster :
         /\ IsFirst(FreeAfter(cluster_map, call.cur), c)
         /\ cluster_map' = [cluster_map EXCEPT ![call.cur] = c,
                                               ![c] = FAT32_FAT_END_OF_FILE]
         /\ disk' = [disk EXCEPT ![c] =
                        DataBlock(call.payload, Needed(call.size) - call.need,
                                  PartSize(call.size, call.need))]
         /\ call' = [call EXCEPT !.cur = c, !.need = @ - 1]
  BY DEF WriteNext
<1>2. pc = "fill" /\ UNCHANGED <<diskFat, pc>> /\ Loaded
  BY DEF WriteNext, Loaded
<1>3. /\ cluster_map[c] = FAT32_FAT_EMPTY_ENTRY /\ c > call.cur
      /\ c \in FileCluster /\ ~ ValidDir(disk[c].tab)
      /\ c # call.parent /\ c # call.cur
  BY <1>1, <1>2, NextIsFree DEF Sound
<1>4. /\ cluster_map'[call.cur] = c /\ cluster_map'[c] = FAT32_FAT_END_OF_FILE
      /\ \A x \in Cluster : x \notin {c, call.cur} => cluster_map'[x] = cluster_map[x]
  BY <1>1, <1>2, <1>3, WriteNextMap DEF Sound
<1>5. /\ call'.cur = c /\ call'.start = call.start /\ call'.name = call.name
      /\ call'.parent = call.parent /\ call'.row = call.row
      /\ call.cur \in DataCluster /\ call.parent \in DataCluster
  BY <1>1, <1>2 DEF Sound, IInv, TypeOK, Call, CallSound, FileCluster
<1> DEFINE H == Held(disk, diskFat)
<1>6. c \notin H
  BY <1>2, <1>3, FreeNotHeld DEF Sound
<1>7. Placed(disk, c, ZeroTable, disk')
  BY WriteNextPlaces, <1>1, <1>2 DEF Sound
<1>8. DiskSound(disk', diskFat') /\ Held(disk', diskFat') \subseteq H
  BY <1>2, <1>3, <1>7, DataPlaced DEF Sound, NamedInv
<1>9. PICK m \in 0 .. NCluster : Building(cluster_map, m, H)
  BY <1>2 DEF Sound, NamedInv, CallOwns
<1>10. call.cur \notin H
  <2>1. Chain(cluster_map, call.start)[m] = call.cur /\ m \in 0 .. m
    BY <1>9 DEF Building
  <2> QED BY <1>9, <2>1 DEF Building
<1>11. Agree(cluster_map', diskFat', Held(disk', diskFat'))
  <2>1. Agree(cluster_map, diskFat, H) /\ H \subseteq Cluster
    BY <1>2, Constants DEF Sound, NamedInv, Held
  <2> QED BY <1>2, <1>4, <1>6, <1>8, <1>10, <2>1 DEF Agree
<1> HIDE DEF H
<1>12. /\ m + 1 \in 0 .. NCluster
       /\ Chain(cluster_map', call.start)[m + 1] = c /\ m + 1 <= c - 2
       /\ \A k \in 0 .. m + 1 : /\ Chain(cluster_map', call.start)[k] \in DataCluster \ H
                                /\ k < m + 1 => Chain(cluster_map', call.start)[k] < c
  <2>1. \A x \in DataCluster : x \notin {c, call.cur} => cluster_map'[x] = cluster_map[x]
    BY <1>4, Constants
  <2> QED BY <1>3, <1>4, <1>5, <1>6, <1>9, <2>1, ChainGrows
<1>13. Building(cluster_map, m + 1, Held(disk, diskFat))'
  BY <1>4, <1>5, <1>8, <1>12 DEF Building
<1>14. disk'[call.parent] = disk[call.parent]
  BY <1>3, <1>5, <1>7 DEF Placed
<1>15. CallOwns'
  <2>1. (\E k \in 0 .. NCluster : Building(cluster_map, k, Held(disk, diskFat)))'
    BY <1>12, <1>13
  <2>2. call.name # ZeroName /\ ~ disk[call.parent].tab[call.row].used
    BY <1>2 DEF Sound, NamedInv, CallOwns
  <2> HIDE DEF Building
  <2> QED BY <1>2, <1>5, <1>14, <2>1, <2>2 DEF CallOwns
<1> QED BY <1>8, <1>11, <1>15 DEF NamedInv

LEMMA NamedWriteFat == ASSUME Sound, WriteFat PROVE NamedInv'
<1>1. /\ pc = "fill" /\ pc' = "writeRow" /\ diskFat' = cluster_map /\ Loaded
      /\ UNCHANGED <<disk, cluster_map, call>>
  BY DEF WriteFat, Loaded
<1> DEFINE H == Held(disk, diskFat)
<1>2. Agree(cluster_map, diskFat, H) /\ DiskSound(disk, diskFat)
  BY <1>1 DEF Sound, NamedInv
<1>3. DiskSound(disk, cluster_map) /\ Held(disk, cluster_map) = H
  BY <1>2, FatFrame
<1>4. PICK m \in 0 .. NCluster : Building(cluster_map, m, H)
  BY <1>1 DEF Sound, NamedInv, CallOwns
<1> DEFINE w == Chain(cluster_map, call.start)
<1>5. /\ w[m] = call.cur /\ m <= call.cur - 2
      /\ cluster_map[call.cur] = FAT32_FAT_END_OF_FILE
      /\ \A k \in 0 .. m : w[k] \in DataCluster \ H
  BY <1>4 DEF Building
<1>6. call.cur \in DataCluster
  BY <1>1 DEF Sound, IInv, CallSound, FileCluster
<1>7. m \in 0 .. NCluster - 1 /\ m + 1 \in 1 .. NCluster /\ m \in Nat
  BY <1>5, <1>6, SizeAssumption DEF DataCluster
<1>8. w[m + 1] = FAT32_FAT_END_OF_FILE
  BY <1>5, <1>6, <1>7, ChainRounds DEF Follow
<1>9. ChainEnds(cluster_map, call.start)
  BY <1>7, <1>8 DEF ChainEnds
<1>10. \A k \in 0 .. NCluster : k > m => w[k] = FAT32_FAT_END_OF_FILE
  <2>1. SUFFICES ASSUME NEW k \in 0 .. NCluster, k > m PROVE w[k] = FAT32_FAT_END_OF_FILE
    OBVIOUS
  <2>2. m + 1 \in 0 .. NCluster /\ m + 1 <= k /\ w[m + 1] \notin DataCluster
    BY <1>7, <1>8, <2>1, Constants, SizeAssumption
  <2> QED BY <1>8, <2>2, ChainStays
<1> HIDE DEF H
<1>11. ChainSet(cluster_map, call.start) \cap H = {}
  <2>1. SUFFICES ASSUME NEW x \in ChainSet(cluster_map, call.start) PROVE x \notin H
    BY DEF ChainSet
  <2>2. PICK k \in 0 .. NCluster : w[k] = x /\ x \in DataCluster
    BY <2>1 DEF ChainSet
  <2>3. k <= m
    BY <1>7, <1>10, <2>2, Constants, SizeAssumption
  <2> QED BY <1>5, <1>7, <2>2, <2>3
<1>12. CallOwns'
  <2>1. call.name # ZeroName /\ ~ disk[call.parent].tab[call.row].used
    BY <1>1 DEF Sound, NamedInv, CallOwns
  <2> QED BY <1>1, <1>3, <1>9, <1>11, <2>1 DEF CallOwns, H
<1>13. DiskSound(disk', diskFat') /\ IInv'
  BY <1>1, <1>3 DEF Sound
<1> QED BY <1>1, <1>12, <1>13, NamedSaved DEF Saved

LEMMA NamedWriteRow == ASSUME Sound, WriteRow PROVE NamedInv'
<1> DEFINE e == FileEntry(call.name, call.start, call.size)
           t == [dir_table_buf EXCEPT ![call.row] = e]
<1>1. /\ pc = "writeRow" /\ pc' = "idle" /\ diskFat' = diskFat
      /\ disk' = [disk EXCEPT ![call.parent] = TableBlock(t)]
  BY DEF WriteRow, Return
<1>2. /\ call.parent \in DataCluster /\ ValidDir(disk[call.parent].tab)
      /\ call.row \in Row /\ call.row >= 2 /\ call.start \in FileCluster
      /\ dir_table_buf = disk[call.parent].tab
      /\ disk \in [DataCluster -> Block] /\ dir_table_buf \in Table /\ call \in Call
  BY <1>1 DEF Sound, IInv, CallSound, TypeOK, Call
<1>3. /\ call.name # ZeroName /\ ~ disk[call.parent].tab[call.row].used
      /\ ChainEnds(diskFat, call.start)
      /\ ChainSet(diskFat, call.start) \cap Held(disk, diskFat) = {}
      /\ DiskSound(disk, diskFat)
  BY <1>1 DEF Sound, NamedInv, CallOwns
<1>4. /\ e.used /\ ~ e.sub /\ e.name = call.name /\ e.cluster = call.start /\ e \in Entry
  BY <1>2 DEF FileEntry, Entry, Call
<1> HIDE DEF e
<1>5. t \in Table /\ t[call.row] = e /\ \A y \in Row : y # call.row => t[y] = dir_table_buf[y]
  BY <1>2, <1>4 DEF Table
<1> HIDE DEF t
<1>6. Placed(disk, call.parent, t, disk')
  BY <1>1, <1>2, <1>5, TableWrite
<1>7. RowSet(disk, disk', call.parent, call.row, e)
  BY <1>2, <1>5, <1>6 DEF Placed, RowSet
<1>8. Fresh(disk, diskFat, e)
  BY <1>2, <1>3, <1>4 DEF Fresh
<1>9. ValidDir(disk[ROOT_CLUSTER_NUMBER].tab)
  BY <1>2 DEF Sound, IInv, DirsMarked
<1>10. DiskSound(disk', diskFat') /\ IInv' /\ CallOwns'
  BY <1>1, <1>3, <1>7, <1>8, <1>9, EntryAdded, CallOver DEF Sound
<1> QED BY <1>1, <1>10, NamedSaved DEF Saved

-----------------------------------------------------------------------------
(* delete *)

\* The row delete has found is in use, since it has a name.
LEMMA FoundInUse ==
    ASSUME Sound, ZeroName \notin Names, pc = "idle", NEW d \in DataCluster, NEW n \in Names,
           DeleteCode(disk[d].tab, n) = 0, NEW r \in DeleteRow(disk[d].tab, n)
    PROVE  disk[d].tab[r].used
<1>1. r \in Row /\ r >= 2 /\ disk[d].tab[r].name = n
  BY DeleteBegins DEF Sound
<1>2. UseIsNamed(disk)
  BY DEF Sound, NamedInv, DiskSound
<1> QED BY <1>1, <1>2 DEF UseIsNamed

\* Row r of d is in use, and the row it is replaced by is not.
Erasing(dk, d, r, e) == dk[d].tab[r].used /\ ~ e.used /\ e.name = ZeroName

LEMMA EntryErased ==
    ASSUME NEW dk, NEW dk2, NEW f, DiskSound(dk, f), NEW d, NEW r, NEW e,
           RowSet(dk, dk2, d, r, e), Erasing(dk, d, r, e)
    PROVE  /\ DiskSound(dk2, f)
           /\ \A x \in DataCluster, y \in Row : LiveIn(dk2, x, y) =>
                 ChainSet(f, dk2[x].tab[y].cluster) \cap ChainSet(f, dk[d].tab[r].cluster) = {}
<1>1. dk[d].tab[r].used /\ ~ e.used /\ e.name = ZeroName
  BY DEF Erasing
<1> QED BY <1>1, EntryRemoved

LEMMA NamedRmdirParent ==
    ASSUME Sound, ZeroName \notin Names,
           NEW d \in DataCluster, NEW n \in Names, RmdirParent(d, n)
    PROVE  NamedInv'
<1>1. PICK r \in DeleteRow(disk[d].tab, n) :
         /\ disk[d].tab[r].sub
         /\ call' = [NoCall EXCEPT !.parent = d, !.row = r, !.start = disk[d].tab[r].cluster]
         /\ dir_table_buf' = [disk[d].tab EXCEPT ![r] = ErasedDir(disk[d].tab[r])]
  BY DEF RmdirParent
<1>2. /\ pc = "idle" /\ DeleteCode(disk[d].tab, n) = 0 /\ pc' = "rmdirTable"
      /\ disk' = [disk EXCEPT ![d] = TableBlock(dir_table_buf')]
      /\ UNCHANGED <<signed, diskFat, cluster_map>>
  BY DEF RmdirParent
<1>3. /\ ValidDir(disk[d].tab) /\ r \in Row /\ r >= 2 /\ disk[d].tab[r] \in Entry
      /\ disk[d].tab[r].cluster \in FileCluster
  BY <1>1, <1>2, DeleteBegins DEF Sound
<1>4. disk[d].tab[r].used
  BY <1>1, <1>2, FoundInUse
<1>5. /\ disk \in [DataCluster -> Block] /\ disk[d].tab \in Table /\ dir_table_buf' \in Table
      /\ DiskSound(disk, diskFat)
  BY DEF Sound, IInv, TypeOK, Block, NamedInv
<1> DEFINE e == ErasedDir(disk[d].tab[r])
<1>6. ~ e.used /\ e.name = ZeroName
  BY <1>3, ErasedType
<1> HIDE DEF e
<1>7. Placed(disk, d, dir_table_buf', disk')
  BY <1>2, <1>5, TableWrite
<1>8. RowSet(disk, disk', d, r, e)
  <2>1. dir_table_buf'[r] = e /\ \A y \in Row : y # r => dir_table_buf'[y] = disk[d].tab[y]
    BY <1>1, <1>3, <1>5 DEF Table, e
  <2> QED BY <1>3, <1>7, <2>1 DEF Placed, RowSet
<1>9. /\ DiskSound(disk', diskFat)
      /\ \A x \in DataCluster, y \in Row : LiveIn(disk', x, y) =>
            ChainSet(diskFat, disk'[x].tab[y].cluster)
               \cap ChainSet(diskFat, disk[d].tab[r].cluster) = {}
  <2>1. DiskSound(disk, diskFat) /\ Erasing(disk, d, r, e)
    BY <1>4, <1>5, <1>6 DEF Erasing
  <2> QED BY <1>8, <2>1, EntryErased
<1>10. call'.start = disk[d].tab[r].cluster
  BY <1>1 DEF NoCall
<1>11. call'.start \in ChainSet(diskFat, disk[d].tab[r].cluster)
  BY <1>3, <1>10, ChainStart DEF FileCluster
<1>12. CallOwns'
  <2>1. \A x \in DataCluster, y \in Row : LiveIn(disk', x, y) =>
           call'.start \notin ChainSet(diskFat', disk'[x].tab[y].cluster)
    BY <1>2, <1>9, <1>11
  <2> QED BY <1>2, <2>1 DEF CallOwns
<1>13. DiskSound(disk', diskFat') /\ IInv'
  BY <1>2, <1>9 DEF Sound
<1> QED BY <1>2, <1>12, <1>13, NamedSaved DEF Saved

LEMMA NamedRmdirTable == ASSUME Sound, RmdirTable PROVE NamedInv'
<1>1. /\ pc = "rmdirTable" /\ pc' = "rmdirFat"
      /\ UNCHANGED <<signed, diskFat, cluster_map, call>>
  BY DEF RmdirTable
<1> DEFINE c == call.start
<1>2. c \in DataCluster /\ TargetEmpty(disk[c].tab)
  BY <1>1 DEF Sound, IInv, CallSound, FileCluster
<1>3. /\ Placed(disk, c, disk'[c].tab, disk') /\ ~ ValidDir(disk'[c].tab)
      /\ \A r \in Row : r >= 2 => disk'[c].tab[r] = disk[c].tab[r]
  BY RmdirTableEffect DEF Sound
<1>4. /\ DiskSound(disk, diskFat) /\ UseIsNamed(disk)
      /\ \A d \in DataCluster, r \in Row : LiveIn(disk, d, r) =>
            c \notin ChainSet(diskFat, disk[d].tab[r].cluster)
  BY <1>1 DEF Sound, NamedInv, DiskSound, CallOwns
<1> HIDE DEF c
<1>5. Closes(disk, disk', c)
  BY <1>2, <1>3, <1>4 DEF Closes, Placed, UseIsNamed
<1>6. DiskSound(disk', diskFat) /\ c \notin Held(disk', diskFat)
  BY <1>4, <1>5, DirClosed
<1>7. DiskSound(disk', diskFat') /\ IInv' /\ CallOwns'
  BY <1>1, <1>6 DEF Sound, CallOwns, c
<1> QED BY <1>1, <1>7, NamedSaved DEF Saved

LEMMA NamedRmdirFat == ASSUME Sound, RmdirFat PROVE NamedInv'
<1>1. /\ pc = "rmdirFat" /\ pc' = "idle" /\ disk' = disk /\ cluster_map = diskFat
      /\ diskFat' = [cluster_map EXCEPT ![call.start] = FAT32_FAT_EMPTY_ENTRY]
  BY DEF RmdirFat, Return, Sound, IInv, CacheSaved, Saved
<1>2. call.start \notin Held(disk, diskFat) /\ DiskSound(disk, diskFat)
  BY <1>1 DEF Sound, NamedInv, CallOwns
<1>3. Agree(diskFat', diskFat, Held(disk, diskFat))
  <2>1. diskFat \in [Cluster -> 0 .. NCluster + 1] /\ Held(disk, diskFat) \subseteq Cluster
    BY Constants DEF Sound, IInv, TypeOK, Held
  <2> QED BY <1>1, <1>2, <2>1 DEF Agree
<1>4. DiskSound(disk, diskFat')
  BY <1>2, <1>3, FatFrame
<1>5. DiskSound(disk', diskFat') /\ IInv' /\ CallOwns'
  BY <1>1, <1>4, CallOver DEF Sound
<1> QED BY <1>1, <1>5, NamedSaved DEF Saved

LEMMA NamedRmRow ==
    ASSUME Sound, ZeroName \notin Names,
           NEW d \in DataCluster, NEW n \in Names, RmRow(d, n)
    PROVE  NamedInv'
<1>1. PICK r \in DeleteRow(disk[d].tab, n) :
         /\ ~ disk[d].tab[r].sub
         /\ call' = [NoCall EXCEPT !.parent = d, !.row = r, !.nxt = disk[d].tab[r].cluster]
         /\ dir_table_buf' = [disk[d].tab EXCEPT ![r] = ZeroEntry]
  BY DEF RmRow
<1>2. /\ pc = "idle" /\ DeleteCode(disk[d].tab, n) = 0 /\ pc' = "rmFirst"
      /\ disk' = [disk EXCEPT ![d] = TableBlock(dir_table_buf')]
      /\ UNCHANGED <<signed, diskFat, cluster_map>>
  BY DEF RmRow
<1>3. ValidDir(disk[d].tab) /\ r \in Row /\ r >= 2
  BY <1>1, <1>2, DeleteBegins DEF Sound
<1>4. disk[d].tab[r].used
  BY <1>1, <1>2, FoundInUse
<1>5. /\ disk \in [DataCluster -> Block] /\ disk[d].tab \in Table /\ dir_table_buf' \in Table
      /\ DiskSound(disk, diskFat) /\ ChainsSound(disk, diskFat)
  BY DEF Sound, IInv, TypeOK, Block, NamedInv, DiskSound
<1>6. ~ ZeroEntry.used /\ ZeroEntry.name = ZeroName
  BY DEF ZeroEntry
<1>7. Placed(disk, d, dir_table_buf', disk')
  BY <1>2, <1>5, TableWrite
<1>8. RowSet(disk, disk', d, r, ZeroEntry)
  <2>1. dir_table_buf'[r] = ZeroEntry /\ \A y \in Row : y # r => dir_table_buf'[y] = disk[d].tab[y]
    BY <1>1, <1>3, <1>5 DEF Table
  <2> QED BY <1>3, <1>7, <2>1 DEF Placed, RowSet
<1> DEFINE S == ChainSet(diskFat, disk[d].tab[r].cluster)
<1>9. DiskSound(disk', diskFat) /\ S \cap Held(disk', diskFat) = {}
  BY <1>1, <1>4, <1>5, <1>6, <1>8, EntryRemoved
<1>10. LiveIn(disk, d, r)
  BY <1>3, <1>4 DEF LiveIn
<1>11. disk[d].tab[r].cluster \in DataCluster /\ ChainEnds(diskFat, disk[d].tab[r].cluster)
  BY <1>3, <1>5, <1>10 DEF ChainsSound, FileCluster
<1>12. /\ S \subseteq DataCluster /\ disk[d].tab[r].cluster \in S
       /\ \A y \in S : diskFat[y] \in DataCluster => diskFat[y] \in S
  BY <1>11, ChainStart, ChainAllocated DEF ChainSet
<1> HIDE DEF S
<1>13. call'.nxt = disk[d].tab[r].cluster /\ cluster_map' = diskFat
  BY <1>1, <1>2 DEF NoCall, Sound, IInv, CacheSaved, Saved
<1>14. Detached(cluster_map', call'.nxt, Held(disk', diskFat'))
  BY <1>2, <1>9, <1>12, <1>13 DEF Detached
<1>15. CallOwns'
  BY <1>2, <1>14 DEF CallOwns
<1>16. DiskSound(disk', diskFat') /\ IInv'
  BY <1>2, <1>9 DEF Sound
<1> QED BY <1>2, <1>15, <1>16, NamedSaved DEF Saved

LEMMA NamedRmCluster == ASSUME Sound, RmCluster PROVE NamedInv'
<1>1. /\ pc \in {"rmFirst", "rmLoop"} /\ pc' = "rmLoop" /\ call.nxt \in DataCluster
      /\ call' = [call EXCEPT !.cur = call.nxt, !.nxt = cluster_map[call.nxt]]
      /\ cluster_map' = [cluster_map EXCEPT ![call.nxt] = FAT32_FAT_EMPTY_ENTRY]
      /\ disk' = [disk EXCEPT ![call.nxt] = ZeroBlock]
      /\ diskFat' = diskFat /\ Loaded
  BY DEF RmCluster, Loaded
<1> DEFINE H == Held(disk, diskFat)
           H2 == Held(disk', diskFat')
<1>2. PICK S \in SUBSET DataCluster :
         /\ call.nxt \in DataCluster => call.nxt \in S
         /\ \A y \in S : cluster_map[y] \in DataCluster => cluster_map[y] \in S
         /\ S \cap H = {}
  BY <1>1 DEF Sound, NamedInv, CallOwns, Detached
<1>3. /\ disk \in [DataCluster -> Block] /\ call \in Call
      /\ cluster_map \in [Cluster -> 0 .. NCluster + 1]
  BY DEF Sound, IInv, TypeOK
<1>4. Placed(disk, call.nxt, ZeroTable, disk')
  BY <1>1, <1>3, BlankTypes, DataWrite
<1>5. DiskSound(disk, diskFat) /\ Agree(cluster_map, diskFat, H)
  BY <1>1 DEF Sound, NamedInv
<1>6. call.nxt \notin H /\ ~ ValidDir(disk[call.nxt].tab)
  BY <1>1, <1>2 DEF Held
<1>7. DiskSound(disk', diskFat') /\ H2 \subseteq H
  BY <1>1, <1>4, <1>5, <1>6, DataPlaced
<1>8. H \subseteq Cluster
  BY Constants DEF Held
<1> HIDE DEF H, H2
<1>9. call'.cur = call.nxt /\ call'.nxt = cluster_map[call.nxt]
  BY <1>1, <1>3 DEF Call
<1>10. \A x \in Cluster : /\ x # call.nxt => cluster_map'[x] = cluster_map[x]
                          /\ x = call.nxt => cluster_map'[x] = FAT32_FAT_EMPTY_ENTRY
  BY <1>1, <1>3
<1>11. Agree(cluster_map', diskFat', H2)
  BY <1>1, <1>5, <1>6, <1>7, <1>8, <1>10 DEF Agree
<1>12. Detached(cluster_map', call'.nxt, H2)
  <2>1. call'.nxt \in DataCluster => call'.nxt \in S
    BY <1>1, <1>2, <1>9
  <2>2. \A y \in S : cluster_map'[y] \in DataCluster => cluster_map'[y] \in S
    BY <1>2, <1>10, Constants
  <2> QED BY <1>2, <1>7, <2>1, <2>2 DEF Detached
<1>13. CallOwns'
  BY <1>1, <1>6, <1>7, <1>9, <1>12 DEF CallOwns, H2
<1> QED BY <1>7, <1>11, <1>13 DEF NamedInv, H2

LEMMA NamedRmFat == ASSUME Sound, RmFat PROVE NamedInv'
<1>1. /\ pc = "rmLoop" /\ pc' = "rmLast" /\ diskFat' = cluster_map /\ Loaded
      /\ UNCHANGED <<disk, call>>
  BY DEF RmFat, Loaded
<1>2. /\ Agree(cluster_map, diskFat, Held(disk, diskFat)) /\ DiskSound(disk, diskFat)
      /\ call.cur \notin Held(disk, diskFat)
  BY <1>1 DEF Sound, NamedInv, CallOwns
<1>3. DiskSound(disk, cluster_map) /\ Held(disk, cluster_map) = Held(disk, diskFat)
  BY <1>2, FatFrame
<1>4. DiskSound(disk', diskFat') /\ IInv' /\ CallOwns'
  BY <1>1, <1>2, <1>3 DEF Sound, CallOwns
<1> QED BY <1>1, <1>4, NamedSaved DEF Saved

LEMMA NamedRmLast == ASSUME Sound, RmLast PROVE NamedInv'
<1>1. /\ pc = "rmLast" /\ pc' = "idle" /\ diskFat' = diskFat
      /\ disk' = [disk EXCEPT ![call.cur] = ZeroBlock]
  BY DEF RmLast, Return
<1>2. /\ call.cur \in DataCluster /\ disk \in [DataCluster -> Block]
  BY <1>1 DEF Sound, IInv, TypeOK, CallSound, FileCluster
<1>3. /\ DiskSound(disk, diskFat) /\ ~ ValidDir(disk[call.cur].tab)
  BY <1>1, <1>2 DEF Sound, NamedInv, CallOwns, Held
<1>4. Placed(disk, call.cur, ZeroTable, disk')
  BY <1>1, <1>2, BlankTypes, DataWrite
<1>5. DiskSound(disk', diskFat)
  BY <1>2, <1>3, <1>4, DataPlaced
<1>6. DiskSound(disk', diskFat') /\ IInv' /\ CallOwns'
  BY <1>1, <1>5, CallOver DEF Sound
<1> QED BY <1>1, <1>6, NamedSaved DEF Saved

\* A torn FAT is the old one wherever something is held.
LEMMA NamedFatTorn == ASSUME Sound, FatTorn PROVE NamedInv'
<1>1. /\ pc \in {"fill", "rmLoop"} /\ pc' = "off" /\ disk' = disk /\ Loaded
  BY DEF FatTorn, PowerOff, Loaded
<1>2. PICK k \in Cluster : diskFat' = Torn(diskFat, cluster_map, k, SectorEntries)
  BY DEF FatTorn
<1>3. /\ diskFat \in [Cluster -> 0 .. NCluster + 1] /\ cluster_map \in [Cluster -> 0 .. NCluster + 1]
      /\ Held(disk, diskFat) \subseteq Cluster
  BY Constants DEF Sound, IInv, TypeOK, Held
<1>4. \A x \in Cluster : diskFat'[x] \in {cluster_map[x], diskFat[x]}
  BY <1>2, <1>3, TornFat
<1>5. Agree(cluster_map, diskFat, Held(disk, diskFat)) /\ DiskSound(disk, diskFat)
  BY <1>1 DEF Sound, NamedInv
<1>6. Agree(diskFat', diskFat, Held(disk, diskFat))
  BY <1>3, <1>4, <1>5 DEF Agree
<1>7. DiskSound(disk, diskFat')
  BY <1>5, <1>6, FatFrame
<1>8. DiskSound(disk', diskFat') /\ IInv' /\ CallOwns'
  BY <1>1, <1>7, CallOver DEF Sound
<1> QED BY <1>1, <1>8, NamedSaved

\* The call leaves the map: nothing is written to the data clusters or the FAT.
LEMMA NamedRunaway == ASSUME Sound, FillOverrun \/ RmRunaway PROVE NamedInv'
<1>1. pc' \in {"wild", "spin", "overrun"} /\ UNCHANGED <<diskFat, disk, cluster_map>> /\ Loaded
  BY DEF FillOverrun, RmRunaway, durable, Loaded
<1> QED BY <1>1, NamedQuiet

-----------------------------------------------------------------------------
(* The theorems *)

LEMMA NamedNext ==
    ASSUME Sound, ZeroName \notin Names, [Next]_vars
    PROVE  NamedInv'
<1>1. CASE Continue
  BY <1>1, NamedFormat, NamedMkdirParent, NamedMkdirTable, NamedWriteNext, NamedRunaway,
     NamedWriteFat, NamedWriteRow, NamedRmdirTable, NamedRmdirFat, NamedRmCluster,
     NamedRmFat, NamedRmLast DEF Continue
<1>2. CASE Failure
  BY <1>2, NamedPower, NamedMkdirTable, NamedFatTorn DEF Failure
<1>3. CASE Request
  BY <1>3, NamedRead, NamedMkdirFat, NamedWriteFirst, NamedRmdirParent, NamedRmRow DEF Request
<1> QED BY <1>1, <1>2, <1>3, NamedPower, NamedFormat DEF Next

\* Where no request carries the name of an erased row, the disk is sound in every
\* reachable state, between any two writes and after any power failure.
THEOREM DiskStaysSound ==
    ASSUME ZeroName \notin Names
    PROVE  Spec => [](IInv /\ NamedInv)
<1>1. Init => IInv /\ NamedInv
  BY InitHolds, NamedInit
<1>2. IInv /\ NamedInv /\ [Next]_vars => (IInv /\ NamedInv)'
  BY NextPreserves, NamedNext DEF Sound
<1> QED BY <1>1, <1>2, PTL DEF Spec

LEMMA LiveIsLive == \A d, r : Live(d, r) <=> LiveIn(disk, d, r)
BY DEF Live, LiveIn

LEMMA ClustersAreChain == \A e : Clusters(e) = ChainSet(diskFat, e.cluster)
BY DEF Clusters, ChainSet

LEMMA EntryAllocatedHolds == NamedInv => EntryAllocated
<1>1. SUFFICES ASSUME NamedInv, NEW d \in DataCluster, NEW r \in Row, Live(d, r)
               PROVE  /\ EntryOf(d, r).cluster \in DataCluster \ {ROOT_CLUSTER_NUMBER}
                      /\ diskFat[EntryOf(d, r).cluster] # FAT32_FAT_EMPTY_ENTRY
  BY DEF EntryAllocated
<1>2. LiveIn(disk, d, r) /\ DiskSound(disk, diskFat)
  BY <1>1, LiveIsLive DEF NamedInv
<1>3. disk[d].tab[r].cluster \in FileCluster /\ disk[d].tab[r].cluster \in DataCluster
  BY <1>2 DEF DiskSound, ChainsSound, FileCluster
<1>4. disk[d].tab[r].cluster \in ChainSet(diskFat, disk[d].tab[r].cluster)
  BY <1>3, ChainStart
<1>5. disk[d].tab[r].cluster \in Held(disk, diskFat)
  BY <1>2, <1>3, <1>4 DEF Held
<1>6. diskFat[disk[d].tab[r].cluster] # FAT32_FAT_EMPTY_ENTRY
  BY <1>2, <1>5, HeldAllocated
<1> QED BY <1>3, <1>6 DEF EntryOf, FileCluster

\* Whatever a directory names is allocated in the FAT on the disk, whatever writes
\* and deletes ran before and wherever the power failed between their disk writes.
THEOREM EntriesAllocated ==
    ASSUME ZeroName \notin Names
    PROVE  Spec => []EntryAllocated
BY EntryAllocatedHolds, DiskStaysSound, PTL

LEMMA LinkAllocatedHolds == NamedInv => LinkAllocated
BY LiveIsLive DEF NamedInv, DiskSound, ChainsSound, LinkAllocated, EntryOf

\* The chain of every file and folder comes to END_OF_FILE: read and delete never
\* follow one into a free cluster, into the reserved ones or in a circle.
THEOREM ChainsEnd ==
    ASSUME ZeroName \notin Names
    PROVE  Spec => []LinkAllocated
BY LinkAllocatedHolds, DiskStaysSound, PTL

LEMMA NoSharedClusterHolds == NamedInv => NoSharedCluster
<1>1. SUFFICES ASSUME NamedInv, NEW d1 \in DataCluster, NEW d2 \in DataCluster,
                      NEW r1 \in Row, NEW r2 \in Row, Live(d1, r1), Live(d2, r2)
               PROVE  /\ ROOT_CLUSTER_NUMBER \notin Clusters(EntryOf(d1, r1))
                      /\ \/ d1 = d2 /\ r1 = r2
                         \/ Clusters(EntryOf(d1, r1)) \cap Clusters(EntryOf(d2, r2)) = {}
  BY DEF NoSharedCluster
<1>2. LiveIn(disk, d1, r1) /\ LiveIn(disk, d2, r2) /\ DiskSound(disk, diskFat)
  BY <1>1, LiveIsLive DEF NamedInv
<1>3. ROOT_CLUSTER_NUMBER \notin ChainSet(diskFat, disk[d1].tab[r1].cluster)
  BY <1>2 DEF DiskSound, ChainsSound
<1>4. \/ d1 = d2 /\ r1 = r2
      \/ ChainSet(diskFat, disk[d1].tab[r1].cluster)
            \cap ChainSet(diskFat, disk[d2].tab[r2].cluster) = {}
  BY <1>2 DEF DiskSound, ChainsApart
<1> QED BY <1>3, <1>4, ClustersAreChain DEF EntryOf

\* No write or delete, complete or cut short, makes two files or folders share a
\* cluster, or one of them take the root's.
THEOREM NothingShared ==
    ASSUME ZeroName \notin Names
    PROVE  Spec => []NoSharedCluster
BY NoSharedClusterHolds, DiskStaysSound, PTL

LEMMA DirectoryAllocatedHolds == NamedInv => DirectoryAllocated
<1>1. SUFFICES ASSUME NamedInv, NEW d \in DataCluster, ValidDir(disk[d].tab)
               PROVE  /\ diskFat[d] = FAT32_FAT_END_OF_FILE
                      /\ \A x \in DataCluster, r \in Row :
                            Live(x, r) /\ ~ EntryOf(x, r).sub => d \notin Clusters(EntryOf(x, r))
  BY DEF DirectoryAllocated
<1>2. DirsSound(disk, diskFat)
  BY <1>1 DEF NamedInv, DiskSound
<1>3. diskFat[d] = FAT32_FAT_END_OF_FILE
  BY <1>1, <1>2 DEF DirsSound
<1>4. ASSUME NEW x \in DataCluster, NEW r \in Row, Live(x, r), ~ EntryOf(x, r).sub
      PROVE  d \notin Clusters(EntryOf(x, r))
  <2>1. LiveIn(disk, x, r) /\ ~ disk[x].tab[r].sub
    BY <1>4, LiveIsLive DEF EntryOf
  <2>2. d \notin ChainSet(diskFat, disk[x].tab[r].cluster)
    BY <1>1, <1>2, <2>1 DEF DirsSound
  <2> QED BY <2>2, ClustersAreChain DEF EntryOf
<1> QED BY <1>3, <1>4

\* A cluster that passes for a directory is allocated and belongs to no file: a shell
\* that kept the number of a removed folder cannot write into a file's data.
THEOREM DirectoriesAllocated ==
    ASSUME ZeroName \notin Names
    PROVE  Spec => []DirectoryAllocated
BY DirectoryAllocatedHolds, DiskStaysSound, PTL

LEMMA DotDotIsParentHolds == NamedInv => DotDotIsParent
<1>1. SUFFICES ASSUME NamedInv, NEW d \in DataCluster, NEW r \in Row,
                      Live(d, r), EntryOf(d, r).sub,
                      ValidDir(disk[EntryOf(d, r).cluster].tab)
               PROVE  /\ EntryOf(EntryOf(d, r).cluster, 0).cluster = EntryOf(d, r).cluster
                      /\ EntryOf(EntryOf(d, r).cluster, 0).name = EntryOf(d, r).name
                      /\ EntryOf(EntryOf(d, r).cluster, 1).cluster = d
  BY DEF DotDotIsParent
<1>2. LiveIn(disk, d, r) /\ HeadersSound(disk)
  BY <1>1, LiveIsLive DEF NamedInv, DiskSound
<1>3. Header(disk, d, EntryOf(d, r).cluster, EntryOf(d, r).name)
  BY <1>1, <1>2 DEF HeadersSound, EntryOf
<1> QED BY <1>3, Zenon DEF Header, EntryOf

\* A folder that has its table names itself and the folder that contains it.
THEOREM CdGoesBack ==
    ASSUME ZeroName \notin Names
    PROVE  Spec => []DotDotIsParent
BY DotDotIsParentHolds, DiskStaysSound, PTL

-----------------------------------------------------------------------------
(* Without power failures no space is lost *)

\* An entry names cluster c; a link of the FAT leads to it.
LiveAt(dk, c) == \E d \in DataCluster, r \in Row : LiveIn(dk, d, r) /\ dk[d].tab[r].cluster = c

LinkAt(f, c) == \E b \in DataCluster : f[b] = c

\* Every allocated cluster is the root's, an entry's, a link's, or the call's own.
Accounted(dk, f, own) ==
    \A c \in DataCluster :
        \/ f[c] = FAT32_FAT_EMPTY_ENTRY
        \/ c = ROOT_CLUSTER_NUMBER
        \/ LiveAt(dk, c)
        \/ LinkAt(f, c)
        \/ c \in own

\* The cluster that only the call under way knows of.
Own ==
    IF pc \in {"mkdirParent", "fill", "writeRow", "rmdirTable", "rmdirFat"} THEN {call.start}
    ELSE IF pc \in {"rmFirst", "rmLoop"} THEN {call.nxt} ELSE {}

LeakInv ==
    /\ pc = "off" => ~ signed
    /\ pc \notin {"off", "fmtFat", "fmtRoot", "wild", "spin", "overrun", "garbled"} =>
          Accounted(disk, cluster_map, Own)
    /\ pc \in {"rmdirTable", "rmdirFat"} => cluster_map[call.start] = FAT32_FAT_END_OF_FILE

\* A step accounts for what it allocates and for what it cuts loose.
LEMMA StillAccounted ==
    ASSUME NEW dk, NEW dk2, NEW f, NEW g, NEW own, NEW own2, Accounted(dk, f, own),
           \A c \in DataCluster :
              /\ f[c] = FAT32_FAT_EMPTY_ENTRY =>
                    g[c] = FAT32_FAT_EMPTY_ENTRY \/ LinkAt(g, c) \/ c \in own2
              /\ LiveAt(dk, c) => LiveAt(dk2, c) \/ c \in own2
              /\ LinkAt(f, c) => LinkAt(g, c) \/ c \in own2
              /\ c \in own => \/ g[c] = FAT32_FAT_EMPTY_ENTRY \/ c \in own2
                              \/ LiveAt(dk2, c) \/ LinkAt(g, c)
    PROVE  Accounted(dk2, g, own2)
BY DEF Accounted

\* A cluster without entries is written.
LEMMA LiveElsewhere ==
    ASSUME NEW dk, NEW dk2, NEW c \in DataCluster, NEW t, Placed(dk, c, t, dk2),
           ~ ValidDir(dk[c].tab) \/ TargetEmpty(dk[c].tab), NEW x, LiveAt(dk, x)
    PROVE  LiveAt(dk2, x)
<1>1. PICK d \in DataCluster, r \in Row : LiveIn(dk, d, r) /\ dk[d].tab[r].cluster = x
  BY DEF LiveAt
<1>2. d # c
  BY <1>1 DEF LiveIn, TargetEmpty
<1>3. dk2[d] = dk[d]
  BY <1>2 DEF Placed
<1>4. LiveIn(dk2, d, r) /\ dk2[d].tab[r].cluster = x
  BY <1>1, <1>3 DEF LiveIn
<1> QED BY <1>4 DEF LiveAt

\* A row is set: only what it named before is cut loose.
LEMMA LiveInRow ==
    ASSUME NEW dk, NEW dk2, NEW d, NEW r, NEW e, RowSet(dk, dk2, d, r, e)
    PROVE  /\ \A x : LiveAt(dk, x) => LiveAt(dk2, x) \/ (dk[d].tab[r].used /\ x = dk[d].tab[r].cluster)
           /\ e.used => LiveAt(dk2, e.cluster)
<1> USE DEF RowSet
<1>1. ValidDir(dk2[d].tab)
  BY Constants DEF ValidDir
<1>2. ASSUME NEW x, LiveAt(dk, x), ~ (dk[d].tab[r].used /\ x = dk[d].tab[r].cluster)
      PROVE  LiveAt(dk2, x)
  <2>1. PICK b \in DataCluster, q \in Row : LiveIn(dk, b, q) /\ dk[b].tab[q].cluster = x
    BY <1>2 DEF LiveAt
  <2>2. CASE b = d
    <3>1. q # r
      BY <1>2, <2>1, <2>2 DEF LiveIn
    <3>2. dk2[d].tab[q] = dk[d].tab[q]
      BY <3>1
    <3>3. LiveIn(dk2, d, q) /\ dk2[d].tab[q].cluster = x
      BY <1>1, <2>1, <2>2, <3>2 DEF LiveIn
    <3> QED BY <3>3 DEF LiveAt
  <2>3. CASE b # d
    <3>1. dk2[b] = dk[b]
      BY <2>3
    <3>2. LiveIn(dk2, b, q) /\ dk2[b].tab[q].cluster = x
      BY <2>1, <3>1 DEF LiveIn
    <3> QED BY <3>2 DEF LiveAt
  <2> QED BY <2>2, <2>3
<1>3. ASSUME e.used PROVE LiveAt(dk2, e.cluster)
  <2>1. LiveIn(dk2, d, r) /\ dk2[d].tab[r].cluster = e.cluster
    BY <1>1, <1>3 DEF LiveIn
  <2> QED BY <2>1 DEF LiveAt
<1> QED BY <1>2, <1>3

\* An entry of the FAT that is no link is replaced.
LEMMA LinksKept ==
    ASSUME NEW f, NEW g, NEW b, f[b] \notin DataCluster,
           \A x \in DataCluster : x # b => g[x] = f[x], NEW c \in DataCluster, LinkAt(f, c)
    PROVE  LinkAt(g, c)
<1>1. PICK x \in DataCluster : f[x] = c
  BY DEF LinkAt
<1>2. g[x] = c
  BY <1>1
<1> QED BY <1>2 DEF LinkAt

Counting == IInv /\ IInv' /\ NamedInv /\ LeakInv

LEMMA LeakQuiet ==
    ASSUME Counting, pc = "idle", UNCHANGED <<signed, disk, cluster_map>>, pc' \in {"idle", "wild", "spin", "overrun"}
    PROVE  LeakInv'
<1>1. Own = {} /\ (pc' = "idle" => Own' = {})
  BY DEF Own
<1>2. Accounted(disk, cluster_map, {})
  BY <1>1 DEF Counting, LeakInv
<1>3. pc' = "idle" => Accounted(disk', cluster_map', Own')
  BY <1>1, <1>2
<1> QED BY <1>3 DEF LeakInv

LEMMA LeakRead ==
    ASSUME Counting, NEW d \in DataCluster, NEW n,
           \/ ReadDirectory(d, n)
           \/ \E s \in Sizes : Read(d, n, s) \/ ReadRunaway(d, n, s)
           \/ WriteReject(d, n) \/ WriteOverrun(d, n) \/ DeleteReject(d, n)
    PROVE  LeakInv'
<1>1. pc = "idle"
  BY DEF ReadDirectory, Read, ReadRunaway, WriteReject, WriteOverrun, DeleteReject
<1>2. cluster_map = diskFat
  BY <1>1 DEF Counting, IInv, CacheSaved, Saved
<1>3. UNCHANGED <<signed, disk, cluster_map>>
  BY <1>2 DEF ReadDirectory, Read, ReadRunaway, WriteReject, WriteOverrun, DeleteReject, durable,
     Reload
<1>4. pc' \in {"idle", "wild", "spin", "overrun"}
  BY DEF ReadDirectory, Read, ReadRunaway, WriteReject, WriteOverrun, DeleteReject, Return
<1> QED BY <1>1, <1>3, <1>4, LeakQuiet

LEMMA LeakFormat ==
    ASSUME Counting, FormatSignature \/ FormatFat \/ FormatRoot
    PROVE  LeakInv'
<1>1. CASE FormatSignature
  BY <1>1 DEF FormatSignature, LeakInv
<1>2. CASE FormatFat
  BY <1>2 DEF FormatFat, LeakInv
<1>3. CASE FormatRoot
  <2>1. cluster_map' = FreshFat /\ pc' = "idle"
    BY <1>3 DEF FormatRoot, Return
  <2>2. \A c \in DataCluster : c = ROOT_CLUSTER_NUMBER \/ FreshFat[c] = FAT32_FAT_EMPTY_ENTRY
    BY Constants DEF FreshFat, DataCluster
  <2>3. Accounted(disk', cluster_map', Own')
    BY <2>1, <2>2 DEF Accounted
  <2> QED BY <2>1, <2>3 DEF LeakInv
<1> QED BY <1>1, <1>2, <1>3

LEMMA LeakMkdirFat ==
    ASSUME Counting, NEW d \in DataCluster, NEW n \in Names, MkdirFat(d, n)
    PROVE  LeakInv'
<1>1. PICK r \in Row, c \in DataCluster :
         /\ IsFirst(FreeRow(disk[d].tab), r)
         /\ IsFirst(FreeCluster(cluster_map), c)
         /\ call' = [NoCall EXCEPT !.parent = d, !.name = n, !.row = r, !.start = c]
         /\ cluster_map' = [cluster_map EXCEPT ![c] = FAT32_FAT_END_OF_FILE]
         /\ diskFat' = cluster_map'
  BY DEF MkdirFat
<1>2. /\ pc = "idle" /\ WriteCode(disk[d].tab, n) = 0 /\ pc' = "mkdirParent" /\ disk' = disk
  BY DEF MkdirFat
<1>3. cluster_map[c] = FAT32_FAT_EMPTY_ENTRY
  BY <1>1, <1>2, WriteBegins DEF Counting
<1>4. call'.start = c
  BY <1>1 DEF NoCall
<1>5. Own = {} /\ Own' = {c}
  BY <1>2, <1>4 DEF Own
<1>6. cluster_map[c] \notin DataCluster /\ \A x \in DataCluster : x # c => cluster_map'[x] = cluster_map[x]
  BY <1>1, <1>3, Constants DEF Counting, IInv, TypeOK
<1>7. \A x \in DataCluster : LinkAt(cluster_map, x) => LinkAt(cluster_map', x)
  BY <1>6, LinksKept
<1>8. Accounted(disk, cluster_map, {})
  BY <1>2, <1>5 DEF Counting, LeakInv
<1>9. Accounted(disk', cluster_map', {c})
  BY <1>2, <1>6, <1>7, <1>8, StillAccounted
<1> QED BY <1>2, <1>5, <1>9 DEF LeakInv

LEMMA LeakMkdirParent == ASSUME Counting, MkdirParent PROVE LeakInv'
<1> DEFINE e == DirEntry(call.name, call.start)
<1>1. /\ pc = "mkdirParent" /\ pc' = "mkdirTable"
      /\ UNCHANGED <<signed, diskFat, cluster_map, call, ret>>
      /\ dir_table_buf' = [dir_table_buf EXCEPT ![call.row] = e]
      /\ disk' = [disk EXCEPT ![call.parent] = TableBlock(dir_table_buf')]
  BY DEF MkdirParent
<1>2. /\ call.parent \in DataCluster /\ ValidDir(disk[call.parent].tab)
      /\ call.row \in Row /\ call.row >= 2
      /\ dir_table_buf = disk[call.parent].tab
      /\ disk \in [DataCluster -> Block] /\ dir_table_buf \in Table /\ dir_table_buf' \in Table
  BY <1>1 DEF Counting, IInv, CallSound, TypeOK, Call
<1>3. ~ disk[call.parent].tab[call.row].used
  BY <1>1 DEF Counting, NamedInv, CallOwns
<1>4. e.used /\ e.cluster = call.start
  BY DEF DirEntry
<1> HIDE DEF e
<1>5. Placed(disk, call.parent, dir_table_buf', disk')
  BY <1>1, <1>2, TableWrite
<1>6. RowSet(disk, disk', call.parent, call.row, e)
  BY <1>1, <1>2, <1>5 DEF Placed, Table, RowSet
<1>7. LiveAt(disk', call.start) /\ \A x : LiveAt(disk, x) => LiveAt(disk', x)
  BY <1>3, <1>4, <1>6, LiveInRow
<1>8. Own = {call.start} /\ Own' = {}
  BY <1>1 DEF Own
<1>9. Accounted(disk, cluster_map, {call.start})
  BY <1>1, <1>8 DEF Counting, LeakInv
<1>10. Accounted(disk', cluster_map, {})
  BY <1>7, <1>9, StillAccounted
<1> QED BY <1>1, <1>8, <1>10 DEF LeakInv

LEMMA LeakMkdirTable == ASSUME Counting, MkdirTable PROVE LeakInv'
<1> DEFINE t == init_directory_table(call.name, call.start, call.parent)
<1>1. /\ pc = "mkdirTable" /\ pc' = "idle" /\ cluster_map' = cluster_map
      /\ disk' = [disk EXCEPT ![call.start] = TableBlock(t)]
  BY DEF MkdirTable, Return
<1>2. /\ call.start \in DataCluster /\ ~ ValidDir(disk[call.start].tab)
      /\ call.start \in Cluster /\ call.name \in AllNames /\ call.parent \in Cluster
      /\ disk \in [DataCluster -> Block]
  BY <1>1, Constants DEF Counting, IInv, CallSound, TypeOK, Call, FileCluster
<1>3. t \in Table
  BY <1>2, NewTable
<1> HIDE DEF t
<1>4. Placed(disk, call.start, t, disk')
  BY <1>1, <1>2, <1>3, TableWrite
<1>5. \A x : LiveAt(disk, x) => LiveAt(disk', x)
  BY <1>2, <1>4, LiveElsewhere
<1>6. Own = {} /\ Own' = {}
  BY <1>1 DEF Own
<1>7. Accounted(disk, cluster_map, {})
  BY <1>1, <1>6 DEF Counting, LeakInv
<1>8. Accounted(disk', cluster_map, {})
  BY <1>5, <1>7, StillAccounted
<1> QED BY <1>1, <1>6, <1>8 DEF LeakInv

LEMMA LeakWriteFirst ==
    ASSUME Counting, NEW d \in DataCluster, NEW n \in Names,
           NEW s \in Sizes \ {0}, NEW p \in Payloads, WriteFirst(d, n, s, p)
    PROVE  LeakInv'
<1>1. PICK r \in Row, c \in DataCluster :
         /\ IsFirst(FreeRow(disk[d].tab), r)
         /\ IsFirst(FreeCluster(cluster_map), c)
         /\ call' = [NoCall EXCEPT !.parent = d, !.name = n, !.size = s,
                                   !.payload = p, !.row = r, !.start = c,
                                   !.cur = c, !.need = Needed(s) - 1]
         /\ cluster_map' = [cluster_map EXCEPT ![c] = FAT32_FAT_END_OF_FILE]
         /\ disk' = [disk EXCEPT ![c] = DataBlock(p, 0, ClusterSize)]
  BY DEF WriteFirst
<1>2. pc = "idle" /\ WriteCode(disk[d].tab, n) = 0 /\ pc' = "fill"
  BY DEF WriteFirst
<1>3. cluster_map[c] = FAT32_FAT_EMPTY_ENTRY /\ ~ ValidDir(disk[c].tab)
  BY <1>1, <1>2, WriteBegins DEF Counting
<1>4. call'.start = c
  BY <1>1 DEF NoCall
<1>5. Own = {} /\ Own' = {c}
  BY <1>2, <1>4 DEF Own
<1>6. cluster_map[c] \notin DataCluster /\ \A x \in DataCluster : x # c => cluster_map'[x] = cluster_map[x]
  BY <1>1, <1>3, Constants DEF Counting, IInv, TypeOK
<1>7. \A x \in DataCluster : LinkAt(cluster_map, x) => LinkAt(cluster_map', x)
  BY <1>6, LinksKept
<1>8. Placed(disk, c, ZeroTable, disk')
  <2>1. DataBlock(p, 0, ClusterSize) \in Block /\ DataBlock(p, 0, ClusterSize).tab = ZeroTable
    BY DataBlockType, SizeAssumption
  <2>2. disk \in [DataCluster -> Block]
    BY DEF Counting, IInv, TypeOK
  <2> QED BY <1>1, <2>1, <2>2, DataWrite
<1>9. \A x : LiveAt(disk, x) => LiveAt(disk', x)
  BY <1>3, <1>8, LiveElsewhere
<1>10. Accounted(disk, cluster_map, {})
  BY <1>2, <1>5 DEF Counting, LeakInv
<1>11. Accounted(disk', cluster_map', {c})
  BY <1>6, <1>7, <1>9, <1>10, StillAccounted
<1> QED BY <1>2, <1>5, <1>11 DEF LeakInv

LEMMA LeakWriteNext == ASSUME Counting, WriteNext PROVE LeakInv'
<1>1. PICK c \in DataCluster :
         /\ IsFirst(FreeAfter(cluster_map, call.cur), c)
         /\ cluster_map' = [cluster_map EXCEPT ![call.cur] = c,
                                               ![c] = FAT32_FAT_END_OF_FILE]
         /\ disk' = [disk EXCEPT ![c] =
                        DataBlock(call.payload, Needed(call.size) - call.need,
                                  PartSize(call.size, call.need))]
         /\ call' = [call EXCEPT !.cur = c, !.need = @ - 1]
  BY DEF WriteNext
<1>2. pc = "fill" /\ pc' = "fill" /\ call \in Call /\ call.cur \in DataCluster
  BY DEF WriteNext, Counting, IInv, TypeOK, CallSound, FileCluster
<1>3. /\ cluster_map[c] = FAT32_FAT_EMPTY_ENTRY /\ c \in FileCluster /\ ~ ValidDir(disk[c].tab)
      /\ c # call.cur
  BY <1>1, <1>2, NextIsFree DEF Counting
<1>4. /\ cluster_map'[call.cur] = c /\ cluster_map'[c] = FAT32_FAT_END_OF_FILE
      /\ \A x \in Cluster : x \notin {c, call.cur} => cluster_map'[x] = cluster_map[x]
  BY <1>1, <1>2, <1>3, WriteNextMap DEF Counting
<1>5. cluster_map[call.cur] = FAT32_FAT_END_OF_FILE
  BY <1>2 DEF Counting, NamedInv, CallOwns, Building
<1>6. LinkAt(cluster_map', c)
  BY <1>2, <1>4 DEF LinkAt
<1>7. ASSUME NEW x \in DataCluster, LinkAt(cluster_map, x) PROVE LinkAt(cluster_map', x)
  <2>1. PICK b \in DataCluster : cluster_map[b] = x
    BY <1>7 DEF LinkAt
  <2>2. b \notin {c, call.cur}
    BY <1>3, <1>5, <2>1, Constants
  <2>3. cluster_map'[b] = x
    BY <1>4, <2>1, <2>2, Constants
  <2> QED BY <2>3 DEF LinkAt
<1>8. Placed(disk, c, ZeroTable, disk')
  BY WriteNextPlaces, <1>1, <1>2 DEF Counting
<1>9. \A x : LiveAt(disk, x) => LiveAt(disk', x)
  BY <1>3, <1>8, LiveElsewhere
<1>10. \A x \in DataCluster : x # c /\ cluster_map[x] = FAT32_FAT_EMPTY_ENTRY =>
          cluster_map'[x] = FAT32_FAT_EMPTY_ENTRY
  <2>1. cluster_map[call.cur] # FAT32_FAT_EMPTY_ENTRY
    BY <1>5, Values
  <2> QED BY <1>4, <2>1, Constants
<1>11. call'.start = call.start
  BY <1>1, <1>2 DEF Call
<1>12. Own = {call.start} /\ Own' = {call.start}
  BY <1>2, <1>11 DEF Own
<1>13. Accounted(disk, cluster_map, {call.start})
  BY <1>2, <1>12 DEF Counting, LeakInv
<1>14. Accounted(disk', cluster_map', {call.start})
  BY <1>6, <1>7, <1>9, <1>10, <1>13, StillAccounted
<1> QED BY <1>2, <1>12, <1>14 DEF LeakInv

LEMMA LeakWriteFat == ASSUME Counting, WriteFat PROVE LeakInv'
<1>1. pc = "fill" /\ pc' = "writeRow" /\ UNCHANGED <<disk, cluster_map, call>>
  BY DEF WriteFat
<1>2. Own = {call.start} /\ Own' = {call.start}
  BY <1>1 DEF Own
<1>3. Accounted(disk, cluster_map, {call.start})
  BY <1>1, <1>2 DEF Counting, LeakInv
<1> QED BY <1>1, <1>2, <1>3 DEF LeakInv

LEMMA LeakWriteRow == ASSUME Counting, WriteRow PROVE LeakInv'
<1> DEFINE e == FileEntry(call.name, call.start, call.size)
           t == [dir_table_buf EXCEPT ![call.row] = e]
<1>1. /\ pc = "writeRow" /\ pc' = "idle" /\ cluster_map' = cluster_map
      /\ disk' = [disk EXCEPT ![call.parent] = TableBlock(t)]
  BY DEF WriteRow, Return
<1>2. /\ call.parent \in DataCluster /\ ValidDir(disk[call.parent].tab)
      /\ call.row \in Row /\ call.row >= 2
      /\ dir_table_buf = disk[call.parent].tab
      /\ disk \in [DataCluster -> Block] /\ dir_table_buf \in Table /\ call \in Call
  BY <1>1 DEF Counting, IInv, CallSound, TypeOK, Call
<1>3. ~ disk[call.parent].tab[call.row].used
  BY <1>1 DEF Counting, NamedInv, CallOwns
<1>4. e.used /\ e.cluster = call.start /\ e \in Entry
  BY <1>2 DEF FileEntry, Entry, Call
<1> HIDE DEF e
<1>5. t \in Table /\ t[call.row] = e /\ \A y \in Row : y # call.row => t[y] = dir_table_buf[y]
  BY <1>2, <1>4 DEF Table
<1> HIDE DEF t
<1>6. Placed(disk, call.parent, t, disk')
  BY <1>1, <1>2, <1>5, TableWrite
<1>7. RowSet(disk, disk', call.parent, call.row, e)
  BY <1>2, <1>5, <1>6 DEF Placed, RowSet
<1>8. LiveAt(disk', call.start) /\ \A x : LiveAt(disk, x) => LiveAt(disk', x)
  BY <1>3, <1>4, <1>7, LiveInRow
<1>9. Own = {call.start} /\ Own' = {}
  BY <1>1 DEF Own
<1>10. Accounted(disk, cluster_map, {call.start})
  BY <1>1, <1>9 DEF Counting, LeakInv
<1>11. Accounted(disk', cluster_map, {})
  BY <1>8, <1>10, StillAccounted
<1> QED BY <1>1, <1>9, <1>11 DEF LeakInv

LEMMA LeakRmdirParent ==
    ASSUME Counting, ZeroName \notin Names,
           NEW d \in DataCluster, NEW n \in Names, RmdirParent(d, n)
    PROVE  LeakInv'
<1>1. PICK r \in DeleteRow(disk[d].tab, n) :
         /\ disk[d].tab[r].sub
         /\ call' = [NoCall EXCEPT !.parent = d, !.row = r, !.start = disk[d].tab[r].cluster]
         /\ dir_table_buf' = [disk[d].tab EXCEPT ![r] = ErasedDir(disk[d].tab[r])]
  BY DEF RmdirParent
<1>2. /\ pc = "idle" /\ DeleteCode(disk[d].tab, n) = 0 /\ pc' = "rmdirTable"
      /\ disk' = [disk EXCEPT ![d] = TableBlock(dir_table_buf')]
      /\ UNCHANGED <<signed, diskFat, cluster_map>>
  BY DEF RmdirParent
<1>3. ValidDir(disk[d].tab) /\ r \in Row /\ r >= 2
  BY <1>1, <1>2, DeleteBegins DEF Counting
<1>4. disk[d].tab[r].used
  BY <1>1, <1>2, FoundInUse DEF Counting, Sound
<1>5. /\ disk \in [DataCluster -> Block] /\ disk[d].tab \in Table /\ dir_table_buf' \in Table
      /\ ChainsSound(disk, diskFat) /\ cluster_map = diskFat
  BY <1>2 DEF Counting, IInv, TypeOK, Block, NamedInv, DiskSound, CacheSaved, Saved
<1> DEFINE e == ErasedDir(disk[d].tab[r])
           c == disk[d].tab[r].cluster
<1>6. RowSet(disk, disk', d, r, e)
  <2>1. Placed(disk, d, dir_table_buf', disk')
    BY <1>2, <1>5, TableWrite
  <2>2. dir_table_buf'[r] = e /\ \A y \in Row : y # r => dir_table_buf'[y] = disk[d].tab[y]
    <3> HIDE DEF ErasedDir
    <3> QED BY <1>1, <1>3, <1>5 DEF Table
  <2> HIDE DEF e
  <2> QED BY <1>3, <2>1, <2>2 DEF Placed, RowSet
<1>7. LiveIn(disk, d, r)
  BY <1>3, <1>4 DEF LiveIn
<1>8. cluster_map[c] = FAT32_FAT_END_OF_FILE
  BY <1>1, <1>3, <1>5, <1>7 DEF ChainsSound
<1>9. call'.start = c
  BY <1>1 DEF NoCall
<1> HIDE DEF e, c
<1>10. \A x : LiveAt(disk, x) => LiveAt(disk', x) \/ x = c
  BY <1>6, LiveInRow DEF c
<1>11. Own = {} /\ Own' = {c}
  BY <1>2, <1>9 DEF Own
<1>12. Accounted(disk, cluster_map, {})
  BY <1>2, <1>11 DEF Counting, LeakInv
<1>13. Accounted(disk', cluster_map, {c})
  BY <1>10, <1>12, StillAccounted
<1> QED BY <1>2, <1>8, <1>9, <1>11, <1>13 DEF LeakInv

LEMMA LeakRmdirTable == ASSUME Counting, RmdirTable PROVE LeakInv'
<1>1. /\ pc = "rmdirTable" /\ pc' = "rmdirFat" /\ UNCHANGED <<signed, diskFat, cluster_map, call>>
  BY DEF RmdirTable
<1>2. call.start \in DataCluster /\ TargetEmpty(disk[call.start].tab)
  BY <1>1 DEF Counting, IInv, CallSound, FileCluster
<1>3. Placed(disk, call.start, disk'[call.start].tab, disk')
  BY RmdirTableEffect DEF Counting
<1>4. \A x : LiveAt(disk, x) => LiveAt(disk', x)
  BY <1>2, <1>3, LiveElsewhere
<1>5. Own = {call.start} /\ Own' = {call.start}
  BY <1>1 DEF Own
<1>6. Accounted(disk, cluster_map, {call.start}) /\ cluster_map[call.start] = FAT32_FAT_END_OF_FILE
  BY <1>1, <1>5 DEF Counting, LeakInv
<1>7. Accounted(disk', cluster_map, {call.start})
  BY <1>4, <1>6, StillAccounted
<1> QED BY <1>1, <1>5, <1>6, <1>7 DEF LeakInv

LEMMA LeakRmdirFat == ASSUME Counting, RmdirFat PROVE LeakInv'
<1>1. /\ pc = "rmdirFat" /\ pc' = "idle" /\ disk' = disk
      /\ cluster_map' = [cluster_map EXCEPT ![call.start] = FAT32_FAT_EMPTY_ENTRY]
  BY DEF RmdirFat, Return
<1>2. call.start \in DataCluster /\ cluster_map \in [Cluster -> 0 .. NCluster + 1]
  BY <1>1 DEF Counting, IInv, CallSound, TypeOK, FileCluster
<1>3. Own = {call.start} /\ Own' = {}
  BY <1>1 DEF Own
<1>4. Accounted(disk, cluster_map, {call.start}) /\ cluster_map[call.start] = FAT32_FAT_END_OF_FILE
  BY <1>1, <1>3 DEF Counting, LeakInv
<1>5. /\ cluster_map[call.start] \notin DataCluster
      /\ cluster_map'[call.start] = FAT32_FAT_EMPTY_ENTRY
      /\ \A x \in DataCluster : x # call.start => cluster_map'[x] = cluster_map[x]
  BY <1>1, <1>2, <1>4, Constants
<1>6. \A x \in DataCluster : LinkAt(cluster_map, x) => LinkAt(cluster_map', x)
  BY <1>5, LinksKept
<1>7. Accounted(disk, cluster_map', {})
  BY <1>4, <1>5, <1>6, StillAccounted
<1> QED BY <1>1, <1>3, <1>7 DEF LeakInv

LEMMA LeakRmRow ==
    ASSUME Counting, NEW d \in DataCluster, NEW n \in Names, RmRow(d, n)
    PROVE  LeakInv'
<1>1. PICK r \in DeleteRow(disk[d].tab, n) :
         /\ call' = [NoCall EXCEPT !.parent = d, !.row = r, !.nxt = disk[d].tab[r].cluster]
         /\ dir_table_buf' = [disk[d].tab EXCEPT ![r] = ZeroEntry]
  BY DEF RmRow
<1>2. /\ pc = "idle" /\ DeleteCode(disk[d].tab, n) = 0 /\ pc' = "rmFirst"
      /\ disk' = [disk EXCEPT ![d] = TableBlock(dir_table_buf')]
      /\ UNCHANGED <<signed, diskFat, cluster_map>>
  BY DEF RmRow
<1>3. ValidDir(disk[d].tab) /\ r \in Row /\ r >= 2
  BY <1>1, <1>2, DeleteBegins DEF Counting
<1>4. disk \in [DataCluster -> Block] /\ disk[d].tab \in Table /\ dir_table_buf' \in Table
  BY DEF Counting, IInv, TypeOK, Block
<1> DEFINE c == disk[d].tab[r].cluster
<1>5. RowSet(disk, disk', d, r, ZeroEntry)
  <2>1. Placed(disk, d, dir_table_buf', disk')
    BY <1>2, <1>4, TableWrite
  <2>2. dir_table_buf'[r] = ZeroEntry /\ \A y \in Row : y # r => dir_table_buf'[y] = disk[d].tab[y]
    BY <1>1, <1>3, <1>4 DEF Table
  <2> QED BY <1>3, <2>1, <2>2 DEF Placed, RowSet
<1>6. call'.nxt = c
  BY <1>1 DEF NoCall
<1> HIDE DEF c
<1>7. \A x : LiveAt(disk, x) => LiveAt(disk', x) \/ x = c
  BY <1>5, LiveInRow DEF c
<1>8. Own = {} /\ Own' = {c}
  BY <1>2, <1>6 DEF Own
<1>9. Accounted(disk, cluster_map, {})
  BY <1>2, <1>8 DEF Counting, LeakInv
<1>10. Accounted(disk', cluster_map, {c})
  BY <1>7, <1>9, StillAccounted
<1> QED BY <1>2, <1>8, <1>10 DEF LeakInv

LEMMA LeakRmCluster == ASSUME Counting, RmCluster PROVE LeakInv'
<1> DEFINE c == call.nxt
           v == cluster_map[c]
<1>1. /\ pc \in {"rmFirst", "rmLoop"} /\ pc' = "rmLoop" /\ c \in DataCluster
      /\ call' = [call EXCEPT !.cur = call.nxt, !.nxt = cluster_map[call.nxt]]
      /\ cluster_map' = [cluster_map EXCEPT ![c] = FAT32_FAT_EMPTY_ENTRY]
      /\ disk' = [disk EXCEPT ![c] = ZeroBlock]
  BY DEF RmCluster
<1>2. /\ disk \in [DataCluster -> Block] /\ call \in Call
      /\ cluster_map \in [Cluster -> 0 .. NCluster + 1]
  BY DEF Counting, IInv, TypeOK
<1>3. ~ ValidDir(disk[c].tab)
  BY <1>1 DEF Counting, NamedInv, CallOwns, Detached, Held
<1>4. Placed(disk, c, ZeroTable, disk')
  BY <1>1, <1>2, BlankTypes, DataWrite
<1>5. \A x : LiveAt(disk, x) => LiveAt(disk', x)
  BY <1>1, <1>3, <1>4, LiveElsewhere
<1>6. call'.nxt = v
  BY <1>1, <1>2 DEF Call
<1>7. /\ cluster_map'[c] = FAT32_FAT_EMPTY_ENTRY
      /\ \A x \in DataCluster : x # c => cluster_map'[x] = cluster_map[x]
  BY <1>1, <1>2, Constants
<1> HIDE DEF v
<1>8. ASSUME NEW x \in DataCluster, LinkAt(cluster_map, x) PROVE LinkAt(cluster_map', x) \/ x = v
  <2>1. PICK b \in DataCluster : cluster_map[b] = x
    BY <1>8 DEF LinkAt
  <2>2. CASE b = c
    BY <2>1, <2>2 DEF v
  <2>3. CASE b # c
    BY <1>7, <2>1, <2>3 DEF LinkAt
  <2> QED BY <2>2, <2>3
<1>9. Own = {c} /\ Own' = {v}
  BY <1>1, <1>6 DEF Own
<1>10. Accounted(disk, cluster_map, {c})
  BY <1>1, <1>9 DEF Counting, LeakInv
<1> HIDE DEF c
<1>11. Accounted(disk', cluster_map', {v})
  BY <1>5, <1>7, <1>8, <1>10, StillAccounted
<1> QED BY <1>1, <1>9, <1>11 DEF LeakInv

LEMMA LeakRmFat == ASSUME Counting, RmFat PROVE LeakInv'
<1>1. /\ pc = "rmLoop" /\ pc' = "rmLast" /\ UNCHANGED <<disk, cluster_map>>
      /\ call.nxt = FAT32_FAT_END_OF_FILE
  BY DEF RmFat
<1>2. Own = {call.nxt} /\ Own' = {}
  BY <1>1 DEF Own
<1>3. Accounted(disk, cluster_map, {call.nxt})
  BY <1>1, <1>2 DEF Counting, LeakInv
<1>4. call.nxt \notin DataCluster
  BY <1>1, Constants
<1>5. Accounted(disk, cluster_map, {})
  BY <1>3, <1>4 DEF Accounted
<1> QED BY <1>1, <1>2, <1>5 DEF LeakInv

LEMMA LeakRmLast == ASSUME Counting, RmLast PROVE LeakInv'
<1>1. /\ pc = "rmLast" /\ pc' = "idle" /\ cluster_map' = cluster_map
      /\ disk' = [disk EXCEPT ![call.cur] = ZeroBlock]
  BY DEF RmLast, Return
<1>2. call.cur \in DataCluster /\ disk \in [DataCluster -> Block]
  BY <1>1 DEF Counting, IInv, TypeOK, CallSound, FileCluster
<1>3. ~ ValidDir(disk[call.cur].tab)
  BY <1>1, <1>2 DEF Counting, NamedInv, CallOwns, Held
<1>4. Placed(disk, call.cur, ZeroTable, disk')
  BY <1>1, <1>2, BlankTypes, DataWrite
<1>5. \A x : LiveAt(disk, x) => LiveAt(disk', x)
  BY <1>2, <1>3, <1>4, LiveElsewhere
<1>6. Own = {} /\ Own' = {}
  BY <1>1 DEF Own
<1>7. Accounted(disk, cluster_map, {})
  BY <1>1, <1>6 DEF Counting, LeakInv
<1>8. Accounted(disk', cluster_map, {})
  BY <1>5, <1>7, StillAccounted
<1> QED BY <1>1, <1>6, <1>8 DEF LeakInv

LEMMA LeakStops ==
    ASSUME Counting, FillOverrun \/ RmRunaway \/ Boot \/ Wild \/ UNCHANGED vars
    PROVE  LeakInv'
<1>1. CASE FillOverrun \/ RmRunaway
  <2>1. pc' \in {"wild", "spin", "overrun"}
    BY <1>1 DEF FillOverrun, RmRunaway
  <2> QED BY <2>1 DEF LeakInv
<1>2. CASE Boot
  BY <1>2 DEF Boot, Counting, LeakInv
<1>3. CASE UNCHANGED vars
  <2>1. UNCHANGED <<signed, disk, cluster_map, pc, call>>
    BY <1>3 DEF vars, durable
  <2>2. Own' = Own
    BY <2>1 DEF Own
  <2> QED BY <2>1, <2>2 DEF Counting, LeakInv
<1> QED BY <1>1, <1>2, <1>3 DEF Wild, Lost

LEMMA LeakNext ==
    ASSUME Counting, ZeroName \notin Names, [PoweredNext]_vars
    PROVE  LeakInv'
<1>1. CASE Continue
  BY <1>1, LeakFormat, LeakMkdirParent, LeakMkdirTable, LeakWriteNext, LeakStops,
     LeakWriteFat, LeakWriteRow, LeakRmdirTable, LeakRmdirFat, LeakRmCluster,
     LeakRmFat, LeakRmLast DEF Continue
<1>2. CASE Request
  BY <1>2, LeakRead, LeakMkdirFat, LeakWriteFirst, LeakRmdirParent, LeakRmRow DEF Request
<1> QED BY <1>1, <1>2, LeakFormat, LeakStops DEF PoweredNext

\* As long as the power stays on no space is lost: between calls every allocated
\* cluster is the root's, that of an entry, or one that another cluster links to.
THEOREM NoSpaceLost ==
    ASSUME ZeroName \notin Names
    PROVE  PoweredSpec => []NoLeak
<1> DEFINE All == IInv /\ NamedInv /\ LeakInv
<1>1. Init => All
  BY InitHolds, NamedInit DEF Init, LeakInv
<1>2. All /\ [PoweredNext]_vars => All'
  <2>1. SUFFICES ASSUME All, [PoweredNext]_vars PROVE All'
    OBVIOUS
  <2>2. [Next]_vars
    BY <2>1 DEF PoweredNext, Next
  <2>3. IInv'
    BY <2>1, <2>2, NextPreserves
  <2>4. NamedInv'
    BY <2>1, <2>2, <2>3, NamedNext DEF Sound
  <2>5. LeakInv'
    BY <2>1, <2>3, LeakNext DEF Counting
  <2> QED BY <2>3, <2>4, <2>5
<1>3. All => NoLeak
  <2>1. SUFFICES ASSUME All, pc = "idle", NEW c \in DataCluster
                 PROVE  \/ diskFat[c] = FAT32_FAT_EMPTY_ENTRY
                        \/ c = ROOT_CLUSTER_NUMBER
                        \/ \E d \in DataCluster, r \in Row : Live(d, r) /\ EntryOf(d, r).cluster = c
                        \/ \E b \in DataCluster : diskFat[b] = c
    BY DEF NoLeak
  <2>2. cluster_map = diskFat /\ Own = {}
    BY <2>1 DEF IInv, CacheSaved, Saved, Own
  <2>3. Accounted(disk, diskFat, {})
    BY <2>1, <2>2 DEF LeakInv
  <2>4. LiveAt(disk, c) => \E d \in DataCluster, r \in Row : Live(d, r) /\ EntryOf(d, r).cluster = c
    BY LiveIsLive DEF LiveAt, EntryOf
  <2> QED BY <2>3, <2>4 DEF Accounted, LinkAt
<1> HIDE DEF All
<1> QED BY <1>1, <1>2, <1>3, PTL DEF PoweredSpec

=============================================================================
