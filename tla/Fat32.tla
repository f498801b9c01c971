------------------------------- MODULE Fat32 -------------------------------
(***************************************************************************)
(* The file system driver, src/src/filesystem/fat32.c.                      *)
(*                                                                         *)
(* Every action ends at a disk write of the code: between two writes the   *)
(* machine may be switched off (Crash) and booted again (Boot, Format...), *)
(* and then only signed, diskFat and disk are left.  A cluster is written  *)
(* sector by sector, and power may fail in between (FatTorn,               *)
(* MkdirTableTorn): other writes of tables change one sector, and those of *)
(* file data go to clusters no row names.  The kernel runs a system call   *)
(* with interrupts off, so no other call interleaves with a call under     *)
(* way; several shells, each with a current directory of its own that the  *)
(* others may have removed, may however ask for any parent cluster.        *)
(*                                                                         *)
(* Data: a name stands for the pair (name, ext) and a payload for the      *)
(* contents of a request's buffer.  A cluster holds a directory table or   *)
(* part of a file; file contents read as a table without a valid header.   *)
(***************************************************************************)
EXTENDS Integers

CONSTANTS
    NCluster,       \* CLUSTER_MAP_SIZE
    NRow,           \* entries of a directory table
    SectorEntries,  \* entries of the FAT in a sector
    SectorRows,     \* entries of a directory table in a sector
    ClusterSize,    \* CLUSTER_SIZE
    Names,          \* the names that requests carry
    ZeroName,       \* the name of eight NUL bytes, that of an erased row
    RootName,       \* "root"
    DotDot,         \* ".."
    Payloads,       \* contents of request buffers
    NoPayload,      \* contents of a cluster that holds no file data
    Sizes           \* the buffer sizes of requests; 0 asks for a folder

ASSUME SizeAssumption ==
    /\ NCluster \in Nat /\ NCluster > 3
    /\ NRow \in Nat /\ NRow > 2
    /\ SectorEntries \in Nat /\ SectorEntries > 0
    /\ SectorRows \in Nat /\ SectorRows > 1
    /\ ClusterSize \in Nat /\ ClusterSize > 0
    /\ Sizes \subseteq Nat

ASSUME NameAssumption ==
    /\ ZeroName \notin {RootName, DotDot} /\ RootName # DotDot
    /\ NoPayload \notin Payloads

Cluster == 0 .. NCluster - 1
DataCluster == 2 .. NCluster - 1
Row == 0 .. NRow - 1

ROOT_CLUSTER_NUMBER == 2
FAT32_FAT_EMPTY_ENTRY == 0
FAT32_FAT_END_OF_FILE == NCluster
CLUSTER_0_VALUE == NCluster + 1
CLUSTER_1_VALUE == FAT32_FAT_END_OF_FILE

AllNames == Names \cup {ZeroName, RootName, DotDot}

\* struct FAT32DirectoryEntry: used is user_attribute = UATTR_NOT_EMPTY and
\* sub is attribute = ATTR_SUBDIRECTORY.
Entry == [name : AllNames, sub : BOOLEAN, used : BOOLEAN,
          cluster : Cluster, size : Sizes \cup {0}]

\* Bytes 0 .. n-1 of the k-th part of payload p.
Data == [p : Payloads \cup {NoPayload}, k : Nat, n : 0 .. ClusterSize]

Table == [Row -> Entry]
Block == [tab : Table, data : Data]

ZeroEntry == [name |-> ZeroName, sub |-> FALSE, used |-> FALSE,
              cluster |-> 0, size |-> 0]
ZeroTable == [r \in Row |-> ZeroEntry]
NoData == [p |-> NoPayload, k |-> 0, n |-> 0]
ZeroBlock == [tab |-> ZeroTable, data |-> NoData]
TableBlock(t) == [tab |-> t, data |-> NoData]
DataBlock(p, k, n) == [tab |-> ZeroTable, data |-> [p |-> p, k |-> k, n |-> n]]

VARIABLES
    signed,         \* the boot sector holds fs_signature
    diskFat,        \* the FAT in cluster FAT_CLUSTER_NUMBER
    disk,           \* the data clusters
    cluster_map,    \* driver_state.fat_table
    dir_table_buf,  \* driver_state.dir_table_buf
    pc,             \* where the driver is: "off", "idle", inside a call, or one
                    \* of Lost
    call,           \* the request and the local variables of the call
    ret             \* the code the last call returned, 0 in between

durable == <<signed, diskFat, disk>>
vars == <<durable, cluster_map, dir_table_buf, pc, call, ret>>

Call == [parent : Cluster, name : AllNames, size : Sizes \cup {0},
         payload : Payloads \cup {NoPayload}, row : Row, start : Cluster,
         cur : Cluster, nxt : Nat, need : Nat]
NoCall == [parent |-> 0, name |-> ZeroName, size |-> 0, payload |-> NoPayload,
           row |-> 0, start |-> 0, cur |-> 0, nxt |-> 0, need |-> 0]

NoFat == [c \in Cluster |-> FAT32_FAT_EMPTY_ENTRY]

\* The driver is where this model does not follow: a scan for a free cluster has
\* run past the map ("overrun"), a loop along a chain has left the map ("wild")
\* or goes round for ever ("spin"), file data passes for rows ("garbled").
Lost == {"overrun", "wild", "spin", "garbled"}

-----------------------------------------------------------------------------
(* Helpers of the driver *)

IsFirst(S, x) == x \in S /\ \A y \in S : x <= y

FreeCluster(f) == {c \in Cluster : f[c] = FAT32_FAT_EMPTY_ENTRY}

\* The test write and delete make of the table of the parent cluster.
ValidDir(t) == t[0].used /\ t[0].sub

\* Rows 0 and 1 are the folder itself and its parent: contents start at 2.
FreeRow(t) == {r \in Row : r >= 2 /\ ~ t[r].used}
\* Fault: the scan for the name starts one row late.
MatchFrom_OneLate(t, n, r0) == {r \in Row : r > r0 /\ t[r].name = n}

MatchFrom(t, n, r0) == {r \in Row : r >= r0 /\ t[r].name = n}

DirEntry(n, c) == [name |-> n, sub |-> TRUE, used |-> TRUE,
                   cluster |-> c, size |-> 0]

init_directory_table(n, self, parent) ==
    [ZeroTable EXCEPT ![0] = DirEntry(n, self), ![1] = DirEntry(DotDot, parent)]

\* Fault: the FAT's own cluster is not marked.
FreshFat_NoFatMark == [c \in Cluster |->
                IF c = 0 THEN CLUSTER_0_VALUE
                ELSE IF c = ROOT_CLUSTER_NUMBER THEN FAT32_FAT_END_OF_FILE
                ELSE FAT32_FAT_EMPTY_ENTRY]

FreshFat == [c \in Cluster |->
                CASE c = 0 -> CLUSTER_0_VALUE
                  [] c = 1 -> CLUSTER_1_VALUE
                  [] c = ROOT_CLUSTER_NUMBER -> FAT32_FAT_END_OF_FILE
                  [] OTHER -> FAT32_FAT_EMPTY_ENTRY]

RootTable == init_directory_table(RootName, ROOT_CLUSTER_NUMBER,
                                  ROOT_CLUSTER_NUMBER)

\* Fault: the index of the last cluster is taken for the number of clusters.
Needed_LastIndex(s) == (s - 1) \div ClusterSize

\* The clusters a file of s bytes takes.
Needed(s) == s \div ClusterSize + (IF s % ClusterSize = 0 THEN 0 ELSE 1)

\* The chain that starts at c: entry k is the cluster the loop of read visits
\* in its k-th round; it stays where it leaves the data clusters.
Chain(f, c) ==
    LET w[k \in 0 .. NCluster] ==
            IF k = 0 THEN c
            ELSE IF w[k - 1] \in DataCluster THEN f[w[k - 1]] ELSE w[k - 1]
    IN  w

ChainEnds(f, c) == \E k \in 1 .. NCluster : Chain(f, c)[k] = FAT32_FAT_END_OF_FILE

-----------------------------------------------------------------------------
(* Power, boot and formatting *)

\* The disk image is created blank (make disk).
Init ==
    /\ signed = FALSE
    /\ diskFat = NoFat
    /\ disk = [c \in DataCluster |-> ZeroBlock]
    /\ cluster_map = NoFat
    /\ dir_table_buf = ZeroTable
    /\ pc = "off"
    /\ call = NoCall
    /\ ret = 0

\* A call ends: its locals are gone, and every call reads the table buffer
\* from the disk before it looks at it.
Return(code) ==
    /\ pc' = "idle"
    /\ call' = NoCall
    /\ dir_table_buf' = ZeroTable
    /\ ret' = code

PowerOff ==
    /\ pc' = "off"
    /\ call' = NoCall
    /\ dir_table_buf' = ZeroTable
    /\ ret' = 0
    /\ cluster_map' = NoFat

\* Power off at any moment.
Crash ==
    /\ pc \notin Lost \cup {"off"}
    /\ PowerOff
    /\ UNCHANGED durable

\* Power off between two sectors: old is left from sector k on.
Torn(old, new, k, perSector) ==
    [x \in DOMAIN old |-> IF x \div perSector < k THEN new[x] ELSE old[x]]

Boot ==
    /\ pc = "off"
    /\ signed
    /\ pc' = "idle"
    /\ cluster_map' = diskFat
    /\ UNCHANGED <<durable, dir_table_buf, call, ret>>

FormatSignature ==
    /\ pc = "off"
    /\ ~ signed
    /\ pc' = "fmtFat"
    /\ signed' = TRUE
    /\ UNCHANGED <<diskFat, disk, cluster_map, dir_table_buf, call, ret>>

FormatFat ==
    /\ pc = "fmtFat"
    /\ pc' = "fmtRoot"
    /\ diskFat' = FreshFat
    /\ UNCHANGED <<signed, disk, cluster_map, dir_table_buf, call, ret>>

FormatRoot ==
    /\ pc = "fmtRoot"
    /\ Return(0)
    /\ disk' = [disk EXCEPT ![ROOT_CLUSTER_NUMBER] = TableBlock(RootTable)]
    /\ cluster_map' = FreshFat
    /\ UNCHANGED <<signed, diskFat>>

-----------------------------------------------------------------------------
(* read_directory and read *)

ReadDirectoryCode(t, n) ==
    LET S == MatchFrom(t, n, 0)
        e == t[CHOOSE r \in Row : IsFirst(S, r)]
    IN  IF ~ t[0].used THEN -1
        ELSE IF S = {} THEN 2
        ELSE IF ~ e.sub THEN 1 ELSE 0

ReadDirectory(d, n) ==
    /\ pc = "idle"
    /\ Return(ReadDirectoryCode(disk[d].tab, n))
    /\ UNCHANGED <<durable, cluster_map>>

\* The row read settles on: the first with the name, rows 0 and 1 included.
ReadRow(t, n) == CHOOSE r \in Row : IsFirst(MatchFrom(t, n, 0), r)

ReadCode(t, n, s) ==
    LET e == t[ReadRow(t, n)]
    IN  IF ~ t[0].used THEN -1
        ELSE IF MatchFrom(t, n, 0) = {} THEN 2
        ELSE IF e.sub THEN 1
        ELSE IF s < e.size THEN -1 ELSE 0

\* read loads the FAT again, unless the parent is no directory.
Reload(t) == IF t[0].used THEN diskFat ELSE cluster_map

Read(d, n, s) ==
    LET t == disk[d].tab
    IN  /\ pc = "idle"
        /\ ReadCode(t, n, s) = 0 => ChainEnds(diskFat, t[ReadRow(t, n)].cluster)
        /\ Return(ReadCode(t, n, s))
        /\ cluster_map' = Reload(t)
        /\ UNCHANGED durable

\* The loop of read follows a chain that does not end in END_OF_FILE: in a circle,
\* or through CLUSTER_0_VALUE to a word of user memory, which may lead back to
\* cluster 0 each time or anywhere else.
ReadRunaway(d, n, s) ==
    LET t == disk[d].tab
    IN  /\ pc = "idle"
        /\ ReadCode(t, n, s) = 0
        /\ ~ ChainEnds(diskFat, t[ReadRow(t, n)].cluster)
        /\ pc' \in {"spin", "wild"}
        /\ UNCHANGED <<durable, cluster_map, dir_table_buf, call, ret>>

-----------------------------------------------------------------------------
(* write *)

WriteCode(t, n) ==
    IF ~ ValidDir(t) THEN 2
    ELSE IF FreeRow(t) = {} THEN -1
    ELSE IF MatchFrom(t, n, 2) # {} THEN 1 ELSE 0

WriteReject(d, n) ==
    /\ pc = "idle"
    /\ WriteCode(disk[d].tab, n) # 0
    /\ Return(WriteCode(disk[d].tab, n))
    /\ UNCHANGED <<durable, cluster_map>>

\* The scans for a free cluster run to CLUSTER_SIZE (2048) over a map of
\* CLUSTER_MAP_SIZE (512) entries: where the map has no free entry they find a
\* zero word of the table buffer behind it, and what follows is not modelled.
WriteOverrun(d, n) ==
    /\ pc = "idle"
    /\ WriteCode(disk[d].tab, n) = 0
    /\ FreeCluster(cluster_map) = {}
    /\ pc' = "overrun"
    /\ UNCHANGED <<durable, cluster_map, dir_table_buf, call, ret>>

\* Fault: the FAT is updated in memory only.
MkdirFat_Cached(d, n) ==
    /\ pc = "idle"
    /\ WriteCode(disk[d].tab, n) = 0
    /\ \E r \in Row, c \in DataCluster :
         /\ IsFirst(FreeRow(disk[d].tab), r)
         /\ IsFirst(FreeCluster(cluster_map), c)
         /\ call' = [NoCall EXCEPT !.parent = d, !.name = n, !.row = r, !.start = c]
         /\ cluster_map' = [cluster_map EXCEPT ![c] = FAT32_FAT_END_OF_FILE]
    /\ dir_table_buf' = disk[d].tab
    /\ pc' = "mkdirParent"
    /\ ret' = 0
    /\ UNCHANGED <<signed, diskFat, disk>>

\* Claims c for a folder, up to the write of the FAT.  (Entries 0 and 1 of the
\* map are never empty where a directory is valid, so that the test for cluster
\* 0 does not fire: see Reserved.)
MkdirFat(d, n) ==
    /\ pc = "idle"
    /\ WriteCode(disk[d].tab, n) = 0
    /\ \E r \in Row, c \in DataCluster :
         /\ IsFirst(FreeRow(disk[d].tab), r)
         /\ IsFirst(FreeCluster(cluster_map), c)
         /\ call' = [NoCall EXCEPT !.parent = d, !.name = n, !.row = r, !.start = c]
         /\ cluster_map' = [cluster_map EXCEPT ![c] = FAT32_FAT_END_OF_FILE]
         /\ diskFat' = cluster_map'
    /\ dir_table_buf' = disk[d].tab
    /\ pc' = "mkdirParent"
    /\ ret' = 0
    /\ UNCHANGED <<signed, disk>>

MkdirParent ==
    /\ pc = "mkdirParent"
    /\ dir_table_buf' = [dir_table_buf EXCEPT
                            ![call.row] = DirEntry(call.name, call.start)]
    /\ disk' = [disk EXCEPT ![call.parent] = TableBlock(dir_table_buf')]
    /\ pc' = "mkdirTable"
    /\ UNCHANGED <<signed, diskFat, cluster_map, call, ret>>

\* Fault: row 0 of the new table keeps the parent's cluster.
MkdirTable_SelfIsParent ==
    /\ pc = "mkdirTable"
    /\ disk' = [disk EXCEPT ![call.start] =
                   TableBlock(init_directory_table(call.name, call.parent, call.parent))]
    /\ Return(0)
    /\ UNCHANGED <<signed, diskFat, cluster_map>>

MkdirTable ==
    /\ pc = "mkdirTable"
    /\ disk' = [disk EXCEPT ![call.start] =
                   TableBlock(init_directory_table(call.name, call.start, call.parent))]
    /\ Return(0)
    /\ UNCHANGED <<signed, diskFat, cluster_map>>

\* Behind the first sector the new table may keep rows of a removed folder; where the
\* cluster holds what a file that was never finished left there, what these rows say
\* is not modelled.
MkdirTableTorn ==
    LET old == disk[call.start]
        new == init_directory_table(call.name, call.start, call.parent)
    IN  /\ pc = "mkdirTable"
        /\ IF old.data = NoData
           THEN /\ \E k \in Row : /\ k > 0
                                  /\ disk' = [disk EXCEPT ![call.start] =
                                        TableBlock(Torn(old.tab, new, k, SectorRows))]
                /\ PowerOff
                /\ UNCHANGED <<signed, diskFat>>
           ELSE /\ pc' = "garbled"
                /\ UNCHANGED <<durable, cluster_map, dir_table_buf, call, ret>>

\* Fault: the first cluster is written but not marked.
WriteFirst_Unmarked(d, n, s, p) ==
    /\ pc = "idle"
    /\ WriteCode(disk[d].tab, n) = 0
    /\ \E r \in Row, c \in DataCluster :
         /\ IsFirst(FreeRow(disk[d].tab), r)
         /\ IsFirst(FreeCluster(cluster_map), c)
         /\ call' = [NoCall EXCEPT !.parent = d, !.name = n, !.size = s,
                                   !.payload = p, !.row = r, !.start = c,
                                   !.cur = c, !.need = Needed(s) - 1]
         /\ disk' = [disk EXCEPT ![c] = DataBlock(p, 0, ClusterSize)]
    /\ dir_table_buf' = disk[d].tab
    /\ pc' = "fill"
    /\ ret' = 0
    /\ UNCHANGED <<signed, diskFat, cluster_map>>

\* The first cluster of a file: a whole cluster is written from the buffer.
WriteFirst(d, n, s, p) ==
    /\ pc = "idle"
    /\ WriteCode(disk[d].tab, n) = 0
    /\ \E r \in Row, c \in DataCluster :
         /\ IsFirst(FreeRow(disk[d].tab), r)
         /\ IsFirst(FreeCluster(cluster_map), c)
         /\ call' = [NoCall EXCEPT !.parent = d, !.name = n, !.size = s,
                                   !.payload = p, !.row = r, !.start = c,
                                   !.cur = c, !.need = Needed(s) - 1]
         /\ cluster_map' = [cluster_map EXCEPT ![c] = FAT32_FAT_END_OF_FILE]
         /\ disk' = [disk EXCEPT ![c] = DataBlock(p, 0, ClusterSize)]
    /\ dir_table_buf' = disk[d].tab
    /\ pc' = "fill"
    /\ ret' = 0
    /\ UNCHANGED <<signed, diskFat>>

\* cluster_buffer_size: the bytes copied when need clusters are missing.
PartSize(s, need) == IF need = 1 THEN s % ClusterSize ELSE ClusterSize

\* The free clusters the fill loop has not passed yet.
FreeAfter(f, c) == {x \in FreeCluster(f) : x > c}

\* Fault: the chain is extended by a cluster that is not marked.
WriteNext_Unmarked ==
    /\ pc = "fill"
    /\ call.need > 0
    /\ \E c \in DataCluster :
         /\ IsFirst(FreeAfter(cluster_map, call.cur), c)
         /\ cluster_map' = [cluster_map EXCEPT ![call.cur] = c]
         /\ disk' = [disk EXCEPT ![c] =
                        DataBlock(call.payload, Needed(call.size) - call.need,
                                  PartSize(call.size, call.need))]
         /\ call' = [call EXCEPT !.cur = c, !.need = @ - 1]
    /\ UNCHANGED <<signed, diskFat, dir_table_buf, pc, ret>>

\* One round of the fill loop; file_part is Needed(size) - need.
WriteNext ==
    /\ pc = "fill"
    /\ call.need > 0
    /\ \E c \in DataCluster :
         /\ IsFirst(FreeAfter(cluster_map, call.cur), c)
         /\ cluster_map' = [cluster_map EXCEPT ![call.cur] = c,
                                               ![c] = FAT32_FAT_END_OF_FILE]
         /\ disk' = [disk EXCEPT ![c] =
                        DataBlock(call.payload, Needed(call.size) - call.need,
                                  PartSize(call.size, call.need))]
         /\ call' = [call EXCEPT !.cur = c, !.need = @ - 1]
    /\ UNCHANGED <<signed, diskFat, dir_table_buf, pc, ret>>

FillOverrun ==
    /\ pc = "fill"
    /\ call.need > 0
    /\ FreeAfter(cluster_map, call.cur) = {}
    /\ pc' = "overrun"
    /\ UNCHANGED <<durable, cluster_map, dir_table_buf, call, ret>>

WriteFat ==
    /\ pc = "fill"
    /\ call.need = 0
    /\ diskFat' = cluster_map
    /\ pc' = "writeRow"
    /\ UNCHANGED <<signed, disk, cluster_map, dir_table_buf, call, ret>>

FileEntry(n, c, s) == [name |-> n, sub |-> FALSE, used |-> TRUE,
                       cluster |-> c, size |-> s]

WriteRow ==
    /\ pc = "writeRow"
    /\ disk' = [disk EXCEPT ![call.parent] =
                   TableBlock([dir_table_buf EXCEPT
                      ![call.row] = FileEntry(call.name, call.start, call.size)])]
    /\ Return(0)
    /\ UNCHANGED <<signed, diskFat, cluster_map>>

-----------------------------------------------------------------------------
(* delete *)

\* The row delete settles on.
DeleteRow(t, n) == {r \in Row : IsFirst(MatchFrom(t, n, 2), r)}

\* Fault: the first row of contents is not looked at.
TargetEmpty_OneLate(t) == \A r \in Row : r > 2 => ~ t[r].used

TargetEmpty(t) == \A r \in Row : r >= 2 => ~ t[r].used

NotEmpty(t, n) ==
    \E r \in DeleteRow(t, n) : t[r].sub /\ ~ TargetEmpty(disk[t[r].cluster].tab)

DeleteCode(t, n) ==
    IF ~ ValidDir(t) THEN -1
    ELSE IF MatchFrom(t, n, 2) = {} THEN 1
    ELSE IF NotEmpty(t, n) THEN 2 ELSE 0

DeleteReject(d, n) ==
    /\ pc = "idle"
    /\ DeleteCode(disk[d].tab, n) # 0
    /\ Return(DeleteCode(disk[d].tab, n))
    /\ UNCHANGED <<durable, cluster_map>>

\* The row of a removed folder keeps its cluster; that of a file is zeroed.
ErasedDir(e) == [e EXCEPT !.name = ZeroName, !.sub = FALSE, !.used = FALSE]

RmdirParent(d, n) ==
    LET t == disk[d].tab
    IN  /\ pc = "idle"
        /\ DeleteCode(t, n) = 0
        /\ \E r \in DeleteRow(t, n) :
             /\ t[r].sub
             /\ call' = [NoCall EXCEPT !.parent = d, !.row = r, !.start = t[r].cluster]
             /\ dir_table_buf' = [t EXCEPT ![r] = ErasedDir(t[r])]
        /\ disk' = [disk EXCEPT ![d] = TableBlock(dir_table_buf')]
        /\ pc' = "rmdirTable"
        /\ ret' = 0
        /\ UNCHANGED <<signed, diskFat, cluster_map>>

\* Fault: the table of the removed folder is left as it is.
RmdirTable_KeepsHeader ==
    /\ pc = "rmdirTable"
    /\ pc' = "rmdirFat"
    /\ UNCHANGED <<durable, cluster_map, dir_table_buf, call, ret>>

RmdirTable ==
    LET t == disk[call.start].tab
    IN  /\ pc = "rmdirTable"
        /\ disk' = [disk EXCEPT ![call.start].tab =
                       [t EXCEPT ![0] = ErasedDir(t[0]), ![1] = ErasedDir(t[1])]]
        /\ pc' = "rmdirFat"
        /\ UNCHANGED <<signed, diskFat, cluster_map, dir_table_buf, call, ret>>

\* Fault: the freed cluster is not saved to the disk.
RmdirFat_Unsaved ==
    /\ pc = "rmdirFat"
    /\ cluster_map' = [cluster_map EXCEPT ![call.start] = FAT32_FAT_EMPTY_ENTRY]
    /\ Return(0)
    /\ UNCHANGED durable

\* Fault: the cluster of the folder is not freed.
RmdirFat_Kept ==
    /\ pc = "rmdirFat"
    /\ Return(0)
    /\ UNCHANGED <<durable, cluster_map>>

RmdirFat ==
    /\ pc = "rmdirFat"
    /\ cluster_map' = [cluster_map EXCEPT ![call.start] = FAT32_FAT_EMPTY_ENTRY]
    /\ diskFat' = cluster_map'
    /\ Return(0)
    /\ UNCHANGED <<signed, disk>>

RmRow(d, n) ==
    LET t == disk[d].tab
    IN  /\ pc = "idle"
        /\ DeleteCode(t, n) = 0
        /\ \E r \in DeleteRow(t, n) :
             /\ ~ t[r].sub
             /\ call' = [NoCall EXCEPT !.parent = d, !.row = r, !.nxt = t[r].cluster]
             /\ dir_table_buf' = [t EXCEPT ![r] = ZeroEntry]
        /\ disk' = [disk EXCEPT ![d] = TableBlock(dir_table_buf')]
        /\ pc' = "rmFirst"
        /\ ret' = 0
        /\ UNCHANGED <<signed, diskFat, cluster_map>>

\* Fault: the loop does not move on to the next cluster.
RmCluster_Stuck ==
    /\ \/ pc = "rmFirst"
       \/ pc = "rmLoop" /\ call.nxt # FAT32_FAT_END_OF_FILE
    /\ call.nxt \in DataCluster
    /\ call' = [call EXCEPT !.cur = call.nxt]
    /\ cluster_map' = [cluster_map EXCEPT ![call.nxt] = FAT32_FAT_EMPTY_ENTRY]
    /\ disk' = [disk EXCEPT ![call.nxt] = ZeroBlock]
    /\ pc' = "rmLoop"
    /\ UNCHANGED <<signed, diskFat, dir_table_buf, ret>>

\* cluster_number is nxt from here on: its entry is emptied and the cluster
\* zeroed.  The first round is taken without looking at nxt.
RmCluster ==
    /\ \/ pc = "rmFirst"
       \/ pc = "rmLoop" /\ call.nxt # FAT32_FAT_END_OF_FILE
    /\ call.nxt \in DataCluster
    /\ call' = [call EXCEPT !.cur = call.nxt, !.nxt = cluster_map[call.nxt]]
    /\ cluster_map' = [cluster_map EXCEPT ![call.nxt] = FAT32_FAT_EMPTY_ENTRY]
    /\ disk' = [disk EXCEPT ![call.nxt] = ZeroBlock]
    /\ pc' = "rmLoop"
    /\ UNCHANGED <<signed, diskFat, dir_table_buf, ret>>

\* The chain runs into the boot sector (cluster 0): its entry is emptied and the
\* sector zeroed, and CLUSTER_0_VALUE leads on to a word of user memory.  If that
\* is 0, it is cluster 0 again, whose entry is now 0, for ever; if not, what is
\* emptied next depends on the word.
RmRunaway ==
    /\ pc \in {"rmFirst", "rmLoop"}
    /\ call.nxt \notin DataCluster
    /\ pc = "rmLoop" => call.nxt # FAT32_FAT_END_OF_FILE
    /\ signed' = (signed /\ call.nxt # 0)
    /\ pc' \in {"spin", "wild"}
    /\ UNCHANGED <<diskFat, disk, cluster_map, dir_table_buf, call, ret>>

\* The store to cluster_map[END_OF_FILE] ahead of this write falls outside the
\* driver's state.
RmFat ==
    /\ pc = "rmLoop"
    /\ call.nxt = FAT32_FAT_END_OF_FILE
    /\ diskFat' = cluster_map
    /\ pc' = "rmLast"
    /\ UNCHANGED <<signed, disk, cluster_map, dir_table_buf, call, ret>>

\* The last cluster of the file is zeroed once more.
RmLast ==
    /\ pc = "rmLast"
    /\ disk' = [disk EXCEPT ![call.cur] = ZeroBlock]
    /\ Return(0)
    /\ UNCHANGED <<signed, diskFat, cluster_map>>

\* Power fails while WriteFat or RmFat writes the FAT.  (mkdir and the removal of a
\* folder change one entry of it, and the first FAT is empty from its second sector on.)
FatTorn ==
    /\ \/ pc = "fill" /\ call.need = 0
       \/ pc = "rmLoop" /\ call.nxt = FAT32_FAT_END_OF_FILE
    /\ \E k \in Cluster : k > 0 /\ diskFat' = Torn(diskFat, cluster_map, k, SectorEntries)
    /\ PowerOff
    /\ UNCHANGED <<signed, disk>>

-----------------------------------------------------------------------------

\* The steps that carry on a call or a boot already begun.
Continue ==
    \/ FormatFat \/ FormatRoot
    \/ MkdirParent \/ MkdirTable
    \/ WriteNext \/ FillOverrun \/ WriteFat \/ WriteRow
    \/ RmdirTable \/ RmdirFat
    \/ RmCluster \/ RmRunaway \/ RmFat \/ RmLast

\* A request reaches the driver; cd asks read_directory for .. and for the name of
\* the directory itself, too.
Request ==
    \E d \in DataCluster :
        \/ \E n \in AllNames : ReadDirectory(d, n)
        \/ \E n \in Names :
              \/ \E s \in Sizes : Read(d, n, s) \/ ReadRunaway(d, n, s)
              \/ WriteReject(d, n)
              \/ WriteOverrun(d, n)
              \/ 0 \in Sizes /\ MkdirFat(d, n)
              \/ \E s \in Sizes \ {0}, p \in Payloads : WriteFirst(d, n, s, p)
              \/ DeleteReject(d, n)
              \/ RmdirParent(d, n)
              \/ RmRow(d, n)

Wild == pc \in Lost /\ UNCHANGED vars

Failure == Crash \/ MkdirTableTorn \/ FatTorn

Next == Boot \/ FormatSignature \/ Continue \/ Request \/ Failure \/ Wild

\* A call under way goes on: nothing in the kernel preempts it.
Spec == Init /\ [][Next]_vars /\ WF_vars(Continue)

\* The machine is never switched off.
PoweredNext == Boot \/ FormatSignature \/ Continue \/ Request \/ Wild

PoweredSpec == Init /\ [][PoweredNext]_vars

-----------------------------------------------------------------------------
(* Properties *)

PcValues == {"off", "fmtFat", "fmtRoot", "idle", "mkdirParent", "mkdirTable",
             "fill", "writeRow", "rmdirTable", "rmdirFat", "rmFirst", "rmLoop",
             "rmLast"} \cup Lost

\* The variables have their types: what lies on the disk is always a table or
\* a piece of a file, and a link of the FAT an index of the map or a mark.
TypeOK ==
    /\ signed \in BOOLEAN
    /\ diskFat \in [Cluster -> 0 .. NCluster + 1]
    /\ disk \in [DataCluster -> Block]
    /\ cluster_map \in [Cluster -> 0 .. NCluster + 1]
    /\ dir_table_buf \in Table
    /\ pc \in PcValues
    /\ call \in Call
    /\ ret \in -1 .. 2

\* Row r of directory d is an entry that a user can reach.
Live(d, r) ==
    /\ d \in DataCluster /\ r \in Row /\ r >= 2
    /\ ValidDir(disk[d].tab)
    /\ disk[d].tab[r].used

EntryOf(d, r) == disk[d].tab[r]

\* Between calls the cached FAT is the one on the disk (write and delete
\* change the cache and save it; read loads it again).
CacheCoherent == pc = "idle" => cluster_map = diskFat

\* Whatever a directory still names is allocated in the FAT on the disk, also
\* after a power failure between the FAT and the directory writes: the next
\* write cannot hand it out again.
EntryAllocated ==
    \A d \in DataCluster, r \in Row : Live(d, r) =>
        /\ EntryOf(d, r).cluster \in DataCluster \ {ROOT_CLUSTER_NUMBER}
        /\ diskFat[EntryOf(d, r).cluster] # FAT32_FAT_EMPTY_ENTRY

\* The clusters of the file or folder that entry e names.
Clusters(e) == {Chain(diskFat, e.cluster)[k] : k \in 0 .. NCluster} \cap DataCluster

\* The chain of a file or folder on the disk comes to END_OF_FILE: it never runs into
\* a free cluster, into the reserved ones or in a circle.  (What a torn FAT has left
\* of a file that no row names may.)
LinkAllocated ==
    \A d \in DataCluster, r \in Row :
        Live(d, r) => ChainEnds(diskFat, EntryOf(d, r).cluster)

\* No cluster is part of two files or folders, and none of them has the root's.
NoSharedCluster ==
    \A d1, d2 \in DataCluster, r1, r2 \in Row :
        Live(d1, r1) /\ Live(d2, r2) =>
            /\ ROOT_CLUSTER_NUMBER \notin Clusters(EntryOf(d1, r1))
            /\ \/ d1 = d2 /\ r1 = r2
               \/ Clusters(EntryOf(d1, r1)) \cap Clusters(EntryOf(d2, r2)) = {}

\* A cluster whose table still passes for a directory is allocated and is not
\* part of a file, so that a shell that kept the number of a removed folder is
\* refused instead of writing into free space or into a file's data.
DirectoryAllocated ==
    \A d \in DataCluster : ValidDir(disk[d].tab) =>
        /\ diskFat[d] = FAT32_FAT_END_OF_FILE
        /\ \A x \in DataCluster, r \in Row :
              Live(x, r) /\ ~ EntryOf(x, r).sub => d \notin Clusters(EntryOf(x, r))

\* No directory holds two entries of one name.
NamesUnique ==
    \A d \in DataCluster, r1, r2 \in Row :
        /\ Live(d, r1) /\ Live(d, r2)
        /\ EntryOf(d, r1).name = EntryOf(d, r2).name
        => r1 = r2

\* Once a folder has its table, rows 0 and 1 of it name itself and the folder
\* that contains it: "cd .." goes back where "cd" came from.
DotDotIsParent ==
    \A d \in DataCluster, r \in Row :
        LET c == EntryOf(d, r).cluster IN
        /\ Live(d, r) /\ EntryOf(d, r).sub
        /\ ValidDir(disk[c].tab)
        => /\ EntryOf(c, 0).cluster = c
           /\ EntryOf(c, 0).name = EntryOf(d, r).name
           /\ EntryOf(c, 1).cluster = d

\* The clusters 0 and 1 and the root are never up for allocation while some
\* directory can be written to.
Reserved ==
    (\E d \in DataCluster : ValidDir(disk[d].tab)) =>
        /\ diskFat[0] = CLUSTER_0_VALUE
        /\ diskFat[1] = CLUSTER_1_VALUE
        /\ ValidDir(disk[ROOT_CLUSTER_NUMBER].tab)

\* A call or a format that has begun comes to an end if the machine stays on: no
\* chain that power failures and torn FATs have left sends the loops of read and
\* delete around for ever or out of the map, as long as requests carry names.  (A
\* write may run past a full map, see FullMapReported.)
CallReturns ==
    LET Over == pc \in {"off", "idle", "overrun", "garbled"}
    IN  ~ Over ~> Over

\* Without power failures no space is lost: between calls every allocated
\* cluster belongs to the root, to an entry or to a chain.
NoLeak ==
    pc = "idle" => \A c \in DataCluster :
        \/ diskFat[c] = FAT32_FAT_EMPTY_ENTRY
        \/ c = ROOT_CLUSTER_NUMBER
        \/ \E d \in DataCluster, r \in Row : Live(d, r) /\ EntryOf(d, r).cluster = c
        \/ \E b \in DataCluster : diskFat[b] = c

\* "if there is no available cluster return -1 error." (fat32.c:265): a full
\* map is reported, never run past.
FullMapReported == pc # "overrun"

=============================================================================
