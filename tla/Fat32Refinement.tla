-------------------------- MODULE Fat32Refinement --------------------------
(***************************************************************************)
(* The driver implements FileStore.  The mapping is what a reader of the    *)
(* disk sees: the rows of the valid tables, and for a file what the loop of *)
(* read (fat32.c) collects along the chain on the disk.                     *)
(***************************************************************************)
EXTENDS Fat32

\* The bytes of part k that a file of s bytes needs.
PartNeeded(s, k) ==
    IF k + 1 < Needed(s) THEN ClusterSize ELSE s - k * ClusterSize

\* The chain of entry e delivers the whole of one payload.
Whole(e) ==
    LET ch == Chain(diskFat, e.cluster)
        p == disk[e.cluster].data.p
    IN  /\ ch[Needed(e.size)] = FAT32_FAT_END_OF_FILE
        /\ \A k \in 0 .. Needed(e.size) - 1 :
              /\ ch[k] \in DataCluster
              /\ disk[ch[k]].data.p = p
              /\ disk[ch[k]].data.k = k
              /\ disk[ch[k]].data.n >= PartNeeded(e.size, k)

Broken == [payload |-> NoPayload, size |-> 0]

ContentOf(e) ==
    IF Whole(e) THEN [payload |-> disk[e.cluster].data.p, size |-> e.size]
    ELSE Broken

visibleDirs == {d \in DataCluster : ValidDir(disk[d].tab)}

RowsNamed(d, n) == {r \in Row : Live(d, r) /\ EntryOf(d, r).name = n}

visibleItems ==
    [d \in DataCluster |-> [n \in Names |->
        LET rows == RowsNamed(d, n)
            e == EntryOf(d, CHOOSE r \in rows : TRUE)
        IN  IF rows = {} THEN [kind |-> "nothing"]
            ELSE IF e.sub THEN [kind |-> "folder", handle |-> e.cluster]
            ELSE [kind |-> "file", content |-> ContentOf(e)]]]

\* A request to write a file is pending from its first cluster to its row.
pendingFile ==
    IF pc \in {"fill", "writeRow"}
    THEN [kind |-> "writing", dir |-> call.parent, name |-> call.name,
          content |-> [payload |-> call.payload, size |-> call.size]]
    ELSE [kind |-> "none"]

Store == INSTANCE FileStore WITH
            Handle <- DataCluster,
            Root <- ROOT_CLUSTER_NUMBER,
            Name <- Names,
            Content <- [payload : Payloads, size : Sizes \ {0}],
            dirs <- visibleDirs,
            items <- visibleItems,
            pending <- pendingFile

\* Every behaviour of the driver, with power failures at any write, is one of
\* the store: a file appears whole or not at all and nothing but its removal
\* changes it.  This is so for sizes up to a cluster and sizes that are no multiple
\* of it; of the others write drops the last part (FilesWhole).
ImplementsStore == Store!Spec

\* "write a file or folder to file system" (fat32.h:233): every file of the
\* disk holds all the bytes of the buffer it was written from.
FilesWhole ==
    \A d \in DataCluster, r \in Row :
        Live(d, r) /\ ~ EntryOf(d, r).sub => Whole(EntryOf(d, r))

=============================================================================
