----------------------- MODULE Fat32RefinementProofs -----------------------
(***************************************************************************)
(* Proof that the driver implements FileStore (Fat32Refinement), for every  *)
(* size of the disk, of its clusters and of its directories.                *)
(*                                                                         *)
(* Added to the invariants of Fat32Proofs and Fat32EntryProofs is that each *)
(* file on the disk, and the part written so far of a file under way, holds *)
(* the bytes of the buffer it was written from.                            *)
(***************************************************************************)
EXTENDS Fat32EntryProofs, Fat32Refinement

\* A size of which write copies every byte: the others are those of
\* Fat32WholeClusters.
SizeKept(s) == s <= ClusterSize \/ s % ClusterSize # 0

-----------------------------------------------------------------------------
(* What a reader sees of a disk dk with the FAT f *)

\* The first m clusters of the chain from c hold the first m parts of p.
Parts(dk, f, c, p, s, m) ==
    \A k \in 0 .. m - 1 :
        /\ Chain(f, c)[k] \in DataCluster
        /\ dk[Chain(f, c)[k]].data.p = p
        /\ dk[Chain(f, c)[k]].data.k = k
        /\ dk[Chain(f, c)[k]].data.n >= PartNeeded(s, k)

\* The chain from c is a file of s bytes of the buffer p.
Holds(dk, f, c, p, s) ==
    /\ c \in DataCluster
    /\ p \in Payloads /\ s \in Sizes \ {0} /\ Needed(s) \in 1 .. NCluster
    /\ Chain(f, c)[Needed(s)] = FAT32_FAT_END_OF_FILE
    /\ Parts(dk, f, c, p, s, Needed(s))

FilesHold(dk, f) ==
    \A d \in DataCluster, r \in Row :
        LET e == dk[d].tab[r] IN
        LiveIn(dk, d, r) /\ ~ e.sub => Holds(dk, f, e.cluster, dk[e.cluster].data.p, e.size)

RowsIn(dk, d, n) == {r \in Row : LiveIn(dk, d, r) /\ dk[d].tab[r].name = n}

ItemOf(dk, e) ==
    IF e.sub THEN [kind |-> "folder", handle |-> e.cluster]
    ELSE [kind |-> "file", content |-> [payload |-> dk[e.cluster].data.p, size |-> e.size]]

ItemIn(dk, d, n) ==
    IF RowsIn(dk, d, n) = {} THEN [kind |-> "nothing"]
    ELSE ItemOf(dk, dk[d].tab[CHOOSE r \in RowsIn(dk, d, n) : TRUE])

ItemsOf(dk) == [d \in DataCluster |-> [n \in Names |-> ItemIn(dk, d, n)]]

DirsOf(dk) == {d \in DataCluster : ValidDir(dk[d].tab)}

\* The mapping of Fat32Refinement, for any disk and FAT.
WholeIn(dk, f, e) ==
    LET ch == Chain(f, e.cluster)
        p == dk[e.cluster].data.p
    IN  /\ ch[Needed(e.size)] = FAT32_FAT_END_OF_FILE
        /\ \A k \in 0 .. Needed(e.size) - 1 :
              /\ ch[k] \in DataCluster
              /\ dk[ch[k]].data.p = p
              /\ dk[ch[k]].data.k = k
              /\ dk[ch[k]].data.n >= PartNeeded(e.size, k)

ContentIn(dk, f, e) ==
    IF WholeIn(dk, f, e) THEN [payload |-> dk[e.cluster].data.p, size |-> e.size]
    ELSE Broken

MappedItem(dk, f, d, n) ==
    IF RowsIn(dk, d, n) = {} THEN [kind |-> "nothing"]
    ELSE LET e == dk[d].tab[CHOOSE r \in RowsIn(dk, d, n) : TRUE]
         IN  IF e.sub THEN [kind |-> "folder", handle |-> e.cluster]
             ELSE [kind |-> "file", content |-> ContentIn(dk, f, e)]

MappedItems(dk, f) == [d \in DataCluster |-> [n \in Names |-> MappedItem(dk, f, d, n)]]

LEMMA MappingIs ==
    /\ visibleItems = MappedItems(disk, diskFat)
    /\ visibleItems' = MappedItems(disk', diskFat')
    /\ visibleDirs = DirsOf(disk)
    /\ visibleDirs' = DirsOf(disk')
<1>1. visibleDirs = DirsOf(disk) /\ visibleDirs' = DirsOf(disk')
  BY DEF visibleDirs, DirsOf
<1>2. \A d, n : RowsNamed(d, n) = RowsIn(disk, d, n) /\ RowsNamed(d, n)' = RowsIn(disk', d, n)
  BY DEF RowsNamed, RowsIn, Live, LiveIn, EntryOf
<1>3. \A e : ContentOf(e) = ContentIn(disk, diskFat, e)
  BY DEF ContentOf, ContentIn, Whole, WholeIn
<1>4. \A e : ContentOf(e)' = ContentIn(disk', diskFat', e)
  BY DEF ContentOf, ContentIn, Whole, WholeIn
<1>5. visibleItems = MappedItems(disk, diskFat)
  BY <1>2, <1>3 DEF visibleItems, MappedItems, MappedItem, EntryOf
<1>6. visibleItems' = MappedItems(disk', diskFat')
  BY <1>2, <1>4 DEF visibleItems, MappedItems, MappedItem, EntryOf
<1> QED BY <1>1, <1>5, <1>6

\* Where every file holds what it was written from, none is broken.
LEMMA NoneBroken ==
    ASSUME NEW dk, NEW f, FilesHold(dk, f)
    PROVE  MappedItems(dk, f) = ItemsOf(dk)
<1>1. ASSUME NEW d \in DataCluster, NEW n \in Names
      PROVE  MappedItem(dk, f, d, n) = ItemIn(dk, d, n)
  <2>1. CASE RowsIn(dk, d, n) = {}
    BY <2>1 DEF MappedItem, ItemIn
  <2>2. CASE RowsIn(dk, d, n) # {}
    <3> DEFINE r == CHOOSE y \in RowsIn(dk, d, n) : TRUE
               e == dk[d].tab[r]
    <3>1. r \in RowsIn(dk, d, n)
      BY <2>2
    <3>2. MappedItem(dk, f, d, n) =
             IF e.sub THEN [kind |-> "folder", handle |-> e.cluster]
             ELSE [kind |-> "file", content |-> ContentIn(dk, f, e)]
      BY <2>2 DEF MappedItem
    <3>3. ItemIn(dk, d, n) = ItemOf(dk, e)
      BY <2>2 DEF ItemIn
    <3> HIDE DEF r
    <3>4. r \in Row /\ LiveIn(dk, d, r)
      BY <3>1 DEF RowsIn
    <3>5. ~ e.sub => Holds(dk, f, e.cluster, dk[e.cluster].data.p, e.size)
      BY <3>4 DEF FilesHold
    <3> HIDE DEF e
    <3>6. ~ e.sub => WholeIn(dk, f, e)
      BY <3>5 DEF Holds, Parts, WholeIn
    <3> QED BY <3>2, <3>3, <3>6 DEF ContentIn, ItemOf
  <2> QED BY <2>1, <2>2
<1> QED BY <1>1 DEF MappedItems, ItemsOf

-----------------------------------------------------------------------------
(* What writes leave of the view *)

\* A file depends on the links and the data of its own clusters only.
LEMMA HoldFrame ==
    ASSUME NEW dk, NEW f, NEW dk2, NEW g, NEW c, NEW p, NEW s, Holds(dk, f, c, p, s),
           \A x \in ChainSet(f, c) : g[x] = f[x] /\ dk2[x].data = dk[x].data
    PROVE  Holds(dk2, g, c, p, s) /\ dk2[c].data.p = p
<1>1. \A k \in 0 .. NCluster : Chain(g, c)[k] = Chain(f, c)[k]
  <2>1. \A k \in 0 .. NCluster - 1 :
           Chain(f, c)[k] \in DataCluster => g[Chain(f, c)[k]] = f[Chain(f, c)[k]]
    <3>1. SUFFICES ASSUME NEW k \in 0 .. NCluster - 1, Chain(f, c)[k] \in DataCluster
                   PROVE  g[Chain(f, c)[k]] = f[Chain(f, c)[k]]
      OBVIOUS
    <3>2. k \in 0 .. NCluster
      BY SizeAssumption
    <3> QED BY <3>1, <3>2 DEF ChainSet
  <2>2. NCluster \in 0 .. NCluster
    BY SizeAssumption
  <2> QED BY <2>1, <2>2, ChainPrefix
<1>2. /\ c \in DataCluster /\ p \in Payloads /\ s \in Sizes \ {0} /\ Needed(s) \in 1 .. NCluster
      /\ Chain(f, c)[Needed(s)] = FAT32_FAT_END_OF_FILE
      /\ Parts(dk, f, c, p, s, Needed(s))
  BY DEF Holds
<1>3. ASSUME NEW k \in 0 .. Needed(s) - 1
      PROVE  /\ Chain(g, c)[k] = Chain(f, c)[k] /\ Chain(f, c)[k] \in DataCluster
             /\ dk2[Chain(f, c)[k]].data = dk[Chain(f, c)[k]].data
  <2>1. k \in 0 .. NCluster
    BY <1>2, SizeAssumption
  <2>2. Chain(f, c)[k] \in DataCluster
    BY <1>2, <1>3 DEF Parts
  <2>3. Chain(f, c)[k] \in ChainSet(f, c)
    BY <2>1, <2>2 DEF ChainSet
  <2> QED BY <1>1, <2>1, <2>2, <2>3
<1>4. Parts(dk2, g, c, p, s, Needed(s))
  BY <1>2, <1>3 DEF Parts
<1>5. Needed(s) \in 0 .. NCluster
  BY <1>2, SizeAssumption
<1>6. dk2[c].data.p = p
  <2>1. 0 \in 0 .. Needed(s) - 1 /\ Chain(f, c)[0] = c
    BY <1>2, ChainRounds
  <2>2. dk2[c].data = dk[c].data
    BY <1>3, <2>1
  <2>3. dk[c].data.p = p
    BY <1>2, <2>1 DEF Parts
  <2> QED BY <2>2, <2>3
<1> QED BY <1>1, <1>2, <1>4, <1>5, <1>6 DEF Holds

\* The rows a user reaches in directory d, and what they name, are the same.
SameRows(dk, dk2, d) ==
    \A r \in Row :
        /\ LiveIn(dk2, d, r) <=> LiveIn(dk, d, r)
        /\ LiveIn(dk, d, r) => dk2[d].tab[r] = dk[d].tab[r]

\* The files of dk keep the data of their first clusters.
SameData(dk, dk2) ==
    \A d \in DataCluster, r \in Row :
        LET e == dk[d].tab[r] IN
        LiveIn(dk, d, r) /\ LiveIn(dk2, d, r) /\ ~ e.sub =>
            dk2[e.cluster].data.p = dk[e.cluster].data.p

LEMMA SameItem ==
    ASSUME NEW dk, NEW dk2, SameData(dk, dk2), NEW d \in DataCluster, NEW n,
           RowsIn(dk2, d, n) = RowsIn(dk, d, n),
           \A r \in RowsIn(dk, d, n) : dk2[d].tab[r] = dk[d].tab[r]
    PROVE  ItemIn(dk2, d, n) = ItemIn(dk, d, n)
<1>1. CASE RowsIn(dk, d, n) = {}
  BY <1>1 DEF ItemIn
<1>2. CASE RowsIn(dk, d, n) # {}
  <2>1. PICK r : r = CHOOSE y \in RowsIn(dk, d, n) : TRUE
    OBVIOUS
  <2>2. r \in RowsIn(dk, d, n)
    BY <1>2, <2>1
  <2>3. ItemIn(dk, d, n) = ItemOf(dk, dk[d].tab[r])
    BY <1>2, <2>1 DEF ItemIn
  <2>4. ItemIn(dk2, d, n) = ItemOf(dk2, dk2[d].tab[r])
    BY <1>2, <2>1 DEF ItemIn
  <2>5. r \in Row /\ LiveIn(dk, d, r) /\ LiveIn(dk2, d, r) /\ dk2[d].tab[r] = dk[d].tab[r]
    BY <2>2 DEF RowsIn
  <2>6. ItemOf(dk2, dk[d].tab[r]) = ItemOf(dk, dk[d].tab[r])
    BY <2>5 DEF SameData, ItemOf
  <2> QED BY <2>3, <2>4, <2>5, <2>6
<1> QED BY <1>1, <1>2

LEMMA SameView ==
    ASSUME NEW dk, NEW dk2, SameData(dk, dk2), \A d \in DataCluster : SameRows(dk, dk2, d)
    PROVE  ItemsOf(dk2) = ItemsOf(dk)
<1>1. ASSUME NEW d \in DataCluster, NEW n \in Names
      PROVE  ItemIn(dk2, d, n) = ItemIn(dk, d, n)
  <2>1. /\ RowsIn(dk2, d, n) = RowsIn(dk, d, n)
        /\ \A r \in RowsIn(dk, d, n) : dk2[d].tab[r] = dk[d].tab[r]
    BY DEF SameRows, RowsIn
  <2> QED BY <2>1, SameItem
<1> QED BY <1>1 DEF ItemsOf

\* A write outside of what is held goes unseen.
LEMMA Unseen ==
    ASSUME NEW dk, NEW f, NEW dk2, NEW g, DiskSound(dk, f), FilesHold(dk, f),
           Agree(g, f, Held(dk, f)), \A x \in Held(dk, f) : dk2[x] = dk[x],
           \A x \in DataCluster : ValidDir(dk2[x].tab) => x \in Held(dk, f)
    PROVE  FilesHold(dk2, g) /\ ItemsOf(dk2) = ItemsOf(dk) /\ DirsOf(dk2) = DirsOf(dk)
<1>1. \A x \in DataCluster : /\ ValidDir(dk[x].tab) => x \in Held(dk, f)
                             /\ ValidDir(dk2[x].tab) <=> ValidDir(dk[x].tab)
                             /\ ValidDir(dk[x].tab) => dk2[x] = dk[x]
  BY DEF Held
<1>2. \A d \in DataCluster : SameRows(dk, dk2, d)
  BY <1>1 DEF SameRows, LiveIn
<1>3. ASSUME NEW d \in DataCluster, NEW r \in Row, LiveIn(dk, d, r), ~ dk[d].tab[r].sub
      PROVE  LET e == dk[d].tab[r] IN
             /\ Holds(dk2, g, e.cluster, dk2[e.cluster].data.p, e.size)
             /\ dk2[e.cluster].data.p = dk[e.cluster].data.p
  <2> DEFINE e == dk[d].tab[r]
  <2>1. Holds(dk, f, e.cluster, dk[e.cluster].data.p, e.size)
    BY <1>3 DEF FilesHold
  <2>2. ChainSet(f, e.cluster) \subseteq Held(dk, f)
    BY <1>3 DEF Held, ChainSet
  <2>3. \A x \in ChainSet(f, e.cluster) : g[x] = f[x] /\ dk2[x].data = dk[x].data
    BY <2>2 DEF Agree
  <2> HIDE DEF e
  <2>4. /\ Holds(dk2, g, e.cluster, dk[e.cluster].data.p, e.size)
        /\ dk2[e.cluster].data.p = dk[e.cluster].data.p
    BY <2>1, <2>3, HoldFrame
  <2> QED BY <2>4 DEF e
<1>4. FilesHold(dk2, g)
  <2>1. SUFFICES ASSUME NEW d \in DataCluster, NEW r \in Row,
                        LiveIn(dk2, d, r), ~ dk2[d].tab[r].sub
                 PROVE  LET e == dk2[d].tab[r] IN
                        Holds(dk2, g, e.cluster, dk2[e.cluster].data.p, e.size)
    BY DEF FilesHold
  <2>2. LiveIn(dk, d, r) /\ dk2[d].tab[r] = dk[d].tab[r]
    BY <1>2, <2>1 DEF SameRows
  <2> QED BY <1>3, <2>1, <2>2
<1>5. SameData(dk, dk2)
  BY <1>3 DEF SameData
<1> QED BY <1>1, <1>2, <1>4, <1>5, SameView DEF DirsOf

\* Only block c of the disk changes, and no file of it has cluster c.
Besides(dk, dk2, f, c) ==
    /\ c \in DataCluster
    /\ \A x \in DataCluster : x # c => dk2[x] = dk[x]
    /\ \A d \in DataCluster, r \in Row :
          LiveIn(dk, d, r) /\ ~ dk[d].tab[r].sub => c \notin ChainSet(f, dk[d].tab[r].cluster)

\* Then the files of dk are still there.
LEMMA FilesStay ==
    ASSUME NEW dk, NEW dk2, NEW f, FilesHold(dk, f), NEW c, Besides(dk, dk2, f, c)
    PROVE  /\ \A d \in DataCluster, r \in Row :
                 LiveIn(dk, d, r) /\ ~ dk[d].tab[r].sub =>
                    LET e == dk[d].tab[r] IN
                    /\ Holds(dk2, f, e.cluster, dk2[e.cluster].data.p, e.size)
                    /\ dk2[e.cluster].data.p = dk[e.cluster].data.p
           /\ SameData(dk, dk2)
<1>1. ASSUME NEW d \in DataCluster, NEW r \in Row, LiveIn(dk, d, r), ~ dk[d].tab[r].sub
      PROVE  LET e == dk[d].tab[r] IN
             /\ Holds(dk2, f, e.cluster, dk2[e.cluster].data.p, e.size)
             /\ dk2[e.cluster].data.p = dk[e.cluster].data.p
  <2> DEFINE e == dk[d].tab[r]
  <2>1. Holds(dk, f, e.cluster, dk[e.cluster].data.p, e.size)
    BY <1>1 DEF FilesHold
  <2>2. \A x \in ChainSet(f, e.cluster) : x # c /\ x \in DataCluster
    BY <1>1 DEF Besides, ChainSet
  <2>3. \A x \in ChainSet(f, e.cluster) : f[x] = f[x] /\ dk2[x].data = dk[x].data
    BY <2>2 DEF Besides
  <2> HIDE DEF e
  <2>4. /\ Holds(dk2, f, e.cluster, dk[e.cluster].data.p, e.size)
        /\ dk2[e.cluster].data.p = dk[e.cluster].data.p
    BY <2>1, <2>3, HoldFrame
  <2> QED BY <2>4 DEF e
<1> QED BY <1>1 DEF SameData

\* At most the item n of directory d changes.
Elsewhere(dk, dk2, d, n) ==
    \A x \in DataCluster, m \in Names :
        x # d \/ m # n => ItemIn(dk2, x, m) = ItemIn(dk, x, m)

ItemSet(dk, dk2, d, n, v) == ItemsOf(dk2) = [ItemsOf(dk) EXCEPT ![d][n] = v]

LEMMA OneItem ==
    ASSUME NEW dk, NEW dk2, NEW d \in DataCluster, NEW n \in Names, NEW v,
           ItemIn(dk2, d, n) = v, Elsewhere(dk, dk2, d, n)
    PROVE  ItemSet(dk, dk2, d, n, v)
<1> DEFINE A == ItemsOf(dk)
           B == ItemsOf(dk2)
           C == [A EXCEPT ![d][n] = v]
<1>1. /\ A = [x \in DataCluster |-> [m \in Names |-> ItemIn(dk, x, m)]]
      /\ B = [x \in DataCluster |-> [m \in Names |-> ItemIn(dk2, x, m)]]
  BY DEF ItemsOf
<1> HIDE DEF A, B
<1>2. C = [x \in DataCluster |-> IF x = d THEN [A[d] EXCEPT ![n] = v] ELSE A[x]]
  BY <1>1
<1>3. A[d] = [m \in Names |-> ItemIn(dk, d, m)]
  BY <1>1
<1>4. [A[d] EXCEPT ![n] = v] = [m \in Names |-> IF m = n THEN v ELSE ItemIn(dk, d, m)]
  BY <1>3
<1>5. [m \in Names |-> ItemIn(dk2, d, m)] = [m \in Names |-> IF m = n THEN v ELSE ItemIn(dk, d, m)]
  BY DEF Elsewhere
<1>6. ASSUME NEW x \in DataCluster PROVE B[x] = C[x]
  <2>1. CASE x = d
    BY <1>1, <1>2, <1>4, <1>5, <2>1
  <2>2. CASE x # d
    <3>1. [m \in Names |-> ItemIn(dk2, x, m)] = [m \in Names |-> ItemIn(dk, x, m)]
      BY <2>2 DEF Elsewhere
    <3>2. B[x] = [m \in Names |-> ItemIn(dk2, x, m)] /\ A[x] = [m \in Names |-> ItemIn(dk, x, m)]
      BY <1>1
    <3>3. C[x] = A[x]
      BY <1>2, <2>2
    <3> QED BY <3>1, <3>2, <3>3
  <2> QED BY <2>1, <2>2
<1>7. B = [x \in DataCluster |-> B[x]] /\ C = [x \in DataCluster |-> C[x]]
  <2>1. B = [x \in DataCluster |-> B[x]]
    BY <1>1
  <2>2. C = [x \in DataCluster |-> C[x]]
    BY <1>2
  <2> QED BY <2>1, <2>2
<1>8. B = C
  <2> HIDE DEF C
  <2> QED BY <1>6, <1>7
<1> QED BY <1>8 DEF A, B, ItemSet

\* An item is nothing, or what the only row of its name says.
LEMMA ItemNothing ==
    ASSUME NEW dk, NEW d, NEW n, \A r \in Row : LiveIn(dk, d, r) => dk[d].tab[r].name # n
    PROVE  ItemIn(dk, d, n) = [kind |-> "nothing"]
<1>1. RowsIn(dk, d, n) = {}
  BY DEF RowsIn
<1> QED BY <1>1 DEF ItemIn

LEMMA ItemOnly ==
    ASSUME NEW dk, NEW d, NEW n, NEW r \in Row, LiveIn(dk, d, r), dk[d].tab[r].name = n,
           \A y \in Row : LiveIn(dk, d, y) /\ dk[d].tab[y].name = n => y = r
    PROVE  ItemIn(dk, d, n) = ItemOf(dk, dk[d].tab[r])
<1>1. RowsIn(dk, d, n) = {r}
  BY DEF RowsIn
<1>2. (CHOOSE y \in RowsIn(dk, d, n) : TRUE) = r
  BY <1>1
<1>3. RowsIn(dk, d, n) # {}
  BY <1>1
<1> QED BY <1>2, <1>3 DEF ItemIn

\* The write of a row changes a directory, which is in no file.
LEMMA RowBesides ==
    ASSUME NEW dk, NEW dk2, NEW f, DiskSound(dk, f), NEW d, NEW r, NEW e,
           RowSet(dk, dk2, d, r, e)
    PROVE  Besides(dk, dk2, f, d)
BY DEF DiskSound, DirsSound, RowSet, Besides

\* Which rows are in use after that.
LEMMA RowSetLive ==
    ASSUME NEW dk, NEW dk2, NEW d, NEW r, NEW e, RowSet(dk, dk2, d, r, e)
    PROVE  /\ \A x \in DataCluster : ValidDir(dk2[x].tab) <=> ValidDir(dk[x].tab)
           /\ \A x \in DataCluster, y \in Row : x # d \/ y # r =>
                 /\ LiveIn(dk2, x, y) <=> LiveIn(dk, x, y)
                 /\ dk2[x].tab[y] = dk[x].tab[y]
           /\ LiveIn(dk2, d, r) <=> e.used
           /\ dk2[d].tab[r] = e
<1>1. /\ d \in DataCluster /\ r \in Row /\ r >= 2 /\ ValidDir(dk[d].tab)
      /\ dk2[d].tab[r] = e /\ \A y \in Row : y # r => dk2[d].tab[y] = dk[d].tab[y]
      /\ \A x \in DataCluster : x # d => dk2[x] = dk[x]
  BY DEF RowSet
<1>2. 0 \in Row /\ 0 # r
  BY <1>1, Constants
<1>3. \A x \in DataCluster : ValidDir(dk2[x].tab) <=> ValidDir(dk[x].tab)
  BY <1>1, <1>2 DEF ValidDir
<1> QED BY <1>1, <1>3 DEF LiveIn

\* Entry e, of a name that is free, goes into the unused row r.
Adds(dk, dk2, f, d, r, e) ==
    /\ RowSet(dk, dk2, d, r, e) /\ e.used /\ ~ dk[d].tab[r].used /\ e.name \in Names
    /\ \A y \in Row : LiveIn(dk, d, y) => dk[d].tab[y].name # e.name
    /\ ~ e.sub => /\ Holds(dk, f, e.cluster, dk[e.cluster].data.p, e.size)
                  /\ d \notin ChainSet(f, e.cluster)

Added(dk, dk2, f, d, n, v) ==
    /\ FilesHold(dk2, f)
    /\ DirsOf(dk2) = DirsOf(dk)
    /\ ItemsOf(dk)[d][n] = [kind |-> "nothing"]
    /\ ItemSet(dk, dk2, d, n, v)

\* A name more: what the new row says is seen, and nothing else changes.
LEMMA NameAdded ==
    ASSUME NEW dk, NEW dk2, NEW f, DiskSound(dk, f), FilesHold(dk, f), NEW d, NEW r, NEW e,
           Adds(dk, dk2, f, d, r, e)
    PROVE  Added(dk, dk2, f, d, e.name, ItemOf(dk, e))
<1>0. /\ RowSet(dk, dk2, d, r, e) /\ e.used /\ ~ dk[d].tab[r].used /\ e.name \in Names
      /\ \A y \in Row : LiveIn(dk, d, y) => dk[d].tab[y].name # e.name
      /\ ~ e.sub => /\ Holds(dk, f, e.cluster, dk[e.cluster].data.p, e.size)
                    /\ d \notin ChainSet(f, e.cluster)
  BY DEF Adds
<1>1. /\ d \in DataCluster /\ r \in Row
      /\ Besides(dk, dk2, f, d)
      /\ \A x \in DataCluster : x # d => dk2[x] = dk[x]
  BY <1>0, RowBesides DEF RowSet
<1>2. /\ \A x \in DataCluster : ValidDir(dk2[x].tab) <=> ValidDir(dk[x].tab)
      /\ \A x \in DataCluster, y \in Row : x # d \/ y # r =>
            /\ LiveIn(dk2, x, y) <=> LiveIn(dk, x, y)
            /\ dk2[x].tab[y] = dk[x].tab[y]
      /\ LiveIn(dk2, d, r) /\ dk2[d].tab[r] = e
  BY <1>0, RowSetLive
<1>3. /\ \A x \in DataCluster, y \in Row :
            LiveIn(dk, x, y) /\ ~ dk[x].tab[y].sub =>
               LET a == dk[x].tab[y] IN
               /\ Holds(dk2, f, a.cluster, dk2[a.cluster].data.p, a.size)
               /\ dk2[a.cluster].data.p = dk[a.cluster].data.p
      /\ SameData(dk, dk2)
  BY <1>1, FilesStay
<1>4. ~ LiveIn(dk, d, r)
  BY <1>0 DEF LiveIn
<1>5. ASSUME ~ e.sub
      PROVE  /\ Holds(dk2, f, e.cluster, dk2[e.cluster].data.p, e.size)
             /\ dk2[e.cluster].data.p = dk[e.cluster].data.p
  <2>1. \A x \in ChainSet(f, e.cluster) : x # d /\ x \in DataCluster
    BY <1>0, <1>5 DEF ChainSet
  <2>2. \A x \in ChainSet(f, e.cluster) : f[x] = f[x] /\ dk2[x].data = dk[x].data
    BY <1>1, <2>1
  <2>3. Holds(dk, f, e.cluster, dk[e.cluster].data.p, e.size)
    BY <1>0, <1>5
  <2>4. /\ Holds(dk2, f, e.cluster, dk[e.cluster].data.p, e.size)
        /\ dk2[e.cluster].data.p = dk[e.cluster].data.p
    BY <2>2, <2>3, HoldFrame
  <2> QED BY <2>4
<1>6. FilesHold(dk2, f)
  <2>1. SUFFICES ASSUME NEW x \in DataCluster, NEW y \in Row,
                        LiveIn(dk2, x, y), ~ dk2[x].tab[y].sub
                 PROVE  LET a == dk2[x].tab[y] IN
                        Holds(dk2, f, a.cluster, dk2[a.cluster].data.p, a.size)
    BY DEF FilesHold
  <2>2. CASE x = d /\ y = r
    BY <1>2, <1>5, <2>1, <2>2
  <2>3. CASE x # d \/ y # r
    BY <1>2, <1>3, <2>1, <2>3
  <2> QED BY <2>2, <2>3
<1>7. DirsOf(dk2) = DirsOf(dk)
  BY <1>2 DEF DirsOf
<1>8. ItemIn(dk, d, e.name) = [kind |-> "nothing"]
  BY <1>0, ItemNothing
<1>9. ItemIn(dk2, d, e.name) = ItemOf(dk2, e)
  <2>1. \A y \in Row : LiveIn(dk2, d, y) /\ dk2[d].tab[y].name = e.name => y = r
    BY <1>0, <1>1, <1>2
  <2> QED BY <1>1, <1>2, <2>1, ItemOnly
<1>10. ItemOf(dk2, e) = ItemOf(dk, e)
  BY <1>5 DEF ItemOf
<1>11. ASSUME NEW x \in DataCluster, NEW m \in Names, x # d \/ m # e.name
       PROVE  ItemIn(dk2, x, m) = ItemIn(dk, x, m)
  <2>1. /\ RowsIn(dk2, x, m) = RowsIn(dk, x, m)
        /\ \A y \in RowsIn(dk, x, m) : dk2[x].tab[y] = dk[x].tab[y]
    BY <1>2, <1>4, <1>11 DEF RowsIn
  <2> QED BY <1>3, <2>1, SameItem
<1>12. ItemSet(dk, dk2, d, e.name, ItemOf(dk, e))
  <2>1. Elsewhere(dk, dk2, d, e.name)
    BY <1>11 DEF Elsewhere
  <2> QED BY <1>0, <1>1, <1>9, <1>10, <2>1, OneItem
<1>13. ItemsOf(dk)[d][e.name] = ItemIn(dk, d, e.name)
  BY <1>0, <1>1 DEF ItemsOf
<1> QED BY <1>6, <1>7, <1>8, <1>12, <1>13 DEF Added

\* Row r, the only one of name n, goes out of use.
Removes(dk, dk2, d, r, e, n) ==
    /\ RowSet(dk, dk2, d, r, e) /\ ~ e.used /\ dk[d].tab[r].used
    /\ n = dk[d].tab[r].name /\ n \in Names
    /\ \A y \in Row : LiveIn(dk, d, y) /\ dk[d].tab[y].name = n => y = r

Removed(dk, dk2, f, d, n, v) ==
    /\ FilesHold(dk2, f)
    /\ DirsOf(dk2) = DirsOf(dk)
    /\ ItemsOf(dk)[d][n] = v
    /\ ItemSet(dk, dk2, d, n, [kind |-> "nothing"])

\* A name less.
LEMMA NameRemoved ==
    ASSUME NEW dk, NEW dk2, NEW f, DiskSound(dk, f), FilesHold(dk, f), NEW d, NEW r, NEW e,
           NEW n, Removes(dk, dk2, d, r, e, n)
    PROVE  Removed(dk, dk2, f, d, n, ItemOf(dk, dk[d].tab[r]))
<1>0. /\ RowSet(dk, dk2, d, r, e) /\ ~ e.used /\ dk[d].tab[r].used
      /\ n = dk[d].tab[r].name /\ n \in Names
      /\ \A y \in Row : LiveIn(dk, d, y) /\ dk[d].tab[y].name = n => y = r
  BY DEF Removes
<1>1. /\ d \in DataCluster /\ r \in Row /\ LiveIn(dk, d, r)
      /\ Besides(dk, dk2, f, d)
  BY <1>0, RowBesides DEF RowSet, LiveIn
<1>2. /\ \A x \in DataCluster : ValidDir(dk2[x].tab) <=> ValidDir(dk[x].tab)
      /\ \A x \in DataCluster, y \in Row : x # d \/ y # r =>
            /\ LiveIn(dk2, x, y) <=> LiveIn(dk, x, y)
            /\ dk2[x].tab[y] = dk[x].tab[y]
      /\ ~ LiveIn(dk2, d, r)
  BY <1>0, RowSetLive
<1>3. /\ \A x \in DataCluster, y \in Row :
            LiveIn(dk, x, y) /\ ~ dk[x].tab[y].sub =>
               LET a == dk[x].tab[y] IN
               /\ Holds(dk2, f, a.cluster, dk2[a.cluster].data.p, a.size)
               /\ dk2[a.cluster].data.p = dk[a.cluster].data.p
      /\ SameData(dk, dk2)
  BY <1>1, FilesStay
<1>4. FilesHold(dk2, f)
  <2>1. SUFFICES ASSUME NEW x \in DataCluster, NEW y \in Row,
                        LiveIn(dk2, x, y), ~ dk2[x].tab[y].sub
                 PROVE  LET a == dk2[x].tab[y] IN
                        Holds(dk2, f, a.cluster, dk2[a.cluster].data.p, a.size)
    BY DEF FilesHold
  <2>2. x # d \/ y # r
    BY <1>2, <2>1
  <2> QED BY <1>2, <1>3, <2>1, <2>2
<1>5. DirsOf(dk2) = DirsOf(dk)
  BY <1>2 DEF DirsOf
<1>6. ItemIn(dk, d, n) = ItemOf(dk, dk[d].tab[r])
  BY <1>0, <1>1, ItemOnly
<1>7. ItemIn(dk2, d, n) = [kind |-> "nothing"]
  <2>1. \A y \in Row : LiveIn(dk2, d, y) => dk2[d].tab[y].name # n
    BY <1>0, <1>1, <1>2
  <2> QED BY <2>1, ItemNothing
<1>8. ASSUME NEW x \in DataCluster, NEW m \in Names, x # d \/ m # n
      PROVE  ItemIn(dk2, x, m) = ItemIn(dk, x, m)
  <2>1. /\ RowsIn(dk2, x, m) = RowsIn(dk, x, m)
        /\ \A y \in RowsIn(dk, x, m) : dk2[x].tab[y] = dk[x].tab[y]
    BY <1>0, <1>1, <1>2, <1>8 DEF RowsIn
  <2> QED BY <1>3, <2>1, SameItem
<1>9. n \in Names
  BY <1>0
<1>10. ItemSet(dk, dk2, d, n, [kind |-> "nothing"])
  <2>1. Elsewhere(dk, dk2, d, n)
    BY <1>8 DEF Elsewhere
  <2> QED BY <1>1, <1>7, <1>9, <2>1, OneItem
<1>11. ItemsOf(dk)[d][n] = ItemIn(dk, d, n)
  BY <1>1, <1>9 DEF ItemsOf
<1> QED BY <1>4, <1>5, <1>6, <1>10, <1>11 DEF Removed

\* A cluster becomes a directory without contents.
LEMMA DirAppears ==
    ASSUME NEW dk, NEW dk2, NEW f, DiskSound(dk, f), FilesHold(dk, f), NEW c,
           Opens(dk, dk2, f, c)
    PROVE  /\ FilesHold(dk2, f) /\ ItemsOf(dk2) = ItemsOf(dk)
           /\ DirsOf(dk2) = DirsOf(dk) \cup {c}
<1>1. /\ c \in DataCluster /\ ~ ValidDir(dk[c].tab) /\ ValidDir(dk2[c].tab)
      /\ TargetEmpty(dk2[c].tab) /\ \A x \in DataCluster : x # c => dk2[x] = dk[x]
      /\ Besides(dk, dk2, f, c)
  BY DEF Opens, Besides
<1>2. \A x \in DataCluster, y \in Row :
         /\ LiveIn(dk2, x, y) <=> LiveIn(dk, x, y)
         /\ LiveIn(dk, x, y) => dk2[x].tab[y] = dk[x].tab[y]
  BY <1>1 DEF LiveIn, TargetEmpty
<1>3. /\ \A x \in DataCluster, y \in Row :
            LiveIn(dk, x, y) /\ ~ dk[x].tab[y].sub =>
               LET a == dk[x].tab[y] IN
               /\ Holds(dk2, f, a.cluster, dk2[a.cluster].data.p, a.size)
               /\ dk2[a.cluster].data.p = dk[a.cluster].data.p
      /\ SameData(dk, dk2)
  BY <1>1, FilesStay
<1>4. FilesHold(dk2, f)
  BY <1>2, <1>3 DEF FilesHold
<1>5. \A d \in DataCluster : SameRows(dk, dk2, d)
  BY <1>2 DEF SameRows
<1>6. ItemsOf(dk2) = ItemsOf(dk)
  BY <1>3, <1>5, SameView
<1>7. DirsOf(dk2) = DirsOf(dk) \cup {c}
  BY <1>1 DEF DirsOf
<1> QED BY <1>4, <1>6, <1>7

\* A directory without contents, in no chain, is one no more.
LEMMA DirGoes ==
    ASSUME NEW dk, NEW dk2, NEW f, DiskSound(dk, f), FilesHold(dk, f), NEW c,
           Closes(dk, dk2, c),
           \A d \in DataCluster, r \in Row :
              LiveIn(dk, d, r) => c \notin ChainSet(f, dk[d].tab[r].cluster)
    PROVE  /\ FilesHold(dk2, f) /\ ItemsOf(dk2) = ItemsOf(dk)
           /\ DirsOf(dk2) = DirsOf(dk) \ {c}
<1>1. /\ c \in DataCluster /\ ~ ValidDir(dk2[c].tab)
      /\ TargetEmpty(dk[c].tab) \/ ~ ValidDir(dk[c].tab)
      /\ \A x \in DataCluster : x # c => dk2[x] = dk[x]
      /\ Besides(dk, dk2, f, c)
  BY DEF Closes, Besides
<1>2. \A x \in DataCluster, y \in Row :
         /\ LiveIn(dk2, x, y) <=> LiveIn(dk, x, y)
         /\ LiveIn(dk, x, y) => dk2[x].tab[y] = dk[x].tab[y]
  BY <1>1 DEF LiveIn, TargetEmpty
<1>3. /\ \A x \in DataCluster, y \in Row :
            LiveIn(dk, x, y) /\ ~ dk[x].tab[y].sub =>
               LET a == dk[x].tab[y] IN
               /\ Holds(dk2, f, a.cluster, dk2[a.cluster].data.p, a.size)
               /\ dk2[a.cluster].data.p = dk[a.cluster].data.p
      /\ SameData(dk, dk2)
  BY <1>1, FilesStay
<1>4. FilesHold(dk2, f)
  BY <1>2, <1>3 DEF FilesHold
<1>5. \A d \in DataCluster : SameRows(dk, dk2, d)
  BY <1>2 DEF SameRows
<1>6. ItemsOf(dk2) = ItemsOf(dk)
  BY <1>3, <1>5, SameView
<1>7. DirsOf(dk2) = DirsOf(dk) \ {c}
  BY <1>1 DEF DirsOf
<1> QED BY <1>4, <1>6, <1>7

\* A folder is named in some directory exactly where a row names it.
LEMMA NamedByRow ==
    ASSUME NEW dk, NEW h, NEW d \in DataCluster, NEW n \in Names,
           ItemsOf(dk)[d][n] = [kind |-> "folder", handle |-> h]
    PROVE  \E r \in Row : LiveIn(dk, d, r) /\ dk[d].tab[r].sub /\ dk[d].tab[r].cluster = h
<1>1. ItemIn(dk, d, n) = [kind |-> "folder", handle |-> h]
  BY DEF ItemsOf
<1>2. RowsIn(dk, d, n) # {}
  <2>1. SUFFICES ASSUME RowsIn(dk, d, n) = {} PROVE FALSE
    OBVIOUS
  <2>2. [kind |-> "nothing"] = [kind |-> "folder", handle |-> h]
    BY <1>1, <2>1 DEF ItemIn
  <2>3. [kind |-> "nothing"].kind = "nothing" /\ [kind |-> "folder", handle |-> h].kind = "folder"
    OBVIOUS
  <2> QED BY <2>2, <2>3
<1>3. PICK r : r = CHOOSE y \in RowsIn(dk, d, n) : TRUE
  OBVIOUS
<1>4. r \in Row /\ LiveIn(dk, d, r)
  BY <1>2, <1>3 DEF RowsIn
<1>5. ItemOf(dk, dk[d].tab[r]) = [kind |-> "folder", handle |-> h]
  BY <1>1, <1>2, <1>3 DEF ItemIn
<1> QED BY <1>4, <1>5 DEF ItemOf

\* A directory without rows in use has no items.
LEMMA EmptyItems ==
    ASSUME NEW dk, NEW d \in DataCluster, TargetEmpty(dk[d].tab)
    PROVE  \A n \in Names : ItemsOf(dk)[d][n] = [kind |-> "nothing"]
<1>1. ASSUME NEW n \in Names PROVE ItemIn(dk, d, n) = [kind |-> "nothing"]
  <2>1. \A r \in Row : ~ LiveIn(dk, d, r)
    BY DEF LiveIn, TargetEmpty
  <2> QED BY <2>1, ItemNothing
<1> QED BY <1>1 DEF ItemsOf

-----------------------------------------------------------------------------
(* The invariant, and steps that a user does not see *)

\* What the file being written consists of: so far m + 1 parts, on as many
\* clusters of a chain that ends in call.cur.
CallWrites ==
    /\ pc \in {"mkdirParent", "mkdirTable", "fill", "writeRow"} => call.name \in Names
    /\ pc \in {"fill", "writeRow"} => call.payload \in Payloads /\ call.size \in Sizes \ {0}
    /\ pc = "fill" =>
          \E m \in 0 .. NCluster :
             /\ m + 1 = Needed(call.size) - call.need
             /\ Building(cluster_map, m, {})
             /\ Parts(disk, cluster_map, call.start, call.payload, call.size, m + 1)
    /\ pc = "writeRow" => Holds(disk, diskFat, call.start, call.payload, call.size)

StoreInv == FilesHold(disk, diskFat) /\ CallWrites

\* What a step finds.
Ready == Sound /\ StoreInv

\* The step is one of the store, or changes nothing of it.
StoreStep == [Store!Next]_(Store!vars)

LEMMA StoreStays ==
    ASSUME visibleDirs' = visibleDirs, visibleItems' = visibleItems, pendingFile' = pendingFile
    PROVE  StoreStep
BY DEF StoreStep, Store!vars

LEMMA Seen ==
    ASSUME FilesHold(disk, diskFat), FilesHold(disk', diskFat')
    PROVE  /\ visibleItems = ItemsOf(disk) /\ visibleItems' = ItemsOf(disk')
           /\ visibleDirs = DirsOf(disk) /\ visibleDirs' = DirsOf(disk')
BY MappingIs, NoneBroken

LEMMA PendingIs ==
    /\ pc \notin {"fill", "writeRow"} => pendingFile = Store!None
    /\ pc' \notin {"fill", "writeRow"} => pendingFile' = Store!None
    /\ pc \in {"fill", "writeRow"} =>
          pendingFile = Store!Writing(call.parent, call.name,
                                      [payload |-> call.payload, size |-> call.size])
    /\ pc' \in {"fill", "writeRow"} =>
          pendingFile' = Store!Writing(call'.parent, call'.name,
                                       [payload |-> call'.payload, size |-> call'.size])
BY DEF pendingFile, Store!None, Store!Writing

LEMMA WritingIsSome == \A d, n, c : Store!Writing(d, n, c) # Store!None
<1>1. ASSUME NEW d, NEW n, NEW c PROVE Store!Writing(d, n, c) # Store!None
  <2>1. Store!Writing(d, n, c).kind = "writing" /\ Store!None.kind = "none"
    BY DEF Store!Writing, Store!None
  <2> QED BY <2>1
<1> QED BY <1>1

\* What is held stays as it is, in the FAT and on the disk.
Quiet ==
    /\ Agree(diskFat', diskFat, Held(disk, diskFat))
    /\ \A x \in Held(disk, diskFat) : disk'[x] = disk[x]
    /\ \A x \in DataCluster : ValidDir(disk'[x].tab) => x \in Held(disk, diskFat)

LEMMA QuietSame ==
    ASSUME Ready, Quiet
    PROVE  FilesHold(disk', diskFat') /\ visibleDirs' = visibleDirs /\ visibleItems' = visibleItems
<1>1. DiskSound(disk, diskFat) /\ FilesHold(disk, diskFat)
  BY DEF Ready, Sound, NamedInv, StoreInv
<1>2. /\ FilesHold(disk', diskFat') /\ ItemsOf(disk') = ItemsOf(disk)
      /\ DirsOf(disk') = DirsOf(disk)
  BY <1>1, Unseen DEF Quiet
<1> QED BY <1>1, <1>2, Seen

\* A step that leaves the disk alone is quiet.
LEMMA DiskAlone ==
    ASSUME UNCHANGED disk, Agree(diskFat', diskFat, Held(disk, diskFat))
    PROVE  Quiet
BY DEF Quiet, Held

\* A block that nothing holds may become one without a table in use.
LEMMA BlockAlone ==
    ASSUME NEW c \in DataCluster, c \notin Held(disk, diskFat),
           Placed(disk, c, ZeroTable, disk'), UNCHANGED diskFat
    PROVE  Quiet
<1>1. \A x \in DataCluster : x # c => disk'[x] = disk[x]
  BY DEF Placed
<1>2. ~ ValidDir(disk'[c].tab)
  BY BlankTypes DEF Placed
<1>3. Held(disk, diskFat) \subseteq DataCluster
  BY DEF Held
<1>4. \A x \in Held(disk, diskFat) : disk'[x] = disk[x]
  BY <1>1, <1>3
<1>5. \A x \in DataCluster : ValidDir(disk'[x].tab) => x \in Held(disk, diskFat)
  BY <1>1, <1>2 DEF Held
<1> QED BY <1>4, <1>5 DEF Quiet, Agree

\* A quiet step that does not go on with a write: a file under way is given up.
LEMMA QuietEnds ==
    ASSUME Ready, Quiet, pc' \notin {"mkdirParent", "mkdirTable", "fill", "writeRow"}
    PROVE  StoreInv' /\ StoreStep
<1>1. FilesHold(disk', diskFat') /\ visibleDirs' = visibleDirs /\ visibleItems' = visibleItems
  BY QuietSame
<1>2. StoreInv'
  BY <1>1 DEF StoreInv, CallWrites
<1>3. pendingFile' = Store!None
  BY PendingIs
<1>4. CASE pc \in {"fill", "writeRow"}
  <2>1. pendingFile # Store!None
    BY <1>4, PendingIs, WritingIsSome
  <2>2. Store!AbandonFile
    BY <1>1, <1>3, <2>1 DEF Store!AbandonFile
  <2> QED BY <1>2, <2>2 DEF StoreStep, Store!Next
<1>5. CASE pc \notin {"fill", "writeRow"}
  <2>1. pendingFile = Store!None
    BY <1>5, PendingIs
  <2> QED BY <1>1, <1>2, <1>3, <2>1, StoreStays
<1> QED BY <1>4, <1>5

\* The cached FAT, or a part of it, goes to the disk: it agrees on what is held.
LEMMA CacheAgrees ==
    ASSUME Ready, Loaded
    PROVE  Agree(cluster_map, diskFat, Held(disk, diskFat))
BY DEF Ready, Sound, NamedInv

LEMMA AgreeSelf == \A f, H : Agree(f, f, H)
BY DEF Agree

LEMMA StorePower ==
    ASSUME Ready, Crash \/ Boot \/ FormatSignature \/ Wild \/ UNCHANGED vars
    PROVE  StoreInv' /\ StoreStep
<1>1. CASE Crash \/ Boot \/ FormatSignature
  <2>1. UNCHANGED <<disk, diskFat>> /\ pc' \in {"off", "idle", "fmtFat"}
    BY <1>1 DEF Crash, Boot, FormatSignature, PowerOff, durable, Lost
  <2>2. Quiet
    BY <2>1, AgreeSelf, DiskAlone
  <2> QED BY <2>1, <2>2, QuietEnds
<1>2. CASE UNCHANGED vars
  <2>1. UNCHANGED <<disk, diskFat, cluster_map, pc, call>>
    BY <1>2 DEF vars, durable
  <2>2. Quiet
    BY <2>1, AgreeSelf, DiskAlone
  <2>3. FilesHold(disk', diskFat') /\ visibleDirs' = visibleDirs /\ visibleItems' = visibleItems
    BY <2>2, QuietSame
  <2>4. pendingFile' = pendingFile
    BY <2>1 DEF pendingFile
  <2>5. CallWrites'
    BY <2>1 DEF Ready, StoreInv, CallWrites, Building
  <2> QED BY <2>3, <2>4, <2>5, StoreStays DEF StoreInv
<1> QED BY <1>1, <1>2 DEF Wild, Lost

LEMMA StoreRead ==
    ASSUME Ready, NEW d \in DataCluster, NEW n,
           \/ ReadDirectory(d, n)
           \/ \E s \in Sizes : Read(d, n, s) \/ ReadRunaway(d, n, s)
           \/ WriteReject(d, n) \/ WriteOverrun(d, n) \/ DeleteReject(d, n)
    PROVE  StoreInv' /\ StoreStep
<1>1. UNCHANGED <<diskFat, disk>>
  BY DEF ReadDirectory, Read, ReadRunaway, WriteReject, WriteOverrun, DeleteReject, durable
<1>2. pc' \in {"idle", "wild", "spin", "overrun"}
  BY DEF ReadDirectory, Read, ReadRunaway, WriteReject, WriteOverrun, DeleteReject, Return
<1>3. Quiet
  BY <1>1, AgreeSelf, DiskAlone
<1> QED BY <1>2, <1>3, QuietEnds

LEMMA StoreRunaway ==
    ASSUME Ready, FillOverrun \/ RmRunaway
    PROVE  StoreInv' /\ StoreStep
<1>1. pc' \in {"wild", "spin", "overrun"} /\ UNCHANGED <<diskFat, disk>>
  BY DEF FillOverrun, RmRunaway, durable
<1>2. Quiet
  BY <1>1, AgreeSelf, DiskAlone
<1> QED BY <1>1, <1>2, QuietEnds

LEMMA StoreFatTorn == ASSUME Ready, FatTorn PROVE StoreInv' /\ StoreStep
<1>1. /\ pc \in {"fill", "rmLoop"} /\ pc' = "off" /\ disk' = disk /\ Loaded
  BY DEF FatTorn, PowerOff, Loaded
<1>2. PICK k \in Cluster : diskFat' = Torn(diskFat, cluster_map, k, SectorEntries)
  BY DEF FatTorn
<1>3. /\ diskFat \in [Cluster -> 0 .. NCluster + 1] /\ cluster_map \in [Cluster -> 0 .. NCluster + 1]
      /\ Held(disk, diskFat) \subseteq Cluster
  BY Constants DEF Ready, Sound, IInv, TypeOK, Held
<1>4. \A x \in Cluster : diskFat'[x] \in {cluster_map[x], diskFat[x]}
  BY <1>2, <1>3, TornFat
<1>5. Agree(diskFat', diskFat, Held(disk, diskFat))
  BY <1>1, <1>3, <1>4, CacheAgrees DEF Agree
<1>6. Quiet
  BY <1>1, <1>5, DiskAlone
<1> QED BY <1>1, <1>6, QuietEnds

LEMMA StoreRmFat == ASSUME Ready, RmFat PROVE StoreInv' /\ StoreStep
<1>1. /\ pc = "rmLoop" /\ pc' = "rmLast" /\ diskFat' = cluster_map /\ Loaded /\ disk' = disk
  BY DEF RmFat, Loaded
<1>2. Quiet
  BY <1>1, CacheAgrees, DiskAlone
<1> QED BY <1>1, <1>2, QuietEnds

LEMMA StoreRmLast == ASSUME Ready, RmLast PROVE StoreInv' /\ StoreStep
<1>1. /\ pc = "rmLast" /\ pc' = "idle" /\ diskFat' = diskFat
      /\ disk' = [disk EXCEPT ![call.cur] = ZeroBlock]
  BY DEF RmLast, Return
<1>2. /\ call.cur \in DataCluster /\ disk \in [DataCluster -> Block]
      /\ call.cur \notin Held(disk, diskFat)
  BY <1>1 DEF Ready, Sound, IInv, TypeOK, CallSound, FileCluster, NamedInv, CallOwns
<1>3. Placed(disk, call.cur, ZeroTable, disk')
  BY <1>1, <1>2, BlankTypes, DataWrite
<1>4. Quiet
  BY <1>1, <1>2, <1>3, BlockAlone
<1> QED BY <1>1, <1>4, QuietEnds

LEMMA StoreRmCluster == ASSUME Ready, RmCluster PROVE StoreInv' /\ StoreStep
<1>1. /\ pc \in {"rmFirst", "rmLoop"} /\ pc' = "rmLoop" /\ call.nxt \in DataCluster
      /\ disk' = [disk EXCEPT ![call.nxt] = ZeroBlock] /\ diskFat' = diskFat
  BY DEF RmCluster
<1>2. call.nxt \notin Held(disk, diskFat) /\ disk \in [DataCluster -> Block]
  BY <1>1 DEF Ready, Sound, IInv, TypeOK, NamedInv, CallOwns, Detached
<1>3. Placed(disk, call.nxt, ZeroTable, disk')
  BY <1>1, <1>2, BlankTypes, DataWrite
<1>4. Quiet
  BY <1>1, <1>2, <1>3, BlockAlone
<1> QED BY <1>1, <1>4, QuietEnds

LEMMA StoreRmdirFat == ASSUME Ready, RmdirFat PROVE StoreInv' /\ StoreStep
<1>1. /\ pc = "rmdirFat" /\ pc' = "idle" /\ disk' = disk /\ cluster_map = diskFat
      /\ diskFat' = [cluster_map EXCEPT ![call.start] = FAT32_FAT_EMPTY_ENTRY]
  BY DEF RmdirFat, Return, Ready, Sound, IInv, CacheSaved, Saved
<1>2. call.start \notin Held(disk, diskFat)
  BY <1>1 DEF Ready, Sound, NamedInv, CallOwns
<1>3. diskFat \in [Cluster -> 0 .. NCluster + 1] /\ Held(disk, diskFat) \subseteq Cluster
  BY Constants DEF Ready, Sound, IInv, TypeOK, Held
<1>4. Agree(diskFat', diskFat, Held(disk, diskFat))
  BY <1>1, <1>2, <1>3 DEF Agree
<1>5. Quiet
  BY <1>1, <1>4, DiskAlone
<1> QED BY <1>1, <1>5, QuietEnds

LEMMA StoreMkdirFat ==
    ASSUME Ready, NEW d \in DataCluster, NEW n \in Names, MkdirFat(d, n)
    PROVE  StoreInv' /\ StoreStep
<1>1. PICK r \in Row, c \in DataCluster :
         /\ IsFirst(FreeRow(disk[d].tab), r)
         /\ IsFirst(FreeCluster(cluster_map), c)
         /\ call' = [NoCall EXCEPT !.parent = d, !.name = n, !.row = r, !.start = c]
         /\ cluster_map' = [cluster_map EXCEPT ![c] = FAT32_FAT_END_OF_FILE]
         /\ diskFat' = cluster_map'
  BY DEF MkdirFat
<1>2. /\ pc = "idle" /\ WriteCode(disk[d].tab, n) = 0 /\ pc' = "mkdirParent"
      /\ disk' = disk /\ Loaded
  BY DEF MkdirFat, Loaded
<1>3. cluster_map = diskFat /\ cluster_map[c] = FAT32_FAT_EMPTY_ENTRY
  BY <1>1, <1>2, WriteBegins DEF Ready, Sound
<1>4. c \notin Held(disk, diskFat)
  BY <1>2, <1>3, FreeNotHeld DEF Ready, Sound
<1>5. diskFat \in [Cluster -> 0 .. NCluster + 1] /\ Held(disk, diskFat) \subseteq Cluster
  BY Constants DEF Ready, Sound, IInv, TypeOK, Held
<1>6. Agree(diskFat', diskFat, Held(disk, diskFat))
  BY <1>1, <1>3, <1>4, <1>5 DEF Agree
<1>7. FilesHold(disk', diskFat') /\ visibleDirs' = visibleDirs /\ visibleItems' = visibleItems
  BY <1>2, <1>6, DiskAlone, QuietSame
<1>8. pendingFile' = pendingFile
  BY <1>2 DEF pendingFile
<1>9. call'.name = n
  BY <1>1 DEF NoCall
<1>10. CallWrites'
  BY <1>2, <1>9 DEF CallWrites
<1> QED BY <1>7, <1>8, <1>10, StoreStays DEF StoreInv

-----------------------------------------------------------------------------
(* Steps of the store *)

LEMMA StoreFormat ==
    ASSUME Ready, FormatFat \/ FormatRoot
    PROVE  StoreInv' /\ StoreStep
<1>1. /\ \A d \in DataCluster : ~ ValidDir(disk[d].tab)
      /\ UseIsNamed(disk) /\ DiskSound(disk, diskFat) /\ FilesHold(disk, diskFat)
  BY DEF Ready, Sound, IInv, Unformatted, FormatFat, FormatRoot, NamedInv, DiskSound, StoreInv
<1>2. Held(disk, diskFat) = {}
  BY <1>1, NoDirectories
<1>3. CASE FormatFat
  <2>1. pc' = "fmtRoot" /\ disk' = disk
    BY <1>3 DEF FormatFat
  <2>2. Quiet
    BY <1>2, <2>1, DiskAlone DEF Agree
  <2> QED BY <2>1, <2>2, QuietEnds
<1>4. CASE FormatRoot
  <2>1. /\ diskFat = FreshFat /\ diskFat' = diskFat /\ pc = "fmtRoot" /\ pc' = "idle"
        /\ disk' = [disk EXCEPT ![ROOT_CLUSTER_NUMBER] = TableBlock(RootTable)]
        /\ disk \in [DataCluster -> Block]
    BY <1>4 DEF Ready, Sound, IInv, TypeOK, Unformatted, FormatRoot, Return
  <2>2. /\ RootTable \in Table /\ ValidDir(RootTable) /\ TargetEmpty(RootTable)
        /\ \A r \in Row : r >= 2 => RootTable[r] = ZeroEntry
    <3>1. RootName \in AllNames /\ ROOT_CLUSTER_NUMBER \in Cluster
      BY Constants DEF AllNames
    <3>2. RootTable = init_directory_table(RootName, ROOT_CLUSTER_NUMBER, ROOT_CLUSTER_NUMBER)
      BY DEF RootTable
    <3> QED BY <3>1, <3>2, NewTable
  <2>3. Placed(disk, ROOT_CLUSTER_NUMBER, RootTable, disk')
    BY <2>1, <2>2, TableWrite, Constants
  <2>4. /\ ValidDir(disk'[ROOT_CLUSTER_NUMBER].tab) /\ TargetEmpty(disk'[ROOT_CLUSTER_NUMBER].tab)
        /\ \A x \in DataCluster : x # ROOT_CLUSTER_NUMBER => disk'[x] = disk[x]
        /\ \A r \in Row : r >= 2 => disk'[ROOT_CLUSTER_NUMBER].tab[r] = ZeroEntry
    BY <2>2, <2>3 DEF Placed
  <2>5. \A r \in Row : r >= 2 => (disk'[ROOT_CLUSTER_NUMBER].tab[r].used
                                    <=> disk'[ROOT_CLUSTER_NUMBER].tab[r].name # ZeroName)
    BY <2>4 DEF ZeroEntry
  <2>6. \A d \in DataCluster, r \in Row : ~ LiveIn(disk, d, r)
    BY <1>1 DEF LiveIn
  <2>7. diskFat[ROOT_CLUSTER_NUMBER] = FAT32_FAT_END_OF_FILE
    BY <2>1, FreshFatMarks
  <2>8. Opens(disk, disk', diskFat, ROOT_CLUSTER_NUMBER)
    BY <1>1, <2>4, <2>5, <2>6, <2>7, Constants DEF Opens
  <2>9. /\ FilesHold(disk', diskFat') /\ ItemsOf(disk') = ItemsOf(disk)
        /\ DirsOf(disk') = DirsOf(disk) \cup {ROOT_CLUSTER_NUMBER}
    BY <1>1, <2>1, <2>8, DirAppears
  <2>10. DirsOf(disk) = {}
    BY <1>1 DEF DirsOf
  <2>11. /\ visibleDirs = {} /\ visibleDirs' = {ROOT_CLUSTER_NUMBER}
         /\ visibleItems' = visibleItems
    BY <1>1, <2>9, <2>10, Seen
  <2>12. pendingFile' = pendingFile
    BY <2>1 DEF pendingFile
  <2>13. Store!Format
    BY <2>11, <2>12 DEF Store!Format
  <2>14. StoreInv'
    BY <2>1, <2>9 DEF StoreInv, CallWrites
  <2> QED BY <2>13, <2>14 DEF StoreStep, Store!Next
<1> QED BY <1>3, <1>4

LEMMA StoreMkdirParent == ASSUME Ready, MkdirParent PROVE StoreInv' /\ StoreStep
<1>1. /\ pc = "mkdirParent" /\ pc' = "mkdirTable"
      /\ UNCHANGED <<signed, diskFat, cluster_map, call, ret>>
      /\ dir_table_buf' = [dir_table_buf EXCEPT ![call.row] = DirEntry(call.name, call.start)]
      /\ disk' = [disk EXCEPT ![call.parent] = TableBlock(dir_table_buf')]
  BY DEF MkdirParent
<1>2. /\ call.parent \in DataCluster /\ ValidDir(disk[call.parent].tab)
      /\ call.row \in Row /\ call.row >= 2 /\ call.start \in DataCluster
      /\ dir_table_buf = disk[call.parent].tab
      /\ MatchFrom(dir_table_buf, call.name, 2) = {}
      /\ disk \in [DataCluster -> Block] /\ dir_table_buf \in Table
  BY <1>1 DEF Ready, Sound, IInv, CallSound, TypeOK, Call, FileCluster
<1>3. /\ ~ disk[call.parent].tab[call.row].used
      /\ call.start \notin Held(disk, diskFat)
      /\ DiskSound(disk, diskFat) /\ FilesHold(disk, diskFat)
      /\ call.name \in Names
  BY <1>1 DEF Ready, Sound, NamedInv, CallOwns, StoreInv, CallWrites
<1> DEFINE e == DirEntry(call.name, call.start)
<1>4. e.used /\ e.sub /\ e.name = call.name /\ e.cluster = call.start
  BY DEF DirEntry
<1> HIDE DEF e
<1>5. dir_table_buf' \in Table
  BY DEF Ready, Sound, IInv, TypeOK
<1>6. Placed(disk, call.parent, dir_table_buf', disk')
  BY <1>1, <1>2, <1>5, TableWrite
<1>7. RowSet(disk, disk', call.parent, call.row, e)
  <2>1. dir_table_buf'[call.row] = e
        /\ \A y \in Row : y # call.row => dir_table_buf'[y] = disk[call.parent].tab[y]
    BY <1>1, <1>2 DEF Table, e
  <2> QED BY <1>2, <1>6, <2>1 DEF Placed, RowSet
<1>8. \A y \in Row : LiveIn(disk, call.parent, y) => disk[call.parent].tab[y].name # e.name
  BY <1>2, <1>4 DEF MatchFrom, LiveIn
<1>9. /\ FilesHold(disk', diskFat) /\ DirsOf(disk') = DirsOf(disk)
      /\ ItemsOf(disk)[call.parent][e.name] = [kind |-> "nothing"]
      /\ ItemsOf(disk') = [ItemsOf(disk) EXCEPT ![call.parent][e.name] = ItemOf(disk, e)]
  <2>1. Adds(disk, disk', diskFat, call.parent, call.row, e)
    BY <1>3, <1>4, <1>7, <1>8 DEF Adds
  <2>2. Added(disk, disk', diskFat, call.parent, e.name, ItemOf(disk, e))
    BY <1>3, <2>1, NameAdded
  <2> QED BY <2>2 DEF Added, ItemSet
<1>10. FilesHold(disk', diskFat')
  BY <1>1, <1>9
<1>11. /\ visibleItems = ItemsOf(disk) /\ visibleItems' = ItemsOf(disk')
       /\ visibleDirs = DirsOf(disk) /\ visibleDirs' = DirsOf(disk')
  BY <1>3, <1>10, Seen
<1>12. ItemOf(disk, e) = Store!Folder(call.start)
  BY <1>4 DEF ItemOf, Store!Folder
<1>13. call.parent \in visibleDirs /\ call.start \notin visibleDirs
  BY <1>2, <1>3, <1>11 DEF DirsOf, Held
<1>14. ~ Store!Named(call.start)
  <2>1. SUFFICES ASSUME NEW d \in visibleDirs, NEW n \in Names,
                        visibleItems[d][n] = Store!Folder(call.start)
                 PROVE  FALSE
    BY DEF Store!Named
  <2>2. d \in DataCluster
    BY <1>11, <2>1 DEF DirsOf
  <2>3. ItemsOf(disk)[d][n] = [kind |-> "folder", handle |-> call.start]
    BY <1>11, <2>1 DEF Store!Folder
  <2>4. PICK r \in Row : LiveIn(disk, d, r) /\ disk[d].tab[r].cluster = call.start
    BY <2>2, <2>3, NamedByRow
  <2>5. call.start \in ChainSet(diskFat, disk[d].tab[r].cluster)
    BY <1>2, <2>4, ChainStart
  <2> QED BY <1>2, <1>3, <2>2, <2>4, <2>5 DEF Held
<1>15. pendingFile' = pendingFile
  BY <1>1 DEF pendingFile
<1>16. Store!AddFolder(call.parent, call.name, call.start)
  <2>1. visibleItems[call.parent][call.name] = Store!Nothing
    BY <1>4, <1>9, <1>11 DEF Store!Nothing
  <2>2. visibleItems' = [visibleItems EXCEPT ![call.parent][call.name] = Store!Folder(call.start)]
    BY <1>4, <1>9, <1>11, <1>12
  <2>3. visibleDirs' = visibleDirs
    BY <1>9, <1>11
  <2> QED BY <1>13, <1>14, <1>15, <2>1, <2>2, <2>3 DEF Store!AddFolder
<1>17. StoreInv'
  BY <1>1, <1>3, <1>10 DEF StoreInv, CallWrites
<1> QED BY <1>2, <1>3, <1>16, <1>17 DEF StoreStep, Store!Next

\* The new folder has its table, or the first sector of it.
LEMMA StoreOpened ==
    ASSUME Ready, pc = "mkdirTable", NEW t \in Table,
           Mixed(disk[call.start].tab, init_directory_table(call.name, call.start, call.parent), t),
           disk' = [disk EXCEPT ![call.start] = TableBlock(t)],
           diskFat' = diskFat, pc' \in {"idle", "off"}
    PROVE  StoreInv' /\ StoreStep
<1> DEFINE c == call.start
           new == init_directory_table(call.name, call.start, call.parent)
<1>1. /\ c \in DataCluster /\ c \in Cluster
      /\ call.name \in AllNames /\ call.parent \in Cluster
      /\ call.parent \in DataCluster /\ call.row \in Row /\ call.row >= 2
      /\ ValidDir(disk[call.parent].tab)
      /\ ~ ValidDir(disk[c].tab) /\ diskFat[c] = FAT32_FAT_END_OF_FILE
      /\ disk \in [DataCluster -> Block]
  BY Constants DEF Ready, Sound, IInv, CallSound, TypeOK, Call, FileCluster
<1>2. TargetEmpty(disk[c].tab)
  BY <1>1 DEF Ready, Sound, IInv, NoStrayRows
<1>3. /\ DiskSound(disk, diskFat) /\ UseIsNamed(disk) /\ FilesHold(disk, diskFat)
      /\ disk[call.parent].tab[call.row] = DirEntry(call.name, call.start)
      /\ call.name \in Names
  BY DEF Ready, Sound, NamedInv, CallOwns, DiskSound, StoreInv, CallWrites
<1>4. /\ new[0] = DirEntry(call.name, c) /\ new[1] = DirEntry(DotDot, call.parent)
      /\ \A r \in Row : r >= 2 => new[r] = ZeroEntry
  BY <1>1, NewTable
<1>5. Placed(disk, c, t, disk')
  BY <1>1, TableWrite
<1>6. /\ disk'[c].tab = t /\ \A x \in DataCluster : x # c => disk'[x] = disk[x]
  BY <1>5 DEF Placed
<1>7. /\ t[0] = new[0] /\ t[1] = new[1]
      /\ \A r \in Row : t[r] = new[r] \/ t[r] = disk[c].tab[r]
  BY DEF Mixed
<1> HIDE DEF new, c
<1>8. ValidDir(t) /\ t[0].cluster = c /\ t[0].name = call.name /\ t[1].cluster = call.parent
  BY <1>4, <1>7 DEF ValidDir, DirEntry
<1>9. TargetEmpty(t)
  BY <1>2, <1>4, <1>7 DEF TargetEmpty, ZeroEntry
<1>10. \A r \in Row : r >= 2 => (t[r].used <=> t[r].name # ZeroName)
  BY <1>1, <1>3, <1>4, <1>7 DEF UseIsNamed, ZeroEntry
<1>11. LiveIn(disk, call.parent, call.row) /\ disk[call.parent].tab[call.row].cluster = c
       /\ disk[call.parent].tab[call.row].sub /\ disk[call.parent].tab[call.row].name = call.name
  BY <1>1, <1>3 DEF LiveIn, DirEntry, c
<1>12. ASSUME NEW d \in DataCluster, NEW r \in Row, LiveIn(disk, d, r),
              c \in ChainSet(diskFat, disk[d].tab[r].cluster)
       PROVE  d = call.parent /\ r = call.row
  <2>1. c \in ChainSet(diskFat, disk[call.parent].tab[call.row].cluster)
    BY <1>1, <1>11, ChainStart
  <2>2. ~ (ChainSet(diskFat, disk[d].tab[r].cluster)
             \cap ChainSet(diskFat, disk[call.parent].tab[call.row].cluster) = {})
    BY <1>12, <2>1
  <2> QED BY <1>1, <1>3, <1>11, <1>12, <2>2 DEF DiskSound, ChainsApart
<1>13. \A d \in DataCluster, r \in Row :
         LiveIn(disk, d, r) /\ c \in ChainSet(diskFat, disk[d].tab[r].cluster) =>
            /\ disk[d].tab[r].sub
            /\ disk'[c].tab[0].cluster = c
            /\ disk'[c].tab[0].name = disk[d].tab[r].name
            /\ disk'[c].tab[1].cluster = d
  BY <1>6, <1>8, <1>11, <1>12
<1>14. /\ ValidDir(disk'[c].tab) /\ TargetEmpty(disk'[c].tab)
       /\ \A r \in Row : r >= 2 => (disk'[c].tab[r].used <=> disk'[c].tab[r].name # ZeroName)
  BY <1>6, <1>8, <1>9, <1>10
<1>15. Opens(disk, disk', diskFat, c)
  BY <1>1, <1>6, <1>13, <1>14 DEF Opens
<1>16. /\ FilesHold(disk', diskFat') /\ ItemsOf(disk') = ItemsOf(disk)
       /\ DirsOf(disk') = DirsOf(disk) \cup {c}
  BY <1>3, <1>15, DirAppears
<1>17. /\ visibleItems = ItemsOf(disk) /\ visibleItems' = visibleItems
       /\ visibleDirs = DirsOf(disk) /\ visibleDirs' = visibleDirs \cup {c}
  BY <1>3, <1>16, Seen
<1>18. c \notin visibleDirs /\ call.parent \in visibleDirs
  BY <1>1, <1>17 DEF DirsOf
<1>19. Store!Named(c)
  <2>1. \A y \in Row : LiveIn(disk, call.parent, y)
                       /\ disk[call.parent].tab[y].name = call.name => y = call.row
    BY <1>1, <1>11 DEF Ready, Sound, IInv, NamesUnique, LiveIn, Live, EntryOf
  <2>2. ItemIn(disk, call.parent, call.name) = ItemOf(disk, disk[call.parent].tab[call.row])
    BY <1>1, <1>11, <2>1, ItemOnly
  <2>3. ItemIn(disk, call.parent, call.name) = Store!Folder(c)
    BY <1>11, <2>2 DEF ItemOf, Store!Folder
  <2>4. visibleItems[call.parent][call.name] = Store!Folder(c)
    BY <1>1, <1>3, <1>17, <2>3 DEF ItemsOf
  <2> QED BY <1>3, <1>18, <2>4 DEF Store!Named
<1>20. pendingFile' = pendingFile
  BY DEF pendingFile
<1>21. Store!OpenFolder(c)
  BY <1>17, <1>18, <1>19, <1>20 DEF Store!OpenFolder
<1>22. StoreInv'
  BY <1>16 DEF StoreInv, CallWrites
<1> QED BY <1>1, <1>21, <1>22 DEF StoreStep, Store!Next

LEMMA StoreMkdirTable ==
    ASSUME Ready, MkdirTable \/ MkdirTableTorn
    PROVE  StoreInv' /\ StoreStep
<1> DEFINE old == disk[call.start].tab
           new == init_directory_table(call.name, call.start, call.parent)
<1>1. /\ pc = "mkdirTable" /\ call.start \in DataCluster /\ call.start \in Cluster
      /\ call.name \in AllNames /\ call.parent \in Cluster /\ old \in Table
  BY Constants DEF Ready, Sound, IInv, CallSound, TypeOK, Call, Block, FileCluster,
     MkdirTable, MkdirTableTorn
<1>2. new \in Table
  BY <1>1, NewTable
<1>3. CASE MkdirTable
  <2>1. Mixed(old, new, new)
    BY <1>2 DEF Mixed
  <2>2. disk' = [disk EXCEPT ![call.start] = TableBlock(new)] /\ diskFat' = diskFat /\ pc' = "idle"
    BY <1>3 DEF MkdirTable, Return
  <2> HIDE DEF new
  <2> QED BY <1>1, <1>2, <2>1, <2>2, StoreOpened DEF new
<1>4. ASSUME NEW k \in Row, k > 0, PowerOff, diskFat' = diskFat,
             disk' = [disk EXCEPT ![call.start] = TableBlock(Torn(old, new, k, SectorRows))]
      PROVE  StoreInv' /\ StoreStep
  <2>1. Mixed(old, new, Torn(old, new, k, SectorRows))
    BY <1>1, <1>2, <1>4, TornTable
  <2>2. Torn(old, new, k, SectorRows) \in Table /\ pc' = "off"
    BY <1>4, <2>1 DEF Mixed, PowerOff
  <2> QED BY <1>1, <1>4, <2>1, <2>2, StoreOpened
<1>5. ASSUME pc' = "garbled", UNCHANGED durable
      PROVE  StoreInv' /\ StoreStep
  <2>1. Quiet
    BY <1>5, AgreeSelf, DiskAlone DEF durable
  <2> QED BY <1>5, <2>1, QuietEnds
<1>6. CASE MkdirTableTorn
  BY <1>4, <1>5, <1>6 DEF MkdirTableTorn
<1> QED BY <1>3, <1>6

-----------------------------------------------------------------------------
(* The write of a file *)

\* What write puts into cluster k of a file covers what the file needs of it.
LEMMA PartFits ==
    ASSUME NEW s \in Nat, s > 0, SizeKept(s), NEW k \in 0 .. Needed(s) - 1
    PROVE  /\ k = 0 => ClusterSize >= PartNeeded(s, k)
           /\ k > 0 => PartSize(s, Needed(s) - k) >= PartNeeded(s, k)
<1> DEFINE q == s \div ClusterSize
           m == s % ClusterSize
<1>1. /\ q \in Nat /\ m \in 0 .. ClusterSize - 1 /\ ClusterSize \in Nat /\ ClusterSize > 0
      /\ s = ClusterSize * q + m
  BY SizeAssumption
<1>2. Needed(s) = q + (IF m = 0 THEN 0 ELSE 1)
  BY DEF Needed
<1>3. s <= ClusterSize \/ m # 0
  BY DEF SizeKept
<1>4. /\ PartNeeded(s, k) = IF k + 1 < Needed(s) THEN ClusterSize ELSE s - k * ClusterSize
      /\ PartSize(s, Needed(s) - k) = IF Needed(s) - k = 1 THEN m ELSE ClusterSize
  BY DEF PartNeeded, PartSize
<1> HIDE DEF q, m
<1>5. Needed(s) \in Nat /\ k \in Nat /\ k < Needed(s)
  BY <1>1, <1>2
<1>6. CASE k + 1 < Needed(s)
  BY <1>1, <1>4, <1>5, <1>6
<1>7. CASE k + 1 = Needed(s) /\ k = 0
  <2>1. PartNeeded(s, k) = s
    BY <1>1, <1>4, <1>7
  <2>2. q = 0 \/ (q = 1 /\ m = 0)
    BY <1>1, <1>2, <1>7
  <2>3. q = 0 => s = m
    BY <1>1
  <2>4. q = 1 => s = ClusterSize + m
    BY <1>1
  <2> QED BY <1>1, <1>7, <2>1, <2>2, <2>3, <2>4
<1>8. CASE k + 1 = Needed(s) /\ k > 0
  <2>1. q >= 1
    BY <1>1, <1>2, <1>5, <1>8
  <2>2. q >= 2 => ClusterSize * q >= 2 * ClusterSize
    BY <1>1
  <2>3. m # 0
    <3>1. SUFFICES ASSUME m = 0 PROVE FALSE
      OBVIOUS
    <3>2. q >= 2
      BY <1>1, <1>2, <1>5, <1>8, <3>1
    <3>3. s > ClusterSize
      BY <1>1, <2>2, <3>2
    <3> QED BY <1>1, <1>3, <3>1, <3>3
  <2>4. k = q
    BY <1>1, <1>2, <1>5, <1>8, <2>3
  <2>5. PartNeeded(s, k) = s - q * ClusterSize
    BY <1>4, <1>5, <1>8, <2>4
  <2>6. q * ClusterSize = ClusterSize * q /\ ClusterSize * q \in Nat
    BY <1>1
  <2>7. s - q * ClusterSize = m
    <3>1. PICK x \in Nat : x = ClusterSize * q /\ x = q * ClusterSize
      BY <2>6
    <3> QED BY <1>1, <3>1
  <2>8. PartSize(s, Needed(s) - k) = m
    BY <1>4, <1>5, <1>8
  <2> QED BY <1>1, <1>8, <2>5, <2>7, <2>8
<1> QED BY <1>5, <1>6, <1>7, <1>8

LEMMA StoreWriteFirst ==
    ASSUME Ready, NEW d \in DataCluster, NEW n \in Names, NEW s \in Sizes \ {0}, SizeKept(s),
           NEW p \in Payloads, WriteFirst(d, n, s, p)
    PROVE  StoreInv' /\ StoreStep
<1>1. PICK r \in Row, c \in DataCluster :
         /\ IsFirst(FreeRow(disk[d].tab), r)
         /\ IsFirst(FreeCluster(cluster_map), c)
         /\ call' = [NoCall EXCEPT !.parent = d, !.name = n, !.size = s,
                                   !.payload = p, !.row = r, !.start = c,
                                   !.cur = c, !.need = Needed(s) - 1]
         /\ cluster_map' = [cluster_map EXCEPT ![c] = FAT32_FAT_END_OF_FILE]
         /\ disk' = [disk EXCEPT ![c] = DataBlock(p, 0, ClusterSize)]
  BY DEF WriteFirst
<1>2. /\ pc = "idle" /\ WriteCode(disk[d].tab, n) = 0 /\ pc' = "fill"
      /\ diskFat' = diskFat /\ Loaded
  BY DEF WriteFirst, Loaded
<1>3. /\ cluster_map = diskFat /\ cluster_map[c] = FAT32_FAT_EMPTY_ENTRY
      /\ ValidDir(disk[d].tab) /\ MatchFrom(disk[d].tab, n, 2) = {}
  BY <1>1, <1>2, WriteBegins DEF Ready, Sound
<1>4. /\ call'.name = n /\ call'.parent = d /\ call'.start = c /\ call'.cur = c
      /\ call'.size = s /\ call'.payload = p /\ call'.need = Needed(s) - 1
  BY <1>1 DEF NoCall
<1>5. c \notin Held(disk, diskFat)
  BY <1>2, <1>3, FreeNotHeld DEF Ready, Sound
<1>6. disk \in [DataCluster -> Block] /\ diskFat \in [Cluster -> 0 .. NCluster + 1]
  BY DEF Ready, Sound, IInv, TypeOK
<1>7. Placed(disk, c, ZeroTable, disk')
  <2>1. DataBlock(p, 0, ClusterSize) \in Block /\ DataBlock(p, 0, ClusterSize).tab = ZeroTable
    BY DataBlockType, SizeAssumption
  <2> QED BY <1>1, <1>6, <2>1, DataWrite
<1>8. Quiet
  BY <1>2, <1>5, <1>7, BlockAlone
<1>9. FilesHold(disk', diskFat') /\ visibleDirs' = visibleDirs /\ visibleItems' = visibleItems
  BY <1>8, QuietSame
<1>10. FilesHold(disk, diskFat)
  BY DEF Ready, StoreInv
<1>11. visibleItems[d][n] = Store!Nothing /\ d \in visibleDirs
  <2>1. \A y \in Row : LiveIn(disk, d, y) => disk[d].tab[y].name # n
    BY <1>3 DEF MatchFrom, LiveIn
  <2>2. ItemIn(disk, d, n) = [kind |-> "nothing"]
    BY <2>1, ItemNothing
  <2>3. visibleItems = ItemsOf(disk) /\ visibleDirs = DirsOf(disk)
    BY <1>9, <1>10, Seen
  <2> QED BY <1>3, <2>2, <2>3 DEF ItemsOf, DirsOf, Store!Nothing
<1> DEFINE ct == [payload |-> p, size |-> s]
<1>12. pendingFile = Store!None /\ pendingFile' = Store!Writing(d, n, ct)
  BY <1>2, <1>4, PendingIs
<1>13. ct \in [payload : Payloads, size : Sizes \ {0}]
  OBVIOUS
<1> HIDE DEF ct
<1>14. Store!BeginFile(d, n, ct)
  BY <1>9, <1>11, <1>12 DEF Store!BeginFile
<1>15. cluster_map'[c] = FAT32_FAT_END_OF_FILE /\ Chain(cluster_map', c)[0] = c
  BY <1>1, <1>3, <1>6, Constants, ChainRounds
<1>16. Building(cluster_map, 0, {})'
  <2>1. 0 <= c - 2 /\ \A k \in 0 .. 0 : k = 0
    BY DEF DataCluster
  <2> QED BY <1>4, <1>15, <2>1 DEF Building
<1>17. s \in Nat /\ s > 0 /\ Needed(s) \in Nat /\ Needed(s) > 0
  BY SizeAssumption, NeededType
<1>18. Parts(disk', cluster_map', c, p, s, 1)
  <2>1. disk'[c].data = [p |-> p, k |-> 0, n |-> ClusterSize]
    BY <1>1, <1>6 DEF DataBlock
  <2>2. ClusterSize >= PartNeeded(s, 0)
    BY <1>17, PartFits
  <2>3. \A k \in 0 .. 1 - 1 : k = 0
    OBVIOUS
  <2> QED BY <1>15, <2>1, <2>2, <2>3 DEF Parts
<1>19. CallWrites'
  <2>1. 0 \in 0 .. NCluster /\ 0 + 1 = Needed(s) - (Needed(s) - 1) /\ 0 + 1 = 1
    BY <1>17, SizeAssumption
  <2>2. \E m \in 0 .. NCluster :
             /\ m + 1 = Needed(call'.size) - call'.need
             /\ Building(cluster_map, m, {})'
             /\ Parts(disk', cluster_map', call'.start, call'.payload, call'.size, m + 1)
    BY <1>4, <1>16, <1>18, <2>1
  <2> QED BY <1>2, <1>4, <2>2 DEF CallWrites
<1> QED BY <1>9, <1>13, <1>14, <1>19 DEF StoreStep, Store!Next, StoreInv

\* The part of the chain that is there stays when it goes on by cluster c.
LEMMA ChainKept ==
    ASSUME NEW f, NEW g, NEW c \in DataCluster, NEW m \in 0 .. NCluster, NEW H,
           call.cur \in DataCluster, c > call.cur, Building(f, m, H),
           \A x \in DataCluster : x \notin {c, call.cur} => g[x] = f[x]
    PROVE  \A k \in 0 .. m : /\ Chain(g, call.start)[k] = Chain(f, call.start)[k]
                             /\ Chain(f, call.start)[k] # c
<1> DEFINE v == Chain(f, call.start)
           w == Chain(g, call.start)
<1>1. /\ v[m] = call.cur
      /\ \A k \in 0 .. m : v[k] \in DataCluster /\ (k < m => v[k] < call.cur)
  BY DEF Building
<1>2. call.cur \in Nat /\ c \in Nat /\ m \in Nat
  BY SizeAssumption DEF DataCluster
<1>3. \A k \in 0 .. m : v[k] \in Nat /\ v[k] # c /\ (k < m => v[k] # call.cur)
  <2>1. SUFFICES ASSUME NEW k \in 0 .. m
                 PROVE  v[k] \in Nat /\ v[k] # c /\ (k < m => v[k] # call.cur)
    OBVIOUS
  <2>2. v[k] \in Nat
    BY <1>1, Constants
  <2>3. CASE k < m
    BY <1>1, <1>2, <2>2, <2>3
  <2>4. CASE k = m
    BY <1>1, <1>2, <2>2, <2>4
  <2> QED BY <1>2, <2>3, <2>4
<1>4. \A k \in 0 .. m - 1 : v[k] \in DataCluster => g[v[k]] = f[v[k]]
  <2>1. \A k \in 0 .. m - 1 : k \in 0 .. m /\ k < m
    BY <1>2
  <2> QED BY <1>1, <1>3, <2>1
<1>5. \A k \in 0 .. m : w[k] = v[k]
  BY <1>4, ChainPrefix
<1> QED BY <1>3, <1>5

LEMMA StoreWriteNext ==
    ASSUME Ready, \A s \in Sizes : SizeKept(s), WriteNext
    PROVE  StoreInv' /\ StoreStep
<1>1. PICK c \in DataCluster :
         /\ IsFirst(FreeAfter(cluster_map, call.cur), c)
         /\ cluster_map' = [cluster_map EXCEPT ![call.cur] = c,
                                               ![c] = FAT32_FAT_END_OF_FILE]
         /\ disk' = [disk EXCEPT ![c] =
                        DataBlock(call.payload, Needed(call.size) - call.need,
                                  PartSize(call.size, call.need))]
         /\ call' = [call EXCEPT !.cur = c, !.need = @ - 1]
  BY DEF WriteNext
<1>2. pc = "fill" /\ pc' = "fill" /\ diskFat' = diskFat /\ Loaded /\ call.need > 0
  BY DEF WriteNext, Loaded
<1>3. /\ cluster_map[c] = FAT32_FAT_EMPTY_ENTRY /\ c > call.cur
      /\ c \in FileCluster /\ c # call.cur
  BY <1>1, <1>2, NextIsFree DEF Ready, Sound
<1>4. /\ cluster_map'[call.cur] = c /\ cluster_map'[c] = FAT32_FAT_END_OF_FILE
      /\ \A x \in Cluster : x \notin {c, call.cur} => cluster_map'[x] = cluster_map[x]
  BY <1>1, <1>2, <1>3, WriteNextMap DEF Ready, Sound
<1>5. /\ call'.cur = c /\ call'.start = call.start /\ call'.name = call.name
      /\ call'.parent = call.parent /\ call'.need = call.need - 1
      /\ call'.size = call.size /\ call'.payload = call.payload
      /\ call.cur \in DataCluster /\ call.need \in Nat
      /\ disk \in [DataCluster -> Block]
  BY <1>1, <1>2 DEF Ready, Sound, IInv, TypeOK, Call, CallSound, FileCluster
<1>6. c \notin Held(disk, diskFat)
  BY <1>2, <1>3, FreeNotHeld DEF Ready, Sound
<1>7. Placed(disk, c, ZeroTable, disk')
  BY WriteNextPlaces, <1>1, <1>2 DEF Ready, Sound
<1>8. Quiet
  BY <1>2, <1>6, <1>7, BlockAlone
<1>9. FilesHold(disk', diskFat') /\ visibleDirs' = visibleDirs /\ visibleItems' = visibleItems
  BY <1>8, QuietSame
<1>10. pendingFile' = pendingFile
  BY <1>2, <1>5 DEF pendingFile
<1>11. /\ call.name \in Names /\ call.payload \in Payloads /\ call.size \in Sizes \ {0}
  BY <1>2 DEF Ready, StoreInv, CallWrites
<1>12. PICK m \in 0 .. NCluster :
         /\ m + 1 = Needed(call.size) - call.need
         /\ Building(cluster_map, m, {})
         /\ Parts(disk, cluster_map, call.start, call.payload, call.size, m + 1)
  BY <1>2 DEF Ready, StoreInv, CallWrites
<1> DEFINE w == Chain(cluster_map', call.start)
           v == Chain(cluster_map, call.start)
<1>13. \A x \in DataCluster : x \notin {c, call.cur} => cluster_map'[x] = cluster_map[x]
  BY <1>4, Constants
<1>14. /\ m + 1 \in 0 .. NCluster
       /\ w[m + 1] = c /\ m + 1 <= c - 2
       /\ \A k \in 0 .. m + 1 : w[k] \in DataCluster \ {} /\ (k < m + 1 => w[k] < c)
  BY <1>3, <1>4, <1>5, <1>12, <1>13, ChainGrows
<1>15. \A k \in 0 .. m : w[k] = v[k] /\ v[k] # c
  BY <1>3, <1>5, <1>12, <1>13, ChainKept
<1> HIDE DEF w, v
<1>16. Building(cluster_map, m + 1, {})'
  BY <1>4, <1>5, <1>14 DEF Building, w
<1>17. /\ call.size \in Nat /\ call.size > 0 /\ Needed(call.size) \in Nat /\ m \in Nat
       /\ SizeKept(call.size)
  <2>1. call.size \in Nat /\ call.size > 0 /\ m \in Nat
    <3>1. \A s \in Sizes \ {0} : s \in Nat /\ s > 0
      BY SizeAssumption
    <3>2. m \in Nat
      BY SizeAssumption
    <3> QED BY <1>11, <3>1, <3>2
  <2>2. Needed(call.size) \in Nat
    BY <2>1, NeededType
  <2>3. SizeKept(call.size)
    BY <1>11
  <2> QED BY <2>1, <2>2, <2>3
<1>18. Parts(disk', cluster_map', call.start, call.payload, call.size, m + 2)
  <2>1. SUFFICES ASSUME NEW k \in 0 .. m + 2 - 1
                 PROVE  /\ w[k] \in DataCluster
                        /\ disk'[w[k]].data.p = call.payload
                        /\ disk'[w[k]].data.k = k
                        /\ disk'[w[k]].data.n >= PartNeeded(call.size, k)
    BY DEF Parts, w
  <2>2. CASE k = m + 1
    <3>1. disk'[c].data = [p |-> call.payload, k |-> Needed(call.size) - call.need,
                           n |-> PartSize(call.size, call.need)]
      BY <1>1, <1>5 DEF DataBlock
    <3>2. /\ k \in 0 .. Needed(call.size) - 1 /\ k > 0
          /\ Needed(call.size) - k = call.need
          /\ Needed(call.size) - call.need = k
      BY <1>2, <1>5, <1>12, <1>17, <2>2
    <3>3. PartSize(call.size, call.need) >= PartNeeded(call.size, k)
      BY <1>17, <3>2, PartFits
    <3> QED BY <1>14, <2>2, <3>1, <3>2, <3>3
  <2>3. CASE k # m + 1
    <3>1. k \in 0 .. m /\ k \in 0 .. (m + 1) - 1
      BY <1>17, <2>3
    <3>2. v[k] \in DataCluster /\ disk'[v[k]] = disk[v[k]] /\ w[k] = v[k]
      BY <1>7, <1>12, <1>15, <3>1 DEF Placed, Parts, v
    <3>3. /\ disk[v[k]].data.p = call.payload
          /\ disk[v[k]].data.k = k
          /\ disk[v[k]].data.n >= PartNeeded(call.size, k)
      BY <1>12, <3>1 DEF Parts, v
    <3> QED BY <3>2, <3>3
  <2> QED BY <2>2, <2>3
<1>19. CallWrites'
  <2>1. /\ (m + 1) + 1 = Needed(call.size) - (call.need - 1) /\ (m + 1) + 1 = m + 2
    BY <1>2, <1>5, <1>12, <1>17
  <2>2. \E k \in 0 .. NCluster :
             /\ k + 1 = Needed(call'.size) - call'.need
             /\ Building(cluster_map, k, {})'
             /\ Parts(disk', cluster_map', call'.start, call'.payload, call'.size, k + 1)
    BY <1>5, <1>14, <1>16, <1>18, <2>1
  <2> QED BY <1>2, <1>5, <1>11, <2>2 DEF CallWrites
<1> QED BY <1>9, <1>10, <1>19, StoreStays DEF StoreInv

LEMMA StoreWriteFat == ASSUME Ready, WriteFat PROVE StoreInv' /\ StoreStep
<1>1. /\ pc = "fill" /\ pc' = "writeRow" /\ diskFat' = cluster_map /\ Loaded
      /\ call.need = 0 /\ UNCHANGED <<disk, cluster_map, call>>
  BY DEF WriteFat, Loaded
<1>2. Quiet
  BY <1>1, CacheAgrees, DiskAlone
<1>3. FilesHold(disk', diskFat') /\ visibleDirs' = visibleDirs /\ visibleItems' = visibleItems
  BY <1>2, QuietSame
<1>4. pendingFile' = pendingFile
  BY <1>1 DEF pendingFile
<1>5. PICK m \in 0 .. NCluster :
         /\ m + 1 = Needed(call.size) - call.need
         /\ Building(cluster_map, m, {})
         /\ Parts(disk, cluster_map, call.start, call.payload, call.size, m + 1)
  BY <1>1 DEF Ready, StoreInv, CallWrites
<1>6. /\ call.name \in Names /\ call.payload \in Payloads /\ call.size \in Sizes \ {0}
      /\ call.cur \in DataCluster /\ call.start \in DataCluster
  BY <1>1 DEF Ready, StoreInv, CallWrites, Sound, IInv, CallSound, FileCluster
<1>7. /\ Chain(cluster_map, call.start)[m] = call.cur /\ m <= call.cur - 2
      /\ cluster_map[call.cur] = FAT32_FAT_END_OF_FILE
  BY <1>5 DEF Building
<1>8. m \in 0 .. NCluster - 1 /\ m + 1 \in 1 .. NCluster /\ Needed(call.size) = m + 1
  <2>1. m \in 0 .. NCluster - 1 /\ m + 1 \in 1 .. NCluster
    BY <1>6, <1>7, SizeAssumption DEF DataCluster
  <2>2. Needed(call.size) \in Nat
    BY <1>6, SizeAssumption, NeededType
  <2> QED BY <1>1, <1>5, <2>1, <2>2
<1>9. Chain(cluster_map, call.start)[m + 1] = FAT32_FAT_END_OF_FILE
  BY <1>6, <1>7, <1>8, ChainRounds DEF Follow
<1>10. Holds(disk, cluster_map, call.start, call.payload, call.size)
  BY <1>5, <1>6, <1>8, <1>9 DEF Holds
<1>11. CallWrites'
  BY <1>1, <1>6, <1>10 DEF CallWrites
<1> QED BY <1>3, <1>4, <1>11, StoreStays DEF StoreInv

LEMMA StoreWriteRow == ASSUME Ready, WriteRow PROVE StoreInv' /\ StoreStep
<1> DEFINE e == FileEntry(call.name, call.start, call.size)
           t == [dir_table_buf EXCEPT ![call.row] = e]
           ct == [payload |-> call.payload, size |-> call.size]
<1>1. /\ pc = "writeRow" /\ pc' = "idle" /\ diskFat' = diskFat
      /\ disk' = [disk EXCEPT ![call.parent] = TableBlock(t)]
  BY DEF WriteRow, Return
<1>2. /\ call.parent \in DataCluster /\ ValidDir(disk[call.parent].tab)
      /\ call.row \in Row /\ call.row >= 2 /\ call.start \in FileCluster
      /\ dir_table_buf = disk[call.parent].tab
      /\ MatchFrom(dir_table_buf, call.name, 2) = {}
      /\ disk \in [DataCluster -> Block] /\ dir_table_buf \in Table /\ call \in Call
  BY <1>1 DEF Ready, Sound, IInv, CallSound, TypeOK, Call
<1>3. /\ ~ disk[call.parent].tab[call.row].used
      /\ ChainSet(diskFat, call.start) \cap Held(disk, diskFat) = {}
      /\ DiskSound(disk, diskFat) /\ FilesHold(disk, diskFat) /\ call.name \in Names
      /\ Holds(disk, diskFat, call.start, call.payload, call.size)
  BY <1>1 DEF Ready, Sound, NamedInv, CallOwns, StoreInv, CallWrites
<1>4. /\ e.used /\ ~ e.sub /\ e.name = call.name /\ e.cluster = call.start
      /\ e.size = call.size /\ e \in Entry
  BY <1>2 DEF FileEntry, Entry, Call
<1> HIDE DEF e
<1>5. t \in Table /\ t[call.row] = e /\ \A y \in Row : y # call.row => t[y] = dir_table_buf[y]
  BY <1>2, <1>4 DEF Table
<1> HIDE DEF t
<1>6. Placed(disk, call.parent, t, disk')
  BY <1>1, <1>2, <1>5, TableWrite
<1>7. RowSet(disk, disk', call.parent, call.row, e)
  BY <1>2, <1>5, <1>6 DEF Placed, RowSet
<1>8. \A y \in Row : LiveIn(disk, call.parent, y) => disk[call.parent].tab[y].name # e.name
  BY <1>2, <1>4 DEF MatchFrom, LiveIn
<1>9. call.parent \notin ChainSet(diskFat, call.start)
  BY <1>2, <1>3 DEF Held
<1>10. disk[call.start].data.p = call.payload
  <2>1. \A x \in ChainSet(diskFat, call.start) :
           diskFat[x] = diskFat[x] /\ disk[x].data = disk[x].data
    OBVIOUS
  <2> QED BY <1>3, <2>1, HoldFrame
<1>11. Holds(disk, diskFat, e.cluster, disk[e.cluster].data.p, e.size)
  BY <1>3, <1>4, <1>10
<1>12. Added(disk, disk', diskFat, call.parent, e.name, ItemOf(disk, e))
  <2>1. Adds(disk, disk', diskFat, call.parent, call.row, e)
    BY <1>3, <1>4, <1>7, <1>8, <1>9, <1>11 DEF Adds
  <2> QED BY <1>3, <2>1, NameAdded
<1>13. ItemOf(disk, e) = Store!File(ct)
  BY <1>4, <1>10 DEF ItemOf, Store!File
<1>14. /\ visibleItems = ItemsOf(disk) /\ visibleItems' = ItemsOf(disk')
       /\ visibleDirs = DirsOf(disk) /\ visibleDirs' = DirsOf(disk')
       /\ FilesHold(disk', diskFat')
  BY <1>1, <1>3, <1>12, Seen DEF Added
<1>15. /\ visibleDirs' = visibleDirs
       /\ visibleItems' = [visibleItems EXCEPT ![call.parent][call.name] = Store!File(ct)]
  BY <1>4, <1>12, <1>13, <1>14 DEF Added, ItemSet
<1>16. /\ pendingFile = Store!Writing(call.parent, call.name, ct)
       /\ pendingFile' = Store!None /\ pendingFile # Store!None
  BY <1>1, PendingIs, WritingIsSome
<1>17. /\ pendingFile.dir = call.parent /\ pendingFile.name = call.name
       /\ pendingFile.content = ct
  BY <1>16 DEF Store!Writing
<1> HIDE DEF ct
<1>18. Store!CommitFile
  BY <1>15, <1>16, <1>17 DEF Store!CommitFile
<1>19. StoreInv'
  BY <1>1, <1>14 DEF StoreInv, CallWrites
<1> QED BY <1>18, <1>19 DEF StoreStep, Store!Next

-----------------------------------------------------------------------------
(* The removal of a file or folder *)

\* The row that delete found is the only one of its name.
LEMMA FoundOnly ==
    ASSUME Ready, ZeroName \notin Names, pc = "idle", NEW d \in DataCluster, NEW n \in Names,
           DeleteCode(disk[d].tab, n) = 0, NEW r \in DeleteRow(disk[d].tab, n)
    PROVE  /\ r \in Row /\ r >= 2 /\ ValidDir(disk[d].tab)
           /\ disk[d].tab[r].used /\ disk[d].tab[r].name = n /\ LiveIn(disk, d, r)
           /\ \A y \in Row : LiveIn(disk, d, y) /\ disk[d].tab[y].name = n => y = r
<1>1. /\ r \in Row /\ r >= 2 /\ ValidDir(disk[d].tab) /\ disk[d].tab[r].name = n
  BY DeleteBegins DEF Ready, Sound
<1>2. disk[d].tab[r].used
  BY FoundInUse DEF Ready
<1>3. LiveIn(disk, d, r)
  BY <1>1, <1>2 DEF LiveIn
<1>4. \A y \in Row : LiveIn(disk, d, y) /\ disk[d].tab[y].name = n => y = r
  BY <1>1, <1>3 DEF Ready, Sound, IInv, NamesUnique, LiveIn, Live, EntryOf
<1> QED BY <1>1, <1>2, <1>3, <1>4

LEMMA StoreRmdirParent ==
    ASSUME Ready, ZeroName \notin Names,
           NEW d \in DataCluster, NEW n \in Names, RmdirParent(d, n)
    PROVE  StoreInv' /\ StoreStep
<1>1. PICK r \in DeleteRow(disk[d].tab, n) :
         /\ disk[d].tab[r].sub
         /\ call' = [NoCall EXCEPT !.parent = d, !.row = r, !.start = disk[d].tab[r].cluster]
         /\ dir_table_buf' = [disk[d].tab EXCEPT ![r] = ErasedDir(disk[d].tab[r])]
  BY DEF RmdirParent
<1>2. /\ pc = "idle" /\ DeleteCode(disk[d].tab, n) = 0 /\ pc' = "rmdirTable"
      /\ disk' = [disk EXCEPT ![d] = TableBlock(dir_table_buf')]
      /\ UNCHANGED <<signed, diskFat, cluster_map>>
  BY DEF RmdirParent
<1>3. /\ r \in Row /\ r >= 2 /\ ValidDir(disk[d].tab)
      /\ disk[d].tab[r].used /\ disk[d].tab[r].name = n /\ LiveIn(disk, d, r)
      /\ \A y \in Row : LiveIn(disk, d, y) /\ disk[d].tab[y].name = n => y = r
  BY <1>1, <1>2, FoundOnly
<1>4. disk[d].tab[r] \in Entry /\ disk[d].tab[r].cluster \in FileCluster
  BY <1>1, <1>2, DeleteBegins DEF Ready, Sound
<1> DEFINE h == disk[d].tab[r].cluster
<1>5. TargetEmpty(disk[h].tab)
  BY <1>1, <1>2, <1>3, <1>4 DEF DeleteCode, NotEmpty
<1>6. /\ disk \in [DataCluster -> Block] /\ disk[d].tab \in Table /\ dir_table_buf' \in Table
      /\ DiskSound(disk, diskFat) /\ FilesHold(disk, diskFat)
  BY DEF Ready, Sound, IInv, TypeOK, Block, NamedInv, StoreInv
<1> DEFINE e == ErasedDir(disk[d].tab[r])
<1>7. ~ e.used
  BY <1>4, ErasedType
<1> HIDE DEF e
<1>8. Placed(disk, d, dir_table_buf', disk')
  BY <1>2, <1>6, TableWrite
<1>9. RowSet(disk, disk', d, r, e)
  <2>1. dir_table_buf'[r] = e /\ \A y \in Row : y # r => dir_table_buf'[y] = disk[d].tab[y]
    BY <1>1, <1>3, <1>6 DEF Table, e
  <2> QED BY <1>3, <1>8, <2>1 DEF Placed, RowSet
<1>10. Removed(disk, disk', diskFat, d, n, ItemOf(disk, disk[d].tab[r]))
  <2>1. Removes(disk, disk', d, r, e, n)
    BY <1>3, <1>7, <1>9 DEF Removes
  <2> QED BY <1>6, <2>1, NameRemoved
<1>11. ItemOf(disk, disk[d].tab[r]) = Store!Folder(h)
  BY <1>1 DEF ItemOf, Store!Folder
<1> HIDE DEF h
<1>12. /\ visibleItems = ItemsOf(disk) /\ visibleItems' = ItemsOf(disk')
       /\ visibleDirs = DirsOf(disk) /\ visibleDirs' = DirsOf(disk')
       /\ FilesHold(disk', diskFat')
  BY <1>2, <1>6, <1>10, Seen DEF Removed
<1>13. h \in DataCluster
  BY <1>4 DEF h, FileCluster
<1>14. Store!Empty(h)
  BY <1>5, <1>12, <1>13, EmptyItems DEF Store!Empty, Store!Nothing
<1>15. pendingFile' = pendingFile
  BY <1>2 DEF pendingFile
<1>16. Store!RemoveFolder(d, n)
  <2>1. visibleItems[d][n] = Store!Folder(h)
    BY <1>10, <1>11, <1>12 DEF Removed
  <2>2. visibleItems' = [visibleItems EXCEPT ![d][n] = Store!Nothing]
    BY <1>10, <1>12 DEF Removed, ItemSet, Store!Nothing
  <2>3. visibleDirs' = visibleDirs
    BY <1>10, <1>12 DEF Removed
  <2> QED BY <1>13, <1>14, <1>15, <2>1, <2>2, <2>3 DEF Store!RemoveFolder
<1>17. StoreInv'
  BY <1>2, <1>12 DEF StoreInv, CallWrites
<1> QED BY <1>16, <1>17 DEF StoreStep, Store!Next

LEMMA StoreRmRow ==
    ASSUME Ready, ZeroName \notin Names,
           NEW d \in DataCluster, NEW n \in Names, RmRow(d, n)
    PROVE  StoreInv' /\ StoreStep
<1>1. PICK r \in DeleteRow(disk[d].tab, n) :
         /\ ~ disk[d].tab[r].sub
         /\ call' = [NoCall EXCEPT !.parent = d, !.row = r, !.nxt = disk[d].tab[r].cluster]
         /\ dir_table_buf' = [disk[d].tab EXCEPT ![r] = ZeroEntry]
  BY DEF RmRow
<1>2. /\ pc = "idle" /\ DeleteCode(disk[d].tab, n) = 0 /\ pc' = "rmFirst"
      /\ disk' = [disk EXCEPT ![d] = TableBlock(dir_table_buf')]
      /\ UNCHANGED <<signed, diskFat, cluster_map>>
  BY DEF RmRow
<1>3. /\ r \in Row /\ r >= 2 /\ ValidDir(disk[d].tab)
      /\ disk[d].tab[r].used /\ disk[d].tab[r].name = n /\ LiveIn(disk, d, r)
      /\ \A y \in Row : LiveIn(disk, d, y) /\ disk[d].tab[y].name = n => y = r
  BY <1>1, <1>2, FoundOnly
<1>4. /\ disk \in [DataCluster -> Block] /\ disk[d].tab \in Table /\ dir_table_buf' \in Table
      /\ DiskSound(disk, diskFat) /\ FilesHold(disk, diskFat)
  BY DEF Ready, Sound, IInv, TypeOK, Block, NamedInv, StoreInv
<1>5. ~ ZeroEntry.used
  BY DEF ZeroEntry
<1>6. Placed(disk, d, dir_table_buf', disk')
  BY <1>2, <1>4, TableWrite
<1>7. RowSet(disk, disk', d, r, ZeroEntry)
  <2>1. dir_table_buf'[r] = ZeroEntry /\ \A y \in Row : y # r => dir_table_buf'[y] = disk[d].tab[y]
    BY <1>1, <1>3, <1>4 DEF Table
  <2> QED BY <1>3, <1>6, <2>1 DEF Placed, RowSet
<1>8. Removed(disk, disk', diskFat, d, n, ItemOf(disk, disk[d].tab[r]))
  <2>1. Removes(disk, disk', d, r, ZeroEntry, n)
    BY <1>3, <1>5, <1>7 DEF Removes
  <2> QED BY <1>4, <2>1, NameRemoved
<1> DEFINE a == disk[d].tab[r]
           ct == [payload |-> disk[a.cluster].data.p, size |-> a.size]
<1>9. ItemOf(disk, a) = Store!File(ct)
  BY <1>1 DEF ItemOf, Store!File
<1>10. ct \in [payload : Payloads, size : Sizes \ {0}]
  <2>1. Holds(disk, diskFat, a.cluster, disk[a.cluster].data.p, a.size)
    BY <1>1, <1>3, <1>4 DEF FilesHold
  <2>2. disk[a.cluster].data.p \in Payloads /\ a.size \in Sizes \ {0}
    BY <2>1 DEF Holds
  <2> QED BY <2>2
<1> HIDE DEF ct
<1>11. /\ visibleItems = ItemsOf(disk) /\ visibleItems' = ItemsOf(disk')
       /\ visibleDirs = DirsOf(disk) /\ visibleDirs' = DirsOf(disk')
       /\ FilesHold(disk', diskFat')
  BY <1>2, <1>4, <1>8, Seen DEF Removed
<1>12. pendingFile' = pendingFile
  BY <1>2 DEF pendingFile
<1>13. Store!RemoveFile(d, n)
  <2>1. visibleItems[d][n] = Store!File(ct)
    BY <1>8, <1>9, <1>11 DEF Removed
  <2>2. visibleItems' = [visibleItems EXCEPT ![d][n] = Store!Nothing]
    BY <1>8, <1>11 DEF Removed, ItemSet, Store!Nothing
  <2>3. visibleDirs' = visibleDirs
    BY <1>8, <1>11 DEF Removed
  <2> QED BY <1>10, <1>12, <2>1, <2>2, <2>3 DEF Store!RemoveFile
<1>14. StoreInv'
  BY <1>2, <1>11 DEF StoreInv, CallWrites
<1> QED BY <1>13, <1>14 DEF StoreStep, Store!Next

LEMMA StoreRmdirTable == ASSUME Ready, RmdirTable PROVE StoreInv' /\ StoreStep
<1>1. /\ pc = "rmdirTable" /\ pc' = "rmdirFat"
      /\ UNCHANGED <<signed, diskFat, cluster_map, call>>
  BY DEF RmdirTable
<1> DEFINE c == call.start
<1>2. c \in DataCluster /\ TargetEmpty(disk[c].tab) /\ c # ROOT_CLUSTER_NUMBER
  BY <1>1 DEF Ready, Sound, IInv, CallSound, FileCluster
<1>3. /\ Placed(disk, c, disk'[c].tab, disk') /\ ~ ValidDir(disk'[c].tab)
      /\ \A r \in Row : r >= 2 => disk'[c].tab[r] = disk[c].tab[r]
  BY RmdirTableEffect DEF Ready, Sound
<1>4. /\ DiskSound(disk, diskFat) /\ UseIsNamed(disk) /\ FilesHold(disk, diskFat)
      /\ \A d \in DataCluster, r \in Row : LiveIn(disk, d, r) =>
            c \notin ChainSet(diskFat, disk[d].tab[r].cluster)
  BY <1>1 DEF Ready, Sound, NamedInv, DiskSound, CallOwns, StoreInv
<1> HIDE DEF c
<1>5. Closes(disk, disk', c)
  BY <1>2, <1>3, <1>4 DEF Closes, Placed, UseIsNamed
<1>6. /\ FilesHold(disk', diskFat') /\ ItemsOf(disk') = ItemsOf(disk)
      /\ DirsOf(disk') = DirsOf(disk) \ {c}
  BY <1>1, <1>4, <1>5, DirGoes
<1>7. /\ visibleItems = ItemsOf(disk) /\ visibleItems' = visibleItems
      /\ visibleDirs = DirsOf(disk) /\ visibleDirs' = visibleDirs \ {c}
  BY <1>4, <1>6, Seen
<1>8. pendingFile' = pendingFile
  BY <1>1 DEF pendingFile
<1>9. StoreInv'
  BY <1>1, <1>6 DEF StoreInv, CallWrites
<1>10. CASE c \notin visibleDirs
  <2>1. visibleDirs' = visibleDirs
    BY <1>7, <1>10
  <2> QED BY <1>7, <1>8, <1>9, <2>1, StoreStays
<1>11. CASE c \in visibleDirs
  <2>1. Store!Empty(c)
    BY <1>2, <1>7, EmptyItems DEF Store!Empty, Store!Nothing
  <2>2. ~ Store!Named(c)
    <3>1. SUFFICES ASSUME NEW d \in visibleDirs, NEW n \in Names,
                          visibleItems[d][n] = Store!Folder(c)
                   PROVE  FALSE
      BY DEF Store!Named
    <3>2. d \in DataCluster
      BY <1>7, <3>1 DEF DirsOf
    <3>3. ItemsOf(disk)[d][n] = [kind |-> "folder", handle |-> c]
      BY <1>7, <3>1 DEF Store!Folder
    <3>4. PICK r \in Row : LiveIn(disk, d, r) /\ disk[d].tab[r].cluster = c
      BY <3>2, <3>3, NamedByRow
    <3>5. c \in ChainSet(diskFat, disk[d].tab[r].cluster)
      BY <1>2, <3>4, ChainStart
    <3> QED BY <1>4, <3>2, <3>4, <3>5
  <2>3. Store!CloseFolder(c)
    BY <1>2, <1>7, <1>8, <1>11, <2>1, <2>2 DEF Store!CloseFolder
  <2> QED BY <1>2, <1>9, <2>3 DEF StoreStep, Store!Next
<1> QED BY <1>10, <1>11

-----------------------------------------------------------------------------
(* The theorem *)

LEMMA StoreInit == Init => StoreInv /\ Store!Init
<1> SUFFICES ASSUME Init PROVE StoreInv /\ Store!Init
  OBVIOUS
<1>1. \A d \in DataCluster : ~ ValidDir(disk[d].tab)
  BY BlankTypes DEF Init
<1>2. \A d \in DataCluster, r \in Row : ~ LiveIn(disk, d, r)
  BY <1>1 DEF LiveIn
<1>3. FilesHold(disk, diskFat)
  BY <1>2 DEF FilesHold
<1>4. StoreInv
  BY <1>3 DEF StoreInv, CallWrites, Init
<1>5. visibleItems = ItemsOf(disk) /\ visibleDirs = DirsOf(disk)
  BY <1>3, MappingIs, NoneBroken
<1>6. visibleDirs = {}
  BY <1>1, <1>5 DEF DirsOf
<1>7. \A d \in DataCluster, n \in Names : ItemIn(disk, d, n) = [kind |-> "nothing"]
  BY <1>2, ItemNothing
<1>8. visibleItems = [d \in DataCluster |-> [n \in Names |-> Store!Nothing]]
  BY <1>5, <1>7 DEF ItemsOf, Store!Nothing
<1>9. pendingFile = Store!None
  BY DEF Init, pendingFile, Store!None
<1> QED BY <1>4, <1>6, <1>8, <1>9 DEF Store!Init

LEMMA StoreNext ==
    ASSUME Ready, ZeroName \notin Names, \A s \in Sizes : SizeKept(s), [Next]_vars
    PROVE  StoreInv' /\ StoreStep
<1>1. CASE Continue
  BY <1>1, StoreFormat, StoreMkdirParent, StoreMkdirTable, StoreWriteNext, StoreRunaway,
     StoreWriteFat, StoreWriteRow, StoreRmdirTable, StoreRmdirFat, StoreRmCluster,
     StoreRmFat, StoreRmLast DEF Continue
<1>2. CASE Failure
  BY <1>2, StorePower, StoreMkdirTable, StoreFatTorn DEF Failure
<1>3. CASE Request
  BY <1>3, StoreRead, StoreMkdirFat, StoreWriteFirst, StoreRmdirParent, StoreRmRow DEF Request
<1> QED BY <1>1, <1>2, <1>3, StorePower DEF Next

\* What the file on the disk says is what was written into it, in every reachable
\* state: every file of a valid directory holds all the parts of one buffer.
THEOREM FilesStayWhole ==
    ASSUME ZeroName \notin Names, \A s \in Sizes : SizeKept(s)
    PROVE  Spec => []FilesWhole
<1>1. Init => IInv /\ NamedInv /\ StoreInv
  BY InitHolds, NamedInit, StoreInit
<1>2. IInv /\ NamedInv /\ StoreInv /\ [Next]_vars => (IInv /\ NamedInv /\ StoreInv)'
  BY NextPreserves, NamedNext, StoreNext DEF Sound, Ready
<1>3. StoreInv => FilesWhole
  <2> SUFFICES ASSUME StoreInv, NEW d \in DataCluster, NEW r \in Row,
                      Live(d, r), ~ EntryOf(d, r).sub
               PROVE  Whole(EntryOf(d, r))
    BY DEF FilesWhole
  <2> DEFINE e == EntryOf(d, r)
  <2>1. LiveIn(disk, d, r) /\ e = disk[d].tab[r] /\ ~ disk[d].tab[r].sub
    BY LiveIsLive DEF EntryOf
  <2>2. Holds(disk, diskFat, e.cluster, disk[e.cluster].data.p, e.size)
    BY <2>1 DEF StoreInv, FilesHold
  <2> HIDE DEF e
  <2>3. Whole(e)
    BY <2>2, Zenon DEF Holds, Parts, Whole
  <2> QED BY <2>3 DEF e
<1> QED BY <1>1, <1>2, <1>3, PTL DEF Spec

\* The driver implements the store for every size of the disk, of its clusters and
\* of its directories: whatever requests arrive and wherever the power fails between
\* their disk writes, users see files that appear whole or not at all, that nothing
\* but their removal changes, and folders that are removed only when empty.  Sizes are
\* those of which write copies all bytes, names those of rows in use (the runs
\* Fat32WholeClusters and Fat32Nameless are about the others).
THEOREM DriverImplementsStore ==
    ASSUME ZeroName \notin Names, \A s \in Sizes : SizeKept(s)
    PROVE  Spec => ImplementsStore
<1>1. Init => IInv /\ NamedInv /\ StoreInv /\ Store!Init
  BY InitHolds, NamedInit, StoreInit
<1>2. IInv /\ NamedInv /\ StoreInv /\ [Next]_vars => (IInv /\ NamedInv /\ StoreInv)' /\ StoreStep
  BY NextPreserves, NamedNext, StoreNext DEF Sound, Ready
<1> QED BY <1>1, <1>2, PTL DEF Spec, ImplementsStore, Store!Spec, StoreStep

=============================================================================
