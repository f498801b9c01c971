-------------------------- MODULE Fat32ChainProofs --------------------------
(***************************************************************************)
(* Proofs about what the directories of the file system name: chains of     *)
(* clusters that end, that no two entries share and that no power failure   *)
(* sets free.                                                               *)
(*                                                                         *)
(* Requests do not carry the name of an erased row here: delete would find  *)
(* that row, and free a cluster that may be in use again.                   *)
(***************************************************************************)
EXTENDS Fat32Proofs, WellFoundedInduction

-----------------------------------------------------------------------------
(* The invariant.  It is stated for a disk dk and a FAT f, so that a step can be *)
(* followed through its writes.                                                *)

\* Row r of directory d of the disk dk is an entry that a user can reach.
LiveIn(dk, d, r) ==
    /\ d \in DataCluster /\ r \in Row /\ r >= 2
    /\ ValidDir(dk[d].tab)
    /\ dk[d].tab[r].used

\* The clusters of the chain that starts at c.
ChainSet(f, c) == {Chain(f, c)[k] : k \in 0 .. NCluster} \cap DataCluster

\* The clusters that entries or directories of the disk hold.
Held(dk, f) ==
    {x \in DataCluster :
        \/ ValidDir(dk[x].tab)
        \/ \E d \in DataCluster, r \in Row :
              LiveIn(dk, d, r) /\ x \in ChainSet(f, dk[d].tab[r].cluster)}

\* Every entry has a chain of its own, that ends; a folder's is one cluster.
ChainsSound(dk, f) ==
    \A d \in DataCluster, r \in Row : LiveIn(dk, d, r) =>
        /\ dk[d].tab[r].cluster \in FileCluster
        /\ ChainEnds(f, dk[d].tab[r].cluster)
        /\ dk[d].tab[r].sub => f[dk[d].tab[r].cluster] = FAT32_FAT_END_OF_FILE
        /\ ROOT_CLUSTER_NUMBER \notin ChainSet(f, dk[d].tab[r].cluster)

ChainsApart(dk, f) ==
    \A d1, d2 \in DataCluster, r1, r2 \in Row :
        LiveIn(dk, d1, r1) /\ LiveIn(dk, d2, r2) =>
            \/ d1 = d2 /\ r1 = r2
            \/ ChainSet(f, dk[d1].tab[r1].cluster)
                  \cap ChainSet(f, dk[d2].tab[r2].cluster) = {}

\* Directories are marked, and in no chain of a file.
DirsSound(dk, f) ==
    \A d \in DataCluster : ValidDir(dk[d].tab) =>
        /\ f[d] = FAT32_FAT_END_OF_FILE
        /\ \A x \in DataCluster, r \in Row :
              LiveIn(dk, x, r) /\ ~ dk[x].tab[r].sub
                 => d \notin ChainSet(f, dk[x].tab[r].cluster)

\* A directory knows itself, its parent and the name its parent has for it.
Header(dk, d, c, n) ==
    dk[c].tab[0].cluster = c /\ dk[c].tab[0].name = n /\ dk[c].tab[1].cluster = d

HeadersSound(dk) ==
    \A d \in DataCluster, r \in Row :
        LET e == dk[d].tab[r] IN
        LiveIn(dk, d, r) /\ e.sub /\ ValidDir(dk[e.cluster].tab) =>
            Header(dk, d, e.cluster, e.name)

\* Rows of contents are in use exactly when they have a name.
UseIsNamed(dk) ==
    \A d \in DataCluster, r \in Row :
        r >= 2 => (dk[d].tab[r].used <=> dk[d].tab[r].name # ZeroName)

DiskSound(dk, f) ==
    /\ ChainsSound(dk, f) /\ ChainsApart(dk, f) /\ DirsSound(dk, f)
    /\ HeadersSound(dk) /\ UseIsNamed(dk)

\* The two FATs agree on what is held.
Agree(f, g, H) == \A x \in H : f[x] = g[x]

\* What the links of f can reach from x is not in H.
Detached(f, x, H) ==
    \E S \in SUBSET DataCluster :
        /\ x \in DataCluster => x \in S
        /\ \A y \in S : f[y] \in DataCluster => f[y] \in S
        /\ S \cap H = {}

\* The chain a write has built so far: m links that go up from call.start to
\* call.cur, over clusters that nothing holds.
Building(f, m, H) ==
    LET w == Chain(f, call.start)
    IN  /\ w[m] = call.cur /\ m <= call.cur - 2
        /\ f[call.cur] = FAT32_FAT_END_OF_FILE
        /\ \A k \in 0 .. m : w[k] \in DataCluster \ H /\ (k < m => w[k] < call.cur)

CallOwns ==
    LET H == Held(disk, diskFat) IN
    /\ pc \in {"mkdirParent", "fill", "writeRow"} =>
          call.name # ZeroName /\ ~ disk[call.parent].tab[call.row].used
    /\ pc = "mkdirParent" => call.start \notin H
    /\ pc = "mkdirTable" =>
          disk[call.parent].tab[call.row] = DirEntry(call.name, call.start)
    /\ pc = "fill" => \E m \in 0 .. NCluster : Building(cluster_map, m, H)
    /\ pc = "writeRow" =>
          ChainEnds(diskFat, call.start) /\ ChainSet(diskFat, call.start) \cap H = {}
    /\ pc = "rmdirTable" =>
          \A d \in DataCluster, r \in Row : LiveIn(disk, d, r) =>
              call.start \notin ChainSet(diskFat, disk[d].tab[r].cluster)
    /\ pc = "rmdirFat" => call.start \notin H
    /\ pc \in {"rmFirst", "rmLoop"} => Detached(cluster_map, call.nxt, H)
    /\ pc \in {"rmLoop", "rmLast"} => call.cur \notin H

NamedInv ==
    /\ DiskSound(disk, diskFat)
    /\ Loaded => Agree(cluster_map, diskFat, Held(disk, diskFat))
    /\ CallOwns

-----------------------------------------------------------------------------
(* Chains *)

LEMMA LeastNumber ==
    ASSUME NEW S, S \subseteq Nat, S # {}
    PROVE  \E x \in S : \A y \in S : x <= y
<1>1. \E x \in S : \A y \in S : ~ (<<y, x>> \in {ss \in Nat \X Nat : ss[1] < ss[2]})
  <2>1. IsWellFoundedOn({ss \in Nat \X Nat : ss[1] < ss[2]}, Nat)
    BY NatLessThanWellFounded, Zenon DEF OpToRel
  <2> QED BY <2>1, WFMin, Zenon
<1>2. PICK x \in S : \A y \in S : ~ (<<y, x>> \in {ss \in Nat \X Nat : ss[1] < ss[2]})
  BY <1>1
<1>3. \A y \in S : ~ (y < x)
  BY <1>2
<1> QED BY <1>3

\* One round of the loop that follows a chain.
Follow(f, y) == IF y \in DataCluster THEN f[y] ELSE y

\* A walk of n rounds along f from c.
IsWalk(f, c, n, w) == w = [k \in 0 .. n |-> IF k = 0 THEN c ELSE Follow(f, w[k - 1])]

LEMMA WalkExists ==
    ASSUME NEW f, NEW c, NEW n \in Nat
    PROVE  \E w : IsWalk(f, c, n, w)
<1> DEFINE Bad == {m \in Nat : ~ \E w : IsWalk(f, c, m, w)}
<1>1. SUFFICES ASSUME Bad # {} PROVE FALSE
  BY DEF Bad
<1>2. PICK m \in Bad : \A y \in Bad : m <= y
  <2>1. Bad \subseteq Nat
    OBVIOUS
  <2> HIDE DEF Bad
  <2> QED BY <1>1, <2>1, LeastNumber
<1>3. CASE m = 0
  <2> DEFINE w == [k \in 0 .. 0 |-> c]
  <2>1. IsWalk(f, c, 0, w)
    BY DEF IsWalk
  <2> QED BY <1>3, <2>1
<1>4. CASE m # 0
  <2>1. m - 1 \in Nat /\ m - 1 \notin Bad
    BY <1>2, <1>4
  <2>2. PICK g : IsWalk(f, c, m - 1, g)
    BY <2>1
  <2> DEFINE w == [k \in 0 .. m |-> IF k < m THEN g[k] ELSE Follow(f, g[m - 1])]
  <2>3. IsWalk(f, c, m, w)
    <3>1. \A k \in 0 .. m - 1 : g[k] = IF k = 0 THEN c ELSE Follow(f, g[k - 1])
      BY <2>2 DEF IsWalk
    <3>2. \A k \in 0 .. m : w[k] = IF k = 0 THEN c ELSE Follow(f, w[k - 1])
      BY <2>1, <3>1
    <3>3. w = [k \in 0 .. m |-> w[k]]
      OBVIOUS
    <3> HIDE DEF w
    <3> QED BY <3>2, <3>3 DEF IsWalk
  <2> QED BY <1>2, <2>3
<1> QED BY <1>3, <1>4

\* The chain is what the loop of read follows, round by round.
LEMMA ChainRounds ==
    ASSUME NEW f, NEW c
    PROVE  /\ Chain(f, c)[0] = c
           /\ \A k \in 0 .. NCluster - 1 : Chain(f, c)[k + 1] = Follow(f, Chain(f, c)[k])
<1>1. Chain(f, c) = CHOOSE w : IsWalk(f, c, NCluster, w)
  BY DEF Chain, IsWalk, Follow
<1>2. IsWalk(f, c, NCluster, Chain(f, c))
  BY <1>1, WalkExists, SizeAssumption
<1> HIDE DEF Chain
<1>3. \A k \in 0 .. NCluster : Chain(f, c)[k] = IF k = 0 THEN c ELSE Follow(f, Chain(f, c)[k - 1])
  BY <1>2 DEF IsWalk
<1>4. Chain(f, c)[0] = c
  BY <1>3, SizeAssumption
<1>5. ASSUME NEW k \in 0 .. NCluster - 1
      PROVE  Chain(f, c)[k + 1] = Follow(f, Chain(f, c)[k])
  <2>1. k + 1 \in 0 .. NCluster /\ k + 1 # 0 /\ (k + 1) - 1 = k
    BY SizeAssumption
  <2> QED BY <1>3, <2>1
<1> QED BY <1>4, <1>5

\* Outside the data clusters the loop does not move on.
LEMMA ChainStays ==
    ASSUME NEW f, NEW c, NEW k \in 0 .. NCluster, Chain(f, c)[k] \notin DataCluster,
           NEW j \in 0 .. NCluster, k <= j
    PROVE  Chain(f, c)[j] = Chain(f, c)[k]
<1> DEFINE w == Chain(f, c)
           Bad == {i \in Nat : i \in k .. NCluster /\ w[i] # w[k]}
<1> HIDE DEF w
<1>1. SUFFICES ASSUME Bad # {} PROVE FALSE
  BY SizeAssumption DEF w
<1>2. PICK m \in Bad : \A y \in Bad : m <= y
  <2>1. Bad \subseteq Nat
    OBVIOUS
  <2> HIDE DEF Bad
  <2> QED BY <1>1, <2>1, LeastNumber
<1>3. m # k /\ m \in k .. NCluster /\ w[m] # w[k]
  BY <1>2
<1>4. m - 1 \in k .. NCluster /\ m - 1 \in 0 .. NCluster - 1 /\ (m - 1) + 1 = m
  BY <1>3, SizeAssumption
<1>5. w[m - 1] = w[k]
  BY <1>2, <1>4
<1>6. w[m] = Follow(f, w[m - 1])
  BY <1>4, ChainRounds DEF w
<1> QED BY <1>3, <1>5, <1>6 DEF Follow, w

\* Two FATs that agree on the first m clusters of a chain have them in common.
LEMMA ChainPrefix ==
    ASSUME NEW f, NEW g, NEW c, NEW m \in 0 .. NCluster,
           \A k \in 0 .. m - 1 :
              Chain(f, c)[k] \in DataCluster => g[Chain(f, c)[k]] = f[Chain(f, c)[k]]
    PROVE  \A k \in 0 .. m : Chain(g, c)[k] = Chain(f, c)[k]
<1> DEFINE v == Chain(g, c)
           w == Chain(f, c)
           Bad == {i \in Nat : i \in 0 .. m /\ v[i] # w[i]}
<1>0. /\ v[0] = c /\ w[0] = c
      /\ \A k \in 0 .. NCluster - 1 : v[k + 1] = Follow(g, v[k]) /\ w[k + 1] = Follow(f, w[k])
  BY ChainRounds
<1>a. \A k \in 0 .. m - 1 : w[k] \in DataCluster => g[w[k]] = f[w[k]]
  OBVIOUS
<1> HIDE DEF w, v
<1>1. SUFFICES ASSUME Bad # {} PROVE FALSE
  BY SizeAssumption DEF w, v
<1>2. PICK n \in Bad : \A y \in Bad : n <= y
  <2>1. Bad \subseteq Nat
    OBVIOUS
  <2> HIDE DEF Bad
  <2> QED BY <1>1, <2>1, LeastNumber
<1>3. n # 0 /\ n \in 0 .. m /\ v[n] # w[n]
  BY <1>0, <1>2
<1>4. n - 1 \in 0 .. m - 1 /\ n - 1 \in 0 .. NCluster - 1 /\ (n - 1) + 1 = n /\ n - 1 \in 0 .. m
  BY <1>3, SizeAssumption
<1>5. v[n - 1] = w[n - 1]
  BY <1>2, <1>4
<1>6. v[n] = Follow(g, v[n - 1]) /\ w[n] = Follow(f, w[n - 1])
  BY <1>0, <1>4
<1> QED BY <1>3, <1>4, <1>5, <1>6, <1>a DEF Follow

\* A chain does not leave a set of clusters that the links do not leave.
LEMMA ChainInside ==
    ASSUME NEW f, NEW c, NEW S, c \in DataCluster => c \in S,
           \A y \in S : f[y] \in DataCluster => f[y] \in S
    PROVE  ChainSet(f, c) \subseteq S
<1> DEFINE w == Chain(f, c)
           Bad == {i \in Nat : i \in 0 .. NCluster /\ w[i] \in DataCluster /\ w[i] \notin S}
<1>0. w[0] = c /\ \A k \in 0 .. NCluster - 1 : w[k + 1] = Follow(f, w[k])
  BY ChainRounds
<1> HIDE DEF w
<1>1. SUFFICES ASSUME Bad # {} PROVE FALSE
  BY SizeAssumption DEF w, ChainSet
<1>2. PICK n \in Bad : \A y \in Bad : n <= y
  <2>1. Bad \subseteq Nat
    OBVIOUS
  <2> HIDE DEF Bad
  <2> QED BY <1>1, <2>1, LeastNumber
<1>3. n # 0 /\ n \in 0 .. NCluster /\ w[n] \in DataCluster /\ w[n] \notin S
  BY <1>0, <1>2
<1>4. n - 1 \in 0 .. NCluster /\ n - 1 \in 0 .. NCluster - 1 /\ (n - 1) + 1 = n
  BY <1>3, SizeAssumption
<1>5. w[n - 1] \in DataCluster => w[n - 1] \in S
  BY <1>2, <1>4
<1>6. w[n] = Follow(f, w[n - 1])
  BY <1>0, <1>4
<1> QED BY <1>3, <1>5, <1>6 DEF Follow

\* A chain that ends has no free cluster, and the links do not leave it.
LEMMA ChainAllocated ==
    ASSUME NEW f, NEW c, ChainEnds(f, c), NEW x \in ChainSet(f, c)
    PROVE  /\ f[x] # FAT32_FAT_EMPTY_ENTRY
           /\ f[x] \in DataCluster => f[x] \in ChainSet(f, c)
<1> DEFINE w == Chain(f, c)
<1>0. w[0] = c /\ \A k \in 0 .. NCluster - 1 : w[k + 1] = Follow(f, w[k])
  BY ChainRounds
<1>1. PICK e \in 1 .. NCluster : w[e] = FAT32_FAT_END_OF_FILE
  BY DEF ChainEnds
<1>2. PICK k \in 0 .. NCluster : w[k] = x /\ x \in DataCluster
  BY DEF ChainSet
<1>a. \A i, j \in 0 .. NCluster : i <= j /\ w[i] \notin DataCluster => w[j] = w[i]
  BY ChainStays
<1>b. ASSUME NEW i \in 0 .. NCluster, w[i] \in DataCluster PROVE w[i] \in ChainSet(f, c)
  BY <1>b DEF ChainSet
<1> HIDE DEF w
<1>3. FAT32_FAT_END_OF_FILE \notin DataCluster /\ e \in 0 .. NCluster
  BY Constants, SizeAssumption
<1>4. k < e
  BY <1>1, <1>2, <1>3, <1>a, SizeAssumption
<1>5. k \in 0 .. NCluster - 1 /\ k + 1 \in 0 .. NCluster /\ k + 1 <= e
  BY <1>4, SizeAssumption
<1>6. w[k + 1] = f[x]
  BY <1>0, <1>2, <1>5 DEF Follow
<1>7. f[x] # FAT32_FAT_EMPTY_ENTRY
  BY <1>1, <1>3, <1>5, <1>6, <1>a, Constants, Values
<1> QED BY <1>5, <1>6, <1>7, <1>b

\* A chain depends on the links of its own clusters only.
SameChain(f, g, c) == ChainSet(g, c) = ChainSet(f, c) /\ (ChainEnds(f, c) <=> ChainEnds(g, c))

LEMMA ChainFrame ==
    ASSUME NEW f, NEW g, NEW c, \A x \in ChainSet(f, c) : g[x] = f[x]
    PROVE  /\ \A k \in 0 .. NCluster : Chain(g, c)[k] = Chain(f, c)[k]
           /\ SameChain(f, g, c)
<1>1. \A k \in 0 .. NCluster - 1 :
         Chain(f, c)[k] \in DataCluster => g[Chain(f, c)[k]] = f[Chain(f, c)[k]]
  BY SizeAssumption DEF ChainSet
<1>2. \A k \in 0 .. NCluster : Chain(g, c)[k] = Chain(f, c)[k]
  BY <1>1, ChainPrefix, SizeAssumption
<1>3. ChainSet(f, c) = ChainSet(g, c)
  BY <1>2 DEF ChainSet
<1>4. ChainEnds(f, c) <=> ChainEnds(g, c)
  BY <1>2, SizeAssumption DEF ChainEnds
<1> QED BY <1>2, <1>3, <1>4 DEF SameChain

\* The chain of a single cluster.
LEMMA ChainOfOne ==
    ASSUME NEW f, NEW c \in DataCluster, f[c] = FAT32_FAT_END_OF_FILE
    PROVE  ChainSet(f, c) = {c} /\ ChainEnds(f, c)
<1>1. ChainSet(f, c) \subseteq {c}
  BY ChainInside, Constants
<1>2. c \in ChainSet(f, c)
  BY ChainRounds, SizeAssumption DEF ChainSet
<1>3. Chain(f, c)[1] = FAT32_FAT_END_OF_FILE
  <2>1. 0 \in 0 .. NCluster - 1 /\ 0 + 1 = 1
    BY SizeAssumption
  <2> QED BY <2>1, ChainRounds DEF Follow
<1>4. ChainEnds(f, c)
  BY <1>3, SizeAssumption DEF ChainEnds
<1> QED BY <1>1, <1>2, <1>4

LEMMA ChainStart ==
    ASSUME NEW f, NEW c \in DataCluster
    PROVE  c \in ChainSet(f, c)
BY ChainRounds, SizeAssumption DEF ChainSet

-----------------------------------------------------------------------------
(* What writes to the FAT and to the disk leave sound *)

\* Nothing that is held is up for allocation.
LEMMA HeldAllocated ==
    ASSUME NEW dk, NEW f, DiskSound(dk, f), NEW x \in Held(dk, f)
    PROVE  f[x] # FAT32_FAT_EMPTY_ENTRY
<1>1. CASE ValidDir(dk[x].tab)
  BY <1>1, Values DEF DiskSound, DirsSound, Held
<1>2. CASE ~ ValidDir(dk[x].tab)
  <2>1. PICK d \in DataCluster, r \in Row :
           LiveIn(dk, d, r) /\ x \in ChainSet(f, dk[d].tab[r].cluster)
    BY <1>2 DEF Held
  <2>2. ChainEnds(f, dk[d].tab[r].cluster)
    BY <2>1 DEF DiskSound, ChainsSound
  <2> QED BY <2>1, <2>2, ChainAllocated
<1> QED BY <1>1, <1>2

\* A FAT may change wherever nothing is held.
LEMMA FatFrame ==
    ASSUME NEW dk, NEW f, NEW g, DiskSound(dk, f), Agree(g, f, Held(dk, f))
    PROVE  DiskSound(dk, g) /\ Held(dk, g) = Held(dk, f)
<1>1. ASSUME NEW d \in DataCluster, NEW r \in Row, LiveIn(dk, d, r)
      PROVE  /\ SameChain(f, g, dk[d].tab[r].cluster)
             /\ dk[d].tab[r].cluster \in Held(dk, f)
  <2>1. ChainSet(f, dk[d].tab[r].cluster) \subseteq Held(dk, f)
    BY <1>1 DEF Held, ChainSet
  <2>2. dk[d].tab[r].cluster \in DataCluster
    BY <1>1 DEF DiskSound, ChainsSound, FileCluster
  <2> QED BY <2>1, <2>2, ChainFrame, ChainStart DEF Agree
<1>2. ASSUME NEW d \in DataCluster, NEW r \in Row, LiveIn(dk, d, r)
      PROVE  ChainSet(g, dk[d].tab[r].cluster) = ChainSet(f, dk[d].tab[r].cluster)
  BY <1>1, <1>2 DEF SameChain
<1>3. Held(dk, g) = Held(dk, f)
  BY <1>2 DEF Held
<1>4. ChainsSound(dk, g)
  BY <1>1 DEF DiskSound, ChainsSound, SameChain, Agree
<1>5. ChainsApart(dk, g)
  BY <1>2 DEF DiskSound, ChainsApart
<1>6. DirsSound(dk, g)
  <2>1. \A d \in DataCluster : ValidDir(dk[d].tab) => d \in Held(dk, f)
    BY DEF Held
  <2> QED BY <1>2, <2>1 DEF DiskSound, DirsSound, Agree
<1> QED BY <1>3, <1>4, <1>5, <1>6 DEF DiskSound

LEMMA HeaderOf ==
    ASSUME NEW dk, HeadersSound(dk), NEW d \in DataCluster, NEW r \in Row,
           LiveIn(dk, d, r), dk[d].tab[r].sub, ValidDir(dk[dk[d].tab[r].cluster].tab)
    PROVE  Header(dk, d, dk[d].tab[r].cluster, dk[d].tab[r].name)
BY DEF HeadersSound

LEMMA HeadersIf ==
    ASSUME NEW dk,
           \A d \in DataCluster, r \in Row :
              LiveIn(dk, d, r) /\ dk[d].tab[r].sub /\ ValidDir(dk[dk[d].tab[r].cluster].tab) =>
                 Header(dk, d, dk[d].tab[r].cluster, dk[d].tab[r].name)
    PROVE  HeadersSound(dk)
BY DEF HeadersSound

\* Cluster c, which has no rows in use, does not pass for a directory any more.
Closes(dk, dk2, c) ==
    /\ c \in DataCluster
    /\ TargetEmpty(dk[c].tab) \/ ~ ValidDir(dk[c].tab)
    /\ ~ ValidDir(dk2[c].tab)
    /\ \A r \in Row : r >= 2 => (dk2[c].tab[r].used <=> dk2[c].tab[r].name # ZeroName)
    /\ \A x \in DataCluster : x # c => dk2[x] = dk[x]

LEMMA DirClosed ==
    ASSUME NEW dk, NEW dk2, NEW f, DiskSound(dk, f), NEW c, Closes(dk, dk2, c)
    PROVE  /\ DiskSound(dk2, f)
           /\ Held(dk2, f) \subseteq Held(dk, f)
           /\ (\A d \in DataCluster, r \in Row : LiveIn(dk, d, r) =>
                  c \notin ChainSet(f, dk[d].tab[r].cluster)) => c \notin Held(dk2, f)
           /\ \A x \in Held(dk, f) : x # c => x \in Held(dk2, f)
<1> USE DEF Closes
<1>1. \A d \in DataCluster, r \in Row :
         LiveIn(dk2, d, r) <=> LiveIn(dk, d, r)
  BY DEF LiveIn, TargetEmpty
<1>2. \A d \in DataCluster, r \in Row : LiveIn(dk2, d, r) => d # c /\ dk2[d] = dk[d]
  BY DEF LiveIn
<1>3. ChainsSound(dk2, f) /\ ChainsApart(dk2, f)
  <2>1. ChainsSound(dk2, f)
    BY <1>1, <1>2 DEF DiskSound, ChainsSound
  <2>2. ChainsApart(dk2, f)
    <3>1. SUFFICES ASSUME NEW d1 \in DataCluster, NEW d2 \in DataCluster,
                          NEW r1 \in Row, NEW r2 \in Row,
                          LiveIn(dk2, d1, r1), LiveIn(dk2, d2, r2), ~ (d1 = d2 /\ r1 = r2)
                   PROVE  ChainSet(f, dk2[d1].tab[r1].cluster)
                             \cap ChainSet(f, dk2[d2].tab[r2].cluster) = {}
      BY DEF ChainsApart
    <3>2. /\ LiveIn(dk, d1, r1) /\ LiveIn(dk, d2, r2)
          /\ dk2[d1] = dk[d1] /\ dk2[d2] = dk[d2]
      BY <1>1, <1>2, <3>1
    <3>3. ChainSet(f, dk[d1].tab[r1].cluster) \cap ChainSet(f, dk[d2].tab[r2].cluster) = {}
      BY <3>1, <3>2 DEF DiskSound, ChainsApart
    <3> QED BY <3>2, <3>3
  <2> QED BY <2>1, <2>2
<1>4. \A d \in DataCluster : ValidDir(dk2[d].tab) => d # c /\ dk2[d] = dk[d]
  OBVIOUS
<1>5. DirsSound(dk2, f)
  BY <1>1, <1>2, <1>4 DEF DiskSound, DirsSound
<1>6. HeadersSound(dk2)
  <2>1. SUFFICES ASSUME NEW d \in DataCluster, NEW r \in Row,
                        LiveIn(dk2, d, r), dk2[d].tab[r].sub,
                        ValidDir(dk2[dk2[d].tab[r].cluster].tab)
                 PROVE  Header(dk2, d, dk2[d].tab[r].cluster, dk2[d].tab[r].name)
    BY HeadersIf
  <2>h. HeadersSound(dk)
    BY DEF DiskSound
  <2>2. LiveIn(dk, d, r) /\ dk2[d] = dk[d]
    BY <1>1, <1>2, <2>1
  <2>3. dk[d].tab[r].cluster \in DataCluster
    BY <2>2 DEF DiskSound, ChainsSound, FileCluster
  <2>4. dk2[dk[d].tab[r].cluster] = dk[dk[d].tab[r].cluster]
    BY <1>4, <2>1, <2>2, <2>3
  <2>5. /\ LiveIn(dk, d, r) /\ dk[d].tab[r].sub /\ ValidDir(dk[dk[d].tab[r].cluster].tab)
    BY <2>1, <2>2, <2>4
  <2>6. Header(dk, d, dk[d].tab[r].cluster, dk[d].tab[r].name)
    BY <2>5, <2>h, HeaderOf
  <2> QED BY <2>2, <2>4, <2>6 DEF Header
<1>7. UseIsNamed(dk2)
  BY DEF DiskSound, UseIsNamed
<1>8. Held(dk2, f) \subseteq Held(dk, f)
  BY <1>1, <1>2, <1>4 DEF Held
<1>9. ASSUME NEW x \in Held(dk, f), x # c PROVE x \in Held(dk2, f)
  BY <1>1, <1>2, <1>9 DEF Held
<1>10. ASSUME \A d \in DataCluster, r \in Row : LiveIn(dk, d, r) =>
                  c \notin ChainSet(f, dk[d].tab[r].cluster)
       PROVE  c \notin Held(dk2, f)
  BY <1>1, <1>2, <1>10 DEF Held
<1> QED BY <1>3, <1>5, <1>6, <1>7, <1>8, <1>9, <1>10 DEF DiskSound

\* Cluster c passes for a directory from now on, and has no rows in use; whatever
\* names it is the folder it is made for.
Opens(dk, dk2, f, c) ==
    /\ c \in DataCluster
    /\ ~ ValidDir(dk[c].tab) /\ ValidDir(dk2[c].tab) /\ TargetEmpty(dk2[c].tab)
    /\ \A r \in Row : r >= 2 => (dk2[c].tab[r].used <=> dk2[c].tab[r].name # ZeroName)
    /\ \A x \in DataCluster : x # c => dk2[x] = dk[x]
    /\ f[c] = FAT32_FAT_END_OF_FILE
    /\ \A d \in DataCluster, r \in Row :
          LiveIn(dk, d, r) /\ c \in ChainSet(f, dk[d].tab[r].cluster) =>
             /\ dk[d].tab[r].sub
             /\ dk2[c].tab[0].cluster = c
             /\ dk2[c].tab[0].name = dk[d].tab[r].name
             /\ dk2[c].tab[1].cluster = d

LEMMA DirOpened ==
    ASSUME NEW dk, NEW dk2, NEW f, DiskSound(dk, f), NEW c, Opens(dk, dk2, f, c)
    PROVE  /\ DiskSound(dk2, f)
           /\ Held(dk2, f) = Held(dk, f) \cup {c}
<1> USE DEF Opens
<1>1. \A d \in DataCluster, r \in Row :
         LiveIn(dk2, d, r) <=> LiveIn(dk, d, r)
  BY DEF LiveIn, TargetEmpty
<1>2. \A d \in DataCluster, r \in Row : LiveIn(dk2, d, r) => d # c /\ dk2[d] = dk[d]
  BY DEF LiveIn, TargetEmpty
<1>3. ChainsSound(dk2, f) /\ ChainsApart(dk2, f)
  <2>1. ChainsSound(dk2, f)
    BY <1>1, <1>2 DEF DiskSound, ChainsSound
  <2>2. ChainsApart(dk2, f)
    <3>1. SUFFICES ASSUME NEW d1 \in DataCluster, NEW d2 \in DataCluster,
                          NEW r1 \in Row, NEW r2 \in Row,
                          LiveIn(dk2, d1, r1), LiveIn(dk2, d2, r2), ~ (d1 = d2 /\ r1 = r2)
                   PROVE  ChainSet(f, dk2[d1].tab[r1].cluster)
                             \cap ChainSet(f, dk2[d2].tab[r2].cluster) = {}
      BY DEF ChainsApart
    <3>2. /\ LiveIn(dk, d1, r1) /\ LiveIn(dk, d2, r2)
          /\ dk2[d1] = dk[d1] /\ dk2[d2] = dk[d2]
      BY <1>1, <1>2, <3>1
    <3>3. ChainSet(f, dk[d1].tab[r1].cluster) \cap ChainSet(f, dk[d2].tab[r2].cluster) = {}
      BY <3>1, <3>2 DEF DiskSound, ChainsApart
    <3> QED BY <3>2, <3>3
  <2> QED BY <2>1, <2>2
<1>4. \A d \in DataCluster : ValidDir(dk2[d].tab) => d = c \/ (d # c /\ dk2[d] = dk[d])
  OBVIOUS
<1>5. DirsSound(dk2, f)
  BY <1>1, <1>2, <1>4 DEF DiskSound, DirsSound
<1>6. HeadersSound(dk2)
  <2>1. SUFFICES ASSUME NEW d \in DataCluster, NEW r \in Row,
                        LiveIn(dk2, d, r), dk2[d].tab[r].sub,
                        ValidDir(dk2[dk2[d].tab[r].cluster].tab)
                 PROVE  Header(dk2, d, dk2[d].tab[r].cluster, dk2[d].tab[r].name)
    BY HeadersIf
  <2>h. HeadersSound(dk)
    BY DEF DiskSound
  <2>2. LiveIn(dk, d, r) /\ dk2[d] = dk[d]
    BY <1>1, <1>2, <2>1
  <2>3. dk[d].tab[r].cluster \in DataCluster
    BY <2>2 DEF DiskSound, ChainsSound, FileCluster
  <2>4. CASE dk[d].tab[r].cluster # c
    <3>1. dk2[dk[d].tab[r].cluster] = dk[dk[d].tab[r].cluster]
      BY <2>3, <2>4
    <3>2. /\ LiveIn(dk, d, r) /\ dk[d].tab[r].sub /\ ValidDir(dk[dk[d].tab[r].cluster].tab)
      BY <2>1, <2>2, <3>1
    <3>3. Header(dk, d, dk[d].tab[r].cluster, dk[d].tab[r].name)
      BY <2>h, <3>2, HeaderOf
    <3> QED BY <2>2, <3>1, <3>3 DEF Header
  <2>5. CASE dk[d].tab[r].cluster = c
    <3>1. c \in ChainSet(f, dk[d].tab[r].cluster)
      BY <2>3, <2>5, ChainStart
    <3> QED BY <2>2, <2>5, <3>1 DEF Header
  <2> QED BY <2>4, <2>5
<1>7. UseIsNamed(dk2)
  BY DEF DiskSound, UseIsNamed
<1>8. Held(dk2, f) = Held(dk, f) \cup {c}
  BY <1>1, <1>2, <1>4 DEF Held
<1> QED BY <1>3, <1>5, <1>6, <1>7, <1>8 DEF DiskSound

\* Entry e is for a file or folder whose clusters nothing holds.
Fresh(dk, f, e) ==
    /\ e.used /\ e.name # ZeroName
    /\ e.cluster \in FileCluster /\ ChainEnds(f, e.cluster)
    /\ ChainSet(f, e.cluster) \cap Held(dk, f) = {}
    /\ e.sub => f[e.cluster] = FAT32_FAT_END_OF_FILE

\* dk2 is dk with e in row r of directory d.
RowSet(dk, dk2, d, r, e) ==
    /\ d \in DataCluster /\ r \in Row /\ r >= 2 /\ ValidDir(dk[d].tab)
    /\ dk2[d].tab[r] = e /\ \A y \in Row : y # r => dk2[d].tab[y] = dk[d].tab[y]
    /\ \A x \in DataCluster : x # d => dk2[x] = dk[x]

LEMMA EntryAdded ==
    ASSUME NEW dk, NEW dk2, NEW f, DiskSound(dk, f), NEW d, NEW r, NEW e,
           RowSet(dk, dk2, d, r, e), Fresh(dk, f, e), ~ dk[d].tab[r].used,
           ValidDir(dk[ROOT_CLUSTER_NUMBER].tab)
    PROVE  /\ DiskSound(dk2, f)
           /\ Held(dk2, f) = Held(dk, f) \cup ChainSet(f, e.cluster)
<1> USE DEF RowSet, Fresh
<1>1. \A x \in DataCluster : /\ ValidDir(dk2[x].tab) <=> ValidDir(dk[x].tab)
                             /\ dk2[x].tab[0] = dk[x].tab[0] /\ dk2[x].tab[1] = dk[x].tab[1]
  BY Constants DEF ValidDir
<1>2. LiveIn(dk2, d, r) /\ dk2[d].tab[r] = e /\ ~ LiveIn(dk, d, r)
  BY <1>1 DEF LiveIn
<1>3. \A x \in DataCluster, y \in Row : ~ (x = d /\ y = r) =>
         (LiveIn(dk2, x, y) <=> LiveIn(dk, x, y)) /\ dk2[x].tab[y] = dk[x].tab[y]
  BY <1>1 DEF LiveIn
<1>4. \A x \in DataCluster, y \in Row : LiveIn(dk, x, y) =>
         ChainSet(f, dk[x].tab[y].cluster) \subseteq Held(dk, f)
  BY DEF Held, ChainSet
<1>5. ROOT_CLUSTER_NUMBER \in Held(dk, f)
  BY Constants DEF Held
<1>6. ChainsSound(dk2, f)
  <2>1. SUFFICES ASSUME NEW x \in DataCluster, NEW y \in Row, LiveIn(dk2, x, y)
                 PROVE  /\ dk2[x].tab[y].cluster \in FileCluster
                        /\ ChainEnds(f, dk2[x].tab[y].cluster)
                        /\ dk2[x].tab[y].sub => f[dk2[x].tab[y].cluster] = FAT32_FAT_END_OF_FILE
                        /\ ROOT_CLUSTER_NUMBER \notin ChainSet(f, dk2[x].tab[y].cluster)
    BY DEF ChainsSound
  <2>2. CASE x = d /\ y = r
    BY <1>2, <1>5, <2>2
  <2>3. CASE ~ (x = d /\ y = r)
    BY <1>3, <2>1, <2>3 DEF DiskSound, ChainsSound
  <2> QED BY <2>2, <2>3
<1>7. ChainsApart(dk2, f)
  <2>1. SUFFICES ASSUME NEW d1 \in DataCluster, NEW d2 \in DataCluster,
                        NEW r1 \in Row, NEW r2 \in Row,
                        LiveIn(dk2, d1, r1), LiveIn(dk2, d2, r2), ~ (d1 = d2 /\ r1 = r2)
                 PROVE  ChainSet(f, dk2[d1].tab[r1].cluster)
                           \cap ChainSet(f, dk2[d2].tab[r2].cluster) = {}
    BY DEF ChainsApart
  <2>2. CASE d1 = d /\ r1 = r
    <3>1. dk2[d2].tab[r2] = dk[d2].tab[r2] /\ LiveIn(dk, d2, r2)
      BY <1>3, <2>1, <2>2
    <3> QED BY <1>2, <1>4, <2>2, <3>1
  <2>3. CASE d2 = d /\ r2 = r
    <3>1. dk2[d1].tab[r1] = dk[d1].tab[r1] /\ LiveIn(dk, d1, r1)
      BY <1>3, <2>1, <2>3
    <3> QED BY <1>2, <1>4, <2>3, <3>1
  <2>4. CASE ~ (d1 = d /\ r1 = r) /\ ~ (d2 = d /\ r2 = r)
    <3>1. /\ dk2[d1].tab[r1] = dk[d1].tab[r1] /\ LiveIn(dk, d1, r1)
          /\ dk2[d2].tab[r2] = dk[d2].tab[r2] /\ LiveIn(dk, d2, r2)
      BY <1>3, <2>1, <2>4
    <3>2. ChainSet(f, dk[d1].tab[r1].cluster) \cap ChainSet(f, dk[d2].tab[r2].cluster) = {}
      BY <2>1, <3>1 DEF DiskSound, ChainsApart
    <3> QED BY <3>1, <3>2
  <2> QED BY <2>2, <2>3, <2>4
<1>8. DirsSound(dk2, f)
  <2>1. SUFFICES ASSUME NEW c \in DataCluster, ValidDir(dk2[c].tab)
                 PROVE  /\ f[c] = FAT32_FAT_END_OF_FILE
                        /\ \A x \in DataCluster, y \in Row :
                              LiveIn(dk2, x, y) /\ ~ dk2[x].tab[y].sub
                                 => c \notin ChainSet(f, dk2[x].tab[y].cluster)
    BY DEF DirsSound
  <2>2. ValidDir(dk[c].tab) /\ c \in Held(dk, f)
    BY <1>1, <2>1 DEF Held
  <2>3. f[c] = FAT32_FAT_END_OF_FILE
    BY <2>2 DEF DiskSound, DirsSound
  <2>4. ASSUME NEW x \in DataCluster, NEW y \in Row, LiveIn(dk2, x, y), ~ dk2[x].tab[y].sub
        PROVE  c \notin ChainSet(f, dk2[x].tab[y].cluster)
    <3>1. CASE x = d /\ y = r
      BY <1>2, <2>2, <3>1
    <3>2. CASE ~ (x = d /\ y = r)
      <4>1. dk2[x].tab[y] = dk[x].tab[y] /\ LiveIn(dk, x, y)
        BY <1>3, <2>4, <3>2
      <4> QED BY <2>2, <2>4, <4>1 DEF DiskSound, DirsSound
    <3> QED BY <3>1, <3>2
  <2> QED BY <2>3, <2>4
<1>9. HeadersSound(dk2)
  <2>1. SUFFICES ASSUME NEW x \in DataCluster, NEW y \in Row,
                        LiveIn(dk2, x, y), dk2[x].tab[y].sub,
                        NEW c, c = dk2[x].tab[y].cluster, ValidDir(dk2[c].tab)
                 PROVE  Header(dk2, x, c, dk2[x].tab[y].name)
    BY HeadersIf
  <2>h. HeadersSound(dk)
    BY DEF DiskSound
  <2>2. c \in DataCluster
    BY <1>6, <2>1 DEF ChainsSound, FileCluster
  <2>3. ValidDir(dk[c].tab) /\ dk2[c].tab[0] = dk[c].tab[0] /\ dk2[c].tab[1] = dk[c].tab[1]
    BY <1>1, <2>1, <2>2
  <2>4. CASE x = d /\ y = r
    <3>1. c \in Held(dk, f) /\ c \in ChainSet(f, e.cluster)
      BY <1>2, <2>1, <2>2, <2>3, <2>4, ChainStart DEF Held
    <3> QED BY <3>1
  <2>5. CASE ~ (x = d /\ y = r)
    <3>1. dk2[x].tab[y] = dk[x].tab[y] /\ LiveIn(dk, x, y)
      BY <1>3, <2>1, <2>5
    <3>2. c = dk[x].tab[y].cluster /\ dk[x].tab[y].sub
      BY <2>1, <3>1
    <3>3. Header(dk, x, c, dk[x].tab[y].name)
      BY <2>3, <2>h, <3>1, <3>2, HeaderOf
    <3> QED BY <2>3, <3>1, <3>3 DEF Header
  <2> QED BY <2>4, <2>5
<1>10. UseIsNamed(dk2)
  BY <1>2, <1>3 DEF DiskSound, UseIsNamed
<1>11. Held(dk2, f) = Held(dk, f) \cup ChainSet(f, e.cluster)
  <2>1. Held(dk, f) \subseteq Held(dk2, f)
    BY <1>1, <1>2, <1>3 DEF Held
  <2>2. ChainSet(f, e.cluster) \subseteq Held(dk2, f)
    BY <1>2 DEF Held, ChainSet
  <2>3. ASSUME NEW x \in Held(dk2, f), x \notin ChainSet(f, e.cluster) PROVE x \in Held(dk, f)
    BY <1>1, <1>2, <1>3, <2>3 DEF Held
  <2> QED BY <2>1, <2>2, <2>3
<1> QED BY <1>6, <1>7, <1>8, <1>9, <1>10, <1>11 DEF DiskSound

\* The entry in row r of directory d is taken out: nothing names its chain now.
LEMMA EntryRemoved ==
    ASSUME NEW dk, NEW dk2, NEW f, DiskSound(dk, f), NEW d, NEW r, NEW e,
           RowSet(dk, dk2, d, r, e), dk[d].tab[r].used,
           ~ e.used, e.name = ZeroName
    PROVE  /\ DiskSound(dk2, f)
           /\ Held(dk2, f) \subseteq Held(dk, f)
           /\ \A x \in DataCluster, y \in Row : LiveIn(dk2, x, y) =>
                 ChainSet(f, dk2[x].tab[y].cluster) \cap ChainSet(f, dk[d].tab[r].cluster) = {}
           /\ ~ dk[d].tab[r].sub => ChainSet(f, dk[d].tab[r].cluster) \cap Held(dk2, f) = {}
<1> USE DEF RowSet
<1>0. LiveIn(dk, d, r)
  BY DEF LiveIn
<1>1. \A x \in DataCluster : /\ ValidDir(dk2[x].tab) <=> ValidDir(dk[x].tab)
                             /\ dk2[x].tab[0] = dk[x].tab[0] /\ dk2[x].tab[1] = dk[x].tab[1]
  BY Constants DEF ValidDir, LiveIn
<1>2. \A x \in DataCluster, y \in Row : LiveIn(dk2, x, y) =>
         ~ (x = d /\ y = r) /\ LiveIn(dk, x, y) /\ dk2[x].tab[y] = dk[x].tab[y]
  BY <1>1 DEF LiveIn
<1>3. ChainsSound(dk2, f)
  <2>1. SUFFICES ASSUME NEW x \in DataCluster, NEW y \in Row, LiveIn(dk2, x, y)
                 PROVE  /\ dk2[x].tab[y].cluster \in FileCluster
                        /\ ChainEnds(f, dk2[x].tab[y].cluster)
                        /\ dk2[x].tab[y].sub => f[dk2[x].tab[y].cluster] = FAT32_FAT_END_OF_FILE
                        /\ ROOT_CLUSTER_NUMBER \notin ChainSet(f, dk2[x].tab[y].cluster)
    BY DEF ChainsSound
  <2> QED BY <1>2, <2>1 DEF DiskSound, ChainsSound
<1>4. ChainsApart(dk2, f)
  <2>1. SUFFICES ASSUME NEW d1 \in DataCluster, NEW d2 \in DataCluster,
                        NEW r1 \in Row, NEW r2 \in Row,
                        LiveIn(dk2, d1, r1), LiveIn(dk2, d2, r2), ~ (d1 = d2 /\ r1 = r2)
                 PROVE  ChainSet(f, dk2[d1].tab[r1].cluster)
                           \cap ChainSet(f, dk2[d2].tab[r2].cluster) = {}
    BY DEF ChainsApart
  <2>2. /\ dk2[d1].tab[r1] = dk[d1].tab[r1] /\ LiveIn(dk, d1, r1)
        /\ dk2[d2].tab[r2] = dk[d2].tab[r2] /\ LiveIn(dk, d2, r2)
    BY <1>2, <2>1
  <2>3. ChainSet(f, dk[d1].tab[r1].cluster) \cap ChainSet(f, dk[d2].tab[r2].cluster) = {}
    BY <2>1, <2>2 DEF DiskSound, ChainsApart
  <2> QED BY <2>2, <2>3
<1>5. DirsSound(dk2, f)
  BY <1>1, <1>2 DEF DiskSound, DirsSound
<1>6. HeadersSound(dk2)
  <2>1. SUFFICES ASSUME NEW x \in DataCluster, NEW y \in Row,
                        LiveIn(dk2, x, y), dk2[x].tab[y].sub,
                        NEW c, c = dk2[x].tab[y].cluster, ValidDir(dk2[c].tab)
                 PROVE  Header(dk2, x, c, dk2[x].tab[y].name)
    BY HeadersIf
  <2>h. HeadersSound(dk)
    BY DEF DiskSound
  <2>2. c \in DataCluster
    BY <1>3, <2>1 DEF ChainsSound, FileCluster
  <2>3. ValidDir(dk[c].tab) /\ dk2[c].tab[0] = dk[c].tab[0] /\ dk2[c].tab[1] = dk[c].tab[1]
    BY <1>1, <2>1, <2>2
  <2>4. dk2[x].tab[y] = dk[x].tab[y] /\ LiveIn(dk, x, y)
    BY <1>2, <2>1
  <2>5. c = dk[x].tab[y].cluster /\ dk[x].tab[y].sub
    BY <2>1, <2>4
  <2>6. Header(dk, x, c, dk[x].tab[y].name)
    BY <2>3, <2>4, <2>5, <2>h, HeaderOf
  <2> QED BY <2>3, <2>4, <2>6 DEF Header
<1>7. UseIsNamed(dk2)
  BY DEF DiskSound, UseIsNamed
<1>8. Held(dk2, f) \subseteq Held(dk, f)
  BY <1>1, <1>2 DEF Held
<1>9. ASSUME NEW x \in DataCluster, NEW y \in Row, LiveIn(dk2, x, y)
      PROVE  ChainSet(f, dk2[x].tab[y].cluster) \cap ChainSet(f, dk[d].tab[r].cluster) = {}
  <2>1. /\ dk2[x].tab[y] = dk[x].tab[y] /\ LiveIn(dk, x, y) /\ ~ (x = d /\ y = r)
    BY <1>2, <1>9
  <2>2. ChainSet(f, dk[x].tab[y].cluster) \cap ChainSet(f, dk[d].tab[r].cluster) = {}
    BY <1>0, <2>1 DEF DiskSound, ChainsApart
  <2> QED BY <2>1, <2>2
<1>10. ASSUME ~ dk[d].tab[r].sub, NEW x \in Held(dk2, f)
       PROVE  x \notin ChainSet(f, dk[d].tab[r].cluster)
  <2>1. CASE ValidDir(dk2[x].tab)
    BY <1>0, <1>1, <1>10, <2>1 DEF DiskSound, DirsSound, Held
  <2>2. CASE ~ ValidDir(dk2[x].tab)
    BY <1>9, <2>2 DEF Held
  <2> QED BY <2>1, <2>2
<1>11. ~ dk[d].tab[r].sub => ChainSet(f, dk[d].tab[r].cluster) \cap Held(dk2, f) = {}
  BY <1>10
<1>12. DiskSound(dk2, f)
  BY <1>3, <1>4, <1>5, <1>6, <1>7 DEF DiskSound
<1> QED BY <1>8, <1>9, <1>11, <1>12

=============================================================================
