------------------------------- MODULE Shell -------------------------------
(***************************************************************************)
(* Shells over the file system: user_mode/user-shell.c and the commands     *)
(* that keep or change state.  Each system call is an action that takes the *)
(* first step of the driver (Fat32); the driver then runs to the end of the *)
(* call, and between two calls any shell may be the next to make one.  What *)
(* a shell computes in its own memory belongs to the call before it.        *)
(* Commands look no further than their own copy of the directory            *)
(* (current_dir) and do not look at the codes that calls return.            *)
(* Before the shells start, the inserter puts files on the disk.            *)
(***************************************************************************)
EXTENDS Fat32, Sequences, SequencesExt

CONSTANTS
    Shells,     \* the shells that run
    Unread,     \* what a buffer holds that nothing was read into: zeros, or for
                \* a source without a size what was on the stack
    MaxPath     \* the length of the path array

ASSUME ShellAssumption ==
    /\ Unread \in Payloads
    /\ MaxPath \in Nat /\ MaxPath > 0
    /\ {0, ClusterSize} \subseteq Sizes

VARIABLE shell  \* the memory of each shell, see State

shellVars == <<vars, shell>>

\* The mv or cp under way: what is read, where and as what it is written, the
\* contents of the buffer.  sure and was are history: whether a mv that begins can
\* move its file, see Sure, and what that file holds.
Job == [cmd : {"mv", "cp", "none"}, src : AllNames, from : Cluster, to : Cluster,
        as : AllNames, payload : Payloads, sure : BOOLEAN, was : Payloads]
NoJob == [cmd |-> "none", src |-> ZeroName, from |-> 0, to |-> 0, as |-> ZeroName,
          payload |-> Unread, sure |-> FALSE, was |-> Unread]

\* dir is current_dir.dir_table_buf and path current_working_directory.  stale
\* and strayed are history: whether a cp has written since dir was loaded, and
\* whether a cd has been given the name of the directory it was made in.
State == [st : {"start", "prompt", "refresh", "delete", "write", "overrun"},
          dir : Table, path : Seq(AllNames), job : Job,
          stale : BOOLEAN, strayed : BOOLEAN]

ShellInit ==
    /\ Init
    /\ shell = [s \in Shells |->
                  [st |-> "start", dir |-> ZeroTable, path |-> << >>, job |-> NoJob,
                   stale |-> FALSE, strayed |-> FALSE]]

-----------------------------------------------------------------------------
(* The system calls; a parent that is no data cluster holds no table *)

sys_read(d, n) ==
    IF d \in DataCluster THEN Read(d, n, ClusterSize) \/ ReadRunaway(d, n, ClusterSize)
    ELSE pc = "idle" /\ UNCHANGED vars

sys_read_directory(d, n) ==
    IF d \in DataCluster THEN ReadDirectory(d, n)
    ELSE pc = "idle" /\ UNCHANGED vars

sys_write(d, n, size, p) ==
    IF d \in DataCluster
    THEN \/ WriteReject(d, n)
         \/ WriteOverrun(d, n)
         \/ IF size = 0 THEN MkdirFat(d, n) ELSE WriteFirst(d, n, size, p)
    ELSE pc = "idle" /\ UNCHANGED vars

sys_delete(d, n) ==
    IF d \in DataCluster THEN DeleteReject(d, n) \/ RmdirParent(d, n) \/ RmRow(d, n)
    ELSE pc = "idle" /\ UNCHANGED vars

\* What read_directory leaves in a buffer that was cleared before.
DirectoryRead(d, n) ==
    IF d \in DataCluster /\ ReadDirectoryCode(disk[d].tab, n) = 0
    THEN disk[disk[d].tab[ReadRow(disk[d].tab, n)].cluster].tab
    ELSE ZeroTable

\* Fault: the buffer is filled although read has refused.
FileRead_Unchecked(d, n) ==
    IF d \in DataCluster /\ MatchFrom(disk[d].tab, n, 0) # {}
    THEN disk[disk[d].tab[ReadRow(disk[d].tab, n)].cluster].data.p
    ELSE Unread

\* What read leaves in a buffer the size of a cluster.
FileRead(d, n) ==
    IF d \in DataCluster /\ ReadCode(disk[d].tab, n, ClusterSize) = 0
    THEN disk[disk[d].tab[ReadRow(disk[d].tab, n)].cluster].data.p
    ELSE Unread

-----------------------------------------------------------------------------
(* The inserter and the commands *)

\* The inserter, on the host, writes a file into the root; one that is empty or
\* that it cannot open becomes a folder.
Insert(n, size, p) ==
    /\ \A s \in Shells : shell[s].st = "start"
    /\ sys_write(ROOT_CLUSTER_NUMBER, n, size, p)
    /\ UNCHANGED shell

get_cluster_number(s) == shell[s].dir[0].cluster

get_entry_row(s, n) == MatchFrom(shell[s].dir, n, 2)

\* main begins with cd_root.
cd_root(s) ==
    /\ shell[s].st = "start"
    /\ sys_read_directory(ROOT_CLUSTER_NUMBER, RootName)
    /\ shell' = [shell EXCEPT
          ![s].st = "prompt",
          ![s].dir = DirectoryRead(ROOT_CLUSTER_NUMBER, RootName),
          ![s].path = Append(@, RootName)]

SubRows(t) == {r \in Row : t[r].used /\ t[r].sub}

\* Fault: cd .. leaves the path as it is.
PathAfter_NoPop(path, n, t) ==
    IF n # DotDot /\ \E r \in SubRows(t) : t[r].name # n THEN Append(path, n)
    ELSE path

\* The path after cd n has loaded table t: .. removes the last name, unless it
\* is the root; another name is added if t has a folder of a different name,
\* which any table with a .. has.
PathAfter(path, n, t) ==
    IF n = DotDot
    THEN IF Last(path) = RootName THEN path ELSE Front(path)
    ELSE IF \E r \in SubRows(t) : t[r].name # n THEN Append(path, n) ELSE path

\* cd to a folder the copy of the directory lists, rows 0 and 1 included.  A path
\* that is full is written past its end.
cd(s, n) ==
    LET d == get_cluster_number(s)
        t == DirectoryRead(d, n)
        path == PathAfter(shell[s].path, n, t)
        full == Len(path) > MaxPath
    IN  /\ shell[s].st = "prompt"
        /\ \E r \in SubRows(shell[s].dir) : shell[s].dir[r].name = n
        /\ sys_read_directory(d, n)
        /\ shell' = [shell EXCEPT
              ![s].st = IF full THEN "overrun" ELSE @,
              ![s].path = IF full THEN @ ELSE path,
              ![s].dir = t,
              ![s].stale = FALSE,
              ![s].strayed = @ \/ n = shell[s].dir[0].name]

\* The directory is read again, by the name and the number in row 0 of the copy.
cd_refresh(s) ==
    LET d == get_cluster_number(s)
        n == shell[s].dir[0].name
    IN  /\ shell[s].st = "refresh"
        /\ sys_read_directory(d, n)
        /\ shell' = [shell EXCEPT ![s].st = "prompt", ![s].dir = DirectoryRead(d, n),
                                  ![s].job = NoJob, ![s].stale = FALSE]

mkdir(s, n) ==
    /\ shell[s].st = "prompt"
    /\ sys_write(get_cluster_number(s), n, 0, NoPayload)
    /\ shell' = [shell EXCEPT ![s].st = "refresh"]

\* Fault: the directory is not read again.
rm_NoRefresh(s, n) ==
    /\ shell[s].st = "prompt"
    /\ sys_delete(get_cluster_number(s), n)
    /\ UNCHANGED shell

rm(s, n) ==
    /\ shell[s].st = "prompt"
    /\ sys_delete(get_cluster_number(s), n)
    /\ shell' = [shell EXCEPT ![s].st = "refresh"]

\* Row r of directory d is a file of name n and of at most a cluster, which neither
\* row 0 nor row 1 hides from read: it does not have the name of its own folder.
PlainFile(d, n, r) ==
    /\ Live(d, r)
    /\ EntryOf(d, r).name = n
    /\ ~ EntryOf(d, r).sub
    /\ EntryOf(d, r).size <= ClusterSize
    /\ n \notin {disk[d].tab[0].name, disk[d].tab[1].name}

\* A mv that has a file to move and where to: the destination is a directory with
\* room that does not have the name.
Sure(d, n, to, as) ==
    /\ {d, to} \subseteq DataCluster
    /\ \E r \in Row : PlainFile(d, n, r)
    /\ ValidDir(disk[to].tab)
    /\ MatchFrom(disk[to].tab, as, 2) = {}
    /\ to = d \/ FreeRow(disk[to].tab) # {}

\* What the file holds.
Contents(d, n) ==
    disk[EntryOf(d, CHOOSE r \in Row : PlainFile(d, n, r)).cluster].data.p

\* cluster_needed: by the size in the copy of the directory; the row ahead of the
\* table, which stands for a name that is not there, is zero.
cluster_needed(s, n) ==
    LET rows == get_entry_row(s, n)
    IN  IF rows = {} THEN 0
        ELSE Needed(shell[s].dir[CHOOSE r \in rows : IsFirst(rows, r)].size)

\* A command writes behind the buffer on its stack.  cat and cp have one cluster and
\* clear as many as are needed; mv has as many, and read fills at least one.
BufferOverrun(s, cmd, n) ==
    IF cmd = "mv"
    THEN /\ cluster_needed(s, n) = 0 /\ get_cluster_number(s) \in DataCluster
         /\ ReadCode(disk[get_cluster_number(s)].tab, n, ClusterSize) = 0
    ELSE cluster_needed(s, n) > 1

\* cat reads the file, which loads the FAT again, and shows it.
cat(s, n) ==
    /\ shell[s].st = "prompt"
    /\ sys_read(get_cluster_number(s), n)
    /\ shell' = [shell EXCEPT
          ![s].st = IF BufferOverrun(s, "cat", n) THEN "overrun" ELSE @]

\* The first call of mv n1 n2 and of cp n1 n2 reads the file; n2 is a new name in
\* the directory, or a folder of it.
ReadSource(s, cmd, n1, n2) ==
    LET d == get_cluster_number(s)
        rows == get_entry_row(s, n2)
        first == shell[s].dir[CHOOSE r \in rows : IsFirst(rows, r)]
        to == IF rows = {} THEN d ELSE first.cluster
        as == IF rows = {} THEN n2 ELSE n1
        sure == cmd = "mv" /\ Sure(d, n1, to, as)
    IN  /\ shell[s].st = "prompt"
        /\ rows # {} => first.sub
        /\ sys_read(d, n1)
        /\ shell' = [shell EXCEPT
              ![s].st = IF BufferOverrun(s, cmd, n1) THEN "overrun"
                        ELSE IF cmd = "mv" THEN "delete" ELSE "write",
              ![s].job = [cmd |-> cmd, src |-> n1, from |-> d, to |-> to, as |-> as,
                          payload |-> FileRead(d, n1), sure |-> sure,
                          was |-> IF sure THEN Contents(d, n1) ELSE Unread]]

\* mv to the name of a file does nothing but refresh.
mv_nothing(s, n2) ==
    LET rows == get_entry_row(s, n2)
    IN  /\ pc = "idle"
        /\ shell[s].st = "prompt"
        /\ rows # {}
        /\ ~ shell[s].dir[CHOOSE r \in rows : IsFirst(rows, r)].sub
        /\ shell' = [shell EXCEPT ![s].st = "refresh"]
        /\ UNCHANGED vars

\* mv deletes the source, whether or not it could be read.
DeleteSource(s) ==
    /\ shell[s].st = "delete"
    /\ sys_delete(shell[s].job.from, shell[s].job.src)
    /\ shell' = [shell EXCEPT ![s].st = "write"]

\* Fault: the file is written under its name to the directory it came from.
WriteTarget_Parent(s) ==
    /\ shell[s].st = "write"
    /\ sys_write(shell[s].job.from, shell[s].job.as, ClusterSize, shell[s].job.payload)
    /\ shell' = [shell EXCEPT
          ![s].st = IF shell[s].job.cmd = "mv" THEN "refresh" ELSE "prompt",
          ![s].job = IF shell[s].job.cmd = "mv" THEN @ ELSE NoJob,
          ![s].stale = TRUE]

\* The copy is written; after cp the directory is not read again.
WriteTarget(s) ==
    /\ shell[s].st = "write"
    /\ sys_write(shell[s].job.to, shell[s].job.as, ClusterSize, shell[s].job.payload)
    /\ shell' = [shell EXCEPT
          ![s].st = IF shell[s].job.cmd = "mv" THEN "refresh" ELSE "prompt",
          ![s].job = IF shell[s].job.cmd = "mv" THEN @ ELSE NoJob,
          ![s].stale = TRUE]

-----------------------------------------------------------------------------
(* find, for a shell that is alone: the calls it makes change nothing *)

NotFound == <<ZeroName>>

\* A folder was put behind the last place of the path, over its length.
PathOverrun == <<ZeroName, ZeroName>>

\* Fault: the answer lacks the folder that was searched.
Scan_ParentPath(t, n, below) ==
    LET found == {r \in Row : r >= 2 /\ t[r].used /\ (t[r].name = n \/ below[r] # NotFound)}
        first == CHOOSE r \in found : IsFirst(found, r)
    IN  IF found = {} THEN NotFound
        ELSE IF t[first].name = n THEN << >> ELSE below[first]

\* The rows of table t in order, a folder with all that is below it when its turn
\* comes: the folders from t to the first entry of name n.
Scan(t, n, below) ==
    LET found == {r \in Row : r >= 2 /\ t[r].used /\ (t[r].name = n \/ below[r] # NotFound)}
        first == CHOOSE r \in found : IsFirst(found, r)
    IN  IF found = {} THEN NotFound
        ELSE IF t[first].name = n THEN << >>
        ELSE IF below[first] = PathOverrun THEN PathOverrun
        ELSE <<t[first].name>> \o below[first]

\* find_recursive on table t, with k places left in the array of its path.  A folder
\* is read by its own name from its own cluster and takes a place.
find_recursive[k \in 0 .. MaxPath] ==
    [n \in Names |-> [t \in Table |-> Scan(t, n, [r \in Row |->
        IF r < 2 \/ r \notin SubRows(t) THEN NotFound
        ELSE IF k = 0 THEN PathOverrun
        ELSE find_recursive[k - 1][n][DirectoryRead(t[r].cluster, t[r].name)]])]]

\* The places find starts with, behind the path of the prompt.
PlacesLeft(s) == MaxPath - Len(shell[s].path)

\* The path find shows, below the one it starts with; NotFound shows that one too.
find(s, n) == find_recursive[PlacesLeft(s)][n][shell[s].dir]

\* The path array or a buffer has been written past its end.
Overrun(s) == shell[s].st = "overrun" /\ UNCHANGED shellVars

Command(s) ==
    \/ cd_root(s)
    \/ \E n \in AllNames : cd(s, n)
    \/ cd_refresh(s)
    \/ \E n \in Names : mkdir(s, n) \/ rm(s, n) \/ mv_nothing(s, n) \/ cat(s, n)
    \/ \E n1, n2 \in Names, cmd \in {"mv", "cp"} : ReadSource(s, cmd, n1, n2)
    \/ DeleteSource(s)
    \/ WriteTarget(s)
    \/ Overrun(s)

ShellNext ==
    \/ (Boot \/ FormatSignature \/ Continue \/ Wild) /\ UNCHANGED shell
    \/ \E n \in Names, size \in Sizes, p \in Payloads \ {Unread} : Insert(n, size, p)
    \/ \E s \in Shells : Command(s)

ShellSpec == ShellInit /\ [][ShellNext]_shellVars

-----------------------------------------------------------------------------
(* Properties *)

\* The memory of a shell has its type; the buffer of mv and cp holds the contents
\* of a file or nothing that was read, never a table.
ShellTypeOK == shell \in [Shells -> State]

AtPrompt(s) == pc = "idle" /\ shell[s].st = "prompt"

\* A shell that is alone sees the disk as it is: at the prompt its copy of the
\* directory, from which it takes the number of every request and what ls
\* shows, is the table of a directory of the disk, after any sequence of
\* commands, but for a cp since the last reload.
CopyIsCurrent ==
    \A s \in Shells : AtPrompt(s) =>
        /\ get_cluster_number(s) \in DataCluster
        /\ ValidDir(disk[get_cluster_number(s)].tab)
        /\ shell[s].stale \/ shell[s].dir = disk[get_cluster_number(s)].tab

\* The directory a path leads to from directory d on the disk, 0 if there is none.
Resolve(d, path) ==
    LET at[i \in 0 .. Len(path)] ==
            IF i = 0 THEN d
            ELSE LET rows == {r \in Row : /\ Live(at[i - 1], r)
                                          /\ EntryOf(at[i - 1], r).name = path[i]}
                 IN  IF rows = {} THEN 0
                     ELSE EntryOf(at[i - 1], CHOOSE r \in rows : TRUE).cluster
    IN  at[Len(path)]

\* The path at the prompt of a shell that is alone leads to the directory its
\* commands work in, as long as no cd has named the directory it was made in:
\* such a cd stays where it is and lengthens the path.
PathIsCurrent ==
    \A s \in Shells :
        AtPrompt(s) /\ ~ shell[s].strayed =>
            Resolve(ROOT_CLUSTER_NUMBER, Tail(shell[s].path)) = get_cluster_number(s)

\* mv moves: with nobody else at work, a file of at most a cluster that read can
\* see (no file with the name of its own folder), and whose new place is free, is
\* there when mv is done, with what it held when mv began, and is no longer in the
\* old one, although it is deleted before it is written.
MvMoves ==
    \A s \in Shells :
        LET j == shell[s].job IN
        pc = "idle" /\ shell[s].st = "refresh" /\ j.sure =>
            /\ \E r \in Row : /\ Live(j.to, r)
                              /\ EntryOf(j.to, r).name = j.as
                              /\ disk[EntryOf(j.to, r).cluster].data.p = j.was
            /\ ~ \E r \in Row : Live(j.from, r) /\ EntryOf(j.from, r).name = j.src

\* Directory d has an entry of name n.
Holds(d, n) == \E r \in Row : Live(d, r) /\ EntryOf(d, r).name = n

\* The directories below d on the disk, d included.
Below(d) ==
    LET b[k \in 0 .. NCluster] ==
            IF k = 0 THEN {d}
            ELSE LET above == b[k - 1]
                 IN  above \cup {EntryOf(x[1], x[2]).cluster :
                        x \in {y \in above \X Row :
                                 Live(y[1], y[2]) /\ EntryOf(y[1], y[2]).sub}}
    IN  b[NCluster]

\* find finds: the path it shows leads to a directory that has the name, it comes
\* back without one only if the name is nowhere below the current directory, and it
\* runs past the array of the path only if folders lie deeper than there are places.
FindFinds ==
    \A s \in Shells, n \in Names : AtPrompt(s) /\ ~ shell[s].stale =>
        LET d == get_cluster_number(s)
            path == find(s, n)
        IN  CASE path = NotFound -> \A x \in Below(d) : ~ Holds(x, n)
              [] path = PathOverrun ->
                    \E q \in [1 .. PlacesLeft(s) + 1 -> AllNames] :
                        Resolve(d, q) \in DataCluster /\ ValidDir(disk[Resolve(d, q)].tab)
              [] OTHER -> Holds(Resolve(d, path), n)
=============================================================================
