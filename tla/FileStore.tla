----------------------------- MODULE FileStore -----------------------------
(***************************************************************************)
(* What the file system promises: a set of directories, each a map from     *)
(* names to files and folders.  A file appears whole, in one step, with the *)
(* contents of the request that is pending, stays exactly as it is whatever *)
(* else is created, removed or interrupted by a power failure, and          *)
(* disappears only by being removed.  Directories are known to their users  *)
(* by a handle (the parent_cluster_number of the requests in fat32.h), and  *)
(* a handle is given away again only after its folder has been removed.     *)
(***************************************************************************)
CONSTANTS
    Handle,     \* directory handles
    Root,       \* the handle of the root directory
    Name,       \* names of files and folders
    Content     \* contents of files

VARIABLES
    dirs,       \* the directories requests may name as their parent
    items,      \* what each directory contains
    pending     \* the file being written, if any

vars == <<dirs, items, pending>>

Nothing == [kind |-> "nothing"]
File(c) == [kind |-> "file", content |-> c]
Folder(h) == [kind |-> "folder", handle |-> h]
None == [kind |-> "none"]
Writing(d, n, c) == [kind |-> "writing", dir |-> d, name |-> n, content |-> c]

Empty(d) == \A n \in Name : items[d][n] = Nothing

Named(h) == \E d \in dirs, n \in Name : items[d][n] = Folder(h)

Init ==
    /\ dirs = {}
    /\ items = [d \in Handle |-> [n \in Name |-> Nothing]]
    /\ pending = None

Format ==
    /\ dirs = {}
    /\ dirs' = {Root}
    /\ UNCHANGED <<items, pending>>

BeginFile(d, n, c) ==
    /\ pending = None
    /\ d \in dirs
    /\ pending' = Writing(d, n, c)
    /\ items[d][n] = Nothing
    /\ UNCHANGED <<dirs, items>>

CommitFile ==
    /\ pending # None
    /\ items' = [items EXCEPT ![pending.dir][pending.name] = File(pending.content)]
    /\ pending' = None
    /\ UNCHANGED dirs

AbandonFile ==
    /\ pending # None
    /\ pending' = None
    /\ UNCHANGED <<dirs, items>>

\* A new folder is named by its parent first and can be used once it is open.
AddFolder(d, n, h) ==
    /\ d \in dirs
    /\ h \notin dirs
    /\ items[d][n] = Nothing
    /\ items' = [items EXCEPT ![d][n] = Folder(h)]
    /\ ~ Named(h)
    /\ UNCHANGED <<dirs, pending>>

OpenFolder(h) ==
    /\ h \notin dirs
    /\ dirs' = dirs \cup {h}
    /\ Named(h)
    /\ UNCHANGED <<items, pending>>

RemoveFile(d, n) ==
    /\ \E c \in Content : items[d][n] = File(c)
    /\ items' = [items EXCEPT ![d][n] = Nothing]
    /\ UNCHANGED <<dirs, pending>>

\* Only an empty folder is removed; it stays usable until it is closed.
RemoveFolder(d, n) ==
    /\ \E h \in Handle : items[d][n] = Folder(h) /\ Empty(h)
    /\ items' = [items EXCEPT ![d][n] = Nothing]
    /\ UNCHANGED <<dirs, pending>>

CloseFolder(h) ==
    /\ h \in dirs \ {Root}
    /\ dirs' = dirs \ {h}
    /\ Empty(h)
    /\ ~ Named(h)
    /\ UNCHANGED <<items, pending>>

Next ==
    \/ Format
    \/ CommitFile
    \/ AbandonFile
    \/ \E d \in Handle, n \in Name :
          \/ \E c \in Content : BeginFile(d, n, c)
          \/ \E h \in Handle : AddFolder(d, n, h)
          \/ RemoveFile(d, n)
          \/ RemoveFolder(d, n)
    \/ \E h \in Handle : OpenFolder(h) \/ CloseFolder(h)

Spec == Init /\ [][Next]_vars

=============================================================================
