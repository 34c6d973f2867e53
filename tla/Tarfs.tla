------------------------------- MODULE Tarfs -------------------------------
(***************************************************************************)
(* The file system of the initial ramdisk: fs_mount of                     *)
(* kernel/src/all/kernel/vfs/tarfs.c turns a tar archive into a tree of    *)
(* vnodes, header by header, and node_lookup finds names in it.            *)
(*                                                                         *)
(* An archive is the sequence of its headers; a path is the sequence of    *)
(* its names (the slash at the end of a directory is gone).  The vnode     *)
(* that the i-th header makes is i, and the root is 0, so the type and the *)
(* size of a vnode are those of its header.  Memory does not run out here: *)
(* malloc panics then, it does not return NULL (Heap).                     *)
(***************************************************************************)
EXTENDS Integers, Sequences, FiniteSets, FiniteSetsExt

CONSTANTS
  Archives,   \* the archives a boot loader may hand over
  NULL

ProperPrefix(p, q) == Len(p) < Len(q) /\ SubSeq(q, 1, Len(p)) = p

REGTYPE == "0"
DIRTYPE == "5"

(* No file is the parent of another path: add_to_dir does not look at the  *)
(* type of the parent, and takes the data of a file for an entry_list.     *)
ASSUME ArchivesAssumption ==
  \A a \in Archives :
    /\ Len(a) \in Nat /\ DOMAIN a = 1..Len(a)
    /\ \A i, j \in DOMAIN a :
         /\ a[i].path \in Seq(STRING) /\ a[i].path # <<>>
         /\ a[i].type \in STRING /\ a[i].size \in Nat /\ a[i].valid \in BOOLEAN
         /\ a[i].type = REGTYPE => ~ProperPrefix(a[i].path, a[j].path)

\* The address of a vnode is never NULL.
ASSUME NullAssumption == NULL \notin Nat

VARIABLES
  archive,
  header,     \* index of the header fs_mount is at
  entries,    \* entry_list of every vnode that is a directory
  phase       \* "mount", "run", or why the kernel panicked

tarfs == <<archive, header, entries, phase>>

root == 0

Type(vp) == IF vp = root THEN DIRTYPE ELSE archive[vp].type
Size(vp) == archive[vp].size

MountInit ==
  /\ archive \in Archives
  /\ header = 1
  /\ entries = [vp \in 0..Len(archive) |-> <<>>]
  /\ phase = "mount"

-----------------------------------------------------------------------------
(* node_lookup: the first entry of that name.  Bad... are the mistakes the *)
(* properties are tried on.                                                *)
node_lookup(vp, nm) ==
  LET list == entries[vp]
      found == {i \in DOMAIN list : list[i].name = nm}
  IN IF vp = NULL THEN NULL
     ELSE IF Type(vp) # DIRTYPE \/ found = {} THEN NULL
     ELSE list[Min(found)].vnode

\* node_lookup along a path, until it fails.
Walk(names) ==
  LET at[i \in 0..Len(names)] ==
        IF i = 0 THEN root ELSE node_lookup(at[i - 1], names[i])
  IN at[Len(names)]

\* lookup_parent: all the names but the last.
lookup_parent(path) == Walk(SubSeq(path, 1, Len(path) - 1))

BadListAdd(list, new) == Append(list, new)  \* at the end of the list

list_add(list, new) == <<new>> \o list

add_to_dir(parent, name, child) ==
  [entries EXCEPT ![parent] = list_add(@, [name |-> name, vnode |-> child])]

\* create_file copies the content into malloc(size): NULL for an empty file.
Creatable(h) == h.type = DIRTYPE \/ (h.type = REGTYPE /\ h.size # 0)

\* An iteration of the loop of fs_mount.
MountHeader ==
  LET h == archive[header]
      parent == lookup_parent(h.path)
  IN /\ phase = "mount"
     /\ header <= Len(archive)
     /\ h.valid
     /\ parent # NULL
     /\ Creatable(h)
     /\ entries' = add_to_dir(parent, h.path[Len(h.path)], header)
     /\ header' = header + 1
     /\ UNCHANGED <<archive, phase>>

\* Its error returns; vfs_create_initial_fs panics.
MountFails ==
  /\ phase = "mount"
  /\ header <= Len(archive)
  /\ LET h == archive[header] IN
       ~h.valid \/ lookup_parent(h.path) = NULL \/ ~Creatable(h)
  /\ phase' = "panic_mount"
  /\ UNCHANGED <<archive, header, entries>>

\* The empty header: vfs_create_initial_fs sets the root and cwd of the pcb.
MountDone ==
  /\ phase = "mount"
  /\ header > Len(archive)
  /\ phase' = "run"
  /\ UNCHANGED <<archive, header, entries>>

fs_mount == MountHeader \/ MountFails \/ MountDone

-----------------------------------------------------------------------------
(* Properties.                                                             *)

Loaded == 1..(header - 1)

(* The headers that give path its meaning: none of the directories above   *)
(* was replaced by a later header.                                         *)
Visible(path) ==
  {i \in Loaded : /\ archive[i].path = path
                  /\ \A j \in Loaded : j > i => ~ProperPrefix(archive[j].path, path)}

(* The tree says what the archive says: a path leads to the last header    *)
(* that has it, as tar extracts it, unless a later header replaced a       *)
(* directory on the way; and nothing else is found.                        *)
LookupFindsLast ==
  \A i \in DOMAIN archive :
    LET path == archive[i].path IN
    Walk(path) = IF Visible(path) = {} THEN NULL ELSE Max(Visible(path))

=============================================================================
