-------------------------------- MODULE Vfs --------------------------------
(***************************************************************************)
(* Open files: vn_open, vn_close and vn_rdwr of                            *)
(* kernel/src/all/kernel/vfs.c over the tarfs, as fopen, fclose, fgetc and *)
(* clearerr of libk call them.                                             *)
(*                                                                         *)
(* Only the first task has a vfs_info (create_new_task sets none), so the  *)
(* calls come one after the other.  A file_handle_t is a pointer that      *)
(* malloc returns; the table of the process has VFS_OPEN_FILES_LENGTH      *)
(* slots and never a second part.  A character is its offset in the file.  *)
(***************************************************************************)
EXTENDS Tarfs

CONSTANTS
  Handles,                \* the pointers malloc returns for file_handle_t
  VFS_OPEN_FILES_LENGTH,
  Word                    \* size_t is modulo Word (2^32)

ASSUME HandlesAssumption ==
  /\ NULL \notin Handles
  /\ VFS_OPEN_FILES_LENGTH \in Nat
  /\ Word \in Nat \ {0}
  /\ \A a \in Archives : \A i \in DOMAIN a : a[i].size < Word

VARIABLES
  handles,    \* vfs_open_files->handles
  file,       \* what the allocated handles point to
  got         \* history: what fgetc has returned from each of them

vars == <<tarfs, handles, file, got>>

Table == 1..VFS_OPEN_FILES_LENGTH

Init ==
  /\ MountInit
  /\ handles = [i \in Table |-> NULL]
  /\ file = [h \in {} |-> NULL]
  /\ got = [h \in {} |-> <<>>]

Open == DOMAIN file

-----------------------------------------------------------------------------
(* put_file_handle takes the first free slot, and panics without one.      *)

FreeSlots == {i \in Table : handles[i] = NULL}

\* vn_open, once the path has led to vp (VN_OPEN of tarfs does nothing).
OpenNode(vp) ==
  \E h \in Handles \ Open :
    /\ file' = [g \in Open \cup {h} |->
                  IF g = h THEN [node |-> vp, pos |-> 0, error |-> 0, eof |-> 0]
                           ELSE file[g]]
    /\ got' = [g \in Open \cup {h} |-> IF g = h THEN <<>> ELSE got[g]]
    /\ \/ /\ FreeSlots # {}
          /\ handles' = [handles EXCEPT ![Min(FreeSlots)] = h]
          /\ UNCHANGED tarfs
       \/ /\ FreeSlots = {}
          /\ phase' = "panic_handles"
          /\ UNCHANGED <<archive, header, entries, handles>>

(* fopen: an empty path, or one that ends with a slash, is refused; a name *)
(* that is not found is an error.  Neither changes anything.               *)
fopen(path) ==
  /\ phase = "run"
  /\ path # <<>>
  /\ Walk(path) # NULL
  /\ OpenNode(Walk(path))

\* remove_file_handle looks for the handle in the whole table.
BadRemoved(h) == handles  \* leaves the handle in its slot

Removed(h) == [i \in Table |-> IF handles[i] = h THEN NULL ELSE handles[i]]

\* fclose: vn_close takes the handle out of the table and frees it.
fclose(h) ==
  /\ phase = "run"
  /\ phase' = IF \E i \in Table : handles[i] = h THEN phase ELSE "panic_close"
  /\ handles' = Removed(h)
  /\ file' = [g \in Open \ {h} |-> file[g]]
  /\ got' = [g \in Open \ {h} |-> got[g]]
  /\ UNCHANGED <<archive, header, entries>>

\* node_rdwr: what is left of the file, at most the length asked for.
BadReadable(f, length) == length  \* reads on after the end

Readable(f, length) ==
  LET left == (Size(f.node) - f.pos) % Word IN
  IF length > left THEN left ELSE length

Advanced(pos, length) == (pos + length) % Word

(* fgetc: vn_rdwr with length 1.  On an error the position advances by the *)
(* length asked for, as nobody changed it.                                 *)
fgetc(h) ==
  LET f == file[h]
      length == IF Type(f.node) = REGTYPE THEN Readable(f, 1) ELSE 1
  IN /\ phase = "run"
     /\ file' = [file EXCEPT
                   ![h].pos = Advanced(@, length),
                   ![h].error = IF Type(f.node) = REGTYPE THEN @ ELSE -1,
                   ![h].eof = IF length = 0 THEN 1 ELSE @]
     /\ got' = IF Type(f.node) = REGTYPE /\ length = 1
                 THEN [got EXCEPT ![h] = Append(@, f.pos)] ELSE got
     /\ UNCHANGED <<tarfs, handles>>

clearerr(h) ==
  /\ phase = "run"
  /\ file' = [file EXCEPT ![h].error = 0, ![h].eof = 0]
  /\ UNCHANGED <<tarfs, handles, got>>

-----------------------------------------------------------------------------
Paths == {archive[i].path : i \in DOMAIN archive}

Mount == fs_mount /\ UNCHANGED <<handles, file, got>>

Next ==
  \/ Mount
  \/ \E path \in Paths : fopen(path)
  \/ \E h \in Open : fclose(h) \/ fgetc(h) \/ clearerr(h)

Spec == Init /\ [][Next]_vars

-----------------------------------------------------------------------------
(* Properties.                                                             *)

(* The table holds every open file once, and no file that was closed: a    *)
(* freed handle is never found in it, and vn_close always finds its own.   *)
HandlesExact ==
  /\ phase # "panic_close"
  /\ phase = "run" =>
    /\ {handles[i] : i \in Table} \ {NULL} = Open
    /\ \A i, j \in Table : handles[i] = handles[j] /\ handles[i] # NULL => i = j

(* fgetc returns the characters of a file in order, each once, and says    *)
(* end of file after the last one and not before, however often it is      *)
(* called, and whatever is opened, closed or cleared in between.           *)
ReadsInOrder ==
  \A h \in Open :
    LET f == file[h] IN
    Type(f.node) = REGTYPE =>
      /\ f.pos <= Size(f.node)
      /\ got[h] = [i \in 1..f.pos |-> i - 1]
      /\ f.eof = 1 => f.pos = Size(f.node)

=============================================================================
