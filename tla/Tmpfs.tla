------------------------------- MODULE Tmpfs --------------------------------
(***************************************************************************)
(* The in-memory filesystem of src/kernel/vfs/tmpfs.c: one directory's     *)
(* entry list and the files it names, with their length and blocks.        *)
(*                                                                         *)
(* Processes run concurrently (the kernel is preemptive and a syscall runs *)
(* in its caller's context), so an operation is split at every point where *)
(* it drops tmpfs_lock or tmpfs_page_lock: each step below is one critical  *)
(* section, or one stretch of code that takes no lock at all.              *)
(* Every section under tmpfs_lock is short and never waits on anything but  *)
(* tmpfs_lock itself, so it is one atomic step and the lock needs no       *)
(* variable.  tmpfs_page_lock is taken in tmpfs_file_getset_block and     *)
(* dropped by its caller after the memcpy from the one buf_space mapping:  *)
(* mapping a block and copying it is one atomic step too.                  *)
(*                                                                         *)
(* Byte offsets are kept: BLOCKSIZE is a small constant standing for the   *)
(* 4 KiB page so that the block arithmetic of read and write is the code's. *)
(***************************************************************************)
EXTENDS Integers, Sequences, SequencesExt

CONSTANTS
  Procs,      \* processes calling into tmpfs
  Names,      \* entry names (model values)
  BLOCKSIZE,  \* bytes per block
  MaxLen,     \* largest offset + size a write may reach
  Offsets,    \* file offsets passed to read and write
  Sizes,      \* byte counts passed to read and write
  MaxObjs,    \* bound on tmpfs_file/tmpfs_dir objects allocated in a run
  TargetLens  \* strlen of the targets symlink is given

ASSUME BLOCKSIZE \in Nat \ {0} /\ MaxLen \in Nat /\ Offsets \subseteq Nat /\ MaxObjs \in Nat /\ Sizes \subseteq Nat /\ TargetLens \subseteq Nat

Ids == 1 .. MaxObjs
Kinds == {"file", "dir", "link"}          \* TMPFS_TYPE_FILE, _DIR, _LINK
Obj == [name : Names, type : Kinds, length : Nat, blocks : Nat, pointers : Nat,
        target : Nat, freed : BOOLEAN]
NoObj == [name |-> CHOOSE n \in Names : TRUE, type |-> "file",
          length |-> 0, blocks |-> 0, pointers |-> 2, target |-> 0, freed |-> FALSE]

\* What a process is in the middle of: an insert after its name check, an
\* fnode to build after finddir's scan, the blocks a read or write still
\* has to map (each with the byte count memcpy copies from it), or a
\* directory listing: the next readdir index and the entries returned.
Idle == [op |-> "idle", name |-> NoObj.name, type |-> "file", o |-> 0, todo |-> <<>>,
         idx |-> 0, seen |-> {}]

VARIABLES
  dir,        \* d->files: object ids in list order
  obj,        \* the tmpfs_file (or tmpfs_dir) behind each id
  nextObj,    \* next id malloc hands out
  pc,         \* each process's operation in progress
  open,       \* objects each process holds an fnode of (fnode->device)
  nullBlock,  \* a memcpy was given the NULL of tmpfs_file_getset_block
  uaf,        \* a freed tmpfs_file was read or written
  relisted,   \* one listing returned the same entry twice
  dirAsFile,  \* tmpfs_file_free was handed a tmpfs_dir
  halted      \* the kernel took a page fault

vars == <<dir, obj, nextObj, pc, open, nullBlock, uaf, relisted, dirAsFile, halted>>

-----------------------------------------------------------------------------
(* Helpers                                                                 *)

\* The list position of the first entry named n, 0 when there is none:
\* the foreach ... strcmp scan shared by create, mkdir, finddir and unlink.
FirstNamed(n) == SelectInSeq(dir, LAMBDA o : obj[o].name = n)

\* The blocks read_tmpfs or write_tmpfs maps for bytes offset .. end-1,
\* each paired with the bytes its memcpy copies: the single-block case,
\* else start_block .. end_block-1 and end_block when end_size # 0.  The
\* subtractions are uint64_t: a negative result is a wrapped, huge count.
BlockPlan(offset, end) ==
  LET startBlock == offset \div BLOCKSIZE
      endBlock   == end \div BLOCKSIZE
      endSize    == end - endBlock * BLOCKSIZE
      first      == BLOCKSIZE - (offset % BLOCKSIZE)
  IN IF startBlock = endBlock
     THEN << <<startBlock, end - offset>> >>
     ELSE [i \in 1 .. (endBlock - startBlock) |->
             <<startBlock + i - 1, IF i = 1 THEN first ELSE BLOCKSIZE>>]
          \o (IF endSize # 0 THEN << <<endBlock, endSize>> >> ELSE <<>>)

\* An access to o's tmpfs_file (a memcpy from a block, a field read or
\* store): UB when the object is freed.
Touch(o) == uaf' = (uaf \/ obj[o].freed)

\* The hooks of the fnode finddir builds for each kind of entry.
\* tmpfs_from_file sets read, write, open, chmod, chown and truncate;
\* tmpfs_from_link starts from that fnode, adds readlink and clears read
\* and write (open and truncate stay); tmpfs_from_dir sets the directory
\* operations, chmod and chown, and no open.
FileHooks == {"read", "write", "open", "chmod", "chown", "truncate"}
LinkHooks == (FileHooks \ {"read", "write"}) \cup {"readlink"}
DirHooks == {"readdir", "finddir", "create", "unlink", "mkdir", "symlink", "chown", "chmod"}

\* The VFS calls a hook of an fnode only when the pointer is set.
HasHook(o, h) == h \in [file |-> FileHooks, link |-> LinkHooks, dir |-> DirHooks][obj[o].type]

\* tmpfs_file_new, or tmpfs_dir_new for a directory: a fresh object, no
\* length and no blocks; symlink_tmpfs then sets the type and target.
NewObj(n, k, target) == [NoObj EXCEPT !.name = n, !.type = k, !.target = target]

\* tmpfs_file_free(t) and free(t) on the object unlink_tmpfs found.  A
\* link's target is freed, and block_count frames are cleared.  The
\* pointer is a tmpfs_file whatever the entry is: a directory's tmpfs_dir
\* is read as one, its type and block_count and blocks taken from the
\* bytes of another struct.
FileFree(o) ==
  /\ obj' = [obj EXCEPT ![o].freed = TRUE]
  /\ dirAsFile' = (dirAsFile \/ obj[o].type = "dir")

-----------------------------------------------------------------------------
(* Operations                                                              *)

\* create_tmpfs, mkdir_tmpfs, symlink_tmpfs, first critical section: the
\* name is looked up under tmpfs_lock, which is then dropped.  A name that
\* is present is -EEXIST (no state change).
CreateCheck(p, n, k) ==
  /\ pc[p] = Idle
  /\ FirstNamed(n) = 0
  /\ pc' = [pc EXCEPT ![p] = [Idle EXCEPT !.op = "insert", !.name = n, !.type = k]]
  /\ UNCHANGED <<dir, obj, nextObj, open, nullBlock, uaf, relisted, dirAsFile, halted>>

\* Mutant: the new entry is pushed at the head of the list.
CreateInsertAtHead(p) ==
  /\ pc[p].op = "insert"
  /\ nextObj <= MaxObjs
  /\ \E target \in IF pc[p].type = "link" THEN TargetLens ELSE {0} :
       obj' = [obj EXCEPT ![nextObj] = NewObj(pc[p].name, pc[p].type, target)]
  /\ dir' = <<nextObj>> \o dir
  /\ nextObj' = nextObj + 1
  /\ pc' = [pc EXCEPT ![p] = Idle]
  /\ UNCHANGED <<open, nullBlock, uaf, relisted, dirAsFile, halted>>

\* ... second and third sections: tmpfs_file_new (or tmpfs_dir_new) under
\* the lock, symlink's strdup of its target, then list_insert at the tail under the lock again.  Nothing is
\* looked up again in between.
CreateInsert(p) ==
  /\ pc[p].op = "insert"
  /\ nextObj <= MaxObjs
  /\ \E target \in IF pc[p].type = "link" THEN TargetLens ELSE {0} :
       obj' = [obj EXCEPT ![nextObj] = NewObj(pc[p].name, pc[p].type, target)]
  /\ dir' = Append(dir, nextObj)
  /\ nextObj' = nextObj + 1
  /\ pc' = [pc EXCEPT ![p] = Idle]
  /\ UNCHANGED <<open, nullBlock, uaf, relisted, dirAsFile, halted>>

\* The three entry points that share that shape: create_tmpfs makes a
\* file, mkdir_tmpfs a directory (an empty name is -EINVAL, and names are
\* never empty here), symlink_tmpfs a link.
CreateTmpfs(p, n) == CreateCheck(p, n, "file")
MkdirTmpfs(p, n) == CreateCheck(p, n, "dir")
SymlinkTmpfs(p, n) == CreateCheck(p, n, "link")

\* unlink_tmpfs: under tmpfs_lock, the first entry named n is freed
\* (FileFree) and its list node removed, with no test of its kind.  Open fnodes of it
\* keep their device pointer.  No entry is -ENOENT (no state change).
UnlinkTmpfs(p, n) ==
  LET i == FirstNamed(n) IN
  /\ pc[p] = Idle
  /\ i # 0
  /\ FileFree(dir[i])
  /\ dir' = RemoveAt(dir, i)
  /\ UNCHANGED <<nextObj, pc, open, nullBlock, uaf, relisted, halted>>

\* finddir_tmpfs, critical section: the first entry named n is found and
\* tmpfs_lock dropped before the fnode is built from it.
FinddirScan(p, n) ==
  /\ pc[p] = Idle
  /\ FirstNamed(n) # 0
  /\ pc' = [pc EXCEPT ![p] = [Idle EXCEPT !.op = "build", !.o = dir[FirstNamed(n)]]]
  /\ UNCHANGED <<dir, obj, nextObj, open, nullBlock, uaf, relisted, dirAsFile, halted>>

\* ... tmpfs_from_file/_link/_dir, with no lock: the fnode copies name,
\* mask, times and length out of the object.
FinddirBuild(p) ==
  LET o == pc[p].o IN
  /\ pc[p].op = "build"
  /\ Touch(o)
  /\ open' = [open EXCEPT ![p] = @ \cup {o}]
  /\ pc' = [pc EXCEPT ![p].op = "open"]
  /\ UNCHANGED <<dir, obj, nextObj, nullBlock, relisted, dirAsFile, halted>>

\* ... then the VFS opens the fnode: open_tmpfs, with no lock, stamps
\* t->atime; a directory's fnode has no open hook.
OpenTmpfs(p) ==
  LET o == pc[p].o IN
  /\ pc[p].op = "open"
  /\ IF HasHook(o, "open") THEN Touch(o) ELSE UNCHANGED uaf
  /\ pc' = [pc EXCEPT ![p] = Idle]
  /\ UNCHANGED <<dir, obj, nextObj, open, nullBlock, relisted, dirAsFile, halted>>

\* A listing of the directory: sys_readdir called with index 0, 1, 2, ...
\* until it returns nothing.  Indexes 0 and 1 are "." and "..", which
\* read nothing, so a listing starts at 2.
ReaddirStart(p) ==
  /\ pc[p] = Idle
  /\ pc' = [pc EXCEPT ![p] = [Idle EXCEPT !.op = "readdir", !.idx = 2]]
  /\ UNCHANGED <<dir, obj, nextObj, open, nullBlock, uaf, relisted, dirAsFile, halted>>

\* readdir_tmpfs(index): with no lock, an index at or past the list's
\* length returns NULL; otherwise the list is walked to position index - 2
\* and that entry's name copied out.  The list operations are taken as
\* atomic, so the walk sees one version of the list; an unlink that shrinks
\* it between the length test and the walk also ends in NULL.  An unlink
\* under the index shifts the later entries down, and the entry that moves
\* into the index is skipped.
ReaddirTmpfs(p) ==
  LET i == pc[p].idx - 2 IN
  /\ pc[p].op = "readdir"
  /\ IF i >= Len(dir)
     THEN /\ pc' = [pc EXCEPT ![p] = Idle]
          /\ UNCHANGED <<uaf, relisted>>
     ELSE /\ Touch(dir[i + 1])
          /\ relisted' = (relisted \/ dir[i + 1] \in pc[p].seen)
          /\ pc' = [pc EXCEPT ![p].idx = @ + 1, ![p].seen = @ \cup {dir[i + 1]}]
  /\ UNCHANGED <<dir, obj, nextObj, open, nullBlock, dirAsFile, halted>>

\* close_fs: tmpfs sets no close hook, so dropping the fnode is all.
CloseFnode(p, o) ==
  /\ pc[p] = Idle
  /\ o \in open[p]
  /\ open' = [open EXCEPT ![p] = @ \ {o}]
  /\ UNCHANGED <<dir, obj, nextObj, pc, nullBlock, uaf, relisted, dirAsFile, halted>>

\* chmod_tmpfs: mask = mode, with no lock and no test of its own ("XXX
\* permissions"; sys_chmod checks ownership before).  The mask itself is
\* not kept: no operation here reads it.  A directory's fnode has the same
\* hook, which stores through a tmpfs_file pointer into the tmpfs_dir.
ChmodTmpfs(p, o) ==
  /\ pc[p] = Idle
  /\ o \in open[p] /\ HasHook(o, "chmod")
  /\ Touch(o)
  /\ UNCHANGED <<dir, obj, nextObj, pc, open, nullBlock, relisted, dirAsFile, halted>>

\* chown_tmpfs: uid and gid stored the same way.
ChownTmpfs(p, o) ==
  /\ pc[p] = Idle
  /\ o \in open[p] /\ HasHook(o, "chown")
  /\ Touch(o)
  /\ UNCHANGED <<dir, obj, nextObj, pc, open, nullBlock, relisted, dirAsFile, halted>>

\* truncate_tmpfs, with no lock: every frame is cleared and its pointer
\* zeroed, then block_count is zeroed; length is still the old one.  The
\* clearing loop is one step: a reader inside it maps frame 0, as it maps
\* NULL once block_count is 0.  A link's fnode keeps this hook.
TruncateTmpfs(p, o) ==
  /\ pc[p] = Idle
  /\ o \in open[p] /\ HasHook(o, "truncate")
  /\ Touch(o)
  /\ obj' = [obj EXCEPT ![o].blocks = 0]
  /\ pc' = [pc EXCEPT ![p] = [Idle EXCEPT !.op = "truncate", !.o = o]]
  /\ UNCHANGED <<dir, nextObj, open, nullBlock, relisted, dirAsFile, halted>>

\* ... then length is zeroed and mtime stamped, the next store.
TruncateLength(p) ==
  LET o == pc[p].o IN
  /\ pc[p].op = "truncate"
  /\ Touch(o)
  /\ obj' = [obj EXCEPT ![o].length = 0]
  /\ pc' = [pc EXCEPT ![p] = Idle]
  /\ UNCHANGED <<dir, nextObj, open, nullBlock, relisted, dirAsFile, halted>>

\* write_tmpfs, up to its first block: length grows to offset + size, with
\* no lock, before any block behind it exists.  Links and directories have
\* no write hook.  The todo list is the loop's sequence of blocks.
WriteTmpfs(p, o, offset, size) ==
  /\ pc[p] = Idle
  /\ o \in open[p] /\ HasHook(o, "write")
  /\ offset + size <= MaxLen
  /\ Touch(o)
  /\ obj' = [obj EXCEPT ![o].length = IF offset + size > @ THEN offset + size ELSE @]
  /\ pc' = [pc EXCEPT ![p] = [Idle EXCEPT !.op = "write", !.o = o,
                                          !.todo = BlockPlan(offset, offset + size)]]
  /\ UNCHANGED <<dir, nextObj, open, nullBlock, relisted, dirAsFile, halted>>

\* Mutant: the loop runs while blockid > pointers, so a block id equal to
\* the array's size gets no slot.
RECURSIVE EmbiggenOneShort(_, _)
RECURSIVE EmbiggenByOne(_, _)
EmbiggenOneShort(ptrs, b) == IF b > ptrs THEN EmbiggenOneShort(ptrs * 2, b) ELSE ptrs

\* Mutant: embiggen adds one pointer instead of doubling.
EmbiggenByOne(ptrs, b) == IF b >= ptrs THEN EmbiggenByOne(ptrs + 1, b) ELSE ptrs

\* getset_block's first loop: tmpfs_file_blocks_embiggen doubles pointers
\* (and reallocs the array) while blockid >= pointers.
RECURSIVE Embiggen(_, _)
Embiggen(ptrs, b) == IF b >= ptrs THEN Embiggen(ptrs * 2, b) ELSE ptrs

\* ... each block: tmpfs_file_getset_block(create = 1), under tmpfs_lock,
\* grows the array and then stores a new frame at blocks[block_count]
\* until the block exists; it maps it, and the caller copies into it.
WriteBlock(p) ==
  LET o == pc[p].o
      b == Head(pc[p].todo)[1]
  IN
  /\ pc[p].op = "write"
  /\ Touch(o)
  /\ obj' = [obj EXCEPT ![o].pointers = Embiggen(@, b),
                        ![o].blocks = IF b >= @ THEN b + 1 ELSE @]
  /\ pc' = [pc EXCEPT ![p] = IF Len(pc[p].todo) = 1 THEN Idle
                             ELSE [@ EXCEPT !.todo = Tail(@)]]
  /\ UNCHANGED <<dir, nextObj, open, nullBlock, relisted, dirAsFile, halted>>

\* read_tmpfs, up to its first block: end is clamped to the length read
\* now, with no lock; an empty range in one block returns 0, and an offset
\* blocks past end maps nothing and returns the wrapped end - offset.
ReadTmpfs(p, o, offset, size) ==
  LET end == IF offset + size > obj[o].length THEN obj[o].length ELSE offset + size
  IN
  /\ pc[p] = Idle
  /\ o \in open[p] /\ HasHook(o, "read")
  /\ Touch(o)
  /\ pc' = IF \/ offset \div BLOCKSIZE = end \div BLOCKSIZE /\ offset = end
              \/ BlockPlan(offset, end) = <<>>
           THEN pc
           ELSE [pc EXCEPT ![p] = [Idle EXCEPT !.op = "read", !.o = o,
                                               !.todo = BlockPlan(offset, end)]]
  /\ UNCHANGED <<dir, obj, nextObj, open, nullBlock, relisted, dirAsFile, halted>>

\* ... each block: tmpfs_file_getset_block(create = 0) returns NULL for a
\* block past block_count and the caller copies from NULL + offset anyway.
\* Whether that page is mapped is not the code's to decide: the copy
\* faults, or reads whatever is there.  A wrapped byte count copies until
\* it faults.
ReadBlock(p) ==
  LET o == pc[p].o
      b == Head(pc[p].todo)
      missing == b[1] >= obj[o].blocks
  IN
  /\ pc[p].op = "read"
  /\ Touch(o)
  /\ nullBlock' = (nullBlock \/ missing)
  /\ \E fault \in IF missing THEN BOOLEAN ELSE {FALSE} :
       halted' = (fault \/ b[2] < 0)
  /\ pc' = [pc EXCEPT ![p] = IF Len(pc[p].todo) = 1 THEN Idle
                             ELSE [@ EXCEPT !.todo = Tail(@)]]
  /\ UNCHANGED <<dir, obj, nextObj, open, relisted, dirAsFile>>

\* readlink_tmpfs on a link whose target is len bytes, into a buffer of
\* size bytes: the bytes left in buf before its NUL, and the return value
\* (size - 2 when the target is cut short).
\* size_t arithmetic: size - 1 for size 0 is a wrapped, huge copy.
ReadlinkTmpfs(len, size) ==
  IF size < len + 1 THEN [copied |-> size - 1, ret |-> size - 2]
                    ELSE [copied |-> len, ret |-> len]

\* sys_readlink on an fnode of a link, through readlink_tmpfs; fnodes of
\* files and directories have no readlink hook.  The return value reaches
\* only the caller; a wrapped copy (size 0) faults.
SysReadlink(p, o, size) ==
  LET r == ReadlinkTmpfs(obj[o].target, size) IN
  /\ pc[p] = Idle
  /\ o \in open[p] /\ HasHook(o, "readlink")
  /\ Touch(o)
  /\ halted' = (r.copied < 0)
  /\ UNCHANGED <<dir, obj, nextObj, pc, open, nullBlock, relisted, dirAsFile>>

-----------------------------------------------------------------------------
\* tmpfs_create: the root directory starts empty; no process holds anything.
Init ==
  /\ dir = <<>>
  /\ obj = [i \in Ids |-> NoObj]
  /\ nextObj = 1
  /\ pc = [p \in Procs |-> Idle]
  /\ open = [p \in Procs |-> {}]
  /\ nullBlock = FALSE
  /\ uaf = FALSE /\ relisted = FALSE /\ dirAsFile = FALSE /\ halted = FALSE

Next ==
  /\ ~halted
  /\ \E p \in Procs :
       \/ \E n \in Names : CreateTmpfs(p, n) \/ MkdirTmpfs(p, n) \/ SymlinkTmpfs(p, n)
       \/ CreateInsert(p)
       \/ \E n \in Names : UnlinkTmpfs(p, n) \/ FinddirScan(p, n)
       \/ FinddirBuild(p)
       \/ OpenTmpfs(p)
       \/ ReaddirStart(p)
       \/ ReaddirTmpfs(p)
       \/ \E o \in Ids : CloseFnode(p, o) \/ TruncateTmpfs(p, o)
                         \/ ChmodTmpfs(p, o) \/ ChownTmpfs(p, o)
       \/ \E o \in Ids, offset \in Offsets, size \in Sizes :
            WriteTmpfs(p, o, offset, size) \/ ReadTmpfs(p, o, offset, size)
       \/ \E o \in Ids, size \in {0} \cup Sizes : SysReadlink(p, o, size)
       \/ TruncateLength(p)
       \/ WriteBlock(p)
       \/ ReadBlock(p)

Spec == Init /\ [][Next]_vars

-----------------------------------------------------------------------------
(* Properties                                                              *)

Allocated == 1 .. nextObj - 1

TypeOK ==
  /\ dir \in Seq(Allocated)
  /\ obj \in [Ids -> Obj]
  /\ \A o \in Ids : obj[o].blocks * BLOCKSIZE <= MaxLen + BLOCKSIZE
  /\ \A o \in Ids : \E k \in 1 .. MaxLen : obj[o].pointers = 2^k
  /\ nextObj \in 1 .. MaxObjs + 1
  /\ open \in [Procs -> SUBSET Allocated]
  /\ \A p \in Procs : pc[p].op \in {"idle", "insert", "build", "open", "write", "read", "readdir", "truncate"}
  /\ nullBlock \in BOOLEAN /\ uaf \in BOOLEAN /\ relisted \in BOOLEAN /\ dirAsFile \in BOOLEAN /\ halted \in BOOLEAN

\* One listing never returns the same entry twice, however creates and
\* unlinks of another process move the entries under its index: an entry
\* only ever moves towards the head of the list.
ListingNeverRepeats == ~relisted

\* Every frame getset_block stores lands inside the blocks array: a
\* file's block_count never exceeds its pointers, through writes that jump
\* blocks past the end and truncates that empty the array but keep its
\* size, by processes that interleave on one file.
BlocksFitArray ==
  \A o \in Allocated : obj[o].type = "file" => obj[o].blocks <= obj[o].pointers

\* No two entries of a directory have the same name: create, mkdir and
\* symlink refuse a name already present with -EEXIST.
UniqueNames ==
  \A i, j \in DOMAIN dir : i # j => obj[dir[i]].name # obj[dir[j]].name

\* read_tmpfs maps only blocks the file has: every block a read asks
\* tmpfs_file_getset_block for is below block_count, so the memcpy never
\* reads from the NULL it returns for a missing one.  The read clamps its
\* end to the length, but a length can run ahead of the blocks: a write
\* raises it before they exist, truncate zeroes block_count before length,
\* and an offset past the end of an empty file is not refused.
ReadsMapExistingBlocks == ~nullBlock

=============================================================================
