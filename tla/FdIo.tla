------------------------------- MODULE FdIo -------------------------------
(***************************************************************************)
(* Descriptor offsets: what sys_open, sys_close, sys_read, sys_write and   *)
(* sys_seek (src/kernel/sys/syscall.c) do to the offsets and modes of the  *)
(* caller's fd table, over files of tmpfs (src/kernel/vfs/tmpfs.c).        *)
(*                                                                         *)
(* Every kopen of a tmpfs file builds a new fs_node_t with                 *)
(* tmpfs_from_file, which copies t->length into node->length once.        *)
(* read_tmpfs, write_tmpfs and truncate_tmpfs use and change t->length     *)
(* only, so the node keeps the length the file had when it was opened.     *)
(*                                                                         *)
(* Abstractions: one process, whose table starts empty; the files exist    *)
(* and the caller may read and write them, so sys_open's permission and    *)
(* creation branches (module ProcFds) are not taken; the bytes and blocks  *)
(* of a file are left out (module Tmpfs), only its length is kept.  The    *)
(* calls that return an error without a change (EBADF, EACCES, EINVAL)     *)
(* are stutter steps.  Each call is one step.                              *)
(***************************************************************************)
EXTENDS Integers, Sequences, FiniteSets, FiniteSetsExt

CONSTANTS
  Files,         \* tmpfs_file objects
  Handles,       \* fs_node_t objects kopen may return (model values)
  NULL,          \* an empty descriptor slot
  BLOCKSIZE,     \* tmpfs block size (4096 in the code)
  MaxLen,        \* bound on file lengths and offsets
  MaxFds,        \* bound on the length of the descriptor table
  Sizes,         \* byte counts passed to read and write
  SeekArgs,      \* offsets passed to seek
  OpenFlagSets   \* flag sets sys_open is called with

Whences == {0, 1, 2}   \* SEEK_SET, SEEK_CUR, SEEK_END

Flags == {"WRONLY", "RDWR", "APPEND", "TRUNC"}

ASSUME /\ BLOCKSIZE \in Nat \ {0}
       /\ Sizes \subseteq Nat /\ SeekArgs \subseteq Nat
       /\ OpenFlagSets \subseteq SUBSET Flags

VARIABLES
  length,    \* t->length of each tmpfs_file
  fnode,     \* each handle's fs_node_t: its file and node->length
  slots,     \* current_process->fds: [node, mode, offset] per entry
  crashed,   \* the kernel faulted in a memcpy
  last       \* the last call and its descriptor, for the properties

vars == <<length, fnode, slots, crashed, last>>

Slot == [node : Handles \cup {NULL}, mode : SUBSET {"r", "w"}, offset : Int]

-----------------------------------------------------------------------------
(* Helpers                                                                 *)

InUse == {slots[i].node : i \in DOMAIN slots} \ {NULL}

\* process_append_fd's slot: the first hole, else one past the end.
FirstFree ==
  LET holes == {i \in DOMAIN slots : slots[i].node = NULL}
  IN  IF holes = {} THEN Len(slots) + 1 ELSE Min(holes)

\* FD_CHECK(fd): in range and not a hole (descriptors are 1-based here).
FdCheck(fd) == fd \in DOMAIN slots /\ slots[fd].node # NULL

FileOf(fd) == fnode[slots[fd].node].file

WantRead(flags)  == "WRONLY" \notin flags \/ "RDWR" \in flags
WantWrite(flags) == "RDWR" \in flags \/ "WRONLY" \in flags

\* read_tmpfs(node, offset, size): end is clamped to t->length but offset
\* is not checked against it, so size_to_read = end - offset wraps when the
\* offset is past the end.  Within one block the wrapped size is memcpy'd
\* and the kernel faults; across blocks nothing is copied from the start
\* block and the wrapped size is returned, which sys_read's long reads as
\* end - offset.
ReadEnd(len, off, n) == IF off + n > len THEN len ELSE off + n

ReadFaults(len, off, n) ==
  LET end == ReadEnd(len, off, n)
  IN  off \div BLOCKSIZE = end \div BLOCKSIZE /\ end < off

ReadTmpfs(len, off, n) == ReadEnd(len, off, n) - off

\* tmpfs_from_file: the node copies t->length once, when it is built.
TmpfsFromFile(f) == [file |-> f, length |-> length[f]]

\* truncate_tmpfs: t->length becomes 0 (and the blocks go); node->length
\* is not touched.
TruncateTmpfs(f) == [length EXCEPT ![f] = 0]

\* write_tmpfs: t->length is raised to offset + size, never lowered.
WriteTmpfs(f, off, n) == [length EXCEPT ![f] = IF off + n > @ THEN off + n ELSE @]

-----------------------------------------------------------------------------
(* Operations                                                              *)

\* The success path of sys_open(file, flags): kopen builds node h with
\* node->length = t->length; O_TRUNC with write access runs truncate_fs,
\* which zeroes t->length only; process_append_fd stores the node, then
\* the mode and an offset of node->length for O_APPEND, else 0.
\* O_TRUNC without write access is EINVAL, a stutter step.
SysOpen(f, flags, h) ==
  LET mode == (IF WantRead(flags) THEN {"r"} ELSE {}) \cup (IF WantWrite(flags) THEN {"w"} ELSE {})
      node == TmpfsFromFile(f)
  IN
  /\ ~crashed
  /\ h \notin InUse
  /\ FirstFree <= MaxFds
  /\ ~("TRUNC" \in flags /\ ~WantWrite(flags))
  /\ fnode' = [fnode EXCEPT ![h] = node]
  /\ length' = IF "TRUNC" \in flags THEN TruncateTmpfs(f) ELSE length
  /\ slots' = LET s == [node |-> h, mode |-> mode,
                        offset |-> IF "APPEND" \in flags THEN node.length ELSE 0]
              IN IF FirstFree > Len(slots) THEN Append(slots, s)
                                           ELSE [slots EXCEPT ![FirstFree] = s]
  /\ last' = [op |-> IF "APPEND" \in flags THEN "open_append" ELSE "open", fd |-> FirstFree]
  /\ UNCHANGED crashed

\* sys_close: close_fs and a NULL entry; mode and offset stay behind.
SysClose(fd) ==
  /\ ~crashed
  /\ FdCheck(fd)
  /\ slots' = [slots EXCEPT ![fd].node = NULL]
  /\ last' = [op |-> "close", fd |-> fd]
  /\ UNCHANGED <<length, fnode, crashed>>

\* sys_read: mode bit 01, then FD_OFFSET(fd) += read_fs(...).
SysRead(fd, n) ==
  LET len == length[FileOf(fd)]
      off == slots[fd].offset
  IN
  /\ ~crashed
  /\ FdCheck(fd)
  /\ "r" \in slots[fd].mode
  /\ IF ReadFaults(len, off, n)
       THEN /\ crashed' = TRUE
            /\ UNCHANGED slots
       ELSE /\ slots' = [slots EXCEPT ![fd].offset = @ + ReadTmpfs(len, off, n)]
            /\ UNCHANGED crashed
  /\ last' = [op |-> "read", fd |-> fd]
  /\ UNCHANGED <<length, fnode>>

\* sys_write: mode bit 02; write_tmpfs raises t->length to offset + size
\* and returns size, which is added to the offset.
SysWrite(fd, n) ==
  LET f == FileOf(fd)
      end == slots[fd].offset + n
  IN
  /\ ~crashed
  /\ FdCheck(fd)
  /\ "w" \in slots[fd].mode
  /\ end <= MaxLen
  /\ length' = WriteTmpfs(f, slots[fd].offset, n)
  /\ slots' = [slots EXCEPT ![fd].offset = end]
  /\ last' = [op |-> "write", fd |-> fd]
  /\ UNCHANGED <<fnode, crashed>>

\* sys_seek: SEEK_SET, SEEK_CUR, and SEEK_END from the node's length.
SysSeek(fd, off, whence) ==
  LET new == CASE whence = 0 -> off
               [] whence = 1 -> slots[fd].offset + off
               [] whence = 2 -> fnode[slots[fd].node].length + off
  IN
  /\ ~crashed
  /\ FdCheck(fd)
  /\ new <= MaxLen
  /\ slots' = [slots EXCEPT ![fd].offset = new]
  /\ last' = [op |-> IF whence = 2 THEN "seek_end" ELSE "seek", fd |-> fd, arg |-> off]
  /\ UNCHANGED <<length, fnode, crashed>>

-----------------------------------------------------------------------------
Init ==
  /\ length = [f \in Files |-> 0]
  /\ fnode = [h \in Handles |-> [file |-> CHOOSE f \in Files : TRUE, length |-> 0]]
  /\ slots = <<>>
  /\ crashed = FALSE
  /\ last = [op |-> "none", fd |-> 0]

Next ==
  \/ \E f \in Files, flags \in OpenFlagSets, h \in Handles : SysOpen(f, flags, h)
  \/ \E fd \in 1 .. MaxFds :
       \/ SysClose(fd)
       \/ \E n \in Sizes : SysRead(fd, n) \/ SysWrite(fd, n)
       \/ \E off \in SeekArgs, w \in Whences : SysSeek(fd, off, w)

Spec == Init /\ [][Next]_vars

-----------------------------------------------------------------------------
(* Properties                                                              *)

TypeOK ==
  /\ length \in [Files -> 0 .. MaxLen]
  /\ fnode \in [Handles -> [file : Files, length : 0 .. MaxLen]]
  /\ slots \in Seq(Slot) /\ Len(slots) <= MaxFds
  /\ crashed \in BOOLEAN

\* Every offset the kernel takes from the extent of a file is the file's
\* extent at that moment (spec 4.4: a descriptor opened with O_APPEND
\* starts at end-of-file; SEEK_END counts from end-of-file), and a read
\* moves the offset forward by the bytes it returns, never back.
OffsetsFollowTheFile ==
  [][ LET fd == last'.fd IN
      /\ last'.op = "open_append" =>
           slots'[fd].offset = length'[fnode'[slots'[fd].node].file]
      /\ last'.op = "seek_end" =>
           slots'[fd].offset = length'[fnode'[slots'[fd].node].file] + last'.arg
      /\ (last'.op = "read" /\ ~crashed') =>
           slots'[fd].offset >= slots[fd].offset ]_vars

=============================================================================
