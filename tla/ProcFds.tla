------------------------------ MODULE ProcFds ------------------------------
(***************************************************************************)
(* Process records and their file-descriptor tables.                       *)
(*                                                                         *)
(* Models src/kernel/sys/process.c (spawn_process, process_append_fd,      *)
(* process_move_fd) and the descriptor-changing system calls of            *)
(* src/kernel/sys/syscall.c (sys_open, sys_close, sys_setuid).  A table is *)
(* named by the pid whose spawn allocated it (0 is the static _fake_fds).  *)
(* A handle is an fs_node_t object returned by kopen; its reference count  *)
(* is the one open_fs / clone_fs raise and close_fs lowers.  kopen takes a *)
(* handle whose count is 0: the memory of a freed node may be reused.      *)
(*                                                                         *)
(* Each system call is one atomic step: handlers run to completion on one  *)
(* CPU and none of the modelled ones sleeps.  A slot keeps only its node:  *)
(* the access mode and offset travel with it and are read only by          *)
(* sys_read / sys_write / sys_seek, which module FdIo models.              *)
(***************************************************************************)
EXTENDS Integers, Sequences, FiniteSets, FiniteSetsExt

CONSTANTS
  MaxPid,        \* get_next_pid hands out 1..MaxPid within a run
  MaxFds,        \* bound on the length of a descriptor table
  Handles,       \* fs_node_t objects kopen may return (model values)
  Stdio,         \* the placeholder node (fs_node_t *)1 of _fake_fds
  NULL,          \* an empty descriptor slot
  Users,         \* uids; 0 is USER_ROOT_UID
  Paths,         \* paths user programs pass to open
  InitFiles,     \* [Paths -> FileRec]: the file tree at boot
  OpenFlagSets,  \* flag sets sys_open is called with
  CreateModes    \* permission masks passed with O_CREAT

Pids  == 0 .. MaxPid
Nodes == Handles \cup {Stdio}
Flags == {"WRONLY", "RDWR", "APPEND", "CREAT", "TRUNC", "EXCL", "DIRECTORY"}
\* A mask keeps the owner and other permission bits has_permission reads.
Masks == [own : SUBSET {"r", "w"}, oth : SUBSET {"r", "w"}]
FileRec == [exists : BOOLEAN, dir : BOOLEAN, uid : Users, mask : Masks]

ASSUME /\ MaxPid \in Nat
       /\ MaxFds \in Nat
       /\ 0 \in Users
       /\ InitFiles \in [Paths -> FileRec]
       /\ OpenFlagSets \subseteq SUBSET Flags
       /\ CreateModes \subseteq Masks

VARIABLES
  live,      \* pids on process_list; 0 is _fake_process
  user,      \* proc->user
  fdt,       \* proc->fds: the table each process uses
  tables,    \* fd_table_t objects: entries as slots, and refs
  refcount,  \* fs_node_t refcount
  files,     \* the file tree behind kopen / create_file_fs
  nextPid    \* _next_pid in get_next_pid

vars == <<live, user, fdt, tables, refcount, files, nextPid>>

-----------------------------------------------------------------------------
(* Helpers                                                                 *)

\* Slots of table t holding node h.
Count(s, h) == Cardinality({i \in 1 .. Len(s) : s[i] = h})

\* Mutant: the hole search scans from the top of the table down.
FirstFreeFromTop(s) ==
  LET holes == {i \in 1 .. Len(s) : s[i] = NULL}
  IN  IF holes = {} THEN Len(s) + 1 ELSE Max(holes)

\* The slot process_append_fd fills: the first hole, else one past the end.
FirstFree(s) ==
  LET holes == {i \in 1 .. Len(s) : s[i] = NULL}
  IN  IF holes = {} THEN Len(s) + 1 ELSE Min(holes)

\* Mutant: every new descriptor is appended; holes are never reused.
ProcessAppendFdNoReuse(s, node) == Append(s, node)

\* Mutant: growth bumps length before storing at the new length, one past.
ProcessAppendFdOnePast(s, node) ==
  IF FirstFree(s) > Len(s) THEN Append(Append(s, NULL), node) ELSE [s EXCEPT ![FirstFree(s)] = node]

\* process_append_fd: node goes into FirstFree (mode and offset zeroed).
ProcessAppendFd(s, node) ==
  IF FirstFree(s) > Len(s) THEN Append(s, node) ELSE [s EXCEPT ![FirstFree(s)] = node]

\* open_fs / clone_fs (k = 1) and close_fs (k = -1) on a possibly NULL node.
Ref(rc, h, k) == IF h = NULL THEN rc ELSE [rc EXCEPT ![h] = @ + k]

\* has_permission(node, bit) for the process' effective uid.
HasPermission(u, f, bit) ==
  \/ u = 0
  \/ u = f.uid /\ bit \in f.mask.own
  \/ u # f.uid /\ bit \in f.mask.oth

SlotsOf(p) == tables[fdt[p]].slots

\* Mutant: the node copied into dest is not open_fs'd.
ReassignNoOpen(rc, old, new) == Ref(rc, old, -1)

\* process_move_fd: close_fs the node at dest, open_fs the one copied in.
Reassign(rc, old, new) == Ref(Ref(rc, old, -1), new, 1)

\* Mutant: the child shares the table without taking a reference.
ShareTableNoRef(tabs, t) == tabs

\* PROC_REUSE_FDS: the parent's table gains the child as a holder.
ShareTable(tabs, t) == [tabs EXCEPT ![t].refs = @ + 1]

\* Mutant: the copied entries are not clone_fs'd.
CloneNodesNoRef(rc, s) == rc

\* clone_fs on every entry copied into a new table.
CloneNodes(rc, s) == [h \in Nodes |-> rc[h] + Count(s, h)]

-----------------------------------------------------------------------------
(* Operations                                                              *)

\* spawn_process(parent, flags) followed by the caller inserting the child
\* on process_list.  With PROC_REUSE_FDS the child shares the parent's table
\* and bumps refs; otherwise it gets a copy whose nodes are clone_fs'd.
SpawnProcess(p, reuse) ==
  LET c == nextPid
      s == SlotsOf(p)
  IN
  /\ p \in live
  /\ nextPid <= MaxPid
  /\ live' = live \cup {c}
  /\ user' = [user EXCEPT ![c] = user[p]]
  /\ nextPid' = nextPid + 1
  /\ IF reuse
       THEN /\ fdt' = [fdt EXCEPT ![c] = fdt[p]]
            /\ tables' = ShareTable(tables, fdt[p])
            /\ UNCHANGED refcount
       ELSE /\ fdt' = [fdt EXCEPT ![c] = c]
            /\ tables' = [tables EXCEPT ![c] = [slots |-> s, refs |-> 1]]
            /\ refcount' = CloneNodes(refcount, s)
  /\ UNCHANGED files

\* Process teardown (spec 3, "fd table reference dropped"): the table's
\* refs drops, and the last reference closes every entry.  The boot
\* process 0 never exits.
ProcessDelete(p) ==
  LET t == fdt[p]
      s == tables[t].slots
  IN
  /\ p \in live \ {0}
  /\ live' = live \ {p}
  /\ IF tables[t].refs = 1
       THEN /\ tables' = [tables EXCEPT ![t] = [slots |-> <<>>, refs |-> 0]]
            /\ refcount' = [h \in Nodes |-> refcount[h] - Count(s, h)]
       ELSE /\ tables' = [tables EXCEPT ![t].refs = @ - 1]
            /\ UNCHANGED refcount
  /\ UNCHANGED <<user, fdt, files, nextPid>>

\* sys_setuid: only an effective root may change both ids.
SysSetuid(p, u) ==
  /\ p \in live
  /\ user[p] = 0
  /\ user' = [user EXCEPT ![p] = u]
  /\ UNCHANGED <<live, fdt, tables, refcount, files, nextPid>>

\* sys_close: a valid descriptor's node is closed and its entry cleared.
SysClose(p, fd) ==
  LET t == fdt[p]
      s == tables[t].slots
  IN
  /\ p \in live
  /\ fd \in 0 .. Len(s) - 1
  /\ s[fd + 1] # NULL
  /\ refcount' = Ref(refcount, s[fd + 1], -1)
  /\ tables' = [tables EXCEPT ![t].slots[fd + 1] = NULL]
  /\ UNCHANGED <<live, user, fdt, files, nextPid>>

\* process_move_fd(proc, src, dest): dest = -1 appends a NULL slot first;
\* a different node at dest is closed, then overwritten and reopened.
ProcessMoveFd(p, src, dest) ==
  LET t  == fdt[p]
      s  == tables[t].slots
      d  == IF dest = -1 THEN FirstFree(s) ELSE dest + 1
      s1 == IF dest = -1 THEN ProcessAppendFd(s, NULL) ELSE s
      old == s1[d]
      new == s1[src + 1]
  IN
  /\ p \in live
  /\ src \in 0 .. Len(s) - 1
  /\ dest \in {-1} \cup 0 .. Len(s) - 1
  /\ d <= MaxFds
  /\ IF old # new
       THEN /\ tables' = [tables EXCEPT ![t].slots = [s1 EXCEPT ![d] = s1[src + 1]]]
            /\ refcount' = Reassign(refcount, old, new)
       ELSE /\ tables' = [tables EXCEPT ![t].slots = s1]
            /\ UNCHANGED refcount
  /\ UNCHANGED <<live, user, fdt, files, nextPid>>

(***************************************************************************)
(* sys_open(file, flags, mode).  The early returns that close the node     *)
(* they opened (EEXIST, EACCES) change nothing and are stutter steps.      *)
(***************************************************************************)
WantRead(flags)  == "WRONLY" \notin flags \/ "RDWR" \in flags
WantWrite(flags) == "RDWR" \in flags \/ "WRONLY" \in flags

\* The checks up to the write-permission test, all of which close the node.
OpenPrechecks(p, path, flags) ==
  LET f == files[path] IN
  /\ ~(f.exists /\ {"CREAT", "EXCL"} \subseteq flags)
  /\ ~(WantRead(flags) /\ f.exists /\ ~HasPermission(user[p], f, "r"))
  /\ ~(WantWrite(flags) /\ f.exists /\ ~HasPermission(user[p], f, "w"))

\* The EISDIR return for write access to a directory: the node kopen
\* returned is not closed.
SysOpenIsDir(p, path, flags, h) ==
  /\ p \in live
  /\ OpenPrechecks(p, path, flags)
  /\ WantWrite(flags) /\ files[path].exists /\ files[path].dir
  /\ refcount[h] = 0
  /\ refcount' = [refcount EXCEPT ![h] = 1]
  /\ UNCHANGED <<live, user, fdt, tables, files, nextPid>>

\* The rest of sys_open: create if absent with O_CREAT, then ENOTDIR (node
\* not closed), EINVAL / ENOENT / EISDIR (node closed), or a new descriptor.
SysOpen(p, path, flags, mask, h) ==
  LET f       == files[path]
      creates == ~f.exists /\ "CREAT" \in flags
      f1      == IF creates
                   THEN [exists |-> TRUE, dir |-> FALSE, uid |-> user[p], mask |-> mask]
                   ELSE f
      t       == fdt[p]
      s       == tables[t].slots
  IN
  /\ p \in live
  /\ OpenPrechecks(p, path, flags)
  /\ ~(WantWrite(flags) /\ f.exists /\ f.dir)
  /\ files' = [files EXCEPT ![path] = f1]
  /\ \/ \* ENOTDIR: O_DIRECTORY on a file; the node stays open
        /\ f1.exists /\ "DIRECTORY" \in flags /\ ~f1.dir
        /\ refcount[h] = 0
        /\ refcount' = [refcount EXCEPT ![h] = 1]
        /\ UNCHANGED tables
     \/ \* EINVAL (O_TRUNC without write), ENOENT, EISDIR (O_CREAT on a dir)
        /\ ~(f1.exists /\ "DIRECTORY" \in flags /\ ~f1.dir)
        /\ \/ f1.exists /\ "TRUNC" \in flags /\ ~WantWrite(flags)
           \/ ~f1.exists
           \/ f1.exists /\ "CREAT" \in flags /\ f1.dir
        /\ UNCHANGED <<refcount, tables>>
     \/ \* success: process_append_fd into the caller's table
        /\ f1.exists
        /\ ~("DIRECTORY" \in flags /\ ~f1.dir)
        /\ ~("TRUNC" \in flags /\ ~WantWrite(flags))
        /\ ~("CREAT" \in flags /\ f1.dir)
        /\ FirstFree(s) <= MaxFds
        /\ refcount[h] = 0
        /\ refcount' = [refcount EXCEPT ![h] = 1]
        /\ tables' = [tables EXCEPT ![t].slots =
                        ProcessAppendFd(s, h)]
  /\ UNCHANGED <<live, user, fdt, nextPid>>

-----------------------------------------------------------------------------
Init ==
  /\ live = {0}
  /\ user = [p \in Pids |-> 0]
  /\ fdt = [p \in Pids |-> 0]
  /\ tables = [t \in Pids |->
       IF t = 0
         THEN [slots |-> <<Stdio, Stdio, Stdio>>, refs |-> 1]
         ELSE [slots |-> << >>, refs |-> 0]]
  /\ refcount = [h \in Nodes |-> IF h = Stdio THEN 3 ELSE 0]
  /\ files = InitFiles
  /\ nextPid = 1

Next ==
  \/ \E p \in Pids, reuse \in BOOLEAN : SpawnProcess(p, reuse)
  \/ \E p \in Pids : ProcessDelete(p)
  \/ \E p \in Pids, u \in Users : SysSetuid(p, u)
  \/ \E p \in Pids, fd \in 0 .. MaxFds - 1 : SysClose(p, fd)
  \/ \E p \in Pids, src \in 0 .. MaxFds - 1, dest \in -1 .. MaxFds - 1 :
       ProcessMoveFd(p, src, dest)
  \/ \E p \in Pids, path \in Paths, flags \in OpenFlagSets, h \in Handles :
       SysOpenIsDir(p, path, flags, h)
  \/ \E p \in Pids, path \in Paths, flags \in OpenFlagSets, m \in CreateModes, h \in Handles :
       SysOpen(p, path, flags, m, h)

Spec == Init /\ [][Next]_vars

-----------------------------------------------------------------------------
(* Properties                                                              *)

TypeOK ==
  /\ live \subseteq Pids /\ 0 \in live
  /\ user \in [Pids -> Users]
  /\ fdt \in [Pids -> Pids]
  /\ \A t \in Pids : /\ tables[t].slots \in Seq(Nodes \cup {NULL})
                     /\ Len(tables[t].slots) <= MaxFds
                     /\ tables[t].refs \in Nat
  /\ refcount \in [Nodes -> Int]
  /\ files \in [Paths -> FileRec]
  /\ nextPid \in 1 .. MaxPid + 1

\* Slots of the tables still allocated that hold node h.
Holders(h) ==
  Cardinality({ti \in {t \in Pids : tables[t].refs > 0} \X (1 .. MaxFds) :
                 ti[2] <= Len(tables[ti[1]].slots) /\ tables[ti[1]].slots[ti[2]] = h})

\* A table shared by PROC_REUSE_FDS children is freed only when the last
\* process using it goes away: no live process uses a freed table
\* (spawn_process's unlocked refs++ and the teardown's refs-- must agree).
NoFreedTableInUse ==
  \A p \in live : tables[fdt[p]].refs > 0

\* No fs_node_t is released while a descriptor still points at it: its
\* refcount covers every slot holding it (clone_fs on copy, close_fs before
\* overwrite and open_fs after it in process_move_fd, close_fs in sys_close).
NoNodeFreedWhileHeld ==
  \A h \in Nodes : refcount[h] >= Holders(h)

\* Every reference a system call takes is owned by a descriptor slot: a
\* call that fails leaves no node open behind it (spec 7).
NodeRefsMatchHolders ==
  \A h \in Nodes : refcount[h] = Holders(h)

\* A newly opened node lands in the lowest free descriptor of the caller's
\* table (process_append_fd reuses holes before growing).
NewFdIsLowest ==
  [][\A t \in Pids : \A i \in 1 .. Len(tables'[t].slots) :
       (tables'[t].slots[i] \in Handles /\ refcount[tables'[t].slots[i]] = 0)
         => \A j \in 1 .. i - 1 : j <= Len(tables[t].slots) /\ tables[t].slots[j] # NULL]_vars

=============================================================================
