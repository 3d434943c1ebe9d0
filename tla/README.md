# TLA+ models of the misaka kernel core

This directory holds TLA+ specifications of the process, descriptor-table and
system-call code of misaka (`src/kernel/sys/process.c`,
`src/kernel/sys/syscall.c`), the TLC configurations that check them, and the
plan for the parts not yet modelled. `PROJECT.json` lists every component,
run, mutant, hazard and the source lines each definition translates.

## 1. The system and how its parts interact

| Part | Source | State it owns | Operations that change state |
|---|---|---|---|
| Process records | `process.c`, `process.h` | `process_t` (pid, group, job, session, user, real_user, fds, wd), `_next_pid`, process tree and list | `get_next_pid`, `spawn_process` (tree/list insertion is the caller's, FIXME 164-165) |
| Descriptor tables | `process.c` | `fd_table_t` (entries, modes, offsets, length, capacity, refs) | `process_append_fd`, `process_move_fd`, share (`refs++`) or copy (`clone_fs`) in `spawn_process` |
| Descriptor syscalls | `syscall.c` | the caller's table, node refcounts, the file tree through the VFS | `sys_open`, `sys_close`, `sys_read`, `sys_write`, `sys_seek` |
| Identity and job control | `syscall.c` | `user`, `real_user`, `group`, `job`, `session` | `sys_setuid`, `sys_setsid`, `sys_setpgid` (and `sys_getpgid`) |
| Dispatch and validation | `syscall.c` | `hostname`, the syscall table | `syscall_handler`, `PTR_VALIDATE`, `FD_CHECK`, `sys_sethostname`, `sys_mount`, `sys_chdir`, `sys_chmod`, `sys_chown`, `sys_sysfunc`, `sys_sbrk` |
| Scheduler queues | `process.h` (declarations only) | ready, sleep and wait queues | `sleep_on`, `wakeup_queue`, `wakeup_sleepers`, `make_process_ready` |
| tmpfs | `tmpfs.c` | directory lists, file blocks, lengths; `tmpfs_lock`, `tmpfs_page_lock` | create, mkdir, symlink, finddir and open, readdir, unlink, read, write, truncate, chmod, chown, readlink |
| procfs | `procfs.c` | none of its own | formats process and system state on read |
| VGA console | `vga.c` | cursor x/y, colour attribute, text buffer | `writech`, `scroll`, `vga_set_color` |
| DHCP utility (user space) | `apps/dhcp_bitbanger.c` | `mac_addr`, `main`'s `yiaddr`/`siaddr`, the frames it writes and reads | `fill`, `calculate_ipv4_checksum`, `main`'s DISCOVER/OFFER/REQUEST/ACK exchange |
| Boot, tokenizer, syscall stubs | `main.c`, `tokenize.c`, `syscall.h` | boot-time globals | straight-line initialisation, string splitting, register loading |

A system call enters `syscall_handler`, which indexes the table and calls the
handler with five register arguments. Descriptor handlers validate the number
with `FD_CHECK` and act on `current_process->fds`. That table is either owned
by the process alone or shared with the children it spawned with
`PROC_REUSE_FDS`. `sys_open` walks the VFS (`kopen`, `has_permission`,
`create_file_fs`, `truncate_fs`) and stores the node it opened in the table
with `process_append_fd`. The VFS calls tmpfs or procfs through the node's
hooks.

What makes this code hard is the following:
- Node lifetimes are reference counts. `open_fs` and `clone_fs` raise them, and `close_fs` lowers them and frees the node at 0.
- Table lifetimes are the separate `refs` counter.
- Every early return of a handler must undo exactly the references it took.
- Descriptors are reused from the lowest hole.
- The spec (sections 4.2 and 5) expects tables, the tree and the queues to be locked. Only the tree is locked; `refs++` carries a `FIXME lock?`.

## 2. Modules

### ProcFds (built)

`ProcFds.tla` models process records and descriptor tables together, because
every descriptor operation moves node reference counts that copies and shares
of tables also move.

State:
- `live`: the pids on the process list. Pid 0 is `_fake_process`.
- `user`: `proc->user`.
- `fdt`: `proc->fds`. A table is named by the pid whose spawn allocated it, and table 0 is the static `_fake_fds`.
- `tables`: the slot sequence and `refs` of every table.
- `refcount`: each node's reference count.
- `files`: what `kopen` and `has_permission` see of a path (exists, directory, owner, owner/other bits).
- `nextPid`: `_next_pid`.

A slot keeps only its node; mode and offset are read only by read, write and
seek, which module FdIo adds. `Init` is the boot state:
- `_fake_fds` holds three entries of the placeholder node `(fs_node_t *)1`, modelled as one node `Stdio` with count 3.
- The user is root.
- `_next_pid` is 1.

Actions, one per operation:
- `SpawnProcess(p, reuse)` is `spawn_process` plus the caller's insertion into the list.
- `ProcessDelete(p)` drops the table reference when a process is reaped. It is modelled from spec section 3, because `process_delete` is not in `src/`.
- `SysSetuid`, `SysClose`, `ProcessMoveFd`.
- `SysOpen` and `SysOpenIsDir` together make up `sys_open`, covering every early return.

Returns that close the node they opened (EEXIST, EACCES, EINVAL, the second
EISDIR) change no state. Handles are `kopen` results: a handle whose count is
0 may be reused, as freed memory is.

Helpers keep the code's names: `ProcessAppendFd`, `FirstFree` (its hole scan),
`ShareTable`, `CloneNodes`, `Reassign` (close and reopen in
`process_move_fd`), `HasPermission` (`has_permission`, not in `src/`, modelled
as the standard owner/other check with root allowed).

### JobControl (built)

`JobControl.tla` models the fields `spawn_process` sets for job control:
- the child's `group` is its own pid;
- `job` and `session` are copied from the parent.

It also models the two calls that change those fields. `sys_setsid` refuses a
process that leads its job (`job == group`); otherwise it sets `session` and
`job` to `group`. `sys_setpgid` is modelled only where the code can succeed.
- pid 0 (the caller) with pgid 0 sets `job` to `group`, unless the caller leads its session.
- Every other argument returns an error with no state change. A pid other than 0 gets ESRCH because `process_from_pid` is a FIXME, and a pgid other than 0 gets EPERM.

`Init` is `_fake_process`, a zeroed static with pid 0 and all three fields 0.
`GetNextPid` is `get_next_pid`'s post-increment. JobControl has no run of its
own: module Kernel composes it with the Scheduler, where processes also exit
and are reaped.

### SyscallDispatch (built)

`SyscallDispatch.tla` models the boundary itself:
- `syscall_handler`: EINVAL above the table, otherwise the bound handler.
- `Handler`, the table as the code binds it, including the swapped hostname entries at 720-721.
- `ptr_validate`: NULL passes, any other out-of-window pointer spins forever with interrupts off (`halted`).
- Every handler of the table except the descriptor handlers (ProcFds, FdIo) and the job-control ones (JobControl):
  - `sys_setuid`, `sys_sethostname`, `sys_gethostname`;
  - `sys_chmod`, `sys_chown`, `sys_mkdir`, `sys_readlink`, `sys_symlink`, `sys_unlink`, `sys_access`;
  - the stat family (`sys_stat`, `sys_statf`, `sys_lstat`, through `stat_node`);
  - `sys_chdir` (`wd` is `wd_name`), `sys_getcwd`, `sys_umask` (`umask` is `mask`);
  - `sys_uname`, `sys_mount`, `sys_sbrk`, `sys_gettimeofday`, `sys_ioctl`, `sys_readdir`;
  - `sys_exit`, which spins inside the syscall and so halts the kernel;
  - the id getters and `sys_getpgid`;
  - every function of `sys_sysfunc`.

  For `sys_stat`, `sys_ioctl` and `sys_readdir`, whether the descriptor is open is a choice, because the table belongs to ProcFds.

A pointer argument is abstracted to its class: `user` (inside the window),
`null`, or `kernel`. Two variables record memory safety:
- `wild` records a kernel access through a pointer outside the window.
- A NULL access page-faults and halts.

The VFS calls behind these handlers are modelled by their interface in spec
section 6, because `vfs.c` is not in `src/`. These are `kopen`, `chmod_fs`,
`chown_fs`, `mkdir_fs`, `readlink_fs`, `symlink_fs`, `unlink_fs` and
`vfs_mount_type`. `symlink_fs` and `unlink_fs` may also refuse, because
their status is the VFS's. Paths are absolute, so `canonicalize_path`
returns them as they are. A link's target lies outside `Paths`, so `kopen`
without `O_NOFOLLOW` finds nothing through it.

`last` is a history variable: the caller, the number and whether the call
failed. Only the action properties read it. `StateView` leaves it out, and
`dispatch_gates` uses it as the `VIEW`. This is sound because no step reads `last`,
and each property reads only the value the step gives it.

### Tmpfs (built)

`Tmpfs.tla` models `tmpfs.c` for one directory:
- `dir` is `d->files`, object ids in list order; `obj` holds each
  `tmpfs_file` (name, type, length, `block_count`, `pointers` (the size of
  the block array, doubled by the loop in `tmpfs_file_getset_block`), link
  target length, and whether it has been freed). `NewObj` is the record
  `tmpfs_file_new`/`tmpfs_dir_new` allocate.
- `HasHook(o, h)` is which fs_node hooks `tmpfs_from_file`,
  `tmpfs_from_link` and `tmpfs_from_dir` set (`FileHooks`, `LinkHooks`,
  `DirHooks`): a link keeps `open` and `truncate`, a directory gets `chmod`
  and `chown`. The VFS calls a hook only when it is set, so each action's
  guard is its hook.
- `open` is the set of objects each process holds an fnode of
  (`fnode->device`), `pc` the operation each process is in the middle of.
- Flags record what the C code does wrong when it happens: `nullBlock`
  (memcpy from the NULL of `tmpfs_file_getset_block`), `uaf` (freed object
  touched),
  `halted` (the copy faulted), `dirAsFile` (`tmpfs_file_free` handed a
  `tmpfs_dir`, which unlink does for a directory; `FileFree`).

Operations are cut where the code drops a lock, because another process can
run there:
- `CreateCheck` / `CreateInsert`: create, mkdir and symlink look the name up
  under `tmpfs_lock`, drop it, and insert under a second acquisition.
  `CreateTmpfs`, `MkdirTmpfs` and `SymlinkTmpfs` are the three entry points;
  they differ only in the type of the new object.
- `ReaddirStart` / `ReaddirTmpfs`: a listing is the user's loop of
  `sys_readdir` calls with index 0, 1, 2, ...; each call is one step, and
  `readdir_tmpfs` takes no lock. `pc` keeps the index and the entries
  already returned.
- `FinddirScan` / `FinddirBuild`: finddir drops the lock before
  `tmpfs_from_file` reads the entry.
- `WriteTmpfs` sets the length with no lock; each `WriteBlock` is one
  `tmpfs_file_getset_block(create=1)` plus its copy under `tmpfs_page_lock`.
- `ReadTmpfs` clamps `end` to the length it reads then; each `ReadBlock`
  maps one block. A missing block gives NULL, and the copy either faults or
  reads whatever page 0 holds (undefined, so both are allowed).
- `FinddirBuild` is followed by `OpenTmpfs`, the `open` hook the VFS calls
  on the node it got back (`open_tmpfs` touches the `tmpfs_file`).
- `TruncateTmpfs` / `TruncateLength`: `truncate_tmpfs` takes no lock, and
  it clears the frames and zeroes `block_count` (one step) one store before
  it zeroes `length` (the second step).
- `UnlinkTmpfs`, `ChmodTmpfs`, `ChownTmpfs`, `SysReadlink` and `CloseFnode`
  are one step each. `chmod_tmpfs`/`chown_tmpfs` cast the
  device to `tmpfs_file` whatever the node is, so they are accesses of the
  object like a read.

`BlockPlan` is the block arithmetic of `read_tmpfs`/`write_tmpfs`
(`start_block`, `end_block`, `end_size`, the first partial block) in bytes,
with `BLOCKSIZE` a small constant standing for 4096. `Embiggen` is the
doubling loop that grows the block array before a block past its end is
set.

### Vga (built)

`Vga.tla` models `vga.c`: the software cursor `csr_x`/`csr_y`, the copy
`store_csr` keeps of it with the output switches, the switches `use_serial`
and `use_csr`, and the attribute byte. `WriteCh` is `writech`'s character
cases (backspace, tab to the next multiple of 8, CR, LF, printable,
dropped) followed by the wrap and `scroll`; `puts` and `vga_print` fold it
over a string. `InitVideo` is `init_video`: `cls` and the cursor home.
`vga_set_color` clamps its arguments and looks them up in
`vga_to_ansi`, with index 16 reading an unknown byte. Abstractions:
- the cells of the text buffer are not kept; every write lands under the
  cursor or at a cell the caller names, so the cursor decides whether a
  write stays in the buffer;
- `move_csr`'s port output is left out; it reads the cursor and changes
  nothing the model keeps;
- the console takes no lock, and each call is one step.

### FdIo (built)

`FdIo.tla` adds what ProcFds leaves out of a descriptor: its mode and offset,
and the length of the file behind it. State:
- `length`: `t->length` of each tmpfs file.
- `fnode`: each `fs_node_t` handle's file and `node->length`.
  `tmpfs_from_file` copies the length once, when `kopen` builds the node.
- `slots`: the caller's table, one `[node, mode, offset]` record per entry.
- `crashed`: a `memcpy` in `read_tmpfs` faulted.
- `last`: a history variable naming the last call and its descriptor.

Actions:
- `SysOpen` is the success path of `sys_open`. It builds the node, truncates if asked (`truncate_tmpfs` zeroes `t->length` only), calls `process_append_fd`, and sets the mode and the offset (`node->length` for O_APPEND).
- `SysClose`, `SysRead`, `SysWrite` and `SysSeek` are the handlers themselves.
- `ReadTmpfs` and `ReadFaults` are `read_tmpfs`'s return value. Past the end of the file, `end - offset` wraps: within one block the wrapped count is copied and the kernel faults; across blocks it is returned.
- `WriteTmpfs` raises `t->length`.

Abstractions:
- One process, whose table starts empty.
- The files exist and the caller may read and write them, so the permission and creation branches of `sys_open` (modelled in ProcFds) are not taken.
- File bytes and blocks are modelled in Tmpfs, not here.
- Error returns that change nothing are stutter steps.

### Scheduler and ProcessLifecycle (built)

The scheduler is declared in `process.h` but implemented outside `src/`, so
`Scheduler.tla` models every operation from spec section 4.3 over the state
`process.h` declares:
- `current` is `current_process`, or `Idle` for `kernel_idle_task`.
- `ready` is `process_queue`, FIFO.
- `sleepers` is `sleep_queue`: each entry is a `sleeper_t`, with the ticks left to its deadline in place of `end_tick`/`end_subtick`.
- `waitq` holds the wait queues.
- `flags` holds `PROC_FLAG_*`.
- `plist` is `process_list`.

Actions:
- `SpawnProcess` (with `make_process_ready`), `SleepOn`, `WakeupQueue`, `WakeupQueueInterrupted` and `SleepUntil`.
- `TaskExit` leaves a zombie on `process_list`.
- `Reap` is `waitpid`.
- `Tick` is the timer: `wakeup_sleepers` then `switch_task(1)`.
- `SwitchTask` is `switch_task`: a preempted, unfinished process goes to the tail, and `next_ready_process` takes the head.

`ProcessLifecycle.tla` is the abstract promise. It keeps one state per
process (NEW, READY, RUNNING, BLOCKED, SLEEPING, FINISHED, REAPED) and
allows, in one step:
- waking blocked or sleeping processes;
- moving the running one out;
- dispatching a READY one when none runs.

Admission and reaping are separate steps. Scheduler maps its queues onto
these states with `LifeState`: finished-and-listed is FINISHED, on the CPU
is RUNNING, on `ready` is READY, on the sleep queue is SLEEPING, and on a
wait queue is BLOCKED. `Life == INSTANCE ProcessLifecycle WITH lstate <-
LifeState` makes `Life!Spec` a property.

### Kernel (built)

`Kernel.tla` composes Scheduler and JobControl over pids `1..MaxPid`:
- A spawn is `spawn_process` with `current_process` as parent, so the child inherits the running process's job and session. Until the first switch, `current_process` is `_fake_process` (pid 0, `process.c:36`).
- The new pid goes onto the ready queue.
- `sys_setsid` and `sys_setpgid` run as the running process.
- JobControl's live set is `process_list` plus pid 0, so exiting and reaping remove processes from it.

### DhcpClient (built)

`DhcpClient.tla` models `src/apps/dhcp_bitbanger.c`, the user-space DHCP
test utility. The spec leaves it out of the kernel core, but it is the one
program here that talks to other machines. Its state:
- `pc` is where `main` is;
- `yiaddr` and `siaddr` are `main`'s locals;
- `toServer` and `toClient` are the frames in flight, as sets, so they are delivered in any order.

The client's actions follow `main` line by line:
- `GetMacAddress` is the ioctl; on failure `main` returns 1;
- `SendDiscover` is `fill(8)` and write;
- `ReadOffer` is one pass of the first read loop: skip a frame that is not for port 68, else take yiaddr and siaddr and break;
- `SendRequest` is `fill(14)`, then ciaddr and siaddr, then write;
- `ReadAck` is the second loop, which prints "ACK returns".

A read that returns `rsize <= 0` changes nothing, so it is a stutter step.

`Fill` carries the IP checksum. `Ipv4Checksum` is `calculate_ipv4_checksum`
over the ten header words. An `ASSUME`, which TLC evaluates on every run,
checks it against `Rfc1071Checksum`, a RECURSIVE end-around-carry fold, for
the two headers `fill` builds. Their sum carries only once, so the single
fold at lines 147-149 gives the right checksum for every frame this
program sends.

The environment is not repository code:
- servers (`ServerOffer`, `ServerReply`), which answer as RFC 2131 section 4.3 says: an OFFER from the pool, and an ACK for the address they offered or else a NAK;
- `Stray`, unrelated frames to other ports;
- `Lose`, the network dropping a frame in either direction.

### Further work

1. Tmpfs: nested directories (`tmpfs_dir` inside `tmpfs_dir`, where unlink of a non-empty directory frees its entries' parent), and a composition with ProcFds so that unlink meets descriptor reference counts.
2. **ProcFdsSmp**: the unlocked `refs++` and `_next_pid++` split into load and store steps on two CPUs, against the spec's table-level locking (section 5).
3. Vga: the colour lookup past `vga_to_ansi` (`vga_set_color(16, ...)`) is modelled as a nondeterministic byte, but no run checks it.

## 3. Runs

Both ProcFds runs (`procfds_core`, `open_error_leak`) use `MC_ProcFds.tla`. It defines three paths:
- `secret`: a root-owned file with mode 0600;
- `tmp`: a root-owned directory with mode 0777;
- `new`: absent until created.

It also defines six flag sets covering every `sys_open` branch (read only,
WRONLY, RDWR|CREAT, CREAT|EXCL, CREAT|TRUNC, DIRECTORY) and the creation mode
0644. Handles are symmetric model values.

| Run | cfg | Expect | Checks |
|---|---|---|---|
| `procfds_core` | `MC_ProcFds.cfg` | pass | `TypeOK`, `NoFreedTableInUse`, `NoNodeFreedWhileHeld`, `NewFdIsLowest` |
| `open_error_leak` | `MC_ProcFdsLeak.cfg` | violation | `NodeRefsMatchHolders` |
| `fdio_stale_length` | `MC_FdIoStaleLength.cfg` | violation | `OffsetsFollowTheFile` |
| `kernel` | `MC_Kernel.cfg` | pass | `TypeOK`, `OnePlaceEach`, `JobInOneSession`, `EventuallyRuns`, `LifecycleRefined` |
| `dispatch_gates` | `MC_SyscallDispatch.cfg` | pass | `TypeOK`, `PrivilegedChangeByAuthorised`, `ErrorsLeaveStateUnchanged` |
| `hostname_swap` | `MC_SyscallHostname.cfg` | violation | `HostnameOnlyBySethostname` |
| `user_pointers` | `MC_SyscallPtr.cfg` | violation | `NoWildAccess` (pointers: user, NULL, kernel; calls that dereference in `syscall.c`) |
| `tmpfs_core` | `MC_Tmpfs.cfg` | pass | `TypeOK`, `ListingNeverRepeats`, `BlocksFitArray` |
| `tmpfs_duplicate_names` | `MC_TmpfsUniqueNames.cfg` | violation | `UniqueNames` |
| `tmpfs_memory_safety` | `MC_TmpfsMemorySafety.cfg` | violation | `ReadsMapExistingBlocks` |
| `vga_cursor` | `MC_Vga.cfg` | pass | `TypeOK`, `CursorOnScreen` |
| `dhcp_reply_check` | `DhcpClient.cfg` | violation | `ReportedAddressIsAcked` |

Bounds:
- `procfds_core`:
  - Two processes (`MaxPid = 1`), so a child can share or copy the boot table and then exit.
  - Users 0 and 1, so setuid makes a non-root caller that `secret` refuses.
  - One handle besides the stdio node, symmetric.
  - `MaxFds = 4`, so an open either fills a hole left by closing a stdio slot or grows the table one past its boot length of 3, and `process_move_fd` with dest -1 appends.

What the properties say:
- `NoFreedTableInUse`: no live process uses a table whose `refs` reached 0.
- `NoNodeFreedWhileHeld`: a node's reference count is at least the number of slots of allocated tables that hold it.
- `NewFdIsLowest`: a newly opened node lands at an index with no hole below it.
- `NodeRefsMatchHolders`: the count equals the number of holders, which is what "errors leave state unchanged" (spec section 7) requires.

Finding: `sys_open` returns `-EISDIR` (line 346) and `-ENOTDIR` (line 366)
without `close_fs`. TLC reaches a state where a node has count 1 and no
holder in two steps.

`fdio_stale_length` uses `MC_FdIo.tla` with:
- one file and two node handles, symmetric;
- a table of two descriptors;
- `BLOCKSIZE = 3` and lengths and offsets up to 4, so an offset can lie in a later block than the end;
- 2-byte reads and writes, and seeks by 0 and 1 from each whence;
- five flag sets: O_RDONLY, O_RDWR, O_WRONLY|O_APPEND, O_RDWR|O_TRUNC and O_WRONLY|O_TRUNC|O_APPEND.

`OffsetsFollowTheFile` is an action property on the history variable
`last`. It says three things:
- an O_APPEND open starts at the file's current end (spec 4.4);
- SEEK_END counts from the current end;
- a read that returns never moves the offset back.

Finding: TLC breaks it in three steps. A write of 2 bytes, then
`open(O_WRONLY|O_TRUNC|O_APPEND)` gives offset 2 in a file `truncate_fs` has
just emptied, because `sys_open` reads `node->length` (`syscall.c:388`), the
copy `tmpfs_from_file` made before the truncate. `SEEK_END` (415) reads the
same copy, which no write updates. Without the O_APPEND flag sets and whence
2, the trace is open, write 2, seek +1, read: `read_tmpfs` returns -1 past
the end, and `sys_read` (434) moves the offset back to 2. With offset 1 in an
empty file the same read faults instead (`crashed`), so the cfg turns
deadlock checking off.

`kernel` uses `MC_Kernel.tla` with:
- three pids;
- one wait queue;
- sleeps of 1 and 2 ticks, so a later sleeper can wake first;
- weak fairness of the timer tick, and no symmetry (liveness is checked).

Its properties:
- `OnePlaceEach`: every live process is on the CPU or once on exactly one queue, and a zombie is on none (spec 4.3's single membership).
- `JobInOneSession`: the members of one job share a session. It holds because setsid refuses job leaders, setpgid(0, 0) refuses session leaders, and pids are never reused, so it survives a leader that exits and is reaped. Without the setsid guard, TLC breaks it in five steps: spawn, dispatch, setpgid, spawn, setsid.
- `EventuallyRuns`: every ready or sleeping process runs again.
- `LifecycleRefined`: `Life!Spec`, the abstract lifecycle.

A child inherits the parent's job and session at spawn. Any process may be
running when setsid or setpgid is called.

The `dispatch_gates` run and the two `SyscallDispatch` violation runs use
`MC_SyscallDispatch.tla`. It has one caller, which starts as root and can
setuid itself to 1. The call uses one short host name, a 256-character name,
a root-owned symlink, an absent path, two masks, one umask argument
(`01022`, which `& 0777` cuts to `022`), and every number the table binds
plus an unbound one. No mask has the search bit, so only root can `chdir`.
`dispatch_gates` passes user and NULL pointers. The kernel class only halts
the kernel or sets `wild`, which `user_pointers` checks, and including it
doubles the run.
- `PrivilegedChangeByAuthorised`: the hostname, the mount table, an existing file's owner, and any return to uid 0 change only for an effective root. A mask changes only for root or the owner. This holds even through the swapped table entries.
- `ErrorsLeaveStateUnchanged` is spec section 7's rule. It holds for every modelled handler.

Findings:
- `hostname_swap`: root's `gethostname` overwrites the host name (`syscall.c:720-721`).
- `user_pointers`: NULL passes `ptr_validate`. The run's cfg offers only the calls whose handler reads or writes through its pointer in `syscall.c` itself (`MCSrcDerefNums`: uname, stat, readdir, sysfunc and the two hostname calls), so that a trace never rests on kopen, the VFS or `gettimeofday`, which are not in `src/`. TLC's trace is one call, `uname(NULL)`, whose `strcpy` into `name->sysname` (611) writes through NULL. Independently, SETHEAP and MMAP load `args[0]` (165, 169) with no `PTR_VALIDATE` at all: restricting `Ptrs` to `{"user", "kernel"}` gives a one-call trace through a kernel address. `sys_mkdir` and `sys_readlink`'s buffer pass unvalidated pointers to the VFS the same way; the dispatch model keeps them, but this run does not offer them.

The Tmpfs runs use `MC_Tmpfs.tla`: two symmetric processes, one name, two
objects, `BLOCKSIZE = 3`, files of up to 7 bytes (three blocks), reads and
writes of 2 bytes at offsets 0, 2 and 5 (`Offsets`), and link targets of 2
bytes. One name is enough for every name clash; two objects allow a create
after an unlink and two entries of one name. The offsets give a transfer
inside block 0, one across the 0-1 boundary, and one across 1-2 that needs
block 2, one past the two slots a new file's block array has, so the array
must grow; offset 5 also starts past the end of any shorter file.
- `ListingNeverRepeats`: one listing never returns the same entry twice,
  whatever creates and unlinks run between its calls. It holds because
  `list_insert` appends at the tail and an unlink only moves later entries
  towards the head. Entries can be skipped; that is what the code does and
  is not claimed otherwise.
- `BlocksFitArray`: a file's `block_count` never exceeds the slots of its
  block array. `tmpfs_file_getset_block` doubles the array until the block
  fits, then writes the pointer; a loop that stops one doubling early writes
  past the allocation.

Findings:
- `tmpfs_duplicate_names`: two creates of one name both pass the check before
  either inserts (`tmpfs.c:443`).
- `tmpfs_memory_safety`: `ReadsMapExistingBlocks` says every block
  `read_tmpfs` asks `tmpfs_file_getset_block` for is one the file has. TLC's
  trace reads 2 bytes at offset 2 of an empty file: `end` is clamped to 0,
  the offset is not checked against it, block 0 does not exist, so
  `getset_block` returns NULL (158) and `read_tmpfs` copies the wrapped
  `end - offset` (188) from it. Two interleavings reach the same NULL. With
  `Offsets = {0}`, TLC's trace is a read between a write's length update
  (226) and its first block. With that window also excluded by a state
  constraint, the trace is a read between truncate's `block_count = 0`
  (285) and `length = 0` (286).
- The model also records two defects no run checks, because the run above
  is about the NULL read: `uaf` (unlink frees a file that an open fnode, or
  a finddir between its scan and `tmpfs_from_file`, still points at, 411
  and 385) and `dirAsFile` (unlink of a directory hands a `tmpfs_dir` to
  `tmpfs_file_free`, 131). Both are listed as hazards.
- `readlink_tmpfs` returns `size - 2` for a truncated string of `size - 1` bytes (101). The model keeps the copy and the return, but no run compares them; it is listed as a hazard.

Each property of a passing run has a mutant that breaks it (see
`PROJECT.json`):
- a hole scan from the top;
- a shared spawn without `refs++`;
- a copy without `clone_fs`;
- a move without `open_fs`;
- an append that grows the table one slot past the new length;
- setsid without its guard;
- chown allowed to owners;
- `hostname_len` set before the length check;
- THREADNAME counting the NULL terminator.
- a block array grown one slot at a time instead of doubled (breaks `TypeOK`'s power-of-two size), and a doubling loop that stops one step early;
- a create that inserts at the head of the directory list;
- `scroll` testing `csr_y > 25`, one row late;
- backspace without its `csr_x != 0` test;
- `wakeup_sleepers` testing `end < now`, one tick late;
- `task_exit` rescheduling with `switch_task(1)`, which requeues the finished process;
- `next_ready_process` taking the tail of the queue, which starves the head;
- `task_exit` deleting the record itself, so no zombie is left for `waitpid`.

`vga_cursor` runs a 16x2 screen standing for 80x25: two tab stops per row,
and a second row so that LF, wrap and scroll on the last row all happen.
Characters are one printable, one dropped control code, BS, TAB, CR and LF,
with strings of up to 2 characters for `puts` and `vga_print`.
`CursorOnScreen` says that between calls the cursor, and the copy
`store_csr` keeps, are inside the buffer, so the next character goes into
the 80x25 text memory. Tabs, wraps, newlines on the last row and a
`restore_csr` of a stale copy are all included.

`dhcp_reply_check` runs `DhcpClient.tla` with:
- two servers, because a link with more than one DHCP server is the case RFC 2131 designs the xid and the server identifier for;
- two pool addresses;
- one frame to port 53.

`ReportedAddressIsAcked` says that the address `main` prints after "ACK
returns" is one that some server acknowledged.

Finding: TLC breaks it in eight steps:
1. both servers send an OFFER;
2. the client reads server 1's OFFER and requests its address;
3. server 2's OFFER, still in flight, is the next port-68 frame, and the second loop (`dhcp_bitbanger.c:323`) takes it for the ACK.

A NAK is taken the same way. Neither loop checks the xid or the message
type (option 53).

The model also reaches states where the client waits forever: its
DISCOVER, REQUEST or the reply was lost, and `main` never retransmits. The
run therefore does not check deadlock. This is listed as a hazard, because
there is no retry code whose behaviour a property could check.

## 4. Atomicity and fairness

Each system call is one step. This matches the uniprocessor build:
- the syscall runs from an interrupt gate;
- none of the modelled handlers sleeps;
- the code takes no lock around tables.

Races on SMP are left to the planned ProcFdsSmp module.

Tmpfs is different: its code takes `tmpfs_lock` and `tmpfs_page_lock`, and
spec section 5 has locks taken while interrupts fire on other cores, so its
callers do run concurrently. Each step is one critical section or one
lock-free stretch. No section under `tmpfs_lock` waits on anything else, so
the lock is implicit in the atomic step. `tmpfs_page_lock` is taken and
released within one block step. Deadlock checking is off for Tmpfs: a fault
halts the kernel, and the object bound stops creates.

Liveness is claimed only for the scheduler (`EventuallyRuns` in the
`kernel` run). The only fairness assumed is weak fairness of the timer tick
(`Tick`: `wakeup_sleepers` then `switch_task(1)`). The timer interrupt fires
whatever processes do, and `Tick` is always enabled. Nothing obliges a
process to sleep, exit, spawn or wake another, so no other action is fair.
Under this assumption a process on a wait queue that nobody wakes stays
blocked, and `EventuallyRuns` claims nothing for it.

Deadlock checking:
- ProcFds: checked. Pid 0 can always open or close, so it never stops.
- SyscallDispatch: off, because the kernel really stops once `ptr_validate` spins or a NULL access faults.
- Vga: checked. Every call is always enabled.
- Kernel: checked. The tick is always enabled.
- FdIo: off, because a read that faults halts the kernel.
- DhcpClient: off, because `main` blocks in `read` for good once a frame it waits for is lost.

## 5. Not modelled

- procfs. Its files format process and system state into buffers and keep no state of their own. The process state they read, `process_list` and `process_tree`, is never filled in this repository: `spawn_process` leaves both inserts as FIXMEs, so `process_from_pid` and the list walks only ever see the init process. Its hazards (an unlocked `process_list` walk, `process_get_parent` before a NULL check, `strcpy` into a fixed buffer) are listed in `PROJECT.json`.
- tmpfs: `tmpfs_mount`'s parse of the mode digits (string handling; the mask it sets is stored and never read by the modelled code), and directories inside directories (one directory is modelled; see Further work).
- Boot code.
- The tokenizer.
- The assembly syscall stubs.
- The VFS itself (`vfs.c` is not in `src/`). Its reference counting and `has_permission` are modelled from the spec and marked so in the map.
