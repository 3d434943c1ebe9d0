--------------------------- MODULE SyscallDispatch ---------------------------
(***************************************************************************)
(* The system-call boundary: syscall_handler, the syscalls[] table and the *)
(* handlers of src/kernel/sys/syscall.c that take user pointers or change  *)
(* global or privileged state.                                             *)
(*                                                                         *)
(* A user pointer is one of three classes: "user" (inside the window       *)
(* PTR_INRANGE accepts), "null", or "kernel" (at or above the split).      *)
(* ptr_validate lets NULL through and spins forever on anything else out   *)
(* of range; a syscall enters through an interrupt gate, so the spin stops *)
(* the machine: halted.  A kernel access through a pointer that was not    *)
(* in the window is recorded in wild; through NULL it page-faults and also *)
(* halts, through a kernel address it silently reads or corrupts kernel    *)
(* memory (what it reads is any value).  The VFS behind kopen, chmod_fs,   *)
(* chown_fs, mkdir_fs, readlink_fs and vfs_mount_type is not in src/ and   *)
(* is modelled by its interface (spec section 6).  Paths are absolute, so  *)
(* canonicalize_path returns them as they are; a link's target lies       *)
(* outside Paths, so kopen without O_NOFOLLOW finds nothing through it.    *)
(***************************************************************************)
EXTENDS Naturals, FiniteSets, TLC

CONSTANTS
  Procs,      \* calling processes (all spawned from the root boot process)
  Users,      \* uids; 0 is USER_ROOT_UID
  Names,      \* host names short enough for hostname[256]
  LongName,   \* a host name of 256 characters or more
  Paths,      \* paths passed to the path-taking calls
  Modes,      \* permission masks passed to chmod / mkdir
  InitFiles,  \* [Paths -> FileRec]: the file tree at boot
  SysNums,    \* syscall numbers user code issues (SYS_* names, and "SYS_BAD")
  Ptrs,       \* pointer classes user code passes: "user", "null", "kernel"
  UmaskArgs,  \* values passed to umask
  ExecModes   \* masks of Modes with the search (x) bit for owner and others

Kinds   == {"none", "file", "dir", "link"}
FileRec == [kind : Kinds, uid : Users, mask : Modes]
SysFuncs == {"THREADNAME", "SETHEAP", "MMAP", "SETGSBASE", "SYNC"}
NoName  == "(empty)"   \* hostname_len = 0 at boot
Root    == "/"         \* _fake_process.wd_name, inherited by every spawn

ASSUME /\ Ptrs \subseteq {"user", "null", "kernel"} /\ "user" \in Ptrs
       /\ 0 \in Users
       /\ LongName \notin Names
       /\ InitFiles \in [Paths -> FileRec]
       /\ UmaskArgs \subseteq Nat /\ ExecModes \subseteq Modes

\* syscalls[]: the handler each number is bound to, in the table's order.
\* SYS_SETHOSTNAME and SYS_GETHOSTNAME are bound as the table binds them.
Handler ==
     ("SYS_EXT"          :> "sys_exit")        @@ ("SYS_GETEUID"     :> "sys_getuid")
  @@ ("SYS_GETTIMEOFDAY" :> "sys_gettimeofday") @@ ("SYS_GETPID"     :> "sys_getpid")
  @@ ("SYS_SBRK"         :> "sys_sbrk")        @@ ("SYS_UNAME"       :> "sys_uname")
  @@ ("SYS_STAT"         :> "sys_stat")        @@ ("SYS_GETUID"      :> "sys_getuid")
  @@ ("SYS_SETUID"       :> "sys_setuid")      @@ ("SYS_READDIR"     :> "sys_readdir")
  @@ ("SYS_CHDIR"        :> "sys_chdir")       @@ ("SYS_GETCWD"      :> "sys_getcwd")
  @@ ("SYS_SETHOSTNAME"  :> "sys_gethostname") @@ ("SYS_GETHOSTNAME" :> "sys_sethostname")
  @@ ("SYS_MKDIR"        :> "sys_mkdir")       @@ ("SYS_GETTID"      :> "sys_getpid")
  @@ ("SYS_SYSFUNC"      :> "sys_sysfunc")     @@ ("SYS_IOCTL"       :> "sys_ioctl")
  @@ ("SYS_ACCESS"       :> "sys_access")      @@ ("SYS_STATF"       :> "sys_statf")
  @@ ("SYS_CHMOD"        :> "sys_chmod")       @@ ("SYS_UMASK"       :> "sys_umask")
  @@ ("SYS_UNLINK"       :> "sys_unlink")      @@ ("SYS_MOUNT"       :> "sys_mount")
  @@ ("SYS_SYMLINK"      :> "sys_symlink")     @@ ("SYS_READLINK"    :> "sys_readlink")
  @@ ("SYS_LSTAT"        :> "sys_lstat")       @@ ("SYS_CHOWN"       :> "sys_chown")
  @@ ("SYS_GETPGID"      :> "sys_getpgid")     @@ ("SYS_FORK"        :> "unimplemented")

VARIABLES
  wd,        \* proc->wd_name
  umask,     \* proc->mask
  user,      \* proc->user (effective uid)
  realUser,  \* proc->real_user
  hostname,  \* hostname / hostname_len
  files,     \* what kopen finds at each path: kind, owner, mask
  mounts,    \* mount points vfs_mount_type has attached
  cmdline,   \* number of strings THREADNAME copied into proc->cmdline
  heap,      \* image.heap, as the class of address it holds
  wild,      \* the kernel touched memory through an unvalidated pointer
  halted,    \* the kernel is spinning in ptr_validate or has faulted
  last       \* the last call: caller, number, and whether it failed

vars == <<wd, umask, user, realUser, hostname, files, mounts, cmdline, heap, wild, halted, last>>

-----------------------------------------------------------------------------
(* Boundary checks                                                         *)

PtrInRange(a) == a = "user"

\* ptr_validate: NULL passes; any other pointer out of the window halts.
PtrValidate(a) == a \in {"user", "null"}

Ret(p, n, ok) == last' = [pid |-> p, num |-> n, ok |-> ok]

\* A call that ends at a failed ptr_validate: it never returns.
Halt(p, n) == /\ halted' = TRUE
              /\ Ret(p, n, FALSE)
              /\ UNCHANGED <<wd, umask, user, realUser, hostname, files, mounts, cmdline, heap, wild>>

\* A call whose kernel access through the NULL pointer a page-faults: the
\* kernel stops and the call never returns.
Fault(p, n, a) == /\ wild' = TRUE
                  /\ halted' = TRUE
                  /\ Ret(p, n, FALSE)
                  /\ UNCHANGED <<wd, umask, user, realUser, hostname, files, mounts, cmdline, heap>>

\* A handler's error return: no state changes.
Fail(p, n) == /\ Ret(p, n, FALSE)
              /\ UNCHANGED <<wd, umask, user, realUser, hostname, files, mounts, cmdline, heap, wild, halted>>

\* unimplemented: the handler of sys_fork and the table's other stubs
\* prints the call's name and returns -EINVAL.
Unimplemented(p, n) == Fail(p, n)

-----------------------------------------------------------------------------
(* Handlers; a0, a1 are the pointer arguments, s the string a0 points to   *)

SysSetuid(p, n, u) ==
  IF user[p] = 0
    THEN /\ user' = [user EXCEPT ![p] = u]
         /\ realUser' = [realUser EXCEPT ![p] = u]
         /\ Ret(p, n, TRUE)
         /\ UNCHANGED <<wd, umask, hostname, files, mounts, cmdline, heap, wild, halted>>
    ELSE Fail(p, n)

\* Mutant: hostname_len takes the new length before the length check, so a
\* refused name leaves a different (truncated or overrun) host name.
SysSethostnameLenFirst(p, n, a0, s) ==
  CASE user[p] # 0       -> Fail(p, n)
    [] ~PtrValidate(a0)  -> Halt(p, n)
    [] a0 = "null"       -> Fault(p, n, a0)
    [] s = LongName      -> /\ hostname' \in Names \ {hostname}
                            /\ Ret(p, n, FALSE)
                            /\ UNCHANGED <<wd, umask, user, realUser, files, mounts, cmdline, heap, wild, halted>>
    [] OTHER             -> /\ hostname' = s
                            /\ Ret(p, n, TRUE)
                            /\ UNCHANGED <<wd, umask, user, realUser, files, mounts, cmdline, heap, wild, halted>>

\* sys_sethostname(a0): root only; the name (with its NUL) must fit.
SysSethostname(p, n, a0, s) ==
  CASE user[p] # 0       -> Fail(p, n)
    [] ~PtrValidate(a0)  -> Halt(p, n)
    [] a0 = "null"       -> Fault(p, n, a0)
    [] s = LongName      -> Fail(p, n)
    [] OTHER             -> /\ hostname' = s
                            /\ Ret(p, n, TRUE)
                            /\ UNCHANGED <<wd, umask, user, realUser, files, mounts, cmdline, heap, wild, halted>>

\* sys_gethostname(a0): copies hostname_len bytes out; nothing is copied
\* while the name is empty.
SysGethostname(p, n, a0) ==
  CASE ~PtrValidate(a0)                   -> Halt(p, n)
    [] a0 = "null" /\ hostname # NoName   -> Fault(p, n, a0)
    [] OTHER -> /\ Ret(p, n, TRUE)
                /\ UNCHANGED <<wd, umask, user, realUser, hostname, files, mounts, cmdline, heap, wild, halted>>

\* sys_chmod(a0 = file, mode): the owner or root may change the mask.
SysChmod(p, n, a0, path, m) ==
  CASE ~PtrValidate(a0)                  -> Halt(p, n)
    [] a0 = "null"                       -> Fault(p, n, a0)
    [] files[path].kind = "none"         -> Fail(p, n)
    [] user[p] # 0 /\ user[p] # files[path].uid -> Fail(p, n)
    [] OTHER -> /\ files' = [files EXCEPT ![path].mask = m]
                /\ Ret(p, n, TRUE)
                /\ UNCHANGED <<wd, umask, user, realUser, hostname, mounts, cmdline, heap, wild, halted>>

\* Mutant: chown lets owners give files away, like chmod.
SysChownByOwner(p, n, a0, path, u) ==
  CASE ~PtrValidate(a0)                  -> Halt(p, n)
    [] a0 = "null"                       -> Fault(p, n, a0)
    [] files[path].kind = "none"         -> Fail(p, n)
    [] user[p] # 0 /\ user[p] # files[path].uid -> Fail(p, n)
    [] OTHER -> /\ files' = [files EXCEPT ![path].uid = u]
                /\ Ret(p, n, TRUE)
                /\ UNCHANGED <<wd, umask, user, realUser, hostname, mounts, cmdline, heap, wild, halted>>

\* sys_chown(a0 = file, uid): root only.
SysChown(p, n, a0, path, u) ==
  CASE ~PtrValidate(a0)                  -> Halt(p, n)
    [] a0 = "null"                       -> Fault(p, n, a0)
    [] files[path].kind = "none"         -> Fail(p, n)
    [] user[p] # 0                       -> Fail(p, n)
    [] OTHER -> /\ files' = [files EXCEPT ![path].uid = u]
                /\ Ret(p, n, TRUE)
                /\ UNCHANGED <<wd, umask, user, realUser, hostname, mounts, cmdline, heap, wild, halted>>

\* sys_mkdir(a0 = path, mode): no ptr_validate; mkdir_fs reads the path
\* (from kernel memory, any path) and creates a directory if it is absent.
SysMkdir(p, n, a0, path, m) ==
  IF a0 = "null"
    THEN Fault(p, n, a0)
    ELSE /\ wild' = (wild \/ a0 # "user")
         /\ IF files[path].kind = "none"
              THEN /\ files' = [files EXCEPT ![path] = [kind |-> "dir", uid |-> user[p], mask |-> m]]
                   /\ Ret(p, n, TRUE)
              ELSE /\ UNCHANGED files
                   /\ Ret(p, n, FALSE)
         /\ UNCHANGED <<wd, umask, user, realUser, hostname, mounts, cmdline, heap, halted>>

\* sys_readlink(a0 = file, a1 = buffer): only the file is validated;
\* readlink_fs writes the target through a1 when the node is a link.
SysReadlink(p, n, a0, a1, path) ==
  CASE ~PtrValidate(a0)                  -> Halt(p, n)
    [] a0 = "null"                       -> Fault(p, n, a0)
    [] files[path].kind # "link"         -> Fail(p, n)
    [] a1 = "null"                       -> Fault(p, n, a1)
    [] OTHER -> /\ wild' = (wild \/ a1 # "user")
                /\ Ret(p, n, TRUE)
                /\ UNCHANGED <<wd, umask, user, realUser, hostname, files, mounts, cmdline, heap, halted>>

\* sys_uname(a0): strcpy of every field into *a0.
SysUname(p, n, a0) ==
  CASE ~PtrValidate(a0) -> Halt(p, n)
    [] a0 = "null"      -> Fault(p, n, a0)
    [] OTHER -> /\ Ret(p, n, TRUE)
                /\ UNCHANGED <<wd, umask, user, realUser, hostname, files, mounts, cmdline, heap, wild, halted>>

\* sys_mount(a0 = source and type, a1 = mount point): root only; pointers
\* outside the window are refused with EFAULT rather than validated.
SysMount(p, n, a0, a1, path) ==
  IF user[p] = 0 /\ PtrInRange(a0) /\ PtrInRange(a1)
    THEN /\ mounts' = mounts \cup {path}
         /\ Ret(p, n, TRUE)
         /\ UNCHANGED <<wd, umask, user, realUser, hostname, files, cmdline, heap, wild, halted>>
    ELSE Fail(p, n)

\* Mutant: the count includes the NULL that ends argv.
SysThreadnameCountNull(p, n, a0, a1) ==
  CASE ~PtrValidate(a0) -> Halt(p, n)
    [] a0 = "null"      -> Fault(p, n, a0)
    [] OTHER -> /\ wild' = (wild \/ a1 = "kernel")
                /\ cmdline' = [cmdline EXCEPT ![p] = IF a1 = "null" THEN 2 ELSE 3]
                /\ Ret(p, n, TRUE)
                /\ UNCHANGED <<wd, umask, user, realUser, hostname, files, mounts, heap, halted>>

\* sys_sysfunc(TOARU_SYS_FUNC_THREADNAME, a0): a0 is the argv array whose
\* first string is in user memory and whose second entry is a1 (NULL ends
\* it).  The loop validates args[0] each time instead of arg, then strdups
\* every entry.
SysThreadname(p, n, a0, a1) ==
  CASE ~PtrValidate(a0) -> Halt(p, n)
    [] a0 = "null"      -> Fault(p, n, a0)
    [] OTHER -> /\ wild' = (wild \/ a1 = "kernel")
                /\ cmdline' = [cmdline EXCEPT ![p] = IF a1 = "null" THEN 1 ELSE 2]
                /\ Ret(p, n, TRUE)
                /\ UNCHANGED <<wd, umask, user, realUser, hostname, files, mounts, heap, halted>>

\* TOARU_SYS_FUNC_SETHEAP: image.heap = args[0], read without validating
\* args (a0); the value is a1.
SysSetheap(p, n, a0, a1) ==
  IF a0 = "null"
    THEN Fault(p, n, a0)
    ELSE /\ wild' = (wild \/ a0 = "kernel")
         /\ \E v \in IF a0 = "kernel" THEN Ptrs ELSE {a1} : heap' = [heap EXCEPT ![p] = v]
         /\ Ret(p, n, TRUE)
         /\ UNCHANGED <<wd, umask, user, realUser, hostname, files, mounts, cmdline, halted>>

\* TOARU_SYS_FUNC_MMAP: maps frames for [args[0], args[0] + args[1]) with
\* neither args nor the range checked; a range at kernel addresses (a1)
\* remaps kernel memory for the caller.
SysMmap(p, n, a0, a1) ==
  IF a0 = "null"
    THEN Fault(p, n, a0)
    ELSE /\ wild' = (wild \/ a0 = "kernel" \/ a1 = "kernel")
         /\ Ret(p, n, TRUE)
         /\ UNCHANGED <<wd, umask, user, realUser, hostname, files, mounts, cmdline, heap, halted>>

\* TOARU_SYS_FUNC_SETGSBASE: args is validated, then args[0] is loaded as
\* the thread's TLS base (a register value nothing in the kernel reads).
SysSetgsbase(p, n, a0, a1) ==
  CASE ~PtrValidate(a0) -> Halt(p, n)
    [] a0 = "null"      -> Fault(p, n, a0)
    [] OTHER -> /\ Ret(p, n, TRUE)
                /\ UNCHANGED <<wd, umask, user, realUser, hostname, files, mounts, cmdline, heap, wild, halted>>

\* sys_sbrk(size): an unaligned size is EINVAL; otherwise frames are
\* mapped from image.heap up and the heap moves.  The heap keeps its class:
\* a heap set at NULL or a kernel address maps frames outside the window.
SysSbrk(p, n, aligned) ==
  IF ~aligned
    THEN Fail(p, n)
    ELSE /\ wild' = (wild \/ heap[p] # "user")
         /\ Ret(p, n, TRUE)
         /\ UNCHANGED <<wd, umask, user, realUser, hostname, files, mounts, cmdline, heap, halted>>

\* sys_sysfunc(fn, args): the functions that do something, and EINVAL
\* for the unimplemented ones (SYNC stands for all of them).
SysSysfunc(p, n, fn, a0, a1) ==
  CASE fn = "THREADNAME" -> SysThreadname(p, n, a0, a1)
    [] fn = "SETHEAP"    -> SysSetheap(p, n, a0, a1)
    [] fn = "MMAP"       -> SysMmap(p, n, a0, a1)
    [] fn = "SETGSBASE"  -> SysSetgsbase(p, n, a0, a1)
    [] OTHER             -> Fail(p, n)

\* A handler's successful return that changes no state.
Succeed(p, n) == /\ Ret(p, n, TRUE)
                 /\ UNCHANGED <<wd, umask, user, realUser, hostname, files, mounts, cmdline, heap, wild, halted>>

\* What kopen(path, flags) reaches: the entry, or through a link (without
\* O_NOFOLLOW) its target, which is outside Paths.
KopenKind(path, nofollow) ==
  IF files[path].kind = "link" /\ ~nofollow THEN "none" ELSE files[path].kind

\* has_permission(node, 01) for a directory: root, or a mask with the x bit.
HasSearch(u, f) == u = 0 \/ f.mask \in ExecModes

\* sys_exit: prints and spins in while (1) inside the syscall, which
\* entered through an interrupt gate: the kernel never runs anything else.
SysExit(p, n) == Halt(p, n)

\* stat_node(fn, st): PTR_VALIDATE(st), then memset or field stores
\* through st; -ENOENT when kopen found nothing.
StatNode(p, n, found, st) ==
  CASE ~PtrValidate(st) -> Halt(p, n)
    [] st = "null"      -> Fault(p, n, st)
    [] OTHER            -> IF found THEN Succeed(p, n) ELSE Fail(p, n)

\* sys_stat(fd, st): st is validated before FD_CHECK; open says whether
\* the descriptor is open (the table is module ProcFds's).
SysStat(p, n, st, open) ==
  CASE ~PtrValidate(st) -> Halt(p, n)
    [] ~open            -> Fail(p, n)
    [] OTHER            -> StatNode(p, n, TRUE, st)

\* sys_statf and sys_lstat(file, st): both pointers validated, kopen (with
\* O_NOFOLLOW for lstat), stat_node, close_fs.
SysStatf(p, n, a0, st, path, nofollow) ==
  CASE ~PtrValidate(a0) \/ ~PtrValidate(st) -> Halt(p, n)
    [] a0 = "null"                          -> Fault(p, n, a0)
    [] OTHER -> StatNode(p, n, KopenKind(path, nofollow) # "none", st)

SysLstat(p, n, a0, st, path) == SysStatf(p, n, a0, st, path, TRUE)

\* sys_symlink(target, name): symlink_fs creates a link owned by the
\* caller where nothing is, and may refuse (its status).
SysSymlink(p, n, a0, a1, path) ==
  CASE ~PtrValidate(a0) \/ ~PtrValidate(a1) -> Halt(p, n)
    [] a0 = "null" \/ a1 = "null"           -> Fault(p, n, "null")
    [] files[path].kind # "none"            -> Fail(p, n)
    [] OTHER -> \/ Fail(p, n)
                \/ /\ files' = [files EXCEPT ![path].kind = "link", ![path].uid = user[p]]
                   /\ Ret(p, n, TRUE)
                   /\ UNCHANGED <<wd, umask, user, realUser, hostname, mounts, cmdline, heap, wild, halted>>

\* sys_unlink(file): unlink_fs removes an existing entry, and may refuse.
SysUnlink(p, n, a0, path) ==
  CASE ~PtrValidate(a0)          -> Halt(p, n)
    [] a0 = "null"               -> Fault(p, n, a0)
    [] files[path].kind = "none" -> Fail(p, n)
    [] OTHER -> \/ Fail(p, n)
                \/ /\ files' = [files EXCEPT ![path].kind = "none"]
                   /\ Ret(p, n, TRUE)
                   /\ UNCHANGED <<wd, umask, user, realUser, hostname, mounts, cmdline, heap, wild, halted>>

\* sys_access(file): kopen, -ENOENT or close_fs and 0.
SysAccess(p, n, a0, path) ==
  CASE ~PtrValidate(a0)                   -> Halt(p, n)
    [] a0 = "null"                        -> Fault(p, n, a0)
    [] KopenKind(path, FALSE) = "none"    -> Fail(p, n)
    [] OTHER                              -> Succeed(p, n)

\* sys_chdir(newdir): canonicalize_path against wd_name, kopen, then
\* -ENOTDIR, -EACCES without search permission, else wd_name = path.
\* wd_node is not touched.
SysChdir(p, n, a0, path) ==
  CASE ~PtrValidate(a0)                   -> Halt(p, n)
    [] a0 = "null"                        -> Fault(p, n, a0)
    [] KopenKind(path, FALSE) = "none"    -> Fail(p, n)
    [] files[path].kind # "dir"           -> Fail(p, n)
    [] ~HasSearch(user[p], files[path])   -> Fail(p, n)
    [] OTHER -> /\ wd' = [wd EXCEPT ![p] = path]
                /\ Ret(p, n, TRUE)
                /\ UNCHANGED <<umask, user, realUser, hostname, files, mounts, cmdline, heap, wild, halted>>

\* sys_getcwd(buf, size): 0 for a NULL buf; else validate and copy out.
SysGetcwd(p, n, a0) ==
  IF ~PtrValidate(a0) THEN Halt(p, n) ELSE Succeed(p, n)

\* sys_umask(mode): mask = mode & 0777.
SysUmask(p, n, m) ==
  /\ umask' = [umask EXCEPT ![p] = m % 512]
  /\ Ret(p, n, TRUE)
  /\ UNCHANGED <<wd, user, realUser, hostname, files, mounts, cmdline, heap, wild, halted>>

\* sys_gettimeofday(tv, tz): both validated; gettimeofday stores through
\* tv (tz may be NULL, as spawn_process passes it).
SysGettimeofday(p, n, a0, a1) ==
  CASE ~PtrValidate(a0) \/ ~PtrValidate(a1) -> Halt(p, n)
    [] a0 = "null"                          -> Fault(p, n, a0)
    [] OTHER                                -> Succeed(p, n)

\* sys_ioctl(fd, request, argp) and sys_readdir(fd, index, entry): FD_CHECK,
\* then the pointer is validated; readdir copies an entry through it when
\* readdir_fs returns one, ioctl_fs hands it to the driver.
SysIoctl(p, n, a0, open) ==
  CASE ~open            -> Fail(p, n)
    [] ~PtrValidate(a0) -> Halt(p, n)
    [] OTHER            -> Fail(p, n) \/ Succeed(p, n)

SysReaddir(p, n, a0, open, entry) ==
  CASE ~open                  -> Fail(p, n)
    [] ~PtrValidate(a0)       -> Halt(p, n)
    [] entry /\ a0 = "null"   -> Fault(p, n, a0)
    [] OTHER                  -> Succeed(p, n)

\* sys_getuid and sys_geteuid return real_user and user; sys_getpid and
\* sys_gettid return group (or id) and id.
SysGetuid(p, n) == Succeed(p, n)

SysGetpid(p, n) == Succeed(p, n)

\* sys_getpgid(pid): only pid 0 (the caller) is found, else -ESRCH.
SysGetpgid(p, n, pid) == IF pid = 0 THEN Succeed(p, n) ELSE Fail(p, n)

-----------------------------------------------------------------------------
\* syscall_handler: a number outside the table is EINVAL; otherwise the
\* bound handler runs with the saved argument registers.
SyscallHandler(p, n) ==
  /\ ~halted
  /\ IF n \notin DOMAIN Handler
       THEN Fail(p, n)
       ELSE CASE Handler[n] = "sys_setuid"      -> \E u \in Users : SysSetuid(p, n, u)
              [] Handler[n] = "sys_sethostname" ->
                   \E a0 \in Ptrs, s \in Names \cup {LongName} : SysSethostname(p, n, a0, s)
              [] Handler[n] = "sys_gethostname" -> \E a0 \in Ptrs : SysGethostname(p, n, a0)
              [] Handler[n] = "sys_chmod"       ->
                   \E a0 \in Ptrs, path \in Paths, m \in Modes : SysChmod(p, n, a0, path, m)
              [] Handler[n] = "sys_chown"       ->
                   \E a0 \in Ptrs, path \in Paths, u \in Users : SysChown(p, n, a0, path, u)
              [] Handler[n] = "sys_mkdir"       ->
                   \E a0 \in Ptrs, path \in Paths, m \in Modes : SysMkdir(p, n, a0, path, m)
              [] Handler[n] = "sys_readlink"    ->
                   \E a0, a1 \in Ptrs, path \in Paths : SysReadlink(p, n, a0, a1, path)
              [] Handler[n] = "sys_uname"       -> \E a0 \in Ptrs : SysUname(p, n, a0)
              [] Handler[n] = "sys_mount"       ->
                   \E a0, a1 \in Ptrs, path \in Paths : SysMount(p, n, a0, a1, path)
              [] Handler[n] = "sys_sysfunc"     ->
                   \E fn \in SysFuncs, a0, a1 \in Ptrs : SysSysfunc(p, n, fn, a0, a1)
              [] Handler[n] = "sys_sbrk"        -> \E aligned \in BOOLEAN : SysSbrk(p, n, aligned)
              [] Handler[n] = "unimplemented"   -> Unimplemented(p, n)
              [] Handler[n] = "sys_exit"        -> SysExit(p, n)
              [] Handler[n] = "sys_getuid"      -> SysGetuid(p, n)
              [] Handler[n] = "sys_getpid"      -> SysGetpid(p, n)
              [] Handler[n] = "sys_getpgid"     -> \E pid \in {0, 1} : SysGetpgid(p, n, pid)
              [] Handler[n] = "sys_stat"        -> \E st \in Ptrs, open \in BOOLEAN : SysStat(p, n, st, open)
              [] Handler[n] = "sys_statf"       ->
                   \E a0, st \in Ptrs, path \in Paths : SysStatf(p, n, a0, st, path, FALSE)
              [] Handler[n] = "sys_lstat"       ->
                   \E a0, st \in Ptrs, path \in Paths : SysLstat(p, n, a0, st, path)
              [] Handler[n] = "sys_symlink"     ->
                   \E a0, a1 \in Ptrs, path \in Paths : SysSymlink(p, n, a0, a1, path)
              [] Handler[n] = "sys_unlink"      -> \E a0 \in Ptrs, path \in Paths : SysUnlink(p, n, a0, path)
              [] Handler[n] = "sys_access"      -> \E a0 \in Ptrs, path \in Paths : SysAccess(p, n, a0, path)
              [] Handler[n] = "sys_chdir"       -> \E a0 \in Ptrs, path \in Paths : SysChdir(p, n, a0, path)
              [] Handler[n] = "sys_getcwd"      -> \E a0 \in Ptrs : SysGetcwd(p, n, a0)
              [] Handler[n] = "sys_umask"       -> \E m \in UmaskArgs : SysUmask(p, n, m)
              [] Handler[n] = "sys_gettimeofday" -> \E a0, a1 \in Ptrs : SysGettimeofday(p, n, a0, a1)
              [] Handler[n] = "sys_ioctl"       -> \E a0 \in Ptrs, open \in BOOLEAN : SysIoctl(p, n, a0, open)
              [] Handler[n] = "sys_readdir"     ->
                   \E a0 \in Ptrs, open, entry \in BOOLEAN : SysReaddir(p, n, a0, open, entry)

Init ==
  /\ wd = [p \in Procs |-> Root]
  /\ umask = [p \in Procs |-> 0]
  /\ user = [p \in Procs |-> 0]
  /\ realUser = [p \in Procs |-> 0]
  /\ hostname = NoName
  /\ files = InitFiles
  /\ mounts = {}
  /\ cmdline = [p \in Procs |-> 0]
  /\ heap = [p \in Procs |-> "user"]
  /\ wild = FALSE
  /\ halted = FALSE
  /\ last = [pid |-> CHOOSE p \in Procs : TRUE, num |-> "SYS_BAD", ok |-> TRUE]

Next == \E p \in Procs, n \in SysNums : SyscallHandler(p, n)

Spec == Init /\ [][Next]_vars

\* The state without the history variable last: no step reads last, and
\* the action properties read only the value a step gives it, so states
\* that differ only in last have the same behaviours and checks.
StateView == <<wd, umask, user, realUser, hostname, files, mounts, cmdline, heap, wild, halted>>

-----------------------------------------------------------------------------
(* Properties                                                              *)

TypeOK ==
  /\ wd \in [Procs -> Paths \cup {Root}]
  /\ umask \in [Procs -> 0 .. 511]
  /\ user \in [Procs -> Users] /\ realUser \in [Procs -> Users]
  /\ hostname \in Names \cup {NoName}
  /\ files \in [Paths -> FileRec]
  /\ mounts \subseteq Paths
  /\ cmdline \in [Procs -> 0 .. 2]
  /\ heap \in [Procs -> Ptrs]
  /\ wild \in BOOLEAN /\ halted \in BOOLEAN
  /\ last \in [pid : Procs, num : SysNums \cup {"SYS_BAD"}, ok : BOOLEAN]

\* Privileged state changes only for an authorised caller: the hostname,
\* the mount table, an existing file's owner and any process regaining uid
\* 0 only for an effective root (sys_sethostname, sys_mount, sys_chown,
\* sys_setuid), an existing file's mask only for root or its owner
\* (sys_chmod), whatever handler the table binds to the number.
PrivilegedChangeByAuthorised ==
  [][ LET caller == user[last'.pid] IN
      /\ (\/ hostname' # hostname
          \/ mounts' # mounts
          \/ \E f \in Paths : files[f].kind # "none" /\ files'[f].uid # files[f].uid
          \/ \E q \in Procs : user[q] # 0 /\ user'[q] = 0)
         => caller = 0
      /\ \A f \in Paths :
           (files[f].kind # "none" /\ files'[f].mask # files[f].mask)
             => caller \in {0, files[f].uid} ]_vars

\* A call that returns an error leaves the process and file state as it
\* was (spec section 7): every early return of the handlers comes before
\* their assignments.
ErrorsLeaveStateUnchanged ==
  [][ ~last'.ok
        => UNCHANGED <<wd, umask, user, realUser, hostname, files, mounts, cmdline, heap>> ]_vars

\* Only SYS_SETHOSTNAME changes the host name, and it changes it to the
\* string its caller passed (the syscall ABI of syscall.h and spec 6).
HostnameOnlyBySethostname ==
  [][ hostname' # hostname => last'.num = "SYS_SETHOSTNAME" ]_vars

\* The kernel touches memory through a user pointer only when the pointer
\* lies inside the user window (spec 4.4): NULL and kernel addresses are
\* never dereferenced on a user's behalf.
NoWildAccess == ~wild

=============================================================================
