------------------------- MODULE MC_SyscallDispatch -------------------------
EXTENDS SyscallDispatch, TLC

CONSTANTS p1, n1, home, lnk

\* One caller, one short host name, two paths: a root-owned symlink and
\* an absent path, and two masks.
MCNames == {n1}
MCPaths == {lnk, home}
MCModes == {"0644", "0600"}
MCInitFiles ==
  [f \in MCPaths |->
     [kind |-> IF f = lnk THEN "link" ELSE "none",
      uid  |-> 0,
      mask |-> "0644"]]
MCSysNums == DOMAIN Handler \cup {"SYS_BAD"}

\* The calls whose handler reads or writes through its pointer argument in
\* syscall.c itself (uname's strcpy, stat_node's stores, readdir's memcpy,
\* THREADNAME's and SETGSBASE's loads, the hostname memcpy and strlen),
\* rather than handing it to kopen, the VFS or gettimeofday.
MCSrcDerefNums == {"SYS_UNAME", "SYS_STAT", "SYS_READDIR", "SYS_SYSFUNC",
                   "SYS_SETHOSTNAME", "SYS_GETHOSTNAME"}
=============================================================================
