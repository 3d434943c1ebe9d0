----------------------------- MODULE JobControl -----------------------------
(***************************************************************************)
(* Thread groups, tty jobs and sessions of processes.                      *)
(*                                                                         *)
(* Models the job-control fields that spawn_process sets                   *)
(* (src/kernel/sys/process.c) and the two calls of src/kernel/sys/syscall.c *)
(* that change them, sys_setsid and sys_setpgid.  sys_getpgid and          *)
(* sys_getpid only read them.  The boot process _fake_process is pid 0     *)
(* with all three fields 0 (a zeroed static).  Each call is one step.      *)
(***************************************************************************)
EXTENDS Naturals

CONSTANTS
  MaxPid   \* get_next_pid hands out 1..MaxPid within a run

Pids == 0 .. MaxPid

ASSUME MaxPid \in Nat \ {0}

VARIABLES
  live,     \* pids of spawned processes (0 is _fake_process)
  group,    \* proc->group: thread group
  job,      \* proc->job: tty job (process group)
  session,  \* proc->session: tty session
  nextPid   \* _next_pid

vars == <<live, group, job, session, nextPid>>

-----------------------------------------------------------------------------
(* Operations                                                              *)

\* Mutant: _next_pid is incremented before it is returned.
GetNextPidPreIncrement(n) == n + 1

\* get_next_pid: the pid handed out is _next_pid before its increment.
GetNextPid(n) == n

\* spawn_process: a fresh pid leads its own thread group and inherits the
\* parent's job and session.
SpawnProcess(p) ==
  LET c == GetNextPid(nextPid) IN
  /\ p \in live
  /\ nextPid <= MaxPid
  /\ live' = live \cup {c}
  /\ group' = [group EXCEPT ![c] = c]
  /\ job' = [job EXCEPT ![c] = job[p]]
  /\ session' = [session EXCEPT ![c] = session[p]]
  /\ nextPid' = nextPid + 1

\* Mutant: setsid without the group-leader refusal.
SysSetsidUnguarded(p) ==
  /\ p \in live
  /\ session' = [session EXCEPT ![p] = group[p]]
  /\ job' = [job EXCEPT ![p] = group[p]]
  /\ UNCHANGED <<live, group, nextPid>>

\* sys_setsid: a job leader is refused (EPERM, a stutter step); anyone else
\* starts a session and a job named by its thread group.
SysSetsid(p) ==
  /\ p \in live
  /\ job[p] # group[p]
  /\ session' = [session EXCEPT ![p] = group[p]]
  /\ job' = [job EXCEPT ![p] = group[p]]
  /\ UNCHANGED <<live, group, nextPid>>

\* sys_setpgid(0, 0): the caller, unless it leads its session, becomes the
\* leader of a job named by its thread group.  Every other argument fails
\* without a state change: pid != 0 finds no process (ESRCH, the FIXME
\* process_from_pid), pgid != 0 finds no group (EPERM), pgid < 0 is EINVAL.
SysSetpgidSelf(p) ==
  /\ p \in live
  /\ session[p] # group[p]
  /\ job' = [job EXCEPT ![p] = group[p]]
  /\ UNCHANGED <<live, group, session, nextPid>>

-----------------------------------------------------------------------------
Init ==
  /\ live = {0}
  /\ group = [p \in Pids |-> 0]
  /\ job = [p \in Pids |-> 0]
  /\ session = [p \in Pids |-> 0]
  /\ nextPid = 1

Next ==
  \E p \in Pids :
    \/ SpawnProcess(p)
    \/ SysSetsid(p)
    \/ SysSetpgidSelf(p)

Spec == Init /\ [][Next]_vars

-----------------------------------------------------------------------------
(* Properties                                                              *)

TypeOK ==
  /\ live \subseteq Pids /\ 0 \in live
  /\ group \in [Pids -> Pids]
  /\ job \in [Pids -> Pids]
  /\ session \in [Pids -> Pids]
  /\ nextPid \in 1 .. MaxPid + 1

\* Processes of one job are in one session: setsid refuses a job leader,
\* and setpgid makes only a process that does not lead its session the
\* leader of a new job, so no call splits a job across sessions; pids are
\* never reused, so this holds after leaders exit and are reaped, and a
\* terminal's job always lies within one session.
JobInOneSession ==
  \A p, q \in live : job[p] = job[q] => session[p] = session[q]

=============================================================================
