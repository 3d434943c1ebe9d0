------------------------------- MODULE Kernel -------------------------------
(***************************************************************************)
(* The scheduler queues (module Scheduler) and the job-control fields      *)
(* (module JobControl) of one set of processes.  They meet in two places:  *)
(*                                                                         *)
(*  - spawn_process gives the child the next pid, its own thread group and *)
(*    the parent's job and session, and the caller's make_process_ready    *)
(*    queues it.  The parent is current_process: the running process, or   *)
(*    _fake_process (pid 0), which current_process points at from boot     *)
(*    until the first switch, for the kernel's spawns while no process     *)
(*    runs.                                                                *)
(*  - sys_setsid and sys_setpgid run in the context of current_process.    *)
(*                                                                         *)
(* A record is on JobControl's list from its spawn until waitpid reaps it, *)
(* so JobControl's live set is process_list plus _fake_process.            *)
(***************************************************************************)
EXTENDS Integers

CONSTANTS
  MaxPid,    \* get_next_pid hands out 1..MaxPid within a run
  Queues,
  Delays,
  Idle

VARIABLES current, ready, sleepers, waitq, flags, plist,
          group, job, session, nextPid

svars == <<current, ready, sleepers, waitq, flags, plist>>
jvars == <<group, job, session, nextPid>>
vars == <<svars, jvars>>

Procs == 1 .. MaxPid

S == INSTANCE Scheduler

J == INSTANCE JobControl WITH live <- plist \cup {0}

\* The process whose context a spawn or a job-control call runs in.
Caller == IF current = Idle THEN 0 ELSE current

-----------------------------------------------------------------------------
(* Operations                                                              *)

\* spawn_process(Caller) and make_process_ready(child).
SpawnProcess ==
  /\ nextPid <= MaxPid
  /\ S!SpawnProcess(nextPid)
  /\ J!SpawnProcess(Caller)

\* sys_setsid and sys_setpgid(0, 0) by the running process.
SysSetsid ==
  /\ current # Idle
  /\ UNCHANGED svars
  /\ J!SysSetsid(current)

SysSetpgidSelf ==
  /\ current # Idle
  /\ UNCHANGED svars
  /\ J!SysSetpgidSelf(current)

\* Every other scheduler operation leaves the job fields alone.
Schedule ==
  /\ \/ S!Tick
     \/ S!TaskExit
     \/ \E p \in Procs : S!Reap(p)
     \/ \E q \in Queues : S!SleepOn(q) \/ S!WakeupQueue(q) \/ S!WakeupQueueInterrupted(q)
     \/ \E d \in Delays : S!SleepUntil(d)
  /\ UNCHANGED jvars

Init == S!Init /\ J!Init

Next == SpawnProcess \/ SysSetsid \/ SysSetpgidSelf \/ Schedule

\* The timer interrupt fires whatever processes do.
Fairness == WF_vars(S!Tick /\ UNCHANGED jvars)

Spec == Init /\ [][Next]_vars /\ Fairness

-----------------------------------------------------------------------------
(* Properties: those of the two components, over the composed behaviours.  *)

TypeOK == S!TypeOK /\ J!TypeOK

\* A live process is in exactly one scheduler place, and a zombie in none,
\* whatever job-control calls run between the scheduler's steps.
OnePlaceEach == S!OnePlaceEach

\* Every ready or sleeping process runs again, spawned children included.
EventuallyRuns == S!EventuallyRuns

\* The queues implement spec 4.3's lifecycle of ProcessLifecycle.
LifecycleRefined == S!LifecycleRefined

\* The members of a job share one session, with spawns made by whichever
\* process runs and leaders that exit and are reaped.
JobInOneSession == J!JobInOneSession

=============================================================================
