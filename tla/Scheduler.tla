----------------------------- MODULE Scheduler -----------------------------
(***************************************************************************)
(* The scheduler queues of src/base/usr/include/kernel/process.h: the      *)
(* ready queue process_queue, the sleep queue of sleeper_t records, the    *)
(* wait queues sleep_on puts a process on, current_process and             *)
(* kernel_idle_task, and the process_list a zombie stays on until it is    *)
(* reaped.  The functions are declared in process.h but implemented        *)
(* outside src/, so every operation is modelled from spec section 4.3.     *)
(*                                                                         *)
(* Time: sleep_until stores an absolute deadline (end_tick, end_subtick)   *)
(* and wakeup_sleepers compares it with the clock.  A sleeper here keeps   *)
(* the ticks left to its deadline instead, so the model needs no clock:    *)
(* "deadline <= now" is "left <= 0".                                       *)
(*                                                                         *)
(* One CPU: each operation is one step.  The timer interrupt runs          *)
(* wakeup_sleepers and then switch_task(1); a process leaves the CPU only  *)
(* by that preemption or by sleeping, blocking or exiting.                 *)
(***************************************************************************)
EXTENDS Integers, Sequences, SequencesExt, FiniteSets

CONSTANTS
  Procs,      \* process records
  Queues,     \* wait queues (a pipe's or a node's list_t)
  Delays,     \* ticks a sleep_until asks for
  Idle        \* kernel_idle_task

ASSUME /\ Idle \notin Procs
       /\ Delays \subseteq Nat \ {0}

\* PROC_FLAG_*: the lifecycle bits the scheduler reads and sets.
Flags == {"finished", "started", "sleep_int"}

\* sleeper_t: a process and its deadline, as ticks left.
Sleeper == [process : Procs, left : Int]

VARIABLES
  current,    \* current_process
  ready,      \* process_queue, FIFO
  sleepers,   \* sleep_queue, in insertion order
  waitq,      \* each wait queue, FIFO
  flags,      \* proc->flags
  plist       \* process_list: spawned and not yet deleted

vars == <<current, ready, sleepers, waitq, flags, plist>>

-----------------------------------------------------------------------------
(* Helpers                                                                 *)

Sleeping == {sleepers[i].process : i \in DOMAIN sleepers}

Blocked == UNION {ToSet(waitq[q]) : q \in Queues}

\* Mutant: the deadline test is end < now instead of end <= now.
ExpiredLate(s) == s.left < 0

\* wakeup_sleepers' test that a sleeper's deadline is not after now.
Expired(s) == s.left <= 0

\* Mutant: next_ready_process takes the tail of the queue.
SwitchTaskLifo(reschedule, cur, rq) ==
  LET q == IF reschedule /\ cur # Idle /\ "finished" \notin flags[cur]
           THEN Append(rq, cur) ELSE rq
  IN IF q = <<>> THEN [current |-> Idle, ready |-> q]
                 ELSE [current |-> Last(q), ready |-> Front(q)]

\* switch_task(reschedule): a preempted process that has not finished goes
\* back on the ready queue; next_ready_process then takes the head, or the
\* idle task when the queue is empty.  Returns the new current and queue.
SwitchTask(reschedule, cur, rq) ==
  LET q == IF reschedule /\ cur # Idle /\ "finished" \notin flags[cur]
           THEN Append(rq, cur) ELSE rq
  IN IF q = <<>> THEN [current |-> Idle, ready |-> q]
                 ELSE [current |-> Head(q), ready |-> Tail(q)]

\* The process a switch dispatches is marked started.
Dispatch(s) ==
  /\ current' = s.current
  /\ ready' = s.ready
  /\ flags' = IF s.current = Idle THEN flags
              ELSE [flags EXCEPT ![s.current] = @ \cup {"started"}]

-----------------------------------------------------------------------------
(* Operations                                                              *)

\* spawn_process, then the caller's make_process_ready: the new record is
\* put on process_list and at the tail of the ready queue.
SpawnProcess(p) ==
  /\ p \notin plist /\ flags[p] = {}
  /\ plist' = plist \cup {p}
  /\ ready' = Append(ready, p)
  /\ UNCHANGED <<current, sleepers, waitq, flags>>

\* sleep_on(queue): the running process goes to the tail of the wait
\* queue and switch_task(0) picks the next one.
SleepOn(q) ==
  /\ current # Idle
  /\ waitq' = [waitq EXCEPT ![q] = Append(@, current)]
  /\ Dispatch(SwitchTask(FALSE, current, ready))
  /\ UNCHANGED <<sleepers, plist>>

\* wakeup_queue / wakeup_queue_interrupted(queue), from a process or an
\* interrupt: every member, in queue order, to the tail of the ready queue,
\* tagged with the reason sleep_on will return.
Wakeup(q, interrupted) ==
  /\ waitq[q] # <<>>
  /\ ready' = ready \o waitq[q]
  /\ waitq' = [waitq EXCEPT ![q] = <<>>]
  /\ flags' = [p \in Procs |->
                IF p \in ToSet(waitq[q])
                THEN IF interrupted THEN flags[p] \cup {"sleep_int"}
                                    ELSE flags[p] \ {"sleep_int"}
                ELSE flags[p]]
  /\ UNCHANGED <<current, sleepers, plist>>

WakeupQueue(q) == Wakeup(q, FALSE)

WakeupQueueInterrupted(q) == Wakeup(q, TRUE)

\* sleep_until(current, d) and the switch_task(0) of its caller: a
\* sleeper_t at the tail of the sleep queue.
SleepUntil(d) ==
  /\ current # Idle
  /\ sleepers' = Append(sleepers, [process |-> current, left |-> d])
  /\ Dispatch(SwitchTask(FALSE, current, ready))
  /\ UNCHANGED <<waitq, plist>>

\* Mutant: task_exit reschedules with switch_task(1).
TaskExitRequeued ==
  /\ current # Idle
  /\ LET fin == [flags EXCEPT ![current] = @ \cup {"finished"}]
         s == SwitchTask(TRUE, current, ready)
     IN /\ current' = s.current
        /\ ready' = s.ready
        /\ flags' = IF s.current = Idle THEN fin
                    ELSE [fin EXCEPT ![s.current] = @ \cup {"started"}]
  /\ UNCHANGED <<sleepers, waitq, plist>>

\* Mutant: task_exit takes the record off process_list itself, leaving no
\* zombie for waitpid.
TaskExitDeleting ==
  /\ current # Idle
  /\ LET fin == [flags EXCEPT ![current] = @ \cup {"finished"}]
         s == SwitchTask(FALSE, current, ready)
     IN /\ current' = s.current
        /\ ready' = s.ready
        /\ flags' = IF s.current = Idle THEN fin
                    ELSE [fin EXCEPT ![s.current] = @ \cup {"started"}]
  /\ plist' = plist \ {current}
  /\ UNCHANGED <<sleepers, waitq>>

\* task_exit: the process is marked finished and stays on process_list as
\* a zombie; switch_task(0) does not put it back.
TaskExit ==
  /\ current # Idle
  /\ LET fin == [flags EXCEPT ![current] = @ \cup {"finished"}]
         s == SwitchTask(FALSE, current, ready)
     IN /\ current' = s.current
        /\ ready' = s.ready
        /\ flags' = IF s.current = Idle THEN fin
                    ELSE [fin EXCEPT ![s.current] = @ \cup {"started"}]
  /\ UNCHANGED <<sleepers, waitq, plist>>

\* waitpid collecting a zombie, then process_delete: off process_list.
Reap(p) ==
  /\ current # Idle
  /\ p \in plist /\ "finished" \in flags[p]
  /\ plist' = plist \ {p}
  /\ UNCHANGED <<current, ready, sleepers, waitq, flags>>

\* One tick of the timer: wakeup_sleepers scans the whole sleep queue and
\* every sleeper whose deadline has come goes, in queue order, to the tail
\* of the ready queue; then switch_task(1) preempts the running process.
WakeupSleepers ==
  LET aged == [i \in DOMAIN sleepers |-> [sleepers[i] EXCEPT !.left = @ - 1]]
      due == SelectSeq(aged, Expired)
      woken == [i \in DOMAIN due |-> due[i].process]
  IN /\ sleepers' = SelectSeq(aged, LAMBDA s : ~Expired(s))
     /\ Dispatch(SwitchTask(TRUE, current, ready \o woken))
     /\ UNCHANGED <<waitq, plist>>

Tick == WakeupSleepers

-----------------------------------------------------------------------------
Init ==
  /\ current = Idle
  /\ ready = <<>>
  /\ sleepers = <<>>
  /\ waitq = [q \in Queues |-> <<>>]
  /\ flags = [p \in Procs |-> {}]
  /\ plist = {}

Next ==
  \/ Tick
  \/ TaskExit
  \/ \E p \in Procs : SpawnProcess(p) \/ Reap(p)
  \/ \E q \in Queues : SleepOn(q) \/ WakeupQueue(q) \/ WakeupQueueInterrupted(q)
  \/ \E d \in Delays : SleepUntil(d)

\* The timer interrupt keeps firing whatever processes do, so the tick is
\* weakly fair; nothing obliges a process to sleep, exit or wake anyone.
Fairness == WF_vars(Tick)

Spec == Init /\ [][Next]_vars /\ Fairness

-----------------------------------------------------------------------------
(* Properties                                                              *)

TypeOK ==
  /\ current \in Procs \cup {Idle}
  /\ ready \in Seq(Procs)
  /\ sleepers \in Seq([process : Procs, left : 1 .. Max(Delays)])
  /\ waitq \in [Queues -> Seq(Procs)]
  /\ flags \in [Procs -> SUBSET Flags]
  /\ plist \subseteq Procs

\* Every place a process record can be: on the CPU, or an entry of the
\* ready queue, the sleep queue or a wait queue.
Places(p) ==
  {<<"cpu", 0>> : c \in {c \in {current} : c = p}}
  \cup {<<"ready", i>> : i \in {i \in DOMAIN ready : ready[i] = p}}
  \cup {<<"sleep", i>> : i \in {i \in DOMAIN sleepers : sleepers[i].process = p}}
  \cup UNION {{<<q, i>> : i \in {i \in DOMAIN waitq[q] : waitq[q][i] = p}} : q \in Queues}

\* A live process is in exactly one place: running, or once on exactly one
\* of the ready queue, the sleep queue and the wait queues (spec 4.3's
\* single membership), so no switch, sleep, wake or exit loses a process
\* or lets it be queued twice; a zombie and an unspawned record are
\* nowhere, so a finished process is never scheduled again.
OnePlaceEach ==
  \A p \in Procs :
    Cardinality(Places(p)) = IF p \in plist /\ "finished" \notin flags[p] THEN 1 ELSE 0

\* A process that is ready, or asleep until a deadline, runs again: the
\* FIFO ready queue and the timer's preemption let no process starve, and
\* wakeup_sleepers wakes every sleeper once its deadline has passed.
EventuallyRuns ==
  \A p \in Procs : (p \in ToSet(ready) \cup Sleeping) ~> (current = p)

\* The lifecycle state each record's flags and queue membership stand for.
LifeState ==
  [p \in Procs |->
     CASE p \notin plist /\ "finished" \notin flags[p] -> "NEW"
       [] p \notin plist                           -> "REAPED"
       [] "finished" \in flags[p]                  -> "FINISHED"
       [] p = current                              -> "RUNNING"
       [] p \in ToSet(ready)                       -> "READY"
       [] p \in Sleeping                           -> "SLEEPING"
       [] OTHER                                    -> "BLOCKED"]

Life == INSTANCE ProcessLifecycle WITH lstate <- LifeState

\* The queues implement the lifecycle of spec 4.3: every step of the
\* scheduler is a step of ProcessLifecycle, so a process is dispatched only
\* from READY and only when none is running, a wait ends only in READY,
\* and a zombie is never run again and is reaped at most once.
LifecycleRefined == Life!Spec

=============================================================================
