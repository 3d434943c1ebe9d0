-------------------------- MODULE ProcessLifecycle --------------------------
(***************************************************************************)
(* What the scheduler promises about one process's life, with no queues:   *)
(* the state machine of spec section 4.3,                                  *)
(*                                                                         *)
(*   NEW -> READY -> RUNNING -> {READY, BLOCKED, SLEEPING} -> ...          *)
(*       -> FINISHED (zombie) -> REAPED                                    *)
(*                                                                         *)
(* A step of the kernel may do several of these at once, in this order:    *)
(* wake any blocked or sleeping processes, move the running one out of     *)
(* RUNNING, and dispatch one READY process if none is running.  Admission  *)
(* of a new process and the reaping of a zombie are steps of their own.    *)
(***************************************************************************)
CONSTANTS Procs

VARIABLE lstate

States == {"NEW", "READY", "RUNNING", "BLOCKED", "SLEEPING", "FINISHED", "REAPED"}

Running(f) == {p \in Procs : f[p] = "RUNNING"}

\* The blocked and sleeping processes in W become READY.
Woken(W) == [p \in Procs |-> IF p \in W THEN "READY" ELSE lstate[p]]

\* The running process, if any, stays or leaves RUNNING for one of the
\* states a running process can enter.
Leaves(f) ==
  {f} \cup {[f EXCEPT ![r] = x] : r \in Running(f),
                                  x \in {"READY", "BLOCKED", "SLEEPING", "FINISHED"}}

\* With no process running, one READY process may be dispatched.
Dispatches(f) ==
  {f} \cup {[f EXCEPT ![q] = "RUNNING"] : q \in {q \in Procs : f[q] = "READY" /\ Running(f) = {}}}

Schedule ==
  \E W \in SUBSET {p \in Procs : lstate[p] \in {"BLOCKED", "SLEEPING"}} :
    \E g \in Leaves(Woken(W)) : lstate' \in Dispatches(g)

Admit(p) ==
  /\ lstate[p] = "NEW"
  /\ lstate' = [lstate EXCEPT ![p] = "READY"]

Reap(p) ==
  /\ lstate[p] = "FINISHED"
  /\ lstate' = [lstate EXCEPT ![p] = "REAPED"]

Init == lstate = [p \in Procs |-> "NEW"]

Next == Schedule \/ \E p \in Procs : Admit(p) \/ Reap(p)

Spec == Init /\ [][Next]_lstate

=============================================================================
