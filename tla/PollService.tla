----------------------------- MODULE PollService -----------------------------
(***************************************************************************)
(* What the polling form of readNis, stopPoll and deinit promise a client, *)
(* without locks, tables or reference counts: the life of each polling     *)
(* executor and the moments at which its callback may run.                 *)
(***************************************************************************)
CONSTANT Exec  \* the executors

VARIABLES
  phase,   \* absent, polling, stopping, stopped or reaped
  firing,  \* whether the callback of an executor is running
  owed     \* whether a stopping executor has one more callback to issue

svcvars == <<phase, firing, owed>>

Phases == {"absent", "polling", "stopping", "stopped", "reaped"}

SvcInit ==
  /\ phase = [e \in Exec |-> "absent"]
  /\ firing = [e \in Exec |-> FALSE]
  /\ owed = [e \in Exec |-> FALSE]

Move(e, from, to) ==
  /\ phase[e] = from
  /\ phase' = [phase EXCEPT ![e] = to]

Start(e) == Move(e, "absent", "polling") /\ UNCHANGED <<firing, owed>>

Fire(e) ==
  /\ ~firing[e]
  /\ phase[e] = "polling" \/ (phase[e] = "stopping" /\ owed[e])
  /\ firing' = [firing EXCEPT ![e] = TRUE]
  /\ owed' = [owed EXCEPT ![e] = FALSE]
  /\ UNCHANGED phase

Return(e) ==
  /\ firing[e]
  /\ firing' = [firing EXCEPT ![e] = FALSE]
  /\ UNCHANGED <<phase, owed>>

(* A read under way when the stop arrives may still be reported. *)
Stop(e) ==
  /\ Move(e, "polling", "stopping")
  /\ \E late \in BOOLEAN :
       /\ late => ~firing[e]
       /\ owed' = [owed EXCEPT ![e] = late]
  /\ UNCHANGED firing

Halt(e) ==
  /\ ~firing[e]
  /\ ~owed[e]
  /\ Move(e, "stopping", "stopped")
  /\ UNCHANGED <<firing, owed>>

Reap(e) == Move(e, "stopped", "reaped") /\ UNCHANGED <<firing, owed>>

SvcNext ==
  \E e \in Exec :
    Start(e) \/ Fire(e) \/ Return(e) \/ Stop(e) \/ Halt(e) \/ Reap(e)

Spec == SvcInit /\ [][SvcNext]_svcvars

=============================================================================
