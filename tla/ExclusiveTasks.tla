--------------------------- MODULE ExclusiveTasks ---------------------------
(***************************************************************************)
(* What the task engine promises: a task is worked on by one worker at a   *)
(* time, only that worker decides how the attempt ended, a worker that     *)
(* stops gives the task up to the next one, and a completed task is final. *)
(***************************************************************************)
CONSTANTS Tasks, Workers, None

VARIABLES phase, holder

vars == <<phase, holder>>

Phase == {"absent", "open", "taken", "completed", "failed"}

Init ==
  /\ phase = [t \in Tasks |-> "absent"]
  /\ holder = [t \in Tasks |-> None]

Create(t) ==
  /\ phase[t] = "absent"
  /\ phase' = [phase EXCEPT ![t] = "open"]
  /\ UNCHANGED holder

\* A task is taken when it is open, or when its last holder gave it up.
Take(t, w) ==
  /\ phase[t] \in {"open", "taken"}
  /\ holder[t] = None
  /\ \A u \in Tasks : holder[u] # w
  /\ phase' = [phase EXCEPT ![t] = "taken"]
  /\ holder' = [holder EXCEPT ![t] = w]

Finish(t, w, outcome) ==
  /\ phase[t] = "taken"
  /\ holder[t] = w
  /\ phase' = [phase EXCEPT ![t] = outcome]
  /\ holder' = [holder EXCEPT ![t] = None]

GiveUp(t, w) ==
  /\ holder[t] = w
  /\ holder' = [holder EXCEPT ![t] = None]
  /\ UNCHANGED phase

Reopen(t) ==
  /\ phase[t] = "failed"
  /\ phase' = [phase EXCEPT ![t] = "open"]
  /\ UNCHANGED holder

Next ==
  \E t \in Tasks :
    \/ Create(t)
    \/ Reopen(t)
    \/ \E w \in Workers :
         \/ Take(t, w)
         \/ GiveUp(t, w)
         \/ \E outcome \in {"open", "completed", "failed"} : Finish(t, w, outcome)

Spec == Init /\ [][Next]_vars
=============================================================================
