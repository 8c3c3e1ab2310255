------------------------ MODULE AutomationTasksProofs ------------------------
(***************************************************************************)
(* Proofs about AutomationTasks, for any number of tasks, workers,         *)
(* producers and steps and for every bound.                                *)
(***************************************************************************)
EXTENDS AutomationTasks, TLAPS



\* Tasks exist, so the arbitrary task an idle process names is one of them.
LEMMA AnyTaskType == AnyTask \in Tasks
BY ConstantsAssumption DEF AnyTask

LEMMA IdleTypes ==
  /\ IdleWorker \in WorkerState
  /\ IdleProducer \in ProducerState
BY AnyTaskType DEF IdleWorker, IdleProducer, WorkerState, ProducerState, NoTime

\* A scan returns rows of the table as it is at that moment.
LEMMA PageType ==
  ASSUME TypeOK, NEW ts \in SUBSET Tasks, NEW page \in Pages(Snapshots(ts))
  PROVE  page \subseteq Snapshots(ts) /\ page \in SUBSET Candidate
BY DEF Pages, Snapshots, Candidate, TypeOK

----------------------------------------------------------------------------
\* Init establishes the types and every action keeps them.
LEMMA InitTypeOK == Init => TypeOK
BY ConstantsAssumption, IdleTypes
DEF Init, TypeOK, AbsentTask, AbsentStep, TaskRow, StepRow, TaskStatus, NoTime

LEMMA ClaimTypeOK ==
  ASSUME TypeOK, NEW w \in Workers, ClaimStep(w)
  PROVE  TypeOK'
<1>1. CASE ScanReady(w)
  <2>1. PICK page \in Pages(Snapshots(ReadyTasks(now))) :
          worker' = [worker EXCEPT ![w] =
                       [@ EXCEPT !.pc = "claimReady", !.at = now, !.cands = page]]
    BY <1>1 DEF ScanReady
  <2>2. ReadyTasks(now) \in SUBSET Tasks
    BY DEF ReadyTasks
  <2>3. page \in SUBSET Candidate
    BY <2>2, PageType
  <2>4. worker' \in [Workers -> WorkerState]
    BY <2>1, <2>3 DEF TypeOK, WorkerState
  <2> QED
    BY <1>1, <2>4 DEF ScanReady, TypeOK, WorkerState, ProducerState, TaskRow, StepRow, Candidate
<1>2. CASE ScanExpired(w)
  <2>1. PICK page \in Pages(Snapshots(ExpiredTasks(worker[w].at))) :
          worker' = [worker EXCEPT ![w] =
                       [@ EXCEPT !.pc = "claimExpired", !.cands = page]]
    BY <1>2 DEF ScanExpired
  <2>2. ExpiredTasks(worker[w].at) \in SUBSET Tasks
    BY DEF ExpiredTasks
  <2>3. page \in SUBSET Candidate
    BY <2>2, PageType
  <2>4. worker' \in [Workers -> WorkerState]
    BY <2>1, <2>3 DEF TypeOK, WorkerState
  <2> QED
    BY <1>2, <2>4 DEF ScanExpired, TypeOK
<1>3. CASE NothingToClaim(w)
  BY <1>3, IdleTypes DEF NothingToClaim, TypeOK
<1>4. CASE Claim(w)
  <2>1. PICK c \in worker[w].cands :
          /\ task' = [task EXCEPT ![c.id] = ClaimedRow(c, w)]
          /\ worker' = [worker EXCEPT ![w] =
                          [@ EXCEPT !.pc = "load", !.cur = c.id, !.cands = {},
                                    !.at = 0, !.until = worker[w].at + Lease]]
    BY <1>4 DEF Claim
  <2>2. worker[w] \in WorkerState /\ c \in Candidate
    BY DEF TypeOK, WorkerState
  <2>3. c.id \in Tasks /\ c.row \in TaskRow /\ task[c.id] \in TaskRow
    BY <2>2 DEF Candidate, TypeOK
  <2>4. worker[w].at + Lease \in Nat /\ c.row.attempts + 1 \in Nat
    BY <2>2, <2>3, ConstantsAssumption DEF WorkerState, TaskRow
  <2>5. ClaimedRow(c, w) \in TaskRow
    BY <2>3, <2>4 DEF ClaimedRow, TaskRow, TaskStatus
  <2>6. [worker[w] EXCEPT !.pc = "load", !.cur = c.id, !.cands = {}, !.at = 0,
                          !.until = worker[w].at + Lease] \in WorkerState
    BY <2>2, <2>3, <2>4 DEF WorkerState, ExecutingPc
  <2> QED
    BY <1>4, <2>1, <2>3, <2>5, <2>6 DEF Claim, TypeOK
<1>5. CASE ClaimMissed(w)
  <2>1. PICK c \in worker[w].cands :
          worker' = [worker EXCEPT ![w] =
                       [worker[w] EXCEPT !.cands = worker[w].cands \ {c}]]
    BY <1>5 DEF ClaimMissed
  <2>2. [worker[w] EXCEPT !.cands = worker[w].cands \ {c}] \in WorkerState
    BY DEF TypeOK, WorkerState
  <2> QED
    BY <1>5, <2>1, <2>2 DEF ClaimMissed, TypeOK
<1> QED
  BY <1>1, <1>2, <1>3, <1>4, <1>5 DEF ClaimStep

\* The records an executing worker writes are well typed.
LEMMA RowTypes ==
  ASSUME TypeOK, NEW w \in Workers, NEW s \in Steps
  PROVE  /\ worker[w] \in WorkerState /\ worker[w].cur \in Tasks
         /\ \A t \in Tasks : task[t] \in TaskRow /\ step[t][s] \in StepRow
         /\ worker[w].seen + 1 \in Nat /\ RetryAt(w) \in Nat
         /\ \A t \in Tasks : FailedRow(task[t], s, w) \in TaskRow
         /\ \A t \in Tasks : Unlocked(task[t], "completed") \in TaskRow
         /\ FailedStatus(s, w) \in TaskStatus
<1>1. worker[w] \in WorkerState /\ worker[w].cur \in Tasks
  BY DEF TypeOK, WorkerState
<1>2. \A t \in Tasks : task[t] \in TaskRow /\ step[t][s] \in StepRow
  BY DEF TypeOK
<1>3. worker[w].seen + 1 \in Nat /\ RetryAt(w) \in Nat
  BY <1>1, ConstantsAssumption DEF WorkerState, RetryAt
<1>4. \A t \in Tasks, status \in TaskStatus : Unlocked(task[t], status) \in TaskRow
  BY <1>2 DEF Unlocked, TaskRow
<1>5. {"retrying", "failed", "completed"} \subseteq TaskStatus
  BY DEF TaskStatus
<1>6. \A t \in Tasks : [Unlocked(task[t], "retrying") EXCEPT !.scheduled = RetryAt(w)] \in TaskRow
  BY <1>3, <1>4, <1>5 DEF TaskRow
<1>7. \A t \in Tasks : FailedRow(task[t], s, w) \in TaskRow
  BY <1>4, <1>5, <1>6 DEF FailedRow
<1> QED
  BY <1>1, <1>2, <1>3, <1>4, <1>5, <1>7 DEF FailedStatus

\* Setting the status of one step keeps the table of steps well typed.
LEMMA SetStepStatusType ==
  ASSUME TypeOK, NEW t \in Tasks, NEW s \in Steps, NEW status \in TaskStatus
  PROVE  SetStepStatus(t, s, status) \in [Tasks -> [Steps -> StepRow]]
BY DEF TypeOK, SetStepStatus, StepRow

LEMMA ExecuteTypeOK ==
  ASSUME TypeOK, NEW w \in Workers, ExecuteStep(w) \/ CompletionResponseLost(w)
  PROVE  TypeOK'
<1> USE RowTypes
<1>0. worker[w] \in WorkerState /\ worker[w].cur \in Tasks
  BY DEF TypeOK, WorkerState
<1>1. CASE Load(w)
  <2> DEFINE t == worker[w].cur
             new == [worker[w] EXCEPT
                       !.pc = AfterStep(StepsToRun(t)), !.attempts = task[t].attempts,
                       !.todo = StepsToRun(t), !.base = [s \in Steps |-> step[t][s].attempts]]
  <2>1. AfterStep(StepsToRun(t)) \in ExecutingPc /\ StepsToRun(t) \in SUBSET Steps
    BY DEF AfterStep, StepsToRun, ExecutingPc
  <2>2. task[t].attempts \in Nat /\ [s \in Steps |-> step[t][s].attempts] \in [Steps -> Nat]
    BY <1>0 DEF TypeOK, TaskRow, StepRow
  <2>3. new \in WorkerState
    BY <1>0, <2>1, <2>2 DEF WorkerState
  <2>4. worker' = [worker EXCEPT ![w] = new]
    BY <1>1 DEF Load
  <2> HIDE DEF new
  <2> QED
    BY <1>1, <2>3, <2>4 DEF Load, TypeOK
<1>2. CASE ReadStep(w)
  <2>1. PICK s \in Steps :
          worker' = [worker EXCEPT ![w] =
            [@ EXCEPT !.pc = "mark", !.seen = step[worker[w].cur][s].attempts]]
    BY <1>2 DEF ReadStep
  <2>2. step[worker[w].cur][s].attempts \in Nat
    BY <1>0 DEF TypeOK, StepRow
  <2>3. [worker[w] EXCEPT !.pc = "mark", !.seen = step[worker[w].cur][s].attempts] \in WorkerState
    BY <1>0, <2>2 DEF WorkerState, ExecutingPc
  <2> QED
    BY <1>2, <2>1, <2>3 DEF ReadStep, TypeOK
<1>3. CASE MarkStepRunning(w)
  <2>1. PICK s \in Steps : step' = [step EXCEPT ![worker[w].cur][s] =
                     [status |-> "running", attempts |-> worker[w].seen + 1]]
    BY <1>3 DEF MarkStepRunning
  <2>2. [status |-> "running", attempts |-> worker[w].seen + 1] \in StepRow
    BY <1>0 DEF StepRow, TaskStatus, WorkerState
  <2>3. step' \in [Tasks -> [Steps -> StepRow]]
    BY <1>0, <2>1, <2>2 DEF TypeOK
  <2>4. [worker[w] EXCEPT !.pc = "handle", !.seen = 0] \in WorkerState
    BY <1>0 DEF WorkerState, ExecutingPc
  <2> QED
    BY <1>3, <2>3, <2>4 DEF MarkStepRunning, TypeOK
<1>4. CASE MarkStepCompleted(w)
  <2>1. PICK s \in Steps :
          /\ step' = SetStepStatus(worker[w].cur, s, "completed")
          /\ worker' = [worker EXCEPT ![w] =
               [@ EXCEPT !.todo = worker[w].todo \ {s},
                         !.pc = AfterStep(worker[w].todo \ {s})]]
    BY <1>4 DEF MarkStepCompleted
  <2>2. AfterStep(worker[w].todo \ {s}) \in ExecutingPc /\ "completed" \in TaskStatus
    BY DEF AfterStep, ExecutingPc, TaskStatus
  <2>3. [worker[w] EXCEPT !.todo = worker[w].todo \ {s},
                          !.pc = AfterStep(worker[w].todo \ {s})] \in WorkerState
    BY <1>0, <2>2 DEF WorkerState
  <2>4. step' \in [Tasks -> [Steps -> StepRow]]
    BY <1>0, <2>1, <2>2, SetStepStatusType
  <2> QED
    BY <1>4, <2>1, <2>3, <2>4 DEF MarkStepCompleted, TypeOK
<1>5. CASE CompletionResponseLost(w)
  <2>1. PICK s \in Steps : step' = SetStepStatus(worker[w].cur, s, "completed")
    BY <1>5 DEF CompletionResponseLost
  <2>2. step' \in [Tasks -> [Steps -> StepRow]]
    BY <1>0, <2>1, SetStepStatusType DEF TaskStatus
  <2>3. [worker[w] EXCEPT !.pc = "failStep"] \in WorkerState
    BY <1>0 DEF WorkerState, ExecutingPc
  <2> QED
    BY <1>5, <2>2, <2>3 DEF CompletionResponseLost, TypeOK
<1>6. CASE MarkStepFailed(w)
  <2>1. PICK s \in Steps : step' = SetStepStatus(worker[w].cur, s, FailedStatus(s, w))
    BY <1>6 DEF MarkStepFailed
  <2>2. step' \in [Tasks -> [Steps -> StepRow]]
    BY <1>0, <2>1, SetStepStatusType
  <2>3. [worker[w] EXCEPT !.pc = "failTask", !.at = now] \in WorkerState
    BY <1>0 DEF WorkerState, ExecutingPc, TypeOK
  <2> QED
    BY <1>6, <2>2, <2>3 DEF MarkStepFailed, TypeOK
<1>7. CASE MarkTaskFailed(w)
  <2>1. PICK s \in Steps :
          task' = [task EXCEPT ![worker[w].cur] = FailedRow(task[worker[w].cur], s, w)]
    BY <1>7 DEF MarkTaskFailed
  <2>2. FailedRow(task[worker[w].cur], s, w) \in TaskRow
    BY <1>0
  <2> QED
    BY <1>7, <2>1, <2>2, IdleTypes DEF MarkTaskFailed, TypeOK
<1>8. CASE MarkTaskCompleted(w)
  <2>1. Unlocked(task[worker[w].cur], "completed") \in TaskRow
    BY <1>0 DEF TypeOK, TaskRow, Unlocked, TaskStatus
  <2> QED
    BY <1>8, <2>1, IdleTypes DEF MarkTaskCompleted, TypeOK
<1> QED
  BY <1>1, <1>2, <1>3, <1>4, <1>5, <1>6, <1>7, <1>8 DEF ExecuteStep

\* What a request puts into its own state and into the tables is well typed.
LEMMA ProducerTypes ==
  ASSUME TypeOK, NEW p \in Producers
  PROVE  /\ producer[p].cur \in Tasks /\ producer[p].want \in Nat
         /\ \A pc \in {"idle", "rearm", "reset", "upsert", "reread", "reschedule"} :
              [producer EXCEPT ![p].pc = pc] \in [Producers -> ProducerState]
         /\ [producer EXCEPT ![p] = IdleProducer] \in [Producers -> ProducerState]
BY IdleTypes DEF TypeOK, ProducerState

LEMMA EnsuredType ==
  ASSUME TypeOK, NEW t \in Tasks, NEW scheduled \in Nat
  PROVE  Ensured(t, scheduled) \in [Tasks -> TaskRow]
BY DEF TypeOK, Ensured, PendingTask, AbsentTask, TaskRow, TaskStatus

LEMMA NewRequestType ==
  ASSUME TypeOK, NEW p \in Producers, NEW t \in Tasks, NEW want \in Nat,
         NEW pc \in {"rearm", "upsert"},
         NewRequest(p, [pc |-> pc, cur |-> t, want |-> want])
  PROVE  producer' \in [Producers -> ProducerState] /\ requests' \in Nat
<1>1. [pc |-> pc, cur |-> t, want |-> want] \in ProducerState
  BY DEF ProducerState
<1> QED
  BY <1>1 DEF NewRequest, TypeOK

LEMMA ProducerTypeOK ==
  ASSUME TypeOK, NEW p \in Producers, ProducerStep(p)
  PROVE  TypeOK'
<1> USE ProducerTypes
<1>1. CASE EnsureDue(p)
  <2>1. PICK t \in Tasks : /\ NewRequest(p, [pc |-> "upsert", cur |-> t, want |-> 0])
                           /\ task' = Ensured(t, now)
    BY <1>1 DEF EnsureDue
  <2>2. task' \in [Tasks -> TaskRow]
    BY <2>1, EnsuredType DEF TypeOK
  <2>3. producer' \in [Producers -> ProducerState] /\ requests' \in Nat
    BY <2>1, NewRequestType
  <2> QED
    BY <1>1, <2>2, <2>3 DEF EnsureDue, TypeOK
<1>2. CASE EnsureDynamic(p)
  <2>1. PICK t \in Tasks, want \in Nat :
          /\ NewRequest(p, [pc |-> "upsert", cur |-> t, want |-> want])
          /\ task' = Ensured(t, want)
    BY <1>2, ConstantsAssumption DEF EnsureDynamic
  <2>2. task' \in [Tasks -> TaskRow]
    BY <2>1, EnsuredType
  <2>3. producer' \in [Producers -> ProducerState] /\ requests' \in Nat
    BY <2>1, NewRequestType
  <2> QED
    BY <1>2, <2>2, <2>3 DEF EnsureDynamic, TypeOK
<1>3. CASE EnsureFailed(p)
  <2>1. PICK t \in Tasks : NewRequest(p, [pc |-> "rearm", cur |-> t, want |-> now])
    BY <1>3 DEF EnsureFailed
  <2>2. producer' \in [Producers -> ProducerState] /\ requests' \in Nat
    BY <2>1, NewRequestType DEF TypeOK
  <2> QED
    BY <1>3, <2>2 DEF EnsureFailed, TypeOK
<1>4. CASE Rearm(p)
  <2>1. task' \in [Tasks -> TaskRow]
    <3>1. task[producer[p].cur] \in TaskRow
      BY DEF TypeOK
    <3>2. [task[producer[p].cur] EXCEPT !.status = "pending", !.attempts = 0,
                                        !.scheduled = producer[p].want] \in TaskRow
      BY <3>1 DEF TaskRow, TaskStatus
    <3> QED
      BY <1>4, <3>2 DEF Rearm, TypeOK
  <2>2. producer' \in [Producers -> ProducerState]
    BY <1>4 DEF Rearm
  <2>3. rearms' = rearms + 1 /\ UNCHANGED <<now, step, worker, crashes, requests>>
    BY <1>4 DEF Rearm
  <2>4. rearms' \in Nat
    BY <2>3 DEF TypeOK
  <2> QED
    BY <2>1, <2>2, <2>3, <2>4 DEF TypeOK
<1>5. CASE RearmMissed(p)
  BY <1>5 DEF RearmMissed, TypeOK
<1>6. CASE ResetSteps(p)
  <2>1. \A t \in Tasks, s \in Steps : ResetStep(step[t][s]) \in StepRow
    BY DEF TypeOK, ResetStep, StepRow, TaskStatus
  <2> QED
    BY <1>6, <2>1 DEF ResetSteps, TypeOK
<1>7. CASE UpsertSteps(p)
  <2>1. \A t \in Tasks, s \in Steps : EnsureStep(step[t][s]) \in StepRow
    BY DEF TypeOK, EnsureStep, StepRow, TaskStatus
  <2> QED
    BY <1>7, <2>1 DEF UpsertSteps, TypeOK
<1>8. CASE Reread(p)
  BY <1>8 DEF Reread, TypeOK
<1>9. CASE Reschedule(p)
  <2>1. task' \in [Tasks -> TaskRow]
    BY <1>9 DEF Reschedule, TypeOK, TaskRow
  <2> QED
    BY <1>9, <2>1 DEF Reschedule, TypeOK
<1>10. CASE ProducerStops(p)
  BY <1>10 DEF ProducerStops, TypeOK
<1> QED
  BY <1>1, <1>2, <1>3, <1>4, <1>5, <1>6, <1>7, <1>8, <1>9, <1>10 DEF ProducerStep

LEMMA NextTypeOK == TypeOK /\ [Next]_vars => TypeOK'
<1> SUFFICES ASSUME TypeOK, [Next]_vars PROVE TypeOK'
  OBVIOUS
<1>1. CASE \E w \in Workers : WorkerStep(w)
  BY <1>1, ClaimTypeOK, ExecuteTypeOK DEF WorkerStep
<1>2. CASE \E w \in Workers : Crash(w)
  BY <1>2, IdleTypes DEF Crash, TypeOK
<1>3. CASE \E p \in Producers : ProducerStep(p)
  BY <1>3, ProducerTypeOK
<1>4. CASE Tick
  BY <1>4 DEF Tick, TypeOK
<1>5. CASE UNCHANGED vars
  BY <1>5 DEF vars, TypeOK
<1> QED
  BY <1>1, <1>2, <1>3, <1>4, <1>5 DEF Next

\* Every variable keeps its type: rows, counters and the local state of every
\* request, in the states each awaited call of the engine leaves behind.
THEOREM Typing == Spec => []TypeOK
BY InitTypeOK, NextTypeOK, PTL DEF Spec

----------------------------------------------------------------------------
(* Rows and leases: every write to automation_tasks, in one place.         *)

\* Worker w takes the row over that candidate c stands for.
TakesOver(w, c) ==
  /\ worker[w].pc \in {"claimReady", "claimExpired"}
  /\ c \in worker[w].cands
  /\ CasMatches(c)
  /\ IndexAllows(c.id)
  /\ task' = [task EXCEPT ![c.id] = ClaimedRow(c, w)]

\* Worker w ends its attempt at task t.
EndsAttempt(w, t) ==
  /\ worker[w].pc \in {"failTask", "finish"}
  /\ worker[w].cur = t
  /\ worker' = [worker EXCEPT ![w] = IdleWorker]
  /\ \E row \in TaskRow :
       /\ task' = [task EXCEPT ![t] = row]
       /\ row.status \in {"retrying", "failed", "completed"}
       /\ row.status = "completed" => worker[w].pc = "finish"
       /\ row.owner = None
       /\ row.lockExpires = NoTime
  /\ UNCHANGED step

\* A request creates, re-arms or reschedules task t, which is not running.
Prepares(t) ==
  /\ task[t].status \in {"absent", "failed", "pending"}
  /\ \E row \in TaskRow :
       /\ task' = [task EXCEPT ![t] = row]
       /\ row.status = "pending"
       /\ \/ row.owner = task[t].owner /\ row.lockExpires = task[t].lockExpires
          \/ row.owner = None /\ row.lockExpires = NoTime
  /\ UNCHANGED worker

\* An attempt ends in a row that is neither owned nor leased.
LEMMA EndingRows ==
  ASSUME TypeOK, NEW w \in Workers, NEW s \in Steps, NEW t \in Tasks
  PROVE  \A row \in {FailedRow(task[t], s, w), Unlocked(task[t], "completed")} :
           /\ row.status \in {"retrying", "failed", "completed"}
           /\ row.status = "completed" => row # FailedRow(task[t], s, w)
           /\ row.owner = None
           /\ row.lockExpires = NoTime
<1>1. task[t] \in TaskRow
  BY DEF TypeOK
<1>2. \A status : LET row == Unlocked(task[t], status)
                  IN row.status = status /\ row.owner = None /\ row.lockExpires = NoTime
  BY <1>1 DEF Unlocked, TaskRow
<1>3. LET row == [Unlocked(task[t], "retrying") EXCEPT !.scheduled = RetryAt(w)]
      IN row.status = "retrying" /\ row.owner = None /\ row.lockExpires = NoTime
  BY <1>1 DEF Unlocked, TaskRow
<1> QED
  BY <1>2, <1>3 DEF FailedRow

LEMMA Endings ==
  ASSUME TypeOK, NEW w \in Workers, MarkTaskFailed(w) \/ MarkTaskCompleted(w)
  PROVE  \E t \in Tasks : EndsAttempt(w, t)
<1>1. CASE MarkTaskFailed(w)
  <2>1. PICK s \in Steps :
          task' = [task EXCEPT ![worker[w].cur] = FailedRow(task[worker[w].cur], s, w)]
    BY <1>1 DEF MarkTaskFailed
  <2>2. worker[w].cur \in Tasks /\ FailedRow(task[worker[w].cur], s, w) \in TaskRow
    BY RowTypes
  <2>3. worker[w].pc = "failTask" /\ worker' = [worker EXCEPT ![w] = IdleWorker] /\ UNCHANGED step
    BY <1>1 DEF MarkTaskFailed
  <2> QED
    BY <2>1, <2>2, <2>3, EndingRows DEF EndsAttempt
<1>2. CASE MarkTaskCompleted(w)
  <2>1. worker[w].cur \in Tasks
    BY DEF TypeOK, WorkerState
  <2>2. Unlocked(task[worker[w].cur], "completed") \in TaskRow
    BY <2>1 DEF TypeOK, TaskRow, Unlocked, TaskStatus
  <2>3. LET row == Unlocked(task[worker[w].cur], "completed")
        IN row.status = "completed" /\ row.owner = None /\ row.lockExpires = NoTime
    BY <2>1 DEF TypeOK, TaskRow, Unlocked
  <2> QED
    BY <1>2, <2>1, <2>2, <2>3 DEF MarkTaskCompleted, EndsAttempt
<1> QED
  BY <1>1, <1>2

LEMMA ProducerPrepares ==
  ASSUME TypeOK, NEW p \in Producers, ProducerStep(p)
  PROVE  UNCHANGED worker /\ (UNCHANGED task \/ \E t \in Tasks : Prepares(t))
<1>0. ASSUME NEW t \in Tasks, NEW scheduled \in Nat, UNCHANGED worker,
             task' = Ensured(t, scheduled)
      PROVE  UNCHANGED task \/ Prepares(t)
  <2>1. /\ PendingTask(scheduled) \in TaskRow
        /\ PendingTask(scheduled).status = "pending"
        /\ PendingTask(scheduled).owner = None
        /\ PendingTask(scheduled).lockExpires = NoTime
    BY DEF PendingTask, AbsentTask, TaskRow, TaskStatus
  <2> QED
    BY <1>0, <2>1 DEF Ensured, Prepares
<1>1. CASE EnsureDue(p) \/ EnsureDynamic(p)
  <2>1. PICK t \in Tasks, scheduled \in Nat : task' = Ensured(t, scheduled)
    BY <1>1, ConstantsAssumption DEF EnsureDue, EnsureDynamic, TypeOK
  <2>2. UNCHANGED worker
    BY <1>1 DEF EnsureDue, EnsureDynamic
  <2> QED
    BY <1>0, <2>1, <2>2
<1>2. CASE Rearm(p)
  <2> DEFINE row == [task[producer[p].cur] EXCEPT
                       !.status = "pending", !.attempts = 0,
                       !.scheduled = producer[p].want]
  <2>1. /\ UNCHANGED worker
        /\ task[producer[p].cur].status = "failed"
        /\ task' = [task EXCEPT ![producer[p].cur] = row]
    BY <1>2 DEF Rearm
  <2>2. task[producer[p].cur] \in TaskRow
    BY ProducerTypes DEF TypeOK
  <2>3. /\ row \in TaskRow
        /\ row.status = "pending"
        /\ row.owner = task[producer[p].cur].owner
        /\ row.lockExpires = task[producer[p].cur].lockExpires
    BY <2>2, ProducerTypes DEF TaskRow, TaskStatus
  <2> HIDE DEF row
  <2>4. Prepares(producer[p].cur)
    BY <2>1, <2>3 DEF Prepares
  <2> QED
    BY <2>1, <2>4, ProducerTypes
<1>3. CASE Reschedule(p) /\ task[producer[p].cur].status = "pending"
  <2> DEFINE row == [task[producer[p].cur] EXCEPT !.scheduled = producer[p].want]
  <2>1. UNCHANGED worker /\ task' = [task EXCEPT ![producer[p].cur] = row]
    BY <1>3 DEF Reschedule
  <2>2. task[producer[p].cur] \in TaskRow
    BY ProducerTypes DEF TypeOK
  <2>3. /\ row \in TaskRow
        /\ row.status = "pending"
        /\ row.owner = task[producer[p].cur].owner
        /\ row.lockExpires = task[producer[p].cur].lockExpires
    BY <1>3, <2>2, ProducerTypes DEF TaskRow
  <2> HIDE DEF row
  <2>4. Prepares(producer[p].cur)
    BY <1>3, <2>1, <2>3 DEF Prepares
  <2> QED
    BY <2>1, <2>4, ProducerTypes
<1>4. CASE Reschedule(p) /\ task[producer[p].cur].status # "pending"
  BY <1>4 DEF Reschedule
<1> QED
  BY <1>1, <1>2, <1>3, <1>4 DEF ProducerStep, EnsureDue, EnsureDynamic, EnsureFailed, Rearm,
     RearmMissed, ResetSteps, UpsertSteps, Reread, Reschedule, ProducerStops

LEMMA TaskWrites ==
  ASSUME TypeOK, Next
  PROVE  \/ UNCHANGED task
         \/ \E w \in Workers, c \in Candidate : TakesOver(w, c)
         \/ \E w \in Workers, t \in Tasks : EndsAttempt(w, t)
         \/ \E t \in Tasks : Prepares(t)
<1>1. ASSUME NEW w \in Workers, ClaimStep(w)
      PROVE  UNCHANGED task \/ \E c \in Candidate : TakesOver(w, c)
  <2>1. CASE Claim(w)
    <3>1. worker[w].cands \in SUBSET Candidate
      BY DEF TypeOK, WorkerState
    <3> QED
      BY <2>1, <3>1 DEF Claim, TakesOver
  <2> QED
    BY <1>1, <2>1 DEF ClaimStep, ScanReady, ScanExpired, NothingToClaim, ClaimMissed
<1>2. ASSUME NEW w \in Workers, ExecuteStep(w) \/ CompletionResponseLost(w) \/ Crash(w)
      PROVE  UNCHANGED task \/ \E t \in Tasks : EndsAttempt(w, t)
  <2>1. CASE MarkTaskFailed(w) \/ MarkTaskCompleted(w)
    BY <2>1, Endings
  <2> QED
    BY <1>2, <2>1 DEF ExecuteStep, Load, ReadStep, MarkStepRunning, MarkStepCompleted,
       CompletionResponseLost, MarkStepFailed, Crash
<1>3. ASSUME NEW p \in Producers, ProducerStep(p)
      PROVE  UNCHANGED task \/ \E t \in Tasks : Prepares(t)
  BY <1>3, ProducerPrepares
<1>4. Tick => UNCHANGED task
  BY DEF Tick
<1> QED
  BY <1>1, <1>2, <1>3, <1>4 DEF Next, WorkerStep

\* A taken over row is running, owned by its new worker and leased from the
\* time of the worker's scan.
LEMMA TakenRow ==
  ASSUME TypeOK, NEW w \in Workers, NEW c \in Candidate, TakesOver(w, c)
  PROVE  /\ c.id \in Tasks
         /\ task'[c.id].status = "running"
         /\ task'[c.id].owner = w
         /\ task'[c.id].lockExpires = worker[w].at + Lease
         /\ worker[w].at + Lease \in Nat
         /\ \A t \in Tasks \ {c.id} : task'[t] = task[t]
<1>1. c.id \in Tasks /\ task[c.id] \in TaskRow
  BY DEF Candidate, TypeOK
<1>2. task'[c.id] = ClaimedRow(c, w) /\ \A t \in Tasks \ {c.id} : task'[t] = task[t]
  BY <1>1 DEF TakesOver, TypeOK
<1>3. /\ ClaimedRow(c, w).status = "running"
      /\ ClaimedRow(c, w).owner = w
      /\ ClaimedRow(c, w).lockExpires = worker[w].at + Lease
  BY <1>1 DEF ClaimedRow, TaskRow
<1>4. worker[w].at + Lease \in Nat
  BY ConstantsAssumption DEF TypeOK, WorkerState
<1> QED
  BY <1>1, <1>2, <1>3, <1>4

LEMMA InitLeased == Init => RunningIffLeased
BY DEF Init, RunningIffLeased, AbsentTask

LEMMA NextLeased == TypeOK /\ RunningIffLeased /\ [Next]_vars => RunningIffLeased'
<1> SUFFICES ASSUME TypeOK, RunningIffLeased, [Next]_vars PROVE RunningIffLeased'
  OBVIOUS
<1>1. CASE UNCHANGED task
  BY <1>1 DEF RunningIffLeased
<1>2. ASSUME NEW w \in Workers, NEW c \in Candidate, TakesOver(w, c)
      PROVE  RunningIffLeased'
  BY <1>2, TakenRow, ConstantsAssumption DEF RunningIffLeased, NoTime
<1>3. ASSUME NEW w \in Workers, NEW t \in Tasks, EndsAttempt(w, t)
      PROVE  RunningIffLeased'
  BY <1>3 DEF EndsAttempt, RunningIffLeased, TypeOK
<1>4. ASSUME NEW t \in Tasks, Prepares(t)
      PROVE  RunningIffLeased'
  BY <1>4 DEF Prepares, RunningIffLeased, TypeOK
<1>5. CASE UNCHANGED vars
  BY <1>5 DEF vars, RunningIffLeased
<1> QED
  BY <1>1, <1>2, <1>3, <1>4, <1>5, TaskWrites

\* A row is running exactly while it is owned and leased: whatever a stale
\* worker writes, the expired scan sees every running row.
THEOREM Leasing == Spec => []RunningIffLeased
BY InitLeased, NextLeased, Typing, PTL DEF Spec

LEMMA NextSingle == TypeOK /\ SingleRunningAnalysis /\ [Next]_vars => SingleRunningAnalysis'
<1> SUFFICES ASSUME TypeOK, SingleRunningAnalysis, [Next]_vars PROVE SingleRunningAnalysis'
  OBVIOUS
<1>0. Analysis \subseteq Tasks
  BY ConstantsAssumption
<1>1. CASE UNCHANGED task
  BY <1>1 DEF SingleRunningAnalysis
<1>2. ASSUME NEW w \in Workers, NEW c \in Candidate, TakesOver(w, c)
      PROVE  SingleRunningAnalysis'
  BY <1>0, <1>2, TakenRow DEF SingleRunningAnalysis, TakesOver, IndexAllows
<1>3. ASSUME NEW w \in Workers, NEW t \in Tasks, EndsAttempt(w, t)
      PROVE  SingleRunningAnalysis'
  BY <1>0, <1>3 DEF EndsAttempt, SingleRunningAnalysis, TypeOK
<1>4. ASSUME NEW t \in Tasks, Prepares(t)
      PROVE  SingleRunningAnalysis'
  BY <1>0, <1>4 DEF Prepares, SingleRunningAnalysis, TypeOK
<1>5. CASE UNCHANGED vars
  BY <1>5 DEF vars, SingleRunningAnalysis
<1> QED
  BY <1>1, <1>2, <1>3, <1>4, <1>5, TaskWrites

\* Two tasks of the analysis family never run at once, whichever way a row
\* comes to be running.
THEOREM OneAnalysis == Spec => []SingleRunningAnalysis
<1>1. Init => SingleRunningAnalysis
  BY ConstantsAssumption DEF Init, SingleRunningAnalysis, AbsentTask
<1> QED
  BY <1>1, NextSingle, Typing, PTL DEF Spec

----------------------------------------------------------------------------
(* Takeovers.                                                              *)

\* What a worker still holds of its scans: a row the expired scan returned
\* had a lease that ran out before the worker's time, which has passed.
CandidatesSound ==
  \A w \in Workers :
    /\ worker[w].at <= now
    /\ \A c \in worker[w].cands :
         /\ c.row.status \in {"pending", "retrying", "running"}
         /\ c.row.status = "running" => c.row.lockExpires < worker[w].at

\* Only a worker's own steps touch its state.
LEMMA OwnSteps ==
  ASSUME TypeOK, NEW w \in Workers, WorkerStep(w) \/ Crash(w)
  PROVE  /\ worker' = [worker EXCEPT ![w] = worker'[w]]
         /\ \A v \in Workers \ {w} : worker'[v] = worker[v]
         /\ now' = now
<1>1. ClaimStep(w) => now' = now /\ \E x : worker' = [worker EXCEPT ![w] = x]
  BY DEF ClaimStep, ScanReady, ScanExpired, NothingToClaim, Claim, ClaimMissed
<1>2. ExecuteStep(w) \/ CompletionResponseLost(w) =>
        now' = now /\ \E x : worker' = [worker EXCEPT ![w] = x]
  BY DEF ExecuteStep, CompletionResponseLost, Load, ReadStep, MarkStepRunning,
     MarkStepCompleted, MarkStepFailed, MarkTaskFailed, MarkTaskCompleted
<1>3. Crash(w) => now' = now /\ \E x : worker' = [worker EXCEPT ![w] = x]
  BY DEF Crash
<1>4. now' = now /\ \E x : worker' = [worker EXCEPT ![w] = x]
  BY <1>1, <1>2, <1>3 DEF WorkerStep
<1> QED
  BY <1>4 DEF TypeOK

\* What remains to claim is empty for a worker that is idle or executes.
SoundWorker(ws, time) ==
  /\ ws.at <= time
  /\ \A c \in ws.cands :
       /\ c.row.status \in {"pending", "retrying", "running"}
       /\ c.row.status = "running" => c.row.lockExpires < ws.at

LEMMA SoundStep ==
  ASSUME TypeOK, NEW w \in Workers, SoundWorker(worker[w], now), WorkerStep(w) \/ Crash(w)
  PROVE  SoundWorker(worker'[w], now)
<1>0. /\ worker[w] \in WorkerState /\ now \in Nat
      /\ SoundWorker(IdleWorker, now)
  BY DEF TypeOK, SoundWorker, IdleWorker
<1>1. CASE ScanReady(w)
  <2>1. PICK page \in Pages(Snapshots(ReadyTasks(now))) :
          worker' = [worker EXCEPT ![w] =
                       [@ EXCEPT !.pc = "claimReady", !.at = now, !.cands = page]]
    BY <1>1 DEF ScanReady
  <2>2. page \subseteq Snapshots(ReadyTasks(now))
    BY DEF Pages
  <2>3. \A c \in page : c.row.status \in {"pending", "retrying"}
    BY <2>2 DEF Snapshots, ReadyTasks
  <2>4. worker'[w].at = now /\ worker'[w].cands = page
    BY <1>0, <2>1 DEF TypeOK, WorkerState
  <2> QED
    BY <1>0, <2>3, <2>4 DEF SoundWorker
<1>2. CASE ScanExpired(w)
  <2>1. PICK page \in Pages(Snapshots(ExpiredTasks(worker[w].at))) :
          worker' = [worker EXCEPT ![w] =
                       [@ EXCEPT !.pc = "claimExpired", !.cands = page]]
    BY <1>2 DEF ScanExpired
  <2>2. page \subseteq Snapshots(ExpiredTasks(worker[w].at))
    BY DEF Pages
  <2>3. \A c \in page : c.row.status = "running" /\ c.row.lockExpires < worker[w].at
    BY <2>2 DEF Snapshots, ExpiredTasks
  <2>4. worker'[w].at = worker[w].at /\ worker'[w].cands = page
    BY <1>0, <2>1 DEF TypeOK, WorkerState
  <2> QED
    BY <2>3, <2>4 DEF SoundWorker
<1>3. CASE NothingToClaim(w) \/ Crash(w) \/ MarkTaskFailed(w) \/ MarkTaskCompleted(w)
  <2>1. worker'[w] = IdleWorker
    BY <1>3 DEF NothingToClaim, Crash, MarkTaskFailed, MarkTaskCompleted, TypeOK
  <2> QED
    BY <1>0, <2>1
<1>4. CASE Claim(w)
  <2>1. worker'[w].at = 0 /\ worker'[w].cands = {}
    BY <1>0, <1>4 DEF Claim, TypeOK, WorkerState
  <2> QED
    BY <1>0, <2>1 DEF SoundWorker
<1>5. CASE ClaimMissed(w)
  <2>1. worker'[w].at = worker[w].at /\ worker'[w].cands \subseteq worker[w].cands
    BY <1>0, <1>5 DEF ClaimMissed, TypeOK, WorkerState
  <2> QED
    BY <2>1 DEF SoundWorker
<1>6. CASE MarkStepFailed(w)
  <2>1. worker'[w].at = now /\ worker'[w].cands = worker[w].cands
    BY <1>0, <1>6 DEF MarkStepFailed, TypeOK, WorkerState
  <2>2. worker[w].at \in Nat /\ worker[w].at <= now
    BY <1>0 DEF SoundWorker, WorkerState
  <2>3. \A c \in worker[w].cands : c.row.lockExpires \in Int
    BY <1>0 DEF WorkerState, Candidate, TaskRow, NoTime
  <2>4. \A c \in worker[w].cands : c.row.lockExpires < worker[w].at => c.row.lockExpires < now
    BY <1>0, <2>2, <2>3
  <2>5. \A c \in worker[w].cands :
          /\ c.row.status \in {"pending", "retrying", "running"}
          /\ c.row.status = "running" => c.row.lockExpires < now
    BY <2>4 DEF SoundWorker
  <2> QED
    BY <1>0, <2>1, <2>5 DEF SoundWorker
<1>7. CASE Load(w) \/ ReadStep(w) \/ MarkStepRunning(w) \/ MarkStepCompleted(w)
           \/ CompletionResponseLost(w)
  <2> DEFINE Kept == worker'[w].at = worker[w].at /\ worker'[w].cands = worker[w].cands
  <2>1. Load(w) => Kept
    BY <1>0 DEF Load, TypeOK, WorkerState
  <2>2. ReadStep(w) => Kept
    BY <1>0 DEF ReadStep, TypeOK, WorkerState
  <2>3. MarkStepRunning(w) => Kept
    BY <1>0 DEF MarkStepRunning, TypeOK, WorkerState
  <2>4. MarkStepCompleted(w) => Kept
    BY <1>0 DEF MarkStepCompleted, TypeOK, WorkerState
  <2>5. CompletionResponseLost(w) => Kept
    BY <1>0 DEF CompletionResponseLost, TypeOK, WorkerState
  <2> QED
    BY <1>7, <2>1, <2>2, <2>3, <2>4, <2>5 DEF SoundWorker
<1> QED
  BY <1>1, <1>2, <1>3, <1>4, <1>5, <1>6, <1>7 DEF WorkerStep, ClaimStep, ExecuteStep

LEMMA NextSound == TypeOK /\ CandidatesSound /\ [Next]_vars => CandidatesSound'
<1> SUFFICES ASSUME TypeOK, CandidatesSound, [Next]_vars PROVE CandidatesSound'
  OBVIOUS
<1>0. \A w \in Workers : SoundWorker(worker[w], now)
  BY DEF CandidatesSound, SoundWorker
<1>1. ASSUME NEW w \in Workers, WorkerStep(w) \/ Crash(w)
      PROVE  \A v \in Workers : SoundWorker(worker'[v], now')
  <2>1. SoundWorker(worker'[w], now)
    BY <1>0, <1>1, SoundStep
  <2>2. now' = now /\ \A v \in Workers \ {w} : worker'[v] = worker[v]
    BY <1>1, OwnSteps
  <2> QED
    BY <1>0, <2>1, <2>2
<1>2. ASSUME NEW p \in Producers, ProducerStep(p)
      PROVE  worker' = worker /\ now' = now
  BY <1>2 DEF ProducerStep, EnsureDue, EnsureDynamic, EnsureFailed, Rearm, RearmMissed,
     ResetSteps, UpsertSteps, Reread, Reschedule, ProducerStops
<1>3. CASE Tick
  <2>1. worker' = worker /\ now' = now + 1
    BY <1>3 DEF Tick
  <2>2. \A w \in Workers : worker[w].at \in Nat /\ now \in Nat
    BY DEF TypeOK, WorkerState
  <2> QED
    BY <2>1, <2>2 DEF CandidatesSound
<1>4. CASE UNCHANGED vars
  BY <1>4 DEF vars, CandidatesSound
<1> QED
  BY <1>0, <1>1, <1>2, <1>3, <1>4 DEF Next, CandidatesSound, SoundWorker

LEMMA Soundness == Spec => []CandidatesSound
<1>1. Init => CandidatesSound
  BY DEF Init, CandidatesSound, IdleWorker
<1> QED
  BY <1>1, NextSound, Typing, PTL DEF Spec

\* A claim takes over a running row only when its lease has run out by then:
\* the scan saw an expired lease and the update requires the same lease.
THEOREM LeasesRespected == Spec => LiveLeaseNotStolen
<1> DEFINE Respected(t) ==
      task[t].status = "running" /\ task'[t].status = "running" /\ task'[t] # task[t]
      => task[t].lockExpires < now
<1>1. ASSUME TypeOK, CandidatesSound, [Next]_vars, NEW t \in Tasks
      PROVE  Respected(t)
  <2>1. CASE UNCHANGED task
    BY <2>1
  <2>2. ASSUME NEW w \in Workers, NEW c \in Candidate, TakesOver(w, c)
        PROVE  Respected(t)
    <3>1. CASE t # c.id
      BY <1>1, <2>2, <3>1, TakenRow
    <3>2. CASE t = c.id /\ task[t].status = "running"
      <4>1. /\ c.row.status = "running"
            /\ task[t].lockExpires = c.row.lockExpires
            /\ c \in worker[w].cands
        BY <2>2, <3>2 DEF TakesOver, CasMatches
      <4>2. c.row.lockExpires < worker[w].at /\ worker[w].at <= now
        BY <1>1, <4>1 DEF CandidatesSound
      <4>3. c.row.lockExpires \in Int /\ worker[w].at \in Nat /\ now \in Nat
        BY <1>1 DEF TypeOK, WorkerState, Candidate, TaskRow, NoTime
      <4> QED
        BY <4>1, <4>2, <4>3
    <3> QED
      BY <3>1, <3>2
  <2>3. ASSUME NEW w \in Workers, NEW u \in Tasks, EndsAttempt(w, u)
        PROVE  Respected(t)
    BY <1>1, <2>3 DEF EndsAttempt, TypeOK
  <2>4. ASSUME NEW u \in Tasks, Prepares(u)
        PROVE  Respected(t)
    BY <1>1, <2>4 DEF Prepares, TypeOK
  <2>5. CASE UNCHANGED vars
    BY <2>5 DEF vars
  <2> QED
    BY <1>1, <2>1, <2>2, <2>3, <2>4, <2>5, TaskWrites
<1>2. TypeOK /\ CandidatesSound /\ [Next]_vars =>
        [\A t \in Tasks :
           /\ task[t].status = "running"
           /\ task'[t].status = "running"
           /\ task'[t] # task[t]
           => task[t].lockExpires < now]_vars
  BY <1>1
<1> QED
  BY <1>2, Typing, Soundness, PTL DEF Spec, LiveLeaseNotStolen

----------------------------------------------------------------------------
(* Orderly behaviours.                                                     *)

LEMMA OrderlyIsBehaviour == OrderlySpec => Spec
BY PTL DEF OrderlySpec, Spec, OrderlyNext

LEMMA OrderlyFacts == OrderlySpec => [](TypeOK /\ CandidatesSound)
BY OrderlyIsBehaviour, Typing, Soundness, PTL

LEMMA IdleNotExecuting == IdleWorker.pc \notin ExecutingPc
BY DEF IdleWorker, ExecutingPc

LEMMA TimelyAlways == OrderlySpec => []Timely
<1>1. Init => Timely
  BY IdleNotExecuting DEF Init, Timely, Executing
<1>2. Timely /\ [OrderlyNext]_vars => Timely'
  BY DEF OrderlyNext, vars, Timely, Executing
<1> QED
  BY <1>1, <1>2, PTL DEF OrderlySpec

\* Claiming and ending steps leave a worker that executes nothing.
LEMMA NotExecutingAfter ==
  ASSUME TypeOK, NEW w \in Workers,
         ScanReady(w) \/ ScanExpired(w) \/ NothingToClaim(w) \/ ClaimMissed(w)
           \/ MarkTaskFailed(w) \/ MarkTaskCompleted(w) \/ Crash(w)
  PROVE  worker'[w].pc \notin ExecutingPc
<1>0. worker[w] \in WorkerState
  BY DEF TypeOK
<1>1. ScanReady(w) => worker'[w].pc = "claimReady"
  BY <1>0 DEF ScanReady, TypeOK, WorkerState
<1>2. ASSUME ScanExpired(w)
      PROVE  worker'[w].pc = "claimExpired"
  <2>1. PICK page : worker' = [worker EXCEPT ![w] =
                                 [@ EXCEPT !.pc = "claimExpired", !.cands = page]]
    BY <1>2 DEF ScanExpired
  <2> QED
    BY <1>0, <2>1 DEF TypeOK, WorkerState
<1>3. ClaimMissed(w) => worker'[w].pc \in {"claimReady", "claimExpired"}
  BY <1>0 DEF ClaimMissed, TypeOK, WorkerState
<1>4. NothingToClaim(w) \/ MarkTaskFailed(w) \/ MarkTaskCompleted(w) \/ Crash(w)
        => worker'[w] = IdleWorker
  BY <1>0 DEF NothingToClaim, MarkTaskFailed, MarkTaskCompleted, Crash, TypeOK
<1>5. worker'[w].pc \in {"claimReady", "claimExpired", "idle"}
  BY <1>1, <1>2, <1>3, <1>4 DEF IdleWorker
<1> QED
  BY <1>5 DEF ExecutingPc

\* Between its claim and the end of its attempt a worker stays with its task
\* and its lease.
LEMMA StaysWithTask ==
  ASSUME TypeOK, NEW w \in Workers, WorkerStep(w) \/ Crash(w), ~Claim(w),
         worker'[w].pc \in ExecutingPc
  PROVE  /\ worker[w].pc \in ExecutingPc
         /\ worker'[w].cur = worker[w].cur
         /\ worker'[w].until = worker[w].until
         /\ UNCHANGED task
<1> DEFINE Stays == /\ worker[w].pc \in ExecutingPc
                    /\ worker'[w].cur = worker[w].cur
                    /\ worker'[w].until = worker[w].until
                    /\ UNCHANGED task
<1>0. worker[w] \in WorkerState
  BY DEF TypeOK
<1>1. ~(ScanReady(w) \/ ScanExpired(w) \/ NothingToClaim(w) \/ ClaimMissed(w)
        \/ MarkTaskFailed(w) \/ MarkTaskCompleted(w) \/ Crash(w))
  BY NotExecutingAfter
<1>4. Load(w) => Stays
  BY <1>0 DEF Load, TypeOK, WorkerState, ExecutingPc
<1>5. ReadStep(w) => Stays
  BY <1>0 DEF ReadStep, TypeOK, WorkerState, ExecutingPc
<1>6. MarkStepRunning(w) => Stays
  BY <1>0 DEF MarkStepRunning, TypeOK, WorkerState, ExecutingPc
<1>7. MarkStepCompleted(w) => Stays
  BY <1>0 DEF MarkStepCompleted, TypeOK, WorkerState, ExecutingPc
<1>8. MarkStepFailed(w) => Stays
  BY <1>0 DEF MarkStepFailed, TypeOK, WorkerState, ExecutingPc
<1>9. CompletionResponseLost(w) => Stays
  BY <1>0 DEF CompletionResponseLost, TypeOK, WorkerState, ExecutingPc
<1> QED
  BY <1>1, <1>4, <1>5, <1>6, <1>7, <1>8, <1>9
  DEF WorkerStep, ClaimStep, ExecuteStep

\* The row an executing worker holds.
Holds(ws, w, row) == row.status = "running" /\ row.owner = w /\ row.lockExpires = ws.until

LEMMA NextHolds ==
  TypeOK /\ CandidatesSound /\ Timely /\ ExecutorHoldsLease /\ [Next]_vars => ExecutorHoldsLease'
<1> SUFFICES ASSUME TypeOK, CandidatesSound, Timely, ExecutorHoldsLease, [Next]_vars,
                    NEW v \in Workers, worker'[v].pc \in ExecutingPc
             PROVE  Holds(worker'[v], v, task'[worker'[v].cur])
  BY DEF ExecutorHoldsLease, Executing, Holds
<1>0. /\ worker[v] \in WorkerState /\ worker[v].cur \in Tasks
      /\ \A w \in Workers : worker[w].pc \in ExecutingPc =>
           Holds(worker[w], w, task[worker[w].cur])
  BY DEF ExecutorHoldsLease, Executing, Holds, TypeOK, WorkerState
<1>1. CASE UNCHANGED task /\ UNCHANGED worker
  BY <1>0, <1>1
<1>2. CASE Claim(v)
  <2>1. PICK c \in worker[v].cands :
          /\ task' = [task EXCEPT ![c.id] = ClaimedRow(c, v)]
          /\ worker' = [worker EXCEPT ![v] =
               [@ EXCEPT !.pc = "load", !.cur = c.id, !.cands = {}, !.at = 0,
                         !.until = worker[v].at + Lease]]
          /\ TakesOver(v, c)
    BY <1>2 DEF Claim, TakesOver
  <2>2. c \in Candidate
    BY <1>0 DEF WorkerState
  <2>3. worker'[v].cur = c.id /\ worker'[v].until = worker[v].at + Lease
    BY <1>0, <2>1 DEF TypeOK, WorkerState
  <2> QED
    BY <2>1, <2>2, <2>3, TakenRow DEF Holds
<1>3. CASE ~Claim(v) /\ (WorkerStep(v) \/ Crash(v))
  BY <1>0, <1>3, StaysWithTask DEF Holds
<1>4. ASSUME NEW w \in Workers \ {v}, WorkerStep(w) \/ Crash(w)
      PROVE  Holds(worker'[v], v, task'[worker'[v].cur])
  <2>0. worker'[v] = worker[v] /\ Holds(worker[v], v, task[worker[v].cur])
    BY <1>0, <1>4, OwnSteps
  <2>1. CASE UNCHANGED task
    BY <2>0, <2>1
  <2>2. CASE Claim(w)
    <3>1. PICK c \in worker[w].cands : TakesOver(w, c)
      BY <2>2 DEF Claim, TakesOver
    <3>2. c \in Candidate /\ worker[w].at \in Nat /\ now \in Nat /\ worker[v].until \in Int
      BY <1>0 DEF TypeOK, WorkerState, NoTime
    <3>3. c.id # worker[v].cur
      <4>1. SUFFICES ASSUME c.id = worker[v].cur PROVE FALSE
        OBVIOUS
      <4>2. c.row.status = "running" /\ c.row.lockExpires = worker[v].until
        BY <2>0, <3>1, <4>1 DEF TakesOver, CasMatches, Holds
      <4>3. c.row.lockExpires < worker[w].at /\ worker[w].at <= now
        BY <3>1, <4>2 DEF CandidatesSound
      <4>4. now <= worker[v].until
        BY <2>0 DEF Timely, Executing
      <4> QED
        BY <3>2, <4>2, <4>3, <4>4
    <3> QED
      BY <1>0, <2>0, <3>1, <3>2, <3>3, TakenRow
  <2>3. CASE MarkTaskFailed(w) \/ MarkTaskCompleted(w)
    <3>1. worker[w].pc \in {"failTask", "finish"}
      BY <2>3 DEF MarkTaskFailed, MarkTaskCompleted
    <3>2. task[worker[w].cur].owner = w
      BY <1>0, <3>1 DEF Holds, ExecutingPc
    <3>3. worker[w].cur # worker[v].cur
      BY <2>0, <3>2 DEF Holds
    <3>4. \A t \in Tasks \ {worker[w].cur} : task'[t] = task[t]
      BY <2>3 DEF MarkTaskFailed, MarkTaskCompleted, TypeOK
    <3> QED
      BY <1>0, <2>0, <3>3, <3>4
  <2> QED
    BY <1>4, <2>1, <2>2, <2>3 DEF WorkerStep, ClaimStep, ExecuteStep, CompletionResponseLost,
       ScanReady, ScanExpired, NothingToClaim, ClaimMissed, Load, ReadStep, MarkStepRunning,
       MarkStepCompleted, MarkStepFailed, Crash
<1>5. ASSUME NEW t \in Tasks, Prepares(t)
      PROVE  Holds(worker'[v], v, task'[worker'[v].cur])
  <2>1. worker'[v] = worker[v] /\ Holds(worker[v], v, task[worker[v].cur])
    BY <1>0, <1>5 DEF Prepares
  <2>2. t # worker[v].cur /\ \A u \in Tasks \ {t} : task'[u] = task[u]
    BY <1>5, <2>1 DEF Prepares, Holds, TypeOK
  <2> QED
    BY <1>0, <2>1, <2>2
<1>6. ASSUME NEW p \in Producers, ProducerStep(p)
      PROVE  (UNCHANGED task /\ UNCHANGED worker) \/ \E t \in Tasks : Prepares(t)
  BY <1>6, ProducerPrepares
<1>7. CASE Tick \/ UNCHANGED vars
  BY <1>1, <1>7 DEF Tick, vars
<1> QED
  BY <1>1, <1>2, <1>3, <1>4, <1>5, <1>6, <1>7 DEF Next

\* A worker that executes a task owns its row under its own lease as long as
\* it finishes within the lease: the update of a claim cannot match that row.
THEOREM Ownership == OrderlySpec => []ExecutorHoldsLease
<1>1. Init => ExecutorHoldsLease
  BY IdleNotExecuting DEF Init, ExecutorHoldsLease, Executing
<1>2. /\ TypeOK /\ CandidatesSound /\ Timely /\ ExecutorHoldsLease
      /\ [OrderlyNext]_vars
      => ExecutorHoldsLease'
  BY NextHolds DEF OrderlyNext
<1> QED
  BY <1>1, <1>2, OrderlyFacts, TimelyAlways, PTL DEF OrderlySpec

\* Nobody reopens a completed task: a claim and an ending attempt need a row
\* that is still in hand, a compensation a failed one.
THEOREM CompletedTasksStay == OrderlySpec => CompletedTaskIsFinal
<1> DEFINE Final == \A t \in Tasks :
                      task[t].status = "completed" => task'[t].status = "completed"
<1>1. ASSUME TypeOK, CandidatesSound, ExecutorHoldsLease, [Next]_vars
      PROVE  Final
  <2>1. CASE UNCHANGED task
    BY <2>1
  <2>2. ASSUME NEW w \in Workers, NEW c \in Candidate, TakesOver(w, c)
        PROVE  Final
    <3>1. task[c.id].status \in {"pending", "retrying", "running"}
      BY <1>1, <2>2 DEF TakesOver, CasMatches, CandidatesSound
    <3> QED
      BY <1>1, <2>2, <3>1, TakenRow
  <2>3. ASSUME NEW w \in Workers, NEW t \in Tasks, EndsAttempt(w, t)
        PROVE  Final
    <3>1. task[t].status = "running"
      BY <1>1, <2>3 DEF EndsAttempt, ExecutorHoldsLease, Executing, ExecutingPc
    <3> QED
      BY <1>1, <2>3, <3>1 DEF EndsAttempt, TypeOK
  <2>4. ASSUME NEW t \in Tasks, Prepares(t)
        PROVE  Final
    BY <1>1, <2>4 DEF Prepares, TypeOK
  <2>5. CASE UNCHANGED vars
    BY <2>5 DEF vars
  <2> QED
    BY <1>1, <2>1, <2>2, <2>3, <2>4, <2>5, TaskWrites
<1>2. TypeOK /\ CandidatesSound /\ ExecutorHoldsLease /\ [OrderlyNext]_vars =>
        [\A t \in Tasks :
           task[t].status = "completed" => task'[t].status = "completed"]_vars
  BY <1>1 DEF OrderlyNext
<1> QED
  BY <1>2, OrderlyFacts, Ownership, PTL DEF OrderlySpec, CompletedTaskIsFinal

----------------------------------------------------------------------------
(* Completed steps.                                                        *)

\* A worker's list of steps to run, once loaded, holds no completed step.
TodoOpen ==
  \A w \in Workers : Executing(w) /\ worker[w].pc # "load" =>
    \A s \in worker[w].todo : step[worker[w].cur][s].status # "completed"

\* No two workers execute one task.
LEMMA Alone ==
  ASSUME ExecutorHoldsLease, NEW v \in Workers, NEW w \in Workers,
         Executing(v), Executing(w), worker[v].cur = worker[w].cur
  PROVE  v = w
BY DEF ExecutorHoldsLease

\* Every write to automation_task_steps: an executing worker writes a step it
\* has still to run, a request resets or creates steps.
WritesStep(w, s) ==
  /\ worker[w].pc \in {"mark", "handle", "failStep"}
  /\ s \in worker[w].todo
  /\ \E row \in StepRow : step' = [step EXCEPT ![worker[w].cur][s] = row]

Broken(row) == row.status \in {"failed", "retrying", "running"}

KeepsCompleted ==
  \A t \in Tasks, s \in Steps :
    /\ (step[t][s].status = "completed") <=> (step'[t][s].status = "completed")
    /\ Broken(step'[t][s]) => Broken(step[t][s])
    /\ step'[t][s].attempts <= step[t][s].attempts

LEMMA StepWrites ==
  ASSUME TypeOK, Next
  PROVE  \/ KeepsCompleted
         \/ \E w \in Workers, s \in Steps :
              WritesStep(w, s) /\ (WorkerStep(w) \/ Crash(w))
<1>0. CASE UNCHANGED step
  BY <1>0 DEF KeepsCompleted, TypeOK, StepRow
<1>1. ASSUME NEW w \in Workers, NEW s \in Steps, AtStep(s, w),
             worker[w].pc \in {"handle", "failStep"}, NEW status \in TaskStatus,
             step' = SetStepStatus(worker[w].cur, s, status)
      PROVE  WritesStep(w, s)
  <2>1. step[worker[w].cur][s] \in StepRow
    BY RowTypes
  <2>2. [step[worker[w].cur][s] EXCEPT !.status = status] \in StepRow
    BY <2>1 DEF StepRow
  <2> QED
    BY <1>1, <2>2 DEF SetStepStatus, WritesStep, AtStep
<1>2. ASSUME NEW w \in Workers, MarkStepRunning(w)
      PROVE  \E s \in Steps : WritesStep(w, s)
  <2>1. PICK s \in Steps : AtStep(s, w) /\ step' = [step EXCEPT ![worker[w].cur][s] =
                     [status |-> "running", attempts |-> worker[w].seen + 1]]
    BY <1>2 DEF MarkStepRunning
  <2>2. [status |-> "running", attempts |-> worker[w].seen + 1] \in StepRow
    BY RowTypes DEF StepRow, TaskStatus
  <2> QED
    BY <1>2, <2>1, <2>2 DEF MarkStepRunning, WritesStep, AtStep
<1>3. ASSUME NEW w \in Workers, MarkStepCompleted(w) \/ CompletionResponseLost(w)
      PROVE  \E s \in Steps : WritesStep(w, s)
  <2>1. PICK s \in Steps : /\ AtStep(s, w) /\ worker[w].pc = "handle"
                           /\ step' = SetStepStatus(worker[w].cur, s, "completed")
    BY <1>3 DEF MarkStepCompleted, CompletionResponseLost
  <2> QED
    BY <1>1, <2>1 DEF TaskStatus
<1>4. ASSUME NEW w \in Workers, MarkStepFailed(w)
      PROVE  \E s \in Steps : WritesStep(w, s)
  <2>1. PICK s \in Steps : /\ AtStep(s, w) /\ worker[w].pc \in {"handle", "failStep"}
                           /\ step' = SetStepStatus(worker[w].cur, s, FailedStatus(s, w))
    BY <1>4 DEF MarkStepFailed
  <2> QED
    BY <1>1, <2>1, RowTypes
<1>5. ASSUME NEW p \in Producers, ResetSteps(p)
      PROVE  KeepsCompleted
  BY <1>5 DEF ResetSteps, ResetStep, KeepsCompleted, Broken, TypeOK, StepRow
<1>6. ASSUME NEW p \in Producers, UpsertSteps(p)
      PROVE  KeepsCompleted
  BY <1>6 DEF UpsertSteps, EnsureStep, KeepsCompleted, Broken, TypeOK, StepRow
<1>7. ASSUME NEW w \in Workers, WorkerStep(w) \/ Crash(w)
      PROVE  UNCHANGED step \/ \E s \in Steps : WritesStep(w, s)
  BY <1>2, <1>3, <1>4, <1>7 DEF WorkerStep, ClaimStep, ExecuteStep, ScanReady, ScanExpired,
     NothingToClaim, Claim, ClaimMissed, Load, ReadStep, MarkTaskFailed, MarkTaskCompleted, Crash
<1>8. ASSUME NEW p \in Producers, ProducerStep(p)
      PROVE  UNCHANGED step \/ KeepsCompleted
  BY <1>5, <1>6, <1>8 DEF ProducerStep, EnsureDue, EnsureDynamic, EnsureFailed, Rearm,
     RearmMissed, Reread, Reschedule, ProducerStops
<1>9. Tick => UNCHANGED step
  BY DEF Tick
<1> QED
  BY <1>0, <1>7, <1>8, <1>9 DEF Next

LEMMA NextTodoOpen ==
  TypeOK /\ ExecutorHoldsLease /\ TodoOpen /\ [OrderlyNext]_vars => TodoOpen'
<1> SUFFICES ASSUME TypeOK, ExecutorHoldsLease, TodoOpen, [OrderlyNext]_vars,
                    NEW v \in Workers, worker'[v].pc \in ExecutingPc \ {"load"},
                    NEW s \in worker'[v].todo
             PROVE  step'[worker'[v].cur][s].status # "completed"
  BY DEF TodoOpen, Executing
<1> DEFINE Open(ws) == /\ ws.pc \in ExecutingPc \ {"load"}
                       /\ s \in ws.todo
                       /\ step[ws.cur][s].status # "completed"
<1>0. worker[v] \in WorkerState /\ worker[v].cur \in Tasks
  BY DEF TypeOK, WorkerState
<1>1. CASE UNCHANGED vars
  BY <1>1 DEF vars, TodoOpen, Executing
<1>2. CASE Load(v)
  <2>1. worker'[v].cur = worker[v].cur /\ worker'[v].todo = StepsToRun(worker[v].cur) /\ step' = step
    BY <1>0, <1>2 DEF Load, TypeOK, WorkerState
  <2> QED
    BY <2>1 DEF StepsToRun
<1>3. CASE MarkStepCompleted(v)
  <2>1. PICK r \in Steps :
          /\ r \in worker[v].todo
          /\ step' = SetStepStatus(worker[v].cur, r, "completed")
          /\ worker' = [worker EXCEPT ![v] =
               [@ EXCEPT !.todo = worker[v].todo \ {r},
                         !.pc = AfterStep(worker[v].todo \ {r})]]
    BY <1>3 DEF MarkStepCompleted, AtStep
  <2>2. worker'[v].cur = worker[v].cur /\ worker'[v].todo = worker[v].todo \ {r}
    BY <1>0, <2>1 DEF TypeOK, WorkerState
  <2>3. s # r /\ s \in worker[v].todo /\ s \in Steps
    BY <1>0, <2>2 DEF WorkerState
  <2>4. step'[worker[v].cur][s] = step[worker[v].cur][s]
    BY <1>0, <2>1, <2>3 DEF SetStepStatus, TypeOK
  <2>5. step[worker[v].cur][s].status # "completed"
    BY <1>3, <2>3 DEF TodoOpen, Executing, ExecutingPc, MarkStepCompleted
  <2> QED
    BY <2>2, <2>4, <2>5
<1>4. CASE ReadStep(v)
  <2>1. /\ worker[v].pc = "begin" /\ worker'[v].cur = worker[v].cur
        /\ worker'[v].todo = worker[v].todo /\ step' = step
    BY <1>0, <1>4 DEF ReadStep, TypeOK, WorkerState
  <2> QED
    BY <2>1 DEF TodoOpen, Executing, ExecutingPc
<1>5. CASE MarkStepRunning(v)
  <2>1. PICK r \in Steps : step' = [step EXCEPT ![worker[v].cur][r] =
                     [status |-> "running", attempts |-> worker[v].seen + 1]]
    BY <1>5 DEF MarkStepRunning
  <2>2. /\ worker[v].pc = "mark" /\ worker'[v].cur = worker[v].cur
        /\ worker'[v].todo = worker[v].todo
    BY <1>0, <1>5 DEF MarkStepRunning, TypeOK, WorkerState
  <2>3. s \in Steps /\ step[worker[v].cur][s].status # "completed"
    BY <1>0, <2>2 DEF TodoOpen, Executing, ExecutingPc, WorkerState
  <2> QED
    BY <1>0, <2>1, <2>2, <2>3 DEF TypeOK
<1>6. CASE MarkStepFailed(v)
  <2>1. PICK r \in Steps : step' = SetStepStatus(worker[v].cur, r, FailedStatus(r, v))
    BY <1>6 DEF MarkStepFailed
  <2>2. /\ worker[v].pc \in {"handle", "failStep"} /\ worker'[v].cur = worker[v].cur
        /\ worker'[v].todo = worker[v].todo
    BY <1>0, <1>6 DEF MarkStepFailed, TypeOK, WorkerState
  <2>3. s \in Steps /\ step[worker[v].cur][s].status # "completed"
    BY <1>0, <2>2 DEF TodoOpen, Executing, ExecutingPc, WorkerState
  <2>4. step'[worker[v].cur][s].status \in {step[worker[v].cur][s].status, FailedStatus(r, v)}
    BY <1>0, <2>1, <2>3 DEF SetStepStatus, TypeOK, StepRow
  <2> QED
    BY <2>2, <2>3, <2>4 DEF FailedStatus
<1>7. ~Claim(v)
  <2>1. Claim(v) => worker'[v].pc = "load"
    BY <1>0 DEF Claim, TypeOK, WorkerState
  <2> QED
    BY <2>1
<1>8. ~(ScanReady(v) \/ ScanExpired(v) \/ NothingToClaim(v) \/ ClaimMissed(v)
        \/ MarkTaskFailed(v) \/ MarkTaskCompleted(v) \/ Crash(v))
  BY <1>7, NotExecutingAfter
<1>9. CASE OrderlyNext /\ (WorkerStep(v) \/ Crash(v))
  <2>1. ~CompletionResponseLost(v)
    BY <1>9 DEF OrderlyNext
  <2> QED
    BY <1>2, <1>3, <1>4, <1>5, <1>6, <1>7, <1>8, <1>9, <2>1
    DEF WorkerStep, ClaimStep, ExecuteStep
<1>10. CASE OrderlyNext /\ ~(WorkerStep(v) \/ Crash(v))
  <2>0. Next
    BY <1>10 DEF OrderlyNext
  <2>1. worker'[v] = worker[v]
    <3>1. \A w \in Workers \ {v} : WorkerStep(w) \/ Crash(w) => worker'[v] = worker[v]
      BY OwnSteps
    <3>2. \A p \in Producers : ProducerStep(p) => UNCHANGED worker
      BY ProducerPrepares
    <3> QED
      BY <1>10, <2>0, <3>1, <3>2 DEF Next, Tick
  <2>2. s \in Steps /\ Executing(v) /\ step[worker[v].cur][s].status # "completed"
    BY <1>0, <2>1 DEF TodoOpen, Executing, WorkerState
  <2>3. ASSUME NEW w \in Workers \ {v}, NEW r \in Steps, WritesStep(w, r)
        PROVE  step'[worker[v].cur][s] = step[worker[v].cur][s]
    <3>1. Executing(w)
      BY <2>3 DEF WritesStep, Executing, ExecutingPc
    <3>2. worker[w].cur # worker[v].cur
      BY <2>2, <3>1, Alone
    <3>3. worker[w].cur \in Tasks
      BY DEF TypeOK, WorkerState
    <3> QED
      BY <1>0, <2>2, <2>3, <3>2, <3>3 DEF WritesStep, TypeOK
  <2> QED
    BY <1>0, <1>10, <2>0, <2>1, <2>2, <2>3, StepWrites DEF KeepsCompleted
<1> QED
  BY <1>1, <1>9, <1>10

LEMMA TodoAlwaysOpen == OrderlySpec => []TodoOpen
<1>1. Init => TodoOpen
  BY IdleNotExecuting DEF Init, TodoOpen, Executing
<1> QED
  BY <1>1, NextTodoOpen, OrderlyFacts, Ownership, PTL DEF OrderlySpec

\* A completed step is never run again: a worker that took the task over
\* loaded its list of steps after the last write of the previous holder.
THEOREM CompletedStepsStay == OrderlySpec => CompletedStepIsFinal
<1>1. ASSUME TypeOK, ExecutorHoldsLease, TodoOpen, [OrderlyNext]_vars,
             NEW t \in Tasks, NEW s \in Steps, step[t][s].status = "completed"
      PROVE  step'[t][s].status = "completed"
  <2>1. CASE UNCHANGED vars
    BY <1>1, <2>1 DEF vars
  <2>2. CASE KeepsCompleted
    BY <1>1, <2>2 DEF KeepsCompleted
  <2>3. ASSUME NEW w \in Workers, NEW r \in Steps, WritesStep(w, r)
        PROVE  step'[t][s] = step[t][s]
    <3>1. step[worker[w].cur][r].status # "completed"
      BY <1>1, <2>3 DEF WritesStep, TodoOpen, Executing, ExecutingPc
    <3>2. worker[w].cur \in Tasks
      BY <1>1 DEF TypeOK, WorkerState
    <3>3. PICK row \in StepRow : step' = [step EXCEPT ![worker[w].cur][r] = row]
      BY <2>3 DEF WritesStep
    <3>4. ~(t = worker[w].cur /\ s = r)
      BY <1>1, <3>1
    <3> QED
      BY <1>1, <3>2, <3>3, <3>4 DEF TypeOK
  <2>4. CASE Next
    BY <1>1, <2>2, <2>3, <2>4, StepWrites
  <2> QED
    BY <1>1, <2>1, <2>4 DEF OrderlyNext
<1>2. TypeOK /\ ExecutorHoldsLease /\ TodoOpen /\ [OrderlyNext]_vars =>
        [\A t \in Tasks, s \in Steps :
           step[t][s].status = "completed" => step'[t][s].status = "completed"]_vars
  BY <1>1
<1> QED
  BY <1>2, OrderlyFacts, Ownership, TodoAlwaysOpen, PTL DEF OrderlySpec, CompletedStepIsFinal

----------------------------------------------------------------------------
(* How an execution goes on.                                               *)

\* One write to one step of the task that worker w executes.
OnlyStep(w, s) ==
  \A t \in Tasks, r \in Steps : t # worker[w].cur \/ r # s => step'[t][r] = step[t][r]

SameList(w) == worker'[w].todo = worker[w].todo /\ worker'[w].base = worker[w].base

Loads(w) ==
  /\ worker[w].pc = "load" /\ UNCHANGED step
  /\ worker'[w].todo = StepsToRun(worker[w].cur)
  /\ worker'[w].pc = AfterStep(worker'[w].todo)
  /\ \A s \in Steps : worker'[w].base[s] = step[worker[w].cur][s].attempts

Reads(w, s) ==
  /\ worker[w].pc = "begin" /\ worker'[w].pc = "mark" /\ UNCHANGED step /\ SameList(w)
  /\ worker'[w].seen = step[worker[w].cur][s].attempts

Marks(w, s) ==
  /\ worker[w].pc = "mark" /\ worker'[w].pc = "handle" /\ SameList(w) /\ OnlyStep(w, s)
  /\ step'[worker[w].cur][s].status = "running"
  /\ step'[worker[w].cur][s].attempts = worker[w].seen + 1

Completes(w, s) ==
  /\ worker[w].pc = "handle" /\ worker'[w].pc = AfterStep(worker'[w].todo)
  /\ worker'[w].todo = worker[w].todo \ {s} /\ worker'[w].base = worker[w].base
  /\ OnlyStep(w, s)
  /\ step'[worker[w].cur][s].status = "completed"
  /\ step'[worker[w].cur][s].attempts = step[worker[w].cur][s].attempts

Fails(w, s) ==
  /\ worker[w].pc \in {"handle", "failStep"} /\ worker'[w].pc = "failTask"
  /\ SameList(w) /\ OnlyStep(w, s)
  /\ step'[worker[w].cur][s].status \in {"retrying", "failed"}
  /\ step'[worker[w].cur][s].attempts = step[worker[w].cur][s].attempts

GoesOn(w) ==
  /\ worker[w].pc \in ExecutingPc /\ worker'[w].cur = worker[w].cur
  /\ UNCHANGED <<task, crashes, rearms>>
  /\ \/ Loads(w)
     \/ \E s \in Steps :
          AtStep(s, w) /\ (Reads(w, s) \/ Marks(w, s) \/ Completes(w, s) \/ Fails(w, s))

LEMMA SetStatus ==
  ASSUME TypeOK, NEW w \in Workers, NEW s \in Steps, NEW status \in TaskStatus,
         step' = SetStepStatus(worker[w].cur, s, status)
  PROVE  /\ OnlyStep(w, s) /\ step'[worker[w].cur][s].status = status
         /\ step'[worker[w].cur][s].attempts = step[worker[w].cur][s].attempts
<1>1. worker[w].cur \in Tasks /\ step[worker[w].cur][s] \in StepRow
  BY RowTypes
<1>2. LET row == [step[worker[w].cur][s] EXCEPT !.status = status]
      IN row.status = status /\ row.attempts = step[worker[w].cur][s].attempts
  BY <1>1 DEF StepRow
<1> QED
  BY <1>1, <1>2 DEF SetStepStatus, OnlyStep, TypeOK

LEMMA Progress ==
  ASSUME TypeOK, NEW w \in Workers, WorkerStep(w), ~CompletionResponseLost(w),
         worker'[w].pc \in ExecutingPc \ {"load"}
  PROVE  GoesOn(w)
<1>0. worker[w] \in WorkerState /\ worker[w].cur \in Tasks
  BY DEF TypeOK, WorkerState
<1>1. CASE Load(w)
  <2> DEFINE todo == StepsToRun(worker[w].cur)
             base == [s \in Steps |-> step[worker[w].cur][s].attempts]
  <2>1. /\ worker[w].pc = "load" /\ UNCHANGED <<task, step, crashes, rearms>>
        /\ worker' = [worker EXCEPT ![w] =
             [@ EXCEPT !.pc = AfterStep(todo), !.attempts = task[worker[w].cur].attempts,
                       !.todo = todo, !.base = base]]
    BY <1>1 DEF Load
  <2>2. \A s \in Steps : base[s] = step[worker[w].cur][s].attempts
    OBVIOUS
  <2> HIDE DEF todo, base
  <2>3. /\ worker'[w].cur = worker[w].cur /\ worker'[w].todo = todo
        /\ worker'[w].pc = AfterStep(todo) /\ worker'[w].base = base
    BY <1>0, <2>1 DEF TypeOK, WorkerState
  <2>4. Loads(w)
    BY <2>1, <2>2, <2>3 DEF Loads, todo
  <2> QED
    BY <2>1, <2>3, <2>4 DEF GoesOn, ExecutingPc
<1>2. CASE ReadStep(w)
  <2>1. PICK s \in Steps : AtStep(s, w) /\ worker' = [worker EXCEPT ![w] =
          [@ EXCEPT !.pc = "mark", !.seen = step[worker[w].cur][s].attempts]]
    BY <1>2 DEF ReadStep
  <2>2. worker[w].pc = "begin" /\ UNCHANGED <<task, step, crashes, rearms>>
    BY <1>2 DEF ReadStep
  <2>3. /\ worker'[w].cur = worker[w].cur /\ worker'[w].todo = worker[w].todo
        /\ worker'[w].base = worker[w].base /\ worker'[w].pc = "mark"
        /\ worker'[w].seen = step[worker[w].cur][s].attempts
    BY <1>0, <2>1 DEF TypeOK, WorkerState
  <2>4. Reads(w, s)
    BY <2>2, <2>3 DEF Reads, SameList
  <2> QED
    BY <2>1, <2>2, <2>3, <2>4 DEF GoesOn, ExecutingPc
<1>3. CASE MarkStepRunning(w)
  <2> DEFINE row == [status |-> "running", attempts |-> worker[w].seen + 1]
  <2>1. PICK s \in Steps : AtStep(s, w) /\ step' = [step EXCEPT ![worker[w].cur][s] = row]
    BY <1>3 DEF MarkStepRunning
  <2>2. /\ worker[w].pc = "mark" /\ UNCHANGED <<task, crashes, rearms>>
        /\ worker' = [worker EXCEPT ![w] = [@ EXCEPT !.pc = "handle", !.seen = 0]]
    BY <1>3 DEF MarkStepRunning
  <2>3. /\ worker'[w].cur = worker[w].cur /\ worker'[w].todo = worker[w].todo
        /\ worker'[w].base = worker[w].base /\ worker'[w].pc = "handle"
    BY <1>0, <2>2 DEF TypeOK, WorkerState
  <2>4. row.status = "running" /\ row.attempts = worker[w].seen + 1
    OBVIOUS
  <2> HIDE DEF row
  <2>5. step'[worker[w].cur][s] = row /\ OnlyStep(w, s)
    BY <1>0, <2>1 DEF TypeOK, OnlyStep
  <2>6. Marks(w, s)
    BY <2>2, <2>3, <2>4, <2>5 DEF Marks, SameList
  <2> QED
    BY <2>1, <2>2, <2>3, <2>6 DEF GoesOn, ExecutingPc
<1>4. CASE MarkStepCompleted(w)
  <2>1. PICK s \in Steps :
          /\ AtStep(s, w) /\ step' = SetStepStatus(worker[w].cur, s, "completed")
          /\ worker' = [worker EXCEPT ![w] =
               [@ EXCEPT !.todo = worker[w].todo \ {s}, !.pc = AfterStep(worker[w].todo \ {s})]]
    BY <1>4 DEF MarkStepCompleted
  <2>2. worker[w].pc = "handle" /\ UNCHANGED <<task, crashes, rearms>>
    BY <1>4 DEF MarkStepCompleted
  <2>3. /\ worker'[w].cur = worker[w].cur /\ worker'[w].todo = worker[w].todo \ {s}
        /\ worker'[w].base = worker[w].base /\ worker'[w].pc = AfterStep(worker[w].todo \ {s})
    BY <1>0, <2>1 DEF TypeOK, WorkerState
  <2>4. "completed" \in TaskStatus
    BY DEF TaskStatus
  <2>5. Completes(w, s)
    BY <2>1, <2>2, <2>3, <2>4, SetStatus DEF Completes
  <2> QED
    BY <2>1, <2>2, <2>3, <2>5 DEF GoesOn, ExecutingPc
<1>5. CASE MarkStepFailed(w)
  <2>1. PICK s \in Steps :
          AtStep(s, w) /\ step' = SetStepStatus(worker[w].cur, s, FailedStatus(s, w))
    BY <1>5 DEF MarkStepFailed
  <2>2. /\ worker[w].pc \in {"handle", "failStep"} /\ UNCHANGED <<task, crashes, rearms>>
        /\ worker' = [worker EXCEPT ![w] = [@ EXCEPT !.pc = "failTask", !.at = now]]
    BY <1>5 DEF MarkStepFailed
  <2>3. /\ worker'[w].cur = worker[w].cur /\ worker'[w].todo = worker[w].todo
        /\ worker'[w].base = worker[w].base /\ worker'[w].pc = "failTask"
    BY <1>0, <2>2 DEF TypeOK, WorkerState
  <2>4. FailedStatus(s, w) \in TaskStatus /\ FailedStatus(s, w) \in {"retrying", "failed"}
    BY DEF FailedStatus, TaskStatus
  <2>5. Fails(w, s)
    BY <2>1, <2>2, <2>3, <2>4, SetStatus DEF Fails, SameList
  <2> QED
    BY <2>1, <2>2, <2>3, <2>5 DEF GoesOn, ExecutingPc
<1>6. ~(ScanReady(w) \/ ScanExpired(w) \/ NothingToClaim(w) \/ ClaimMissed(w)
        \/ MarkTaskFailed(w) \/ MarkTaskCompleted(w))
  BY NotExecutingAfter
<1>7. ~Claim(w)
  <2>1. Claim(w) => worker'[w].pc = "load"
    BY <1>0 DEF Claim, TypeOK, WorkerState
  <2> QED
    BY <2>1
<1> QED
  BY <1>1, <1>2, <1>3, <1>4, <1>5, <1>6, <1>7 DEF WorkerStep, ClaimStep, ExecuteStep

----------------------------------------------------------------------------
(* Broken steps.                                                           *)

\* A worker that has loaded its task has every step that an earlier execution
\* left half way still to run, and nothing left to run when it finishes.
InHandOf(w) ==
  Executing(w) /\ worker[w].pc # "load" =>
    /\ \A s \in Steps : Broken(step[worker[w].cur][s]) => s \in worker[w].todo
    /\ worker[w].pc = "finish" => worker[w].todo = {}

InHand == \A w \in Workers : InHandOf(w)

\* The steps of a task under execution are written by its worker alone, or eased.
LEMMA OthersSteps ==
  ASSUME TypeOK, ExecutorHoldsLease, Next, NEW v \in Workers, Executing(v),
         ~(WorkerStep(v) \/ Crash(v))
  PROVE  /\ worker'[v] = worker[v]
         /\ \A s \in Steps :
              /\ step[worker[v].cur][s].status = "completed"
                   <=> step'[worker[v].cur][s].status = "completed"
              /\ Broken(step'[worker[v].cur][s]) => Broken(step[worker[v].cur][s])
              /\ step'[worker[v].cur][s].attempts <= step[worker[v].cur][s].attempts
<1>0. worker[v].cur \in Tasks /\ \A s \in Steps : step[worker[v].cur][s].attempts \in Nat
  BY DEF TypeOK, WorkerState, StepRow
<1>1. worker'[v] = worker[v]
  <2>1. \A w \in Workers \ {v} : WorkerStep(w) \/ Crash(w) => worker'[v] = worker[v]
    BY OwnSteps
  <2>2. \A p \in Producers : ProducerStep(p) => UNCHANGED worker
    BY ProducerPrepares
  <2> QED
    BY <2>1, <2>2 DEF Next, Tick
<1>2. CASE KeepsCompleted
  BY <1>0, <1>1, <1>2 DEF KeepsCompleted
<1>3. ASSUME NEW w \in Workers \ {v}, NEW r \in Steps, WritesStep(w, r)
      PROVE  \A s \in Steps : step'[worker[v].cur][s] = step[worker[v].cur][s]
  <2>1. Executing(w)
    BY <1>3 DEF WritesStep, Executing, ExecutingPc
  <2>2. worker[w].cur # worker[v].cur
    BY <2>1, Alone
  <2>3. worker[w].cur \in Tasks
    BY DEF TypeOK, WorkerState
  <2> QED
    BY <1>0, <1>3, <2>2, <2>3 DEF WritesStep, TypeOK
<1> QED
  BY <1>0, <1>1, <1>2, <1>3, StepWrites

LEMMA NextInHand ==
  TypeOK /\ ExecutorHoldsLease /\ InHand /\ [OrderlyNext]_vars => InHand'
<1> SUFFICES ASSUME TypeOK, ExecutorHoldsLease, InHand, [OrderlyNext]_vars,
                    NEW v \in Workers, worker'[v].pc \in ExecutingPc \ {"load"}
             PROVE  /\ \A s \in Steps : Broken(step'[worker'[v].cur][s]) => s \in worker'[v].todo
                    /\ worker'[v].pc = "finish" => worker'[v].todo = {}
  BY DEF InHand, InHandOf, Executing
<1>0. worker[v] \in WorkerState /\ worker[v].cur \in Tasks /\ InHandOf(v)
  BY DEF TypeOK, WorkerState, InHand
<1>1. CASE UNCHANGED vars
  BY <1>0, <1>1 DEF vars, InHandOf, Executing
<1>2. CASE OrderlyNext /\ WorkerStep(v)
  <2>1. GoesOn(v)
    BY <1>2, Progress DEF OrderlyNext
  <2>2. CASE Loads(v)
    <3>1. /\ worker'[v].cur = worker[v].cur /\ UNCHANGED step
          /\ worker'[v].todo = StepsToRun(worker[v].cur)
          /\ worker'[v].pc = AfterStep(worker'[v].todo)
      BY <2>1, <2>2 DEF GoesOn, Loads
    <3> QED
      BY <3>1 DEF StepsToRun, Broken, AfterStep
  <2>3. ASSUME NEW s \in Steps, AtStep(s, v),
               Reads(v, s) \/ Marks(v, s) \/ Completes(v, s) \/ Fails(v, s)
        PROVE  /\ \A r \in Steps : Broken(step'[worker'[v].cur][r]) => r \in worker'[v].todo
               /\ worker'[v].pc = "finish" => worker'[v].todo = {}
    <3>1. /\ worker'[v].cur = worker[v].cur /\ s \in worker[v].todo
          /\ \A r \in Steps : Broken(step[worker[v].cur][r]) => r \in worker[v].todo
      BY <1>0, <2>1, <2>3 DEF GoesOn, AtStep, InHandOf, Executing, Reads, Marks, Completes, Fails
    <3>2. CASE Reads(v, s)
      BY <3>1, <3>2 DEF Reads, SameList
    <3>3. CASE Marks(v, s) \/ Fails(v, s)
      BY <1>0, <3>1, <3>3 DEF Marks, Fails, SameList, OnlyStep
    <3>4. CASE Completes(v, s)
      BY <1>0, <3>1, <3>4 DEF Completes, OnlyStep, Broken, AfterStep
    <3> QED
      BY <2>3, <3>2, <3>3, <3>4
  <2> QED
    BY <2>1, <2>2, <2>3 DEF GoesOn
<1>3. ~Crash(v)
  BY NotExecutingAfter
<1>4. CASE OrderlyNext /\ ~(WorkerStep(v) \/ Crash(v))
  <2>0. Next
    BY <1>4 DEF OrderlyNext
  <2>1. worker'[v] = worker[v]
    <3>1. \A w \in Workers \ {v} : WorkerStep(w) \/ Crash(w) => worker'[v] = worker[v]
      BY OwnSteps
    <3>2. \A p \in Producers : ProducerStep(p) => UNCHANGED worker
      BY ProducerPrepares
    <3> QED
      BY <1>4, <2>0, <3>1, <3>2 DEF Next, Tick
  <2>2. Executing(v)
    BY <2>1 DEF Executing
  <2> QED
    BY <1>0, <1>4, <2>0, <2>1, <2>2, OthersSteps DEF InHandOf
<1> QED
  BY <1>1, <1>2, <1>3, <1>4

LEMMA AlwaysInHand == OrderlySpec => []InHand
<1>1. Init => InHand
  BY IdleNotExecuting DEF Init, InHand, InHandOf, Executing
<1> QED
  BY <1>1, NextInHand, OrderlyFacts, Ownership, PTL DEF OrderlySpec

\* A task is completed by a worker that has nothing left to run.
LEMMA CompletedBy ==
  ASSUME TypeOK, CandidatesSound, [Next]_vars, NEW t \in Tasks,
         task[t].status # "completed", task'[t].status = "completed"
  PROVE  /\ UNCHANGED step
         /\ \E w \in Workers : worker[w].pc = "finish" /\ worker[w].cur = t
<1>1. ~UNCHANGED task
  OBVIOUS
<1>2. ASSUME NEW w \in Workers, NEW c \in Candidate, TakesOver(w, c)
      PROVE  FALSE
  BY <1>2, TakenRow
<1>3. ASSUME NEW w \in Workers, NEW u \in Tasks, EndsAttempt(w, u)
      PROVE  UNCHANGED step /\ worker[w].pc = "finish" /\ worker[w].cur = t
  BY <1>3 DEF EndsAttempt, TypeOK
<1>4. ASSUME NEW u \in Tasks, Prepares(u)
      PROVE  FALSE
  BY <1>4 DEF Prepares, TypeOK
<1>5. CASE UNCHANGED vars
  BY <1>1, <1>5 DEF vars
<1> QED
  BY <1>1, <1>2, <1>3, <1>4, <1>5, TaskWrites

LEMMA NextUnbroken ==
  ASSUME TypeOK, CandidatesSound, ExecutorHoldsLease, InHand, CompletedTaskHasNoBrokenStep,
         [OrderlyNext]_vars
  PROVE  CompletedTaskHasNoBrokenStep'
<1>0. [Next]_vars
  BY DEF OrderlyNext
<1>1. ASSUME NEW t \in Tasks, NEW s \in Steps, task'[t].status = "completed",
             Broken(step'[t][s])
      PROVE  FALSE
  <2>1. CASE task[t].status = "completed"
    <3>1. ~Broken(step[t][s])
      BY <2>1 DEF CompletedTaskHasNoBrokenStep, Broken
    <3>2. CASE UNCHANGED vars
      BY <1>1, <3>1, <3>2 DEF vars
    <3>3. CASE KeepsCompleted
      BY <1>1, <3>1, <3>3 DEF KeepsCompleted
    <3>4. ASSUME NEW w \in Workers, NEW r \in Steps, WritesStep(w, r)
          PROVE  step'[t][s] = step[t][s]
      <4>1. Executing(w)
        BY <3>4 DEF WritesStep, Executing, ExecutingPc
      <4>2. worker[w].cur # t /\ worker[w].cur \in Tasks
        BY <2>1, <4>1 DEF ExecutorHoldsLease, TypeOK, WorkerState
      <4> QED
        BY <3>4, <4>2 DEF WritesStep, TypeOK
    <3> QED
      BY <1>0, <1>1, <3>1, <3>2, <3>3, <3>4, StepWrites
  <2>2. CASE task[t].status # "completed"
    <3>1. UNCHANGED step
      BY <1>0, <1>1, <2>2, CompletedBy
    <3>2. PICK w \in Workers : worker[w].pc = "finish" /\ worker[w].cur = t
      BY <1>0, <1>1, <2>2, CompletedBy
    <3>3. InHandOf(w) /\ Executing(w) /\ worker[w].pc # "load"
      BY <3>2 DEF InHand, Executing, ExecutingPc
    <3> QED
      BY <1>1, <3>1, <3>2, <3>3 DEF InHandOf
  <2> QED
    BY <2>1, <2>2
<1>2. TypeOK'
  BY <1>0, NextTypeOK
<1>3. \A t \in Tasks, s \in Steps : step'[t][s].status \in TaskStatus
  BY <1>2 DEF TypeOK, StepRow
<1> QED
  BY <1>1, <1>3 DEF CompletedTaskHasNoBrokenStep, Broken, TaskStatus

\* A completed task leaves no step failed, retrying or running: whoever completes
\* it has picked up every step an earlier execution left half way.
THEOREM NothingLeftBroken == OrderlySpec => []CompletedTaskHasNoBrokenStep
<1>1. Init => CompletedTaskHasNoBrokenStep
  BY DEF Init, CompletedTaskHasNoBrokenStep, AbsentTask
<1>2. TypeOK /\ CandidatesSound /\ ExecutorHoldsLease /\ InHand
        /\ CompletedTaskHasNoBrokenStep /\ [OrderlyNext]_vars
      => CompletedTaskHasNoBrokenStep'
  BY NextUnbroken
<1> QED
  BY <1>1, <1>2, OrderlyFacts, Ownership, AlwaysInHand, PTL DEF OrderlySpec

----------------------------------------------------------------------------
(* Attempts.                                                               *)

Limit == MaxStepAttempts + crashes + rearms

\* Worker w is at step s and has counted its attempt.
Counted(w, s) == worker[w].pc \in {"handle", "failStep", "failTask"} /\ AtStep(s, w)

\* An attempt to come is within the limit: of a step that can still be run,
\* fewer have been made, or the last of them is under way.
Spare(t, s) ==
  \/ step[t][s].status = "completed"
  \/ task[t].status \in {"failed", "completed"}
  \/ step[t][s].attempts < Limit
  \/ \E w \in Workers : Executing(w) /\ worker[w].cur = t /\ Counted(w, s)

\* What a worker loaded bounds the attempts there are while it runs.
Paced(w) ==
  Executing(w) /\ worker[w].pc # "load" =>
    \A s \in worker[w].todo :
      /\ worker[w].base[s] < Limit
      /\ step[worker[w].cur][s].attempts <= worker[w].base[s] + 1
      /\ ~Counted(w, s) => step[worker[w].cur][s].attempts <= worker[w].base[s]
      /\ worker[w].pc = "mark" /\ AtStep(s, w) => worker[w].seen <= worker[w].base[s]

AttemptsInv ==
  /\ AttemptsBounded
  /\ \A t \in Tasks, s \in Steps : Spare(t, s)
  /\ \A w \in Workers : Paced(w)

LEMMA AttemptTypes ==
  ASSUME TypeOK
  PROVE  /\ Limit \in Nat /\ Limit > 0 /\ Limit >= MaxStepAttempts /\ MaxStepAttempts \in Nat
         /\ \A t \in Tasks, s \in Steps : step[t][s].attempts \in Nat
         /\ \A w \in Workers : /\ worker[w].cur \in Tasks /\ worker[w].todo \subseteq Steps
                               /\ worker[w].seen \in Nat
                               /\ \A s \in Steps : worker[w].base[s] \in Nat
<1>1. Limit \in Nat /\ Limit > 0 /\ Limit >= MaxStepAttempts /\ MaxStepAttempts \in Nat
  BY ConstantsAssumption DEF TypeOK, Limit
<1>2. \A t \in Tasks, s \in Steps : step[t][s].attempts \in Nat
  BY DEF TypeOK, StepRow
<1>3. \A w \in Workers : worker[w] \in WorkerState
  BY DEF TypeOK
<1> QED
  BY <1>1, <1>2, <1>3 DEF WorkerState

LEMMA OneAtStep ==
  ASSUME TypeOK, NEW w \in Workers, NEW r, NEW s, AtStep(r, w), AtStep(s, w)
  PROVE  r = s
<1>1. r \in Int /\ s \in Int
  BY AttemptTypes, ConstantsAssumption DEF AtStep, Steps
<1> QED
  BY <1>1 DEF AtStep

\* A step that is neither completed nor out of reach, of a task no worker has
\* counted an attempt of.
LEMMA SpareBelow ==
  ASSUME NEW t \in Tasks, NEW s \in Steps, Spare(t, s),
         step[t][s].status # "completed", task[t].status \notin {"failed", "completed"},
         \A w \in Workers : Executing(w) /\ worker[w].cur = t => ~Counted(w, s)
  PROVE  step[t][s].attempts < Limit
BY DEF Spare

\* Steps that do not change a worker that executes keep what it paces.
LEMMA PacedStays ==
  ASSUME TypeOK, NEW w \in Workers, Paced(w), worker'[w] = worker[w],
         Limit' \in Nat, Limit' >= Limit,
         \A s \in Steps : /\ step'[worker[w].cur][s].attempts <= step[worker[w].cur][s].attempts
                          /\ step'[worker[w].cur][s].attempts \in Nat
  PROVE  Paced(w)'
<1> SUFFICES ASSUME Executing(w)', worker'[w].pc # "load", NEW s \in worker'[w].todo
             PROVE  /\ worker'[w].base[s] < Limit'
                    /\ step'[worker'[w].cur][s].attempts <= worker'[w].base[s] + 1
                    /\ ~Counted(w, s)' => step'[worker'[w].cur][s].attempts <= worker'[w].base[s]
                    /\ worker'[w].pc = "mark" /\ AtStep(s, w)' => worker'[w].seen <= worker'[w].base[s]
  BY DEF Paced
<1>1. /\ s \in worker[w].todo /\ s \in Steps /\ worker[w].base[s] \in Nat
      /\ step[worker[w].cur][s].attempts \in Nat /\ Limit \in Nat
  BY AttemptTypes
<1>2. /\ worker[w].base[s] < Limit
      /\ step[worker[w].cur][s].attempts <= worker[w].base[s] + 1
      /\ ~Counted(w, s) => step[worker[w].cur][s].attempts <= worker[w].base[s]
      /\ worker[w].pc = "mark" /\ AtStep(s, w) => worker[w].seen <= worker[w].base[s]
  BY <1>1 DEF Paced, Executing
<1>3. Counted(w, s)' <=> Counted(w, s)
  BY DEF Counted, AtStep
<1>4. AtStep(s, w)' <=> AtStep(s, w)
  BY DEF AtStep
<1> QED
  BY <1>1, <1>2, <1>3, <1>4

\* The worker's own steps keep the pace.
LEMMA PacedGoesOn ==
  ASSUME TypeOK, AttemptsInv, ExecutorHoldsLease, NEW w \in Workers, GoesOn(w), TypeOK'
  PROVE  Paced(w)' /\ Limit' = Limit
<1>0. /\ worker'[w].cur = worker[w].cur /\ worker[w].cur \in Tasks /\ Executing(w)
      /\ task'[worker[w].cur] = task[worker[w].cur]
  BY AttemptTypes DEF GoesOn, Executing
<1>1. Limit' = Limit
  BY DEF GoesOn, Limit
<1>2. task[worker[w].cur].status = "running"
  BY <1>0 DEF ExecutorHoldsLease
<1>3. CASE Loads(w)
  <2>1. ASSUME NEW s \in worker'[w].todo
        PROVE  /\ worker'[w].base[s] = step[worker[w].cur][s].attempts
               /\ step[worker[w].cur][s].attempts < Limit /\ s \in Steps
    <3>1. s \in Steps /\ step[worker[w].cur][s].status # "completed"
      BY <1>3, <2>1 DEF Loads, StepsToRun
    <3>2. \A v \in Workers : Executing(v) /\ worker[v].cur = worker[w].cur => ~Counted(v, s)
      <4>1. ~Counted(w, s)
        BY <1>3 DEF Loads, Counted
      <4> QED
        BY <1>0, <4>1, Alone
    <3>3. step[worker[w].cur][s].attempts < Limit
      BY <1>0, <1>2, <3>1, <3>2, SpareBelow DEF AttemptsInv
    <3> QED
      BY <1>3, <3>1, <3>3 DEF Loads
  <2>2. worker'[w].pc \in {"begin", "finish"} /\ UNCHANGED step
    BY <1>3 DEF Loads, AfterStep
  <2> QED
    BY <1>0, <1>1, <2>1, <2>2, AttemptTypes DEF Paced
<1>4. ASSUME NEW s \in Steps, AtStep(s, w), NEW r \in worker'[w].todo,
             Reads(w, s) \/ Marks(w, s) \/ Completes(w, s) \/ Fails(w, s)
      PROVE  /\ worker'[w].base[r] < Limit
             /\ step'[worker[w].cur][r].attempts <= worker'[w].base[r] + 1
             /\ ~Counted(w, r)' => step'[worker[w].cur][r].attempts <= worker'[w].base[r]
             /\ worker'[w].pc = "mark" /\ AtStep(r, w)' => worker'[w].seen <= worker'[w].base[r]
  <2>1. /\ worker'[w].base = worker[w].base /\ worker[w].pc # "load"
        /\ r \in worker[w].todo /\ r \in Steps
    BY <1>4, AttemptTypes DEF Reads, Marks, Completes, Fails, SameList
  <2>2. /\ worker[w].base[r] < Limit
        /\ step[worker[w].cur][r].attempts <= worker[w].base[r] + 1
        /\ ~Counted(w, r) => step[worker[w].cur][r].attempts <= worker[w].base[r]
        /\ worker[w].pc = "mark" /\ AtStep(r, w) => worker[w].seen <= worker[w].base[r]
    BY <1>0, <2>1 DEF AttemptsInv, Paced
  <2>3. /\ worker[w].base[r] \in Nat /\ worker[w].seen \in Nat
        /\ step[worker[w].cur][r].attempts \in Nat
    BY <1>0, <2>1, AttemptTypes
  <2>4. Counted(w, r) => r = s
    BY <1>4, OneAtStep DEF Counted
  <2>5. CASE Reads(w, s)
    <3>1. ~Counted(w, r) /\ step'[worker[w].cur][r].attempts <= worker[w].base[r]
      BY <2>2, <2>5 DEF Reads, Counted
    <3>2. AtStep(r, w)' => r = s
      <4>1. worker'[w].todo = worker[w].todo
        BY <2>5 DEF Reads, SameList
      <4>2. AtStep(r, w)' => AtStep(r, w)
        BY <4>1 DEF AtStep
      <4> QED
        BY <1>4, <4>2, OneAtStep
    <3>3. worker'[w].seen = step[worker[w].cur][s].attempts /\ UNCHANGED step
      BY <2>5 DEF Reads
    <3> QED
      BY <2>1, <2>2, <2>3, <3>1, <3>2, <3>3
  <2>6. CASE Marks(w, s)
    <3>1. /\ worker[w].pc = "mark" /\ worker'[w].pc = "handle" /\ ~Counted(w, r)
          /\ worker'[w].todo = worker[w].todo
      BY <2>6 DEF Marks, SameList, Counted
    <3>2. CASE r = s
      <4>1. Counted(w, r)'
        BY <1>4, <3>1, <3>2 DEF Counted, AtStep
      <4>2. step'[worker[w].cur][r].attempts = worker[w].seen + 1 /\ worker[w].seen <= worker[w].base[r]
        BY <1>4, <2>2, <2>6, <3>1, <3>2 DEF Marks
      <4> QED
        BY <2>1, <2>2, <2>3, <3>1, <4>1, <4>2
    <3>3. CASE r # s
      <4>1. step'[worker[w].cur][r] = step[worker[w].cur][r]
        BY <1>0, <2>1, <2>6, <3>3 DEF Marks, OnlyStep
      <4> QED
        BY <2>1, <2>2, <2>3, <3>1, <4>1
    <3> QED
      BY <3>2, <3>3
  <2>7. CASE Completes(w, s)
    <3>1. r # s /\ worker'[w].pc # "mark"
      BY <2>7 DEF Completes, AfterStep
    <3>2. step'[worker[w].cur][r] = step[worker[w].cur][r] /\ ~Counted(w, r)
      BY <1>0, <2>1, <2>4, <2>7, <3>1 DEF Completes, OnlyStep
    <3> QED
      BY <2>1, <2>2, <2>3, <3>1, <3>2
  <2>8. CASE Fails(w, s)
    <3>1. /\ worker'[w].pc = "failTask" /\ worker[w].pc \in {"handle", "failStep"}
          /\ worker'[w].todo = worker[w].todo
      BY <2>8 DEF Fails, SameList
    <3>2. Counted(w, r) => Counted(w, r)'
      BY <3>1 DEF Counted, AtStep
    <3>3. step'[worker[w].cur][r].attempts = step[worker[w].cur][r].attempts
      BY <1>0, <2>1, <2>8 DEF Fails, OnlyStep
    <3> QED
      BY <2>1, <2>2, <2>3, <3>1, <3>2, <3>3
  <2> QED
    BY <1>4, <2>5, <2>6, <2>7, <2>8
<1>5. CASE \E s \in Steps :
             AtStep(s, w) /\ (Reads(w, s) \/ Marks(w, s) \/ Completes(w, s) \/ Fails(w, s))
  BY <1>0, <1>1, <1>4, <1>5 DEF Paced
<1> QED
  BY <1>1, <1>3, <1>5 DEF GoesOn

\* The steps of other workers' tasks do not change, nor do those workers.
LEMMA AttemptsGoOn ==
  ASSUME TypeOK, AttemptsInv, ExecutorHoldsLease, NEW w \in Workers, GoesOn(w), TypeOK',
         \A v \in Workers \ {w} : worker'[v] = worker[v]
  PROVE  AttemptsInv'
<1>0. /\ worker'[w].cur = worker[w].cur /\ worker[w].cur \in Tasks /\ Executing(w)
      /\ task' = task
  BY AttemptTypes DEF GoesOn, Executing
<1>1. Limit' = Limit /\ Paced(w)'
  BY PacedGoesOn
<1>2. ASSUME NEW v \in Workers \ {w}
      PROVE  Paced(v)'
  <2>1. CASE ~Executing(v)
    BY <2>1 DEF Paced, Executing
  <2>2. CASE Executing(v)
    <3>1. worker[v].cur # worker[w].cur /\ worker[v].cur \in Tasks
      BY <1>0, <2>2, Alone, AttemptTypes
    <3>2. \A s \in Steps : step'[worker[v].cur][s] = step[worker[v].cur][s]
      BY <3>1 DEF GoesOn, Loads, Reads, Marks, Completes, Fails, OnlyStep
    <3>3. \A s \in Steps : /\ step'[worker[v].cur][s].attempts <= step[worker[v].cur][s].attempts
                           /\ step'[worker[v].cur][s].attempts \in Nat
      BY <3>1, <3>2, AttemptTypes
    <3>4. Limit' \in Nat /\ Limit' >= Limit
      BY <1>1, AttemptTypes
    <3> QED
      BY <1>2, <3>3, <3>4, PacedStays DEF AttemptsInv
  <2> QED
    BY <2>1, <2>2
\* Where nothing was written ..
<1>3. ASSUME NEW t \in Tasks, NEW r \in Steps, step'[t][r] = step[t][r],
             worker[w].cur = t => ~Counted(w, r)
      PROVE  Spare(t, r)' /\ step'[t][r].attempts <= Limit'
  <2>1. Spare(t, r) /\ step[t][r].attempts <= Limit
    BY DEF AttemptsInv, AttemptsBounded, Limit
  <2>2. ASSUME NEW v \in Workers, Executing(v), worker[v].cur = t, Counted(v, r)
        PROVE  Executing(v)' /\ worker'[v].cur = t /\ Counted(v, r)'
    <3>1. v # w
      BY <1>3, <2>2
    <3> QED
      BY <2>2, <3>1 DEF Executing, Counted, AtStep
  <2> QED
    BY <1>0, <1>1, <1>3, <2>1, <2>2 DEF Spare
<1>4. CASE Loads(w)
  <2>1. UNCHANGED step /\ \A r \in Steps : ~Counted(w, r)
    BY <1>4 DEF Loads, Counted
  <2> QED
    BY <1>1, <1>2, <1>3, <2>1 DEF AttemptsInv, AttemptsBounded, Limit
<1>5. ASSUME NEW s \in Steps, AtStep(s, w),
             Reads(w, s) \/ Marks(w, s) \/ Completes(w, s) \/ Fails(w, s)
      PROVE  AttemptsInv'
  <2>1. ASSUME NEW r \in Steps, Counted(w, r)
        PROVE  r = s
    BY <1>5, <2>1, OneAtStep DEF Counted
  <2>2. ASSUME NEW t \in Tasks, NEW r \in Steps, t # worker[w].cur \/ r # s
        PROVE  Spare(t, r)' /\ step'[t][r].attempts <= Limit'
    <3>1. step'[t][r] = step[t][r]
      BY <1>5, <2>2 DEF Reads, Marks, Completes, Fails, OnlyStep
    <3> QED
      BY <1>3, <2>1, <2>2, <3>1
  <2>3. s \in worker[w].todo /\ worker[w].pc # "load"
    BY <1>5 DEF AtStep, Reads, Marks, Completes, Fails
  <2>4. Spare(worker[w].cur, s)' /\ step'[worker[w].cur][s].attempts <= Limit'
    <3>1. CASE Reads(w, s)
      <4>1. UNCHANGED step /\ ~Counted(w, s)
        BY <3>1 DEF Reads, Counted
      <4> QED
        BY <1>0, <1>3, <4>1
    <3>2. CASE Marks(w, s)
      <4>1. Counted(w, s)' /\ Executing(w)' /\ worker[w].pc = "mark"
        BY <1>5, <3>2 DEF Marks, SameList, Counted, AtStep, Executing, ExecutingPc
      <4>2. Spare(worker[w].cur, s)'
        BY <1>0, <4>1 DEF Spare
      <4>3. worker[w].base[s] < Limit /\ worker[w].seen <= worker[w].base[s]
        BY <1>0, <1>5, <2>3, <4>1 DEF AttemptsInv, Paced
      <4>4. worker[w].base[s] \in Nat /\ worker[w].seen \in Nat /\ Limit \in Nat
        BY AttemptTypes
      <4>5. step'[worker[w].cur][s].attempts = worker[w].seen + 1
        BY <3>2 DEF Marks
      <4> QED
        BY <1>1, <4>2, <4>3, <4>4, <4>5
    <3>3. CASE Completes(w, s)
      <4>1. step[worker[w].cur][s].attempts <= Limit
        BY <1>0 DEF AttemptsInv, AttemptsBounded, Limit
      <4>2. /\ step'[worker[w].cur][s].status = "completed"
            /\ step'[worker[w].cur][s].attempts = step[worker[w].cur][s].attempts
        BY <3>3 DEF Completes
      <4>3. Spare(worker[w].cur, s)'
        BY <1>0, <4>2 DEF Spare
      <4>4. step'[worker[w].cur][s].attempts <= Limit'
        BY <1>1, <4>1, <4>2
      <4> QED
        BY <4>3, <4>4
    <3>4. CASE Fails(w, s)
      <4>1. Counted(w, s)' /\ Executing(w)'
        BY <1>5, <3>4 DEF Fails, SameList, Counted, AtStep, Executing, ExecutingPc
      <4>2. Spare(worker[w].cur, s)'
        BY <1>0, <4>1 DEF Spare
      <4>3. step[worker[w].cur][s].attempts <= Limit
        BY <1>0 DEF AttemptsInv, AttemptsBounded, Limit
      <4> QED
        BY <1>1, <3>4, <4>2, <4>3 DEF Fails
    <3> QED
      BY <1>5, <3>1, <3>2, <3>3, <3>4
  <2>5. ASSUME NEW t \in Tasks, NEW r \in Steps
        PROVE  Spare(t, r)' /\ step'[t][r].attempts <= Limit'
    <3>1. CASE t # worker[w].cur \/ r # s
      BY <2>2, <3>1
    <3>2. CASE t = worker[w].cur /\ r = s
      BY <1>0, <2>4, <3>2
    <3> QED
      BY <3>1, <3>2
  <2> QED
    BY <1>1, <1>2, <2>5 DEF AttemptsInv, AttemptsBounded, Limit
<1> QED
  BY <1>4, <1>5 DEF GoesOn

\* Where a worker that executes nothing, or no more, moved and no step was written,
\* there is only the task it moved on to see to.
LEMMA AttemptsElse ==
  ASSUME TypeOK, AttemptsInv, NEW w \in Workers, UNCHANGED <<step, crashes, rearms>>,
         \A v \in Workers \ {w} : worker'[v] = worker[v],
         ~Executing(w)' \/ worker'[w].pc = "load",
         NEW only \in SUBSET Tasks,
         \A t \in Tasks \ only : task'[t] = task[t],
         Executing(w) => worker[w].cur \in only,
         \A t \in only, s \in Steps : Spare(t, s)'
  PROVE  AttemptsInv'
<1>1. Limit' = Limit
  BY DEF Limit
<1>2. AttemptsBounded'
  BY DEF AttemptsInv, AttemptsBounded
<1>3. ASSUME NEW t \in Tasks \ only, NEW s \in Steps
      PROVE  Spare(t, s)'
  <2>1. Spare(t, s) /\ task'[t] = task[t]
    BY DEF AttemptsInv
  <2>2. ASSUME NEW v \in Workers, Executing(v), worker[v].cur = t, Counted(v, s)
        PROVE  Executing(v)' /\ worker'[v].cur = t /\ Counted(v, s)'
    <3>1. worker'[v] = worker[v]
      BY <1>3, <2>2
    <3> QED
      BY <2>2, <3>1 DEF Executing, Counted, AtStep
  <2> QED
    BY <1>1, <2>1, <2>2 DEF Spare
<1>4. ASSUME NEW v \in Workers
      PROVE  Paced(v)'
  <2>1. CASE v = w
    BY <2>1 DEF Paced
  <2>2. CASE v # w
    <3>1. worker'[v] = worker[v] /\ Paced(v)
      BY <2>2 DEF AttemptsInv
    <3>2. \A s \in Steps : /\ step'[worker[v].cur][s].attempts <= step[worker[v].cur][s].attempts
                           /\ step'[worker[v].cur][s].attempts \in Nat
      BY AttemptTypes
    <3>3. Limit' \in Nat /\ Limit' >= Limit
      BY <1>1, AttemptTypes
    <3> QED
      BY <3>1, <3>2, <3>3, PacedStays
  <2> QED
    BY <2>1, <2>2
<1> QED
  BY <1>2, <1>3, <1>4 DEF AttemptsInv

LEMMA AttemptsClaim ==
  ASSUME TypeOK, CandidatesSound, AttemptsInv, ExecutorHoldsLease', NEW w \in Workers, Claim(w)
  PROVE  AttemptsInv'
<1>0. worker[w] \in WorkerState
  BY DEF TypeOK
<1>1. PICK c \in worker[w].cands :
        /\ worker' = [worker EXCEPT ![w] =
             [@ EXCEPT !.pc = "load", !.cur = c.id, !.cands = {}, !.at = 0,
                       !.until = worker[w].at + Lease]]
        /\ TakesOver(w, c)
  BY DEF Claim, TakesOver
<1>2. c \in Candidate
  BY <1>0 DEF WorkerState
<1>3. worker'[w].pc = "load" /\ \A v \in Workers \ {w} : worker'[v] = worker[v]
  BY <1>0, <1>1 DEF TypeOK, WorkerState
<1>4. ~Executing(w) /\ UNCHANGED <<step, crashes, rearms>>
  BY DEF Claim, Executing, ExecutingPc
<1>5. /\ c.id \in Tasks /\ task'[c.id].status = "running" /\ task'[c.id].owner = w
      /\ \A t \in Tasks \ {c.id} : task'[t] = task[t]
  BY <1>1, <1>2, TakenRow
<1>6. task[c.id].status \in {"pending", "retrying", "running"}
  BY <1>1 DEF TakesOver, CasMatches, CandidatesSound
<1>7. ASSUME NEW s \in Steps
      PROVE  Spare(c.id, s)'
  <2>1. ASSUME NEW v \in Workers, Executing(v), worker[v].cur = c.id
        PROVE  FALSE
    <3>1. v # w /\ worker'[v] = worker[v]
      BY <1>3, <1>4, <2>1
    <3>2. Executing(v)' /\ worker'[v].cur = c.id
      BY <2>1, <3>1 DEF Executing
    <3>3. task'[c.id].owner = v
      BY <3>2 DEF ExecutorHoldsLease
    <3> QED
      BY <1>5, <3>1, <3>3
  <2>2. step[c.id][s].status = "completed" \/ step[c.id][s].attempts < Limit
    BY <1>5, <1>6, <2>1 DEF AttemptsInv, Spare
  <2> QED
    BY <1>4, <2>2 DEF Spare, Limit
<1>8. {c.id} \in SUBSET Tasks /\ \A t \in {c.id}, s \in Steps : Spare(t, s)'
  BY <1>5, <1>7
<1> QED
  BY <1>3, <1>4, <1>5, <1>8, AttemptsElse

\* The worker that reports a failed attempt leaves a step that can be run again
\* only when that step has an attempt left.
LEMMA AttemptsFail ==
  ASSUME TypeOK, AttemptsInv, ExecutorHoldsLease, NEW w \in Workers, MarkTaskFailed(w)
  PROVE  AttemptsInv'
<1>0. PICK t \in Tasks : t = worker[w].cur
  BY DEF TypeOK, WorkerState
<1>1. PICK s \in Steps : /\ AtStep(s, w)
                         /\ task' = [task EXCEPT ![t] = FailedRow(task[t], s, w)]
  BY <1>0 DEF MarkTaskFailed
<1>2. /\ worker[w].pc = "failTask" /\ worker' = [worker EXCEPT ![w] = IdleWorker]
      /\ UNCHANGED <<step, crashes, rearms>>
  BY DEF MarkTaskFailed
<1>3. /\ t \in Tasks /\ task[t] \in TaskRow /\ s \in worker[w].todo
      /\ Executing(w) /\ task[t].status = "running"
  BY <1>0, <1>1, <1>2, RowTypes DEF AtStep, Executing, ExecutingPc, ExecutorHoldsLease
<1>4. /\ Limit \in Nat /\ Limit >= MaxStepAttempts /\ MaxStepAttempts \in Nat
      /\ worker[w].base[s] \in Nat /\ \A r \in Steps : step[t][r].attempts \in Nat
  BY <1>3, AttemptTypes
<1>5. Limit' = Limit
  BY <1>2 DEF Limit
<1>6. /\ \A v \in Workers \ {w} : worker'[v] = worker[v]
      /\ ~Executing(w)'
      /\ {t} \in SUBSET Tasks /\ (Executing(w) => worker[w].cur \in {t})
      /\ \A u \in Tasks \ {t} : task'[u] = task[u]
  BY <1>0, <1>1, <1>2, NotExecutingAfter DEF Executing, TypeOK
<1>7. CASE ~Retryable(s, w)
  <2>1. FailedRow(task[t], s, w).status = "failed"
    BY <1>3, <1>7 DEF FailedRow, Unlocked, TaskRow
  <2>2. task'[t].status = "failed"
    BY <1>1, <1>3, <2>1 DEF TypeOK
  <2>3. \A r \in Steps : Spare(t, r)'
    BY <2>2 DEF Spare
  <2> QED
    BY <1>2, <1>6, <2>3, AttemptsElse
<1>8. CASE Retryable(s, w)
  <2>1. worker[w].base[s] + 1 < MaxStepAttempts /\ step[t][s].attempts <= worker[w].base[s] + 1
    BY <1>0, <1>2, <1>3, <1>8 DEF Retryable, AttemptsInv, Paced
  <2>2. step[t][s].attempts < Limit
    BY <1>1, <1>4, <2>1
  <2>3. ASSUME NEW r \in Steps, r # s
        PROVE  step[t][r].status = "completed" \/ step[t][r].attempts < Limit
    <3>1. \A v \in Workers : Executing(v) /\ worker[v].cur = t => ~Counted(v, r)
      <4>1. ~Counted(w, r)
        BY <1>1, <2>3, OneAtStep DEF Counted
      <4> QED
        BY <1>0, <1>3, <4>1, Alone
    <3>2. Spare(t, r) /\ task[t].status \notin {"failed", "completed"}
      BY <1>3 DEF AttemptsInv
    <3> QED
      BY <1>3, <3>1, <3>2, SpareBelow
  <2>4. ASSUME NEW r \in Steps
        PROVE  Spare(t, r)'
    <3>1. step[t][r].status = "completed" \/ step[t][r].attempts < Limit
      BY <2>2, <2>3
    <3> QED
      BY <1>2, <1>5, <3>1 DEF Spare
  <2> QED
    BY <1>2, <1>6, <2>4, AttemptsElse
<1> QED
  BY <1>7, <1>8

LEMMA AttemptsComplete ==
  ASSUME TypeOK, AttemptsInv, NEW w \in Workers, MarkTaskCompleted(w)
  PROVE  AttemptsInv'
<1>0. PICK t \in Tasks : t = worker[w].cur
  BY DEF TypeOK, WorkerState
<1>1. /\ worker[w].pc = "finish" /\ worker' = [worker EXCEPT ![w] = IdleWorker]
      /\ task' = [task EXCEPT ![t] = Unlocked(task[t], "completed")]
      /\ UNCHANGED <<step, crashes, rearms>>
  BY <1>0 DEF MarkTaskCompleted
<1>2. t \in Tasks /\ task[t] \in TaskRow
  BY DEF TypeOK, WorkerState
<1>3. Unlocked(task[t], "completed").status = "completed"
  BY <1>2 DEF Unlocked, TaskRow
<1>4. task'[t].status = "completed"
  BY <1>1, <1>2, <1>3 DEF TypeOK
<1>5. \A r \in Steps : Spare(t, r)'
  BY <1>4 DEF Spare
<1>6. /\ \A v \in Workers \ {w} : worker'[v] = worker[v]
      /\ ~Executing(w)'
      /\ {t} \in SUBSET Tasks /\ (Executing(w) => worker[w].cur \in {t})
      /\ \A u \in Tasks \ {t} : task'[u] = task[u]
  BY <1>0, <1>1, NotExecutingAfter DEF Executing, TypeOK
<1> QED
  BY <1>1, <1>5, <1>6, AttemptsElse

\* Looking for work touches no row.
LEMMA AttemptsLook ==
  ASSUME TypeOK, AttemptsInv, NEW w \in Workers,
         ScanReady(w) \/ ScanExpired(w) \/ NothingToClaim(w) \/ ClaimMissed(w)
  PROVE  AttemptsInv'
<1>1. UNCHANGED <<task, step, crashes, rearms>> /\ ~Executing(w)
  BY DEF ScanReady, ScanExpired, NothingToClaim, ClaimMissed, Executing, ExecutingPc
<1>2. ~Executing(w)'
  BY NotExecutingAfter DEF Executing
<1>3. \A v \in Workers \ {w} : worker'[v] = worker[v]
  BY OwnSteps DEF WorkerStep, ClaimStep
<1>4. {} \in SUBSET Tasks /\ \A t \in {}, s \in Steps : Spare(t, s)'
  OBVIOUS
<1> QED
  BY <1>1, <1>2, <1>3, <1>4, AttemptsElse

\* A worker that stops allows every step one more attempt.
LEMMA AttemptsCrash ==
  ASSUME TypeOK, AttemptsInv, NEW w \in Workers, Crash(w)
  PROVE  AttemptsInv'
<1>1. Limit' = Limit + 1 /\ Limit \in Nat /\ UNCHANGED step
  BY AttemptTypes DEF Crash, Limit, TypeOK
<1>2. \A t \in Tasks, s \in Steps : step'[t][s].attempts <= Limit /\ step'[t][s].attempts \in Nat
  BY <1>1, AttemptTypes DEF AttemptsInv, AttemptsBounded, Limit
<1>3. ASSUME NEW t \in Tasks, NEW s \in Steps
      PROVE  step'[t][s].attempts <= Limit' /\ Spare(t, s)'
  <2>1. step'[t][s].attempts < Limit'
    BY <1>1, <1>2
  <2> QED
    BY <1>1, <1>2, <2>1 DEF Spare
<1>4. ASSUME NEW v \in Workers
      PROVE  Paced(v)'
  <2>1. CASE v = w
    <3>1. ~Executing(v)'
      BY <2>1, NotExecutingAfter DEF Executing
    <3> QED
      BY <3>1 DEF Paced
  <2>2. CASE v # w
    <3>1. worker'[v] = worker[v] /\ Paced(v)
      BY <2>2, OwnSteps DEF AttemptsInv
    <3>2. \A s \in Steps : /\ step'[worker[v].cur][s].attempts <= step[worker[v].cur][s].attempts
                           /\ step'[worker[v].cur][s].attempts \in Nat
      BY <1>1, AttemptTypes
    <3>3. Limit' \in Nat /\ Limit' >= Limit
      BY <1>1
    <3> QED
      BY <3>1, <3>2, <3>3, PacedStays
  <2> QED
    BY <2>1, <2>2
<1> QED
  BY <1>3, <1>4 DEF AttemptsInv, AttemptsBounded, Limit

\* A request re-arms a failed task, which is counted, or leaves settled tasks alone.
LEMMA ProducerEases ==
  ASSUME TypeOK, NEW p \in Producers, ProducerStep(p)
  PROVE  /\ KeepsCompleted /\ UNCHANGED <<worker, crashes>>
         /\ \/ rearms' = rearms + 1
            \/ /\ rearms' = rearms
               /\ \A t \in Tasks : task[t].status \in {"failed", "completed"} =>
                                     task'[t].status = task[t].status
<1>1. KeepsCompleted
  <2>0. CASE UNCHANGED step
    BY <2>0 DEF KeepsCompleted, TypeOK, StepRow
  <2>1. CASE ResetSteps(p)
    <3>1. \A row \in StepRow : /\ row.status = "completed" <=> ResetStep(row).status = "completed"
                               /\ ~Broken(ResetStep(row))
                               /\ ResetStep(row).attempts <= row.attempts
      BY DEF ResetStep, StepRow, Broken
    <3> QED
      BY <2>1, <3>1 DEF ResetSteps, KeepsCompleted, TypeOK, StepRow
  <2>2. CASE UpsertSteps(p)
    <3>1. \A row \in StepRow : /\ row.status = "completed" <=> EnsureStep(row).status = "completed"
                               /\ Broken(EnsureStep(row)) => Broken(row)
                               /\ EnsureStep(row).attempts <= row.attempts
      BY DEF EnsureStep, StepRow, Broken
    <3> QED
      BY <2>2, <3>1 DEF UpsertSteps, KeepsCompleted, TypeOK, StepRow
  <2> QED
    BY <2>0, <2>1, <2>2 DEF ProducerStep, EnsureDue, EnsureDynamic, EnsureFailed, Rearm,
       RearmMissed, Reread, Reschedule, ProducerStops
<1>2. UNCHANGED <<worker, crashes>>
  BY DEF ProducerStep, EnsureDue, EnsureDynamic, EnsureFailed, Rearm,
     RearmMissed, ResetSteps, UpsertSteps, Reread, Reschedule, ProducerStops
<1>3. ASSUME ~Rearm(p)
      PROVE  rearms' = rearms
  BY <1>3 DEF ProducerStep, EnsureDue, EnsureDynamic, EnsureFailed,
     RearmMissed, ResetSteps, UpsertSteps, Reread, Reschedule, ProducerStops
<1>4. ASSUME ~Rearm(p), NEW t \in Tasks, task[t].status \in {"failed", "completed"}
      PROVE  task'[t].status = task[t].status
  <2>1. ASSUME NEW u \in Tasks, NEW scheduled, task' = Ensured(u, scheduled)
        PROVE  task'[t] = task[t]
    BY <1>4, <2>1 DEF Ensured, TypeOK
  <2>2. CASE EnsureDue(p) \/ EnsureDynamic(p)
    BY <2>1, <2>2, ConstantsAssumption DEF EnsureDue, EnsureDynamic
  <2>3. CASE Reschedule(p)
    BY <1>4, <2>3 DEF Reschedule, TypeOK, TaskRow
  <2>4. CASE UNCHANGED task
    BY <2>4
  <2> QED
    BY <1>4, <2>2, <2>3, <2>4 DEF ProducerStep, EnsureFailed, RearmMissed, ResetSteps,
       UpsertSteps, Reread, ProducerStops
<1>5. Rearm(p) => rearms' = rearms + 1
  BY DEF Rearm
<1> QED
  BY <1>1, <1>2, <1>3, <1>4, <1>5

LEMMA AttemptsProduce ==
  ASSUME TypeOK, TypeOK', AttemptsInv, NEW p \in Producers, ProducerStep(p)
  PROVE  AttemptsInv'
<1>1. /\ KeepsCompleted /\ UNCHANGED <<worker, crashes>>
      /\ rearms' \in {rearms, rearms + 1}
      /\ rearms' = rearms => \A t \in Tasks : task[t].status \in {"failed", "completed"} =>
                                                task'[t].status = task[t].status
  BY ProducerEases DEF TypeOK
<1>2. /\ Limit \in Nat /\ Limit' \in Nat /\ Limit' >= Limit
      /\ rearms' # rearms => Limit' > Limit
      /\ rearms' = rearms => Limit' = Limit
  BY <1>1, AttemptTypes DEF Limit, TypeOK
<1>3. ASSUME NEW t \in Tasks, NEW s \in Steps
      PROVE  /\ step[t][s].attempts \in Nat /\ step'[t][s].attempts \in Nat
             /\ step'[t][s].attempts <= step[t][s].attempts
             /\ step[t][s].attempts <= Limit
  BY <1>1 DEF TypeOK, StepRow, KeepsCompleted, AttemptsInv, AttemptsBounded, Limit
<1>4. ASSUME NEW t \in Tasks, NEW s \in Steps
      PROVE  step'[t][s].attempts <= Limit' /\ Spare(t, s)'
  <2>1. step'[t][s].attempts <= Limit'
    BY <1>2, <1>3
  <2>2. CASE rearms' # rearms
    <3>1. step'[t][s].attempts < Limit'
      BY <1>2, <1>3, <2>2
    <3> QED
      BY <2>1, <3>1 DEF Spare
  <2>3. CASE rearms' = rearms
    <3>1. Spare(t, s)
      BY DEF AttemptsInv
    <3>2. CASE step[t][s].status = "completed"
      BY <1>1, <2>1, <3>2 DEF KeepsCompleted, Spare
    <3>3. CASE task[t].status \in {"failed", "completed"}
      BY <1>1, <2>1, <2>3, <3>3 DEF Spare
    <3>4. CASE step[t][s].attempts < Limit
      <4>1. step'[t][s].attempts < Limit'
        BY <1>2, <1>3, <3>4
      <4> QED
        BY <2>1, <4>1 DEF Spare
    <3>5. CASE \E w \in Workers : Executing(w) /\ worker[w].cur = t /\ Counted(w, s)
      BY <1>1, <2>1, <3>5 DEF Spare, Executing, Counted, AtStep
    <3> QED
      BY <3>1, <3>2, <3>3, <3>4, <3>5 DEF Spare
  <2> QED
    BY <2>2, <2>3
<1>5. ASSUME NEW w \in Workers
      PROVE  Paced(w)'
  <2>1. Paced(w) /\ worker'[w] = worker[w] /\ worker[w].cur \in Tasks
    BY <1>1, AttemptTypes DEF AttemptsInv
  <2>2. \A s \in Steps : /\ step'[worker[w].cur][s].attempts <= step[worker[w].cur][s].attempts
                         /\ step'[worker[w].cur][s].attempts \in Nat
    BY <1>3, <2>1
  <2> QED
    BY <1>2, <2>1, <2>2, PacedStays
<1> QED
  BY <1>4, <1>5 DEF AttemptsInv, AttemptsBounded, Limit

\* Where an execution that goes on is afterwards.
LEMMA LaterPc ==
  ASSUME TypeOK, NEW w \in Workers,
         Load(w) \/ ReadStep(w) \/ MarkStepRunning(w) \/ MarkStepCompleted(w) \/ MarkStepFailed(w)
  PROVE  worker'[w].pc \in ExecutingPc \ {"load"}
<1>0. worker[w] \in WorkerState
  BY DEF TypeOK
<1>1. CASE Load(w)
  <2> DEFINE pc == AfterStep(StepsToRun(worker[w].cur))
             attempts == task[worker[w].cur].attempts
             todo == StepsToRun(worker[w].cur)
             base == [s \in Steps |-> step[worker[w].cur][s].attempts]
  <2>1. worker' = [worker EXCEPT ![w] =
          [@ EXCEPT !.pc = pc, !.attempts = attempts, !.todo = todo, !.base = base]]
    BY <1>1 DEF Load
  <2>2. pc \in {"begin", "finish"}
    BY DEF AfterStep
  <2> HIDE DEF pc, attempts, todo, base
  <2>3. worker'[w].pc = pc
    BY <1>0, <2>1 DEF TypeOK, WorkerState
  <2> QED
    BY <2>2, <2>3 DEF ExecutingPc
<1>2. CASE ReadStep(w)
  <2>1. PICK s \in Steps : worker' = [worker EXCEPT ![w] =
          [@ EXCEPT !.pc = "mark", !.seen = step[worker[w].cur][s].attempts]]
    BY <1>2 DEF ReadStep
  <2> QED
    BY <1>0, <2>1 DEF TypeOK, WorkerState, ExecutingPc
<1>3. CASE MarkStepRunning(w)
  BY <1>0, <1>3 DEF MarkStepRunning, TypeOK, WorkerState, ExecutingPc
<1>4. CASE MarkStepCompleted(w)
  <2>1. PICK s \in Steps : worker' = [worker EXCEPT ![w] =
          [@ EXCEPT !.todo = worker[w].todo \ {s}, !.pc = AfterStep(worker[w].todo \ {s})]]
    BY <1>4 DEF MarkStepCompleted
  <2>2. worker'[w].pc = AfterStep(worker[w].todo \ {s})
    BY <1>0, <2>1 DEF TypeOK, WorkerState
  <2> QED
    BY <2>2 DEF AfterStep, ExecutingPc
<1>5. CASE MarkStepFailed(w)
  BY <1>0, <1>5 DEF MarkStepFailed, TypeOK, WorkerState, ExecutingPc
<1> QED
  BY <1>1, <1>2, <1>3, <1>4, <1>5

LEMMA NextAttempts ==
  ASSUME TypeOK, CandidatesSound, ExecutorHoldsLease, ExecutorHoldsLease', AttemptsInv,
         [OrderlyNext]_vars
  PROVE  AttemptsInv'
<1>0. TypeOK'
  BY NextTypeOK DEF OrderlyNext
<1>1. CASE UNCHANGED vars
  BY <1>1 DEF vars, AttemptsInv, AttemptsBounded, Spare, Paced, Limit, Counted, AtStep, Executing
<1>2. CASE OrderlyNext /\ \E w \in Workers : WorkerStep(w)
  <2>1. PICK w \in Workers : WorkerStep(w) /\ ~CompletionResponseLost(w)
    BY <1>2 DEF OrderlyNext
  <2>2. \A v \in Workers \ {w} : worker'[v] = worker[v]
    BY <2>1, OwnSteps
  <2>3. CASE ScanReady(w) \/ ScanExpired(w) \/ NothingToClaim(w) \/ ClaimMissed(w)
    BY <2>3, AttemptsLook
  <2>4. CASE Claim(w)
    BY <2>4, AttemptsClaim
  <2>5. CASE MarkTaskFailed(w)
    BY <2>5, AttemptsFail
  <2>6. CASE MarkTaskCompleted(w)
    BY <2>6, AttemptsComplete
  <2>7. CASE Load(w) \/ ReadStep(w) \/ MarkStepRunning(w) \/ MarkStepCompleted(w) \/ MarkStepFailed(w)
    <3>1. worker'[w].pc \in ExecutingPc \ {"load"}
      BY <2>7, LaterPc
    <3>2. GoesOn(w)
      BY <2>1, <3>1, Progress
    <3> QED
      BY <1>0, <2>2, <3>2, AttemptsGoOn
  <2> QED
    BY <2>1, <2>3, <2>4, <2>5, <2>6, <2>7 DEF WorkerStep, ClaimStep, ExecuteStep
<1>3. CASE \E w \in Workers : Crash(w)
  BY <1>3, AttemptsCrash
<1>4. CASE \E p \in Producers : ProducerStep(p)
  BY <1>0, <1>4, AttemptsProduce
<1>5. CASE Tick
  BY <1>5 DEF Tick, AttemptsInv, AttemptsBounded, Spare, Paced, Limit, Counted, AtStep, Executing
<1> QED
  BY <1>1, <1>2, <1>3, <1>4, <1>5 DEF OrderlyNext, Next

LEMMA InitAttempts == Init => AttemptsInv
<1> SUFFICES ASSUME Init PROVE AttemptsInv
  OBVIOUS
<1>1. \A t \in Tasks, s \in Steps : step[t][s].attempts = 0
  BY DEF Init, AbsentStep
<1>2. Limit \in Nat /\ Limit > 0
  BY InitTypeOK, AttemptTypes
<1>3. \A w \in Workers : ~Executing(w)
  BY IdleNotExecuting DEF Init, Executing
<1>4. AttemptsBounded
  BY <1>1, <1>2 DEF AttemptsBounded, Limit
<1>5. \A t \in Tasks, s \in Steps : Spare(t, s)
  BY <1>1, <1>2 DEF Spare
<1>6. \A w \in Workers : Paced(w)
  BY <1>3 DEF Paced
<1> QED
  BY <1>4, <1>5, <1>6 DEF AttemptsInv

\* However often workers stop and tasks are compensated, a step is attempted at most
\* max_attempts times, plus once for every worker that stopped and every task that
\* was re-armed: whoever counts an attempt read the count after its own claim.
THEOREM AttemptsAreBounded == OrderlySpec => []AttemptsBounded
<1>1. /\ TypeOK /\ CandidatesSound /\ ExecutorHoldsLease /\ ExecutorHoldsLease'
      /\ AttemptsInv /\ [OrderlyNext]_vars
      => AttemptsInv'
  BY NextAttempts
<1>2. AttemptsInv => AttemptsBounded
  BY DEF AttemptsInv
<1> QED
  BY <1>1, <1>2, InitAttempts, OrderlyFacts, Ownership, PTL DEF OrderlySpec

----------------------------------------------------------------------------
(* The engine implements ExclusiveTasks.                                   *)

Works(w, t) == Executing(w) /\ worker[w].cur = t

LEMMA HolderIs ==
  ASSUME ExecutorHoldsLease, NEW t \in Tasks
  PROVE  /\ \A w \in Workers : Works(w, t) => Holder(t) = w
         /\ (\A w \in Workers : ~Works(w, t)) => Holder(t) = None
         /\ \A w \in Workers : Holder(t) = w => Works(w, t)
<1>1. ASSUME NEW w \in Workers, Works(w, t)
      PROVE  Holder(t) = w
  <2>1. \A v \in Workers : Executing(v) /\ worker[v].cur = t => v = w
    BY <1>1, Alone DEF Works
  <2> QED
    BY <1>1, <2>1 DEF Works, Holder
<1>2. (\A w \in Workers : ~Works(w, t)) => Holder(t) = None
  BY DEF Works, Holder
<1>3. ASSUME NEW w \in Workers, Holder(t) = w
      PROVE  Works(w, t)
  <2>1. PICK v \in Workers : Works(v, t)
    BY <1>2, <1>3, ConstantsAssumption
  <2> QED
    BY <1>1, <1>3, <2>1
<1> QED
  BY <1>1, <1>2, <1>3

LEMMA HolderIsNext ==
  ASSUME ExecutorHoldsLease', NEW t \in Tasks
  PROVE  /\ \A w \in Workers : Works(w, t)' => Holder(t)' = w
         /\ (\A w \in Workers : ~Works(w, t)') => Holder(t)' = None
<1>1. ASSUME NEW w \in Workers, Works(w, t)'
      PROVE  Holder(t)' = w
  <2>1. \A v \in Workers : Executing(v)' /\ worker'[v].cur = t => v = w
    BY <1>1 DEF ExecutorHoldsLease, Works
  <2> QED
    BY <1>1, <2>1 DEF Works, Holder
<1>2. (\A w \in Workers : ~Works(w, t)') => Holder(t)' = None
  BY DEF Works, Holder
<1> QED
  BY <1>1, <1>2

\* A task that the same workers work on keeps its holder.
LEMMA SameHolder ==
  ASSUME ExecutorHoldsLease, ExecutorHoldsLease', NEW t \in Tasks,
         \A w \in Workers : Works(w, t)' <=> Works(w, t)
  PROVE  Holder(t)' = Holder(t)
<1>1. CASE \E w \in Workers : Works(w, t)
  BY <1>1, HolderIs, HolderIsNext
<1>2. CASE \A w \in Workers : ~Works(w, t)
  BY <1>2, HolderIs, HolderIsNext
<1> QED
  BY <1>1, <1>2

LEMMA SameHolders ==
  ASSUME ExecutorHoldsLease, ExecutorHoldsLease',
         \A w \in Workers, t \in Tasks : Works(w, t)' <=> Works(w, t)
  PROVE  holders' = holders
<1>1. \A t \in Tasks : Holder(t)' = Holder(t)
  BY SameHolder
<1> QED
  BY <1>1 DEF holders

\* Worker w begins or ends to work on task t, and nothing else happens.
LEMMA OneHolderMoves ==
  ASSUME ExecutorHoldsLease, ExecutorHoldsLease', NEW t \in Tasks,
         \A v \in Workers, u \in Tasks \ {t} : Works(v, u)' <=> Works(v, u)
  PROVE  holders' = [holders EXCEPT ![t] = Holder(t)']
<1>1. \A u \in Tasks \ {t} : Holder(u)' = Holder(u)
  BY SameHolder
<1> QED
  BY <1>1 DEF holders

LEMMA OnePhaseMoves ==
  ASSUME NEW t \in Tasks, \A u \in Tasks \ {t} : task'[u] = task[u]
  PROVE  phases' = [phases EXCEPT ![t] = PhaseOf(task'[t].status)]
BY DEF phases

Stutters == UNCHANGED Exclusive!vars

LEMMA Stuttering ==
  ASSUME ExecutorHoldsLease, ExecutorHoldsLease', phases' = phases,
         \A w \in Workers, t \in Tasks : Works(w, t)' <=> Works(w, t)
  PROVE  Stutters
BY SameHolders DEF Stutters, Exclusive!vars

LEMMA ClaimTakes ==
  ASSUME TypeOK, CandidatesSound, ExecutorHoldsLease, ExecutorHoldsLease',
         NEW w \in Workers, Claim(w)
  PROVE  \E t \in Tasks : Exclusive!Take(t, w)
<1>0. worker[w] \in WorkerState
  BY DEF TypeOK
<1>1. PICK c \in worker[w].cands :
        /\ worker' = [worker EXCEPT ![w] =
             [@ EXCEPT !.pc = "load", !.cur = c.id, !.cands = {}, !.at = 0,
                       !.until = worker[w].at + Lease]]
        /\ TakesOver(w, c)
  BY DEF Claim, TakesOver
<1>2. PICK t \in Tasks : t = c.id
  BY <1>0 DEF WorkerState, Candidate
<1>3. worker'[w].pc = "load" /\ worker'[w].cur = t
  BY <1>0, <1>1, <1>2 DEF TypeOK, WorkerState
<1>4. \A v \in Workers \ {w} : worker'[v] = worker[v]
  BY <1>1 DEF TypeOK
<1>5. c \in Candidate
  BY <1>0 DEF WorkerState
<1>6. /\ task'[t].status = "running" /\ task'[t].owner = w
      /\ \A u \in Tasks \ {t} : task'[u] = task[u]
  BY <1>1, <1>2, <1>5, TakenRow
<1>7. task[t].status \in {"pending", "retrying", "running"}
  BY <1>1, <1>2 DEF TakesOver, CasMatches, CandidatesSound
<1>8. ~Executing(w) /\ Works(w, t)'
  BY <1>3 DEF Claim, Executing, ExecutingPc, Works
<1>9. ASSUME NEW v \in Workers
      PROVE  ~Works(v, t)
  <2>1. CASE v = w
    BY <1>8, <2>1 DEF Works
  <2>2. CASE v # w
    <3>1. SUFFICES ASSUME Works(v, t) PROVE FALSE
      OBVIOUS
    <3>2. Executing(v)' /\ worker'[v].cur = t
      BY <1>4, <2>2, <3>1 DEF Works, Executing
    <3>3. task'[t].owner = v
      BY <3>2 DEF ExecutorHoldsLease
    <3> QED
      BY <1>6, <2>2, <3>3
  <2> QED
    BY <2>1, <2>2
<1>10. holders[t] = None /\ \A u \in Tasks : holders[u] # w
  <2>1. Holder(t) = None
    BY <1>9, HolderIs
  <2>2. \A u \in Tasks : Holder(u) # w
    BY <1>8, HolderIs DEF Works
  <2> QED
    BY <2>1, <2>2 DEF holders
<1>11. holders' = [holders EXCEPT ![t] = w]
  <2>1. \A v \in Workers, u \in Tasks \ {t} : Works(v, u)' <=> Works(v, u)
    BY <1>3, <1>4, <1>8 DEF Works, Executing
  <2>2. Holder(t)' = w
    BY <1>8, HolderIsNext
  <2> QED
    BY <2>1, <2>2, OneHolderMoves
<1>12. phases[t] \in {"open", "taken"} /\ phases' = [phases EXCEPT ![t] = "taken"]
  <2>1. PhaseOf(task[t].status) \in {"open", "taken"} /\ PhaseOf(task'[t].status) = "taken"
    BY <1>6, <1>7 DEF PhaseOf
  <2> QED
    BY <1>6, <2>1, OnePhaseMoves DEF phases
<1> QED
  BY <1>10, <1>11, <1>12 DEF Exclusive!Take

\* Worker w, which executes, is idle afterwards.
LEMMA Leaves ==
  ASSUME TypeOK, ExecutorHoldsLease, ExecutorHoldsLease', NEW w \in Workers, NEW t \in Tasks,
         Works(w, t), worker' = [worker EXCEPT ![w] = IdleWorker]
  PROVE  /\ phases[t] = "taken" /\ holders[t] = w
         /\ holders' = [holders EXCEPT ![t] = None]
<1>1. task[t].status = "running"
  BY DEF ExecutorHoldsLease, Works
<1>2. phases[t] = "taken"
  BY <1>1 DEF phases, PhaseOf
<1>3. holders[t] = w
  BY HolderIs DEF holders
<1>4. /\ \A v \in Workers \ {w} : worker'[v] = worker[v]
      /\ ~Executing(w)'
  BY IdleNotExecuting DEF Executing, TypeOK
<1>5. \A v \in Workers, u \in Tasks \ {t} : Works(v, u)' <=> Works(v, u)
  BY <1>4 DEF Works, Executing
<1>6. ASSUME NEW v \in Workers
      PROVE  ~Works(v, t)'
  <2>1. CASE v = w
    BY <1>4, <2>1 DEF Works
  <2>2. CASE v # w
    <3>1. ~Works(v, t)
      BY <2>2, Alone DEF Works
    <3> QED
      BY <1>4, <2>2, <3>1 DEF Works, Executing
  <2> QED
    BY <2>1, <2>2
<1>7. Holder(t)' = None
  BY <1>6, HolderIsNext
<1> QED
  BY <1>2, <1>3, <1>5, <1>7, OneHolderMoves

LEMMA EndFinishes ==
  ASSUME TypeOK, ExecutorHoldsLease, ExecutorHoldsLease', NEW w \in Workers, NEW t \in Tasks,
         EndsAttempt(w, t)
  PROVE  \E outcome \in {"open", "completed", "failed"} : Exclusive!Finish(t, w, outcome)
<1>1. PICK row \in TaskRow : /\ task' = [task EXCEPT ![t] = row]
                             /\ row.status \in {"retrying", "failed", "completed"}
  BY DEF EndsAttempt
<1>2. Works(w, t) /\ worker' = [worker EXCEPT ![w] = IdleWorker]
  BY DEF EndsAttempt, Works, Executing, ExecutingPc
<1>3. /\ phases[t] = "taken" /\ holders[t] = w
      /\ holders' = [holders EXCEPT ![t] = None]
  BY <1>2, Leaves
<1>4. PICK outcome \in {"open", "completed", "failed"} : outcome = PhaseOf(row.status)
  BY <1>1 DEF PhaseOf
<1>5. phases' = [phases EXCEPT ![t] = outcome]
  <2>1. task'[t] = row /\ \A u \in Tasks \ {t} : task'[u] = task[u]
    BY <1>1 DEF TypeOK
  <2> QED
    BY <1>4, <2>1, OnePhaseMoves
<1> QED
  BY <1>3, <1>5 DEF Exclusive!Finish

LEMMA CrashGivesUp ==
  ASSUME TypeOK, ExecutorHoldsLease, ExecutorHoldsLease', NEW w \in Workers, Crash(w)
  PROVE  Stutters \/ \E t \in Tasks : Exclusive!GiveUp(t, w)
<1>1. worker' = [worker EXCEPT ![w] = IdleWorker] /\ UNCHANGED task
  BY DEF Crash
<1>2. phases' = phases
  BY <1>1 DEF phases
<1>3. CASE Executing(w)
  <2>1. PICK t \in Tasks : Works(w, t)
    BY <1>3 DEF Works, TypeOK, WorkerState
  <2>2. holders[t] = w /\ holders' = [holders EXCEPT ![t] = None]
    BY <1>1, <2>1, Leaves
  <2> QED
    BY <1>2, <2>2 DEF Exclusive!GiveUp
<1>4. CASE ~Executing(w)
  <2>1. (\A v \in Workers \ {w} : worker'[v] = worker[v]) /\ ~Executing(w)'
    BY <1>1, IdleNotExecuting DEF Executing, TypeOK
  <2>2. \A v \in Workers, t \in Tasks : Works(v, t)' <=> Works(v, t)
    BY <1>4, <2>1 DEF Works, Executing
  <2> QED
    BY <1>2, <2>2, Stuttering
<1> QED
  BY <1>3, <1>4

LEMMA PrepareOpens ==
  ASSUME TypeOK, ExecutorHoldsLease, ExecutorHoldsLease', NEW t \in Tasks, Prepares(t)
  PROVE  Stutters \/ Exclusive!Create(t) \/ Exclusive!Reopen(t)
<1>1. task'[t].status = "pending" /\ \A u \in Tasks \ {t} : task'[u] = task[u]
  BY DEF Prepares, TypeOK
<1>2. task[t].status \in {"absent", "failed", "pending"} /\ UNCHANGED worker
  BY DEF Prepares
<1>3. \A w \in Workers, u \in Tasks : Works(w, u)' <=> Works(w, u)
  BY <1>2 DEF Works, Executing
<1>4. phases' = [phases EXCEPT ![t] = "open"]
  <2>1. PhaseOf(task'[t].status) = "open"
    BY <1>1 DEF PhaseOf
  <2> QED
    BY <1>1, <2>1, OnePhaseMoves
<1>5. phases[t] = PhaseOf(task[t].status) /\ UNCHANGED holders
  BY <1>3, SameHolders DEF phases
<1>6. CASE task[t].status = "absent"
  BY <1>4, <1>5, <1>6 DEF PhaseOf, Exclusive!Create
<1>7. CASE task[t].status = "failed"
  BY <1>4, <1>5, <1>7 DEF PhaseOf, Exclusive!Reopen
<1>8. CASE task[t].status = "pending"
  <2>1. phases' = phases
    BY <1>1, <1>8 DEF phases
  <2> QED
    BY <1>3, <2>1, Stuttering
<1> QED
  BY <1>2, <1>6, <1>7, <1>8

LEMMA StepImplements ==
  ASSUME TypeOK, CandidatesSound, ExecutorHoldsLease, ExecutorHoldsLease', OrderlyNext
  PROVE  Exclusive!Next \/ Stutters
<1>1. CASE \E w \in Workers : WorkerStep(w)
  <2>1. PICK w \in Workers : WorkerStep(w) /\ ~CompletionResponseLost(w)
    BY <1>1 DEF OrderlyNext
  <2>2. CASE Claim(w)
    BY <2>2, ClaimTakes DEF Exclusive!Next
  <2>3. CASE MarkTaskFailed(w) \/ MarkTaskCompleted(w)
    <3>1. PICK t \in Tasks : EndsAttempt(w, t)
      BY <2>3, Endings
    <3> QED
      BY <3>1, EndFinishes DEF Exclusive!Next
  <2>4. CASE Load(w) \/ ReadStep(w) \/ MarkStepRunning(w) \/ MarkStepCompleted(w) \/ MarkStepFailed(w)
    <3>1. GoesOn(w) /\ worker'[w].pc \in ExecutingPc
      BY <2>1, <2>4, LaterPc, Progress
    <3>2. \A v \in Workers \ {w} : worker'[v] = worker[v]
      BY <2>1, OwnSteps
    <3>3. phases' = phases
      BY <3>1 DEF GoesOn, phases
    <3>4. \A v \in Workers, t \in Tasks : Works(v, t)' <=> Works(v, t)
      BY <3>1, <3>2 DEF GoesOn, Works, Executing
    <3> QED
      BY <3>3, <3>4, Stuttering
  <2>5. CASE ScanReady(w) \/ ScanExpired(w) \/ NothingToClaim(w) \/ ClaimMissed(w)
    <3>1. UNCHANGED task /\ ~Executing(w)
      BY <2>5 DEF ScanReady, ScanExpired, NothingToClaim, ClaimMissed, Executing, ExecutingPc
    <3>2. ~Executing(w)' /\ \A v \in Workers \ {w} : worker'[v] = worker[v]
      BY <2>1, <2>5, NotExecutingAfter, OwnSteps DEF Executing
    <3>3. phases' = phases
      BY <3>1 DEF phases
    <3>4. \A v \in Workers, t \in Tasks : Works(v, t)' <=> Works(v, t)
      BY <3>1, <3>2 DEF Works, Executing
    <3> QED
      BY <3>3, <3>4, Stuttering
  <2> QED
    BY <2>1, <2>2, <2>3, <2>4, <2>5 DEF WorkerStep, ClaimStep, ExecuteStep
<1>2. CASE \E w \in Workers : Crash(w)
  BY <1>2, CrashGivesUp DEF Exclusive!Next
<1>3. CASE \E p \in Producers : ProducerStep(p)
  <2>1. UNCHANGED worker /\ (UNCHANGED task \/ \E t \in Tasks : Prepares(t))
    BY <1>3, ProducerPrepares
  <2>2. CASE UNCHANGED task
    <3>1. phases' = phases
      BY <2>2 DEF phases
    <3>2. \A v \in Workers, t \in Tasks : Works(v, t)' <=> Works(v, t)
      BY <2>1 DEF Works, Executing
    <3> QED
      BY <3>1, <3>2, Stuttering
  <2> QED
    BY <2>1, <2>2, PrepareOpens DEF Exclusive!Next
<1>4. CASE Tick
  <2>1. UNCHANGED <<task, worker>>
    BY <1>4 DEF Tick
  <2>2. phases' = phases
    BY <2>1 DEF phases
  <2>3. \A v \in Workers, t \in Tasks : Works(v, t)' <=> Works(v, t)
    BY <2>1 DEF Works, Executing
  <2> QED
    BY <2>2, <2>3, Stuttering
<1> QED
  BY <1>1, <1>2, <1>3, <1>4 DEF OrderlyNext, Next

LEMMA IdleStutters ==
  ASSUME ExecutorHoldsLease, ExecutorHoldsLease', UNCHANGED vars
  PROVE  Stutters
<1>1. UNCHANGED <<task, worker>>
  BY DEF vars
<1>2. phases' = phases
  BY <1>1 DEF phases
<1>3. \A v \in Workers, t \in Tasks : Works(v, t)' <=> Works(v, t)
  BY <1>1 DEF Works, Executing
<1> QED
  BY <1>2, <1>3, Stuttering

LEMMA InitImplements == Init => Exclusive!Init
<1> SUFFICES ASSUME Init PROVE Exclusive!Init
  OBVIOUS
<1>1. \A w \in Workers : ~Executing(w)
  BY IdleNotExecuting DEF Init, Executing
<1>2. \A t \in Tasks : Holder(t) = None
  BY <1>1 DEF Holder
<1>3. \A t \in Tasks : PhaseOf(task[t].status) = "absent"
  BY DEF Init, AbsentTask, PhaseOf
<1> QED
  BY <1>2, <1>3 DEF Exclusive!Init, phases, holders

\* The engine implements ExclusiveTasks while its leases outlast its workers: one
\* holder per task, who alone decides how the attempt ends; a completed task is final.
THEOREM Implementation == OrderlySpec => ImplementsExclusiveTasks
<1>1. TypeOK /\ CandidatesSound /\ ExecutorHoldsLease /\ ExecutorHoldsLease' /\ [OrderlyNext]_vars
      => [Exclusive!Next]_(Exclusive!vars)
  BY StepImplements, IdleStutters DEF Stutters
<1> QED
  BY <1>1, InitImplements, OrderlyFacts, Ownership, PTL
  DEF OrderlySpec, ImplementsExclusiveTasks, Exclusive!Spec
=============================================================================
