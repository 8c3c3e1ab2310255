-------------------------- MODULE BacktestJobsProofs --------------------------
(***************************************************************************)
(* Proofs about BacktestJobs, for any runs, instances, requests, days and  *)
(* limit, and any finite number of jobs.                                   *)
(***************************************************************************)
EXTENDS BacktestJobs, FiniteSetTheorems, TLAPS

----------------------------------------------------------------------------
(* The inductive invariant.                                                *)

\* What holds of a run by itself: whatever it still has to write claims no more
\* days than it has processed, and one that was told to be cancelled can only end.
Good(st) ==
  /\ st.pc = "idle" => st.processed = 0 /\ ~st.told /\ st.timeout = "over" /\ st.beat = "none"
  /\ st.pc = "working" => st.processed < Dates
  /\ st.saving.processed <= st.processed /\ st.overdue.processed <= st.processed
  /\ st.told => st.status # "done" /\ (st.aborted # "no" \/ st.pc = "over")

RunInv(r) == Good(run[r]) /\ 1..run[r].processed \subseteq visited[run[r].job]

\* A claim that was made, for the job.
Claimed(r, j) == r \in Runs /\ run[r].pc # "idle" /\ run[r].job = j

\* Only an active row is live, and it belongs to a claim of its job.
JobInv(j) ==
  /\ row[j].live => row[j].status \in Active
  /\ 1..row[j].processed \subseteq visited[j]
  /\ row[j].status \in Active =>
       Claimed(row[j].owner, j) /\ row[j].processed <= run[row[j].owner].processed

EntryInv(p, j) == entry[p][j] # NoRun => Claimed(entry[p][j], j)

\* A request writes what it read for the claim it read it of.
CallerInv(c) ==
  /\ caller[c].pc = "cancel" => caller[c].process \in Processes
  /\ caller[c].pc \in {"cancel", "mark"} =>
       /\ Claimed(caller[c].run, caller[c].job)
       /\ caller[c].saving.processed <= run[caller[c].run].processed

ResumerInv(x) ==
  resumer[x].reading => 1..resumer[x].processed \subseteq visited[resumer[x].job]

IInv ==
  /\ TypeOK /\ SlotsBounded
  /\ \A r \in Runs : RunInv(r)
  /\ \A j \in Jobs : JobInv(j)
  /\ \A p \in Processes, j \in Jobs : EntryInv(p, j)
  /\ \A c \in Callers : CallerInv(c)
  /\ \A x \in Resumers : ResumerInv(x)

----------------------------------------------------------------------------
(* What a step other than a claim does.                                    *)

\* A claim stays one of its job, and makes progress.
Steady ==
  /\ \A r \in Runs : run[r].pc # "idle" =>
       /\ run'[r].pc # "idle" /\ run'[r].job = run[r].job
       /\ run[r].processed <= run'[r].processed
  /\ \A j \in Jobs : visited[j] \subseteq visited'[j]

\* A row is only written while it is active, for the claim that holds it.
Written(j) ==
  /\ row[j].status \in Active
  /\ row'[j].live => row'[j].status \in Active
  /\ row'[j].status \in Active => row'[j].owner = row[j].owner
  /\ row'[j].processed <= run[row[j].owner].processed

Step ==
  /\ TypeOK' /\ Steady
  /\ \A r \in Runs : RunInv(r)'
  /\ \A j \in Jobs : row'[j] = row[j] \/ Written(j)
  /\ \A p \in Processes, j \in Jobs : entry'[p][j] \in {entry[p][j], NoRun}
  /\ \A c \in Callers : caller'[c] = caller[c] \/ CallerInv(c)'
  /\ \A x \in Resumers : resumer'[x] = resumer[x] \/ ResumerInv(x)'

LEMMA JobSets ==
  ASSUME NEW S \in SUBSET Jobs
  PROVE  IsFiniteSet(S) /\ Cardinality(S) \in Nat
BY BacktestConstants, FS_Subset, FS_CardinalityType

LEMMA ActiveShrinks ==
  ASSUME SlotsBounded, \A j \in Jobs : row'[j].status \in Active => row[j].status \in Active
  PROVE  SlotsBounded'
<1> DEFINE S == {j \in Jobs : row[j].status \in Active}
           T == {j \in Jobs : row'[j].status \in Active}
<1>1. S \in SUBSET Jobs /\ T \in SUBSET S /\ T \in SUBSET Jobs
  OBVIOUS
<1>2. Cardinality(S) <= MaxConcurrent
  BY DEF SlotsBounded
<1> HIDE DEF S, T
<1>3. Cardinality(T) <= Cardinality(S)
  BY <1>1, JobSets, FS_Subset
<1>4. Cardinality(T) <= MaxConcurrent
  BY <1>1, <1>2, <1>3, JobSets, BacktestConstants
<1> QED
  BY <1>4 DEF SlotsBounded, T

LEMMA ClaimedStays ==
  ASSUME Steady, NEW r, NEW j, Claimed(r, j)
  PROVE  Claimed(r, j)' /\ run[r].processed <= run'[r].processed
BY DEF Steady, Claimed

LEMMA ResumersStay ==
  ASSUME TypeOK, Steady, NEW x \in Resumers, ResumerInv(x), resumer'[x] = resumer[x]
  PROVE  ResumerInv(x)'
<1>1. resumer[x].job \in Jobs
  BY DEF TypeOK, ResumerState
<1> QED
  BY <1>1 DEF ResumerInv, Steady

LEMMA CallersStay ==
  ASSUME TypeOK, TypeOK', Steady, NEW c \in Callers, CallerInv(c), caller'[c] = caller[c]
  PROVE  CallerInv(c)'
<1> SUFFICES ASSUME caller[c].pc \in {"cancel", "mark"}
             PROVE  /\ Claimed(caller[c].run, caller[c].job)'
                    /\ caller[c].saving.processed <= run'[caller[c].run].processed
  BY DEF CallerInv
<1>1. PICK r \in Runs : caller[c].run = r /\ Claimed(r, caller[c].job)
                        /\ caller[c].saving.processed <= run[r].processed
  BY DEF CallerInv, Claimed
<1>2. PICK j \in Jobs : caller[c].job = j
  BY DEF TypeOK, CallerState
<1>3. Claimed(r, j)' /\ run[r].processed <= run'[r].processed
  BY <1>1, <1>2, ClaimedStays
<1>4. /\ caller[c].saving.processed \in Int /\ run[r].processed \in Int
      /\ run'[r].processed \in Int
  BY BacktestConstants DEF TypeOK, CallerState, RunState, Snapshot
<1> QED
  BY <1>1, <1>2, <1>3, <1>4 DEF Claimed

LEMMA EntriesStay ==
  ASSUME Steady, NEW p \in Processes, NEW j \in Jobs, EntryInv(p, j),
         entry'[p][j] \in {entry[p][j], NoRun}
  PROVE  EntryInv(p, j)'
<1>1. CASE entry[p][j] # NoRun /\ entry'[p][j] = entry[p][j]
  <2>1. PICK r \in Runs : entry[p][j] = r /\ Claimed(r, j)
    BY <1>1 DEF EntryInv, Claimed
  <2>2. Claimed(r, j)'
    BY <2>1, ClaimedStays
  <2> QED
    BY <1>1, <2>1, <2>2 DEF EntryInv, Claimed
<1>2. CASE entry'[p][j] = NoRun
  BY <1>2 DEF EntryInv
<1> QED
  BY <1>1, <1>2

LEMMA RowStays ==
  ASSUME TypeOK, TypeOK', Steady, NEW j \in Jobs, JobInv(j), row'[j] = row[j]
  PROVE  JobInv(j)'
<1>1. 1..row[j].processed \subseteq visited'[j]
  BY DEF JobInv, Steady
<1>2. ASSUME row[j].status \in Active
      PROVE  Claimed(row[j].owner, j)' /\ row[j].processed <= run'[row[j].owner].processed
  <2>1. PICK r \in Runs : row[j].owner = r /\ Claimed(r, j) /\ row[j].processed <= run[r].processed
    BY <1>2 DEF JobInv, Claimed
  <2>2. Claimed(r, j)' /\ run[r].processed <= run'[r].processed
    BY <2>1, ClaimedStays
  <2>3. row[j].processed \in Int /\ run[r].processed \in Int /\ run'[r].processed \in Int
    BY BacktestConstants DEF TypeOK, Row, RunState
  <2> QED
    BY <2>1, <2>2, <2>3 DEF Claimed
<1> QED
  BY <1>1, <1>2 DEF JobInv

LEMMA RowWritten ==
  ASSUME TypeOK, TypeOK', Steady, NEW j \in Jobs, JobInv(j), Written(j),
         \A r \in Runs : RunInv(r)
  PROVE  JobInv(j)'
<1>1. PICK r \in Runs : row[j].owner = r /\ Claimed(r, j)
  BY DEF Written, JobInv, Claimed
<1>2. Claimed(r, j)' /\ run[r].processed <= run'[r].processed
  BY <1>1, ClaimedStays
<1>3. row'[j].processed <= run[r].processed
  BY <1>1 DEF Written
<1>4. row'[j].processed \in Int /\ run[r].processed \in Int /\ run'[r].processed \in Int
  BY BacktestConstants DEF TypeOK, Row, RunState
<1>5. 1..run[r].processed \subseteq visited[j]
  BY <1>1 DEF RunInv, Claimed
<1>6. 1..row'[j].processed \subseteq visited'[j]
  BY <1>3, <1>4, <1>5 DEF Steady
<1>7. row'[j].processed <= run'[r].processed
  BY <1>2, <1>3, <1>4
<1>8. row'[j].status \in Active => row'[j].owner = r
  BY <1>1 DEF Written
<1> QED
  BY <1>2, <1>6, <1>7, <1>8 DEF JobInv, Written, Claimed

LEMMA StepKeeps ==
  ASSUME IInv, Step
  PROVE  IInv'
<1>1. TypeOK /\ TypeOK' /\ Steady /\ \A r \in Runs : RunInv(r)
  BY DEF IInv, Step
<1>2. \A j \in Jobs : JobInv(j)'
  <2> TAKE j \in Jobs
  <2>1. JobInv(j) /\ (row'[j] = row[j] \/ Written(j))
    BY DEF IInv, Step
  <2> QED
    BY <1>1, <2>1, RowStays, RowWritten
<1>3. SlotsBounded'
  <2>1. \A j \in Jobs : row'[j].status \in Active => row[j].status \in Active
    BY DEF Step, Written
  <2> QED
    BY <2>1, ActiveShrinks DEF IInv
<1>4. \A p \in Processes, j \in Jobs : EntryInv(p, j)'
  BY <1>1, EntriesStay DEF IInv, Step
<1>5. \A c \in Callers : CallerInv(c)'
  BY <1>1, CallersStay DEF IInv, Step
<1>6. \A x \in Resumers : ResumerInv(x)'
  BY <1>1, ResumersStay DEF IInv, Step
<1> QED
  BY <1>2, <1>3, <1>4, <1>5, <1>6 DEF IInv, Step

----------------------------------------------------------------------------
(* States of a run that follow one another.                                *)

Follows(old, new) ==
  /\ new \in RunState /\ Good(new)
  /\ old.pc # "idle" /\ new.pc # "idle"
  /\ new.job = old.job /\ new.processed = old.processed

LEMMA Blanks ==
  /\ NoSnapshot \in Snapshot /\ NoSnapshot.processed = 0
  /\ AnyJob \in Jobs /\ 0 \in 0..Dates
  /\ IdleRun \in RunState /\ Good(IdleRun) /\ IdleRun.processed = 0
  /\ IdleCaller \in CallerState /\ IdleCaller.pc = "idle"
  /\ IdleResumer \in ResumerState /\ ~IdleResumer.reading
<1>1. AnyJob \in Jobs /\ 0 \in 0..Dates
  BY BacktestConstants DEF AnyJob
<1>2. NoSnapshot \in Snapshot /\ NoSnapshot.processed = 0
  BY <1>1 DEF NoSnapshot, Snapshot, JobStatus, Active
<1>3. IdleRun \in RunState /\ Good(IdleRun) /\ IdleRun.processed = 0
  BY <1>1, <1>2, BacktestConstants DEF IdleRun, RunState, Good, JobStatus, Active
<1>4. IdleCaller \in CallerState /\ IdleCaller.pc = "idle"
  BY <1>1, <1>2 DEF IdleCaller, CallerState
<1>5. IdleResumer \in ResumerState /\ ~IdleResumer.reading
  BY <1>1 DEF IdleResumer, ResumerState
<1> QED
  BY <1>1, <1>2, <1>3, <1>4, <1>5

\* The pipeline at its next position, and what becomes of a run that is over,
\* that ends with a status, or that saves its progress.
At(st, pc) == [st EXCEPT !.pc = pc]
Ended(st) ==
  [st EXCEPT !.pc = "over", !.aborted = "no", !.saving = NoSnapshot,
             !.timeout = IF @ = "set" THEN "over" ELSE @]
Failed(st, status) == [st EXCEPT !.status = status]
Failing(st, status) ==
  [Failed(st, status) EXCEPT !.pc = "ending",
                             !.saving = [status |-> status, processed |-> st.processed]]
Storing(st) ==
  [st EXCEPT !.pc = "saving", !.saving = [status |-> st.status, processed |-> st.processed]]
Finished(st) == [st EXCEPT !.status = "done"]

LEMMA AtFollows ==
  ASSUME NEW st \in RunState, Good(st), st.pc \notin {"idle", "over"},
         NEW pc \in {"check", "working"}, pc = "working" => st.processed < Dates
  PROVE  Follows(st, At(st, pc))
BY DEF RunState, Good, At, Follows

LEMMA EndedFollows ==
  ASSUME NEW st \in RunState, Good(st), st.pc # "idle"
  PROVE  Follows(st, Ended(st))
<1> DEFINE timeout == IF st.timeout = "set" THEN "over" ELSE st.timeout
           none == NoSnapshot
           new == [st EXCEPT !.pc = "over", !.aborted = "no", !.saving = none, !.timeout = timeout]
<1>1. timeout \in {"set", "sent", "over"} /\ none \in Snapshot /\ none.processed = 0
  BY Blanks DEF RunState
<1>2. Ended(st) = new
  BY DEF Ended
<1> HIDE DEF timeout, none
<1>3. new \in RunState
  BY <1>1 DEF RunState
<1>4. /\ new.pc = "over" /\ new.saving = none /\ new.overdue = st.overdue /\ new.job = st.job
      /\ new.processed = st.processed /\ new.told = st.told /\ new.status = st.status
  BY DEF RunState
<1> HIDE DEF new
<1>5. st.processed \in 0..Dates /\ Dates \in Nat
  BY BacktestConstants DEF RunState
<1> QED
  BY <1>1, <1>2, <1>3, <1>4, <1>5 DEF Good, Follows

LEMMA FailedFollows ==
  ASSUME NEW st \in RunState, Good(st), st.pc # "idle",
         NEW status \in {"cancelled", "timed_out", "error"}
  PROVE  Follows(st, Failed(st, status))
BY DEF RunState, Good, Failed, Follows, JobStatus, Active, Terminal

LEMMA FailingFollows ==
  ASSUME NEW st \in RunState, Good(st), st.pc \notin {"idle", "over"},
         NEW status \in {"cancelled", "timed_out", "error"}
  PROVE  Follows(st, Failing(st, status))
<1> DEFINE new == Failed(st, status)
           saved == [status |-> status, processed |-> st.processed]
<1>1. new \in RunState /\ Good(new) /\ new.pc = st.pc /\ new.told = st.told
      /\ new.aborted = st.aborted /\ new.job = st.job /\ new.processed = st.processed
      /\ new.status = status
  BY DEF RunState, Good, Failed, JobStatus, Active, Terminal
<1>2. saved \in Snapshot /\ saved.processed = st.processed
  BY DEF RunState, Snapshot, JobStatus, Active, Terminal
<1>3. Failing(st, status) = [new EXCEPT !.pc = "ending", !.saving = saved]
  BY DEF Failing
<1> HIDE DEF new, saved
<1> DEFINE last == [new EXCEPT !.pc = "ending", !.saving = saved]
<1>4. last \in RunState
  BY <1>1, <1>2 DEF RunState
<1>5. /\ last.pc = "ending" /\ last.saving = saved /\ last.overdue = new.overdue
      /\ last.job = new.job /\ last.processed = new.processed /\ last.told = new.told
      /\ last.status = new.status /\ last.aborted = new.aborted
  BY <1>1 DEF RunState
<1> HIDE DEF last
<1>6. st.processed \in Int
  BY BacktestConstants DEF RunState
<1> QED
  BY <1>1, <1>2, <1>3, <1>4, <1>5, <1>6 DEF last, Good, Follows

LEMMA StoringFollows ==
  ASSUME NEW st \in RunState, Good(st), st.pc \notin {"idle", "over"}
  PROVE  Follows(st, Storing(st))
<1> DEFINE saved == [status |-> st.status, processed |-> st.processed]
<1>1. saved \in Snapshot /\ saved.processed = st.processed
  BY DEF RunState, Snapshot
<1>2. Storing(st) = [st EXCEPT !.pc = "saving", !.saving = saved]
  BY DEF Storing
<1> HIDE DEF saved
<1> DEFINE new == [st EXCEPT !.pc = "saving", !.saving = saved]
<1>3. new \in RunState
  BY <1>1 DEF RunState
<1>4. /\ new.pc = "saving" /\ new.saving = saved /\ new.overdue = st.overdue
      /\ new.job = st.job /\ new.processed = st.processed /\ new.told = st.told
      /\ new.status = st.status /\ new.aborted = st.aborted
  BY DEF RunState
<1> HIDE DEF new
<1>5. st.processed \in Int
  BY BacktestConstants DEF RunState
<1> QED
  BY <1>1, <1>2, <1>3, <1>4, <1>5 DEF new, Good, Follows

LEMMA FinishedFollows ==
  ASSUME NEW st \in RunState, Good(st), st.pc \in {"check", "working"}, st.aborted = "no"
  PROVE  Follows(st, Finished(st)) /\ Finished(st).pc = st.pc
BY DEF RunState, Good, Finished, Follows, JobStatus, Terminal

LEMMA FollowsTwice ==
  ASSUME NEW a, NEW b, NEW c, Follows(a, b), Follows(b, c)
  PROVE  Follows(a, c)
BY DEF Follows

----------------------------------------------------------------------------
(* One run goes on.                                                        *)

LEMMA RunRow ==
  ASSUME TypeOK, NEW r \in Runs
  PROVE  /\ run[r] \in RunState /\ run[r].job \in Jobs /\ run[r].processed \in 0..Dates
         /\ run[r].saving \in Snapshot /\ run[r].overdue \in Snapshot
BY DEF TypeOK, RunState

LEMMA NewState ==
  ASSUME TypeOK, NEW r \in Runs, NEW new \in RunState, Set(r, new)
  PROVE  /\ run' \in [Runs -> RunState] /\ run'[r] = new
         /\ \A q \in Runs \ {r} : run'[q] = run[q]
BY DEF TypeOK, Set

\* What the lemmas about the actions say of the runs.
RunsGoOn ==
  /\ run' \in [Runs -> RunState]
  /\ \A r \in Runs : RunInv(r)'
  /\ Steady

LEMMA RunsSame ==
  ASSUME TypeOK, \A r \in Runs : RunInv(r), UNCHANGED <<run, visited>>
  PROVE  RunsGoOn
<1>1. \A r \in Runs : RunInv(r)'
  BY DEF RunInv
<1>2. \A r \in Runs : run[r].processed \in Int
  BY BacktestConstants DEF TypeOK, RunState
<1> QED
  BY <1>1, <1>2 DEF RunsGoOn, Steady, TypeOK

VisitedGrows == \A j \in Jobs : visited[j] \subseteq visited'[j]

LEMMA RunGoesOn ==
  ASSUME TypeOK, \A r \in Runs : RunInv(r), NEW r \in Runs, NEW new,
         Follows(run[r], new), Set(r, new), VisitedGrows
  PROVE  RunsGoOn
<1>1. /\ new \in RunState /\ Good(new) /\ run[r].pc # "idle" /\ new.pc # "idle"
      /\ new.job = run[r].job /\ new.processed = run[r].processed
  BY DEF Follows
<1>2. /\ run' \in [Runs -> RunState] /\ run'[r] = new
      /\ \A q \in Runs \ {r} : run'[q] = run[q]
  BY <1>1, NewState
<1>3. \A q \in Runs : RunInv(q)'
  <2> TAKE q \in Runs
  <2>1. visited[run[q].job] \subseteq visited'[run[q].job]
    BY RunRow DEF VisitedGrows
  <2> QED
    BY <1>1, <1>2, <2>1 DEF RunInv
<1>4. \A q \in Runs : run[q].processed \in Int
  BY BacktestConstants DEF TypeOK, RunState
<1>5. Steady
  BY <1>1, <1>2, <1>4 DEF Steady, VisitedGrows
<1> QED
  BY <1>2, <1>3, <1>5 DEF RunsGoOn

\* An instance forgets jobs.
EntriesGo ==
  /\ entry' \in [Processes -> [Jobs -> Runs \cup {NoRun}]]
  /\ lost' \in [Processes -> SUBSET Jobs]
  /\ \A p \in Processes, j \in Jobs : entry'[p][j] \in {entry[p][j], NoRun}

LEMMA Forgotten ==
  ASSUME TypeOK, NEW r \in Runs, Forget(r)
  PROVE  EntriesGo
BY DEF TypeOK, Forget, EntriesGo

LEMMA Remembered ==
  ASSUME TypeOK, UNCHANGED <<entry, lost>>
  PROVE  EntriesGo
BY DEF TypeOK, EntriesGo

\* A write for a claim.
Wrote(j, owner, s) == (Fenced(j, owner) /\ row' = Saved(j, s)) \/ UNCHANGED row

RowsGoOn ==
  /\ row' \in [Jobs -> Row]
  /\ \A j \in Jobs : row'[j] = row[j] \/ Written(j)

LEMMA RowsSame ==
  ASSUME TypeOK, UNCHANGED row
  PROVE  RowsGoOn
BY DEF TypeOK, RowsGoOn

LEMMA RowsWritten ==
  ASSUME TypeOK, NEW j \in Jobs, NEW r \in Runs, NEW s \in Snapshot, Wrote(j, r, s),
         s.processed <= run[r].processed
  PROVE  RowsGoOn
<1>1. CASE UNCHANGED row
  BY <1>1, RowsSame
<1>2. CASE Fenced(j, r) /\ row' = Saved(j, s)
  <2> DEFINE new == [status |-> s.status,
                     owner |-> IF s.status \in Active THEN row[j].owner ELSE NoRun,
                     live |-> s.status \in Active,
                     processed |-> s.processed]
  <2>1. /\ new \in Row /\ new.status = s.status /\ (new.live <=> s.status \in Active)
        /\ (s.status \in Active => new.owner = row[j].owner) /\ new.processed = s.processed
    <3>1. s.status \in JobStatus /\ s.processed \in 0..Dates
      BY DEF Snapshot
    <3>2. row[j].owner \in Runs \cup {NoRun}
      BY DEF TypeOK, Row
    <3>3. (s.status \in Active) \in BOOLEAN
      OBVIOUS
    <3> QED
      BY <3>1, <3>2, <3>3 DEF Row
  <2>2. row' = [row EXCEPT ![j] = new]
    BY <1>2 DEF Saved
  <2> HIDE DEF new
  <2>3. row' \in [Jobs -> Row] /\ row'[j] = new /\ \A i \in Jobs \ {j} : row'[i] = row[i]
    BY <2>1, <2>2 DEF TypeOK
  <2>4. Written(j)
    BY <1>2, <2>1, <2>3 DEF Written, Fenced
  <2> QED
    BY <2>3, <2>4 DEF RowsGoOn
<1> QED
  BY <1>1, <1>2 DEF Wrote

LEMMA FaultNat == ASSUME TypeOK, Fault PROVE faults' \in Nat
BY DEF TypeOK, Fault

\* The parts make a step.
LEMMA PartsStep ==
  ASSUME IInv, RunsGoOn, EntriesGo, RowsGoOn, faults' \in Nat,
         visited' \in [Jobs -> SUBSET (1..Dates)], UNCHANGED <<caller, resumer>>
  PROVE  Step
BY DEF IInv, Step, TypeOK, RunsGoOn, EntriesGo, RowsGoOn

----------------------------------------------------------------------------
(* The pipeline.                                                           *)

LEMMA Unchanged == ASSUME UNCHANGED visited PROVE VisitedGrows
BY DEF VisitedGrows

LEMMA RunEnds ==
  ASSUME TypeOK, \A r \in Runs : RunInv(r), NEW r \in Runs, NEW state,
         state = run[r] \/ Follows(run[r], state), run[r].pc # "idle", Over(r, state), VisitedGrows
  PROVE  RunsGoOn /\ EntriesGo
<1>1. run[r] \in RunState /\ Good(run[r])
  BY RunRow DEF RunInv
<1>2. Follows(run[r], Ended(run[r]))
  BY <1>1, EndedFollows
<1>3. Follows(run[r], Ended(state))
  <2>1. CASE state = run[r]
    BY <1>2, <2>1
  <2>2. CASE Follows(run[r], state)
    <3>1. Follows(state, Ended(state))
      BY <2>2, EndedFollows DEF Follows
    <3> QED
      BY <2>2, <3>1, FollowsTwice
  <2> QED
    BY <2>1, <2>2
<1>4. Set(r, Ended(state)) /\ Forget(r)
  BY DEF Over, Ended
<1> QED
  BY <1>3, <1>4, RunGoesOn, Forgotten

LEMMA Thrown ==
  ASSUME TypeOK, \A r \in Runs : RunInv(r), NEW r \in Runs, NEW cause,
         run[r].pc \notin {"idle", "over"}, Throw(r, cause), VisitedGrows
  PROVE  RunsGoOn /\ EntriesGo
<1> DEFINE status == IF run[r].status = "cancelling" \/ cause = "cancelled" THEN "cancelled"
                     ELSE IF cause = "timeout" THEN "timed_out" ELSE "error"
<1>1. status \in {"cancelled", "timed_out", "error"}
  OBVIOUS
<1>2. run[r] \in RunState /\ Good(run[r])
  BY RunRow DEF RunInv
<1>3. \/ Over(r, Failed(run[r], status))
      \/ Set(r, Failing(run[r], status)) /\ UNCHANGED <<entry, lost>>
  BY DEF Throw, Failed, Failing
<1> HIDE DEF status
<1>4. CASE Over(r, Failed(run[r], status))
  <2>1. Follows(run[r], Failed(run[r], status))
    BY <1>1, <1>2, FailedFollows
  <2> QED
    BY <1>4, <2>1, RunEnds
<1>5. CASE Set(r, Failing(run[r], status)) /\ UNCHANGED <<entry, lost>>
  <2>1. Follows(run[r], Failing(run[r], status))
    BY <1>1, <1>2, FailingFollows
  <2> QED
    BY <1>5, <2>1, RunGoesOn, Remembered
<1> QED
  BY <1>3, <1>4, <1>5

LEMMA Stored ==
  ASSUME TypeOK, \A r \in Runs : RunInv(r), NEW r \in Runs, NEW state,
         state = run[r] \/ Follows(run[r], state), state.pc = run[r].pc,
         run[r].pc \notin {"idle", "over"}, Save(r, state), VisitedGrows
  PROVE  RunsGoOn /\ EntriesGo
<1>1. run[r] \in RunState /\ Good(run[r])
  BY RunRow DEF RunInv
<1>2. CASE LeaseLost(r)
  <2>1. Throw(r, "lease")
    BY <1>2 DEF Save
  <2> QED
    BY <2>1, Thrown
<1>3. CASE ~LeaseLost(r)
  <2>1. Set(r, Storing(state)) /\ UNCHANGED <<entry, lost>>
    BY <1>3 DEF Save, Storing
  <2>2. Follows(state, Storing(state))
    BY <1>1, StoringFollows DEF Follows
  <2>3. Follows(run[r], Storing(state))
    BY <2>2, FollowsTwice
  <2> QED
    BY <2>1, <2>3, RunGoesOn, Remembered
<1> QED
  BY <1>2, <1>3

\* Load, NoticeAbort, Fail and Finish write nothing but the run.
LEMMA PipelineStep ==
  ASSUME IInv, NEW r \in Runs, Load(r) \/ Check(r) \/ NoticeAbort(r) \/ Fail(r) \/ Finish(r),
         UNCHANGED resumer
  PROVE  Step
<1>0. TypeOK /\ \A q \in Runs : RunInv(q)
  BY DEF IInv
<1>1. /\ UNCHANGED <<row, caller, visited>> /\ faults' \in Nat
      /\ run[r].pc \in {"load", "check", "working"}
  BY FaultNat DEF Load, Check, NoticeAbort, Fail, Finish, IInv, TypeOK
<1>2. run[r] \in RunState /\ Good(run[r]) /\ VisitedGrows
  BY <1>0, <1>1, RunRow, Unchanged DEF RunInv
<1>3. RunsGoOn /\ EntriesGo
  <2>1. CASE Load(r)
    BY <1>0, <1>1, <1>2, <2>1, Stored DEF Load
  <2>2. CASE Check(r)
    <3>1. Set(r, At(run[r], "working")) /\ UNCHANGED <<entry, lost>> /\ run[r].processed < Dates
      BY <2>2 DEF Check, At, DaysLeft
    <3>2. Follows(run[r], At(run[r], "working"))
      BY <1>1, <1>2, <3>1, AtFollows
    <3> QED
      BY <1>0, <1>2, <3>1, <3>2, RunGoesOn, Remembered
  <2>3. CASE NoticeAbort(r)
    BY <1>0, <1>1, <1>2, <2>3, Thrown DEF NoticeAbort
  <2>4. CASE Fail(r)
    BY <1>0, <1>1, <1>2, <2>4, Thrown DEF Fail
  <2>5. CASE Finish(r)
    <3>1. Save(r, Finished(run[r])) /\ run[r].pc \in {"check", "working"} /\ run[r].aborted = "no"
      BY <2>5 DEF Finish, MayFinish, Finished
    <3>2. Follows(run[r], Finished(run[r])) /\ Finished(run[r]).pc = run[r].pc
      BY <1>2, <3>1, FinishedFollows
    <3> QED
      BY <1>0, <1>1, <1>2, <3>1, <3>2, Stored
  <2> QED
    BY <2>1, <2>2, <2>3, <2>4, <2>5
<1>4. RowsGoOn /\ visited' \in [Jobs -> SUBSET (1..Dates)]
  BY <1>0, <1>1, RowsSame DEF TypeOK
<1> QED
  BY <1>1, <1>3, <1>4, PartsStep

\* A day more, which was gone through before it is counted.
Counted(st) == [st EXCEPT !.processed = @ + 1]

LEMMA CountedState ==
  ASSUME NEW st \in RunState, Good(st), st.pc = "working"
  PROVE  LET new == Storing(Counted(st))
         IN /\ new \in RunState /\ Good(new) /\ new.pc = "saving" /\ new.job = st.job
            /\ new.processed = st.processed + 1
<1> DEFINE more == st.processed + 1
           mid == [st EXCEPT !.processed = more]
           saved == [status |-> st.status, processed |-> more]
           new == [mid EXCEPT !.pc = "saving", !.saving = saved]
<1>1. st.processed \in 0..Dates /\ st.processed < Dates /\ Dates \in Nat
  BY BacktestConstants DEF RunState, Good
<1>2. more \in 0..Dates /\ st.processed <= more
  BY <1>1
<1>3. Counted(st) = mid
  BY DEF Counted
<1>4. st.saving.processed \in Int /\ st.overdue.processed \in Int
  BY BacktestConstants DEF RunState, Snapshot
<1> HIDE DEF more
<1>5. mid \in RunState
  BY <1>2 DEF RunState
<1>6. /\ mid.processed = more /\ mid.saving = st.saving /\ mid.overdue = st.overdue
      /\ mid.job = st.job /\ mid.told = st.told /\ mid.status = st.status
      /\ mid.aborted = st.aborted
  BY DEF RunState
<1>7. Storing(mid) = new
  BY <1>6 DEF Storing
<1> HIDE DEF mid
<1>8. saved \in Snapshot /\ saved.processed = more
  BY <1>2 DEF RunState, Snapshot
<1> HIDE DEF saved
<1>9. new \in RunState
  BY <1>5, <1>8 DEF RunState
<1>10. /\ new.pc = "saving" /\ new.saving = saved /\ new.overdue = mid.overdue
       /\ new.job = mid.job /\ new.processed = mid.processed /\ new.told = mid.told
       /\ new.status = mid.status /\ new.aborted = mid.aborted
  BY <1>5 DEF RunState
<1> HIDE DEF new
<1>11. st.overdue.processed <= more /\ more <= more
  BY <1>1, <1>2, <1>4 DEF Good
<1>12. Good(new)
  BY <1>6, <1>8, <1>10, <1>11 DEF Good
<1> QED
  BY <1>3, <1>6, <1>7, <1>9, <1>10, <1>12 DEF more

LEMMA DayStep ==
  ASSUME IInv, NEW r \in Runs, Day(r), UNCHANGED resumer
  PROVE  Step
<1>0. TypeOK /\ \A q \in Runs : RunInv(q)
  BY DEF IInv
<1>1. /\ UNCHANGED <<row, caller, faults>> /\ run[r].pc = "working"
      /\ visited' = [visited EXCEPT ![run[r].job] = @ \cup {run[r].processed + 1}]
      /\ Save(r, Counted(run[r]))
  BY DEF Day, FinishDay, Counted
<1>2. run[r] \in RunState /\ Good(run[r]) /\ run[r].job \in Jobs
      /\ run[r].processed \in 0..Dates /\ run[r].processed < Dates /\ Dates \in Nat
  BY <1>0, <1>1, RunRow, BacktestConstants DEF RunInv, Good
<1>3. /\ visited' \in [Jobs -> SUBSET (1..Dates)] /\ VisitedGrows
      /\ run[r].processed + 1 \in visited'[run[r].job]
  BY <1>0, <1>1, <1>2 DEF TypeOK, VisitedGrows
<1>4. RunsGoOn /\ EntriesGo
  <2>1. CASE LeaseLost(r)
    <3>1. Throw(r, "lease")
      BY <1>1, <2>1 DEF Save
    <3> QED
      BY <1>0, <1>1, <1>3, <3>1, Thrown
  <2>2. CASE ~LeaseLost(r)
    <3> DEFINE new == Storing(Counted(run[r]))
    <3>1. Set(r, new) /\ UNCHANGED <<entry, lost>>
      BY <1>1, <2>2 DEF Save, Storing
    <3>2. /\ new \in RunState /\ Good(new) /\ new.pc = "saving" /\ new.job = run[r].job
          /\ new.processed = run[r].processed + 1
      BY <1>1, <1>2, CountedState
    <3> HIDE DEF new
    <3>3. /\ run' \in [Runs -> RunState] /\ run'[r] = new
          /\ \A q \in Runs \ {r} : run'[q] = run[q]
      BY <1>0, <3>1, <3>2, NewState
    <3>4. \A q \in Runs : RunInv(q)'
      <4>1. ASSUME NEW q \in Runs \ {r}
            PROVE  RunInv(q)'
        <5>1. visited[run[q].job] \subseteq visited'[run[q].job]
          BY <1>0, <1>3, RunRow DEF VisitedGrows
        <5> QED
          BY <1>0, <3>3, <5>1 DEF RunInv
      <4>2. 1..run[r].processed \subseteq visited[run[r].job]
        BY <1>0 DEF RunInv
      <4>3. 1..(run[r].processed + 1) \subseteq visited'[run[r].job]
        BY <1>2, <1>3, <4>2 DEF VisitedGrows
      <4>4. RunInv(r)'
        BY <3>2, <3>3, <4>3 DEF RunInv
      <4> QED
        BY <4>1, <4>4
    <3>5. Steady
      <4>1. \A q \in Runs : run[q].processed \in Int
        BY <1>0, BacktestConstants DEF TypeOK, RunState
      <4>2. run[r].processed <= new.processed
        BY <1>2, <3>2
      <4> QED
        BY <1>3, <3>2, <3>3, <4>1, <4>2 DEF Steady, VisitedGrows
    <3> QED
      BY <1>0, <3>1, <3>3, <3>4, <3>5, Remembered DEF RunsGoOn
  <2> QED
    BY <2>1, <2>2
<1>5. RowsGoOn /\ faults' \in Nat
  BY <1>0, <1>1, RowsSame DEF TypeOK
<1> QED
  BY <1>1, <1>3, <1>4, <1>5, PartsStep

----------------------------------------------------------------------------
(* The other states of a run that follow one another.                      *)

Launched(st) == [st EXCEPT !.pc = "load", !.timeout = "set", !.saving = NoSnapshot]
NotLaunched(st) == [st EXCEPT !.pc = "failClaim", !.saving = NoSnapshot]
ClaimFailed(st) == [st EXCEPT !.pc = "over", !.aborted = "no"]
Continuing(st) == [st EXCEPT !.pc = "check", !.saving = NoSnapshot]
TimeoutOver(st) == [st EXCEPT !.timeout = "over", !.overdue = NoSnapshot]
Missed(st) == [st EXCEPT !.beat = "failed"]
Noticed(st) == [st EXCEPT !.beat = "none"]
Cancelling(st) == [st EXCEPT !.status = "cancelling"]
Crashed(st) ==
  [st EXCEPT !.pc = "over", !.aborted = "no", !.saving = NoSnapshot, !.timeout = "over",
             !.overdue = NoSnapshot, !.beat = "none"]

\* Nothing is claimed that was not, and nobody is told anything.
LEMMA FollowsBy ==
  ASSUME NEW st \in RunState, Good(st), st.pc # "idle", NEW new \in RunState,
         new.pc = st.pc \/ new.pc \notin {"idle", "working"},
         new.job = st.job, new.processed = st.processed, new.told = st.told,
         new.saving \in {st.saving, NoSnapshot}, new.overdue \in {st.overdue, NoSnapshot},
         new.status \in {st.status, "cancelling"},
         new.aborted = st.aborted \/ new.pc = "over", st.pc = "over" => new.pc = "over"
  PROVE  Follows(st, new)
<1>1. st.processed \in 0..Dates /\ Dates \in Nat
  BY BacktestConstants DEF RunState
<1>2. NoSnapshot.processed = 0
  BY Blanks
<1>3. Good(new)
  BY <1>1, <1>2 DEF Good
<1> QED
  BY <1>3 DEF Follows

LEMMA LaunchedFollows ==
  ASSUME NEW st \in RunState, Good(st), st.pc # "idle", st.pc # "over"
  PROVE  Follows(st, Launched(st))
<1> DEFINE new == Launched(st)
<1>1. new \in RunState
  BY Blanks DEF Launched, RunState, JobStatus, Active
<1>2. /\ new.pc = "load" /\ new.job = st.job /\ new.processed = st.processed /\ new.told = st.told
      /\ new.saving = NoSnapshot /\ new.overdue = st.overdue /\ new.status = st.status /\ new.aborted = st.aborted
  BY DEF Launched, RunState
<1> QED
  BY <1>1, <1>2, FollowsBy

LEMMA NotLaunchedFollows ==
  ASSUME NEW st \in RunState, Good(st), st.pc # "idle", st.pc # "over"
  PROVE  Follows(st, NotLaunched(st))
<1> DEFINE new == NotLaunched(st)
<1>1. new \in RunState
  BY Blanks DEF NotLaunched, RunState, JobStatus, Active
<1>2. /\ new.pc = "failClaim" /\ new.job = st.job /\ new.processed = st.processed /\ new.told = st.told
      /\ new.saving = NoSnapshot /\ new.overdue = st.overdue /\ new.status = st.status /\ new.aborted = st.aborted
  BY DEF NotLaunched, RunState
<1> QED
  BY <1>1, <1>2, FollowsBy

LEMMA ClaimFailedFollows ==
  ASSUME NEW st \in RunState, Good(st), st.pc # "idle"
  PROVE  Follows(st, ClaimFailed(st))
<1> DEFINE new == ClaimFailed(st)
<1>1. new \in RunState
  BY Blanks DEF ClaimFailed, RunState, JobStatus, Active
<1>2. /\ new.pc = "over" /\ new.job = st.job /\ new.processed = st.processed /\ new.told = st.told
      /\ new.saving = st.saving /\ new.overdue = st.overdue /\ new.status = st.status /\ new.aborted = "no"
  BY DEF ClaimFailed, RunState
<1> QED
  BY <1>1, <1>2, FollowsBy

LEMMA ContinuingFollows ==
  ASSUME NEW st \in RunState, Good(st), st.pc # "idle", st.pc # "over"
  PROVE  Follows(st, Continuing(st))
<1> DEFINE new == Continuing(st)
<1>1. new \in RunState
  BY Blanks DEF Continuing, RunState, JobStatus, Active
<1>2. /\ new.pc = "check" /\ new.job = st.job /\ new.processed = st.processed /\ new.told = st.told
      /\ new.saving = NoSnapshot /\ new.overdue = st.overdue /\ new.status = st.status /\ new.aborted = st.aborted
  BY DEF Continuing, RunState
<1> QED
  BY <1>1, <1>2, FollowsBy

LEMMA TimeoutOverFollows ==
  ASSUME NEW st \in RunState, Good(st), st.pc # "idle"
  PROVE  Follows(st, TimeoutOver(st))
<1> DEFINE new == TimeoutOver(st)
<1>1. new \in RunState
  BY Blanks DEF TimeoutOver, RunState, JobStatus, Active
<1>2. /\ new.pc = st.pc /\ new.job = st.job /\ new.processed = st.processed /\ new.told = st.told
      /\ new.saving = st.saving /\ new.overdue = NoSnapshot /\ new.status = st.status /\ new.aborted = st.aborted
  BY DEF TimeoutOver, RunState
<1> QED
  BY <1>1, <1>2, FollowsBy

LEMMA MissedFollows ==
  ASSUME NEW st \in RunState, Good(st), st.pc # "idle"
  PROVE  Follows(st, Missed(st))
<1> DEFINE new == Missed(st)
<1>1. new \in RunState
  BY Blanks DEF Missed, RunState, JobStatus, Active
<1>2. /\ new.pc = st.pc /\ new.job = st.job /\ new.processed = st.processed /\ new.told = st.told
      /\ new.saving = st.saving /\ new.overdue = st.overdue /\ new.status = st.status /\ new.aborted = st.aborted
  BY DEF Missed, RunState
<1> QED
  BY <1>1, <1>2, FollowsBy

LEMMA NoticedFollows ==
  ASSUME NEW st \in RunState, Good(st), st.pc # "idle"
  PROVE  Follows(st, Noticed(st))
<1> DEFINE new == Noticed(st)
<1>1. new \in RunState
  BY Blanks DEF Noticed, RunState, JobStatus, Active
<1>2. /\ new.pc = st.pc /\ new.job = st.job /\ new.processed = st.processed /\ new.told = st.told
      /\ new.saving = st.saving /\ new.overdue = st.overdue /\ new.status = st.status /\ new.aborted = st.aborted
  BY DEF Noticed, RunState
<1> QED
  BY <1>1, <1>2, FollowsBy

LEMMA CancellingFollows ==
  ASSUME NEW st \in RunState, Good(st), st.pc # "idle"
  PROVE  Follows(st, Cancelling(st))
<1> DEFINE new == Cancelling(st)
<1>1. new \in RunState
  BY Blanks DEF Cancelling, RunState, JobStatus, Active
<1>2. /\ new.pc = st.pc /\ new.job = st.job /\ new.processed = st.processed /\ new.told = st.told
      /\ new.saving = st.saving /\ new.overdue = st.overdue /\ new.status = "cancelling" /\ new.aborted = st.aborted
  BY DEF Cancelling, RunState
<1> QED
  BY <1>1, <1>2, FollowsBy

LEMMA CrashedFollows ==
  ASSUME NEW st \in RunState, Good(st), st.pc # "idle"
  PROVE  Follows(st, Crashed(st))
<1> DEFINE new == Crashed(st)
<1>1. new \in RunState
  BY Blanks DEF Crashed, RunState, JobStatus, Active
<1>2. /\ new.pc = "over" /\ new.job = st.job /\ new.processed = st.processed /\ new.told = st.told
      /\ new.saving = NoSnapshot /\ new.overdue = NoSnapshot /\ new.status = st.status /\ new.aborted = "no"
  BY DEF Crashed, RunState
<1> QED
  BY <1>1, <1>2, FollowsBy

LEMMA AbortedState ==
  ASSUME NEW st \in RunState, NEW reason \in {"cancelled", "timeout", "lease"}
  PROVE  LET new == AbortedBy(reason, st)
         IN /\ new \in RunState /\ new.pc = st.pc /\ new.job = st.job
            /\ new.processed = st.processed /\ new.told = st.told /\ new.saving = st.saving
            /\ new.overdue = st.overdue /\ new.status = st.status /\ new.aborted # "no"
            /\ new.timeout = st.timeout /\ new.beat = st.beat
BY DEF AbortedBy, RunState

LEMMA AbortedFollows ==
  ASSUME NEW st \in RunState, Good(st), st.pc # "idle",
         NEW reason \in {"cancelled", "timeout", "lease"}
  PROVE  Follows(st, AbortedBy(reason, st))
<1> DEFINE new == AbortedBy(reason, st)
<1>1. /\ new \in RunState /\ new.pc = st.pc /\ new.job = st.job
      /\ new.processed = st.processed /\ new.told = st.told /\ new.saving = st.saving
      /\ new.overdue = st.overdue /\ new.status = st.status /\ new.aborted # "no"
      /\ new.timeout = st.timeout /\ new.beat = st.beat
  BY AbortedState
<1> HIDE DEF new
<1> QED
  BY <1>1 DEF Follows, Good, new

\* The run whose time is over, and the one whose caller is told of it.
TimedOut(st, timeout) ==
  [AbortedBy("timeout", st) EXCEPT
     !.status = "timed_out", !.timeout = timeout,
     !.overdue = [status |-> "timed_out", processed |-> st.processed]]
Told(st, told) == [AbortedBy("cancelled", st) EXCEPT !.told = @ \/ told]

LEMMA TimedOutFollows ==
  ASSUME NEW st \in RunState, Good(st), st.pc # "idle", NEW timeout \in {"over", "sent"}
  PROVE  Follows(st, TimedOut(st, timeout))
<1> DEFINE mid == AbortedBy("timeout", st)
           late == [status |-> "timed_out", processed |-> st.processed]
           new == [mid EXCEPT !.status = "timed_out", !.timeout = timeout, !.overdue = late]
<1>1. /\ mid \in RunState /\ mid.pc = st.pc /\ mid.job = st.job
      /\ mid.processed = st.processed /\ mid.told = st.told /\ mid.saving = st.saving
      /\ mid.aborted # "no"
  BY AbortedState
<1>2. late \in Snapshot /\ late.processed = st.processed
  BY DEF RunState, Snapshot, JobStatus, Terminal
<1>3. TimedOut(st, timeout) = new
  BY DEF TimedOut
<1> HIDE DEF mid, late
<1>4. new \in RunState
  BY <1>1, <1>2 DEF RunState, JobStatus, Terminal
<1>5. /\ new.pc = mid.pc /\ new.job = mid.job /\ new.processed = mid.processed
      /\ new.told = mid.told /\ new.saving = mid.saving /\ new.overdue = late
      /\ new.status = "timed_out" /\ new.aborted = mid.aborted
  BY <1>1 DEF RunState
<1> HIDE DEF new
<1>6. st.processed \in Int
  BY BacktestConstants DEF RunState
<1>7. Good(new)
  BY <1>1, <1>2, <1>5, <1>6 DEF Good
<1> QED
  BY <1>1, <1>3, <1>4, <1>5, <1>7 DEF Follows

LEMMA ToldFollows ==
  ASSUME NEW st \in RunState, Good(st), st.pc # "idle", NEW told \in BOOLEAN,
         told => st.status = "cancelling"
  PROVE  Follows(st, Told(st, told))
<1> DEFINE mid == AbortedBy("cancelled", st)
           both == mid.told \/ told
           new == [mid EXCEPT !.told = both]
<1>1. /\ mid \in RunState /\ mid.pc = st.pc /\ mid.job = st.job
      /\ mid.processed = st.processed /\ mid.told = st.told /\ mid.saving = st.saving
      /\ mid.overdue = st.overdue /\ mid.status = st.status /\ mid.aborted # "no"
  BY AbortedState
<1>2. both \in BOOLEAN /\ (both => st.status # "done")
  BY <1>1 DEF Good, RunState
<1>3. Told(st, told) = new
  BY DEF Told
<1> HIDE DEF mid, both
<1>4. new \in RunState
  BY <1>1, <1>2 DEF RunState
<1>5. /\ new.pc = mid.pc /\ new.job = mid.job /\ new.processed = mid.processed
      /\ new.told = both /\ new.saving = mid.saving /\ new.overdue = mid.overdue
      /\ new.status = mid.status /\ new.aborted = mid.aborted
  BY <1>1 DEF RunState
<1> HIDE DEF new
<1>6. Good(new)
  <2>1. new.pc # "idle" /\ (new.pc = "working" => new.processed < Dates)
    BY <1>1, <1>5 DEF Good
  <2>2. new.saving.processed <= new.processed /\ new.overdue.processed <= new.processed
    BY <1>1, <1>5 DEF Good
  <2> QED
    BY <1>1, <1>2, <1>5, <2>1, <2>2 DEF Good
<1> QED
  BY <1>1, <1>3, <1>4, <1>5, <1>6 DEF Follows

----------------------------------------------------------------------------
(* The steps of a run that write its row, and its timers.                  *)

LEMMA Sent ==
  ASSUME TypeOK, \A q \in Runs : RunInv(q), NEW r \in Runs
  PROVE  /\ run[r].saving.processed <= run[r].processed
         /\ run[r].overdue.processed <= run[r].processed
BY DEF RunInv, Good

LEMMA LaunchStep ==
  ASSUME IInv, NEW r \in Runs, Launch(r), UNCHANGED resumer
  PROVE  Step
<1>0. TypeOK /\ \A q \in Runs : RunInv(q)
  BY DEF IInv
<1>1. /\ run[r].pc = "launch" /\ UNCHANGED <<entry, lost, caller, visited>>
      /\ Wrote(run[r].job, r, run[r].saving) /\ faults' \in Nat
      /\ Set(r, Launched(run[r])) \/ Set(r, NotLaunched(run[r]))
  BY <1>0, FaultNat DEF Launch, Persist, Wrote, Launched, NotLaunched, TypeOK
<1>2. run[r] \in RunState /\ Good(run[r]) /\ VisitedGrows
  BY <1>0, <1>1, RunRow, Unchanged DEF RunInv
<1>3. RunsGoOn
  <2>1. Follows(run[r], Launched(run[r])) /\ Follows(run[r], NotLaunched(run[r]))
    BY <1>1, <1>2, LaunchedFollows, NotLaunchedFollows
  <2> QED
    BY <1>0, <1>1, <1>2, <2>1, RunGoesOn
<1>4. RowsGoOn
  BY <1>0, <1>1, Sent, RunRow, RowsWritten
<1>5. EntriesGo /\ visited' \in [Jobs -> SUBSET (1..Dates)]
  BY <1>0, <1>1, Remembered DEF TypeOK
<1> QED
  BY <1>1, <1>3, <1>4, <1>5, PartsStep

LEMMA SaveAnsweredStep ==
  ASSUME IInv, NEW r \in Runs, SaveAnswered(r), UNCHANGED resumer
  PROVE  Step
<1>0. TypeOK /\ \A q \in Runs : RunInv(q)
  BY DEF IInv
<1>1. /\ run[r].pc = "saving" /\ UNCHANGED <<caller, visited>>
      /\ Wrote(run[r].job, r, run[r].saving) /\ faults' \in Nat
      /\ \/ Over(r, run[r])
         \/ Set(r, Continuing(run[r])) /\ UNCHANGED <<entry, lost>>
         \/ Throw(r, "lease")
  <2>1. run[r].pc = "saving" /\ UNCHANGED <<caller, visited>>
    BY DEF SaveAnswered
  <2>2. \/ Over(r, run[r])
        \/ Set(r, Continuing(run[r])) /\ UNCHANGED <<entry, lost>>
        \/ Throw(r, "lease")
    BY Zenon DEF SaveAnswered, Persist, Continuing
  <2>3. Wrote(run[r].job, r, run[r].saving) /\ (UNCHANGED faults \/ Fault)
    BY Zenon DEF SaveAnswered, Persist, Wrote
  <2> QED
    BY <1>0, <2>1, <2>2, <2>3, FaultNat DEF TypeOK
<1>2. run[r] \in RunState /\ Good(run[r]) /\ VisitedGrows
  BY <1>0, <1>1, RunRow, Unchanged DEF RunInv
<1>3. RunsGoOn /\ EntriesGo
  <2>1. CASE Over(r, run[r])
    BY <1>0, <1>1, <1>2, <2>1, RunEnds
  <2>2. CASE Set(r, Continuing(run[r])) /\ UNCHANGED <<entry, lost>>
    <3>1. Follows(run[r], Continuing(run[r]))
      BY <1>1, <1>2, ContinuingFollows
    <3> QED
      BY <1>0, <1>2, <2>2, <3>1, RunGoesOn, Remembered
  <2>3. CASE Throw(r, "lease")
    BY <1>0, <1>1, <1>2, <2>3, Thrown
  <2> QED
    BY <1>1, <2>1, <2>2, <2>3
<1>4. RowsGoOn
  BY <1>0, <1>1, Sent, RunRow, RowsWritten
<1>5. visited' \in [Jobs -> SUBSET (1..Dates)]
  BY <1>0, <1>1 DEF TypeOK
<1> QED
  BY <1>1, <1>3, <1>4, <1>5, PartsStep

LEMMA EndStep ==
  ASSUME IInv, NEW r \in Runs, End(r), UNCHANGED resumer
  PROVE  Step
<1>0. TypeOK /\ \A q \in Runs : RunInv(q)
  BY DEF IInv
<1>1. run[r].pc = "ending" /\ UNCHANGED <<caller, visited>> /\ Over(r, run[r])
  BY Zenon DEF End, Persist
<1>2. Wrote(run[r].job, r, run[r].saving) /\ (UNCHANGED faults \/ Fault)
  BY Zenon DEF End, Persist, Wrote
<1>3. RunsGoOn /\ EntriesGo
  BY <1>0, <1>1, RunEnds, Unchanged
<1>4. RowsGoOn
  BY <1>0, <1>2, Sent, RunRow, RowsWritten
<1>5. visited' \in [Jobs -> SUBSET (1..Dates)] /\ faults' \in Nat
  BY <1>0, <1>1, <1>2, FaultNat DEF TypeOK
<1> QED
  BY <1>1, <1>3, <1>4, <1>5, PartsStep

LEMMA FailClaimStep ==
  ASSUME IInv, NEW r \in Runs, FailClaim(r), UNCHANGED resumer
  PROVE  Step
<1>0. TypeOK /\ (\A q \in Runs : RunInv(q)) /\ (\A j \in Jobs : JobInv(j))
  BY DEF IInv
<1> DEFINE j == run[r].job
<1>1. /\ run[r].pc = "failClaim" /\ UNCHANGED <<lost, caller, visited>>
      /\ entry' = [entry EXCEPT ![run[r].process][j] = NoRun]
      /\ Set(r, ClaimFailed(run[r])) /\ faults' \in Nat
  BY <1>0, FaultNat DEF FailClaim, ClaimFailed, TypeOK
<1>2. run[r] \in RunState /\ Good(run[r]) /\ VisitedGrows /\ j \in Jobs
  BY <1>0, <1>1, RunRow, Unchanged DEF RunInv
<1>3. RunsGoOn
  <2>1. Follows(run[r], ClaimFailed(run[r]))
    BY <1>1, <1>2, ClaimFailedFollows
  <2> QED
    BY <1>0, <1>1, <1>2, <2>1, RunGoesOn
<1>4. EntriesGo /\ visited' \in [Jobs -> SUBSET (1..Dates)]
  BY <1>0, <1>1 DEF TypeOK, EntriesGo
<1>5. RowsGoOn
  <2>1. CASE UNCHANGED row
    BY <1>0, <2>1, RowsSame
  <2>2. CASE /\ row[j].status = "running" /\ row[j].owner = r
             /\ row' = [row EXCEPT ![j].status = "error", ![j].owner = NoRun, ![j].live = FALSE]
    <3> DEFINE old == row[j]
               new == [old EXCEPT !.status = "error", !.owner = NoRun, !.live = FALSE]
    <3>1. old \in Row
      BY <1>0, <1>2 DEF TypeOK
    <3>2. row' = [row EXCEPT ![j] = new]
      BY <2>2
    <3> HIDE DEF old
    <3>3. new \in Row /\ new.status = "error" /\ ~new.live /\ new.processed = old.processed
      BY <3>1 DEF Row, JobStatus, Terminal
    <3> HIDE DEF new
    <3>4. row' \in [Jobs -> Row] /\ row'[j] = new /\ \A i \in Jobs \ {j} : row'[i] = row[i]
      BY <1>0, <1>2, <3>2, <3>3 DEF TypeOK
    <3>5. row[j].processed <= run[row[j].owner].processed
      BY <1>0, <1>2, <2>2 DEF JobInv, Active
    <3>6. Written(j)
      BY <2>2, <3>3, <3>4, <3>5 DEF Written, Active, old
    <3> QED
      BY <3>4, <3>6 DEF RowsGoOn
  <2> QED
    BY <2>1, <2>2 DEF FailClaim
<1> QED
  BY <1>1, <1>3, <1>4, <1>5, PartsStep

LEMMA TimeoutStep ==
  ASSUME IInv, NEW r \in Runs, Timeout(r), UNCHANGED resumer
  PROVE  Step
<1>0. TypeOK /\ \A q \in Runs : RunInv(q)
  BY DEF IInv
<1>1. /\ run[r].pc \notin {"idle", "over"}
      /\ UNCHANGED <<row, entry, lost, caller, visited, faults>>
      /\ \E timeout \in {"over", "sent"} : Set(r, TimedOut(run[r], timeout))
  <2>1. /\ run[r].pc \notin {"idle", "over"}
        /\ UNCHANGED <<row, entry, lost, caller, visited, faults>>
    BY DEF Timeout, TimersSet
  <2>2. Set(r, TimedOut(run[r], IF LeaseLost(r) THEN "over" ELSE "sent"))
    BY Zenon DEF Timeout, TimedOut
  <2> QED
    BY <2>1, <2>2
<1>2. run[r] \in RunState /\ Good(run[r]) /\ VisitedGrows
  BY <1>0, <1>1, RunRow, Unchanged DEF RunInv
<1>3. RunsGoOn
  BY <1>0, <1>1, <1>2, TimedOutFollows, RunGoesOn
<1>4. RowsGoOn /\ EntriesGo /\ visited' \in [Jobs -> SUBSET (1..Dates)] /\ faults' \in Nat
  BY <1>0, <1>1, RowsSame, Remembered DEF TypeOK
<1> QED
  BY <1>1, <1>3, <1>4, PartsStep

LEMMA TimeoutSavedStep ==
  ASSUME IInv, NEW r \in Runs, TimeoutSaved(r), UNCHANGED resumer
  PROVE  Step
<1>0. TypeOK /\ \A q \in Runs : RunInv(q)
  BY DEF IInv
<1>1. /\ run[r].timeout = "sent" /\ UNCHANGED <<entry, lost, caller, visited>>
      /\ Set(r, TimeoutOver(run[r]))
  BY DEF TimeoutSaved, TimeoutOver
<1>2. Wrote(run[r].job, r, run[r].overdue) /\ (UNCHANGED faults \/ Fault)
  BY Zenon DEF TimeoutSaved, Persist, Wrote
<1>3. run[r] \in RunState /\ Good(run[r]) /\ VisitedGrows /\ run[r].pc # "idle"
  BY <1>0, <1>1, RunRow, Unchanged DEF RunInv, Good
<1>4. RunsGoOn
  BY <1>0, <1>1, <1>3, TimeoutOverFollows, RunGoesOn
<1>5. RowsGoOn
  BY <1>0, <1>2, Sent, RunRow, RowsWritten
<1>6. EntriesGo /\ visited' \in [Jobs -> SUBSET (1..Dates)] /\ faults' \in Nat
  BY <1>0, <1>1, <1>2, FaultNat, Remembered DEF TypeOK
<1> QED
  BY <1>1, <1>4, <1>5, <1>6, PartsStep

LEMMA HeartbeatStep ==
  ASSUME IInv, NEW r \in Runs, Heartbeat(r), UNCHANGED resumer
  PROVE  Step
<1>0. TypeOK /\ (\A q \in Runs : RunInv(q)) /\ (\A j \in Jobs : JobInv(j))
  BY DEF IInv
<1> DEFINE j == run[r].job
<1>1. /\ run[r].pc # "idle" /\ UNCHANGED <<entry, lost, caller, visited>>
      /\ UNCHANGED run \/ Set(r, Missed(run[r]))
      /\ UNCHANGED faults \/ Fault
      /\ \/ UNCHANGED row
         \/ /\ row[j].status \in Active /\ row[j].owner = r
            /\ row' = [row EXCEPT ![j].live = TRUE]
  BY DEF Heartbeat, Missed, TimersSet
<1>2. run[r] \in RunState /\ Good(run[r]) /\ VisitedGrows /\ j \in Jobs
  BY <1>0, <1>1, RunRow, Unchanged DEF RunInv
<1>3. RunsGoOn
  BY <1>0, <1>1, <1>2, MissedFollows, RunGoesOn, RunsSame
<1>4. RowsGoOn
  <2>1. CASE UNCHANGED row
    BY <1>0, <2>1, RowsSame
  <2>2. CASE /\ row[j].status \in Active /\ row[j].owner = r
             /\ row' = [row EXCEPT ![j].live = TRUE]
    <3> DEFINE old == row[j]
               new == [old EXCEPT !.live = TRUE]
    <3>1. old \in Row
      BY <1>0, <1>2 DEF TypeOK
    <3>2. row' = [row EXCEPT ![j] = new]
      BY <2>2
    <3> HIDE DEF old
    <3>3. new \in Row /\ new.status = old.status /\ new.owner = old.owner
          /\ new.processed = old.processed
      BY <3>1 DEF Row
    <3> HIDE DEF new
    <3>4. row' \in [Jobs -> Row] /\ row'[j] = new /\ \A i \in Jobs \ {j} : row'[i] = row[i]
      BY <1>0, <1>2, <3>2, <3>3 DEF TypeOK
    <3>5. row[j].processed <= run[row[j].owner].processed
      BY <1>0, <1>2, <2>2 DEF JobInv
    <3>6. Written(j)
      BY <2>2, <3>3, <3>4, <3>5 DEF Written, old
    <3> QED
      BY <3>4, <3>6 DEF RowsGoOn
  <2> QED
    BY <1>1, <2>1, <2>2
<1>5. EntriesGo /\ visited' \in [Jobs -> SUBSET (1..Dates)] /\ faults' \in Nat
  BY <1>0, <1>1, FaultNat, Remembered DEF TypeOK
<1> QED
  BY <1>1, <1>3, <1>4, <1>5, PartsStep

LEMMA HeartbeatFailedStep ==
  ASSUME IInv, NEW r \in Runs, HeartbeatFailed(r), UNCHANGED resumer
  PROVE  Step
<1>0. TypeOK /\ \A q \in Runs : RunInv(q)
  BY DEF IInv
<1>1. /\ run[r].beat = "failed" /\ UNCHANGED <<row, entry, caller, visited, faults>>
      /\ Set(r, AbortedBy("lease", Noticed(run[r])))
      /\ lost' = [lost EXCEPT ![run[r].process] = @ \cup {run[r].job}]
  BY DEF HeartbeatFailed, Noticed
<1>2. run[r] \in RunState /\ Good(run[r]) /\ VisitedGrows /\ run[r].pc # "idle"
      /\ run[r].job \in Jobs
  BY <1>0, <1>1, RunRow, Unchanged DEF RunInv, Good
<1>3. RunsGoOn
  <2>1. Follows(run[r], Noticed(run[r]))
    BY <1>2, NoticedFollows
  <2>2. Follows(Noticed(run[r]), AbortedBy("lease", Noticed(run[r])))
    BY <2>1, AbortedFollows DEF Follows
  <2>3. Follows(run[r], AbortedBy("lease", Noticed(run[r])))
    BY <2>1, <2>2, FollowsTwice
  <2> QED
    BY <1>0, <1>1, <1>2, <2>3, RunGoesOn
<1>4. EntriesGo
  BY <1>0, <1>1, <1>2 DEF TypeOK, EntriesGo
<1>5. RowsGoOn /\ visited' \in [Jobs -> SUBSET (1..Dates)] /\ faults' \in Nat
  BY <1>0, <1>1, RowsSame DEF TypeOK
<1> QED
  BY <1>1, <1>3, <1>4, <1>5, PartsStep

----------------------------------------------------------------------------
(* Requests, time and crashes.                                             *)

LEMMA RequestStep ==
  ASSUME IInv, RunsGoOn, EntriesGo, RowsGoOn, faults' \in Nat, UNCHANGED <<visited, resumer>>,
         caller' \in [Callers -> CallerState],
         \A c \in Callers : caller'[c] = caller[c] \/ CallerInv(c)'
  PROVE  Step
BY DEF IInv, Step, TypeOK, RunsGoOn, EntriesGo, RowsGoOn

LEMMA Asked ==
  ASSUME TypeOK, NEW c \in Callers, NEW new \in CallerState, Ask(c, new)
  PROVE  /\ caller' \in [Callers -> CallerState] /\ caller'[c] = new
         /\ \A d \in Callers \ {c} : caller'[d] = caller[d]
BY DEF TypeOK, Ask

RequestOver == [IdleCaller EXCEPT !.pc = "over"]

LEMMA RequestOverState ==
  RequestOver \in CallerState /\ RequestOver.pc = "over"
BY Blanks DEF RequestOver, CallerState

LEMMA AnsweredCaller ==
  ASSUME TypeOK, NEW c \in Callers, Ask(c, RequestOver)
  PROVE  /\ caller' \in [Callers -> CallerState]
         /\ \A d \in Callers : caller'[d] = caller[d] \/ CallerInv(d)'
BY RequestOverState, Asked DEF CallerInv

LEMMA CancelStep ==
  ASSUME IInv, NEW c \in Callers, Cancel(c), UNCHANGED resumer
  PROVE  Step
<1>0. TypeOK /\ \A q \in Runs : RunInv(q)
  BY DEF IInv
<1>1. UNCHANGED <<row, entry, lost, visited, faults>>
  BY DEF Cancel
<1>2. PICK p \in Processes, j \in Jobs :
        LET r == entry[p][j]
        IN /\ r # NoRun
           /\ Set(r, Cancelling(run[r]))
           /\ \/ Ask(c, RequestOver)
              \/ Ask(c, [pc |-> "cancel", process |-> p, job |-> j, run |-> r,
                         saving |-> [status |-> "cancelling", processed |-> run[r].processed]])
  BY Zenon DEF Cancel, Cancelling, RequestOver
<1>3. PICK r \in Runs : entry[p][j] = r /\ Claimed(r, j)
  BY <1>0, <1>2 DEF IInv, EntryInv, Claimed
<1> DEFINE saved == [status |-> "cancelling", processed |-> run[r].processed]
           new == [pc |-> "cancel", process |-> p, job |-> j, run |-> r, saving |-> saved]
<1>4. Set(r, Cancelling(run[r])) /\ (Ask(c, RequestOver) \/ Ask(c, new))
  BY <1>2, <1>3
<1>5. run[r] \in RunState /\ Good(run[r]) /\ VisitedGrows /\ run[r].pc # "idle"
  BY <1>0, <1>1, <1>3, RunRow, Unchanged DEF RunInv, Claimed
<1>6. Follows(run[r], Cancelling(run[r]))
  BY <1>5, CancellingFollows
<1>7. RunsGoOn
  BY <1>0, <1>4, <1>5, <1>6, RunGoesOn
<1>8. /\ caller' \in [Callers -> CallerState]
      /\ \A d \in Callers : caller'[d] = caller[d] \/ CallerInv(d)'
  <2>1. CASE Ask(c, RequestOver)
    BY <1>0, <2>1, AnsweredCaller
  <2>2. CASE Ask(c, new)
    <3>1. saved \in Snapshot /\ saved.processed = run[r].processed
      BY <1>0, RunRow DEF Snapshot, JobStatus, Active
    <3> HIDE DEF saved
    <3>2. new \in CallerState /\ new.job = j /\ new.run = r /\ new.saving = saved
          /\ new.process = p
      BY <3>1 DEF CallerState
    <3> HIDE DEF new
    <3>3. /\ caller' \in [Callers -> CallerState] /\ caller'[c] = new
          /\ \A d \in Callers \ {c} : caller'[d] = caller[d]
      BY <1>0, <2>2, <3>2, Asked
    <3>4. Claimed(r, j)' /\ run[r].processed <= run'[r].processed
      BY <1>3, <1>7, ClaimedStays DEF RunsGoOn
    <3>5. CallerInv(c)'
      BY <3>1, <3>2, <3>3, <3>4 DEF CallerInv, Claimed
    <3> QED
      BY <3>3, <3>5
  <2> QED
    BY <1>4, <2>1, <2>2
<1>9. RowsGoOn /\ EntriesGo /\ faults' \in Nat
  BY <1>0, <1>1, RowsSame, Remembered DEF TypeOK
<1> QED
  BY <1>1, <1>7, <1>8, <1>9, RequestStep

LEMMA CancelSavedStep ==
  ASSUME IInv, NEW c \in Callers, CancelSaved(c), UNCHANGED resumer
  PROVE  Step
<1>0. TypeOK /\ (\A q \in Runs : RunInv(q)) /\ CallerInv(c)
  BY DEF IInv
<1>1. PICK r, j, p, s : /\ caller[c].run = r /\ caller[c].job = j
                        /\ caller[c].process = p /\ caller[c].saving = s
  OBVIOUS
<1>2. /\ r \in Runs /\ s.processed <= run[r].processed
      /\ j \in Jobs /\ s \in Snapshot /\ p \in Processes \cup {NoProcess}
  <2>1. r \in Runs /\ s.processed <= run[r].processed
    BY <1>0, <1>1 DEF CancelSaved, CallerInv, Claimed
  <2>2. j \in Jobs /\ s \in Snapshot /\ p \in Processes \cup {NoProcess}
    BY <1>0, <1>1 DEF TypeOK, CallerState
  <2> QED
    BY <2>1, <2>2
<1> DEFINE registered == entry[caller[c].process][caller[c].job]
           more == registered = r /\ run[r].status = "cancelling"
<1>3. /\ UNCHANGED <<entry, lost, visited>> /\ Ask(c, RequestOver)
      /\ \/ UNCHANGED run
         \/ registered # NoRun /\ Set(registered, Told(run[registered], more))
  BY <1>1, Zenon DEF CancelSaved, Persist, RequestOver, Told
<1>4. Wrote(j, r, s) /\ (UNCHANGED faults \/ Fault)
  BY <1>1, Zenon DEF CancelSaved, Persist, Wrote
<1>5. RunsGoOn
  <2>1. CASE UNCHANGED run
    BY <1>0, <1>3, <2>1, RunsSame
  <2>2. CASE registered # NoRun /\ Set(registered, Told(run[registered], more))
    <3>1. p \in Processes
      BY <1>0, <1>1 DEF CancelSaved, IInv, CallerInv
    <3>2. PICK q \in Runs : registered = q /\ Claimed(q, j)
      BY <1>0, <1>1, <1>2, <2>2, <3>1 DEF IInv, EntryInv, Claimed
    <3>3. run[q] \in RunState /\ Good(run[q]) /\ run[q].pc # "idle" /\ more \in BOOLEAN
      BY <1>0, <3>2, RunRow DEF RunInv, Claimed
    <3>4. more => run[q].status = "cancelling"
      BY <3>2
    <3> HIDE DEF more
    <3>5. Follows(run[q], Told(run[q], more))
      BY <3>3, <3>4, ToldFollows
    <3>6. Set(q, Told(run[q], more))
      BY <2>2, <3>2
    <3> QED
      BY <1>0, <1>3, <3>5, <3>6, RunGoesOn, Unchanged
  <2> QED
    BY <1>3, <2>1, <2>2
<1>6. RowsGoOn
  BY <1>0, <1>2, <1>4, RowsWritten
<1>7. EntriesGo /\ faults' \in Nat
  BY <1>0, <1>3, <1>4, FaultNat, Remembered DEF TypeOK
<1> QED
  BY <1>0, <1>3, <1>5, <1>6, <1>7, AnsweredCaller, RequestStep

LEMMA FindInterruptedStep ==
  ASSUME IInv, NEW c \in Callers, FindInterrupted(c), UNCHANGED resumer
  PROVE  Step
<1>0. TypeOK /\ \A q \in Runs : RunInv(q)
  BY DEF IInv
<1>1. UNCHANGED <<row, run, entry, lost, visited, faults>>
  BY DEF FindInterrupted
<1>2. PICK j \in Jobs :
        /\ row[j].status \in Active
        /\ Ask(c, [IdleCaller EXCEPT !.pc = "mark", !.job = j, !.run = row[j].owner,
                   !.saving = [status |-> "error", processed |-> row[j].processed]])
  BY DEF FindInterrupted
<1>3. PICK r \in Runs : /\ row[j].owner = r /\ Claimed(r, j)
                        /\ row[j].processed <= run[r].processed
  BY <1>2 DEF IInv, JobInv, Claimed
<1> DEFINE saved == [status |-> "error", processed |-> row[j].processed]
           new == [IdleCaller EXCEPT !.pc = "mark", !.job = j, !.run = r, !.saving = saved]
<1>4. saved \in Snapshot /\ saved.processed = row[j].processed
  BY <1>0 DEF TypeOK, Row, Snapshot, JobStatus, Terminal
<1>5. Ask(c, new)
  BY <1>2, <1>3
<1> HIDE DEF saved
<1>6. new \in CallerState /\ new.job = j /\ new.run = r /\ new.saving = saved /\ new.pc = "mark"
  BY <1>4, Blanks DEF CallerState
<1> HIDE DEF new
<1>7. /\ caller' \in [Callers -> CallerState] /\ caller'[c] = new
      /\ \A d \in Callers \ {c} : caller'[d] = caller[d]
  BY <1>0, <1>5, <1>6, Asked
<1>8. CallerInv(c)'
  BY <1>1, <1>3, <1>4, <1>6, <1>7 DEF CallerInv, Claimed
<1>9. RunsGoOn /\ RowsGoOn /\ EntriesGo /\ faults' \in Nat
  BY <1>0, <1>1, RunsSame, RowsSame, Remembered DEF TypeOK
<1> QED
  BY <1>1, <1>7, <1>8, <1>9, RequestStep

LEMMA MarkInterruptedStep ==
  ASSUME IInv, NEW c \in Callers, MarkInterrupted(c), UNCHANGED resumer
  PROVE  Step
<1>0. TypeOK /\ (\A q \in Runs : RunInv(q)) /\ CallerInv(c)
  BY DEF IInv
<1>1. UNCHANGED <<run, entry, lost, visited>> /\ Ask(c, RequestOver)
  BY DEF MarkInterrupted, RequestOver
<1>2. /\ Wrote(caller[c].job, caller[c].run, caller[c].saving)
      /\ UNCHANGED faults \/ Fault
  BY Zenon DEF MarkInterrupted, Persist, Wrote
<1>3. /\ caller[c].run \in Runs /\ caller[c].saving.processed <= run[caller[c].run].processed
      /\ caller[c].job \in Jobs /\ caller[c].saving \in Snapshot
  <2>1. caller[c].run \in Runs /\ caller[c].saving.processed <= run[caller[c].run].processed
    BY <1>0 DEF MarkInterrupted, CallerInv, Claimed
  <2>2. caller[c].job \in Jobs /\ caller[c].saving \in Snapshot
    BY <1>0 DEF TypeOK, CallerState
  <2> QED
    BY <2>1, <2>2
<1>4. RowsGoOn
  BY <1>0, <1>2, <1>3, RowsWritten
<1>5. RunsGoOn /\ EntriesGo /\ faults' \in Nat
  BY <1>0, <1>1, <1>2, FaultNat, RunsSame, Remembered DEF TypeOK
<1> QED
  BY <1>0, <1>1, <1>4, <1>5, AnsweredCaller, RequestStep

LEMMA RowTimeStep ==
  ASSUME IInv, NEW j \in Jobs, Reconcile(j) \/ LeaseRunsOut(j), UNCHANGED resumer
  PROVE  Step
<1>0. TypeOK /\ (\A q \in Runs : RunInv(q)) /\ JobInv(j)
  BY DEF IInv
<1>1. UNCHANGED <<run, entry, lost, caller, visited>> /\ (UNCHANGED faults \/ Fault)
  BY DEF Reconcile, LeaseRunsOut
<1>2. row[j].status \in Active /\ row[j].processed <= run[row[j].owner].processed
  BY <1>0 DEF Reconcile, LeaseRunsOut, Expired, JobInv
<1> DEFINE old == row[j]
<1>3. old \in Row
  BY <1>0 DEF TypeOK
<1>4. PICK new :
        /\ new \in Row /\ (new.live => new.status \in Active)
        /\ (new.status \in Active => new.owner = old.owner) /\ new.processed = old.processed
        /\ row' = [row EXCEPT ![j] = new]
  <2>1. CASE Reconcile(j)
    <3> DEFINE next == [old EXCEPT !.status = "error", !.owner = NoRun]
    <3>1. row' = [row EXCEPT ![j] = next] /\ ~old.live
      BY <2>1 DEF Reconcile, Expired
    <3> HIDE DEF old
    <3>2. next \in Row /\ next.status = "error" /\ ~next.live /\ next.processed = old.processed
      BY <1>3, <3>1 DEF Row, JobStatus, Terminal
    <3> HIDE DEF next
    <3> QED
      BY <3>1, <3>2 DEF Active
  <2>2. CASE LeaseRunsOut(j)
    <3> DEFINE next == [old EXCEPT !.live = FALSE]
    <3>1. row' = [row EXCEPT ![j] = next]
      BY <2>2 DEF LeaseRunsOut
    <3> HIDE DEF old
    <3>2. next \in Row /\ next.owner = old.owner /\ ~next.live /\ next.processed = old.processed
      BY <1>3 DEF Row
    <3> HIDE DEF next
    <3> QED
      BY <3>1, <3>2
  <2> QED
    BY <2>1, <2>2
<1>5. row' \in [Jobs -> Row] /\ row'[j] = new /\ \A i \in Jobs \ {j} : row'[i] = row[i]
  BY <1>0, <1>4 DEF TypeOK
<1>6. Written(j)
  BY <1>2, <1>4, <1>5 DEF Written
<1>7. RowsGoOn
  BY <1>5, <1>6 DEF RowsGoOn
<1>8. RunsGoOn /\ EntriesGo /\ faults' \in Nat /\ visited' \in [Jobs -> SUBSET (1..Dates)]
  BY <1>0, <1>1, FaultNat, RunsSame, Remembered DEF TypeOK
<1> QED
  BY <1>1, <1>7, <1>8, PartsStep

LEMMA CrashStep ==
  ASSUME IInv, NEW p \in Processes, Crash(p), UNCHANGED resumer
  PROVE  Step
<1>0. TypeOK /\ \A q \in Runs : RunInv(q)
  BY DEF IInv
<1>1. /\ run' = [r \in Runs |-> IF run[r].process = p /\ run[r].pc # "idle"
                               THEN Crashed(run[r]) ELSE run[r]]
      /\ entry' = [entry EXCEPT ![p] = [j \in Jobs |-> NoRun]]
      /\ lost' = [lost EXCEPT ![p] = {}]
      /\ caller' = [c \in Callers |-> IF caller[c].pc = "cancel" /\ caller[c].process = p
                                      THEN RequestOver ELSE caller[c]]
      /\ UNCHANGED <<row, visited>> /\ Fault
  BY DEF Crash, Crashed, RequestOver
<1>2. \A r \in Runs : run'[r] = run[r] \/ Follows(run[r], run'[r])
  <2> TAKE r \in Runs
  <2>1. run[r] \in RunState /\ Good(run[r])
    BY <1>0, RunRow DEF RunInv
  <2>2. run[r].pc # "idle" => Follows(run[r], Crashed(run[r]))
    BY <2>1, CrashedFollows
  <2> QED
    BY <1>1, <2>2
<1>3. run' \in [Runs -> RunState]
  BY <1>0, <1>1, <1>2, RunRow DEF Follows
<1>4. \A r \in Runs : RunInv(r)'
  BY <1>0, <1>1, <1>2 DEF RunInv, Follows
<1>5. Steady
  <2>1. \A r \in Runs : run[r].processed \in Int
    BY <1>0, BacktestConstants DEF TypeOK, RunState
  <2> QED
    BY <1>1, <1>2, <2>1 DEF Steady, Follows
<1>6. EntriesGo
  BY <1>0, <1>1 DEF EntriesGo, TypeOK
<1>7. /\ caller' \in [Callers -> CallerState]
      /\ \A c \in Callers : caller'[c] = caller[c] \/ CallerInv(c)'
  BY <1>0, <1>1, RequestOverState DEF TypeOK, CallerInv
<1>8. RowsGoOn /\ faults' \in Nat
  BY <1>0, <1>1, RowsSame, FaultNat
<1> QED
  BY <1>1, <1>3, <1>4, <1>5, <1>6, <1>7, <1>8, RequestStep DEF RunsGoOn

----------------------------------------------------------------------------
(* Claims.                                                                 *)

LEMMA AddedJob ==
  ASSUME NEW S \in SUBSET Jobs, NEW T \in SUBSET Jobs, NEW j \in Jobs, T \subseteq S \cup {j},
         ~(Cardinality(S) >= MaxConcurrent)
  PROVE  Cardinality(T) <= MaxConcurrent
<1>1. IsFiniteSet(S) /\ Cardinality(S) \in Nat /\ Cardinality(T) \in Nat
  BY JobSets
<1>2. IsFiniteSet(S \cup {j})
  BY <1>1, FS_AddElement
<1>3. Cardinality(S \cup {j}) = IF j \in S THEN Cardinality(S) ELSE Cardinality(S) + 1
  BY <1>1, FS_AddElement
<1>4. T \in SUBSET (S \cup {j})
  OBVIOUS
<1>5. Cardinality(T) <= Cardinality(S \cup {j})
  BY <1>2, <1>4, FS_Subset
<1>6. CASE j \in S
  BY <1>1, <1>3, <1>5, <1>6, BacktestConstants
<1>7. CASE j \notin S
  BY <1>1, <1>3, <1>5, <1>7, BacktestConstants
<1> QED
  BY <1>6, <1>7

\* The run of a claim, and of one whose answer was lost.
Starting(st, j, p, n) ==
  [st EXCEPT !.pc = "launch", !.job = j, !.process = p, !.status = "running", !.processed = n,
             !.saving = [status |-> "running", processed |-> n]]
NeverStarting(st, j, p, n) == [st EXCEPT !.pc = "over", !.job = j, !.process = p, !.processed = n]

LEMMA ClaimStates ==
  ASSUME NEW st \in RunState, Good(st), st.pc = "idle", NEW j \in Jobs, NEW p \in Processes,
         NEW n \in 0..Dates,
         NEW new \in {Starting(st, j, p, n), NeverStarting(st, j, p, n)}
  PROVE  /\ new \in RunState /\ Good(new) /\ new.pc # "idle" /\ new.job = j /\ new.processed = n
<1>1. n \in Int /\ 0 <= n /\ Dates \in Nat
  BY BacktestConstants
<1>2. st.processed = 0 /\ ~st.told /\ st.saving.processed \in Int /\ st.overdue.processed \in Int
      /\ st.saving.processed <= 0 /\ st.overdue.processed <= 0
  BY BacktestConstants DEF Good, RunState, Snapshot
<1>3. st.saving.processed <= n /\ st.overdue.processed <= n
  BY <1>1, <1>2
<1>4. CASE new = Starting(st, j, p, n)
  <2> DEFINE first == [status |-> "running", processed |-> n]
             next == [st EXCEPT !.pc = "launch", !.job = j, !.process = p, !.status = "running",
                                !.processed = n, !.saving = first]
  <2>1. first \in Snapshot /\ first.processed = n
    BY DEF Snapshot, JobStatus, Active
  <2>2. new = next
    BY <1>4 DEF Starting
  <2> HIDE DEF first
  <2>3. next \in RunState
    BY <2>1 DEF RunState, JobStatus, Active
  <2>4. /\ next.pc = "launch" /\ next.job = j /\ next.processed = n /\ next.saving = first
        /\ next.overdue = st.overdue /\ next.told = st.told
    BY DEF RunState
  <2> HIDE DEF next
  <2>5. Good(next)
    BY <1>1, <1>2, <1>3, <2>1, <2>4 DEF Good
  <2> QED
    BY <2>2, <2>3, <2>4, <2>5
<1>5. CASE new = NeverStarting(st, j, p, n)
  <2> DEFINE next == [st EXCEPT !.pc = "over", !.job = j, !.process = p, !.processed = n]
  <2>1. new = next
    BY <1>5 DEF NeverStarting
  <2>2. next \in RunState
    BY DEF RunState
  <2>3. /\ next.pc = "over" /\ next.job = j /\ next.processed = n /\ next.saving = st.saving
        /\ next.overdue = st.overdue /\ next.told = st.told
    BY DEF RunState
  <2> HIDE DEF next
  <2>4. Good(next)
    BY <1>2, <1>3, <2>3 DEF Good
  <2> QED
    BY <2>1, <2>2, <2>3, <2>4
<1> QED
  BY <1>4, <1>5

LEMMA ClaimKeeps ==
  ASSUME IInv, NEW r \in Runs, run[r].pc = "idle", NEW j \in Jobs, NEW p \in Processes,
         NEW n \in 0..Dates, 1..n \subseteq visited[j], ClaimSlot(r, j, p, n),
         resumer' \in [Resumers -> ResumerState],
         \A x \in Resumers : resumer'[x] = resumer[x] \/ ResumerInv(x)'
  PROVE  IInv'
<1>0. TypeOK /\ \A q \in Runs : RunInv(q)
  BY DEF IInv
<1> DEFINE held == [status |-> "running", owner |-> r, live |-> TRUE, processed |-> n]
<1>1. /\ row' = [row EXCEPT ![j] = held] /\ UNCHANGED <<caller, visited>>
      /\ ActiveOthers(j) < MaxConcurrent
  BY DEF ClaimSlot
<1>2. PICK new \in {Starting(run[r], j, p, n), NeverStarting(run[r], j, p, n)} : Set(r, new)
  BY Zenon DEF ClaimSlot, Starting, NeverStarting
<1>3. /\ new \in RunState /\ Good(new) /\ new.pc # "idle" /\ new.job = j /\ new.processed = n
  BY <1>0, <1>2, RunRow, ClaimStates DEF RunInv
<1>4. /\ run' \in [Runs -> RunState] /\ run'[r] = new
      /\ \A q \in Runs \ {r} : run'[q] = run[q]
  BY <1>0, <1>2, <1>3, NewState
<1>5. /\ held \in Row /\ held.status = "running" /\ held.owner = r /\ held.processed = n
  BY DEF Row, JobStatus, Active
<1> HIDE DEF held
<1>6. row' \in [Jobs -> Row] /\ row'[j] = held /\ \A i \in Jobs \ {j} : row'[i] = row[i]
  BY <1>0, <1>1, <1>5 DEF TypeOK
<1>7. /\ entry' \in [Processes -> [Jobs -> Runs \cup {NoRun}]]
      /\ lost' \in [Processes -> SUBSET Jobs]
      /\ \A q \in Processes, i \in Jobs :
           entry'[q][i] = entry[q][i] \/ (i = j /\ entry'[q][i] = r)
  <2>1. \/ entry' = [entry EXCEPT ![p][j] = r] /\ lost' = [lost EXCEPT ![p] = @ \ {j}]
        \/ UNCHANGED <<entry, lost>>
    BY DEF ClaimSlot
  <2>2. CASE entry' = [entry EXCEPT ![p][j] = r] /\ lost' = [lost EXCEPT ![p] = @ \ {j}]
    <3>1. entry[p] \in [Jobs -> Runs \cup {NoRun}] /\ lost[p] \subseteq Jobs
      BY <1>0 DEF TypeOK
    <3> DEFINE known == [entry[p] EXCEPT ![j] = r]
    <3>2. /\ known \in [Jobs -> Runs \cup {NoRun}] /\ known[j] = r
          /\ \A i \in Jobs \ {j} : known[i] = entry[p][i]
      BY <3>1
    <3>3. entry' = [entry EXCEPT ![p] = known]
      BY <2>2
    <3> HIDE DEF known
    <3>4. entry' \in [Processes -> [Jobs -> Runs \cup {NoRun}]] /\ entry'[p] = known
          /\ \A q \in Processes \ {p} : entry'[q] = entry[q]
      BY <1>0, <3>2, <3>3 DEF TypeOK
    <3>5. lost' \in [Processes -> SUBSET Jobs]
      BY <1>0, <2>2 DEF TypeOK
    <3> QED
      BY <3>2, <3>4, <3>5
  <2>3. CASE UNCHANGED <<entry, lost>>
    BY <1>0, <2>3 DEF TypeOK
  <2> QED
    BY <2>1, <2>2, <2>3
<1>8. faults' \in Nat
  BY <1>0, FaultNat DEF ClaimSlot, TypeOK
<1>9. TypeOK'
  BY <1>0, <1>1, <1>4, <1>6, <1>7, <1>8 DEF TypeOK
<1>10. Steady
  <2>1. \A q \in Runs : run[q].processed \in Int
    BY <1>0, BacktestConstants DEF TypeOK, RunState
  <2> QED
    BY <1>1, <1>4, <2>1 DEF Steady
<1>11. \A q \in Runs : RunInv(q)'
  BY <1>0, <1>1, <1>3, <1>4 DEF RunInv
<1>12. Claimed(r, j)'
  BY <1>3, <1>4 DEF Claimed
<1>13. \A i \in Jobs : JobInv(i)'
  <2>1. ASSUME NEW i \in Jobs \ {j}
        PROVE  JobInv(i)'
    BY <1>0, <1>6, <1>9, <1>10, RowStays DEF IInv
  <2>2. n <= n
    BY BacktestConstants
  <2>3. JobInv(j)'
    BY <1>1, <1>3, <1>4, <1>5, <1>6, <1>12, <2>2 DEF JobInv, Active
  <2> QED
    BY <2>1, <2>3
<1>14. SlotsBounded'
  <2> DEFINE S == {i \in Jobs \ {j} : row[i].status \in Active}
             T == {i \in Jobs : row'[i].status \in Active}
  <2>1. S \in SUBSET Jobs /\ T \in SUBSET Jobs /\ T \subseteq S \cup {j}
    BY <1>6
  <2>2. Cardinality(S) < MaxConcurrent
    BY <1>1 DEF ActiveOthers
  <2> HIDE DEF S, T
  <2>3. ~(Cardinality(S) >= MaxConcurrent)
    BY <2>1, <2>2, JobSets, BacktestConstants
  <2>4. Cardinality(T) <= MaxConcurrent
    BY <2>1, <2>3, AddedJob
  <2> QED
    BY <2>4 DEF SlotsBounded, T
<1>15. \A q \in Processes, i \in Jobs : EntryInv(q, i)'
  <2> TAKE q \in Processes, i \in Jobs
  <2>1. CASE entry'[q][i] = entry[q][i]
    BY <1>10, <2>1, EntriesStay DEF IInv
  <2>2. CASE i = j /\ entry'[q][i] = r
    BY <1>12, <2>2 DEF EntryInv, Claimed
  <2> QED
    BY <1>7, <2>1, <2>2
<1>16. \A c \in Callers : CallerInv(c)'
  BY <1>0, <1>1, <1>9, <1>10, CallersStay DEF IInv
<1>17. \A x \in Resumers : ResumerInv(x)'
  BY <1>0, <1>10, ResumersStay DEF IInv
<1> QED
  BY <1>9, <1>11, <1>13, <1>14, <1>15, <1>16, <1>17 DEF IInv

\* Some idle run, and some job that was not used yet.
LEMMA Unused ==
  /\ ClaimsLeft => NewRun \in Runs /\ run[NewRun].pc = "idle"
  /\ (\E j \in Jobs : row[j].status = "absent") => NewJob \in Jobs
BY DEF ClaimsLeft, NewRun, NewJob

LEMMA StartStep ==
  ASSUME IInv, Start
  PROVE  IInv'
<1>1. PICK r \in Runs, j \in Jobs, p \in Processes : run[r].pc = "idle" /\ ClaimSlot(r, j, p, 0)
  BY Unused DEF Start
<1>2. 1..0 \subseteq visited[j] /\ 0 \in 0..Dates
  BY Blanks
<1>3. resumer' \in [Resumers -> ResumerState] /\ UNCHANGED resumer
  BY DEF Start, IInv, TypeOK
<1> QED
  BY <1>1, <1>2, <1>3, ClaimKeeps

LEMMA ResumerDone ==
  ASSUME TypeOK, NEW x \in Resumers, resumer' = [resumer EXCEPT ![x] = IdleResumer]
  PROVE  /\ resumer' \in [Resumers -> ResumerState]
         /\ \A y \in Resumers : resumer'[y] = resumer[y] \/ ResumerInv(y)'
<1>1. /\ resumer' \in [Resumers -> ResumerState] /\ resumer'[x] = IdleResumer
      /\ \A y \in Resumers \ {x} : resumer'[y] = resumer[y]
  BY Blanks DEF TypeOK
<1> QED
  BY <1>1, Blanks DEF ResumerInv

LEMMA ResumeStep ==
  ASSUME IInv, NEW x \in Resumers, Resume(x)
  PROVE  IInv'
<1>1. TypeOK /\ ResumerInv(x) /\ resumer[x] \in ResumerState
  BY DEF IInv, TypeOK
<1>2. PICK r \in Runs, p \in Processes :
        run[r].pc = "idle" /\ ClaimSlot(r, resumer[x].job, p, resumer[x].processed)
  BY Unused DEF Resume
<1>3. resumer[x].job \in Jobs /\ resumer[x].processed \in 0..Dates
      /\ 1..resumer[x].processed \subseteq visited[resumer[x].job]
  BY <1>1 DEF ResumerState, ResumerInv, Resume
<1>4. PICK j \in Jobs, n \in 0..Dates : resumer[x].job = j /\ resumer[x].processed = n
  BY <1>3
<1>5. 1..n \subseteq visited[j] /\ ClaimSlot(r, j, p, n)
  BY <1>2, <1>3, <1>4
<1>6. /\ resumer' \in [Resumers -> ResumerState]
      /\ \A y \in Resumers : resumer'[y] = resumer[y] \/ ResumerInv(y)'
  BY <1>1, ResumerDone DEF Resume
<1> QED
  BY <1>2, <1>5, <1>6, ClaimKeeps

LEMMA ReadStep ==
  ASSUME IInv, NEW x \in Resumers, ReadForResume(x) \/ ResumeRefused(x)
  PROVE  Step
<1>0. TypeOK /\ \A q \in Runs : RunInv(q)
  BY DEF IInv
<1>1. UNCHANGED <<row, run, entry, lost, caller, visited, faults>>
  BY DEF ReadForResume, ResumeRefused
<1>2. /\ resumer' \in [Resumers -> ResumerState]
      /\ \A y \in Resumers : resumer'[y] = resumer[y] \/ ResumerInv(y)'
  <2>1. CASE ReadForResume(x)
    <3>1. PICK j \in Jobs :
            resumer' = [resumer EXCEPT ![x] = [reading |-> TRUE, job |-> j,
                                               processed |-> row[j].processed]]
      BY <2>1 DEF ReadForResume
    <3> DEFINE new == [reading |-> TRUE, job |-> j, processed |-> row[j].processed]
    <3>2. new \in ResumerState /\ new.job = j /\ new.processed = row[j].processed
      BY <1>0 DEF TypeOK, Row, ResumerState
    <3> HIDE DEF new
    <3>3. /\ resumer' \in [Resumers -> ResumerState] /\ resumer'[x] = new
          /\ \A y \in Resumers \ {x} : resumer'[y] = resumer[y]
      BY <1>0, <3>1, <3>2 DEF TypeOK, new
    <3>4. 1..row[j].processed \subseteq visited[j]
      BY DEF IInv, JobInv
    <3>5. ResumerInv(x)'
      BY <1>1, <3>2, <3>3, <3>4 DEF ResumerInv
    <3> QED
      BY <3>3, <3>5
  <2>2. CASE ResumeRefused(x)
    BY <1>0, <2>2, ResumerDone DEF ResumeRefused
  <2> QED
    BY <2>1, <2>2
<1>3. RunsGoOn /\ RowsGoOn /\ EntriesGo
  BY <1>0, <1>1, RunsSame, RowsSame, Remembered
<1> QED
  BY <1>0, <1>1, <1>2, <1>3 DEF Step, TypeOK, RunsGoOn, RowsGoOn, EntriesGo

----------------------------------------------------------------------------
(* The theorems.                                                           *)

LEMMA InitIInv == Init => IInv
<1> SUFFICES ASSUME Init
             PROVE  IInv
  OBVIOUS
<1>1. /\ \A j \in Jobs : /\ row[j].status = "absent" /\ ~row[j].live /\ row[j].processed = 0
      /\ \A r \in Runs : run[r] = IdleRun
      /\ \A p \in Processes, j \in Jobs : entry[p][j] = NoRun
      /\ \A c \in Callers : caller[c].pc = "idle"
      /\ \A x \in Resumers : ~resumer[x].reading
  BY Blanks DEF Init
<1>2. TypeOK
  <2>1. row \in [Jobs -> Row]
    BY Blanks DEF Init, Row
  <2>2. /\ run \in [Runs -> RunState] /\ caller \in [Callers -> CallerState]
        /\ resumer \in [Resumers -> ResumerState]
    BY Blanks DEF Init
  <2>3. /\ entry \in [Processes -> [Jobs -> Runs \cup {NoRun}]]
        /\ lost \in [Processes -> SUBSET Jobs] /\ visited \in [Jobs -> SUBSET (1..Dates)]
        /\ faults \in Nat
    BY DEF Init
  <2> QED
    BY <2>1, <2>2, <2>3 DEF TypeOK
<1>3. SlotsBounded
  <2>1. {j \in Jobs : row[j].status \in Active} = {}
    BY <1>1 DEF Active
  <2>2. Cardinality({}) <= MaxConcurrent
    BY FS_EmptySet, BacktestConstants
  <2> QED
    BY <2>1, <2>2 DEF SlotsBounded
<1>4. \A r \in Runs : RunInv(r)
  BY <1>1, Blanks DEF RunInv
<1>5. \A j \in Jobs : JobInv(j)
  BY <1>1 DEF JobInv, Active
<1>6. \A p \in Processes, j \in Jobs : EntryInv(p, j)
  BY <1>1 DEF EntryInv
<1>7. \A c \in Callers : CallerInv(c)
  BY <1>1 DEF CallerInv
<1>8. \A x \in Resumers : ResumerInv(x)
  BY <1>1 DEF ResumerInv
<1> QED
  BY <1>2, <1>3, <1>4, <1>5, <1>6, <1>7, <1>8 DEF IInv

\* Every step is a claim, or one of those that have been looked at.
LEMMA NextSteps ==
  ASSUME IInv, Next
  PROVE  Step \/ Start \/ \E x \in Resumers : Resume(x)
<1>1. ASSUME NEW r \in Runs, Pipeline(r) \/ Timers(r), UNCHANGED resumer
      PROVE  Step
  BY <1>1, LaunchStep, FailClaimStep, PipelineStep, DayStep, SaveAnsweredStep, EndStep,
     TimeoutStep, TimeoutSavedStep, HeartbeatStep, HeartbeatFailedStep DEF Pipeline, Timers
<1>2. ASSUME NEW c \in Callers, UNCHANGED resumer,
             Cancel(c) \/ CancelSaved(c) \/ FindInterrupted(c) \/ MarkInterrupted(c)
      PROVE  Step
  BY <1>2, CancelStep, CancelSavedStep, FindInterruptedStep, MarkInterruptedStep
<1>3. ASSUME NEW x \in Resumers, ReadForResume(x) \/ ResumeRefused(x)
      PROVE  Step
  BY <1>3, ReadStep
<1> QED
  BY <1>1, <1>2, <1>3, RowTimeStep, CrashStep DEF Next

LEMMA Idling ==
  ASSUME IInv, UNCHANGED vars
  PROVE  Step
<1>1. TypeOK /\ \A q \in Runs : RunInv(q)
  BY DEF IInv
<1>2. RunsGoOn /\ RowsGoOn /\ EntriesGo
  BY <1>1, RunsSame, RowsSame, Remembered DEF vars
<1> QED
  BY <1>1, <1>2 DEF vars, Step, TypeOK, RunsGoOn, RowsGoOn, EntriesGo

LEMMA NextIInv ==
  ASSUME IInv, [Next]_vars
  PROVE  IInv'
BY NextSteps, Idling, StepKeeps, StartStep, ResumeStep

LEMMA Invariance == Spec => []IInv
BY InitIInv, NextIInv, PTL DEF Spec

\* The state keeps its types.
THEOREM Typing == Spec => []TypeOK
<1>1. IInv => TypeOK
  BY DEF IInv
<1> QED
  BY <1>1, Invariance, PTL

\* However jobs are started, resumed, cancelled, timed out and lost, no more of
\* them than the limit are active.
THEOREM SlotsAreBounded == Spec => []SlotsBounded
<1>1. IInv => SlotsBounded
  BY DEF IInv
<1> QED
  BY <1>1, Invariance, PTL

\* An active row is its holder's, and shows no more than that run has done.
THEOREM RowIsTheHolders == Spec => []RowFollowsHolder
<1>1. IInv => RowFollowsHolder
  <2> SUFFICES ASSUME IInv, NEW j \in Jobs, row[j].status \in Active
               PROVE  /\ row[j].owner \in Runs
                      /\ run[row[j].owner].job = j
                      /\ row[j].processed <= run[row[j].owner].processed
    BY DEF RowFollowsHolder
  <2>1. JobInv(j)
    BY DEF IInv
  <2> QED
    BY <2>1 DEF JobInv, Claimed
<1> QED
  BY <1>1, Invariance, PTL

\* The days that a row counts, and those that lie behind a run, were gone through
\* by this run of the job or an earlier one.
THEOREM NothingIsSkipped == Spec => []NoDaySkipped
<1>1. IInv => NoDaySkipped
  <2> SUFFICES ASSUME IInv
               PROVE  NoDaySkipped
    OBVIOUS
  <2>1. \A j \in Jobs : 1..row[j].processed \subseteq visited[j]
    BY DEF IInv, JobInv
  <2>2. \A r \in Runs : 1..run[r].processed \subseteq visited[run[r].job]
    BY DEF IInv, RunInv
  <2> QED
    BY <2>1, <2>2 DEF NoDaySkipped
<1> QED
  BY <1>1, Invariance, PTL

\* A run whose caller was told that it is being cancelled is not done.
THEOREM CancelledIsNotDone == Spec => []CancellationHonoured
<1>1. IInv => CancellationHonoured
  <2> SUFFICES ASSUME IInv, NEW r \in Runs, run[r].told
               PROVE  run[r].status # "done"
    BY DEF CancellationHonoured
  <2>1. RunInv(r)
    BY DEF IInv
  <2> QED
    BY <2>1 DEF RunInv, Good
<1> QED
  BY <1>1, Invariance, PTL

\* The row of a job that ended is not written until it is claimed again.
THEOREM EndedIsFinal == Spec => EndedStays
<1> DEFINE Stays(j) ==
      row[j].status \in Terminal /\ row'[j] # row[j] =>
        /\ row'[j].status = "running"
        /\ row'[j].owner \in Runs
        /\ run[row'[j].owner].pc = "idle"
<1>1. IInv /\ [Next]_vars => \A j \in Jobs : Stays(j)
  <2> SUFFICES ASSUME IInv, [Next]_vars, NEW j \in Jobs
               PROVE  Stays(j)
    OBVIOUS
  <2>1. ASSUME Step
        PROVE  Stays(j)
    BY <2>1 DEF Step, Written, Active, Terminal
  <2>2. ASSUME NEW r \in Runs, run[r].pc = "idle", NEW i, NEW p, NEW n, ClaimSlot(r, i, p, n)
        PROVE  Stays(j)
    <3> DEFINE held == [status |-> "running", owner |-> r, live |-> TRUE, processed |-> n]
    <3>1. row' = [row EXCEPT ![i] = held] /\ held.status = "running" /\ held.owner = r
      BY <2>2 DEF ClaimSlot
    <3> HIDE DEF held
    <3>2. row'[j] = row[j] \/ row'[j] = held
      BY <3>1 DEF IInv, TypeOK
    <3> QED
      BY <2>2, <3>1, <3>2
  <2>3. CASE Start
    BY <2>2, <2>3, Unused DEF Start
  <2>4. CASE \E x \in Resumers : Resume(x)
    BY <2>2, <2>4, Unused DEF Resume
  <2> QED
    BY <2>1, <2>3, <2>4, NextSteps, Idling
<1> QED
  BY <1>1, Invariance, PTL DEF Spec, EndedStays
=============================================================================
