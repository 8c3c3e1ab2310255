-------------------------- MODULE CommandReceipts --------------------------
(***************************************************************************)
(* Management commands: executeAdminCommand over the rows of               *)
(* management_command_receipts, its replay of a command already received,  *)
(* and the reconciler that finishes what a stopped request left behind.    *)
(* Each awaited call is one atomic step; a call may fail before or after   *)
(* it took effect, and a process may stop between any two of them.         *)
(*                                                                         *)
(* Commands rejected before a receipt exists, the audit rows nothing       *)
(* depends on (.rejected, .failed) and the content of results are left     *)
(* out.  A result is never null: every execute callback returns an object. *)
(***************************************************************************)
EXTENDS Integers, FiniteSets

CONSTANTS
  Keys,         \* action and idempotency key of a command
  Payloads,     \* what a request hashes: target, reason, confirmation, payload
  NoPayload,    \* no request yet
  Requests,     \* HTTP requests, each of them one call of executeAdminCommand
  Reconcilers,  \* processes that run reconcilePendingCommandAudits again and again
  ScanLimit,    \* rows a reconciler reads
  MaxFaults     \* bound: failed calls and stopped processes

ASSUME ReceiptConstants ==
  /\ Keys # {}
  /\ NoPayload \notin Payloads
  /\ Requests \cap Reconcilers = {}
  /\ ScanLimit \in Nat \ {0}
  /\ MaxFaults \in Nat

VARIABLES
  receipt,     \* management_command_receipts
  older,       \* <<i, j>>: receipt i was updated before receipt j
  announced,   \* keys with a .requested row in audit_logs
  audited,     \* keys with a .succeeded row in audit_logs (one per key: unique index)
  effects,     \* how often the effect of a command took place, by key and payload
  unreported,  \* keys whose effect took place although execute threw
  actor,       \* local state of the requests and reconcilers
  faults       \* failures so far

vars == <<receipt, older, announced, audited, effects, unreported, actor, faults>>

----------------------------------------------------------------------------
ReceiptStatus == {"absent", "accepted", "effect_started", "effect_succeeded",
                  "audit_pending", "completed", "failed"}

\* `recorded` is audit_context.effectSucceeded, which is written with a result.
Receipt == [status : ReceiptStatus, payload : Payloads \cup {NoPayload}, recorded : BOOLEAN]

AbsentReceipt == [status |-> "absent", payload |-> NoPayload, recorded |-> FALSE]

\* A receipt as a scan returned it.
Snapshot == [key : Keys, row : Receipt]

\* What the caller is told: 200 completed, 202 otherwise pending, 409 for
\* another payload or a failed command, 500 or 503 after an error.
Answers == {"none", "completed", "pending", "conflict", "failed", "error"}

Actors == Requests \cup Reconcilers

ActorState == [pc : {"idle", "announce", "start", "fail", "execute", "record",
                     "recordResult", "recover", "pend", "audit", "complete",
                     "next", "done"},
               key : Keys,
               payload : Payloads \cup {NoPayload},
               todo : SUBSET Snapshot,    \* scanned rows a reconciler has still to do
               answer : Answers]

AnyKey == CHOOSE k \in Keys : TRUE

IdleActor == [pc |-> "idle", key |-> AnyKey, payload |-> NoPayload, todo |-> {},
              answer |-> "none"]

Init ==
  /\ receipt = [k \in Keys |-> AbsentReceipt]
  /\ older = {}
  /\ announced = {}
  /\ audited = {}
  /\ effects = [k \in Keys |-> [p \in Payloads |-> 0]]
  /\ unreported = {}
  /\ actor = [a \in Actors |-> IdleActor]
  /\ faults = 0

----------------------------------------------------------------------------
(* Calls.                                                                  *)

At(a, pc) == actor[a].pc = pc

GoTo(a, pc) == actor' = [actor EXCEPT ![a].pc = pc]

\* The end of a command: a request answers, a reconciler takes its next row.
Leave(a, answer) ==
  IF a \in Requests
  THEN actor' = [actor EXCEPT ![a] = [@ EXCEPT !.pc = "done", !.answer = answer]]
  ELSE GoTo(a, "next")

Fault == faults < MaxFaults /\ faults' = faults + 1

Present == {k \in Keys : receipt[k].status # "absent"}

\* Every write of a receipt sets updated_at.
Touched(k) == {pair \in older : pair[1] # k /\ pair[2] # k} \cup ((Present \ {k}) \X {k})

Store(k, row) == receipt' = [receipt EXCEPT ![k] = row] /\ older' = Touched(k)

\* Mutant: an update that does not look at the status it replaces.
MatchesAnything(k, from) == receipt[k].status # "absent"

\* .in("status", from)
Matches(k, from) == receipt[k].status \in from

\* Mutant: the name migration 0017 replaced, which its CHECK rejects.
SetLegacyStatus(k, status) ==
  [receipt[k] EXCEPT !.status = IF status = "completed" THEN "succeeded" ELSE status]

SetStatus(k, status) == [receipt[k] EXCEPT !.status = status]

\* A call of transition or succeed: the conditional update is applied and
\* reported; matches no row, which is an error; or fails, and then the caller
\* does not know whether it was applied.
Update(a, from, to, Ok, Error) ==
  LET k == actor[a].key
  IN \/ /\ Matches(k, from)
        /\ Store(k, SetStatus(k, to))
        /\ Ok
        /\ UNCHANGED faults
     \/ /\ ~Matches(k, from)
        /\ UNCHANGED <<receipt, older, faults>>
        /\ Error
     \/ /\ Fault
        /\ (Matches(k, from) /\ Store(k, SetStatus(k, to))) \/ UNCHANGED <<receipt, older>>
        /\ Error

----------------------------------------------------------------------------
(* A new command: executeAdminCommand after validation.                    *)

\* Mutant: an upsert over a command that has not started yet.
NewKeyOrAccepted(k) == receipt[k].status \in {"absent", "accepted"}

\* The unique index on (action, idempotency_key) lets the insert through.
NewKey(k) == receipt[k].status = "absent"

\* begin inserts the receipt.  When the response is lost its second query
\* finds the row, and the request takes the command for somebody else's.
Begin(r) ==
  /\ At(r, "idle")
  /\ \E k \in Keys, p \in Payloads :
       /\ NewKey(k)
       /\ Store(k, [status |-> "accepted", payload |-> p, recorded |-> FALSE])
       /\ \/ /\ actor' = [actor EXCEPT ![r] =
                  [@ EXCEPT !.pc = "announce", !.key = k, !.payload = p]]
             /\ UNCHANGED faults
          \/ /\ Fault
             /\ actor' = [actor EXCEPT ![r] =
                  [@ EXCEPT !.pc = "done", !.key = k, !.payload = p, !.answer = "pending"]]
  /\ UNCHANGED <<announced, audited, effects, unreported>>

\* The .requested audit row; without it the command is not executed.
Announce(r) ==
  LET k == actor[r].key
  IN /\ At(r, "announce")
     /\ \/ announced' = announced \cup {k} /\ GoTo(r, "start") /\ UNCHANGED faults
        \/ Fault /\ announced' \in {announced, announced \cup {k}} /\ GoTo(r, "fail")
     /\ UNCHANGED <<receipt, older, audited, effects, unreported>>

StartEffect(r) ==
  /\ At(r, "start")
  /\ Update(r, {"accepted"}, "effect_started", GoTo(r, "execute"), GoTo(r, "fail"))
  /\ UNCHANGED <<announced, audited, effects, unreported>>

\* The business effect: done and reported, refused, or done and not reported.
Execute(r) ==
  LET k == actor[r].key
      performed == [effects EXCEPT ![k][actor[r].payload] = @ + 1]
  IN /\ At(r, "execute")
     /\ \/ /\ effects' = performed
           /\ GoTo(r, "record")
           /\ UNCHANGED <<unreported, faults>>
        \/ /\ Fault
           /\ GoTo(r, "fail")
           /\ \/ UNCHANGED <<effects, unreported>>
              \/ effects' = performed /\ unreported' = unreported \cup {k}
     /\ UNCHANGED <<receipt, older, announced, audited>>

\* fail: ends the command, matched or not.
Fail(r) ==
  LET k == actor[r].key
  IN /\ At(r, "fail")
     /\ \/ /\ IF Matches(k, {"accepted", "effect_started"})
              THEN Store(k, SetStatus(k, "failed"))
              ELSE UNCHANGED <<receipt, older>>
           /\ UNCHANGED faults
        \/ Fault /\ UNCHANGED <<receipt, older>>
     /\ Leave(r, "error")
     /\ UNCHANGED <<announced, audited, effects, unreported>>

\* Mutant: a lost update after the effect ends like an update before it.
AfterLostRecordFails(r) == GoTo(r, "fail")

AfterLostRecord(r) == GoTo(r, "recordResult")

RecordSuccess(r) ==
  /\ At(r, "record")
  /\ Update(r, {"effect_started"}, "effect_succeeded", GoTo(r, "pend"), AfterLostRecord(r))
  /\ UNCHANGED <<announced, audited, effects, unreported>>

\* record_management_command_effect_result; its errors are swallowed.
RecordEffectResult(r) ==
  LET k == actor[r].key
  IN /\ At(r, "recordResult")
     /\ \/ /\ IF Matches(k, {"effect_started"})
              THEN Store(k, [receipt[k] EXCEPT !.recorded = TRUE])
              ELSE UNCHANGED <<receipt, older>>
           /\ UNCHANGED faults
        \/ Fault /\ UNCHANGED <<receipt, older>>
     /\ Leave(r, "pending")
     /\ UNCHANGED <<announced, audited, effects, unreported>>

----------------------------------------------------------------------------
(* From a recorded effect to a completed command: the same steps in the    *)
(* request that executed it, in a replay and in a reconciler.              *)

Recover(a) ==
  /\ At(a, "recover")
  /\ Update(a, {"effect_started"}, "effect_succeeded", GoTo(a, "pend"), Leave(a, "pending"))
  /\ UNCHANGED <<announced, audited, effects, unreported>>

Pend(a) ==
  /\ At(a, "pend")
  /\ Update(a, {"effect_succeeded"}, "audit_pending", GoTo(a, "audit"), Leave(a, "pending"))
  /\ UNCHANGED <<announced, audited, effects, unreported>>

\* Mutant: an audit row that could not be written does not stop the command.
WithoutAuditCompletes(a) == GoTo(a, "complete")

WithoutAudit(a) == Leave(a, "pending")

\* The .succeeded audit row; a duplicate counts as written.
WriteAudit(a) ==
  LET k == actor[a].key
  IN /\ At(a, "audit")
     /\ \/ audited' = audited \cup {k} /\ GoTo(a, "complete") /\ UNCHANGED faults
        \/ Fault /\ audited' \in {audited, audited \cup {k}} /\ WithoutAudit(a)
     /\ UNCHANGED <<receipt, older, announced, effects, unreported>>

Complete(a) ==
  /\ At(a, "complete")
  /\ Update(a, {"audit_pending"}, "completed", Leave(a, "completed"), Leave(a, "pending"))
  /\ UNCHANGED <<announced, audited, effects, unreported>>

----------------------------------------------------------------------------
(* Replays and reconcilers.                                                *)

\* Mutant: a started effect is taken for a finished one.
ResumableIfStarted(row) == row.status \in {"effect_started", "effect_succeeded", "audit_pending"}

\* recoverableEffectStarted, or past it.
Resumable(row) ==
  \/ row.status \in {"effect_succeeded", "audit_pending"}
  \/ row.status = "effect_started" /\ row.recorded

ResumeAt(row) ==
  CASE row.status = "effect_started" -> "recover"
    [] row.status = "effect_succeeded" -> "pend"
    [] OTHER -> "audit"

\* Mutant: a replay that does not compare request hashes.
SamePayloadAlways(k, p) == TRUE

SamePayload(k, p) == receipt[k].payload = p

\* begin found a receipt: a duplicate request, or a reused key.
Replay(r) ==
  /\ At(r, "idle")
  /\ \E k \in Keys, p \in Payloads :
       LET row == receipt[k]
           Told(answer) == actor' = [actor EXCEPT ![r] =
             [@ EXCEPT !.pc = "done", !.key = k, !.payload = p, !.answer = answer]]
       IN /\ row.status # "absent"
          /\ \/ ~SamePayload(k, p) /\ Told("conflict")
             \/ SamePayload(k, p) /\ row.status = "completed" /\ Told("completed")
             \/ SamePayload(k, p) /\ row.status = "failed" /\ Told("failed")
             \/ /\ SamePayload(k, p)
                /\ row.status \in {"accepted", "effect_started"}
                /\ ~Resumable(row)
                /\ Told("pending")
             \/ /\ SamePayload(k, p)
                /\ Resumable(row)
                /\ actor' = [actor EXCEPT ![r] =
                     [@ EXCEPT !.pc = ResumeAt(row), !.key = k, !.payload = p]]
  /\ UNCHANGED <<receipt, older, announced, audited, effects, unreported, faults>>

\* Mutant: a scan that forgets the receipts whose result was just recorded.
UnfinishedNotSucceeded == {"effect_started", "audit_pending"}

Unfinished == {"effect_started", "effect_succeeded", "audit_pending"}

\* ORDER BY updated_at LIMIT ScanLimit
Pages(keys) ==
  {page \in SUBSET keys :
     /\ Cardinality(page) <= ScanLimit
     /\ page # keys => Cardinality(page) = ScanLimit
     /\ \A i \in page, j \in keys \ page : <<i, j>> \in older}

Scan(c) ==
  LET pending == {k \in Keys : receipt[k].status \in Unfinished}
  IN /\ At(c, "idle")
     /\ pending # {}
     /\ \E page \in Pages(pending) :
          actor' = [actor EXCEPT ![c] =
            [@ EXCEPT !.pc = "next", !.todo = {[key |-> k, row |-> receipt[k]] : k \in page}]]
     /\ UNCHANGED <<receipt, older, announced, audited, effects, unreported, faults>>

\* The next scanned row, in any order: rows do not depend on each other.  A
\* started effect without a result is passed over.
NextRow(c) ==
  /\ At(c, "next")
  /\ \E s \in actor[c].todo :
       actor' = [actor EXCEPT ![c] =
         [@ EXCEPT !.pc = IF Resumable(s.row) THEN ResumeAt(s.row) ELSE "next",
                   !.key = s.key,
                   !.todo = actor[c].todo \ {s}]]
  /\ UNCHANGED <<receipt, older, announced, audited, effects, unreported, faults>>

EndOfScan(c) ==
  /\ At(c, "next")
  /\ actor[c].todo = {}
  /\ actor' = [actor EXCEPT ![c] = IdleActor]
  /\ UNCHANGED <<receipt, older, announced, audited, effects, unreported, faults>>

\* The process dies.
Stop(a) ==
  /\ actor[a].pc \notin {"idle", "done"}
  /\ Fault
  /\ actor' = [actor EXCEPT ![a] =
       IF a \in Requests THEN [@ EXCEPT !.pc = "done", !.answer = "error"] ELSE IdleActor]
  /\ UNCHANGED <<receipt, older, announced, audited, effects, unreported>>

----------------------------------------------------------------------------
FinishStep(a) == Recover(a) \/ Pend(a) \/ WriteAudit(a) \/ Complete(a)

ReconcilerStep(c) == Scan(c) \/ NextRow(c) \/ EndOfScan(c) \/ FinishStep(c)

Proceed(r) ==
  \/ Announce(r)
  \/ StartEffect(r)
  \/ Execute(r)
  \/ Fail(r)
  \/ RecordSuccess(r)
  \/ RecordEffectResult(r)
  \/ FinishStep(r)

Next ==
  \/ \E r \in Requests : Begin(r) \/ Replay(r) \/ Proceed(r)
  \/ \E c \in Reconcilers : ReconcilerStep(c)
  \/ \E a \in Actors : Stop(a)

Spec == Init /\ [][Next]_vars

\* A timer runs the reconciler every 15 minutes; nothing obliges a request
\* to go on ..
FairSpec == Spec /\ \A c \in Reconcilers : WF_vars(ReconcilerStep(c))

\* .. except here, where a request goes on to its end unless it is stopped.
FairRequestsSpec == FairSpec /\ \A r \in Requests : WF_vars(Proceed(r))

----------------------------------------------------------------------------
(* Properties.                                                             *)

TypeOK ==
  /\ receipt \in [Keys -> Receipt]
  /\ older \subseteq Keys \X Keys
  /\ announced \subseteq Keys
  /\ audited \subseteq Keys
  /\ effects \in [Keys -> [Payloads -> Nat]]
  /\ unreported \subseteq Keys
  /\ actor \in [Actors -> ActorState]
  /\ faults \in Nat

\* A command takes effect at most once and only for the payload its receipt
\* was created with, whatever is repeated, replayed or reconciled.
EffectAtMostOnce ==
  \A k \in Keys, p \in Payloads :
    effects[k][p] <= IF receipt[k].payload = p THEN 1 ELSE 0

\* The .requested audit row is there before the effect, the effect before
\* the .succeeded row, and the .succeeded row before the receipt is completed.
AuditTrail ==
  \A k \in Keys :
    LET took == \E p \in Payloads : effects[k][p] > 0
    IN /\ took => k \in announced
       /\ k \in audited => took
       /\ receipt[k].status = "completed" => k \in audited

\* "failed is only valid before a successful effect" (migration 0017), except
\* for an effect whose execute call threw after acting.
FailedHasNoEffect ==
  \A k \in Keys :
    receipt[k].status = "failed" /\ k \notin unreported => \A p \in Payloads : effects[k][p] = 0

\* Whoever is told "completed" asked for what was done.
ConfirmedWasDone ==
  \A r \in Requests :
    actor[r].answer = "completed" =>
      LET k == actor[r].key
      IN effects[k][actor[r].payload] = 1 /\ k \in audited /\ receipt[k].status = "completed"

\* A receipt only moves forward, however late a delayed update arrives.
Rank(status) ==
  CASE status = "absent" -> 0
    [] status = "accepted" -> 1
    [] status = "effect_started" -> 2
    [] status = "effect_succeeded" -> 3
    [] status = "audit_pending" -> 4
    [] status = "completed" -> 5
    [] status = "failed" -> 5

ReceiptMovesForward ==
  [][\A k \in Keys :
       receipt'[k].status # receipt[k].status =>
         Rank(receipt[k].status) < Rank(receipt'[k].status)]_vars

\* "bounded reconciler retries on the next run" (command-reconciler.ts:30): a
\* command whose effect was recorded is eventually completed by the reconciler
\* alone, although requests stop and calls fail.
RecordedEffectCompletes ==
  \A k \in Keys : Resumable(receipt[k]) ~> receipt[k].status = "completed"
============================================================================
