------------------------ MODULE CommandReceiptsProofs ------------------------
(***************************************************************************)
(* Proofs about CommandReceipts, for any keys, payloads, requests and      *)
(* reconcilers and for every bound.                                        *)
(***************************************************************************)
EXTENDS CommandReceipts, TLAPS

----------------------------------------------------------------------------
(* The inductive invariant.                                                *)

\* The effect is known to have taken place.
Succeeded == {"effect_succeeded", "audit_pending", "completed"}

Audits == {"audit_pending", "completed"}

Untouched(k) == \A p \in Payloads : effects[k][p] = 0

\* The command's own effect took place, once.
Took(k) == receipt[k].payload \in Payloads /\ effects[k][receipt[k].payload] = 1

\* Between the insert of a receipt and its end a request has its command to itself.
Owns(a) == actor[a].pc \in {"announce", "start", "execute", "record", "recordResult", "fail"}

\* What the tables say of a command.
CommandInv(k) ==
  /\ receipt[k].status = "absent" <=> receipt[k].payload = NoPayload
  /\ receipt[k].status \in {"absent", "accepted"} => Untouched(k)
  /\ receipt[k].status \in Succeeded \/ receipt[k].recorded => Took(k)
  /\ receipt[k].recorded => receipt[k].status \in Succeeded \cup {"effect_started"}
  /\ receipt[k].status = "completed" => k \in audited
  /\ receipt[k].status = "failed" /\ k \notin unreported => Untouched(k)
  /\ \A p \in Payloads : effects[k][p] <= IF receipt[k].payload = p THEN 1 ELSE 0
  /\ (\E p \in Payloads : effects[k][p] > 0) => k \in announced
  /\ k \in audited => Took(k)

OwnersAlone ==
  /\ \A r \in Actors, q \in Actors :
       Owns(r) /\ Owns(q) /\ actor[r].key = actor[q].key => r = q
  /\ \A r \in Actors : Owns(r) => r \in Requests /\ ~receipt[actor[r].key].recorded

\* What the position of an owner says of its command.
OwnerInv(r) ==
  LET k == actor[r].key
      status == receipt[k].status
      pc == actor[r].pc
  IN /\ Owns(r) => status # "absent" /\ actor[r].payload = receipt[k].payload
     /\ pc = "announce" => status = "accepted"
     /\ pc = "start" => status = "accepted" /\ k \in announced
     /\ pc = "execute" => status = "effect_started" /\ k \in announced /\ Untouched(k)
     /\ pc = "record" => status = "effect_started" /\ Took(k)
     /\ pc = "recordResult" => status \in Succeeded \cup {"effect_started"} /\ Took(k)
     /\ pc = "fail" => /\ status \in {"accepted", "effect_started"}
                       /\ k \in unreported \/ Untouched(k)

\* A row that was read, however long ago, is not ahead of the table.
NotAhead(row, k) ==
  /\ row.recorded => receipt[k].recorded
  /\ row.status \in Succeeded => receipt[k].status \in Succeeded
  /\ row.status \in Audits => receipt[k].status \in Audits

\* What the position of whoever finishes a command says of it.
FinisherInv(a) ==
  LET k == actor[a].key
      status == receipt[k].status
      pc == actor[a].pc
  IN /\ pc = "recover" => receipt[k].recorded
     /\ pc = "pend" => status \in Succeeded
     /\ pc = "audit" => status \in Audits
     /\ pc = "complete" => status \in Audits /\ k \in audited
     /\ pc \in {"recover", "pend", "audit", "complete"} /\ a \in Requests =>
          status # "absent" /\ actor[a].payload = receipt[k].payload
     /\ pc = "next" => a \notin Requests
     /\ \A s \in actor[a].todo : NotAhead(s.row, s.key)

\* Who was told "completed" asked for the payload of a completed command.
AnswerInv(a) ==
  LET k == actor[a].key
  IN /\ actor[a].answer # "none" => actor[a].pc = "done"
     /\ actor[a].answer = "completed" =>
          receipt[k].status = "completed" /\ receipt[k].payload = actor[a].payload

IInv ==
  /\ TypeOK
  /\ \A k \in Keys : CommandInv(k)
  /\ OwnersAlone
  /\ \A a \in Actors : OwnerInv(a) /\ FinisherInv(a) /\ AnswerInv(a)

----------------------------------------------------------------------------
(* Types.                                                                  *)

LEMMA IdleType == IdleActor \in ActorState /\ AnyKey \in Keys
BY ReceiptConstants DEF IdleActor, ActorState, AnyKey, Answers

LEMMA InitTypeOK == Init => TypeOK
BY IdleType, ReceiptConstants DEF Init, TypeOK, AbsentReceipt, Receipt, ReceiptStatus

\* Storing a well-typed row touches that row and the order of updates only.
LEMMA StoreRow ==
  ASSUME TypeOK, NEW k \in Keys, NEW row \in Receipt, Store(k, row)
  PROVE  /\ receipt' \in [Keys -> Receipt] /\ older' \subseteq Keys \X Keys
         /\ receipt'[k] = row /\ \A j \in Keys \ {k} : receipt'[j] = receipt[j]
BY DEF Store, Touched, Present, TypeOK

LEMMA SetStatusRow ==
  ASSUME TypeOK, NEW k \in Keys, NEW status \in ReceiptStatus
  PROVE  /\ SetStatus(k, status) \in Receipt
         /\ SetStatus(k, status).status = status
         /\ SetStatus(k, status).payload = receipt[k].payload
         /\ SetStatus(k, status).recorded = receipt[k].recorded
BY DEF TypeOK, SetStatus, Receipt

\* A change of position, answer, key or payload keeps an actor well typed.
LEMMA ActorRow ==
  ASSUME TypeOK, NEW a \in Actors
  PROVE  /\ actor[a] \in ActorState /\ actor[a].key \in Keys
         /\ actor[a].payload \in Payloads \cup {NoPayload}
BY DEF TypeOK, ActorState

LEMMA NewState ==
  ASSUME TypeOK, NEW a \in Actors, NEW state \in ActorState,
         actor' = [actor EXCEPT ![a] = state]
  PROVE  /\ actor' \in [Actors -> ActorState] /\ actor'[a] = state
         /\ \A b \in Actors \ {a} : actor'[b] = actor[b]
BY DEF TypeOK

Positions == {"idle", "announce", "start", "fail", "execute", "record", "recordResult",
              "recover", "pend", "audit", "complete", "next", "done"}

\* A request takes up a command, or is told an answer to it.
TakeUp(a, pc, k, p) ==
  actor' = [actor EXCEPT ![a] = [@ EXCEPT !.pc = pc, !.key = k, !.payload = p]]

Tell(a, k, p, answer) ==
  actor' = [actor EXCEPT ![a] =
    [@ EXCEPT !.pc = "done", !.key = k, !.payload = p, !.answer = answer]]

LEMMA TakenUp ==
  ASSUME TypeOK, NEW a \in Actors, NEW pc \in Positions, NEW k \in Keys,
         NEW p \in Payloads \cup {NoPayload},
         TakeUp(a, pc, k, p)
  PROVE  /\ actor' \in [Actors -> ActorState]
         /\ \A b \in Actors \ {a} : actor'[b] = actor[b]
         /\ actor'[a].pc = pc /\ actor'[a].key = k /\ actor'[a].payload = p
         /\ actor'[a].todo = actor[a].todo /\ actor'[a].answer = actor[a].answer
<1> DEFINE st == actor[a]
           new == [st EXCEPT !.pc = pc, !.key = k, !.payload = p]
<1> st \in ActorState
  BY ActorRow
<1> HIDE DEF st
<1>1. new \in ActorState
  BY DEF ActorState, Positions
<1>2. new.pc = pc /\ new.key = k /\ new.payload = p /\ new.todo = st.todo /\ new.answer = st.answer
  BY DEF ActorState
<1> QED
  BY <1>1, <1>2, NewState DEF st, TakeUp

LEMMA Told ==
  ASSUME TypeOK, NEW a \in Actors, NEW k \in Keys, NEW p \in Payloads \cup {NoPayload},
         NEW answer \in Answers,
         Tell(a, k, p, answer)
  PROVE  /\ actor' \in [Actors -> ActorState]
         /\ \A b \in Actors \ {a} : actor'[b] = actor[b]
         /\ actor'[a].pc = "done" /\ actor'[a].key = k /\ actor'[a].payload = p
         /\ actor'[a].todo = actor[a].todo /\ actor'[a].answer = answer
<1> DEFINE st == actor[a]
           new == [st EXCEPT !.pc = "done", !.key = k, !.payload = p, !.answer = answer]
<1> st \in ActorState
  BY ActorRow
<1> HIDE DEF st
<1>1. new \in ActorState
  BY DEF ActorState, Positions
<1>2. new.pc = "done" /\ new.key = k /\ new.payload = p /\ new.todo = st.todo /\ new.answer = answer
  BY DEF ActorState
<1> QED
  BY <1>1, <1>2, NewState DEF st, Tell

LEMMA Ended ==
  ASSUME NEW st \in ActorState, NEW answer \in Answers
  PROVE  LET new == [st EXCEPT !.pc = "done", !.answer = answer]
         IN /\ new \in ActorState
            /\ new.pc = "done" /\ new.key = st.key /\ new.payload = st.payload
            /\ new.todo = st.todo /\ new.answer = answer
BY DEF ActorState

LEMMA WentTo ==
  ASSUME TypeOK, NEW a \in Actors, NEW pc \in Positions, GoTo(a, pc)
  PROVE  /\ actor' \in [Actors -> ActorState]
         /\ \A b \in Actors \ {a} : actor'[b] = actor[b]
         /\ actor'[a].pc = pc /\ actor'[a].key = actor[a].key
         /\ actor'[a].payload = actor[a].payload
         /\ actor'[a].todo = actor[a].todo /\ actor'[a].answer = actor[a].answer
BY ActorRow DEF ActorState, Positions, GoTo, TypeOK

LEMMA Left ==
  ASSUME TypeOK, NEW a \in Actors, NEW answer \in Answers, Leave(a, answer)
  PROVE  /\ actor' \in [Actors -> ActorState]
         /\ \A b \in Actors \ {a} : actor'[b] = actor[b]
         /\ actor'[a].key = actor[a].key /\ actor'[a].payload = actor[a].payload
         /\ actor'[a].todo = actor[a].todo
         /\ \/ a \in Requests /\ actor'[a].pc = "done" /\ actor'[a].answer = answer
            \/ a \notin Requests /\ actor'[a].pc = "next" /\ actor'[a].answer = actor[a].answer
<1>1. CASE a \in Requests
  <2> DEFINE new == [actor[a] EXCEPT !.pc = "done", !.answer = answer]
  <2>1. /\ new \in ActorState
        /\ new.pc = "done" /\ new.key = actor[a].key /\ new.payload = actor[a].payload
        /\ new.todo = actor[a].todo /\ new.answer = answer
    BY ActorRow, Ended
  <2>2. actor' = [actor EXCEPT ![a] = new]
    BY <1>1 DEF Leave
  <2> HIDE DEF new
  <2> QED
    BY <1>1, <2>1, <2>2, NewState
<1>2. CASE a \notin Requests
  BY <1>2, WentTo DEF Leave, Positions
<1> QED
  BY <1>1, <1>2

LEMMA FaultNat == ASSUME TypeOK, Fault PROVE faults' \in Nat
BY DEF TypeOK, Fault

\* A conditional update that was applied, reported or not.
LEMMA Updated ==
  ASSUME TypeOK, NEW k \in Keys, NEW from, NEW to \in ReceiptStatus,
         Matches(k, from), Store(k, SetStatus(k, to))
  PROVE  /\ receipt' \in [Keys -> Receipt] /\ older' \subseteq Keys \X Keys
         /\ \A j \in Keys \ {k} : receipt'[j] = receipt[j]
         /\ receipt[k].status \in from /\ receipt'[k].status = to
         /\ receipt'[k].payload = receipt[k].payload
         /\ receipt'[k].recorded = receipt[k].recorded
BY SetStatusRow, StoreRow DEF Matches

\* A conditional update, whatever becomes of its answer.
Tried(k, from, to) ==
  \/ UNCHANGED <<receipt, older>>
  \/ Matches(k, from) /\ Store(k, SetStatus(k, to))

LEMMA TriedUpdate ==
  ASSUME TypeOK, NEW k \in Keys, NEW from, NEW to \in ReceiptStatus, Tried(k, from, to)
  PROVE  /\ receipt' \in [Keys -> Receipt] /\ older' \subseteq Keys \X Keys
         /\ \A j \in Keys \ {k} : receipt'[j] = receipt[j]
         /\ receipt'[k].payload = receipt[k].payload
         /\ receipt'[k].recorded = receipt[k].recorded
         /\ \/ receipt'[k].status = receipt[k].status
            \/ receipt[k].status \in from /\ receipt'[k].status = to
<1>1. CASE Matches(k, from) /\ Store(k, SetStatus(k, to))
  BY <1>1, Updated
<1>2. CASE UNCHANGED <<receipt, older>>
  BY <1>2 DEF TypeOK
<1> QED
  BY <1>1, <1>2 DEF Tried

----------------------------------------------------------------------------
(* One actor, one command.                                                 *)

Same(k) ==
  /\ receipt'[k] = receipt[k] /\ effects'[k] = effects[k]
  /\ k \in announced' <=> k \in announced
  /\ k \in audited' <=> k \in audited
  /\ k \in unreported' <=> k \in unreported

\* What no step undoes.
Forward(k) ==
  /\ receipt[k].status # "absent" =>
       receipt'[k].status # "absent" /\ receipt'[k].payload = receipt[k].payload
  /\ receipt[k].recorded => receipt'[k].recorded
  /\ receipt[k].status \in Succeeded => receipt'[k].status \in Succeeded
  /\ receipt[k].status \in Audits => receipt'[k].status \in Audits
  /\ receipt[k].status = "completed" => receipt'[k].status = "completed"
  /\ k \in audited => k \in audited'

\* What others may do to a command that has an owner.
Quiet(k) ==
  /\ effects'[k] = effects[k]
  /\ k \in announced' <=> k \in announced
  /\ k \in unreported' <=> k \in unreported
  /\ receipt'[k].payload = receipt[k].payload
  /\ receipt'[k].recorded = receipt[k].recorded
  /\ \/ receipt'[k].status = receipt[k].status
     \/ receipt[k].status \in Succeeded /\ receipt'[k].status \in Succeeded

\* A step of a at command k that keeps what it has to.
Step(a, k) ==
  /\ \A b \in Actors \ {a} : actor'[b] = actor[b]
  /\ \A j \in Keys \ {k} : Same(j)
  /\ Forward(k)
  /\ Owns(a)' => /\ a \in Requests /\ actor'[a].key = k /\ ~receipt'[k].recorded
                 /\ \A b \in Actors \ {a} : Owns(b) => actor[b].key # k
  /\ \A b \in Actors \ {a} : Owns(b) /\ actor[b].key = k => Quiet(k)
  /\ CommandInv(k)' /\ OwnerInv(a)' /\ FinisherInv(a)' /\ AnswerInv(a)'

LEMMA SameForward == ASSUME NEW k \in Keys, Same(k) PROVE Forward(k) /\ Quiet(k)
BY DEF Same, Forward, Quiet

\* The other actors are not disturbed by such a step.
LEMMA StepPreserves ==
  ASSUME IInv, TypeOK', NEW a \in Actors, NEW k \in Keys, Step(a, k)
  PROVE  IInv'
<1>1. \A j \in Keys : CommandInv(j)'
  <2> TAKE j \in Keys
  <2>1. CASE j = k
    BY <2>1 DEF Step
  <2>2. CASE j # k
    BY <2>2 DEF Step, Same, IInv, CommandInv, Took, Untouched
  <2> QED
    BY <2>1, <2>2
<1>2. \A j \in Keys : Forward(j)
  BY SameForward DEF Step
<1>3. ASSUME NEW b \in Actors \ {a}
      PROVE  OwnerInv(b)' /\ FinisherInv(b)' /\ AnswerInv(b)'
  <2>1. actor'[b] = actor[b] /\ actor[b].key \in Keys /\ actor[b].todo \in SUBSET Snapshot
    BY DEF Step, IInv, TypeOK, ActorState
  <2>2. OwnerInv(b) /\ FinisherInv(b) /\ AnswerInv(b)
    BY DEF IInv
  <2>3. OwnerInv(b)'
    <3>1. CASE Owns(b)
      <4>1. Quiet(actor[b].key)
        BY <2>1, <3>1, SameForward DEF Step
      <4> QED
        BY <2>1, <2>2, <3>1, <4>1 DEF Owns, OwnerInv, Quiet, Took, Untouched, Succeeded
    <3>2. CASE ~Owns(b)
      BY <2>1, <3>2 DEF Owns, OwnerInv
    <3> QED
      BY <3>1, <3>2
  <2>5. Forward(actor[b].key)
    BY <1>2, <2>1
  <2>6. FinisherInv(b)'
    <3>1. \A s \in actor[b].todo : NotAhead(s.row, s.key)'
      <4> TAKE s \in actor[b].todo
      <4>1. s.key \in Keys /\ NotAhead(s.row, s.key)
        BY <2>1, <2>2 DEF Snapshot, FinisherInv
      <4> QED
        BY <1>2, <4>1 DEF Forward, NotAhead
    <3> QED
      BY <2>1, <2>2, <2>5, <3>1 DEF FinisherInv, Forward, Succeeded, Audits
  <2>7. AnswerInv(b)'
    BY <2>1, <2>2, <2>5 DEF AnswerInv, Forward
  <2> QED
    BY <2>3, <2>6, <2>7
<1>4. OwnersAlone'
  <2>1. \A b \in Actors : Owns(b)' => b \in Requests /\ ~receipt'[actor'[b].key].recorded
    <3> TAKE b \in Actors
    <3>1. CASE b = a
      BY <3>1 DEF Step
    <3>2. CASE b # a /\ Owns(b)'
      <4>1. actor'[b] = actor[b] /\ actor[b].key \in Keys /\ Owns(b)
        BY <3>2 DEF Step, IInv, TypeOK, ActorState, Owns
      <4>2. Quiet(actor[b].key)
        BY <3>2, <4>1, SameForward DEF Step
      <4> QED
        BY <4>1, <4>2 DEF Quiet, IInv, OwnersAlone
    <3> QED
      BY <3>1, <3>2
  <2>2. ASSUME NEW b \in Actors, NEW c \in Actors, Owns(b)', Owns(c)',
               actor'[b].key = actor'[c].key
        PROVE  b = c
    BY <2>2 DEF Step, IInv, OwnersAlone, Owns
  <2> QED
    BY <2>1, <2>2 DEF OwnersAlone
<1> QED
  BY <1>1, <1>3, <1>4 DEF IInv, Step

----------------------------------------------------------------------------
(* The steps of a new command.                                             *)

LEMMA BeginKeeps ==
  ASSUME IInv, NEW r \in Requests, Begin(r)
  PROVE  IInv'
<1>1. PICK k \in Keys, p \in Payloads :
        /\ receipt[k].status = "absent"
        /\ Store(k, [status |-> "accepted", payload |-> p, recorded |-> FALSE])
        /\ \/ TakeUp(r, "announce", k, p) /\ UNCHANGED faults
           \/ Fault /\ Tell(r, k, p, "pending")
  BY DEF Begin, NewKey, TakeUp, Tell
<1>2. r \in Actors /\ TypeOK /\ actor[r].pc = "idle"
  BY DEF Actors, IInv, Begin, At
<1>3. actor[r] \in ActorState
  BY <1>2, ActorRow
<1>4. [status |-> "accepted", payload |-> p, recorded |-> FALSE] \in Receipt
  BY DEF Receipt, ReceiptStatus
<1>5. receipt' \in [Keys -> Receipt] /\ older' \subseteq Keys \X Keys
      /\ receipt'[k] = [status |-> "accepted", payload |-> p, recorded |-> FALSE]
      /\ \A j \in Keys \ {k} : receipt'[j] = receipt[j]
  BY <1>1, <1>2, <1>4, StoreRow
<1>6. "announce" \in Positions /\ "pending" \in Answers
  BY DEF Positions, Answers
<1>7. /\ actor' \in [Actors -> ActorState]
      /\ \A b \in Actors \ {r} : actor'[b] = actor[b]
      /\ actor'[r].key = k /\ actor'[r].payload = p /\ actor'[r].todo = actor[r].todo
      /\ \/ actor'[r].pc = "announce" /\ actor'[r].answer = actor[r].answer
         \/ actor'[r].pc = "done" /\ actor'[r].answer = "pending"
  BY <1>1, <1>2, <1>6, TakenUp, Told
<1>8. TypeOK'
  <2>1. faults' \in Nat
    BY <1>1, <1>2, FaultNat DEF TypeOK
  <2> QED
    BY <1>2, <1>5, <1>7, <2>1 DEF TypeOK, Begin
<1>9. Step(r, k)
  <2>2. \A j \in Keys \ {k} : Same(j)
    BY <1>5 DEF Same, Begin
  <2>3. receipt[k].payload = NoPayload /\ ~receipt[k].recorded /\ Untouched(k)
        /\ k \notin audited
    BY <1>1, ReceiptConstants DEF IInv, CommandInv, Took, Succeeded
  <2>4. Forward(k)
    BY <1>1, <2>3 DEF Forward, Succeeded, Audits, Begin
  <2>5. \A b \in Actors : Owns(b) => actor[b].key # k
    BY <1>1 DEF IInv, OwnerInv
  <2>7. CommandInv(k)'
    BY <1>5, <2>3, ReceiptConstants DEF CommandInv, Untouched, Took, Succeeded, Begin
  <2>8. OwnerInv(r)'
    BY <1>5, <1>7 DEF OwnerInv, Owns
  <2>9. FinisherInv(r)'
    <3>1. \A s \in actor[r].todo : NotAhead(s.row, s.key)'
      <4> TAKE s \in actor[r].todo
      <4>1. s.key \in Keys /\ NotAhead(s.row, s.key)
        BY <1>2, <1>3 DEF ActorState, Snapshot, IInv, FinisherInv
      <4>2. Forward(s.key)
        BY <2>2, <2>4, <4>1, SameForward
      <4> QED
        BY <4>1, <4>2 DEF Forward, NotAhead
    <3> QED
      BY <1>7, <3>1 DEF FinisherInv
  <2>10. AnswerInv(r)'
    BY <1>2, <1>7 DEF AnswerInv, IInv
  <2> QED
    BY <1>5, <1>7, <2>2, <2>4, <2>5, <2>7, <2>8, <2>9, <2>10 DEF Step
<1> QED
  BY <1>2, <1>8, <1>9, StepPreserves

LEMMA TodoKept ==
  ASSUME IInv, NEW a \in Actors, \A j \in Keys : Forward(j)
  PROVE  \A s \in actor[a].todo : NotAhead(s.row, s.key)'
<1> TAKE s \in actor[a].todo
<1>1. s.key \in Keys /\ NotAhead(s.row, s.key)
  BY DEF IInv, TypeOK, ActorState, Snapshot, FinisherInv
<1> QED
  BY <1>1 DEF Forward, NotAhead

\* A step of an owner, at its own command.
OwnerStep(r, k) ==
  /\ Owns(r) /\ actor[r].key = k
  /\ \A b \in Actors \ {r} : actor'[b] = actor[b]
  /\ \A j \in Keys \ {k} : Same(j)
  /\ Forward(k) /\ CommandInv(k)' /\ OwnerInv(r)'
  /\ actor'[r].key = k /\ actor'[r].payload = actor[r].payload
  /\ actor'[r].todo = actor[r].todo
  /\ actor'[r].answer = actor[r].answer \/ actor'[r].answer \in {"error", "pending"}
  /\ \/ Owns(r)' /\ ~receipt'[k].recorded /\ actor'[r].answer = actor[r].answer
     \/ actor'[r].pc = "pend" /\ receipt'[k].status \in Succeeded
        /\ actor'[r].answer = actor[r].answer
     \/ actor'[r].pc = "done"

LEMMA OwnerStepPreserves ==
  ASSUME IInv, TypeOK', NEW r \in Actors, NEW k \in Keys, OwnerStep(r, k)
  PROVE  IInv'
<1>2. r \in Requests /\ \A b \in Actors \ {r} : Owns(b) => actor[b].key # k
  BY DEF IInv, OwnersAlone, OwnerStep
<1>3. /\ receipt[k].status # "absent" /\ actor[r].payload = receipt[k].payload
      /\ actor[r].answer = "none"
  BY DEF IInv, OwnerInv, OwnerStep, AnswerInv, Owns
<1>4. FinisherInv(r)'
  <2>1. \A s \in actor[r].todo : NotAhead(s.row, s.key)'
    BY TodoKept, SameForward DEF OwnerStep
  <2>2. receipt'[k].payload = receipt[k].payload /\ receipt'[k].status # "absent"
    BY <1>3 DEF OwnerStep, Forward
  <2> QED
    BY <1>3, <2>1, <2>2 DEF FinisherInv, OwnerStep, Owns
<1>5. AnswerInv(r)'
  BY <1>3 DEF AnswerInv, OwnerStep
<1>6. Step(r, k)
  BY <1>2, <1>4, <1>5 DEF Step, OwnerStep, Owns
<1> QED
  BY <1>6, StepPreserves

\* What an owner knows.
LEMMA OwnerKnows ==
  ASSUME IInv, NEW r \in Requests, Owns(r)
  PROVE  \E k \in Keys :
           /\ r \in Actors /\ TypeOK /\ actor[r].key = k
           /\ OwnerInv(r) /\ CommandInv(k)
           /\ receipt[k].status # "absent" /\ actor[r].payload = receipt[k].payload
           /\ receipt[k].payload \in Payloads /\ ~receipt[k].recorded
<1>1. r \in Actors /\ TypeOK /\ actor[r].key \in Keys
  BY ActorRow DEF Actors, IInv
<1>2. OwnerInv(r) /\ CommandInv(actor[r].key) /\ ~receipt[actor[r].key].recorded
  BY <1>1 DEF IInv, OwnersAlone
<1> QED
  BY <1>1, <1>2 DEF OwnerInv, CommandInv, TypeOK, Receipt

LEMMA AnnounceKeeps ==
  ASSUME IInv, NEW r \in Requests, Announce(r)
  PROVE  IInv'
<1>1. Owns(r) /\ actor[r].pc = "announce"
  BY DEF Announce, At, Owns
<1>2. PICK k \in Keys :
        /\ r \in Actors /\ TypeOK /\ actor[r].key = k
        /\ OwnerInv(r) /\ CommandInv(k)
        /\ receipt[k].status # "absent" /\ actor[r].payload = receipt[k].payload
        /\ receipt[k].payload \in Payloads /\ ~receipt[k].recorded
  BY <1>1, OwnerKnows
<1>3. /\ announced' \in {announced, announced \cup {k}}
      /\ \/ GoTo(r, "start") /\ k \in announced'
         \/ GoTo(r, "fail")
      /\ UNCHANGED faults \/ Fault
      /\ UNCHANGED <<receipt, older, audited, effects, unreported>>
  BY <1>2 DEF Announce
<1>4. {"start", "fail"} \subseteq Positions
  BY DEF Positions
<1>5. /\ actor' \in [Actors -> ActorState]
      /\ \A b \in Actors \ {r} : actor'[b] = actor[b]
      /\ actor'[r].pc \in {"start", "fail"} /\ (actor'[r].pc = "start" => k \in announced')
      /\ actor'[r].key = k /\ actor'[r].payload = actor[r].payload
      /\ actor'[r].todo = actor[r].todo /\ actor'[r].answer = actor[r].answer
  BY <1>2, <1>3, <1>4, WentTo
<1>6. TypeOK'
  BY <1>2, <1>3, <1>5, FaultNat DEF TypeOK
<1>7. OwnerStep(r, k)
  <2>1. \A j \in Keys \ {k} : Same(j)
    BY <1>3 DEF Same
  <2>2. receipt[k].status = "accepted" /\ Untouched(k)
    BY <1>1, <1>2 DEF OwnerInv, CommandInv
  <2>3. CommandInv(k)'
    BY <1>2, <1>3 DEF CommandInv, Untouched, Took, Succeeded
  <2>4. OwnerInv(r)'
    BY <1>2, <1>3, <1>5, <2>2 DEF OwnerInv, Untouched, Owns
  <2>5. Forward(k)
    BY <1>3 DEF Forward
  <2> QED
    BY <1>1, <1>2, <1>3, <1>5, <2>1, <2>3, <2>4, <2>5 DEF OwnerStep, Owns
<1> QED
  BY <1>2, <1>6, <1>7, OwnerStepPreserves

\* An owner's conditional update: whether it was applied and reported, or not reported.
LEMMA StartEffectKeeps ==
  ASSUME IInv, NEW r \in Requests, StartEffect(r)
  PROVE  IInv'
<1>1. Owns(r) /\ actor[r].pc = "start"
  BY DEF StartEffect, At, Owns
<1>2. PICK k \in Keys :
        /\ r \in Actors /\ TypeOK /\ actor[r].key = k
        /\ OwnerInv(r) /\ CommandInv(k)
        /\ receipt[k].status # "absent" /\ actor[r].payload = receipt[k].payload
        /\ receipt[k].payload \in Payloads /\ ~receipt[k].recorded
  BY <1>1, OwnerKnows
<1>3. /\ UNCHANGED <<announced, audited, effects, unreported>>
      /\ Tried(k, {"accepted"}, "effect_started") /\ (UNCHANGED faults \/ Fault)
      /\ \/ Matches(k, {"accepted"}) /\ Store(k, SetStatus(k, "effect_started"))
            /\ GoTo(r, "execute")
         \/ GoTo(r, "fail")
  BY <1>2 DEF StartEffect, Update, Tried
<1>4. "effect_started" \in ReceiptStatus /\ {"execute", "fail"} \subseteq Positions
  BY DEF ReceiptStatus, Positions
<1>5. /\ receipt' \in [Keys -> Receipt] /\ older' \subseteq Keys \X Keys /\ faults' \in Nat
      /\ \A j \in Keys \ {k} : receipt'[j] = receipt[j]
      /\ receipt'[k].payload = receipt[k].payload
      /\ receipt'[k].recorded = receipt[k].recorded
      /\ receipt'[k].status \in {"accepted", "effect_started"}
  <2>1. receipt[k].status = "accepted"
    BY <1>1, <1>2 DEF OwnerInv
  <2> QED
    BY <1>2, <1>3, <1>4, <2>1, TriedUpdate, FaultNat DEF TypeOK
<1>6. /\ actor' \in [Actors -> ActorState]
      /\ \A b \in Actors \ {r} : actor'[b] = actor[b]
      /\ \/ actor'[r].pc = "fail"
         \/ actor'[r].pc = "execute" /\ receipt'[k].status = "effect_started"
      /\ actor'[r].key = k /\ actor'[r].payload = actor[r].payload
      /\ actor'[r].todo = actor[r].todo /\ actor'[r].answer = actor[r].answer
  BY <1>2, <1>3, <1>4, WentTo, Updated
<1>7. TypeOK'
  BY <1>2, <1>3, <1>5, <1>6 DEF TypeOK
<1>8. OwnerStep(r, k)
  <2>1. \A j \in Keys \ {k} : Same(j)
    BY <1>3, <1>5 DEF Same
  <2>2. receipt[k].status = "accepted" /\ Untouched(k) /\ k \in announced
    BY <1>1, <1>2 DEF OwnerInv, CommandInv
  <2>3. CommandInv(k)'
    BY <1>2, <1>3, <1>5, <2>2 DEF CommandInv, Untouched, Took, Succeeded
  <2>4. OwnerInv(r)'
    BY <1>2, <1>3, <1>5, <1>6, <2>2 DEF OwnerInv, Untouched, Owns
  <2>5. Forward(k)
    BY <1>2, <1>3, <1>5, <2>2 DEF Forward, Succeeded, Audits
  <2> QED
    BY <1>1, <1>2, <1>3, <1>5, <1>6, <2>1, <2>3, <2>4, <2>5 DEF OwnerStep, Owns
<1> QED
  BY <1>2, <1>7, <1>8, OwnerStepPreserves

LEMMA ExecuteKeeps ==
  ASSUME IInv, NEW r \in Requests, Execute(r)
  PROVE  IInv'
<1>1. Owns(r) /\ actor[r].pc = "execute"
  BY DEF Execute, At, Owns
<1>2. PICK k \in Keys :
        /\ r \in Actors /\ TypeOK /\ actor[r].key = k
        /\ OwnerInv(r) /\ CommandInv(k)
        /\ receipt[k].status # "absent" /\ actor[r].payload = receipt[k].payload
        /\ receipt[k].payload \in Payloads /\ ~receipt[k].recorded
  BY <1>1, OwnerKnows
<1>3. receipt[k].status = "effect_started" /\ Untouched(k) /\ k \in announced
  BY <1>1, <1>2 DEF OwnerInv
<1> DEFINE p == receipt[k].payload
           performed == [effects EXCEPT ![k][p] = @ + 1]
<1>4. /\ UNCHANGED <<receipt, older, announced, audited>>
      /\ UNCHANGED faults \/ Fault
      /\ \/ effects' = performed /\ GoTo(r, "record") /\ UNCHANGED unreported
         \/ UNCHANGED <<effects, unreported>> /\ GoTo(r, "fail")
         \/ effects' = performed /\ unreported' = unreported \cup {k} /\ GoTo(r, "fail")
  BY <1>2 DEF Execute
<1>5. {"record", "fail"} \subseteq Positions
  BY DEF Positions
<1>6. /\ performed \in [Keys -> [Payloads -> Nat]]
      /\ performed[k][p] = 1 /\ \A q \in Payloads \ {p} : performed[k][q] = 0
      /\ \A j \in Keys \ {k} : performed[j] = effects[j]
  BY <1>2, <1>3 DEF TypeOK, Untouched
<1>7. /\ actor' \in [Actors -> ActorState]
      /\ \A b \in Actors \ {r} : actor'[b] = actor[b]
      /\ actor'[r].key = k /\ actor'[r].payload = actor[r].payload
      /\ actor'[r].todo = actor[r].todo /\ actor'[r].answer = actor[r].answer
      /\ \/ actor'[r].pc = "record" /\ effects' = performed /\ UNCHANGED unreported
         \/ actor'[r].pc = "fail" /\ UNCHANGED <<effects, unreported>>
         \/ actor'[r].pc = "fail" /\ effects' = performed /\ unreported' = unreported \cup {k}
  BY <1>2, <1>4, <1>5, WentTo
<1> HIDE DEF performed
<1>8. TypeOK'
  BY <1>2, <1>4, <1>6, <1>7, FaultNat DEF TypeOK
<1>9. OwnerStep(r, k)
  <2>1. \A j \in Keys \ {k} : Same(j)
    BY <1>4, <1>6, <1>7 DEF Same
  <2>2. CommandInv(k)'
    BY <1>2, <1>3, <1>4, <1>6, <1>7 DEF CommandInv, Untouched, Took, Succeeded
  <2>3. OwnerInv(r)'
    BY <1>2, <1>3, <1>4, <1>6, <1>7 DEF OwnerInv, Untouched, Took, Owns
  <2>4. Forward(k)
    BY <1>4 DEF Forward
  <2> QED
    BY <1>1, <1>2, <1>4, <1>7, <2>1, <2>2, <2>3, <2>4 DEF OwnerStep, Owns
<1> QED
  BY <1>2, <1>8, <1>9, OwnerStepPreserves

LEMMA FailKeeps ==
  ASSUME IInv, NEW r \in Requests, Fail(r)
  PROVE  IInv'
<1>1. Owns(r) /\ actor[r].pc = "fail"
  BY DEF Fail, At, Owns
<1>2. PICK k \in Keys :
        /\ r \in Actors /\ TypeOK /\ actor[r].key = k
        /\ OwnerInv(r) /\ CommandInv(k)
        /\ receipt[k].status # "absent" /\ actor[r].payload = receipt[k].payload
        /\ receipt[k].payload \in Payloads /\ ~receipt[k].recorded
  BY <1>1, OwnerKnows
<1>3. /\ receipt[k].status \in {"accepted", "effect_started"}
      /\ k \in unreported \/ Untouched(k)
  BY <1>1, <1>2 DEF OwnerInv
<1>4. /\ UNCHANGED <<announced, audited, effects, unreported>>
      /\ Tried(k, {"accepted", "effect_started"}, "failed") /\ (UNCHANGED faults \/ Fault)
      /\ Leave(r, "error")
  BY <1>2 DEF Fail, Tried
<1>5. "failed" \in ReceiptStatus /\ "error" \in Answers
  BY DEF ReceiptStatus, Answers
<1>6. /\ receipt' \in [Keys -> Receipt] /\ older' \subseteq Keys \X Keys /\ faults' \in Nat
      /\ \A j \in Keys \ {k} : receipt'[j] = receipt[j]
      /\ receipt'[k].payload = receipt[k].payload
      /\ receipt'[k].recorded = receipt[k].recorded
      /\ receipt'[k].status \in {"failed", receipt[k].status}
  BY <1>2, <1>4, <1>5, TriedUpdate, FaultNat DEF TypeOK
<1>7. /\ actor' \in [Actors -> ActorState]
      /\ \A b \in Actors \ {r} : actor'[b] = actor[b]
      /\ actor'[r].pc = "done" /\ actor'[r].answer = "error"
      /\ actor'[r].key = k /\ actor'[r].payload = actor[r].payload
      /\ actor'[r].todo = actor[r].todo
  BY <1>2, <1>4, <1>5, Left
<1>8. TypeOK'
  BY <1>2, <1>4, <1>6, <1>7 DEF TypeOK
<1>9. OwnerStep(r, k)
  <2>1. \A j \in Keys \ {k} : Same(j)
    BY <1>4, <1>6 DEF Same
  <2>2. CommandInv(k)'
    BY <1>2, <1>3, <1>4, <1>6 DEF CommandInv, Untouched, Took, Succeeded
  <2>3. OwnerInv(r)'
    BY <1>7 DEF OwnerInv, Owns
  <2>4. Forward(k)
    BY <1>2, <1>3, <1>4, <1>6 DEF Forward, Succeeded, Audits
  <2> QED
    BY <1>1, <1>2, <1>4, <1>6, <1>7, <2>1, <2>2, <2>3, <2>4 DEF OwnerStep
<1> QED
  BY <1>2, <1>8, <1>9, OwnerStepPreserves

LEMMA RecordSuccessKeeps ==
  ASSUME IInv, NEW r \in Requests, RecordSuccess(r)
  PROVE  IInv'
<1>1. Owns(r) /\ actor[r].pc = "record"
  BY DEF RecordSuccess, At, Owns
<1>2. PICK k \in Keys :
        /\ r \in Actors /\ TypeOK /\ actor[r].key = k
        /\ OwnerInv(r) /\ CommandInv(k)
        /\ receipt[k].status # "absent" /\ actor[r].payload = receipt[k].payload
        /\ receipt[k].payload \in Payloads /\ ~receipt[k].recorded
  BY <1>1, OwnerKnows
<1>3. receipt[k].status = "effect_started" /\ Took(k)
  BY <1>1, <1>2 DEF OwnerInv
<1>4. /\ UNCHANGED <<announced, audited, effects, unreported>>
      /\ Tried(k, {"effect_started"}, "effect_succeeded") /\ (UNCHANGED faults \/ Fault)
      /\ \/ Matches(k, {"effect_started"}) /\ Store(k, SetStatus(k, "effect_succeeded"))
            /\ GoTo(r, "pend")
         \/ GoTo(r, "recordResult")
  BY <1>2 DEF RecordSuccess, Update, Tried, AfterLostRecord
<1>5. "effect_succeeded" \in ReceiptStatus /\ {"pend", "recordResult"} \subseteq Positions
  BY DEF ReceiptStatus, Positions
<1>6. /\ receipt' \in [Keys -> Receipt] /\ older' \subseteq Keys \X Keys /\ faults' \in Nat
      /\ \A j \in Keys \ {k} : receipt'[j] = receipt[j]
      /\ receipt'[k].payload = receipt[k].payload
      /\ receipt'[k].recorded = receipt[k].recorded
      /\ receipt'[k].status \in {"effect_started", "effect_succeeded"}
  BY <1>2, <1>3, <1>4, <1>5, TriedUpdate, FaultNat DEF TypeOK
<1>7. /\ actor' \in [Actors -> ActorState]
      /\ \A b \in Actors \ {r} : actor'[b] = actor[b]
      /\ \/ actor'[r].pc = "recordResult"
         \/ actor'[r].pc = "pend" /\ receipt'[k].status = "effect_succeeded"
      /\ actor'[r].key = k /\ actor'[r].payload = actor[r].payload
      /\ actor'[r].todo = actor[r].todo /\ actor'[r].answer = actor[r].answer
  BY <1>2, <1>4, <1>5, WentTo, Updated
<1>8. TypeOK'
  BY <1>2, <1>4, <1>6, <1>7 DEF TypeOK
<1>9. OwnerStep(r, k)
  <2>1. \A j \in Keys \ {k} : Same(j)
    BY <1>4, <1>6 DEF Same
  <2>2. CommandInv(k)'
    BY <1>2, <1>3, <1>4, <1>6 DEF CommandInv, Untouched, Took, Succeeded
  <2>3. OwnerInv(r)'
    BY <1>2, <1>3, <1>4, <1>6, <1>7 DEF OwnerInv, Took, Owns, Succeeded
  <2>4. Forward(k)
    BY <1>2, <1>3, <1>4, <1>6 DEF Forward, Succeeded, Audits
  <2> QED
    BY <1>1, <1>2, <1>4, <1>6, <1>7, <2>1, <2>2, <2>3, <2>4 DEF OwnerStep, Owns, Succeeded
<1> QED
  BY <1>2, <1>8, <1>9, OwnerStepPreserves

LEMMA RecordEffectResultKeeps ==
  ASSUME IInv, NEW r \in Requests, RecordEffectResult(r)
  PROVE  IInv'
<1>1. Owns(r) /\ actor[r].pc = "recordResult"
  BY DEF RecordEffectResult, At, Owns
<1>2. PICK k \in Keys :
        /\ r \in Actors /\ TypeOK /\ actor[r].key = k
        /\ OwnerInv(r) /\ CommandInv(k)
        /\ receipt[k].status # "absent" /\ actor[r].payload = receipt[k].payload
        /\ receipt[k].payload \in Payloads /\ ~receipt[k].recorded
  BY <1>1, OwnerKnows
<1>3. receipt[k].status \in Succeeded \cup {"effect_started"} /\ Took(k)
  BY <1>1, <1>2 DEF OwnerInv
<1> DEFINE recorded == [receipt[k] EXCEPT !.recorded = TRUE]
<1>4. /\ UNCHANGED <<announced, audited, effects, unreported>>
      /\ \/ receipt[k].status = "effect_started" /\ Store(k, recorded)
         \/ UNCHANGED <<receipt, older>>
      /\ UNCHANGED faults \/ Fault
      /\ Leave(r, "pending")
  BY <1>2 DEF RecordEffectResult, Matches
<1>5. /\ recorded \in Receipt /\ recorded.status = receipt[k].status
      /\ recorded.payload = receipt[k].payload
  BY <1>2 DEF TypeOK, Receipt
<1>6. "pending" \in Answers
  BY DEF Answers
<1> HIDE DEF recorded
<1>7. /\ receipt' \in [Keys -> Receipt] /\ older' \subseteq Keys \X Keys /\ faults' \in Nat
      /\ \A j \in Keys \ {k} : receipt'[j] = receipt[j]
      /\ receipt'[k].payload = receipt[k].payload
      /\ receipt'[k].status = receipt[k].status
  BY <1>2, <1>4, <1>5, StoreRow, FaultNat DEF TypeOK
<1>8. /\ actor' \in [Actors -> ActorState]
      /\ \A b \in Actors \ {r} : actor'[b] = actor[b]
      /\ actor'[r].pc = "done" /\ actor'[r].answer = "pending"
      /\ actor'[r].key = k /\ actor'[r].payload = actor[r].payload
      /\ actor'[r].todo = actor[r].todo
  BY <1>2, <1>4, <1>6, Left
<1>9. TypeOK'
  BY <1>2, <1>4, <1>7, <1>8 DEF TypeOK
<1>10. OwnerStep(r, k)
  <2>1. \A j \in Keys \ {k} : Same(j)
    BY <1>4, <1>7 DEF Same
  <2>2. CommandInv(k)'
    BY <1>2, <1>3, <1>4, <1>7 DEF CommandInv, Untouched, Took, Succeeded
  <2>3. OwnerInv(r)'
    BY <1>8 DEF OwnerInv, Owns
  <2>4. Forward(k)
    BY <1>2, <1>3, <1>4, <1>7 DEF Forward, Succeeded, Audits
  <2> QED
    BY <1>1, <1>2, <1>4, <1>8, <2>1, <2>2, <2>3, <2>4 DEF OwnerStep
<1> QED
  BY <1>2, <1>9, <1>10, OwnerStepPreserves

----------------------------------------------------------------------------
(* From a recorded effect to a completed command.                          *)

Finishing == {"recover", "pend", "audit", "complete"}

\* Where a step of a finisher leaves it.
Finished(a, k) ==
  \/ /\ \/ actor'[a].pc = "pend" /\ receipt'[k].status \in Succeeded
        \/ actor'[a].pc = "audit" /\ receipt'[k].status \in Audits
        \/ actor'[a].pc = "complete" /\ receipt'[k].status \in Audits /\ k \in audited'
        \/ actor'[a].pc = "next" /\ a \notin Requests
     /\ actor'[a].answer = actor[a].answer
  \/ /\ actor'[a].pc = "done" /\ a \in Requests
     /\ \/ actor'[a].answer = "pending"
        \/ actor'[a].answer = "completed" /\ receipt'[k].status = "completed"

FinisherStep(a, k) ==
  /\ actor[a].pc \in Finishing /\ actor[a].key = k
  /\ \A b \in Actors \ {a} : actor'[b] = actor[b]
  /\ \A j \in Keys \ {k} : Same(j)
  /\ Forward(k) /\ CommandInv(k)'
  /\ receipt'[k].payload = receipt[k].payload
  /\ \A b \in Actors \ {a} : Owns(b) /\ actor[b].key = k => Quiet(k)
  /\ actor'[a].key = k /\ actor'[a].payload = actor[a].payload
  /\ actor'[a].todo = actor[a].todo
  /\ Finished(a, k)

LEMMA FinisherStepPreserves ==
  ASSUME IInv, TypeOK', NEW a \in Actors, NEW k \in Keys, FinisherStep(a, k)
  PROVE  IInv'
<1>1. /\ a \in Requests => receipt[k].status # "absent" /\ actor[a].payload = receipt[k].payload
      /\ actor[a].answer = "none"
  BY DEF IInv, FinisherInv, FinisherStep, Finishing, AnswerInv
<1>2. \A s \in actor[a].todo : NotAhead(s.row, s.key)'
  BY TodoKept, SameForward DEF FinisherStep
<1>3. FinisherInv(a)'
  BY <1>1, <1>2 DEF FinisherInv, FinisherStep, Finished, Forward
<1>4. OwnerInv(a)' /\ ~Owns(a)'
  BY DEF OwnerInv, Owns, FinisherStep, Finished
<1>5. AnswerInv(a)'
  BY <1>1 DEF AnswerInv, FinisherStep, Finished
<1>6. Step(a, k)
  BY <1>3, <1>4, <1>5 DEF Step, FinisherStep
<1> QED
  BY <1>6, StepPreserves

\* What a finisher knows.
LEMMA FinisherKnows ==
  ASSUME IInv, NEW a \in Actors, actor[a].pc \in Finishing
  PROVE  \E k \in Keys :
           /\ TypeOK /\ actor[a].key = k
           /\ OwnerInv(a) /\ FinisherInv(a) /\ CommandInv(k) /\ actor[a].answer = "none"
           /\ \A b \in Actors \ {a} : Owns(b) /\ actor[b].key = k => ~receipt[k].recorded
<1>1. TypeOK /\ actor[a].key \in Keys
  BY ActorRow DEF IInv
<1> QED
  BY <1>1 DEF IInv, AnswerInv, OwnersAlone, Finishing

LEMMA RecoverKeeps ==
  ASSUME IInv, NEW a \in Actors, Recover(a)
  PROVE  IInv'
<1>1. actor[a].pc = "recover"
  BY DEF Recover, At
<1>2. PICK k \in Keys :
        /\ TypeOK /\ actor[a].key = k
        /\ OwnerInv(a) /\ FinisherInv(a) /\ CommandInv(k) /\ actor[a].answer = "none"
        /\ \A b \in Actors \ {a} : Owns(b) /\ actor[b].key = k => ~receipt[k].recorded
  BY <1>1, FinisherKnows DEF Finishing
<1>3. receipt[k].recorded /\ receipt[k].status \in Succeeded \cup {"effect_started"}
  BY <1>1, <1>2 DEF FinisherInv, CommandInv
<1>4. /\ UNCHANGED <<announced, audited, effects, unreported>>
      /\ Tried(k, {"effect_started"}, "effect_succeeded") /\ (UNCHANGED faults \/ Fault)
      /\ \/ Matches(k, {"effect_started"}) /\ Store(k, SetStatus(k, "effect_succeeded"))
            /\ GoTo(a, "pend")
         \/ Leave(a, "pending")
  BY <1>2 DEF Recover, Update, Tried
<1>5. "effect_succeeded" \in ReceiptStatus /\ {"pending", "completed"} \subseteq Answers
      /\ {"pend", "audit"} \subseteq Positions
  BY DEF ReceiptStatus, Answers, Positions
<1>6. /\ receipt' \in [Keys -> Receipt] /\ older' \subseteq Keys \X Keys /\ faults' \in Nat
      /\ \A j \in Keys \ {k} : receipt'[j] = receipt[j]
      /\ receipt'[k].payload = receipt[k].payload
      /\ receipt'[k].recorded = receipt[k].recorded
      /\ \/ receipt'[k].status = receipt[k].status
         \/ receipt[k].status = "effect_started" /\ receipt'[k].status = "effect_succeeded"
  BY <1>2, <1>4, <1>5, TriedUpdate, FaultNat DEF TypeOK
<1>7. /\ actor' \in [Actors -> ActorState]
      /\ \A b \in Actors \ {a} : actor'[b] = actor[b]
      /\ actor'[a].key = k /\ actor'[a].payload = actor[a].payload
      /\ actor'[a].todo = actor[a].todo
      /\ \/ actor'[a].pc = "pend" /\ receipt'[k].status = "effect_succeeded"
            /\ actor'[a].answer = actor[a].answer
         \/ actor'[a].pc = "done" /\ a \in Requests /\ actor'[a].answer = "pending"
         \/ actor'[a].pc = "next" /\ a \notin Requests /\ actor'[a].answer = actor[a].answer
  BY <1>2, <1>4, <1>5, WentTo, Left, Updated
<1>8. TypeOK'
  BY <1>2, <1>4, <1>6, <1>7 DEF TypeOK
<1>9. FinisherStep(a, k)
  <2>1. \A j \in Keys \ {k} : Same(j)
    BY <1>4, <1>6 DEF Same
  <2>2. CommandInv(k)'
    BY <1>2, <1>3, <1>4, <1>6 DEF CommandInv, Untouched, Took, Succeeded, Audits
  <2>3. Forward(k)
    BY <1>2, <1>3, <1>4, <1>6 DEF Forward, Succeeded, Audits
  <2>4. \A b \in Actors \ {a} : Owns(b) /\ actor[b].key = k => Quiet(k)
    BY <1>2, <1>3, <1>4, <1>6 DEF Quiet, Succeeded, Audits
  <2> QED
    BY <1>1, <1>2, <1>3, <1>4, <1>6, <1>7, <2>1, <2>2, <2>3, <2>4
    DEF FinisherStep, Finished, Finishing, Succeeded, Audits
<1> QED
  BY <1>8, <1>9, FinisherStepPreserves

LEMMA PendKeeps ==
  ASSUME IInv, NEW a \in Actors, Pend(a)
  PROVE  IInv'
<1>1. actor[a].pc = "pend"
  BY DEF Pend, At
<1>2. PICK k \in Keys :
        /\ TypeOK /\ actor[a].key = k
        /\ OwnerInv(a) /\ FinisherInv(a) /\ CommandInv(k) /\ actor[a].answer = "none"
        /\ \A b \in Actors \ {a} : Owns(b) /\ actor[b].key = k => ~receipt[k].recorded
  BY <1>1, FinisherKnows DEF Finishing
<1>3. receipt[k].status \in Succeeded
  BY <1>1, <1>2 DEF FinisherInv, CommandInv
<1>4. /\ UNCHANGED <<announced, audited, effects, unreported>>
      /\ Tried(k, {"effect_succeeded"}, "audit_pending") /\ (UNCHANGED faults \/ Fault)
      /\ \/ Matches(k, {"effect_succeeded"}) /\ Store(k, SetStatus(k, "audit_pending"))
            /\ GoTo(a, "audit")
         \/ Leave(a, "pending")
  BY <1>2 DEF Pend, Update, Tried
<1>5. "audit_pending" \in ReceiptStatus /\ {"pending", "completed"} \subseteq Answers
      /\ {"pend", "audit"} \subseteq Positions
  BY DEF ReceiptStatus, Answers, Positions
<1>6. /\ receipt' \in [Keys -> Receipt] /\ older' \subseteq Keys \X Keys /\ faults' \in Nat
      /\ \A j \in Keys \ {k} : receipt'[j] = receipt[j]
      /\ receipt'[k].payload = receipt[k].payload
      /\ receipt'[k].recorded = receipt[k].recorded
      /\ \/ receipt'[k].status = receipt[k].status
         \/ receipt[k].status = "effect_succeeded" /\ receipt'[k].status = "audit_pending"
  BY <1>2, <1>4, <1>5, TriedUpdate, FaultNat DEF TypeOK
<1>7. /\ actor' \in [Actors -> ActorState]
      /\ \A b \in Actors \ {a} : actor'[b] = actor[b]
      /\ actor'[a].key = k /\ actor'[a].payload = actor[a].payload
      /\ actor'[a].todo = actor[a].todo
      /\ \/ actor'[a].pc = "audit" /\ receipt'[k].status = "audit_pending"
            /\ actor'[a].answer = actor[a].answer
         \/ actor'[a].pc = "done" /\ a \in Requests /\ actor'[a].answer = "pending"
         \/ actor'[a].pc = "next" /\ a \notin Requests /\ actor'[a].answer = actor[a].answer
  BY <1>2, <1>4, <1>5, WentTo, Left, Updated
<1>8. TypeOK'
  BY <1>2, <1>4, <1>6, <1>7 DEF TypeOK
<1>9. FinisherStep(a, k)
  <2>1. \A j \in Keys \ {k} : Same(j)
    BY <1>4, <1>6 DEF Same
  <2>2. CommandInv(k)'
    BY <1>2, <1>3, <1>4, <1>6 DEF CommandInv, Untouched, Took, Succeeded, Audits
  <2>3. Forward(k)
    BY <1>2, <1>3, <1>4, <1>6 DEF Forward, Succeeded, Audits
  <2>4. \A b \in Actors \ {a} : Owns(b) /\ actor[b].key = k => Quiet(k)
    BY <1>2, <1>3, <1>4, <1>6 DEF Quiet, Succeeded, Audits
  <2> QED
    BY <1>1, <1>2, <1>3, <1>4, <1>6, <1>7, <2>1, <2>2, <2>3, <2>4
    DEF FinisherStep, Finished, Finishing, Succeeded, Audits
<1> QED
  BY <1>8, <1>9, FinisherStepPreserves

LEMMA CompleteKeeps ==
  ASSUME IInv, NEW a \in Actors, Complete(a)
  PROVE  IInv'
<1>1. actor[a].pc = "complete"
  BY DEF Complete, At
<1>2. PICK k \in Keys :
        /\ TypeOK /\ actor[a].key = k
        /\ OwnerInv(a) /\ FinisherInv(a) /\ CommandInv(k) /\ actor[a].answer = "none"
        /\ \A b \in Actors \ {a} : Owns(b) /\ actor[b].key = k => ~receipt[k].recorded
  BY <1>1, FinisherKnows DEF Finishing
<1>3. receipt[k].status \in Audits /\ k \in audited
  BY <1>1, <1>2 DEF FinisherInv, CommandInv
<1>4. /\ UNCHANGED <<announced, audited, effects, unreported>>
      /\ Tried(k, {"audit_pending"}, "completed") /\ (UNCHANGED faults \/ Fault)
      /\ \/ Matches(k, {"audit_pending"}) /\ Store(k, SetStatus(k, "completed"))
            /\ Leave(a, "completed")
         \/ Leave(a, "pending")
  BY <1>2 DEF Complete, Update, Tried
<1>5. "completed" \in ReceiptStatus /\ {"pending", "completed"} \subseteq Answers
      /\ {"pend", "audit"} \subseteq Positions
  BY DEF ReceiptStatus, Answers, Positions
<1>6. /\ receipt' \in [Keys -> Receipt] /\ older' \subseteq Keys \X Keys /\ faults' \in Nat
      /\ \A j \in Keys \ {k} : receipt'[j] = receipt[j]
      /\ receipt'[k].payload = receipt[k].payload
      /\ receipt'[k].recorded = receipt[k].recorded
      /\ \/ receipt'[k].status = receipt[k].status
         \/ receipt[k].status = "audit_pending" /\ receipt'[k].status = "completed"
  BY <1>2, <1>4, <1>5, TriedUpdate, FaultNat DEF TypeOK
<1>7. /\ actor' \in [Actors -> ActorState]
      /\ \A b \in Actors \ {a} : actor'[b] = actor[b]
      /\ actor'[a].key = k /\ actor'[a].payload = actor[a].payload
      /\ actor'[a].todo = actor[a].todo
      /\ \/ actor'[a].pc = "done" /\ a \in Requests
            /\ \/ actor'[a].answer = "pending"
               \/ actor'[a].answer = "completed" /\ receipt'[k].status = "completed"
         \/ actor'[a].pc = "next" /\ a \notin Requests /\ actor'[a].answer = actor[a].answer
  BY <1>2, <1>4, <1>5, Left, Updated
<1>8. TypeOK'
  BY <1>2, <1>4, <1>6, <1>7 DEF TypeOK
<1>9. FinisherStep(a, k)
  <2>1. \A j \in Keys \ {k} : Same(j)
    BY <1>4, <1>6 DEF Same
  <2>2. CommandInv(k)'
    BY <1>2, <1>3, <1>4, <1>6 DEF CommandInv, Untouched, Took, Succeeded, Audits
  <2>3. Forward(k)
    BY <1>2, <1>3, <1>4, <1>6 DEF Forward, Succeeded, Audits
  <2>4. \A b \in Actors \ {a} : Owns(b) /\ actor[b].key = k => Quiet(k)
    BY <1>2, <1>3, <1>4, <1>6 DEF Quiet, Succeeded, Audits
  <2> QED
    BY <1>1, <1>2, <1>3, <1>4, <1>6, <1>7, <2>1, <2>2, <2>3, <2>4
    DEF FinisherStep, Finished, Finishing, Succeeded, Audits
<1> QED
  BY <1>8, <1>9, FinisherStepPreserves

LEMMA WriteAuditKeeps ==
  ASSUME IInv, NEW a \in Actors, WriteAudit(a)
  PROVE  IInv'
<1>1. actor[a].pc = "audit"
  BY DEF WriteAudit, At
<1>2. PICK k \in Keys :
        /\ TypeOK /\ actor[a].key = k
        /\ OwnerInv(a) /\ FinisherInv(a) /\ CommandInv(k) /\ actor[a].answer = "none"
        /\ \A b \in Actors \ {a} : Owns(b) /\ actor[b].key = k => ~receipt[k].recorded
  BY <1>1, FinisherKnows DEF Finishing
<1>3. receipt[k].status \in Audits
  BY <1>1, <1>2 DEF FinisherInv
<1>4. /\ UNCHANGED <<receipt, older, announced, effects, unreported>>
      /\ audited' \in {audited, audited \cup {k}} /\ (UNCHANGED faults \/ Fault)
      /\ \/ GoTo(a, "complete") /\ k \in audited'
         \/ Leave(a, "pending")
  BY <1>2 DEF WriteAudit, WithoutAudit
<1>5. "complete" \in Positions /\ "pending" \in Answers
  BY DEF Positions, Answers
<1>6. /\ actor' \in [Actors -> ActorState]
      /\ \A b \in Actors \ {a} : actor'[b] = actor[b]
      /\ actor'[a].key = k /\ actor'[a].payload = actor[a].payload
      /\ actor'[a].todo = actor[a].todo
      /\ \/ actor'[a].pc = "complete" /\ k \in audited' /\ actor'[a].answer = actor[a].answer
         \/ actor'[a].pc = "done" /\ a \in Requests /\ actor'[a].answer = "pending"
         \/ actor'[a].pc = "next" /\ a \notin Requests /\ actor'[a].answer = actor[a].answer
  BY <1>2, <1>4, <1>5, WentTo, Left
<1>7. TypeOK'
  BY <1>2, <1>4, <1>6, FaultNat DEF TypeOK
<1>8. FinisherStep(a, k)
  <2>1. \A j \in Keys \ {k} : Same(j)
    BY <1>4 DEF Same
  <2>2. CommandInv(k)'
    BY <1>2, <1>3, <1>4 DEF CommandInv, Untouched, Took, Succeeded, Audits
  <2>3. Forward(k) /\ Quiet(k)
    BY <1>4 DEF Forward, Quiet
  <2> QED
    BY <1>1, <1>2, <1>3, <1>4, <1>6, <2>1, <2>2, <2>3 DEF FinisherStep, Finished, Finishing
<1> QED
  BY <1>7, <1>8, FinisherStepPreserves

----------------------------------------------------------------------------
(* Replays, scans and stops: the tables stay as they are.                  *)

Tables == <<receipt, announced, audited, effects, unreported>>

\* A step of an actor that owns nothing afterwards and changes no table.
LEMMA LocalStepPreserves ==
  ASSUME IInv, TypeOK', UNCHANGED Tables, NEW a \in Actors,
         \A b \in Actors \ {a} : actor'[b] = actor[b],
         ~Owns(a)', FinisherInv(a)', AnswerInv(a)'
  PROVE  IInv'
<1>1. PICK k \in Keys : TRUE
  BY ReceiptConstants
<1>2. \A j \in Keys : Same(j)
  BY DEF Same, Tables
<1>3. CommandInv(k)'
  BY DEF IInv, CommandInv, Tables, Took, Untouched, Succeeded
<1>4. OwnerInv(a)'
  BY DEF OwnerInv, Owns
<1>5. Step(a, k)
  BY <1>2, <1>3, <1>4, SameForward DEF Step
<1> QED
  BY <1>5, StepPreserves

\* A row says at least this much of where its command is resumed.
LEMMA ResumeRow ==
  ASSUME NEW row \in Receipt, Resumable(row)
  PROVE  \/ ResumeAt(row) = "recover" /\ row.recorded
         \/ ResumeAt(row) = "pend" /\ row.status \in Succeeded
         \/ ResumeAt(row) = "audit" /\ row.status \in Audits
BY DEF Resumable, ResumeAt, Succeeded, Audits

LEMMA ReplayKeeps ==
  ASSUME IInv, NEW r \in Requests, Replay(r)
  PROVE  IInv'
<1>1. PICK k \in Keys, p \in Payloads :
        /\ receipt[k].status # "absent"
        /\ \/ \E answer \in {"conflict", "failed", "pending"} : Tell(r, k, p, answer)
           \/ receipt[k].payload = p /\ receipt[k].status = "completed"
              /\ Tell(r, k, p, "completed")
           \/ receipt[k].payload = p /\ Resumable(receipt[k])
              /\ TakeUp(r, ResumeAt(receipt[k]), k, p)
  BY DEF Replay, SamePayload, Tell, TakeUp
<1>2. r \in Actors /\ TypeOK /\ actor[r].pc = "idle" /\ actor[r].answer = "none"
      /\ receipt[k] \in Receipt
  BY DEF Actors, IInv, Replay, At, AnswerInv, TypeOK
<1>3. UNCHANGED Tables /\ UNCHANGED <<older, faults>>
  BY DEF Replay, Tables
<1>4. {"conflict", "failed", "pending", "completed"} \subseteq Answers
      /\ {"recover", "pend", "audit"} \subseteq Positions
  BY DEF Answers, Positions
<1>5. Resumable(receipt[k]) =>
        \/ ResumeAt(receipt[k]) = "recover" /\ receipt[k].recorded
        \/ ResumeAt(receipt[k]) = "pend" /\ receipt[k].status \in Succeeded
        \/ ResumeAt(receipt[k]) = "audit" /\ receipt[k].status \in Audits
  BY <1>2, ResumeRow
<1>6. /\ actor' \in [Actors -> ActorState]
      /\ \A b \in Actors \ {r} : actor'[b] = actor[b]
      /\ actor'[r].key = k /\ actor'[r].payload = p /\ actor'[r].todo = actor[r].todo
      /\ \/ /\ actor'[r].pc = "done"
            /\ \/ actor'[r].answer \in {"conflict", "failed", "pending"}
               \/ actor'[r].answer = "completed" /\ receipt[k].status = "completed"
                  /\ receipt[k].payload = p
         \/ /\ receipt[k].payload = p /\ actor'[r].answer = actor[r].answer
            /\ \/ actor'[r].pc = "recover" /\ receipt[k].recorded
               \/ actor'[r].pc = "pend" /\ receipt[k].status \in Succeeded
               \/ actor'[r].pc = "audit" /\ receipt[k].status \in Audits
  <2>1. CASE \E answer \in {"conflict", "failed", "pending"} : Tell(r, k, p, answer)
    BY <1>2, <1>4, <2>1, Told
  <2>2. CASE receipt[k].payload = p /\ receipt[k].status = "completed"
             /\ Tell(r, k, p, "completed")
    BY <1>2, <1>4, <2>2, Told
  <2>3. CASE receipt[k].payload = p /\ Resumable(receipt[k])
             /\ TakeUp(r, ResumeAt(receipt[k]), k, p)
    <3>1. ResumeAt(receipt[k]) \in Positions
      BY <1>4, <1>5, <2>3
    <3> QED
      BY <1>2, <1>5, <2>3, <3>1, TakenUp
  <2> QED
    BY <1>1, <2>1, <2>2, <2>3
<1>7. TypeOK'
  BY <1>2, <1>3, <1>6 DEF TypeOK, Tables
<1>8. FinisherInv(r)'
  <2>1. \A s \in actor[r].todo : NotAhead(s.row, s.key)'
    BY <1>2, <1>3 DEF Tables, NotAhead, IInv, FinisherInv
  <2> QED
    BY <1>1, <1>3, <1>6, <2>1 DEF FinisherInv, Tables
<1>9. AnswerInv(r)' /\ ~Owns(r)'
  BY <1>2, <1>3, <1>6 DEF AnswerInv, Owns, Tables
<1> QED
  BY <1>2, <1>3, <1>6, <1>7, <1>8, <1>9, LocalStepPreserves

\* What a reconciler has read is not ahead of the table it read.
LEMMA ScanKeeps ==
  ASSUME IInv, NEW c \in Reconcilers, Scan(c)
  PROVE  IInv'
<1>1. PICK page \in SUBSET Keys :
        actor' = [actor EXCEPT ![c] =
          [@ EXCEPT !.pc = "next", !.todo = {[key |-> k, row |-> receipt[k]] : k \in page}]]
  BY DEF Scan, Pages
<1> DEFINE todo == {[key |-> k, row |-> receipt[k]] : k \in page}
           new == [actor[c] EXCEPT !.pc = "next", !.todo = todo]
<1>2. c \in Actors /\ c \notin Requests /\ TypeOK
  BY ReceiptConstants DEF Actors, IInv
<1>3. actor[c] \in ActorState
  BY <1>2, ActorRow
<1>4. todo \in SUBSET Snapshot
  BY <1>2 DEF TypeOK, Snapshot
<1>5. \A s \in todo : NotAhead(s.row, s.key)
  BY DEF NotAhead
<1> HIDE DEF todo
<1>6. new \in ActorState /\ new.pc = "next" /\ new.todo = todo /\ new.answer = actor[c].answer
  BY <1>3, <1>4 DEF ActorState
<1> HIDE DEF new
<1>7. actor' = [actor EXCEPT ![c] = new]
  BY <1>1 DEF new, todo
<1>8. /\ actor' \in [Actors -> ActorState] /\ actor'[c] = new
      /\ \A b \in Actors \ {c} : actor'[b] = actor[b]
  BY <1>2, <1>6, <1>7, NewState
<1>9. UNCHANGED Tables /\ UNCHANGED <<older, faults>> /\ actor[c].answer = "none"
  BY <1>2 DEF Scan, Tables, IInv, AnswerInv, At
<1>10. TypeOK'
  BY <1>2, <1>8, <1>9 DEF TypeOK, Tables
<1>11. FinisherInv(c)'
  BY <1>2, <1>5, <1>6, <1>8, <1>9 DEF FinisherInv, NotAhead, Tables
<1>12. AnswerInv(c)' /\ ~Owns(c)'
  BY <1>6, <1>8, <1>9 DEF AnswerInv, Owns
<1> QED
  BY <1>2, <1>8, <1>9, <1>10, <1>11, <1>12, LocalStepPreserves

LEMMA NextRowKeeps ==
  ASSUME IInv, NEW c \in Reconcilers, NextRow(c)
  PROVE  IInv'
<1>1. PICK s \in actor[c].todo :
        actor' = [actor EXCEPT ![c] =
          [@ EXCEPT !.pc = IF Resumable(s.row) THEN ResumeAt(s.row) ELSE "next",
                    !.key = s.key, !.todo = actor[c].todo \ {s}]]
  BY DEF NextRow
<1> DEFINE pc == IF Resumable(s.row) THEN ResumeAt(s.row) ELSE "next"
           new == [actor[c] EXCEPT !.pc = pc, !.key = s.key, !.todo = actor[c].todo \ {s}]
<1>2. c \in Actors /\ c \notin Requests /\ TypeOK /\ actor[c].pc = "next"
  BY ReceiptConstants DEF Actors, IInv, NextRow, At
<1>3. actor[c] \in ActorState
  BY <1>2, ActorRow
<1>4. /\ s.key \in Keys /\ s.row \in Receipt
      /\ \A t \in actor[c].todo : NotAhead(t.row, t.key)
  BY <1>2, <1>3 DEF ActorState, Snapshot, IInv, FinisherInv
<1>5. \/ pc = "next"
      \/ pc = "recover" /\ s.row.recorded
      \/ pc = "pend" /\ s.row.status \in Succeeded
      \/ pc = "audit" /\ s.row.status \in Audits
  BY <1>4, ResumeRow
<1> HIDE DEF pc
<1>6. /\ new \in ActorState /\ new.pc = pc /\ new.key = s.key /\ new.todo = actor[c].todo \ {s}
      /\ new.answer = actor[c].answer
  BY <1>3, <1>4, <1>5 DEF ActorState
<1> HIDE DEF new
<1>7. actor' = [actor EXCEPT ![c] = new]
  BY <1>1 DEF new, pc
<1>8. /\ actor' \in [Actors -> ActorState] /\ actor'[c] = new
      /\ \A b \in Actors \ {c} : actor'[b] = actor[b]
  BY <1>2, <1>6, <1>7, NewState
<1>9. UNCHANGED Tables /\ UNCHANGED <<older, faults>> /\ actor[c].answer = "none"
  BY <1>2 DEF NextRow, Tables, IInv, AnswerInv
<1>10. TypeOK'
  BY <1>2, <1>8, <1>9 DEF TypeOK, Tables
<1>11. FinisherInv(c)'
  BY <1>2, <1>4, <1>5, <1>6, <1>8, <1>9 DEF FinisherInv, NotAhead, Tables
<1>12. AnswerInv(c)' /\ ~Owns(c)'
  BY <1>5, <1>6, <1>8, <1>9 DEF AnswerInv, Owns
<1> QED
  BY <1>2, <1>8, <1>9, <1>10, <1>11, <1>12, LocalStepPreserves

\* A reconciler that starts over, and a process that dies.
LEMMA RestKeeps ==
  ASSUME IInv, NEW a \in Actors, (a \in Reconcilers /\ EndOfScan(a)) \/ Stop(a)
  PROVE  IInv'
<1> DEFINE ended == [actor[a] EXCEPT !.pc = "done", !.answer = "error"]
<1>1. TypeOK /\ actor[a] \in ActorState /\ "error" \in Answers
  BY ActorRow DEF IInv, Answers
<1>2. /\ ended \in ActorState /\ ended.pc = "done" /\ ended.answer = "error"
      /\ ended.todo = actor[a].todo
  BY <1>1, Ended
<1>3. /\ IdleActor \in ActorState /\ IdleActor.pc = "idle" /\ IdleActor.todo = {}
      /\ IdleActor.answer = "none"
  BY IdleType DEF IdleActor
<1> HIDE DEF ended
<1>4. actor' = [actor EXCEPT ![a] = IdleActor] \/ actor' = [actor EXCEPT ![a] = ended]
  BY DEF EndOfScan, Stop, ended
<1>5. /\ actor' \in [Actors -> ActorState]
      /\ \A b \in Actors \ {a} : actor'[b] = actor[b]
      /\ actor'[a] \in {IdleActor, ended}
  BY <1>1, <1>2, <1>3, <1>4, NewState
<1>6. UNCHANGED Tables /\ UNCHANGED older /\ (UNCHANGED faults \/ Fault)
  BY DEF EndOfScan, Stop, Tables
<1>7. TypeOK'
  BY <1>1, <1>5, <1>6, FaultNat DEF TypeOK, Tables
<1>8. FinisherInv(a)'
  <2>1. \A s \in actor[a].todo : NotAhead(s.row, s.key)'
    BY <1>6 DEF Tables, NotAhead, IInv, FinisherInv
  <2> QED
    BY <1>2, <1>3, <1>5, <2>1 DEF FinisherInv
<1>9. AnswerInv(a)' /\ ~Owns(a)'
  BY <1>2, <1>3, <1>5 DEF AnswerInv, Owns
<1> QED
  BY <1>5, <1>6, <1>7, <1>8, <1>9, LocalStepPreserves

----------------------------------------------------------------------------
(* The invariant and what follows from it.                                 *)

LEMMA InitIInv == Init => IInv
<1> SUFFICES ASSUME Init PROVE IInv
  OBVIOUS
<1>1. TypeOK
  BY InitTypeOK
<1>2. \A k \in Keys : CommandInv(k)
  BY DEF Init, CommandInv, AbsentReceipt, Untouched, Succeeded
<1>3. \A a \in Actors : actor[a] = IdleActor /\ ~Owns(a)
  BY DEF Init, IdleActor, Owns
<1>4. OwnersAlone
  BY <1>3 DEF OwnersAlone
<1>5. \A a \in Actors : OwnerInv(a) /\ FinisherInv(a) /\ AnswerInv(a)
  BY <1>3 DEF OwnerInv, Owns, FinisherInv, AnswerInv, IdleActor
<1> QED
  BY <1>1, <1>2, <1>4, <1>5 DEF IInv

LEMMA NextIInv == IInv /\ [Next]_vars => IInv'
<1> SUFFICES ASSUME IInv, [Next]_vars PROVE IInv'
  OBVIOUS
<1>1. \A a \in Actors : FinishStep(a) => IInv'
  BY RecoverKeeps, PendKeeps, WriteAuditKeeps, CompleteKeeps DEF FinishStep
<1>2. ASSUME NEW r \in Requests, Begin(r) \/ Replay(r) \/ Proceed(r)
      PROVE  IInv'
  BY <1>1, <1>2, BeginKeeps, ReplayKeeps, AnnounceKeeps, StartEffectKeeps, ExecuteKeeps,
     FailKeeps, RecordSuccessKeeps, RecordEffectResultKeeps DEF Proceed, Actors
<1>3. ASSUME NEW c \in Reconcilers, ReconcilerStep(c)
      PROVE  IInv'
  BY <1>1, <1>3, ScanKeeps, NextRowKeeps, RestKeeps DEF ReconcilerStep, Actors
<1>4. ASSUME NEW a \in Actors, Stop(a)
      PROVE  IInv'
  BY <1>4, RestKeeps
<1>5. CASE UNCHANGED vars
  <2>1. UNCHANGED Tables /\ UNCHANGED <<older, actor, faults>>
    BY <1>5 DEF vars, Tables
  <2>2. TypeOK'
    BY <2>1 DEF IInv, TypeOK, Tables
  <2>3. (\A k \in Keys : CommandInv(k))'
    BY <2>1 DEF IInv, CommandInv, Untouched, Took, Succeeded, Tables
  <2>4. OwnersAlone' /\ (\A a \in Actors : OwnerInv(a) /\ FinisherInv(a) /\ AnswerInv(a))'
    BY <2>1 DEF IInv, OwnersAlone, OwnerInv, FinisherInv, AnswerInv, Owns, NotAhead,
                Untouched, Took, Tables
  <2> QED
    BY <2>2, <2>3, <2>4 DEF IInv
<1> QED
  BY <1>2, <1>3, <1>4, <1>5 DEF Next

LEMMA Invariance == Spec => []IInv
BY InitIInv, NextIInv, PTL DEF Spec

\* Every variable keeps its type.
THEOREM Typing == Spec => []TypeOK
<1>1. IInv => TypeOK
  BY DEF IInv
<1> QED
  BY <1>1, Invariance, PTL

\* However often a command is sent, replayed or reconciled, it takes effect at
\* most once, and only for the payload of its receipt.
THEOREM AtMostOnce == Spec => []EffectAtMostOnce
<1>1. IInv => EffectAtMostOnce
  BY DEF IInv, CommandInv, EffectAtMostOnce
<1> QED
  BY <1>1, Invariance, PTL

\* The .requested row precedes the effect, the effect the .succeeded row, and
\* the .succeeded row the completed receipt.
THEOREM Audited == Spec => []AuditTrail
<1>1. IInv => AuditTrail
  <2> SUFFICES ASSUME IInv, NEW k \in Keys
               PROVE  LET took == \E p \in Payloads : effects[k][p] > 0
                      IN /\ took => k \in announced
                         /\ k \in audited => took
                         /\ receipt[k].status = "completed" => k \in audited
    BY DEF AuditTrail
  <2>1. CommandInv(k)
    BY DEF IInv
  <2>2. Took(k) => \E p \in Payloads : effects[k][p] > 0
    BY DEF Took
  <2> QED
    BY <2>1, <2>2 DEF CommandInv
<1> QED
  BY <1>1, Invariance, PTL

\* A command is only marked as failed before its effect, or when the call that
\* had the effect threw.
THEOREM FailedWithoutEffect == Spec => []FailedHasNoEffect
<1>1. IInv => FailedHasNoEffect
  BY DEF IInv, CommandInv, FailedHasNoEffect, Untouched
<1> QED
  BY <1>1, Invariance, PTL

\* Whoever is told "completed" asked for the payload that was carried out and
\* audited.
THEOREM Confirmed == Spec => []ConfirmedWasDone
<1>1. IInv => ConfirmedWasDone
  <2> SUFFICES ASSUME IInv, NEW r \in Requests, actor[r].answer = "completed"
               PROVE  LET k == actor[r].key
                      IN /\ effects[k][actor[r].payload] = 1 /\ k \in audited
                         /\ receipt[k].status = "completed"
    BY DEF ConfirmedWasDone
  <2>1. r \in Actors /\ actor[r].key \in Keys
    BY ActorRow DEF IInv, Actors
  <2>2. CommandInv(actor[r].key) /\ AnswerInv(r)
    BY <2>1 DEF IInv
  <2> QED
    BY <2>2 DEF CommandInv, AnswerInv, Took, Succeeded
<1> QED
  BY <1>1, Invariance, PTL

----------------------------------------------------------------------------
(* Receipts only move forward.                                             *)

\* The writes of receipts that the code has.
Moves(k) ==
  \/ receipt'[k].status = receipt[k].status
  \/ receipt[k].status = "absent" /\ receipt'[k].status = "accepted"
  \/ receipt[k].status = "accepted" /\ receipt'[k].status = "effect_started"
  \/ receipt[k].status \in {"accepted", "effect_started"} /\ receipt'[k].status = "failed"
  \/ receipt[k].status = "effect_started" /\ receipt'[k].status = "effect_succeeded"
  \/ receipt[k].status = "effect_succeeded" /\ receipt'[k].status = "audit_pending"
  \/ receipt[k].status = "audit_pending" /\ receipt'[k].status = "completed"

LEMMA UpdateMoves ==
  ASSUME TypeOK, NEW i \in Keys, NEW from, NEW to \in ReceiptStatus, Tried(i, from, to),
         \A status \in from : \/ status = "accepted" /\ to = "effect_started"
                              \/ status \in {"accepted", "effect_started"} /\ to = "failed"
                              \/ status = "effect_started" /\ to = "effect_succeeded"
                              \/ status = "effect_succeeded" /\ to = "audit_pending"
                              \/ status = "audit_pending" /\ to = "completed"
  PROVE  \A k \in Keys : Moves(k)
<1> TAKE k \in Keys
<1>1. CASE k = i
  BY <1>1, TriedUpdate DEF Moves
<1>2. CASE k # i
  BY <1>2, TriedUpdate DEF Moves
<1> QED
  BY <1>1, <1>2

LEMMA NextMoves ==
  ASSUME TypeOK, [Next]_vars
  PROVE  \A k \in Keys : Moves(k)
<1> USE DEF ReceiptStatus
<1>1. \A a \in Actors : actor[a].key \in Keys
  BY ActorRow
<1>2. \A r \in Requests : r \in Actors
  BY DEF Actors
<1>3. CASE UNCHANGED receipt
  BY <1>3 DEF Moves
<1>4. ASSUME NEW r \in Requests, Begin(r)
      PROVE  \A k \in Keys : Moves(k)
  <2>1. PICK i \in Keys, p \in Payloads :
          receipt[i].status = "absent"
          /\ Store(i, [status |-> "accepted", payload |-> p, recorded |-> FALSE])
    BY <1>4 DEF Begin, NewKey
  <2> QED
    BY <2>1 DEF Store, Moves, TypeOK
<1>5. ASSUME NEW r \in Requests, StartEffect(r)
      PROVE  \A k \in Keys : Moves(k)
  <2>1. Tried(actor[r].key, {"accepted"}, "effect_started")
    BY <1>5 DEF StartEffect, Update, Tried
  <2> QED
    BY <1>1, <1>2, <2>1, UpdateMoves
<1>6. ASSUME NEW r \in Requests, Fail(r)
      PROVE  \A k \in Keys : Moves(k)
  <2>1. Tried(actor[r].key, {"accepted", "effect_started"}, "failed")
    BY <1>6 DEF Fail, Tried
  <2> QED
    BY <1>1, <1>2, <2>1, UpdateMoves
<1>7. ASSUME NEW a \in Actors, RecordSuccess(a) \/ Recover(a)
      PROVE  \A k \in Keys : Moves(k)
  <2>1. Tried(actor[a].key, {"effect_started"}, "effect_succeeded")
    BY <1>7 DEF RecordSuccess, Recover, Update, Tried
  <2> QED
    BY <1>1, <2>1, UpdateMoves
<1>8. ASSUME NEW r \in Requests, RecordEffectResult(r)
      PROVE  \A k \in Keys : Moves(k)
  BY <1>1, <1>2, <1>8 DEF RecordEffectResult, Matches, Store, Moves, TypeOK, Receipt
<1>9. ASSUME NEW a \in Actors, Pend(a)
      PROVE  \A k \in Keys : Moves(k)
  <2>1. Tried(actor[a].key, {"effect_succeeded"}, "audit_pending")
    BY <1>9 DEF Pend, Update, Tried
  <2> QED
    BY <1>1, <2>1, UpdateMoves
<1>10. ASSUME NEW a \in Actors, Complete(a)
       PROVE  \A k \in Keys : Moves(k)
  <2>1. Tried(actor[a].key, {"audit_pending"}, "completed")
    BY <1>10 DEF Complete, Update, Tried
  <2> QED
    BY <1>1, <2>1, UpdateMoves
<1>11. ASSUME NEW r \in Requests, Replay(r) \/ Announce(r) \/ Execute(r)
       PROVE  UNCHANGED receipt
  BY <1>11 DEF Replay, Announce, Execute
<1>12. ASSUME NEW a \in Actors, Scan(a) \/ NextRow(a) \/ EndOfScan(a) \/ WriteAudit(a) \/ Stop(a)
       PROVE  UNCHANGED receipt
  BY <1>12 DEF Scan, NextRow, EndOfScan, WriteAudit, Stop
<1> QED
  BY <1>2, <1>3, <1>4, <1>5, <1>6, <1>7, <1>8, <1>9, <1>10, <1>11, <1>12
  DEF Next, Proceed, ReconcilerStep, FinishStep, Actors, vars

\* However late a delayed update arrives, a receipt never goes back, and a
\* completed or failed one stays as it is.
THEOREM MovesForward == Spec => ReceiptMovesForward
<1>1. TypeOK /\ [Next]_vars =>
        \A k \in Keys : receipt'[k].status # receipt[k].status =>
          Rank(receipt[k].status) < Rank(receipt'[k].status)
  <2> SUFFICES ASSUME TypeOK, [Next]_vars, NEW k \in Keys,
                      receipt'[k].status # receipt[k].status
               PROVE  Rank(receipt[k].status) < Rank(receipt'[k].status)
    OBVIOUS
  <2>1. Moves(k)
    BY NextMoves
  <2> QED
    BY <2>1 DEF Moves, Rank
<1>2. IInv => TypeOK
  BY DEF IInv
<1> QED
  BY <1>1, <1>2, Invariance, PTL DEF Spec, ReceiptMovesForward
=============================================================================
