------------------------ MODULE StrategyGovernance ------------------------
(***************************************************************************)
(* Strategy versions and the learned patterns that belong to them: drafts, *)
(* publication, rollback, and what an analysis reads.                      *)
(*                                                                         *)
(* A publication is a series of calls without a transaction.  When one of  *)
(* them fails the publication compensates: it writes back what it had read *)
(* at its start, and answers "restored" or "incomplete".  Publications of  *)
(* one process wait for each other in a chain of promises; the learner and *)
(* the creation of drafts do not wait.  One process serves the             *)
(* application; it may crash anywhere.  A write whose call fails may have  *)
(* been applied.                                                           *)
(***************************************************************************)
EXTENDS Integers, FiniteSets, Sequences

CONSTANTS
  Versions,
  Patterns,    \* rows of learned_patterns: market, key and league
  First,       \* the strategy that is published to begin with
  Drafts,      \* drafts that exist to begin with
  Admins,      \* requests of administrators, one each
  Learners,    \* runs of POST /api/analysis/learn, one each
  None,
  MaxTime,     \* bound on the clock
  MaxFaults    \* bound: failed calls and crashes

ASSUME StrategyConstants ==
  /\ First \in Versions
  /\ Drafts \subseteq Versions \ {First}
  /\ None \notin Versions \cup Nat
  /\ MaxTime \in Nat /\ MaxFaults \in Nat

VARIABLES
  strategy,    \* strategy_versions
  pattern,     \* learned_patterns
  job,         \* requests of administrators
  queue,       \* publicationQueue: who publishes, and who waits
  learner,
  sound,       \* no publication was cut short since the last that succeeded
  clock,
  faults

vars == <<strategy, pattern, job, queue, learner, sound, clock, faults>>

----------------------------------------------------------------------------
Times == 0..MaxTime
Moment == Times \cup {None}

Strategy == [status : {"absent", "draft", "published", "retired"},
             from : Moment, at : Moment, until : Moment,   \* effective_from, published_at, retired_at
             failed : BOOLEAN]                             \* model_config.governanceFailure

Pattern == [status : {"absent", "draft", "published", "retired"},
            version : Versions \cup {None}, at : Moment, until : Moment]

NoStrategy == [status |-> "absent", from |-> None, at |-> None, until |-> None, failed |-> FALSE]
NoPattern == [status |-> "absent", version |-> None, at |-> None, until |-> None]
Draft == [NoStrategy EXCEPT !.status = "draft"]

Published == {v \in Versions : strategy[v].status = "published"}

\* Any version not in use: its name has a time and a random part.
Fresh == CHOOSE v \in Versions : strategy[v].status = "absent"
FreshLeft == \E v \in Versions : strategy[v].status = "absent"

----------------------------------------------------------------------------
(* What an analysis or a backtest as of t reads.                           *)

Visible(row, t) ==
  /\ row.status \in {"published", "retired"}
  /\ row.from # None /\ row.from <= t
  /\ row.at # None /\ row.at <= t
  /\ row.until = None \/ row.until > t

\* loadPublishedStrategy
InEffect(t) ==
  LET from == [v \in {w \in Versions : Visible(strategy[w], t)} |-> strategy[v].from]
  IN IF DOMAIN from = {}
     THEN None
     ELSE CHOOSE v \in DOMAIN from : \A w \in DOMAIN from : from[w] <= from[v]

\* learnedContext of SupabaseStrategyRepository
Learned(t) ==
  {p \in Patterns :
     /\ pattern[p].status \in {"published", "retired"}
     /\ pattern[p].version = InEffect(t)
     /\ pattern[p].at # None /\ pattern[p].at <= t
     /\ pattern[p].until = None \/ pattern[p].until > t}

ReadAt(t) == [strategy |-> InEffect(t), patterns |-> Learned(t)]

----------------------------------------------------------------------------
(* Requests.                                                               *)

Steps == {"snapshots", "retire", "activate", "retirePatterns", "activatePatterns", "verify",
          "undoTarget", "undoStrategies", "undoPatterns", "checkPatterns"}

\* A partial map of keys to members of a type.
Rows(rows, keys, type) == DOMAIN rows \subseteq keys /\ \A x \in DOMAIN rows : rows[x] \in type

JobState(j) ==
  /\ j.pc \in {"idle", "queued", "over"} \cup Steps
  /\ j.version \in Versions \cup {None}
  /\ j.from \in Moment                            \* effectiveFrom
  /\ j.now \in Moment                             \* what it writes as published_at
  /\ Rows(j.priors, Versions, Strategy)           \* priorStrategies and the target
  /\ Rows(j.snapshot, Patterns, Pattern)          \* patternSnapshots
  /\ j.left \subseteq Versions \cup Patterns       \* still to be written back
  /\ j.errors \in BOOLEAN                         \* compensationErrors
  /\ j.answer \in {"none", "refused", "published", "restored", "incomplete", "crashed"}
  /\ Rows(j.effect, Times, [strategy : Versions \cup {None}, patterns : SUBSET Patterns])
                                                  \* ReadAt when it began, and
  /\ j.relearned \subseteq Patterns               \* what the learner wrote since

Nothing == [x \in {} |-> x]

Idle == [pc |-> "idle", version |-> None, from |-> None, now |-> None, priors |-> Nothing,
         snapshot |-> Nothing, left |-> {}, errors |-> FALSE, answer |-> "none",
         effect |-> Nothing, relearned |-> {}]

LearnerState == [pc : {"idle", "saving", "over"}, version : Versions \cup {None},
                 left : SUBSET Patterns]

Init ==
  /\ strategy = [v \in Versions |->
       IF v = First THEN [NoStrategy EXCEPT !.status = "published", !.from = 0, !.at = 0]
       ELSE IF v \in Drafts THEN Draft ELSE NoStrategy]
  /\ \E known \in SUBSET Patterns :
       pattern = [p \in Patterns |->
         IF p \in known
         THEN [NoPattern EXCEPT !.status = "published", !.version = First, !.at = 0]
         ELSE NoPattern]
  /\ job = [a \in Admins |-> Idle]
  /\ queue = <<>>
  /\ learner = [l \in Learners |-> [pc |-> "idle", version |-> None, left |-> {}]]
  /\ sound = TRUE
  /\ clock = 0
  /\ faults = 0

Set(a, state) == job' = [job EXCEPT ![a] = state]

Answer(a, answer) == Set(a, [Idle EXCEPT !.pc = "over", !.answer = answer])

\* What a call comes to: answered, or failed before or after it took effect.
Call(Applied, Missed, Ok, Error) ==
  \/ Applied /\ Ok /\ UNCHANGED faults
  \/ /\ faults < MaxFaults /\ faults' = faults + 1
     /\ Applied \/ Missed
     /\ Error

----------------------------------------------------------------------------
(* Drafts and rollbacks.                                                   *)

NewDraft(v) == strategy' = [strategy EXCEPT ![v] = Draft]

CreateDraft(a) ==
  /\ job[a].pc = "idle"
  /\ FreshLeft
  /\ NewDraft(Fresh)
  /\ Answer(a, "none")
  /\ UNCHANGED <<pattern, queue, learner, sound, clock, faults>>

\* Joining the chain of promises.
Enqueue(a, version, from) ==
  /\ queue' = Append(queue, a)
  /\ Set(a, [Idle EXCEPT !.pc = "queued", !.version = version, !.from = from])

\* PATCH strategy.publish; an effective time may be given.
Publish(a) ==
  /\ job[a].pc = "idle"
  /\ \E v \in Versions, from \in Moment : Enqueue(a, v, from)
  /\ UNCHANGED <<strategy, pattern, learner, sound, clock, faults>>

\* PATCH strategy.rollback: a copy of some version is published, as of the moment
\* it was asked for.
Rollback(a) ==
  /\ job[a].pc = "idle"
  /\ FreshLeft
  /\ Call(NewDraft(Fresh), UNCHANGED strategy,
       Enqueue(a, Fresh, clock),
       Answer(a, "refused") /\ UNCHANGED queue)
  /\ UNCHANGED <<pattern, learner, sound, clock>>

----------------------------------------------------------------------------
(* A publication.                                                          *)

\* Mutant: the chain is released before the compensation, not after it.
TurnDuringUndo(a) ==
  /\ job[a].pc = "queued"
  /\ \/ Head(queue) = a
     \/ job[Head(queue)].pc \in {"undoTarget", "undoStrategies", "undoPatterns", "checkPatterns"}

Turn(a) == job[a].pc = "queued" /\ Head(queue) = a

\* release(), whichever way the publication ends: the next in the chain goes on
Release == queue' = Tail(queue)

\* publishWithCompensation starts.
Begin(a) ==
  /\ Turn(a)
  /\ Set(a, [job[a] EXCEPT !.pc = "snapshots", !.from = IF @ = None THEN clock ELSE @])
  /\ UNCHANGED <<strategy, pattern, queue, learner, sound, clock, faults>>

\* The three reads; nothing else writes what the first two return.
ReadSnapshots(a) ==
  LET v == job[a].version
      snapshot == {p \in Patterns :
        \/ pattern[p].status = "published"
        \/ pattern[p].status = "draft" /\ pattern[p].version = v}
  IN /\ job[a].pc = "snapshots"
     /\ \/ /\ strategy[v].status = "draft"
           /\ Set(a, [job[a] EXCEPT !.pc = "retire", !.now = clock,
                !.priors = [w \in Published \cup {v} |-> strategy[w]],
                !.snapshot = [p \in snapshot |-> pattern[p]],
                !.effect = [t \in Times |-> ReadAt(t)]])
           /\ UNCHANGED <<queue, faults>>
        \/ /\ strategy[v].status # "draft"
           /\ Answer(a, "refused") /\ Release
           /\ UNCHANGED faults
        \/ /\ faults < MaxFaults /\ faults' = faults + 1
           /\ Answer(a, "refused") /\ Release
     /\ UNCHANGED <<strategy, pattern, learner, sound, clock>>

Go(a, pc) == Set(a, [job[a] EXCEPT !.pc = pc])

\* catch: the rows of the snapshots are written back one by one.
Undo(a) == Set(a, [job[a] EXCEPT !.pc = "undoTarget"])

\* Mutant: retired a moment too late.
RetiredLate(row, until) == [row EXCEPT !.status = "retired", !.until = until + 1]

Retired(row, until) == [row EXCEPT !.status = "retired", !.until = until]

RetireStrategies(a) ==
  /\ job[a].pc = "retire"
  /\ Call(strategy' = [v \in Versions |->
            IF v \in Published THEN Retired(strategy[v], job[a].from) ELSE strategy[v]],
          UNCHANGED strategy,
          Go(a, "activate"), Undo(a))
  /\ UNCHANGED <<pattern, queue, learner, sound, clock>>

\* Mutant: effective at once, whatever time was asked for.
ReleasedAtOnce(a) ==
  [status |-> "published", from |-> job[a].now, at |-> job[a].now, until |-> None,
   failed |-> FALSE]

Released(a) ==
  [status |-> "published", from |-> job[a].from, at |-> job[a].now, until |-> None,
   failed |-> FALSE]

Activate(a) ==
  LET v == job[a].version
  IN /\ job[a].pc = "activate"
     /\ IF strategy[v].status = "draft"
        THEN Call(strategy' = [strategy EXCEPT ![v] = Released(a)], UNCHANGED strategy,
                  Go(a, "retirePatterns"), Undo(a))
        ELSE Undo(a) /\ UNCHANGED <<strategy, faults>>
     /\ UNCHANGED <<pattern, queue, learner, sound, clock>>

\* Mutant: only the patterns of the strategies that are being retired.
SupersededOfPriors(a, p) ==
  pattern[p].status = "published" /\ pattern[p].version \in DOMAIN job[a].priors

Superseded(a, p) == pattern[p].status = "published"

RetirePatterns(a) ==
  /\ job[a].pc = "retirePatterns"
  /\ Call(pattern' = [p \in Patterns |->
            IF Superseded(a, p) THEN Retired(pattern[p], job[a].from) ELSE pattern[p]],
          UNCHANGED pattern,
          Go(a, "activatePatterns"), Undo(a))
  /\ UNCHANGED <<strategy, queue, learner, sound, clock>>

ActivatePatterns(a) ==
  /\ job[a].pc = "activatePatterns"
  /\ Call(pattern' = [p \in Patterns |->
            IF pattern[p].version = job[a].version
            THEN [pattern[p] EXCEPT !.status = "published", !.at = job[a].now, !.until = None]
            ELSE pattern[p]],
          UNCHANGED pattern,
          Go(a, "verify"), Undo(a))
  /\ UNCHANGED <<strategy, queue, learner, sound, clock>>

Verify(a) ==
  /\ job[a].pc = "verify"
  /\ \/ /\ Published = {job[a].version}
        /\ Answer(a, "published") /\ Release
        /\ sound' = TRUE
        /\ UNCHANGED faults
     \/ /\ Published # {job[a].version}
        /\ Undo(a)
        /\ UNCHANGED <<queue, sound, faults>>
     \/ /\ faults < MaxFaults /\ faults' = faults + 1
        /\ Undo(a)
        /\ UNCHANGED <<queue, sound>>
  /\ UNCHANGED <<strategy, pattern, learner, clock>>

----------------------------------------------------------------------------
(* compensatePublication.                                                  *)

\* safeUpdate of one row: an error is noted, and the next row follows.
Undone(a, pc, left, Applied, Missed) ==
  Call(Applied, Missed,
    Set(a, [job[a] EXCEPT !.pc = pc, !.left = left]),
    Set(a, [job[a] EXCEPT !.pc = pc, !.left = left, !.errors = TRUE]))

UndoTarget(a) ==
  LET v == job[a].version
  IN /\ job[a].pc = "undoTarget"
     /\ Undone(a, "undoStrategies", DOMAIN job[a].priors \ {v},
          strategy' = [strategy EXCEPT ![v] = [job[a].priors[v] EXCEPT !.failed = TRUE]],
          UNCHANGED strategy)
     /\ UNCHANGED <<pattern, queue, learner, sound, clock>>

\* Mutant: the times stay as the failed publication wrote them.
RecoveredStatus(found, row) == [row EXCEPT !.status = found.status]

Recovered(found, row) == [found EXCEPT !.failed = row.failed]

UndoStrategy(a) ==
  /\ job[a].pc = "undoStrategies"
  /\ \E v \in job[a].left :
       Undone(a, "undoStrategies", job[a].left \ {v},
         strategy' = [strategy EXCEPT ![v] = Recovered(job[a].priors[v], @)],
         UNCHANGED strategy)
  /\ UNCHANGED <<pattern, queue, learner, sound, clock>>

StrategiesUndone(a) ==
  /\ job[a].pc = "undoStrategies" /\ job[a].left = {}
  /\ Set(a, [job[a] EXCEPT !.pc = "undoPatterns", !.left = DOMAIN job[a].snapshot])
  /\ UNCHANGED <<strategy, pattern, queue, learner, sound, clock, faults>>

\* The row is found by its id; its strategy_version stays as it is.
UndoPattern(a) ==
  /\ job[a].pc = "undoPatterns"
  /\ \E p \in job[a].left :
       Undone(a, "undoPatterns", job[a].left \ {p},
         pattern' = [pattern EXCEPT ![p] =
           [job[a].snapshot[p] EXCEPT !.version = pattern[p].version]],
         UNCHANGED pattern)
  /\ UNCHANGED <<strategy, queue, learner, sound, clock>>

\* Both reads compare statuses only.
SameStatus(rows, found) == \A x \in DOMAIN found : rows[x].status = found[x].status

CheckStrategies(a) ==
  /\ job[a].pc = "undoPatterns" /\ job[a].left = {}
  /\ Call(TRUE, TRUE,
       Set(a, [job[a] EXCEPT !.pc = "checkPatterns",
                 !.errors = @ \/ ~SameStatus(strategy, job[a].priors)]),
       Set(a, [job[a] EXCEPT !.pc = "checkPatterns", !.errors = TRUE]))
  /\ UNCHANGED <<strategy, pattern, queue, learner, sound, clock>>

CheckPatterns(a) ==
  /\ job[a].pc = "checkPatterns"
  /\ \/ UNCHANGED faults
     \/ job[a].snapshot # Nothing /\ faults < MaxFaults /\ faults' = faults + 1
  /\ LET errors == job[a].errors \/ ~SameStatus(pattern, job[a].snapshot) \/ faults' # faults
     IN /\ Answer(a, IF errors THEN "incomplete" ELSE "restored")
        /\ sound' = (sound /\ ~errors)
  /\ Release
  /\ UNCHANGED <<strategy, pattern, learner, clock>>

----------------------------------------------------------------------------
(* The learner, time and crashes.                                          *)

\* A draft first, ..
Learn(l) ==
  /\ learner[l].pc = "idle"
  /\ FreshLeft
  /\ NewDraft(Fresh)
  /\ \E found \in SUBSET Patterns :
       learner' = [learner EXCEPT ![l] = [pc |-> "saving", version |-> Fresh, left |-> found]]
  /\ UNCHANGED <<pattern, job, queue, sound, clock, faults>>

\* .. then its patterns one by one, over the rows with the same keys.
SavePattern(l) ==
  /\ learner[l].pc = "saving"
  /\ \E p \in learner[l].left :
       /\ learner' = [learner EXCEPT ![l].left = @ \ {p}]
       /\ Call(pattern' = [pattern EXCEPT ![p] =
                 [status |-> "draft", version |-> learner[l].version, at |-> None, until |-> None]],
               UNCHANGED pattern, TRUE, TRUE)
       /\ job' = [a \in Admins |->
            IF job[a].pc \in Steps \ {"snapshots"}
            THEN [job[a] EXCEPT !.relearned = @ \cup {p}]
            ELSE job[a]]
  /\ UNCHANGED <<strategy, queue, sound, clock>>

Learnt(l) ==
  /\ learner[l].pc = "saving" /\ learner[l].left = {}
  /\ learner' = [learner EXCEPT ![l].pc = "over"]
  /\ UNCHANGED <<strategy, pattern, job, queue, sound, clock, faults>>

Tick ==
  /\ clock < MaxTime
  /\ clock' = clock + 1
  /\ UNCHANGED <<strategy, pattern, job, queue, learner, sound, faults>>

\* The publications under way have begun to write.
Writing == \E a \in Admins : job[a].pc \in Steps \ {"snapshots", "retire"}

Crash ==
  /\ faults < MaxFaults /\ faults' = faults + 1
  /\ job' = [a \in Admins |->
       IF job[a].pc \in {"idle", "over"} THEN job[a]
       ELSE [Idle EXCEPT !.pc = "over", !.answer = "crashed"]]
  /\ learner' = [l \in Learners |->
       IF learner[l].pc = "saving" THEN [learner[l] EXCEPT !.pc = "over", !.left = {}]
       ELSE learner[l]]
  /\ queue' = <<>>
  /\ sound' = (sound /\ ~Writing)
  /\ UNCHANGED <<strategy, pattern, clock>>

----------------------------------------------------------------------------
Publication(a) ==
  \/ Begin(a) \/ ReadSnapshots(a)
  \/ RetireStrategies(a) \/ Activate(a) \/ RetirePatterns(a) \/ ActivatePatterns(a) \/ Verify(a)
  \/ UndoTarget(a) \/ UndoStrategy(a) \/ StrategiesUndone(a) \/ UndoPattern(a)
  \/ CheckStrategies(a) \/ CheckPatterns(a)

Next ==
  \/ \E a \in Admins : CreateDraft(a) \/ Publish(a) \/ Rollback(a) \/ Publication(a)
  \/ \E l \in Learners : Learn(l) \/ SavePattern(l) \/ Learnt(l)
  \/ Tick
  \/ Crash

Spec == Init /\ [][Next]_vars

----------------------------------------------------------------------------
(* Properties.                                                             *)

TypeOK ==
  /\ strategy \in [Versions -> Strategy]
  /\ pattern \in [Patterns -> Pattern]
  /\ DOMAIN job = Admins /\ \A a \in Admins : JobState(job[a])
  /\ queue \in Seq(Admins)
  /\ learner \in [Learners -> LearnerState]
  /\ sound \in BOOLEAN
  /\ clock \in Times
  /\ faults \in Nat

\* Outside publications exactly one strategy is published, whatever failed and
\* was compensated, and again after a success when a publication was cut short
\* by a crash or undone incompletely before.
OnePublished == queue = <<>> /\ sound => Cardinality(Published) = 1

Answers(a, answer) == job[a].answer = "none" /\ job'[a].answer = answer

\* A publication that answers with success is whole: its strategy alone is
\* published, no pattern of another version is, and all of its own are, but for
\* what a learner wrote meanwhile.
PublishedIsWhole ==
  [][\A a \in Admins : Answers(a, "published") =>
       LET v == job[a].version
       IN /\ Published' = {v}
          /\ \A p \in Patterns \ job[a].relearned :
               (pattern[p].status = "published") = (pattern[p].version = v)]_vars

\* A publication that answers "restored" has left every strategy and every
\* pattern it had found as they were (the draft marked as failed), except for
\* patterns that a learner wrote meanwhile.
RestoredAsFound ==
  [][\A a \in Admins : Answers(a, "restored") =>
       LET found == job[a].priors
       IN /\ Published = DOMAIN found \ {job[a].version}
          /\ \A v \in DOMAIN found :
               strategy[v] = [found[v] EXCEPT !.failed = IF v = job[a].version THEN TRUE ELSE @]
          /\ \A p \in DOMAIN job[a].snapshot \ job[a].relearned :
               pattern[p] = job[a].snapshot[p]]_vars

\* Publications do not rewrite history: what a backtest as of a time before the
\* publication's own reads (the strategy and its patterns, but for those that a
\* learner wrote meanwhile) is not changed by a success, and as of no time by a
\* publication that was restored.
HistoryKept ==
  [][\A a \in Admins :
       LET kept == {t \in Times : Answers(a, "restored") \/ t < job[a].from}
       IN Answers(a, "published") \/ Answers(a, "restored") =>
            \A t \in kept :
              /\ InEffect(t) = job[a].effect[t].strategy
              /\ Learned(t) \ job[a].relearned = job[a].effect[t].patterns \ job[a].relearned]_vars
=============================================================================
