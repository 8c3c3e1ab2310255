------------------------ MODULE StrategyGovernanceProofs ------------------------
(***************************************************************************)
(* Proofs about StrategyGovernance, for any versions, patterns, requests,  *)
(* learners and bounds.                                                    *)
(***************************************************************************)
EXTENDS StrategyGovernance, FiniteSetTheorems, SequenceTheorems, NaturalsInduction,
        WellFoundedInduction, TLAPS

----------------------------------------------------------------------------
(* What is read, as a function of the rows.                                *)

\* The strategies that can be seen as of t, with the times they are in effect from.
Seen(rows, t) == [v \in {w \in Versions : Visible(rows[w], t)} |-> rows[v].from]

Latest(from) ==
  IF DOMAIN from = {}
  THEN None
  ELSE CHOOSE v \in DOMAIN from : \A w \in DOMAIN from : from[w] <= from[v]

Belongs(row, version, t) ==
  /\ row.status \in {"published", "retired"}
  /\ row.version = version
  /\ row.at # None /\ row.at <= t
  /\ row.until = None \/ row.until > t

----------------------------------------------------------------------------
(* The inductive invariant.                                                *)

Maps(keys, type) == UNION {[D -> type] : D \in SUBSET keys}

Request ==
  [pc : {"idle", "queued", "over"} \cup Steps, version : Versions \cup {None},
   from : Moment, now : Moment,
   priors : Maps(Versions, Strategy), snapshot : Maps(Patterns, Pattern),
   left : SUBSET (Versions \cup Patterns), errors : BOOLEAN,
   answer : {"none", "refused", "published", "restored", "incomplete", "crashed"},
   effect : Maps(Times, [strategy : Versions \cup {None}, patterns : SUBSET Patterns]),
   relearned : SUBSET Patterns]

\* The requests under way are in the queue, once each; the first alone publishes.
Queued(a) == \E i \in 1..Len(queue) : queue[i] = a

QueueInv ==
  /\ \A i, k \in 1..Len(queue) : queue[i] = queue[k] => i = k
  /\ \A a \in Admins : Queued(a) <=> job[a].pc \in {"queued"} \cup Steps
  /\ \A a \in Admins : job[a].pc \in Steps => Head(queue) = a

\* What is published has not been retired.
Kept(row) == row.status = "published" => row.until = None

Later == Steps \ {"snapshots"}
Undoing == {"undoTarget", "undoStrategies", "undoPatterns", "checkPatterns"}

\* The strategies and patterns a publication found.
Others(j) == DOMAIN j.priors \ {j.version}
Snapped(j) == DOMAIN j.snapshot \ j.relearned

\* What it read and does not change.
Read(j) ==
  /\ j.version \in DOMAIN j.priors /\ j.priors[j.version].status = "draft"
  /\ \A w \in Others(j) : j.priors[w].status = "published" /\ j.priors[w].until = None
  /\ \A p \in DOMAIN j.snapshot :
       /\ j.snapshot[p].version = j.version \/ j.snapshot[p].status = "published"
       /\ Kept(j.snapshot[p])
  /\ DOMAIN j.effect = Times /\ \A t \in Times : j.effect[t].strategy # j.version

\* The rows of strategies agree with the point the publication has reached.
Marked(row) == [row EXCEPT !.failed = TRUE]
Out(j) ==
  [status |-> "published", from |-> j.from, at |-> j.now, until |-> None, failed |-> FALSE]

StrategiesFit(j, rows) ==
  /\ {w \in Versions : rows[w].status = "published"} \subseteq DOMAIN j.priors
  /\ \A w \in DOMAIN j.priors : rows[w].status # "absent"
  /\ \A w \in Others(j) : rows[w].failed = j.priors[w].failed
  /\ j.pc = "retire" => \A w \in Others(j) : rows[w] = j.priors[w]
  /\ j.pc \in {"retire", "activate"} => rows[j.version] = j.priors[j.version]
  /\ j.pc \in {"activate", "retirePatterns", "activatePatterns", "verify"} =>
       \A w \in Others(j) : rows[w] = Retired(j.priors[w], j.from)
  /\ j.pc \in {"retirePatterns", "activatePatterns", "verify"} => rows[j.version] = Out(j)
  /\ j.pc = "undoStrategies" => j.left \subseteq Others(j)
  /\ j.pc \in Undoing \ {"undoTarget"} /\ ~j.errors =>
       /\ rows[j.version] = Marked(j.priors[j.version])
       /\ \A w \in Others(j) :
            (j.pc = "undoStrategies" => w \notin j.left) => rows[w] = j.priors[w]

\* And so do the patterns, but for those that a learner wrote.
PatternsFit(j, rows) ==
  /\ \A p \in Snapped(j) : rows[p].version = j.snapshot[p].version
  /\ \A p \in Patterns \ (DOMAIN j.snapshot \cup j.relearned) :
       rows[p].status # "published" \/ rows[p].version = j.version
  /\ j.pc \in {"retire", "activate", "retirePatterns"} =>
       \A p \in Snapped(j) : rows[p] = j.snapshot[p]
  /\ j.pc = "activatePatterns" =>
       \A p \in Patterns \ j.relearned : rows[p].status # "published"
  /\ j.pc = "verify" =>
       \A p \in Patterns \ j.relearned :
         (rows[p].status = "published") <=> (rows[p].version = j.version)
  /\ j.pc \in {"activatePatterns", "verify"} =>
       \A p \in Snapped(j) : j.snapshot[p].version # j.version =>
         rows[p] = Retired(j.snapshot[p], j.from)
  /\ j.pc = "undoPatterns" => j.left \subseteq DOMAIN j.snapshot
  /\ j.pc = "undoPatterns" /\ ~j.errors =>
       \A p \in Snapped(j) \ j.left : rows[p] = j.snapshot[p]
  /\ j.pc = "checkPatterns" /\ ~j.errors =>
       \A p \in Snapped(j) : rows[p] = j.snapshot[p]

\* What was in effect can still be told from what the publication read and what
\* it does not touch.
Found(j, rows) ==
  [w \in Versions |-> IF w \in DOMAIN j.priors THEN j.priors[w] ELSE rows[w]]
FoundPattern(j, rows, p) == IF p \in DOMAIN j.snapshot THEN j.snapshot[p] ELSE rows[p]

EffectFits(j, strategies, patterns) ==
  \A t \in Times :
    /\ j.effect[t].strategy = Latest(Seen(Found(j, strategies), t))
    /\ \A p \in Patterns \ j.relearned :
         p \in j.effect[t].patterns <=> Belongs(FoundPattern(j, patterns, p), j.effect[t].strategy, t)

One(S) == Cardinality(S) = 1

\* A publication that has read what it found.
Under(j, strategies, patterns, whole) ==
  /\ j.version \in Versions /\ j.from \in Times /\ j.now \in Times
  /\ Read(j)
  /\ StrategiesFit(j, strategies)
  /\ PatternsFit(j, patterns)
  /\ EffectFits(j, strategies, patterns)
  /\ whole => One(Others(j))

JobInv(a) ==
  /\ job[a].pc \in {"queued", "snapshots"} => job[a].version \in Versions /\ job[a].relearned = {}
  /\ job[a].pc = "snapshots" => job[a].from \in Times
  /\ job[a].pc \in Later => Under(job[a], strategy, pattern, sound)

IInv ==
  /\ TypeOK /\ job \in [Admins -> Request]
  /\ \A v \in Versions : Kept(strategy[v])
  /\ \A p \in Patterns : Kept(pattern[p])
  /\ QueueInv
  /\ \A a \in Admins : JobInv(a)
  /\ sound /\ (\A a \in Admins : job[a].pc \notin Later) => One(Published)

----------------------------------------------------------------------------
(* The operators.                                                          *)

LEMMA Kinds ==
  /\ None \notin Times /\ Times \subseteq Int /\ None \notin Versions
  /\ NoStrategy \in Strategy /\ Draft \in Strategy /\ NoPattern \in Pattern
<1>1. None \notin Times /\ Times \subseteq Int /\ None \notin Versions
  BY StrategyConstants DEF Times
<1>2. NoStrategy \in Strategy /\ NoPattern \in Pattern
  BY DEF NoStrategy, NoPattern, Strategy, Pattern, Moment
<1>3. Draft \in Strategy
  BY <1>2 DEF Draft, Strategy
<1> QED
  BY <1>1, <1>2, <1>3

LEMMA MapsMade ==
  ASSUME NEW keys, NEW type, NEW D \in SUBSET keys, NEW f \in [D -> type]
  PROVE  f \in Maps(keys, type)
BY DEF Maps

LEMMA MapsRows ==
  ASSUME NEW keys, NEW type, NEW f \in Maps(keys, type)
  PROVE  Rows(f, keys, type)
<1>1. PICK D \in SUBSET keys : f \in [D -> type]
  BY DEF Maps
<1> QED
  BY <1>1 DEF Rows

\* Some time of a set of times is the latest.
LEMMA LatestTime ==
  ASSUME NEW S, S \subseteq Times, S # {}
  PROVE  \E m \in S : \A n \in S : n <= m
<1> DEFINE T == {MaxTime - n : n \in S}
<1>0. MaxTime \in Nat
  BY StrategyConstants
<1>1. T \subseteq Nat /\ T # {}
  <2>1. \A n \in S : MaxTime - n \in Nat
    BY <1>0 DEF Times
  <2> QED
    BY <2>1
<1> HIDE DEF T
<1> DEFINE R == OpToRel(<, Nat)
<1>a. IsWellFoundedOn(R, Nat)
  BY NatLessThanWellFounded, Zenon
<1>b. R = {ss \in Nat \X Nat : ss[1] < ss[2]}
  BY DEF OpToRel
<1> HIDE DEF R
<1>2. PICK x \in T : \A y \in T : ~(<<y, x>> \in R)
  BY <1>1, <1>a, WFMin
<1>3. \A y \in T : ~(y < x)
  BY <1>1, <1>2, <1>b
<1>4. PICK m \in S : x = MaxTime - m
  BY DEF T
<1>5. \A n \in S : n <= m
  <2> TAKE n \in S
  <2>1. MaxTime - n \in T
    BY DEF T
  <2>2. ~(MaxTime - n < MaxTime - m)
    BY <1>3, <1>4, <2>1
  <2> QED
    BY <1>0, <2>2 DEF Times
<1> QED
  BY <1>5

LEMMA LatestIn ==
  ASSUME NEW from, \A v \in DOMAIN from : from[v] \in Times
  PROVE  Latest(from) \in DOMAIN from \cup {None}
<1>1. CASE DOMAIN from = {}
  BY <1>1 DEF Latest
<1>2. CASE DOMAIN from # {}
  <2> DEFINE S == {from[v] : v \in DOMAIN from}
  <2>1. S \subseteq Times /\ S # {}
    BY <1>2
  <2>2. PICK m \in S : \A n \in S : n <= m
    BY <2>1, LatestTime
  <2>3. \E v \in DOMAIN from : \A w \in DOMAIN from : from[w] <= from[v]
    BY <2>2
  <2> HIDE DEF S
  <2> DEFINE P(v) == \A w \in DOMAIN from : from[w] <= from[v]
  <2>4. (CHOOSE v \in DOMAIN from : P(v)) \in DOMAIN from
    <3> HIDE DEF P
    <3>1. \E v \in DOMAIN from : P(v)
      BY <2>3 DEF P
    <3> QED
      BY <3>1
  <2> QED
    BY <1>2, <2>4 DEF Latest
<1> QED
  BY <1>1, <1>2

LEMMA SeenIn ==
  ASSUME NEW rows \in [Versions -> Strategy], NEW t
  PROVE  /\ DOMAIN Seen(rows, t) = {w \in Versions : Visible(rows[w], t)}
         /\ \A v \in DOMAIN Seen(rows, t) : Seen(rows, t)[v] = rows[v].from /\ rows[v].from \in Times
         /\ Latest(Seen(rows, t)) \in {w \in Versions : Visible(rows[w], t)} \cup {None}
<1>1. /\ DOMAIN Seen(rows, t) = {w \in Versions : Visible(rows[w], t)}
      /\ \A v \in DOMAIN Seen(rows, t) : Seen(rows, t)[v] = rows[v].from
  BY DEF Seen
<1>2. \A v \in Versions : Visible(rows[v], t) => rows[v].from \in Times
  BY DEF Visible, Strategy, Moment
<1>3. \A v \in DOMAIN Seen(rows, t) : Seen(rows, t)[v] \in Times
  BY <1>1, <1>2
<1>4. Latest(Seen(rows, t)) \in DOMAIN Seen(rows, t) \cup {None}
  BY <1>3, LatestIn
<1> QED
  BY <1>1, <1>2, <1>4

\* The same is in effect when the same can be seen.
LEMMA SameSeen ==
  ASSUME NEW rows, NEW others, NEW t,
         \A w \in Versions : Visible(rows[w], t) <=> Visible(others[w], t),
         \A w \in Versions : Visible(rows[w], t) => rows[w].from = others[w].from
  PROVE  Seen(rows, t) = Seen(others, t)
<1> DEFINE S == {w \in Versions : Visible(rows[w], t)}
           T == {w \in Versions : Visible(others[w], t)}
<1>1. S = T
  OBVIOUS
<1>2. \A v \in S : rows[v].from = others[v].from
  OBVIOUS
<1>3. Seen(rows, t) = [v \in S |-> rows[v].from] /\ Seen(others, t) = [v \in T |-> others[v].from]
  BY DEF Seen
<1> HIDE DEF S, T
<1> QED
  BY <1>1, <1>2, <1>3

LEMMA InEffectSeen ==
  ASSUME NEW t
  PROVE  InEffect(t) = Latest(Seen(strategy, t))
BY DEF InEffect, Latest, Seen

LEMMA LearnedBelongs ==
  ASSUME NEW t, NEW p
  PROVE  p \in Learned(t) <=> p \in Patterns /\ Belongs(pattern[p], InEffect(t), t)
BY DEF Learned, Belongs

----------------------------------------------------------------------------
(* Requests.                                                               *)

LEMMA IdleRequest ==
  /\ Idle \in Request /\ Idle.pc = "idle" /\ Idle.answer = "none" /\ Idle.relearned = {}
  /\ \A keys, type : Nothing \in Maps(keys, type)
<1>1. ASSUME NEW keys, NEW type
      PROVE  Nothing \in Maps(keys, type)
  <2>1. {} \in SUBSET keys /\ Nothing \in [{} -> type]
    BY DEF Nothing
  <2> QED
    BY <2>1 DEF Maps
<1>2. Idle \in Request /\ Idle.pc = "idle" /\ Idle.answer = "none" /\ Idle.relearned = {}
  BY <1>1 DEF Idle, Request, Moment
<1> QED
  BY <1>1, <1>2

LEMMA RequestState ==
  ASSUME NEW j \in Request
  PROVE  JobState(j)
<1>1. /\ j.priors \in Maps(Versions, Strategy) /\ j.snapshot \in Maps(Patterns, Pattern)
      /\ j.effect \in Maps(Times, [strategy : Versions \cup {None}, patterns : SUBSET Patterns])
  BY DEF Request
<1>2. /\ Rows(j.priors, Versions, Strategy) /\ Rows(j.snapshot, Patterns, Pattern)
      /\ Rows(j.effect, Times, [strategy : Versions \cup {None}, patterns : SUBSET Patterns])
  BY <1>1, MapsRows
<1> QED
  BY <1>2 DEF JobState, Request

LEMMA RequestRows ==
  ASSUME NEW j \in Request
  PROVE  /\ DOMAIN j.priors \subseteq Versions /\ \A w \in DOMAIN j.priors : j.priors[w] \in Strategy
         /\ DOMAIN j.snapshot \subseteq Patterns /\ \A p \in DOMAIN j.snapshot : j.snapshot[p] \in Pattern
         /\ j.relearned \subseteq Patterns /\ j.left \subseteq Versions \cup Patterns
         /\ j.errors \in BOOLEAN
BY RequestState DEF JobState, Rows

LEMMA SetRequest ==
  ASSUME job \in [Admins -> Request], NEW a \in Admins, NEW new \in Request, Set(a, new)
  PROVE  /\ job' \in [Admins -> Request] /\ job'[a] = new
         /\ \A b \in Admins \ {a} : job'[b] = job[b]
BY DEF Set

\* What a request that goes on keeps.
Alike(j, k) ==
  /\ k.version = j.version /\ k.from = j.from /\ k.now = j.now
  /\ k.priors = j.priors /\ k.snapshot = j.snapshot /\ k.effect = j.effect
  /\ k.relearned = j.relearned /\ k.answer = j.answer

Moved(j, k, pc, left, errors) ==
  k \in Request /\ Alike(j, k) /\ k.pc = pc /\ k.left = left /\ k.errors = errors

At(j, pc) == [j EXCEPT !.pc = pc]
AtLeft(j, pc, left) == [j EXCEPT !.pc = pc, !.left = left]
AtErrors(j, pc, errors) == [j EXCEPT !.pc = pc, !.errors = errors]
AtBoth(j, pc, left, errors) == [j EXCEPT !.pc = pc, !.left = left, !.errors = errors]

LEMMA AtMoved ==
  ASSUME NEW j \in Request, NEW pc \in Steps
  PROVE  Moved(j, At(j, pc), pc, j.left, j.errors)
BY DEF Request, At, Moved, Alike

LEMMA AtLeftMoved ==
  ASSUME NEW j \in Request, NEW pc \in Steps, NEW left \in SUBSET (Versions \cup Patterns)
  PROVE  Moved(j, AtLeft(j, pc, left), pc, left, j.errors)
BY DEF Request, AtLeft, Moved, Alike

LEMMA AtErrorsMoved ==
  ASSUME NEW j \in Request, NEW pc \in Steps, NEW errors \in BOOLEAN
  PROVE  Moved(j, AtErrors(j, pc, errors), pc, j.left, errors)
BY DEF Request, AtErrors, Moved, Alike

LEMMA AtBothMoved ==
  ASSUME NEW j \in Request, NEW pc \in Steps, NEW left \in SUBSET (Versions \cup Patterns),
         NEW errors \in BOOLEAN
  PROVE  Moved(j, AtBoth(j, pc, left, errors), pc, left, errors)
BY DEF Request, AtBoth, Moved, Alike

\* A request that has been answered.
Answered(answer) == [Idle EXCEPT !.pc = "over", !.answer = answer]
Waiting(version, from) == [Idle EXCEPT !.pc = "queued", !.version = version, !.from = from]

LEMMA AnsweredRequest ==
  ASSUME NEW answer \in {"none", "refused", "published", "restored", "incomplete", "crashed"}
  PROVE  /\ Answered(answer) \in Request
         /\ Answered(answer).pc = "over" /\ Answered(answer).answer = answer
BY IdleRequest DEF Request, Answered

LEMMA WaitingRequest ==
  ASSUME NEW version \in Versions, NEW from \in Moment
  PROVE  /\ Waiting(version, from) \in Request
         /\ Waiting(version, from).pc = "queued" /\ Waiting(version, from).answer = "none"
         /\ Waiting(version, from).version = version /\ Waiting(version, from).relearned = {}
BY IdleRequest DEF Request, Waiting

----------------------------------------------------------------------------
(* The queue.                                                              *)

UnderWay == {"queued"} \cup Steps

LEMMA QueueStays ==
  ASSUME QueueInv, UNCHANGED queue,
         \A b \in Admins : job'[b].pc \in UnderWay <=> job[b].pc \in UnderWay,
         \A b \in Admins : job'[b].pc \in Steps => Head(queue) = b
  PROVE  QueueInv'
BY DEF QueueInv, Queued, UnderWay

LEMMA QueueJoined ==
  ASSUME TypeOK, QueueInv, NEW a \in Admins, job[a].pc = "idle",
         queue' = Append(queue, a), job'[a].pc = "queued",
         \A b \in Admins \ {a} : job'[b].pc = job[b].pc
  PROVE  QueueInv' /\ queue' \in Seq(Admins)
<1>1. queue \in Seq(Admins)
  BY DEF TypeOK
<1>2. /\ queue' \in Seq(Admins) /\ Len(queue') = Len(queue) + 1 /\ Len(queue) \in Nat
      /\ \A i \in 1..Len(queue) : queue'[i] = queue[i]
      /\ queue'[Len(queue) + 1] = a
  BY <1>1, AppendProperties
<1>3. \A i \in 1..Len(queue) : queue[i] # a
  BY DEF QueueInv, Queued, Steps
<1>4. \A i, k \in 1..Len(queue') : queue'[i] = queue'[k] => i = k
  <2> TAKE i, k \in 1..Len(queue')
  <2>1. i \in 1..Len(queue) \/ i = Len(queue) + 1
    BY <1>2
  <2>2. k \in 1..Len(queue) \/ k = Len(queue) + 1
    BY <1>2
  <2> QED
    BY <1>2, <1>3, <2>1, <2>2 DEF QueueInv
<1>5. \A b \in Admins : Queued(b)' <=> Queued(b) \/ b = a
  BY <1>2 DEF Queued
<1>6. \A b \in Admins : Queued(b)' <=> job'[b].pc \in {"queued"} \cup Steps
  BY <1>3, <1>5 DEF QueueInv, Queued
<1>7. \A b \in Admins : job'[b].pc \in Steps => Head(queue') = b
  <2> SUFFICES ASSUME NEW b \in Admins, job'[b].pc \in Steps
               PROVE  Head(queue') = b
    OBVIOUS
  <2>1. b # a /\ job[b].pc \in Steps
    BY DEF Steps
  <2>2. Head(queue) = b /\ Queued(b)
    BY <2>1 DEF QueueInv
  <2>3. queue # <<>>
    BY <1>2, <2>2 DEF Queued
  <2> QED
    BY <1>1, <2>2, <2>3, HeadTailAppend
<1> QED
  BY <1>2, <1>4, <1>6, <1>7 DEF QueueInv

LEMMA Heading ==
  ASSUME TypeOK, QueueInv, NEW a \in Admins, job[a].pc \in UnderWay, Head(queue) = a
  PROVE  /\ queue # <<>> /\ Len(queue) \in Nat \ {0} /\ queue[1] = a
         /\ \A b \in Admins \ {a} : job[b].pc \notin Steps
<1>1. queue \in Seq(Admins) /\ Len(queue) \in Nat
  BY DEF TypeOK
<1>2. queue # <<>>
  BY <1>1 DEF QueueInv, Queued, UnderWay
<1>3. Len(queue) # 0 /\ queue[1] = a
  BY <1>1, <1>2
<1> QED
  BY <1>1, <1>2, <1>3 DEF QueueInv

LEMMA QueueReleased ==
  ASSUME TypeOK, QueueInv, NEW a \in Admins, job[a].pc \in Steps, Release,
         job'[a].pc = "over", \A b \in Admins \ {a} : job'[b].pc = job[b].pc
  PROVE  QueueInv' /\ queue' \in Seq(Admins)
<1>1. queue \in Seq(Admins) /\ Head(queue) = a /\ job[a].pc \in UnderWay
  BY DEF TypeOK, QueueInv, UnderWay
<1>2. /\ queue # <<>> /\ Len(queue) \in Nat \ {0} /\ queue[1] = a
      /\ \A b \in Admins \ {a} : job[b].pc \notin Steps
  BY <1>1, Heading
<1>3. /\ queue' \in Seq(Admins) /\ Len(queue') = Len(queue) - 1
      /\ \A i \in 1..Len(queue') : queue'[i] = queue[i + 1]
  BY <1>1, <1>2, HeadTailProperties DEF Release
<1>4. \A i, k \in 1..Len(queue') : queue'[i] = queue'[k] => i = k
  <2> TAKE i, k \in 1..Len(queue')
  <2>1. i + 1 \in 1..Len(queue) /\ k + 1 \in 1..Len(queue)
    BY <1>2, <1>3
  <2> QED
    BY <1>3, <2>1 DEF QueueInv
<1>5. \A b \in Admins : Queued(b)' <=> Queued(b) /\ b # a
  <2> TAKE b \in Admins
  <2>1. ASSUME NEW i \in 1..Len(queue), queue[i] = b, b # a
        PROVE  \E k \in 1..Len(queue') : queue'[k] = b
    <3>1. i - 1 \in 1..Len(queue') /\ (i - 1) + 1 = i
      BY <1>2, <1>3, <2>1
    <3> QED
      BY <1>3, <2>1, <3>1
  <2>2. ASSUME NEW k \in 1..Len(queue'), queue'[k] = b
        PROVE  b # a /\ \E i \in 1..Len(queue) : queue[i] = b
    <3>1. k + 1 \in 1..Len(queue) /\ k + 1 # 1 /\ 1 \in 1..Len(queue) /\ queue[k + 1] = b
      BY <1>2, <1>3, <2>2
    <3>2. b # a
      BY <1>2, <3>1 DEF QueueInv
    <3> QED
      BY <3>1, <3>2
  <2> QED
    BY <2>1, <2>2 DEF Queued
<1>6. \A b \in Admins : Queued(b)' <=> job'[b].pc \in {"queued"} \cup Steps
  BY <1>5 DEF QueueInv, Steps
<1>7. \A b \in Admins : job'[b].pc \notin Steps
  BY <1>2 DEF Steps
<1> QED
  BY <1>3, <1>4, <1>6, <1>7 DEF QueueInv

----------------------------------------------------------------------------
(* A publication and the rows.                                             *)

LEMMA StrategyRows ==
  ASSUME NEW row \in Strategy, NEW t \in Times
  PROVE  /\ Retired(row, t) \in Strategy /\ Retired(row, t).status = "retired"
         /\ Retired(row, t).from = row.from /\ Retired(row, t).at = row.at
         /\ Retired(row, t).until = t /\ Retired(row, t).failed = row.failed
         /\ Marked(row) \in Strategy /\ Marked(row).status = row.status
         /\ Marked(row).until = row.until
BY DEF Retired, Marked, Strategy, Moment

LEMMA PatternRows ==
  ASSUME NEW row \in Pattern, NEW t \in Times
  PROVE  /\ Retired(row, t) \in Pattern /\ Retired(row, t).status = "retired"
         /\ Retired(row, t).version = row.version /\ Retired(row, t).at = row.at
         /\ Retired(row, t).until = t
BY DEF Retired, Pattern, Moment

LEMMA OutRow ==
  ASSUME NEW j, j.from \in Times, j.now \in Times
  PROVE  /\ Out(j) \in Strategy /\ Out(j).status = "published" /\ Out(j).until = None
         /\ Out(j).from = j.from
BY DEF Out, Strategy, Moment

LEMMA RecoveredRow ==
  ASSUME NEW found \in Strategy, NEW row \in Strategy
  PROVE  /\ Recovered(found, row) \in Strategy /\ Recovered(found, row).status = found.status
         /\ Recovered(found, row).until = found.until /\ Recovered(found, row).failed = row.failed
         /\ row.failed = found.failed => Recovered(found, row) = found
BY DEF Recovered, Strategy

LEMMA AlikeFits ==
  ASSUME NEW j, NEW k, Alike(j, k)
  PROVE  /\ Read(j) => Read(k)
         /\ \A s, p : EffectFits(j, s, p) => EffectFits(k, s, p)
         /\ Others(k) = Others(j) /\ Snapped(k) = Snapped(j) /\ Out(k) = Out(j)
BY DEF Alike, Read, EffectFits, Others, Snapped, Out, Found, FoundPattern

LEMMA MovedUnder ==
  ASSUME NEW j, NEW s, NEW p, NEW whole, Under(j, s, p, whole),
         NEW k, NEW pc, NEW left, NEW errors, Moved(j, k, pc, left, errors),
         NEW s2, NEW p2, StrategiesFit(k, s2), PatternsFit(k, p2), EffectFits(j, s2, p2)
  PROVE  Under(k, s2, p2, whole)
<1>1. Alike(j, k)
  BY DEF Moved
<1>2. Read(k) /\ EffectFits(k, s2, p2) /\ Others(k) = Others(j)
  BY <1>1, AlikeFits DEF Under
<1> QED
  BY <1>1, <1>2 DEF Under, Alike

\* What a publication read of the past is not disturbed by what it writes to the
\* rows it found, nor by drafts, nor by patterns of its own version.
LEMMA EffectStays ==
  ASSUME NEW j, NEW s, NEW s2, NEW p, NEW p2,
         EffectFits(j, s, p), \A t \in Times : j.effect[t].strategy # j.version,
         \A w \in Versions \ DOMAIN j.priors :
           \/ s2[w] = s[w]
           \/ /\ s[w].status \notin {"published", "retired"}
              /\ s2[w].status \notin {"published", "retired"},
         \A q \in Patterns \ (DOMAIN j.snapshot \cup j.relearned) :
           p2[q] = p[q] \/ (p[q].version = j.version /\ p2[q].version = j.version)
  PROVE  EffectFits(j, s2, p2)
<1> SUFFICES ASSUME NEW t \in Times
             PROVE  /\ j.effect[t].strategy = Latest(Seen(Found(j, s2), t))
                    /\ \A q \in Patterns \ j.relearned :
                         q \in j.effect[t].patterns
                           <=> Belongs(FoundPattern(j, p2, q), j.effect[t].strategy, t)
  BY DEF EffectFits
<1>1. Seen(Found(j, s), t) = Seen(Found(j, s2), t)
  <2>1. \A w \in Versions : \/ Found(j, s2)[w] = Found(j, s)[w]
                            \/ /\ Found(j, s)[w].status \notin {"published", "retired"}
                               /\ Found(j, s2)[w].status \notin {"published", "retired"}
    BY DEF Found
  <2>2. \A w \in Versions : Visible(Found(j, s)[w], t) <=> Visible(Found(j, s2)[w], t)
    BY <2>1 DEF Visible
  <2>3. \A w \in Versions : Visible(Found(j, s)[w], t) => Found(j, s)[w].from = Found(j, s2)[w].from
    BY <2>1 DEF Visible
  <2> QED
    BY <2>2, <2>3, SameSeen
<1>2. ASSUME NEW q \in Patterns \ j.relearned
      PROVE  Belongs(FoundPattern(j, p, q), j.effect[t].strategy, t)
               <=> Belongs(FoundPattern(j, p2, q), j.effect[t].strategy, t)
  <2>1. CASE q \in DOMAIN j.snapshot
    BY <2>1 DEF FoundPattern
  <2>2. CASE q \notin DOMAIN j.snapshot
    BY <2>2 DEF FoundPattern, Belongs
  <2> QED
    BY <2>1, <2>2
<1> QED
  BY <1>1, <1>2 DEF EffectFits

----------------------------------------------------------------------------
(* What each step of a publication makes of it.                            *)

\* The published rows are retired, the strategy is released, and its patterns are.
Retire(keys, rows, t) ==
  [x \in keys |-> IF rows[x].status = "published" THEN Retired(rows[x], t) ELSE rows[x]]
Enact(j, rows) == [rows EXCEPT ![j.version] = Out(j)]
Activated(row, now) == [row EXCEPT !.status = "published", !.at = now, !.until = None]
EnactPatterns(j, rows) ==
  [q \in Patterns |-> IF rows[q].version = j.version THEN Activated(rows[q], j.now) ELSE rows[q]]

\* The write was made, and the publication goes on or is undone, or it was not.
Wrote(rows, new, rows2, pc, next) ==
  \/ rows2 = new /\ pc \in {next, "undoTarget"}
  \/ rows2 = rows /\ pc = "undoTarget"

LEMMA RetireFits ==
  ASSUME NEW s \in [Versions -> Strategy], NEW p \in [Patterns -> Pattern], NEW whole,
         NEW j \in Request, Under(j, s, p, whole), j.pc = "retire",
         NEW s2, NEW k, NEW pc, Moved(j, k, pc, j.left, j.errors),
         Wrote(s, Retire(Versions, s, j.from), s2, pc, "activate")
  PROVE  /\ Under(k, s2, p, whole) /\ s2 \in [Versions -> Strategy]
         /\ (\A v \in Versions : Kept(s[v])) => \A v \in Versions : Kept(s2[v])
<1>0. \/ s2 = Retire(Versions, s, j.from) /\ pc \in {"activate", "undoTarget"}
      \/ s2 = s /\ pc = "undoTarget"
  BY DEF Wrote
<1>1. /\ j.from \in Times /\ Read(j) /\ StrategiesFit(j, s) /\ PatternsFit(j, p)
      /\ EffectFits(j, s, p)
  BY DEF Under
<1>2. Alike(j, k) /\ k.pc = pc
  BY DEF Moved
<1>3. \A v \in Versions : s2[v] = s[v] \/ (s[v].status = "published" /\ s2[v] = Retired(s[v], j.from))
  BY <1>0 DEF Retire
<1>4. \A v \in Versions : Retired(s[v], j.from) \in Strategy /\ Retired(s[v], j.from).status = "retired"
                          /\ Retired(s[v], j.from).failed = s[v].failed
  BY <1>1, StrategyRows
<1>5. s2 \in [Versions -> Strategy] /\ ((\A v \in Versions : Kept(s[v])) => \A v \in Versions : Kept(s2[v]))
  <2>1. s2 \in [Versions -> Strategy]
    BY <1>0, <1>1, <1>4 DEF Retire
  <2> QED
    BY <2>1, <1>1, <1>3, <1>4 DEF Kept
<1>6. DOMAIN j.priors \subseteq Versions
  BY RequestRows
<1>7. StrategiesFit(k, s2)
  <2>1. /\ {w \in Versions : s2[w].status = "published"} \subseteq DOMAIN j.priors
        /\ \A w \in DOMAIN j.priors : s2[w].status # "absent"
        /\ \A w \in Others(j) : s2[w].failed = j.priors[w].failed
    BY <1>1, <1>3, <1>4, <1>6 DEF StrategiesFit, Others
  <2>2. s2[j.version] = j.priors[j.version]
    BY <1>1, <1>3 DEF StrategiesFit, Read, Under
  <2>3. pc = "activate" => \A w \in Others(j) : s2[w] = Retired(j.priors[w], j.from)
    BY <1>0, <1>1, <1>6 DEF StrategiesFit, Read, Others, Retire
  <2>4. Others(k) = Others(j) /\ k.priors = j.priors /\ k.version = j.version /\ k.from = j.from
    BY <1>2, AlikeFits DEF Alike
  <2> QED
    BY <1>0, <1>2, <2>1, <2>2, <2>3, <2>4 DEF StrategiesFit, Undoing
<1>8. PatternsFit(k, p)
  BY <1>0, <1>1, <1>2, AlikeFits DEF PatternsFit, Alike
<1>9. EffectFits(j, s2, p)
  <2>1. \A w \in Versions \ DOMAIN j.priors : s2[w] = s[w]
    BY <1>1, <1>3 DEF StrategiesFit
  <2> QED
    BY <1>1, <2>1, EffectStays DEF Read
<1> QED
  BY <1>5, <1>7, <1>8, <1>9, MovedUnder

LEMMA ActivateFits ==
  ASSUME NEW s \in [Versions -> Strategy], NEW p \in [Patterns -> Pattern], NEW whole,
         NEW j \in Request, Under(j, s, p, whole), j.pc = "activate",
         NEW s2, NEW k, NEW pc, Moved(j, k, pc, j.left, j.errors),
         Wrote(s, Enact(j, s), s2, pc, "retirePatterns")
  PROVE  /\ Under(k, s2, p, whole) /\ s2 \in [Versions -> Strategy]
         /\ (\A v \in Versions : Kept(s[v])) => \A v \in Versions : Kept(s2[v])
<1>0. \/ s2 = Enact(j, s) /\ pc \in {"retirePatterns", "undoTarget"}
      \/ s2 = s /\ pc = "undoTarget"
  BY DEF Wrote
<1>1. /\ j.from \in Times /\ j.now \in Times /\ Read(j) /\ StrategiesFit(j, s)
      /\ PatternsFit(j, p) /\ EffectFits(j, s, p) /\ j.version \in Versions
      /\ j.version \in DOMAIN j.priors
  BY DEF Under, Read
<1>2. Alike(j, k) /\ k.pc = pc
  BY DEF Moved
<1>3. /\ \A v \in Versions \ {j.version} : s2[v] = s[v]
      /\ s2[j.version] \in {s[j.version], Out(j)}
      /\ pc = "retirePatterns" => s2[j.version] = Out(j)
  BY <1>0, <1>1 DEF Enact
<1>4. Out(j) \in Strategy /\ Out(j).status = "published" /\ Out(j).until = None
  BY <1>1, OutRow
<1>5. s2 \in [Versions -> Strategy] /\ ((\A v \in Versions : Kept(s[v])) => \A v \in Versions : Kept(s2[v]))
  <2>1. s2 \in [Versions -> Strategy]
    BY <1>0, <1>1, <1>4 DEF Enact
  <2> QED
    BY <2>1, <1>1, <1>3, <1>4 DEF Kept
<1>6. DOMAIN j.priors \subseteq Versions
  BY RequestRows
<1>7. StrategiesFit(k, s2)
  <2>1. /\ {w \in Versions : s2[w].status = "published"} \subseteq DOMAIN j.priors
        /\ \A w \in DOMAIN j.priors : s2[w].status # "absent"
        /\ \A w \in Others(j) : s2[w] = s[w]
    BY <1>1, <1>3, <1>4, <1>6 DEF StrategiesFit, Others
  <2>4. Others(k) = Others(j) /\ k.priors = j.priors /\ k.version = j.version /\ k.from = j.from
        /\ Out(k) = Out(j)
    BY <1>2, AlikeFits DEF Alike
  <2> QED
    BY <1>0, <1>1, <1>2, <1>3, <2>1, <2>4 DEF StrategiesFit, Undoing
<1>8. PatternsFit(k, p)
  BY <1>0, <1>1, <1>2, AlikeFits DEF PatternsFit, Alike
<1>9. EffectFits(j, s2, p)
  <2>1. \A w \in Versions \ DOMAIN j.priors : s2[w] = s[w]
    BY <1>1, <1>3
  <2> QED
    BY <1>1, <2>1, EffectStays DEF Read
<1> QED
  BY <1>5, <1>7, <1>8, <1>9, MovedUnder

LEMMA RetirePatternsFits ==
  ASSUME NEW s \in [Versions -> Strategy], NEW p \in [Patterns -> Pattern], NEW whole,
         NEW j \in Request, Under(j, s, p, whole), j.pc = "retirePatterns",
         NEW p2, NEW k, NEW pc, Moved(j, k, pc, j.left, j.errors),
         Wrote(p, Retire(Patterns, p, j.from), p2, pc, "activatePatterns")
  PROVE  /\ Under(k, s, p2, whole) /\ p2 \in [Patterns -> Pattern]
         /\ (\A q \in Patterns : Kept(p[q])) => \A q \in Patterns : Kept(p2[q])
<1>0. \/ p2 = Retire(Patterns, p, j.from) /\ pc \in {"activatePatterns", "undoTarget"}
      \/ p2 = p /\ pc = "undoTarget"
  BY DEF Wrote
<1>1. /\ j.from \in Times /\ Read(j) /\ StrategiesFit(j, s) /\ PatternsFit(j, p)
      /\ EffectFits(j, s, p)
  BY DEF Under
<1>2. Alike(j, k) /\ k.pc = pc
  BY DEF Moved
<1>3. /\ \A q \in Patterns : \/ p2[q] = p[q]
                             \/ p[q].status = "published" /\ p2[q] = Retired(p[q], j.from)
      /\ pc = "activatePatterns" => \A q \in Patterns :
           p2[q] = IF p[q].status = "published" THEN Retired(p[q], j.from) ELSE p[q]
  BY <1>0 DEF Retire
<1>4. \A q \in Patterns :
        /\ Retired(p[q], j.from) \in Pattern /\ Retired(p[q], j.from).status = "retired"
        /\ Retired(p[q], j.from).version = p[q].version
  BY <1>1, PatternRows
<1>5. p2 \in [Patterns -> Pattern] /\ ((\A q \in Patterns : Kept(p[q])) => \A q \in Patterns : Kept(p2[q]))
  <2>1. p2 \in [Patterns -> Pattern]
    BY <1>0, <1>4 DEF Retire
  <2> QED
    BY <2>1, <1>3, <1>4 DEF Kept
<1>6. DOMAIN j.snapshot \subseteq Patterns /\ j.relearned \subseteq Patterns
  BY RequestRows
<1>7. StrategiesFit(k, s)
  BY <1>0, <1>1, <1>2, AlikeFits DEF StrategiesFit, Undoing, Alike
<1>8. PatternsFit(k, p2)
  <2>1. \A q \in Snapped(j) : p2[q].version = j.snapshot[q].version
    BY <1>1, <1>3, <1>4, <1>6 DEF PatternsFit, Snapped
  <2>2. \A q \in Patterns \ (DOMAIN j.snapshot \cup j.relearned) :
          p2[q].status # "published" \/ p2[q].version = j.version
    BY <1>1, <1>3, <1>4 DEF PatternsFit
  <2>3. pc = "activatePatterns" => \A q \in Patterns \ j.relearned : p2[q].status # "published"
    BY <1>3, <1>4
  <2>4. pc = "activatePatterns" => \A q \in Snapped(j) :
          j.snapshot[q].version # j.version => p2[q] = Retired(j.snapshot[q], j.from)
    BY <1>1, <1>3, <1>6 DEF PatternsFit, Snapped, Read
  <2>5. Snapped(k) = Snapped(j) /\ k.version = j.version /\ k.snapshot = j.snapshot
        /\ k.relearned = j.relearned /\ k.from = j.from
    BY <1>2, AlikeFits DEF Alike
  <2> QED
    BY <1>0, <1>2, <2>1, <2>2, <2>3, <2>4, <2>5 DEF PatternsFit
<1>9. EffectFits(j, s, p2)
  <2>1. \A q \in Patterns \ (DOMAIN j.snapshot \cup j.relearned) :
          p2[q] = p[q] \/ (p[q].version = j.version /\ p2[q].version = j.version)
    BY <1>1, <1>3, <1>4 DEF PatternsFit
  <2> QED
    BY <1>1, <2>1, EffectStays DEF Read
<1> QED
  BY <1>5, <1>7, <1>8, <1>9, MovedUnder

LEMMA ActivatedRow ==
  ASSUME NEW row \in Pattern, NEW now \in Times
  PROVE  /\ Activated(row, now) \in Pattern /\ Activated(row, now).status = "published"
         /\ Activated(row, now).version = row.version /\ Activated(row, now).until = None
BY DEF Activated, Pattern, Moment

LEMMA ActivatePatternsFits ==
  ASSUME NEW s \in [Versions -> Strategy], NEW p \in [Patterns -> Pattern], NEW whole,
         NEW j \in Request, Under(j, s, p, whole), j.pc = "activatePatterns",
         NEW p2, NEW k, NEW pc, Moved(j, k, pc, j.left, j.errors),
         Wrote(p, EnactPatterns(j, p), p2, pc, "verify")
  PROVE  /\ Under(k, s, p2, whole) /\ p2 \in [Patterns -> Pattern]
         /\ (\A q \in Patterns : Kept(p[q])) => \A q \in Patterns : Kept(p2[q])
<1>0. \/ p2 = EnactPatterns(j, p) /\ pc \in {"verify", "undoTarget"}
      \/ p2 = p /\ pc = "undoTarget"
  BY DEF Wrote
<1>1. /\ j.from \in Times /\ j.now \in Times /\ Read(j) /\ StrategiesFit(j, s) /\ PatternsFit(j, p)
      /\ EffectFits(j, s, p)
  BY DEF Under
<1>2. Alike(j, k) /\ k.pc = pc
  BY DEF Moved
<1>3. /\ \A q \in Patterns : \/ p2[q] = p[q]
                             \/ p[q].version = j.version /\ p2[q] = Activated(p[q], j.now)
      /\ pc = "verify" => \A q \in Patterns :
           p2[q] = IF p[q].version = j.version THEN Activated(p[q], j.now) ELSE p[q]
  BY <1>0 DEF EnactPatterns
<1>4. \A q \in Patterns :
        /\ Activated(p[q], j.now) \in Pattern /\ Activated(p[q], j.now).status = "published"
        /\ Activated(p[q], j.now).version = p[q].version /\ Activated(p[q], j.now).until = None
  BY <1>1, ActivatedRow
<1>5. p2 \in [Patterns -> Pattern] /\ ((\A q \in Patterns : Kept(p[q])) => \A q \in Patterns : Kept(p2[q]))
  <2>1. p2 \in [Patterns -> Pattern]
    BY <1>0, <1>4 DEF EnactPatterns
  <2> QED
    BY <2>1, <1>3, <1>4 DEF Kept
<1>6. DOMAIN j.snapshot \subseteq Patterns /\ j.relearned \subseteq Patterns
  BY RequestRows
<1>7. StrategiesFit(k, s)
  BY <1>0, <1>1, <1>2, AlikeFits DEF StrategiesFit, Undoing, Alike
<1>8. PatternsFit(k, p2)
  <2>1. \A q \in Snapped(j) : p2[q].version = j.snapshot[q].version
    BY <1>1, <1>3, <1>4, <1>6 DEF PatternsFit, Snapped
  <2>2. \A q \in Patterns \ (DOMAIN j.snapshot \cup j.relearned) :
          p2[q].status # "published" \/ p2[q].version = j.version
    BY <1>1, <1>3, <1>4 DEF PatternsFit
  <2>3. pc = "verify" => \A q \in Patterns \ j.relearned :
          (p2[q].status = "published") <=> (p2[q].version = j.version)
    BY <1>1, <1>3, <1>4 DEF PatternsFit
  <2>4. pc = "verify" => \A q \in Snapped(j) :
          j.snapshot[q].version # j.version => p2[q] = Retired(j.snapshot[q], j.from)
    BY <1>1, <1>3, <1>6 DEF PatternsFit, Snapped
  <2>5. Snapped(k) = Snapped(j) /\ k.version = j.version /\ k.snapshot = j.snapshot
        /\ k.relearned = j.relearned /\ k.from = j.from
    BY <1>2, AlikeFits DEF Alike
  <2> QED
    BY <1>0, <1>2, <2>1, <2>2, <2>3, <2>4, <2>5 DEF PatternsFit
<1>9. EffectFits(j, s, p2)
  <2>1. \A q \in Patterns \ (DOMAIN j.snapshot \cup j.relearned) :
          p2[q] = p[q] \/ (p[q].version = j.version /\ p2[q].version = j.version)
    BY <1>1, <1>3, <1>4 DEF PatternsFit
  <2> QED
    BY <1>1, <2>1, EffectStays DEF Read
<1> QED
  BY <1>5, <1>7, <1>8, <1>9, MovedUnder

\* The tables are as they were: the publication is to be undone.
LEMMA UndoFits ==
  ASSUME NEW s, NEW p, NEW whole, NEW j, Under(j, s, p, whole), j.pc \in Later \ Undoing,
         NEW k, Moved(j, k, "undoTarget", j.left, j.errors)
  PROVE  Under(k, s, p, whole)
<1>1. StrategiesFit(j, s) /\ PatternsFit(j, p) /\ EffectFits(j, s, p)
  BY DEF Under
<1>2. Alike(j, k) /\ k.pc = "undoTarget"
  BY DEF Moved
<1>3. StrategiesFit(k, s)
  BY <1>1, <1>2, AlikeFits DEF StrategiesFit, Alike, Undoing
<1>4. PatternsFit(k, p)
  BY <1>1, <1>2, AlikeFits DEF PatternsFit, Alike
<1> QED
  BY <1>1, <1>3, <1>4, MovedUnder

\* A row that was found is written back, or the error is noted.
Rewrote(rows, new, rows2, errors) == rows2 = new \/ (rows2 = rows /\ errors)
Mark(j, rows) == [rows EXCEPT ![j.version] = Marked(j.priors[j.version])]
Recover(j, rows, v) == [rows EXCEPT ![v] = Recovered(j.priors[v], rows[v])]
Rewritten(found, row) == [found EXCEPT !.version = row.version]
Rewrite(j, rows, q) == [rows EXCEPT ![q] = Rewritten(j.snapshot[q], rows[q])]

LEMMA UndoTargetFits ==
  ASSUME NEW s \in [Versions -> Strategy], NEW p \in [Patterns -> Pattern], NEW whole,
         NEW j \in Request, Under(j, s, p, whole), j.pc = "undoTarget",
         NEW s2, NEW k, NEW errors \in BOOLEAN,
         Moved(j, k, "undoStrategies", Others(j), errors),
         Rewrote(s, Mark(j, s), s2, errors)
  PROVE  /\ Under(k, s2, p, whole) /\ s2 \in [Versions -> Strategy]
         /\ (\A v \in Versions : Kept(s[v])) => \A v \in Versions : Kept(s2[v])
<1>1. /\ Read(j) /\ StrategiesFit(j, s) /\ PatternsFit(j, p) /\ EffectFits(j, s, p)
      /\ j.version \in Versions /\ j.version \in DOMAIN j.priors
  BY DEF Under, Read
<1>2. Alike(j, k) /\ k.pc = "undoStrategies" /\ k.left = Others(j) /\ k.errors = errors
  BY DEF Moved
<1>3. /\ \A v \in Versions \ {j.version} : s2[v] = s[v]
      /\ s2[j.version] \in {s[j.version], Marked(j.priors[j.version])}
      /\ ~errors => s2[j.version] = Marked(j.priors[j.version])
  BY <1>1 DEF Rewrote, Mark
<1>4. /\ Marked(j.priors[j.version]) \in Strategy /\ Marked(j.priors[j.version]).status = "draft"
  <2>1. j.priors[j.version] \in Strategy /\ j.priors[j.version].status = "draft"
    BY <1>1, RequestRows DEF Read
  <2>2. 0 \in Times
    BY StrategyConstants DEF Times
  <2> QED
    BY <2>1, <2>2, StrategyRows
<1>5. s2 \in [Versions -> Strategy] /\ ((\A v \in Versions : Kept(s[v])) => \A v \in Versions : Kept(s2[v]))
  <2>1. s2 \in [Versions -> Strategy]
    BY <1>1, <1>4 DEF Rewrote, Mark
  <2> QED
    BY <2>1, <1>1, <1>3, <1>4 DEF Kept
<1>6. DOMAIN j.priors \subseteq Versions
  BY RequestRows
<1>7. StrategiesFit(k, s2)
  <2>1. /\ {w \in Versions : s2[w].status = "published"} \subseteq DOMAIN j.priors
        /\ \A w \in DOMAIN j.priors : s2[w].status # "absent"
        /\ \A w \in Others(j) : s2[w] = s[w]
    BY <1>1, <1>3, <1>4, <1>6 DEF StrategiesFit, Others
  <2>2. Others(k) = Others(j) /\ k.priors = j.priors /\ k.version = j.version
    BY <1>2, AlikeFits DEF Alike
  <2> QED
    BY <1>1, <1>2, <1>3, <2>1, <2>2 DEF StrategiesFit
<1>8. PatternsFit(k, p)
  BY <1>1, <1>2, AlikeFits DEF PatternsFit, Alike
<1>9. EffectFits(j, s2, p)
  <2>1. \A w \in Versions \ DOMAIN j.priors : s2[w] = s[w]
    BY <1>1, <1>3
  <2> QED
    BY <1>1, <2>1, EffectStays DEF Read
<1> QED
  BY <1>5, <1>7, <1>8, <1>9, MovedUnder

LEMMA UndoStrategyFits ==
  ASSUME NEW s \in [Versions -> Strategy], NEW p \in [Patterns -> Pattern], NEW whole,
         NEW j \in Request, Under(j, s, p, whole), j.pc = "undoStrategies",
         NEW v \in j.left, NEW s2, NEW k, NEW errors \in BOOLEAN, ~errors => ~j.errors,
         Moved(j, k, "undoStrategies", j.left \ {v}, errors),
         Rewrote(s, Recover(j, s, v), s2, errors)
  PROVE  /\ Under(k, s2, p, whole) /\ s2 \in [Versions -> Strategy]
         /\ (\A w \in Versions : Kept(s[w])) => \A w \in Versions : Kept(s2[w])
<1>1. /\ Read(j) /\ StrategiesFit(j, s) /\ PatternsFit(j, p) /\ EffectFits(j, s, p)
      /\ j.version \in Versions /\ j.left \subseteq Others(j)
  BY DEF Under, StrategiesFit
<1>2. Alike(j, k) /\ k.pc = "undoStrategies" /\ k.left = j.left \ {v} /\ k.errors = errors
  BY DEF Moved
<1>3. v \in Others(j) /\ v \in DOMAIN j.priors /\ v \in Versions /\ DOMAIN j.priors \subseteq Versions
      /\ j.priors[v] \in Strategy /\ v # j.version
  BY <1>1, RequestRows DEF Others
<1>4. /\ Recovered(j.priors[v], s[v]) \in Strategy /\ Recovered(j.priors[v], s[v]) = j.priors[v]
      /\ j.priors[v].status = "published" /\ j.priors[v].until = None
  BY <1>1, <1>3, RecoveredRow DEF StrategiesFit, Read
<1>5. /\ \A w \in Versions \ {v} : s2[w] = s[w]
      /\ s2[v] \in {s[v], j.priors[v]}
      /\ ~errors => s2[v] = j.priors[v]
  BY <1>3, <1>4 DEF Rewrote, Recover
<1>6. s2 \in [Versions -> Strategy] /\ ((\A w \in Versions : Kept(s[w])) => \A w \in Versions : Kept(s2[w]))
  <2>1. s2 \in [Versions -> Strategy]
    BY <1>3, <1>4 DEF Rewrote, Recover
  <2> QED
    BY <2>1, <1>3, <1>4, <1>5 DEF Kept
<1>7. StrategiesFit(k, s2)
  <2>1. /\ {w \in Versions : s2[w].status = "published"} \subseteq DOMAIN j.priors
        /\ \A w \in DOMAIN j.priors : s2[w].status # "absent"
        /\ \A w \in Others(j) : s2[w].failed = j.priors[w].failed
    BY <1>1, <1>3, <1>4, <1>5 DEF StrategiesFit, Others
  <2>2. Others(k) = Others(j) /\ k.priors = j.priors /\ k.version = j.version
    BY <1>2, AlikeFits DEF Alike
  <2>3. ~errors => /\ s2[j.version] = Marked(j.priors[j.version])
                   /\ \A w \in Others(j) : w \notin j.left \ {v} => s2[w] = j.priors[w]
    BY <1>1, <1>3, <1>5 DEF StrategiesFit, Undoing, Others
  <2> QED
    BY <1>1, <1>2, <2>1, <2>2, <2>3 DEF StrategiesFit
<1>8. PatternsFit(k, p)
  BY <1>1, <1>2, AlikeFits DEF PatternsFit, Alike
<1>9. EffectFits(j, s2, p)
  <2>1. \A w \in Versions \ DOMAIN j.priors : s2[w] = s[w]
    BY <1>3, <1>5
  <2> QED
    BY <1>1, <2>1, EffectStays DEF Read
<1> QED
  BY <1>6, <1>7, <1>8, <1>9, MovedUnder

LEMMA StrategiesUndoneFits ==
  ASSUME NEW s, NEW p, NEW whole, NEW j \in Request, Under(j, s, p, whole),
         j.pc = "undoStrategies", j.left = {},
         NEW k, Moved(j, k, "undoPatterns", DOMAIN j.snapshot, j.errors)
  PROVE  Under(k, s, p, whole)
<1>1. StrategiesFit(j, s) /\ PatternsFit(j, p) /\ EffectFits(j, s, p)
  BY DEF Under
<1>2. Alike(j, k) /\ k.pc = "undoPatterns" /\ k.left = DOMAIN j.snapshot /\ k.errors = j.errors
  BY DEF Moved
<1>3. StrategiesFit(k, s)
  BY <1>1, <1>2, AlikeFits DEF StrategiesFit, Alike, Undoing
<1>4. PatternsFit(k, p)
  BY <1>1, <1>2, AlikeFits DEF PatternsFit, Alike, Snapped
<1> QED
  BY <1>1, <1>3, <1>4, MovedUnder

LEMMA RewrittenRow ==
  ASSUME NEW found \in Pattern, NEW row \in Pattern
  PROVE  /\ Rewritten(found, row) \in Pattern /\ Rewritten(found, row).status = found.status
         /\ Rewritten(found, row).version = row.version /\ Rewritten(found, row).until = found.until
         /\ row.version = found.version => Rewritten(found, row) = found
BY DEF Rewritten, Pattern

LEMMA UndoPatternFits ==
  ASSUME NEW s \in [Versions -> Strategy], NEW p \in [Patterns -> Pattern], NEW whole,
         NEW j \in Request, Under(j, s, p, whole), j.pc = "undoPatterns",
         NEW q \in j.left, NEW p2, NEW k, NEW errors \in BOOLEAN, ~errors => ~j.errors,
         Moved(j, k, "undoPatterns", j.left \ {q}, errors),
         Rewrote(p, Rewrite(j, p, q), p2, errors)
  PROVE  /\ Under(k, s, p2, whole) /\ p2 \in [Patterns -> Pattern]
         /\ (\A r \in Patterns : Kept(p[r])) => \A r \in Patterns : Kept(p2[r])
<1>1. /\ Read(j) /\ StrategiesFit(j, s) /\ PatternsFit(j, p) /\ EffectFits(j, s, p)
      /\ j.left \subseteq DOMAIN j.snapshot
  BY DEF Under, PatternsFit
<1>2. Alike(j, k) /\ k.pc = "undoPatterns" /\ k.left = j.left \ {q} /\ k.errors = errors
  BY DEF Moved
<1>3. q \in DOMAIN j.snapshot /\ q \in Patterns /\ j.snapshot[q] \in Pattern
      /\ DOMAIN j.snapshot \subseteq Patterns
  BY <1>1, RequestRows
<1>4. /\ Rewritten(j.snapshot[q], p[q]) \in Pattern
      /\ Rewritten(j.snapshot[q], p[q]).status = j.snapshot[q].status
      /\ Rewritten(j.snapshot[q], p[q]).version = p[q].version
      /\ Rewritten(j.snapshot[q], p[q]).until = j.snapshot[q].until
      /\ q \in Snapped(j) => Rewritten(j.snapshot[q], p[q]) = j.snapshot[q]
  BY <1>1, <1>3, RewrittenRow DEF PatternsFit
<1>5. /\ \A r \in Patterns \ {q} : p2[r] = p[r]
      /\ p2[q] \in {p[q], Rewritten(j.snapshot[q], p[q])}
      /\ ~errors => p2[q] = Rewritten(j.snapshot[q], p[q])
  BY <1>3 DEF Rewrote, Rewrite
<1>6. p2 \in [Patterns -> Pattern] /\ ((\A r \in Patterns : Kept(p[r])) => \A r \in Patterns : Kept(p2[r]))
  <2>1. p2 \in [Patterns -> Pattern]
    BY <1>3, <1>4 DEF Rewrote, Rewrite
  <2> QED
    BY <2>1, <1>1, <1>3, <1>4, <1>5 DEF Kept, Read
<1>7. StrategiesFit(k, s)
  BY <1>1, <1>2, AlikeFits DEF StrategiesFit, Alike, Undoing
<1>8. PatternsFit(k, p2)
  <2>1. \A r \in Snapped(j) : p2[r].version = j.snapshot[r].version
    BY <1>1, <1>3, <1>4, <1>5 DEF PatternsFit, Snapped
  <2>2. \A r \in Patterns \ (DOMAIN j.snapshot \cup j.relearned) :
          p2[r].status # "published" \/ p2[r].version = j.version
    BY <1>1, <1>3, <1>5 DEF PatternsFit
  <2>3. ~errors => \A r \in Snapped(j) \ (j.left \ {q}) : p2[r] = j.snapshot[r]
    BY <1>1, <1>3, <1>4, <1>5 DEF PatternsFit, Snapped
  <2>4. Snapped(k) = Snapped(j) /\ k.version = j.version /\ k.snapshot = j.snapshot
        /\ k.relearned = j.relearned
    BY <1>2, AlikeFits DEF Alike
  <2> QED
    BY <1>1, <1>2, <2>1, <2>2, <2>3, <2>4 DEF PatternsFit
<1>9. EffectFits(j, s, p2)
  <2>1. \A r \in Patterns \ (DOMAIN j.snapshot \cup j.relearned) :
          p2[r] = p[r] \/ (p[r].version = j.version /\ p2[r].version = j.version)
    BY <1>3, <1>5
  <2> QED
    BY <1>1, <2>1, EffectStays DEF Read
<1> QED
  BY <1>6, <1>7, <1>8, <1>9, MovedUnder

LEMMA CheckFits ==
  ASSUME NEW s, NEW p, NEW whole, NEW j \in Request, Under(j, s, p, whole),
         j.pc = "undoPatterns", j.left = {}, NEW errors \in BOOLEAN, ~errors => ~j.errors,
         NEW k, Moved(j, k, "checkPatterns", {}, errors)
  PROVE  Under(k, s, p, whole)
<1>1. StrategiesFit(j, s) /\ PatternsFit(j, p) /\ EffectFits(j, s, p)
  BY DEF Under
<1>2. Alike(j, k) /\ k.pc = "checkPatterns" /\ k.errors = errors
  BY DEF Moved
<1>3. StrategiesFit(k, s)
  BY <1>1, <1>2, AlikeFits DEF StrategiesFit, Alike, Undoing
<1>4. PatternsFit(k, p)
  BY <1>1, <1>2, AlikeFits DEF PatternsFit, Alike, Snapped
<1> QED
  BY <1>1, <1>3, <1>4, MovedUnder

\* Nothing a publication found is absent, so that no draft is made of it.
LEMMA DraftFits ==
  ASSUME NEW s \in [Versions -> Strategy], NEW p, NEW whole, NEW j, Under(j, s, p, whole),
         NEW f \in Versions, s[f].status = "absent"
  PROVE  Under(j, [s EXCEPT ![f] = Draft], p, whole)
<1> DEFINE s2 == [s EXCEPT ![f] = Draft]
<1>1. /\ Read(j) /\ StrategiesFit(j, s) /\ PatternsFit(j, p) /\ EffectFits(j, s, p)
      /\ j.version \in DOMAIN j.priors
  BY DEF Under, Read
<1>2. s2[f] = Draft /\ Draft.status = "draft" /\ \A w \in Versions \ {f} : s2[w] = s[w]
  BY DEF Draft, NoStrategy
<1>3. f \notin DOMAIN j.priors
  BY <1>1 DEF StrategiesFit
<1>4. \A w \in DOMAIN j.priors : s2[w] = s[w]
  BY <1>3
<1> HIDE DEF s2
<1>5. /\ {w \in Versions : s2[w].status = "published"} \subseteq DOMAIN j.priors
      /\ \A w \in Others(j) : s2[w] = s[w]
      /\ s2[j.version] = s[j.version]
  BY <1>1, <1>2, <1>4 DEF StrategiesFit, Others
<1>6. StrategiesFit(j, s2)
  BY <1>1, <1>4, <1>5 DEF StrategiesFit
<1>7. \A w \in Versions \ DOMAIN j.priors :
        \/ s2[w] = s[w]
        \/ s[w].status \notin {"published", "retired"} /\ s2[w].status \notin {"published", "retired"}
  BY <1>2
<1>8. EffectFits(j, s2, p)
  BY <1>1, <1>7, EffectStays DEF Read
<1>9. Under(j, s2, p, whole)
  BY <1>1, <1>6, <1>8 DEF Under
<1> QED
  BY <1>9 DEF s2

Relearned(j, q) == [j EXCEPT !.relearned = @ \cup {q}]
SameBut(rows, rows2, q) == \A r \in Patterns \ {q} : rows2[r] = rows[r]

LEMMA RelearnedFits ==
  ASSUME NEW s, NEW p \in [Patterns -> Pattern], NEW whole,
         NEW j \in Request, Under(j, s, p, whole),
         NEW q \in Patterns, NEW p2, SameBut(p, p2, q)
  PROVE  /\ Relearned(j, q) \in Request /\ Under(Relearned(j, q), s, p2, whole)
         /\ Relearned(j, q).pc = j.pc /\ Relearned(j, q).answer = j.answer
<1> DEFINE k == Relearned(j, q)
<1>1. /\ Read(j) /\ StrategiesFit(j, s) /\ PatternsFit(j, p) /\ EffectFits(j, s, p)
  BY DEF Under
<1>2. /\ k \in Request /\ k.pc = j.pc /\ k.version = j.version /\ k.from = j.from /\ k.now = j.now
      /\ k.priors = j.priors /\ k.snapshot = j.snapshot /\ k.left = j.left
      /\ k.errors = j.errors /\ k.effect = j.effect /\ k.relearned = j.relearned \cup {q}
      /\ k.answer = j.answer
  BY DEF Relearned, Request
<1> HIDE DEF k
<1>3. /\ Others(k) = Others(j) /\ Out(k) = Out(j)
      /\ Snapped(k) \subseteq Snapped(j) \ {q}
  BY <1>2 DEF Others, Out, Snapped
<1>4. Read(k)
  BY <1>1, <1>2, <1>3 DEF Read
<1>5. StrategiesFit(k, s)
  BY <1>1, <1>2, <1>3 DEF StrategiesFit
<1>6. DOMAIN j.snapshot \subseteq Patterns
  BY RequestRows
<1>7. /\ Snapped(k) \subseteq Snapped(j) /\ \A r \in Snapped(k) : p2[r] = p[r]
      /\ \A r \in Patterns \ k.relearned : r \in Patterns \ j.relearned /\ p2[r] = p[r]
  BY <1>2, <1>3, <1>6 DEF Snapped, SameBut
<1>8. PatternsFit(k, p2)
  BY <1>1, <1>2, <1>7 DEF PatternsFit
<1>9. EffectFits(k, s, p2)
  <2> SUFFICES ASSUME NEW t \in Times
               PROVE  /\ k.effect[t].strategy = Latest(Seen(Found(k, s), t))
                      /\ \A r \in Patterns \ k.relearned :
                           r \in k.effect[t].patterns
                             <=> Belongs(FoundPattern(k, p2, r), k.effect[t].strategy, t)
    BY DEF EffectFits
  <2>1. Found(k, s) = Found(j, s)
    BY <1>2 DEF Found
  <2>2. \A r \in Patterns \ k.relearned : FoundPattern(k, p2, r) = FoundPattern(j, p, r)
    BY <1>2, <1>7 DEF FoundPattern
  <2> QED
    BY <1>1, <1>2, <1>7, <2>1, <2>2 DEF EffectFits
<1>10. Under(k, s, p2, whole)
  BY <1>1, <1>2, <1>3, <1>4, <1>5, <1>8, <1>9 DEF Under
<1> QED
  BY <1>2, <1>10 DEF k

\* The request that has read what there is.
Snapshotted(j, now, priors, snapshot, effect) ==
  [j EXCEPT !.pc = "retire", !.now = now, !.priors = priors, !.snapshot = snapshot,
            !.effect = effect]

LEMMA EffectType ==
  ASSUME TypeOK, NEW t \in Times
  PROVE  ReadAt(t) \in [strategy : Versions \cup {None}, patterns : SUBSET Patterns]
<1>1. InEffect(t) \in Versions \cup {None}
  BY InEffectSeen, SeenIn DEF TypeOK
<1>2. Learned(t) \in SUBSET Patterns
  BY DEF Learned
<1> QED
  BY <1>1, <1>2 DEF ReadAt

\* What a publication reads: the published rows and its own.
Swept(v) ==
  {p \in Patterns :
     \/ pattern[p].status = "published"
     \/ pattern[p].status = "draft" /\ pattern[p].version = v}

Snapshots(v, priors, snapshot, effect) ==
  /\ priors \in Maps(Versions, Strategy) /\ snapshot \in Maps(Patterns, Pattern)
  /\ effect \in Maps(Times, [strategy : Versions \cup {None}, patterns : SUBSET Patterns])
  /\ DOMAIN priors = Published \cup {v} /\ \A w \in DOMAIN priors : priors[w] = strategy[w]
  /\ DOMAIN snapshot = Swept(v) /\ \A p \in DOMAIN snapshot : snapshot[p] = pattern[p]
  /\ DOMAIN effect = Times /\ \A t \in Times : effect[t] = ReadAt(t)

LEMMA SnapshotsMade ==
  ASSUME TypeOK, NEW v \in Versions
  PROVE  Snapshots(v, [w \in Published \cup {v} |-> strategy[w]], [p \in Swept(v) |-> pattern[p]],
                   [t \in Times |-> ReadAt(t)])
<1> DEFINE D == Published \cup {v}
           S == Swept(v)
           priors == [w \in D |-> strategy[w]]
           snapshot == [p \in S |-> pattern[p]]
           effect == [t \in Times |-> ReadAt(t)]
<1>1. strategy \in [Versions -> Strategy] /\ pattern \in [Patterns -> Pattern]
  BY DEF TypeOK
<1>2. D \in SUBSET Versions /\ S \in SUBSET Patterns
  BY DEF Published, Swept
<1>3. priors \in [D -> Strategy] /\ snapshot \in [S -> Pattern]
  BY <1>1, <1>2
<1>4. effect \in [Times -> [strategy : Versions \cup {None}, patterns : SUBSET Patterns]]
  BY EffectType
<1>5. /\ priors \in Maps(Versions, Strategy) /\ snapshot \in Maps(Patterns, Pattern)
      /\ effect \in Maps(Times, [strategy : Versions \cup {None}, patterns : SUBSET Patterns])
  <2>1. Times \in SUBSET Times
    OBVIOUS
  <2> QED
    BY <1>2, <1>3, <1>4, <2>1, MapsMade
<1>6. /\ DOMAIN priors = D /\ \A w \in D : priors[w] = strategy[w]
      /\ DOMAIN snapshot = S /\ \A p \in S : snapshot[p] = pattern[p]
      /\ DOMAIN effect = Times /\ \A t \in Times : effect[t] = ReadAt(t)
  OBVIOUS
<1> HIDE DEF priors, snapshot, effect
<1>a. D = Published \cup {v} /\ S = Swept(v)
  OBVIOUS
<1> HIDE DEF D, S
<1>7. Snapshots(v, priors, snapshot, effect)
  BY <1>5, <1>6, <1>a DEF Snapshots
<1> QED
  BY <1>7 DEF priors, snapshot, effect, D, S

Taken(j, k, now, priors, snapshot, effect) ==
  /\ k \in Request /\ k.pc = "retire" /\ k.version = j.version /\ k.from = j.from
  /\ k.now = now /\ k.priors = priors /\ k.snapshot = snapshot /\ k.effect = effect
  /\ k.relearned = j.relearned /\ k.answer = j.answer

LEMMA SnapshottedTaken ==
  ASSUME NEW j \in Request, NEW now \in Moment,
         NEW priors \in Maps(Versions, Strategy), NEW snapshot \in Maps(Patterns, Pattern),
         NEW effect \in Maps(Times, [strategy : Versions \cup {None}, patterns : SUBSET Patterns])
  PROVE  Taken(j, Snapshotted(j, now, priors, snapshot, effect), now, priors, snapshot, effect)
<1> DEFINE new == [j EXCEPT !.pc = "retire", !.now = now, !.priors = priors, !.snapshot = snapshot,
                            !.effect = effect]
<1>1. new \in Request
  BY DEF Request, Steps
<1>2. /\ new.pc = "retire" /\ new.version = j.version /\ new.from = j.from
      /\ new.now = now /\ new.priors = priors /\ new.snapshot = snapshot /\ new.effect = effect
      /\ new.relearned = j.relearned /\ new.answer = j.answer
  BY DEF Request
<1>3. Snapshotted(j, now, priors, snapshot, effect) = new
  BY DEF Snapshotted
<1> HIDE DEF new
<1> QED
  BY <1>1, <1>2, <1>3 DEF Taken

LEMMA SnapshotFits ==
  ASSUME TypeOK, \A v \in Versions : Kept(strategy[v]), \A p \in Patterns : Kept(pattern[p]),
         sound => One(Published),
         NEW j \in Request, j.version \in Versions, j.from \in Times,
         strategy[j.version].status = "draft", j.relearned = {},
         NEW priors, NEW snapshot, NEW effect, Snapshots(j.version, priors, snapshot, effect),
         NEW k, k = Snapshotted(j, clock, priors, snapshot, effect)
  PROVE  k \in Request /\ k.pc = "retire" /\ k.answer = j.answer /\ Under(k, strategy, pattern, sound)
<1> DEFINE D == Published \cup {j.version}
           S == DOMAIN snapshot
<1>1. /\ strategy \in [Versions -> Strategy] /\ pattern \in [Patterns -> Pattern]
      /\ clock \in Times /\ clock \in Moment
  BY DEF TypeOK, Moment
<1>7. /\ k \in Request /\ k.pc = "retire" /\ k.version = j.version /\ k.from = j.from
      /\ k.now = clock /\ k.priors = priors /\ k.snapshot = snapshot /\ k.effect = effect
      /\ k.relearned = {} /\ k.answer = j.answer
  <2>1. /\ priors \in Maps(Versions, Strategy) /\ snapshot \in Maps(Patterns, Pattern)
        /\ effect \in Maps(Times, [strategy : Versions \cup {None}, patterns : SUBSET Patterns])
    BY DEF Snapshots
  <2>2. Taken(j, k, clock, priors, snapshot, effect)
    BY <1>1, <2>1, SnapshottedTaken
  <2> QED
    BY <2>2 DEF Taken
<1>8. /\ DOMAIN priors = D /\ \A w \in D : priors[w] = strategy[w]
      /\ S = Swept(j.version) /\ \A p \in S : pattern[p].status = "published" \/ pattern[p].version = j.version
      /\ \A p \in Patterns : pattern[p].status = "published" => p \in S
      /\ S \subseteq Patterns /\ \A p \in S : snapshot[p] = pattern[p]
      /\ DOMAIN effect = Times /\ \A t \in Times : effect[t] = ReadAt(t)
  BY DEF Snapshots, Swept
<1>9. /\ j.version \notin Published /\ D \ {j.version} = Published
      /\ \A w \in Published : strategy[w].status = "published"
      /\ \A w \in Versions : strategy[w].status = "published" => w \in Published
  BY DEF Published
<1>10. Others(k) = Published /\ Snapped(k) = S
  BY <1>7, <1>8, <1>9 DEF Others, Snapped
<1>11. \A t \in Times : effect[t].strategy = Latest(Seen(strategy, t))
  BY <1>8, InEffectSeen DEF ReadAt
<1>12. \A t \in Times : effect[t].strategy # j.version
  <2> TAKE t \in Times
  <2>1. Latest(Seen(strategy, t)) \in {w \in Versions : Visible(strategy[w], t)} \cup {None}
    BY <1>1, SeenIn
  <2>2. ~Visible(strategy[j.version], t) /\ j.version # None
    BY Kinds DEF Visible
  <2> QED
    BY <1>11, <2>1, <2>2
<1>13. Read(k)
  <2>1. \A p \in S : Kept(snapshot[p]) /\ (snapshot[p].version = j.version \/ snapshot[p].status = "published")
    BY <1>8
  <2>2. \A w \in Published : priors[w].status = "published" /\ priors[w].until = None
    BY <1>8, <1>9 DEF Kept, Published
  <2> QED
    BY <1>7, <1>8, <1>10, <1>12, <2>1, <2>2 DEF Read
<1>14. StrategiesFit(k, strategy)
  <2>1. {w \in Versions : strategy[w].status = "published"} \subseteq D
    BY DEF Published
  <2> QED
    BY <1>7, <1>8, <1>9, <1>10, <2>1 DEF StrategiesFit, Undoing
<1>15. PatternsFit(k, pattern)
  BY <1>7, <1>8, <1>10 DEF PatternsFit
<1>16. EffectFits(k, strategy, pattern)
  <2> SUFFICES ASSUME NEW t \in Times
               PROVE  /\ effect[t].strategy = Latest(Seen(Found(k, strategy), t))
                      /\ \A p \in Patterns :
                           p \in effect[t].patterns
                             <=> Belongs(FoundPattern(k, pattern, p), effect[t].strategy, t)
    BY <1>7 DEF EffectFits
  <2>1. \A w \in Versions : Found(k, strategy)[w] = strategy[w]
    BY <1>7, <1>8 DEF Found
  <2>2. Seen(Found(k, strategy), t) = Seen(strategy, t)
    BY <2>1, SameSeen
  <2>3. \A p \in Patterns : FoundPattern(k, pattern, p) = pattern[p]
    BY <1>7, <1>8 DEF FoundPattern
  <2>4. effect[t].patterns = Learned(t) /\ effect[t].strategy = InEffect(t)
    BY <1>8 DEF ReadAt
  <2> QED
    BY <1>11, <2>2, <2>3, <2>4, LearnedBelongs
<1>17. Under(k, strategy, pattern, sound)
  BY <1>1, <1>7, <1>10, <1>13, <1>14, <1>15, <1>16 DEF Under
<1> QED
  BY <1>7, <1>17

----------------------------------------------------------------------------
(* Steps of the state.                                                     *)

\* No publication is answered with success, or as restored.
Quiet ==
  \A a \in Admins : job'[a].answer \in {job[a].answer, "none", "refused", "incomplete", "crashed"}

LEMMA StateTypes ==
  ASSUME IInv
  PROVE  /\ strategy \in [Versions -> Strategy] /\ pattern \in [Patterns -> Pattern]
         /\ job \in [Admins -> Request] /\ queue \in Seq(Admins)
         /\ learner \in [Learners -> LearnerState] /\ sound \in BOOLEAN /\ clock \in Times
         /\ faults \in Nat
         /\ \A v \in Versions : Kept(strategy[v])
         /\ \A p \in Patterns : Kept(pattern[p])
BY DEF IInv, TypeOK

LEMMA NextTypes ==
  ASSUME strategy' \in [Versions -> Strategy], pattern' \in [Patterns -> Pattern],
         job' \in [Admins -> Request], queue' \in Seq(Admins),
         learner' \in [Learners -> LearnerState], sound' \in BOOLEAN, clock' \in Times,
         faults' \in Nat
  PROVE  TypeOK'
<1>1. \A a \in Admins : JobState(job'[a])
  BY RequestState
<1> QED
  BY <1>1 DEF TypeOK

\* The publication at the head of the queue goes on.
LEMMA HeadGoes ==
  ASSUME IInv, NEW a \in Admins, job[a].pc \in Steps,
         NEW k \in Request, Set(a, k), k.pc \in Later, k.answer = job[a].answer,
         Under(k, strategy', pattern', sound),
         strategy' \in [Versions -> Strategy], pattern' \in [Patterns -> Pattern],
         \A v \in Versions : Kept(strategy'[v]), \A p \in Patterns : Kept(pattern'[p]),
         faults' \in Nat, UNCHANGED <<queue, learner, sound, clock>>
  PROVE  IInv' /\ Quiet
<1>1. /\ job' \in [Admins -> Request] /\ job'[a] = k
      /\ \A b \in Admins \ {a} : job'[b] = job[b]
  BY StateTypes, SetRequest
<1>2. Head(queue) = a /\ \A b \in Admins \ {a} : job[b].pc \notin Steps
  BY Heading DEF IInv, QueueInv, UnderWay
<1>3. TypeOK'
  BY StateTypes, <1>1, NextTypes
<1>4. QueueInv'
  <2>1. \A b \in Admins : job'[b].pc \in UnderWay <=> job[b].pc \in UnderWay
    BY <1>1 DEF UnderWay, Later
  <2>2. \A b \in Admins : job'[b].pc \in Steps => Head(queue) = b
    BY <1>1, <1>2
  <2> QED
    BY <2>1, <2>2, QueueStays DEF IInv
<1>5. \A b \in Admins : JobInv(b)'
  <2> TAKE b \in Admins
  <2>1. CASE b = a
    BY <1>1, <2>1 DEF JobInv, Later, Steps
  <2>2. CASE b # a
    BY <1>1, <1>2, <2>2 DEF JobInv, Later, IInv
  <2> QED
    BY <2>1, <2>2
<1>6. Quiet
  BY <1>1 DEF Quiet
<1> QED
  BY <1>1, <1>3, <1>4, <1>5, <1>6 DEF IInv

\* A publication is answered, and the next is let on.
LEMMA HeadLeaves ==
  ASSUME IInv, NEW a \in Admins, job[a].pc \in Steps,
         NEW answer \in {"none", "refused", "published", "restored", "incomplete", "crashed"},
         Answer(a, answer), Release,
         sound' \in BOOLEAN, sound' => One(Published),
         faults' \in Nat, UNCHANGED <<strategy, pattern, learner, clock>>
  PROVE  IInv' /\ (answer \notin {"published", "restored"} => Quiet)
<1>1. Set(a, Answered(answer)) /\ Answered(answer) \in Request
      /\ Answered(answer).pc = "over" /\ Answered(answer).answer = answer
  BY AnsweredRequest DEF Answer, Answered
<1>2. /\ job' \in [Admins -> Request] /\ job'[a].pc = "over" /\ job'[a].answer = answer
      /\ \A b \in Admins \ {a} : job'[b] = job[b]
  BY <1>1, StateTypes, SetRequest
<1>3. \A b \in Admins \ {a} : job[b].pc \notin Steps
  BY Heading DEF IInv, QueueInv, UnderWay
<1>4. QueueInv' /\ queue' \in Seq(Admins)
  BY <1>2, QueueReleased DEF IInv
<1>5. TypeOK'
  BY StateTypes, <1>2, <1>4, NextTypes
<1>6. \A b \in Admins : JobInv(b)'
  <2> TAKE b \in Admins
  <2>1. CASE b = a
    BY <1>2, <2>1 DEF JobInv, Later, Steps
  <2>2. CASE b # a
    BY <1>2, <1>3, <2>2 DEF JobInv, Later, IInv
  <2> QED
    BY <2>1, <2>2
<1>7. Published' = Published
  BY DEF Published
<1>8. answer \notin {"published", "restored"} => Quiet
  BY <1>2 DEF Quiet
<1> QED
  BY StateTypes, <1>2, <1>4, <1>5, <1>6, <1>7, <1>8 DEF IInv

\* Drafts.
Drafted == UNCHANGED strategy \/ (FreshLeft /\ NewDraft(Fresh))

LEMMA FreshVersion ==
  ASSUME FreshLeft
  PROVE  Fresh \in Versions /\ strategy[Fresh].status = "absent"
BY DEF FreshLeft, Fresh

LEMMA DraftKeeps ==
  ASSUME IInv, Drafted
  PROVE  /\ strategy' \in [Versions -> Strategy] /\ \A v \in Versions : Kept(strategy'[v])
         /\ Published' = Published
         /\ \A j, whole : Under(j, strategy, pattern, whole) => Under(j, strategy', pattern, whole)
<1>1. CASE UNCHANGED strategy
  BY <1>1, StateTypes DEF Published
<1>2. CASE FreshLeft /\ NewDraft(Fresh)
  <2>1. PICK f \in Versions : strategy[f].status = "absent" /\ strategy' = [strategy EXCEPT ![f] = Draft]
    BY <1>2, FreshVersion DEF NewDraft
  <2>2. Draft \in Strategy /\ Draft.status = "draft"
    BY Kinds DEF Draft, NoStrategy
  <2>3. /\ strategy' \in [Versions -> Strategy] /\ strategy'[f] = Draft
        /\ \A v \in Versions \ {f} : strategy'[v] = strategy[v]
    BY <2>1, <2>2, StateTypes
  <2>4. \A v \in Versions : Kept(strategy'[v])
    BY <2>2, <2>3, StateTypes DEF Kept
  <2>5. Published' = Published
    BY <2>1, <2>2, <2>3 DEF Published
  <2>6. ASSUME NEW j, NEW whole, Under(j, strategy, pattern, whole)
        PROVE  Under(j, strategy', pattern, whole)
    <3>1. Under(j, [strategy EXCEPT ![f] = Draft], pattern, whole)
      BY <2>1, <2>6, StateTypes, DraftFits
    <3> QED
      BY <2>1, <3>1
  <2> QED
    BY <2>3, <2>4, <2>5, <2>6
<1> QED
  BY <1>1, <1>2 DEF Drafted

\* The requests go on as they were, but for one that is made.
LEMMA RequestMade ==
  ASSUME IInv, Drafted, NEW a \in Admins, job[a].pc = "idle",
         NEW k \in Request, Set(a, k), k.answer \in {"none", "refused"},
         \/ k.pc = "over" /\ UNCHANGED queue
         \/ /\ k.pc = "queued" /\ k.version \in Versions /\ k.relearned = {}
            /\ queue' = Append(queue, a),
         faults' \in Nat, UNCHANGED <<pattern, learner, sound, clock>>
  PROVE  IInv' /\ Quiet
<1>1. /\ job' \in [Admins -> Request] /\ job'[a] = k
      /\ \A b \in Admins \ {a} : job'[b] = job[b]
  BY StateTypes, SetRequest
<1>2. k.pc \notin Steps /\ job[a].pc \notin UnderWay
  BY DEF Steps, UnderWay
<1>3. QueueInv' /\ queue' \in Seq(Admins)
  <2>1. CASE k.pc = "over" /\ UNCHANGED queue
    <3>1. \A b \in Admins : job'[b].pc \in UnderWay <=> job[b].pc \in UnderWay
      BY <1>1, <1>2, <2>1 DEF UnderWay
    <3>2. \A b \in Admins : job'[b].pc \in Steps => Head(queue) = b
      BY <1>1, <1>2 DEF IInv, QueueInv
    <3> QED
      BY <2>1, <3>1, <3>2, QueueStays, StateTypes DEF IInv
  <2>2. CASE k.pc = "queued" /\ queue' = Append(queue, a)
    BY <1>1, <2>2, QueueJoined DEF IInv
  <2> QED
    BY <2>1, <2>2
<1>4. /\ strategy' \in [Versions -> Strategy] /\ \A v \in Versions : Kept(strategy'[v])
      /\ Published' = Published
      /\ \A j, whole : Under(j, strategy, pattern, whole) => Under(j, strategy', pattern, whole)
  BY DraftKeeps
<1>5. TypeOK'
  BY StateTypes, <1>1, <1>3, <1>4, NextTypes
<1>6. \A b \in Admins : JobInv(b)'
  <2> TAKE b \in Admins
  <2>1. CASE b = a
    BY <1>1, <1>2, <2>1 DEF JobInv, Later, Steps
  <2>2. CASE b # a
    BY <1>1, <1>4, <2>2 DEF JobInv, IInv
  <2> QED
    BY <2>1, <2>2
<1>7. (\A b \in Admins : job'[b].pc \notin Later) => \A b \in Admins : job[b].pc \notin Later
  BY <1>1, <1>2 DEF Later, UnderWay
<1>8. Quiet
  BY <1>1 DEF Quiet
<1> QED
  BY StateTypes, <1>1, <1>3, <1>4, <1>5, <1>6, <1>7, <1>8 DEF IInv

----------------------------------------------------------------------------
(* The actions, one by one.                                                *)

LEMMA CreateDraftStep ==
  ASSUME IInv, NEW a \in Admins, CreateDraft(a)
  PROVE  IInv' /\ Quiet
<1>1. /\ job[a].pc = "idle" /\ Drafted /\ Set(a, Answered("none"))
      /\ UNCHANGED <<pattern, queue, learner, sound, clock, faults>>
  BY DEF CreateDraft, Drafted, Answer, Answered
<1>2. /\ Answered("none") \in Request /\ Answered("none").pc = "over"
      /\ Answered("none").answer = "none"
  BY AnsweredRequest
<1> QED
  BY <1>1, <1>2, RequestMade, StateTypes

LEMMA PublishStep ==
  ASSUME IInv, NEW a \in Admins, Publish(a)
  PROVE  IInv' /\ Quiet
<1>1. PICK v \in Versions, from \in Moment : Enqueue(a, v, from)
  BY DEF Publish
<1>2. /\ Set(a, Waiting(v, from)) /\ queue' = Append(queue, a) /\ job[a].pc = "idle" /\ Drafted
      /\ UNCHANGED <<pattern, learner, sound, clock, faults>>
  BY <1>1 DEF Publish, Enqueue, Waiting, Drafted
<1>3. /\ Waiting(v, from) \in Request /\ Waiting(v, from).pc = "queued"
      /\ Waiting(v, from).answer = "none" /\ Waiting(v, from).version = v
      /\ Waiting(v, from).relearned = {}
  BY WaitingRequest
<1> QED
  BY <1>2, <1>3, RequestMade, StateTypes

LEMMA RollbackStep ==
  ASSUME IInv, NEW a \in Admins, Rollback(a)
  PROVE  IInv' /\ Quiet
<1>1. /\ job[a].pc = "idle" /\ FreshLeft /\ UNCHANGED <<pattern, learner, sound, clock>>
      /\ \/ NewDraft(Fresh) /\ Enqueue(a, Fresh, clock) /\ UNCHANGED faults
         \/ /\ faults' = faults + 1 /\ (NewDraft(Fresh) \/ UNCHANGED strategy)
            /\ Answer(a, "refused") /\ UNCHANGED queue
  BY DEF Rollback, Call
<1>2. Drafted /\ faults' \in Nat
  BY <1>1, StateTypes DEF Drafted
<1>3. CASE NewDraft(Fresh) /\ Enqueue(a, Fresh, clock)
  <2>1. Fresh \in Versions /\ clock \in Moment
    BY <1>1, FreshVersion, StateTypes DEF Moment
  <2>2. Set(a, Waiting(Fresh, clock)) /\ queue' = Append(queue, a)
    BY <1>3 DEF Enqueue, Waiting
  <2>3. /\ Waiting(Fresh, clock) \in Request /\ Waiting(Fresh, clock).pc = "queued"
        /\ Waiting(Fresh, clock).answer = "none" /\ Waiting(Fresh, clock).version = Fresh
        /\ Waiting(Fresh, clock).relearned = {}
    BY <2>1, WaitingRequest
  <2> QED
    BY <1>1, <1>2, <2>1, <2>2, <2>3, RequestMade
<1>4. CASE Answer(a, "refused") /\ UNCHANGED queue
  <2>1. Set(a, Answered("refused"))
    BY <1>4 DEF Answer, Answered
  <2>2. /\ Answered("refused") \in Request /\ Answered("refused").pc = "over"
        /\ Answered("refused").answer = "refused"
    BY AnsweredRequest
  <2> QED
    BY <1>1, <1>2, <1>4, <2>1, <2>2, RequestMade
<1> QED
  BY <1>1, <1>3, <1>4

\* Nobody else is publishing.
LEMMA HeadAlone ==
  ASSUME IInv, NEW a \in Admins, job[a].pc \in UnderWay, Head(queue) = a
  PROVE  /\ \A b \in Admins \ {a} : job[b].pc \notin Steps
         /\ job[a].pc \notin Later => (sound => One(Published))
<1>1. \A b \in Admins \ {a} : job[b].pc \notin Steps
  BY Heading DEF IInv
<1>2. job[a].pc \notin Later => (sound => One(Published))
  BY <1>1 DEF IInv, Later
<1> QED
  BY <1>1, <1>2

Begun(j, from) == [j EXCEPT !.pc = "snapshots", !.from = from]

LEMMA BegunRequest ==
  ASSUME NEW j \in Request, NEW from \in Times
  PROVE  /\ Begun(j, from) \in Request /\ Begun(j, from).pc = "snapshots"
         /\ Begun(j, from).from = from /\ Begun(j, from).version = j.version
         /\ Begun(j, from).relearned = j.relearned /\ Begun(j, from).answer = j.answer
BY DEF Request, Begun, Steps, Moment

LEMMA BeginStep ==
  ASSUME IInv, NEW a \in Admins, Begin(a)
  PROVE  IInv' /\ Quiet
<1> DEFINE from == IF job[a].from = None THEN clock ELSE job[a].from
           k == Begun(job[a], from)
<1>1. /\ job[a] \in Request /\ job[a].pc = "queued" /\ Head(queue) = a
      /\ UNCHANGED <<strategy, pattern, queue, learner, sound, clock, faults>>
      /\ job[a].pc \in UnderWay
  BY StateTypes DEF Begin, Turn, UnderWay
<1>2. job[a].from \in Moment
  BY <1>1 DEF Request
<1>3. from \in Times
  BY <1>2, StateTypes DEF Moment
<1>4. Set(a, k)
  BY DEF Begin, Begun
<1> HIDE DEF from
<1>5. /\ k \in Request /\ k.pc = "snapshots" /\ k.from = from /\ k.version = job[a].version
      /\ k.relearned = job[a].relearned /\ k.answer = job[a].answer
  BY <1>1, <1>3, BegunRequest
<1> HIDE DEF k
<1>6. /\ job' \in [Admins -> Request] /\ job'[a] = k
      /\ \A b \in Admins \ {a} : job'[b] = job[b]
  BY <1>4, <1>5, StateTypes, SetRequest
<1>7. /\ \A b \in Admins \ {a} : job[b].pc \notin Steps
      /\ job[a].pc \notin Later => (sound => One(Published))
  BY <1>1, HeadAlone
<1>8. "snapshots" \in Steps /\ "queued" \notin Steps /\ "snapshots" \notin Later
      /\ "queued" \notin Later
  BY DEF Steps, Later
<1>9. QueueInv'
  <2>1. \A b \in Admins : job'[b].pc \in UnderWay <=> job[b].pc \in UnderWay
    BY <1>1, <1>5, <1>6, <1>8 DEF UnderWay
  <2>2. \A b \in Admins : job'[b].pc \in Steps => Head(queue) = b
    BY <1>1, <1>6, <1>7
  <2> QED
    BY <1>1, <2>1, <2>2, QueueStays DEF IInv
<1>10. \A b \in Admins : JobInv(b)'
  <2> TAKE b \in Admins
  <2>1. CASE b = a
    <3>1. job[a].version \in Versions /\ job[a].relearned = {}
      BY <1>1 DEF IInv, JobInv
    <3> QED
      BY <1>3, <1>5, <1>6, <1>8, <2>1, <3>1 DEF JobInv
  <2>2. CASE b # a
    <3>1. JobInv(b)
      BY DEF IInv
    <3> QED
      BY <1>1, <1>6, <2>2, <3>1 DEF JobInv
  <2> QED
    BY <2>1, <2>2
<1>11. TypeOK' /\ Published' = Published
  BY <1>1, <1>6, StateTypes, NextTypes DEF Published
<1>12. Quiet
  BY <1>5, <1>6 DEF Quiet
<1> QED
  BY <1>1, <1>6, <1>7, <1>8, <1>9, <1>10, <1>11, <1>12, StateTypes DEF IInv

LEMMA AnswerGiven ==
  ASSUME NEW a \in Admins, NEW answer, Answer(a, answer)
  PROVE  Set(a, Answered(answer))
BY DEF Answer, Answered

LEMMA ReadSnapshotsStep ==
  ASSUME IInv, NEW a \in Admins, ReadSnapshots(a)
  PROVE  IInv' /\ Quiet
<1> DEFINE v == job[a].version
           priors == [w \in Published \cup {v} |-> strategy[w]]
           snapshot == [p \in Swept(v) |-> pattern[p]]
           effect == [t \in Times |-> ReadAt(t)]
           k == Snapshotted(job[a], clock, priors, snapshot, effect)
<1>1. /\ job[a] \in Request /\ job[a].pc = "snapshots" /\ job[a].pc \in Steps
      /\ job[a].pc \notin Later /\ job[a].pc \in UnderWay
      /\ UNCHANGED <<strategy, pattern, learner, sound, clock>>
  BY StateTypes DEF ReadSnapshots, Steps, Later, UnderWay
<1>2. \/ strategy[v].status = "draft" /\ Set(a, k) /\ UNCHANGED <<queue, faults>>
      \/ Answer(a, "refused") /\ Release /\ (UNCHANGED faults \/ faults' = faults + 1)
  BY DEF ReadSnapshots, Snapshotted, Swept
<1>3. /\ v \in Versions /\ job[a].relearned = {} /\ job[a].from \in Times
      /\ sound => One(Published)
  BY <1>1, HeadAlone DEF IInv, JobInv, QueueInv
<1>4. CASE strategy[v].status = "draft" /\ Set(a, k) /\ UNCHANGED <<queue, faults>>
  <2>1. Snapshots(v, priors, snapshot, effect)
    BY <1>3, SnapshotsMade DEF IInv
  <2> HIDE DEF priors, snapshot, effect
  <2>2. /\ k \in Request /\ k.pc = "retire" /\ k.answer = job[a].answer
        /\ Under(k, strategy, pattern, sound)
    BY <1>1, <1>3, <1>4, <2>1, StateTypes, SnapshotFits DEF IInv
  <2>3. k.pc \in Later
    BY <2>2 DEF Later, Steps
  <2> HIDE DEF k
  <2>4. Under(k, strategy', pattern', sound)
    BY <1>1, <2>2
  <2> QED
    BY <1>1, <1>4, <2>2, <2>3, <2>4, StateTypes, HeadGoes
<1>5. CASE Answer(a, "refused") /\ Release /\ (UNCHANGED faults \/ faults' = faults + 1)
  <2>1. faults' \in Nat
    BY <1>5, StateTypes
  <2> QED
    BY <1>1, <1>3, <1>5, <2>1, StateTypes, HeadLeaves
<1> QED
  BY <1>2, <1>4, <1>5

\* The lemmas about the steps of a publication, applied to the state.
LEMMA Goes ==
  ASSUME IInv, NEW a \in Admins, NEW pc \in Steps, Go(a, pc)
  PROVE  /\ Set(a, At(job[a], pc))
         /\ Moved(job[a], At(job[a], pc), pc, job[a].left, job[a].errors)
BY StateTypes, AtMoved DEF Go, At

LEMMA Undoes ==
  ASSUME IInv, NEW a \in Admins, Undo(a)
  PROVE  /\ Set(a, At(job[a], "undoTarget"))
         /\ Moved(job[a], At(job[a], "undoTarget"), "undoTarget", job[a].left, job[a].errors)
<1>1. "undoTarget" \in Steps
  BY DEF Steps
<1>2. job[a] \in Request
  BY StateTypes
<1> QED
  BY <1>1, <1>2, AtMoved DEF Undo, At

LEMMA Advance ==
  ASSUME IInv, NEW a \in Admins, job[a].pc \in Steps,
         NEW k, NEW pc \in Later, NEW left, NEW errors, Moved(job[a], k, pc, left, errors), Set(a, k),
         Under(k, strategy', pattern', sound),
         strategy' \in [Versions -> Strategy], pattern' \in [Patterns -> Pattern],
         \A v \in Versions : Kept(strategy'[v]), \A p \in Patterns : Kept(pattern'[p]),
         UNCHANGED faults \/ faults' = faults + 1, UNCHANGED <<queue, learner, sound, clock>>
  PROVE  IInv' /\ Quiet
<1>1. k \in Request /\ k.pc \in Later /\ k.answer = job[a].answer
  BY DEF Moved, Alike
<1>2. faults' \in Nat
  BY StateTypes
<1> QED
  BY <1>1, <1>2, HeadGoes

LEMMA Publishing ==
  ASSUME IInv, NEW a \in Admins, job[a].pc \in Later
  PROVE  /\ job[a] \in Request /\ job[a].pc \in Steps /\ Under(job[a], strategy, pattern, sound)
         /\ job[a].version \in Versions /\ job[a].from \in Times
BY StateTypes DEF IInv, JobInv, Under, Later

LEMMA RetireStrategiesStep ==
  ASSUME IInv, NEW a \in Admins, RetireStrategies(a)
  PROVE  IInv' /\ Quiet
<1> DEFINE all == Retire(Versions, strategy, job[a].from)
<1>0. {"activate", "undoTarget"} \subseteq Later /\ "retire" \in Later /\ Later \subseteq Steps
  BY DEF Later, Steps
<1>1. /\ job[a].pc = "retire" /\ UNCHANGED <<pattern, queue, learner, sound, clock>>
  BY DEF RetireStrategies
<1>2. [v \in Versions |-> IF v \in Published THEN Retired(strategy[v], job[a].from) ELSE strategy[v]] = all
  BY DEF Published, Retire
<1>3. \/ strategy' = all /\ Go(a, "activate") /\ UNCHANGED faults
      \/ (strategy' = all \/ UNCHANGED strategy) /\ Undo(a) /\ faults' = faults + 1
  BY <1>2 DEF RetireStrategies, Call
<1>4. /\ job[a] \in Request /\ job[a].pc \in Steps /\ Under(job[a], strategy, pattern, sound)
      /\ strategy \in [Versions -> Strategy] /\ pattern \in [Patterns -> Pattern]
  BY <1>0, <1>1, Publishing, StateTypes
<1>5. CASE strategy' = all /\ Go(a, "activate") /\ UNCHANGED faults
  <2> DEFINE k == At(job[a], "activate")
  <2>1. Set(a, k) /\ Moved(job[a], k, "activate", job[a].left, job[a].errors)
    BY <1>0, <1>5, Goes
  <2> HIDE DEF k
  <2>a. Wrote(strategy, all, strategy', "activate", "activate")
    BY <1>5 DEF Wrote
  <2>2. /\ Under(k, strategy', pattern, sound) /\ strategy' \in [Versions -> Strategy]
        /\ (\A v \in Versions : Kept(strategy[v])) => \A v \in Versions : Kept(strategy'[v])
    BY <1>1, <1>4, <2>1, <2>a, RetireFits
  <2> QED
    BY <1>0, <1>1, <1>4, <1>5, <2>1, <2>2, StateTypes, Advance
<1>6. CASE (strategy' = all \/ UNCHANGED strategy) /\ Undo(a) /\ faults' = faults + 1
  <2> DEFINE k == At(job[a], "undoTarget")
  <2>1. Set(a, k) /\ Moved(job[a], k, "undoTarget", job[a].left, job[a].errors)
    BY <1>6, Undoes
  <2> HIDE DEF k
  <2>a. Wrote(strategy, all, strategy', "undoTarget", "activate")
    BY <1>6 DEF Wrote
  <2>2. /\ Under(k, strategy', pattern, sound) /\ strategy' \in [Versions -> Strategy]
        /\ (\A v \in Versions : Kept(strategy[v])) => \A v \in Versions : Kept(strategy'[v])
    BY <1>1, <1>4, <2>1, <2>a, RetireFits
  <2> QED
    BY <1>0, <1>1, <1>4, <1>6, <2>1, <2>2, StateTypes, Advance
<1> QED
  BY <1>3, <1>5, <1>6

\* The publication is to be undone, and nothing was written.
LEMMA UndoStep ==
  ASSUME IInv, NEW a \in Admins, job[a].pc \in Later \ Undoing, Undo(a),
         UNCHANGED <<strategy, pattern, queue, learner, sound, clock>>,
         UNCHANGED faults \/ faults' = faults + 1
  PROVE  IInv' /\ Quiet
<1> DEFINE k == At(job[a], "undoTarget")
<1>1. Set(a, k) /\ Moved(job[a], k, "undoTarget", job[a].left, job[a].errors)
  BY Undoes
<1>2. job[a] \in Request /\ job[a].pc \in Steps /\ Under(job[a], strategy, pattern, sound)
  BY Publishing
<1> HIDE DEF k
<1>3. Under(k, strategy', pattern', sound)
  BY <1>1, <1>2, UndoFits
<1>4. "undoTarget" \in Later
  BY DEF Later, Steps
<1> QED
  BY <1>1, <1>2, <1>3, <1>4, StateTypes, Advance

LEMMA ActivateStep ==
  ASSUME IInv, NEW a \in Admins, Activate(a)
  PROVE  IInv' /\ Quiet
<1> DEFINE all == Enact(job[a], strategy)
<1>0. /\ {"retirePatterns", "undoTarget"} \subseteq Later /\ "activate" \in Later \ Undoing
      /\ Later \subseteq Steps
  BY DEF Later, Steps, Undoing
<1>1. /\ job[a].pc = "activate" /\ UNCHANGED <<pattern, queue, learner, sound, clock>>
  BY DEF Activate
<1>2. Released(a) = Out(job[a])
  BY DEF Released, Out
<1>3. \/ strategy' = all /\ Go(a, "retirePatterns") /\ UNCHANGED faults
      \/ strategy' = all /\ Undo(a) /\ faults' = faults + 1
      \/ UNCHANGED strategy /\ Undo(a) /\ (UNCHANGED faults \/ faults' = faults + 1)
  BY <1>2 DEF Activate, Call, Enact
<1>4. /\ job[a] \in Request /\ job[a].pc \in Steps /\ Under(job[a], strategy, pattern, sound)
      /\ strategy \in [Versions -> Strategy] /\ pattern \in [Patterns -> Pattern]
  BY <1>0, <1>1, Publishing, StateTypes
<1>5. CASE strategy' = all /\ Go(a, "retirePatterns") /\ UNCHANGED faults
  <2> DEFINE k == At(job[a], "retirePatterns")
  <2>1. Set(a, k) /\ Moved(job[a], k, "retirePatterns", job[a].left, job[a].errors)
    BY <1>0, <1>5, Goes
  <2> HIDE DEF k
  <2>a. Wrote(strategy, all, strategy', "retirePatterns", "retirePatterns")
    BY <1>5 DEF Wrote
  <2>2. /\ Under(k, strategy', pattern, sound) /\ strategy' \in [Versions -> Strategy]
        /\ (\A v \in Versions : Kept(strategy[v])) => \A v \in Versions : Kept(strategy'[v])
    BY <1>1, <1>4, <2>1, <2>a, ActivateFits
  <2> QED
    BY <1>0, <1>1, <1>4, <1>5, <2>1, <2>2, StateTypes, Advance
<1>6. CASE strategy' = all /\ Undo(a) /\ faults' = faults + 1
  <2> DEFINE k == At(job[a], "undoTarget")
  <2>1. Set(a, k) /\ Moved(job[a], k, "undoTarget", job[a].left, job[a].errors)
    BY <1>6, Undoes
  <2> HIDE DEF k
  <2>a. Wrote(strategy, all, strategy', "undoTarget", "retirePatterns")
    BY <1>6 DEF Wrote
  <2>2. /\ Under(k, strategy', pattern, sound) /\ strategy' \in [Versions -> Strategy]
        /\ (\A v \in Versions : Kept(strategy[v])) => \A v \in Versions : Kept(strategy'[v])
    BY <1>1, <1>4, <2>1, <2>a, ActivateFits
  <2> QED
    BY <1>0, <1>1, <1>4, <1>6, <2>1, <2>2, StateTypes, Advance
<1>7. CASE UNCHANGED strategy /\ Undo(a) /\ (UNCHANGED faults \/ faults' = faults + 1)
  BY <1>0, <1>1, <1>7, UndoStep
<1> QED
  BY <1>3, <1>5, <1>6, <1>7

LEMMA RetirePatternsStep ==
  ASSUME IInv, NEW a \in Admins, RetirePatterns(a)
  PROVE  IInv' /\ Quiet
<1> DEFINE all == Retire(Patterns, pattern, job[a].from)
<1>0. /\ {"activatePatterns", "undoTarget"} \subseteq Later /\ "retirePatterns" \in Later
      /\ Later \subseteq Steps
  BY DEF Later, Steps
<1>1. /\ job[a].pc = "retirePatterns" /\ UNCHANGED <<strategy, queue, learner, sound, clock>>
  BY DEF RetirePatterns
<1>3. \/ pattern' = all /\ Go(a, "activatePatterns") /\ UNCHANGED faults
      \/ (pattern' = all \/ UNCHANGED pattern) /\ Undo(a) /\ faults' = faults + 1
  BY DEF RetirePatterns, Call, Superseded, Retire
<1>4. /\ job[a] \in Request /\ job[a].pc \in Steps /\ Under(job[a], strategy, pattern, sound)
      /\ strategy \in [Versions -> Strategy] /\ pattern \in [Patterns -> Pattern]
  BY <1>0, <1>1, Publishing, StateTypes
<1>5. CASE pattern' = all /\ Go(a, "activatePatterns") /\ UNCHANGED faults
  <2> DEFINE k == At(job[a], "activatePatterns")
  <2>1. Set(a, k) /\ Moved(job[a], k, "activatePatterns", job[a].left, job[a].errors)
    BY <1>0, <1>5, Goes
  <2> HIDE DEF k
  <2>a. Wrote(pattern, all, pattern', "activatePatterns", "activatePatterns")
    BY <1>5 DEF Wrote
  <2>2. /\ Under(k, strategy, pattern', sound) /\ pattern' \in [Patterns -> Pattern]
        /\ (\A p \in Patterns : Kept(pattern[p])) => \A p \in Patterns : Kept(pattern'[p])
    BY <1>1, <1>4, <2>1, <2>a, RetirePatternsFits
  <2> QED
    BY <1>0, <1>1, <1>4, <1>5, <2>1, <2>2, StateTypes, Advance
<1>6. CASE (pattern' = all \/ UNCHANGED pattern) /\ Undo(a) /\ faults' = faults + 1
  <2> DEFINE k == At(job[a], "undoTarget")
  <2>1. Set(a, k) /\ Moved(job[a], k, "undoTarget", job[a].left, job[a].errors)
    BY <1>6, Undoes
  <2> HIDE DEF k
  <2>a. Wrote(pattern, all, pattern', "undoTarget", "activatePatterns")
    BY <1>6 DEF Wrote
  <2>2. /\ Under(k, strategy, pattern', sound) /\ pattern' \in [Patterns -> Pattern]
        /\ (\A p \in Patterns : Kept(pattern[p])) => \A p \in Patterns : Kept(pattern'[p])
    BY <1>1, <1>4, <2>1, <2>a, RetirePatternsFits
  <2> QED
    BY <1>0, <1>1, <1>4, <1>6, <2>1, <2>2, StateTypes, Advance
<1> QED
  BY <1>3, <1>5, <1>6

LEMMA ActivatePatternsStep ==
  ASSUME IInv, NEW a \in Admins, ActivatePatterns(a)
  PROVE  IInv' /\ Quiet
<1> DEFINE all == EnactPatterns(job[a], pattern)
<1>0. /\ {"verify", "undoTarget"} \subseteq Later /\ "activatePatterns" \in Later
      /\ Later \subseteq Steps
  BY DEF Later, Steps
<1>1. /\ job[a].pc = "activatePatterns" /\ UNCHANGED <<strategy, queue, learner, sound, clock>>
  BY DEF ActivatePatterns
<1>3. \/ pattern' = all /\ Go(a, "verify") /\ UNCHANGED faults
      \/ (pattern' = all \/ UNCHANGED pattern) /\ Undo(a) /\ faults' = faults + 1
  BY DEF ActivatePatterns, Call, Activated, EnactPatterns
<1>4. /\ job[a] \in Request /\ job[a].pc \in Steps /\ Under(job[a], strategy, pattern, sound)
      /\ strategy \in [Versions -> Strategy] /\ pattern \in [Patterns -> Pattern]
  BY <1>0, <1>1, Publishing, StateTypes
<1>5. CASE pattern' = all /\ Go(a, "verify") /\ UNCHANGED faults
  <2> DEFINE k == At(job[a], "verify")
  <2>1. Set(a, k) /\ Moved(job[a], k, "verify", job[a].left, job[a].errors)
    BY <1>0, <1>5, Goes
  <2> HIDE DEF k
  <2>a. Wrote(pattern, all, pattern', "verify", "verify")
    BY <1>5 DEF Wrote
  <2>2. /\ Under(k, strategy, pattern', sound) /\ pattern' \in [Patterns -> Pattern]
        /\ (\A p \in Patterns : Kept(pattern[p])) => \A p \in Patterns : Kept(pattern'[p])
    BY <1>1, <1>4, <2>1, <2>a, ActivatePatternsFits
  <2> QED
    BY <1>0, <1>1, <1>4, <1>5, <2>1, <2>2, StateTypes, Advance
<1>6. CASE (pattern' = all \/ UNCHANGED pattern) /\ Undo(a) /\ faults' = faults + 1
  <2> DEFINE k == At(job[a], "undoTarget")
  <2>1. Set(a, k) /\ Moved(job[a], k, "undoTarget", job[a].left, job[a].errors)
    BY <1>6, Undoes
  <2> HIDE DEF k
  <2>a. Wrote(pattern, all, pattern', "undoTarget", "verify")
    BY <1>6 DEF Wrote
  <2>2. /\ Under(k, strategy, pattern', sound) /\ pattern' \in [Patterns -> Pattern]
        /\ (\A p \in Patterns : Kept(pattern[p])) => \A p \in Patterns : Kept(pattern'[p])
    BY <1>1, <1>4, <2>1, <2>a, ActivatePatternsFits
  <2> QED
    BY <1>0, <1>1, <1>4, <1>6, <2>1, <2>2, StateTypes, Advance
<1> QED
  BY <1>3, <1>5, <1>6

\* A row is written back, or the call fails; the publication goes on either way.
Undid(a, pc, left, rows, new, rows2) ==
  \/ rows2 = new /\ Set(a, AtLeft(job[a], pc, left)) /\ UNCHANGED faults
  \/ /\ rows2 = new \/ rows2 = rows
     /\ Set(a, AtBoth(job[a], pc, left, TRUE)) /\ faults' = faults + 1

LEMMA UndidMoves ==
  ASSUME IInv, NEW a \in Admins, NEW pc \in Steps, NEW left \in SUBSET (Versions \cup Patterns),
         NEW rows, NEW new, NEW rows2, Undid(a, pc, left, rows, new, rows2)
  PROVE  \E k \in Request, errors \in BOOLEAN :
           /\ Set(a, k) /\ Moved(job[a], k, pc, left, errors) /\ (~errors => ~job[a].errors)
           /\ Rewrote(rows, new, rows2, errors) /\ (UNCHANGED faults \/ faults' = faults + 1)
<1>1. job[a] \in Request /\ job[a].errors \in BOOLEAN
  BY StateTypes, RequestRows
<1>2. CASE rows2 = new /\ Set(a, AtLeft(job[a], pc, left)) /\ UNCHANGED faults
  <2>1. Moved(job[a], AtLeft(job[a], pc, left), pc, left, job[a].errors)
    BY <1>1, AtLeftMoved
  <2>2. AtLeft(job[a], pc, left) \in Request
    BY <2>1 DEF Moved
  <2> QED
    BY <1>1, <1>2, <2>1, <2>2 DEF Rewrote
<1>3. CASE /\ rows2 = new \/ rows2 = rows
           /\ Set(a, AtBoth(job[a], pc, left, TRUE)) /\ faults' = faults + 1
  <2>1. Moved(job[a], AtBoth(job[a], pc, left, TRUE), pc, left, TRUE)
    BY <1>1, AtBothMoved
  <2>2. AtBoth(job[a], pc, left, TRUE) \in Request
    BY <2>1 DEF Moved
  <2> QED
    BY <1>1, <1>3, <2>1, <2>2 DEF Rewrote
<1> QED
  BY <1>2, <1>3 DEF Undid

LEMMA UndoTargetStep ==
  ASSUME IInv, NEW a \in Admins, UndoTarget(a)
  PROVE  IInv' /\ Quiet
<1>0. "undoTarget" \in Later /\ "undoStrategies" \in Later /\ Later \subseteq Steps
  BY DEF Later, Steps
<1>1. /\ job[a].pc = "undoTarget" /\ UNCHANGED <<pattern, queue, learner, sound, clock>>
      /\ Undid(a, "undoStrategies", Others(job[a]), strategy, Mark(job[a], strategy), strategy')
  BY DEF UndoTarget, Undone, Call, Undid, AtLeft, AtBoth, Mark, Marked, Others
<1>2. /\ job[a] \in Request /\ job[a].pc \in Steps /\ Under(job[a], strategy, pattern, sound)
      /\ strategy \in [Versions -> Strategy] /\ pattern \in [Patterns -> Pattern]
  BY <1>0, <1>1, Publishing, StateTypes
<1>3. Others(job[a]) \in SUBSET (Versions \cup Patterns)
  BY <1>2, RequestRows DEF Others
<1>4. PICK k \in Request, errors \in BOOLEAN :
        /\ Set(a, k) /\ Moved(job[a], k, "undoStrategies", Others(job[a]), errors)
        /\ Rewrote(strategy, Mark(job[a], strategy), strategy', errors)
        /\ UNCHANGED faults \/ faults' = faults + 1
  BY <1>0, <1>1, <1>3, UndidMoves
<1>5. /\ Under(k, strategy', pattern, sound) /\ strategy' \in [Versions -> Strategy]
      /\ (\A v \in Versions : Kept(strategy[v])) => \A v \in Versions : Kept(strategy'[v])
  BY <1>1, <1>2, <1>4, UndoTargetFits
<1> QED
  BY <1>0, <1>1, <1>2, <1>4, <1>5, StateTypes, Advance

LEMMA UndoStrategyStep ==
  ASSUME IInv, NEW a \in Admins, UndoStrategy(a)
  PROVE  IInv' /\ Quiet
<1>0. "undoStrategies" \in Later /\ Later \subseteq Steps
  BY DEF Later, Steps
<1>1. /\ job[a].pc = "undoStrategies" /\ UNCHANGED <<pattern, queue, learner, sound, clock>>
  BY DEF UndoStrategy
<1>a. PICK v \in job[a].left :
        Undone(a, "undoStrategies", job[a].left \ {v},
          strategy' = [strategy EXCEPT ![v] = Recovered(job[a].priors[v], @)],
          UNCHANGED strategy)
  BY DEF UndoStrategy
<1>b. Undid(a, "undoStrategies", job[a].left \ {v}, strategy, Recover(job[a], strategy, v), strategy')
  BY <1>a DEF Undone, Call, Undid, AtLeft, AtBoth, Recover
<1>2. /\ job[a] \in Request /\ job[a].pc \in Steps /\ Under(job[a], strategy, pattern, sound)
      /\ strategy \in [Versions -> Strategy] /\ pattern \in [Patterns -> Pattern]
  BY <1>0, <1>1, Publishing, StateTypes
<1>3. job[a].left \ {v} \in SUBSET (Versions \cup Patterns)
  BY <1>2, RequestRows
<1>4. PICK k \in Request, errors \in BOOLEAN :
        /\ Set(a, k) /\ Moved(job[a], k, "undoStrategies", job[a].left \ {v}, errors)
        /\ ~errors => ~job[a].errors
        /\ Rewrote(strategy, Recover(job[a], strategy, v), strategy', errors)
        /\ UNCHANGED faults \/ faults' = faults + 1
  BY <1>0, <1>b, <1>3, UndidMoves
<1>5. /\ Under(k, strategy', pattern, sound) /\ strategy' \in [Versions -> Strategy]
      /\ (\A w \in Versions : Kept(strategy[w])) => \A w \in Versions : Kept(strategy'[w])
  BY <1>1, <1>2, <1>4, UndoStrategyFits
<1> QED
  BY <1>0, <1>1, <1>2, <1>4, <1>5, StateTypes, Advance

LEMMA StrategiesUndoneStep ==
  ASSUME IInv, NEW a \in Admins, StrategiesUndone(a)
  PROVE  IInv' /\ Quiet
<1> DEFINE k == AtLeft(job[a], "undoPatterns", DOMAIN job[a].snapshot)
<1>0. {"undoStrategies", "undoPatterns"} \subseteq Later /\ Later \subseteq Steps
  BY DEF Later, Steps
<1>1. /\ job[a].pc = "undoStrategies" /\ job[a].left = {} /\ Set(a, k)
      /\ UNCHANGED <<strategy, pattern, queue, learner, sound, clock, faults>>
  BY DEF StrategiesUndone, AtLeft
<1>2. /\ job[a] \in Request /\ job[a].pc \in Steps /\ Under(job[a], strategy, pattern, sound)
  BY <1>0, <1>1, Publishing
<1>3. DOMAIN job[a].snapshot \in SUBSET (Versions \cup Patterns)
  BY <1>2, RequestRows
<1>4. Moved(job[a], k, "undoPatterns", DOMAIN job[a].snapshot, job[a].errors)
  BY <1>0, <1>2, <1>3, AtLeftMoved
<1> HIDE DEF k
<1>5. Under(k, strategy', pattern', sound)
  BY <1>1, <1>2, <1>4, StrategiesUndoneFits
<1> QED
  BY <1>0, <1>1, <1>2, <1>4, <1>5, StateTypes, Advance

LEMMA UndoPatternStep ==
  ASSUME IInv, NEW a \in Admins, UndoPattern(a)
  PROVE  IInv' /\ Quiet
<1>0. "undoPatterns" \in Later /\ Later \subseteq Steps
  BY DEF Later, Steps
<1>1. /\ job[a].pc = "undoPatterns" /\ UNCHANGED <<strategy, queue, learner, sound, clock>>
  BY DEF UndoPattern
<1>a. PICK p \in job[a].left :
        Undone(a, "undoPatterns", job[a].left \ {p},
          pattern' = [pattern EXCEPT ![p] =
            [job[a].snapshot[p] EXCEPT !.version = pattern[p].version]],
          UNCHANGED pattern)
  BY DEF UndoPattern
<1>b. Undid(a, "undoPatterns", job[a].left \ {p}, pattern, Rewrite(job[a], pattern, p), pattern')
  BY <1>a DEF Undone, Call, Undid, AtLeft, AtBoth, Rewrite, Rewritten
<1>2. /\ job[a] \in Request /\ job[a].pc \in Steps /\ Under(job[a], strategy, pattern, sound)
      /\ strategy \in [Versions -> Strategy] /\ pattern \in [Patterns -> Pattern]
  BY <1>0, <1>1, Publishing, StateTypes
<1>3. job[a].left \ {p} \in SUBSET (Versions \cup Patterns)
  BY <1>2, RequestRows
<1>4. PICK k \in Request, errors \in BOOLEAN :
        /\ Set(a, k) /\ Moved(job[a], k, "undoPatterns", job[a].left \ {p}, errors)
        /\ ~errors => ~job[a].errors
        /\ Rewrote(pattern, Rewrite(job[a], pattern, p), pattern', errors)
        /\ UNCHANGED faults \/ faults' = faults + 1
  BY <1>0, <1>b, <1>3, UndidMoves
<1>5. /\ Under(k, strategy, pattern', sound) /\ pattern' \in [Patterns -> Pattern]
      /\ (\A r \in Patterns : Kept(pattern[r])) => \A r \in Patterns : Kept(pattern'[r])
  BY <1>1, <1>2, <1>4, UndoPatternFits
<1> QED
  BY <1>0, <1>1, <1>2, <1>4, <1>5, StateTypes, Advance

LEMMA CheckStrategiesStep ==
  ASSUME IInv, NEW a \in Admins, CheckStrategies(a)
  PROVE  IInv' /\ Quiet
<1> DEFINE found == job[a].errors \/ ~SameStatus(strategy, job[a].priors)
<1>0. {"undoPatterns", "checkPatterns"} \subseteq Later /\ Later \subseteq Steps
  BY DEF Later, Steps
<1>1. /\ job[a].pc = "undoPatterns" /\ job[a].left = {}
      /\ UNCHANGED <<strategy, pattern, queue, learner, sound, clock>>
      /\ UNCHANGED faults \/ faults' = faults + 1
      /\ \/ Set(a, AtErrors(job[a], "checkPatterns", found))
         \/ Set(a, AtErrors(job[a], "checkPatterns", TRUE))
  BY DEF CheckStrategies, Call, AtErrors
<1>2. /\ job[a] \in Request /\ job[a].pc \in Steps /\ Under(job[a], strategy, pattern, sound)
      /\ job[a].errors \in BOOLEAN
  BY <1>0, <1>1, Publishing, RequestRows
<1>3. found \in BOOLEAN /\ (~found => ~job[a].errors)
  BY <1>2
<1> HIDE DEF found
<1>4. ASSUME NEW errors \in BOOLEAN, ~errors => ~job[a].errors,
             Set(a, AtErrors(job[a], "checkPatterns", errors))
      PROVE  IInv' /\ Quiet
  <2> DEFINE k == AtErrors(job[a], "checkPatterns", errors)
  <2>1. Moved(job[a], k, "checkPatterns", {}, errors)
    BY <1>0, <1>1, <1>2, AtErrorsMoved
  <2>2. Set(a, k)
    BY <1>4
  <2> HIDE DEF k
  <2>3. Under(k, strategy', pattern', sound)
    BY <1>1, <1>2, <1>4, <2>1, CheckFits
  <2> QED
    BY <1>0, <1>1, <1>2, <2>1, <2>2, <2>3, StateTypes, Advance
<1> QED
  BY <1>1, <1>3, <1>4

\* With the rows as a publication found them, or as it must put them back, what it
\* found is published.
PublishedOf(rows) == {w \in Versions : rows[w].status = "published"}
AsFound(j, rows) ==
  rows[j.version].status = "draft" /\ \A w \in Others(j) : rows[w] = j.priors[w]

LEMMA FoundPublished ==
  ASSUME NEW s, NEW p, NEW whole, NEW j \in Request, Under(j, s, p, whole), AsFound(j, s)
  PROVE  PublishedOf(s) = Others(j)
<1>1. Read(j) /\ StrategiesFit(j, s) /\ DOMAIN j.priors \subseteq Versions
  BY RequestRows DEF Under
<1> QED
  BY <1>1 DEF Read, StrategiesFit, Others, AsFound, PublishedOf

PutBack(j, rows) ==
  rows[j.version] = Marked(j.priors[j.version]) /\ \A w \in Others(j) : rows[w] = j.priors[w]

LEMMA BackAsFound ==
  ASSUME NEW s, NEW p, NEW whole, NEW j \in Request, Under(j, s, p, whole),
         j.pc = "checkPatterns", ~j.errors
  PROVE  PutBack(j, s) /\ AsFound(j, s)
<1>1. Read(j) /\ StrategiesFit(j, s) /\ j.version \in DOMAIN j.priors
      /\ j.priors[j.version].status = "draft"
  BY DEF Under, Read
<1>2. PutBack(j, s)
  BY <1>1 DEF StrategiesFit, PutBack, Undoing
<1>3. Marked(j.priors[j.version]).status = "draft"
  <2>1. j.priors[j.version] \in Strategy /\ 0 \in Times
    BY <1>1, RequestRows, StrategyConstants DEF Times
  <2> QED
    BY <1>1, <2>1, StrategyRows
<1> QED
  BY <1>2, <1>3 DEF PutBack, AsFound

Succeeds(a) ==
  /\ job[a].pc = "verify" /\ Published = {job[a].version} /\ job'[a].answer = "published"
  /\ UNCHANGED <<strategy, pattern>> /\ \A b \in Admins \ {a} : job'[b] = job[b]

Restores(a) ==
  /\ job[a].pc = "checkPatterns" /\ ~job[a].errors /\ job'[a].answer = "restored"
  /\ UNCHANGED <<strategy, pattern>> /\ \A b \in Admins \ {a} : job'[b] = job[b]

LEMMA AnswerMade ==
  ASSUME IInv, NEW a \in Admins,
         NEW answer \in {"none", "refused", "published", "restored", "incomplete", "crashed"},
         Answer(a, answer)
  PROVE  job'[a].answer = answer /\ \A b \in Admins \ {a} : job'[b] = job[b]
<1>1. Set(a, Answered(answer)) /\ Answered(answer) \in Request /\ Answered(answer).answer = answer
  BY AnswerGiven, AnsweredRequest
<1> QED
  BY <1>1, StateTypes, SetRequest

LEMMA VerifyStep ==
  ASSUME IInv, NEW a \in Admins, Verify(a)
  PROVE  IInv' /\ (Quiet \/ Succeeds(a))
<1>0. "verify" \in Later \ Undoing /\ Later \subseteq Steps
  BY DEF Later, Steps, Undoing
<1>1. /\ job[a].pc = "verify" /\ UNCHANGED <<strategy, pattern, learner, clock>>
      /\ \/ /\ Published = {job[a].version} /\ Answer(a, "published") /\ Release
            /\ sound' = TRUE /\ UNCHANGED faults
         \/ /\ Undo(a) /\ UNCHANGED <<queue, sound>> /\ (UNCHANGED faults \/ faults' = faults + 1)
  BY DEF Verify
<1>2. CASE /\ Published = {job[a].version} /\ Answer(a, "published") /\ Release
           /\ sound' = TRUE /\ UNCHANGED faults
  <2>1. One(Published)
    BY <1>2, FS_Singleton DEF One
  <2>2. IInv'
    BY <1>0, <1>1, <1>2, <2>1, StateTypes, HeadLeaves
  <2>3. Succeeds(a)
    BY <1>1, <1>2, AnswerMade DEF Succeeds
  <2> QED
    BY <2>2, <2>3
<1>3. CASE /\ Undo(a) /\ UNCHANGED <<queue, sound>> /\ (UNCHANGED faults \/ faults' = faults + 1)
  BY <1>0, <1>1, <1>3, UndoStep
<1> QED
  BY <1>1, <1>2, <1>3

LEMMA CheckPatternsStep ==
  ASSUME IInv, NEW a \in Admins, CheckPatterns(a)
  PROVE  IInv' /\ (Quiet \/ Restores(a))
<1> DEFINE errors == job[a].errors \/ ~SameStatus(pattern, job[a].snapshot) \/ faults' # faults
           answer == IF errors THEN "incomplete" ELSE "restored"
<1>0. "checkPatterns" \in Later \cap Undoing /\ "checkPatterns" # "undoTarget" /\ Later \subseteq Steps
      /\ "checkPatterns" # "undoStrategies"
  BY DEF Later, Steps, Undoing
<1>1. /\ job[a].pc = "checkPatterns" /\ UNCHANGED <<strategy, pattern, learner, clock>>
      /\ UNCHANGED faults \/ faults' = faults + 1
      /\ Answer(a, answer) /\ Release /\ sound' = (sound /\ ~errors)
  BY DEF CheckPatterns
<1>2. answer \in {"incomplete", "restored"} /\ (answer = "restored" => ~errors)
  OBVIOUS
<1>3. ~errors => ~job[a].errors
  OBVIOUS
<1> HIDE DEF errors, answer
<1>4. sound' \in BOOLEAN /\ faults' \in Nat
  BY <1>1, StateTypes
<1>5. sound' => One(Published)
  <2> SUFFICES ASSUME sound, ~job[a].errors
               PROVE  One(Published)
    BY <1>1, <1>3
  <2>1. /\ job[a] \in Request /\ Under(job[a], strategy, pattern, sound)
    BY <1>0, <1>1, Publishing
  <2>2. AsFound(job[a], strategy)
    BY <1>1, <2>1, BackAsFound
  <2>3. One(Others(job[a]))
    BY <2>1 DEF Under
  <2>4. PublishedOf(strategy) = Others(job[a])
    BY <2>1, <2>2, FoundPublished
  <2> QED
    BY <2>3, <2>4 DEF Published, PublishedOf
<1>6. IInv' /\ (answer = "incomplete" => Quiet)
  BY <1>0, <1>1, <1>2, <1>4, <1>5, HeadLeaves
<1>7. answer = "restored" => Restores(a)
  BY <1>1, <1>2, <1>3, AnswerMade DEF Restores
<1> QED
  BY <1>2, <1>6, <1>7

\* Steps that change no request.
LEMMA RequestsSame ==
  ASSUME IInv, UNCHANGED <<job, queue, sound>>, Drafted, UNCHANGED pattern,
         learner' \in [Learners -> LearnerState], clock' \in Times, faults' \in Nat
  PROVE  IInv' /\ Quiet
<1>1. /\ strategy' \in [Versions -> Strategy] /\ \A v \in Versions : Kept(strategy'[v])
      /\ Published' = Published
      /\ \A j, whole : Under(j, strategy, pattern, whole) => Under(j, strategy', pattern, whole)
  BY DraftKeeps
<1>2. TypeOK'
  BY <1>1, StateTypes, NextTypes
<1>3. QueueInv'
  BY DEF IInv, QueueInv, Queued
<1>4. \A b \in Admins : JobInv(b)'
  <2> TAKE b \in Admins
  <2>1. JobInv(b)
    BY DEF IInv
  <2> QED
    BY <1>1, <2>1 DEF JobInv
<1>5. Quiet
  BY DEF Quiet
<1> QED
  BY <1>1, <1>2, <1>3, <1>4, <1>5, StateTypes DEF IInv

LEMMA LearnStep ==
  ASSUME IInv, NEW l \in Learners, Learn(l) \/ Learnt(l)
  PROVE  IInv' /\ Quiet
<1>1. CASE Learn(l)
  <2>1. PICK found \in SUBSET Patterns :
          learner' = [learner EXCEPT ![l] = [pc |-> "saving", version |-> Fresh, left |-> found]]
    BY <1>1 DEF Learn
  <2>2. Drafted /\ Fresh \in Versions /\ UNCHANGED <<pattern, job, queue, sound, clock, faults>>
    BY <1>1, FreshVersion DEF Learn, Drafted
  <2>3. [pc |-> "saving", version |-> Fresh, left |-> found] \in LearnerState
    BY <2>2 DEF LearnerState
  <2>4. learner' \in [Learners -> LearnerState]
    BY <2>1, <2>3, StateTypes
  <2> QED
    BY <2>2, <2>4, StateTypes, RequestsSame
<1>2. CASE Learnt(l)
  <2>1. learner' = [learner EXCEPT ![l].pc = "over"] /\ Drafted
        /\ UNCHANGED <<pattern, job, queue, sound, clock, faults>>
    BY <1>2 DEF Learnt, Drafted
  <2>2. learner' \in [Learners -> LearnerState]
    BY <2>1, StateTypes DEF LearnerState
  <2> QED
    BY <2>1, <2>2, StateTypes, RequestsSame
<1> QED
  BY <1>1, <1>2

LEMMA TickStep ==
  ASSUME IInv, Tick
  PROVE  IInv' /\ Quiet
<1>1. clock' \in Times
  BY StateTypes, StrategyConstants DEF Tick, Times
<1> QED
  BY <1>1, StateTypes, RequestsSame DEF Tick, Drafted

LEMMA SavePatternStep ==
  ASSUME IInv, NEW l \in Learners, SavePattern(l)
  PROVE  IInv' /\ Quiet
<1>1. PICK p \in learner[l].left :
        /\ learner' = [learner EXCEPT ![l].left = @ \ {p}]
        /\ Call(pattern' = [pattern EXCEPT ![p] =
                  [status |-> "draft", version |-> learner[l].version, at |-> None, until |-> None]],
                UNCHANGED pattern, TRUE, TRUE)
        /\ job' = [a \in Admins |->
             IF job[a].pc \in Steps \ {"snapshots"}
             THEN [job[a] EXCEPT !.relearned = @ \cup {p}]
             ELSE job[a]]
  BY DEF SavePattern
<1> DEFINE row == [status |-> "draft", version |-> learner[l].version, at |-> None, until |-> None]
<1>2. p \in Patterns /\ learner[l].version \in Versions \cup {None}
      /\ UNCHANGED <<strategy, queue, sound, clock>>
  BY StateTypes DEF LearnerState, SavePattern
<1>3. row \in Pattern /\ Kept(row)
  BY <1>2 DEF Pattern, Moment, Kept
<1>4. /\ pattern' = [pattern EXCEPT ![p] = row] \/ UNCHANGED pattern
      /\ UNCHANGED faults \/ faults' = faults + 1
  BY <1>1 DEF Call
<1> HIDE DEF row
<1>5. /\ pattern' \in [Patterns -> Pattern] /\ \A q \in Patterns \ {p} : pattern'[q] = pattern[q]
      /\ \A q \in Patterns : Kept(pattern'[q])
  BY <1>2, <1>3, <1>4, StateTypes
<1>6. learner' \in [Learners -> LearnerState]
  BY <1>1, StateTypes DEF LearnerState
<1>7. \A a \in Admins : job'[a] = IF job[a].pc \in Later THEN Relearned(job[a], p) ELSE job[a]
  BY <1>1 DEF Later, Relearned
<1>8. \A a \in Admins : job[a].pc \in Later =>
        /\ Relearned(job[a], p) \in Request /\ Relearned(job[a], p).pc = job[a].pc
        /\ Relearned(job[a], p).answer = job[a].answer
        /\ Under(Relearned(job[a], p), strategy, pattern', sound)
  <2> SUFFICES ASSUME NEW a \in Admins, job[a].pc \in Later
               PROVE  /\ Relearned(job[a], p) \in Request /\ Relearned(job[a], p).pc = job[a].pc
                      /\ Relearned(job[a], p).answer = job[a].answer
                      /\ Under(Relearned(job[a], p), strategy, pattern', sound)
    OBVIOUS
  <2>1. /\ job[a] \in Request /\ Under(job[a], strategy, pattern, sound)
    BY Publishing
  <2>2. pattern \in [Patterns -> Pattern] /\ SameBut(pattern, pattern', p) /\ p \in Patterns
    BY <1>2, <1>5, StateTypes DEF SameBut
  <2>3. Relearned(job[a], p) \in Request
    BY <2>1, <2>2, RelearnedFits
  <2>4. Relearned(job[a], p).pc = job[a].pc /\ Relearned(job[a], p).answer = job[a].answer
    BY <2>1 DEF Relearned, Request
  <2>5. Under(Relearned(job[a], p), strategy, pattern', sound)
    BY <2>1, <2>2, RelearnedFits
  <2> QED
    BY <2>3, <2>4, <2>5
<1>9. job' \in [Admins -> Request]
  <2>1. \A a \in Admins : job'[a] \in Request
    BY <1>7, <1>8, StateTypes
  <2>2. job' = [a \in Admins |-> job'[a]]
    BY <1>1
  <2> QED
    BY <2>1, <2>2
<1>10. \A a \in Admins : job'[a].pc = job[a].pc /\ job'[a].answer = job[a].answer
  BY <1>7, <1>8
<1>11. TypeOK'
  BY <1>2, <1>4, <1>5, <1>6, <1>9, StateTypes, NextTypes
<1>12. QueueInv'
  <2>1. \A b \in Admins : job'[b].pc \in Steps => Head(queue) = b
    BY <1>10 DEF IInv, QueueInv
  <2> QED
    BY <1>2, <1>10, <2>1, QueueStays DEF IInv
<1>13. \A b \in Admins : JobInv(b)'
  <2> TAKE b \in Admins
  <2>1. CASE job[b].pc \in Later
    <3>1. job'[b].pc \in Later /\ Under(job'[b], strategy, pattern', sound)
      BY <1>7, <1>8, <1>10, <2>1
    <3>2. job'[b].pc \notin {"queued", "snapshots"}
      BY <3>1 DEF Later, Steps
    <3> QED
      BY <1>2, <3>1, <3>2 DEF JobInv
  <2>2. CASE job[b].pc \notin Later
    <3>1. JobInv(b) /\ job'[b] = job[b]
      BY <1>7, <2>2 DEF IInv
    <3> QED
      BY <2>2, <3>1 DEF JobInv
  <2> QED
    BY <2>1, <2>2
<1>14. Published' = Published
  BY <1>2 DEF Published
<1>15. Quiet
  BY <1>10 DEF Quiet
<1> QED
  BY <1>2, <1>5, <1>9, <1>10, <1>11, <1>12, <1>13, <1>14, <1>15, StateTypes DEF IInv

LEMMA CrashStep ==
  ASSUME IInv, Crash
  PROVE  IInv' /\ Quiet
<1>1. /\ \A a \in Admins : job'[a] = IF job[a].pc \in {"idle", "over"} THEN job[a] ELSE Answered("crashed")
      /\ job' = [a \in Admins |-> job'[a]]
      /\ learner' = [l \in Learners |->
           IF learner[l].pc = "saving" THEN [learner[l] EXCEPT !.pc = "over", !.left = {}]
           ELSE learner[l]]
      /\ queue' = <<>> /\ sound' = (sound /\ ~Writing) /\ faults' = faults + 1
      /\ UNCHANGED <<strategy, pattern, clock>>
  BY DEF Crash, Answered
<1>2. /\ Answered("crashed") \in Request /\ Answered("crashed").pc = "over"
      /\ Answered("crashed").answer = "crashed"
  BY AnsweredRequest
<1>3. /\ \A a \in Admins : job'[a] \in Request /\ job'[a].pc \in {"idle", "over"}
      /\ job' \in [Admins -> Request]
  BY <1>1, <1>2, StateTypes
<1>4. learner' \in [Learners -> LearnerState]
  <2>1. \A l \in Learners : learner[l] \in LearnerState
                            /\ [learner[l] EXCEPT !.pc = "over", !.left = {}] \in LearnerState
    BY StateTypes DEF LearnerState
  <2> QED
    BY <1>1, <2>1
<1>5. queue' \in Seq(Admins) /\ Len(queue') = 0
  BY <1>1, EmptySeq
<1>6. TypeOK'
  <2>0. sound' = (sound /\ ~Writing) /\ faults' = faults + 1
    BY <1>1
  <2>1. sound' \in BOOLEAN /\ faults' \in Nat
    BY <2>0, StateTypes
  <2> QED
    BY <1>1, <1>3, <1>4, <1>5, <2>1, StateTypes, NextTypes
<1>7. QueueInv'
  <2>1. \A a \in Admins : job'[a].pc \notin UnderWay /\ ~Queued(a)'
    BY <1>3, <1>5 DEF UnderWay, Steps, Queued
  <2> QED
    BY <1>5, <2>1 DEF QueueInv, UnderWay
<1>8. \A b \in Admins : JobInv(b)'
  BY <1>3 DEF JobInv, Later, Steps
<1>9. sound /\ ~Writing => One(Published)
  <2> SUFFICES ASSUME sound, ~Writing, NEW a \in Admins, job[a].pc \in Later
               PROVE  One(Published)
    BY DEF IInv
  <2>1. job[a].pc = "retire"
    BY DEF Writing, Later
  <2>2. /\ job[a] \in Request /\ Under(job[a], strategy, pattern, sound)
    BY Publishing
  <2>3. /\ \A w \in Others(job[a]) : strategy[w] = job[a].priors[w]
        /\ strategy[job[a].version].status = "draft" /\ One(Others(job[a]))
    BY <2>1, <2>2 DEF Under, StrategiesFit, Read
  <2>4. AsFound(job[a], strategy)
    BY <2>3 DEF AsFound
  <2>5. PublishedOf(strategy) = Others(job[a])
    BY <2>2, <2>4, FoundPublished
  <2> QED
    BY <2>3, <2>5 DEF Published, PublishedOf
<1>10. Published' = Published
  BY <1>1 DEF Published
<1>11. Quiet
  BY <1>1, <1>2 DEF Quiet
<1> QED
  BY <1>1, <1>3, <1>6, <1>7, <1>8, <1>9, <1>10, <1>11, StateTypes DEF IInv

LEMMA InitIInv == Init => IInv
<1> SUFFICES ASSUME Init
             PROVE  IInv
  OBVIOUS
<1>1. /\ strategy \in [Versions -> Strategy] /\ \A v \in Versions : Kept(strategy[v])
      /\ strategy[First].status = "published" /\ First \in Versions
      /\ \A v \in Versions \ {First} : strategy[v].status # "published"
  <2> DEFINE out == [NoStrategy EXCEPT !.status = "published", !.from = 0, !.at = 0]
  <2>1. 0 \in Moment /\ First \in Versions
    BY StrategyConstants DEF Moment, Times
  <2>2. /\ out \in Strategy /\ out.status = "published" /\ Kept(out)
        /\ Draft \in Strategy /\ Draft.status = "draft" /\ Kept(Draft)
        /\ NoStrategy \in Strategy /\ NoStrategy.status = "absent" /\ Kept(NoStrategy)
    BY <2>1 DEF NoStrategy, Draft, Strategy, Moment, Kept
  <2>3. strategy = [v \in Versions |->
          IF v = First THEN out ELSE IF v \in Drafts THEN Draft ELSE NoStrategy]
    BY DEF Init
  <2> HIDE DEF out
  <2> QED
    BY <2>1, <2>2, <2>3
<1>2. pattern \in [Patterns -> Pattern] /\ \A p \in Patterns : Kept(pattern[p])
  <2> DEFINE out == [NoPattern EXCEPT !.status = "published", !.version = First, !.at = 0]
  <2>1. 0 \in Moment /\ First \in Versions
    BY StrategyConstants DEF Moment, Times
  <2>2. out \in Pattern /\ Kept(out) /\ NoPattern \in Pattern /\ Kept(NoPattern)
    BY <2>1 DEF NoPattern, Pattern, Moment, Kept
  <2>3. PICK known \in SUBSET Patterns :
          pattern = [p \in Patterns |-> IF p \in known THEN out ELSE NoPattern]
    BY DEF Init
  <2> HIDE DEF out
  <2> QED
    BY <2>2, <2>3
<1>3. job \in [Admins -> Request] /\ \A a \in Admins : job[a] = Idle /\ job[a].pc = "idle"
  BY IdleRequest DEF Init
<1>4. queue \in Seq(Admins) /\ Len(queue) = 0
  BY EmptySeq DEF Init
<1>5. learner \in [Learners -> LearnerState] /\ sound \in BOOLEAN /\ clock \in Times /\ faults \in Nat
  BY StrategyConstants DEF Init, LearnerState, Times
<1>6. TypeOK
  <2>1. \A a \in Admins : JobState(job[a])
    BY <1>3, RequestState
  <2> QED
    BY <1>1, <1>2, <1>3, <1>4, <1>5, <2>1 DEF TypeOK
<1>7. QueueInv
  BY <1>3, <1>4 DEF QueueInv, Queued, Steps
<1>8. \A a \in Admins : JobInv(a)
  BY <1>3 DEF JobInv, Later, Steps
<1>9. One(Published)
  <2>1. Published = {First}
    BY <1>1 DEF Published
  <2> QED
    BY <2>1, FS_Singleton DEF One
<1> QED
  BY <1>1, <1>2, <1>3, <1>6, <1>7, <1>8, <1>9 DEF IInv

Notable == \E a \in Admins : Succeeds(a) \/ Restores(a)

LEMMA NextSteps ==
  ASSUME IInv, [Next]_vars
  PROVE  IInv' /\ (Quiet \/ Notable)
<1>1. CASE UNCHANGED vars
  <2>1. UNCHANGED <<strategy, pattern, job, queue, learner, sound, clock, faults>>
    BY <1>1 DEF vars
  <2> QED
    BY <2>1, StateTypes, RequestsSame DEF Drafted
<1>2. ASSUME NEW a \in Admins, CreateDraft(a) \/ Publish(a) \/ Rollback(a)
      PROVE  IInv' /\ Quiet
  BY <1>2, CreateDraftStep, PublishStep, RollbackStep
<1>3. ASSUME NEW a \in Admins, Publication(a)
      PROVE  IInv' /\ (Quiet \/ Notable)
  <2>1. CASE Begin(a) \/ ReadSnapshots(a)
    BY <2>1, BeginStep, ReadSnapshotsStep
  <2>2. CASE RetireStrategies(a) \/ Activate(a) \/ RetirePatterns(a) \/ ActivatePatterns(a)
    BY <2>2, RetireStrategiesStep, ActivateStep, RetirePatternsStep, ActivatePatternsStep
  <2>3. CASE Verify(a)
    BY <2>3, VerifyStep DEF Notable
  <2>4. CASE UndoTarget(a) \/ UndoStrategy(a) \/ StrategiesUndone(a)
    BY <2>4, UndoTargetStep, UndoStrategyStep, StrategiesUndoneStep
  <2>5. CASE UndoPattern(a) \/ CheckStrategies(a)
    BY <2>5, UndoPatternStep, CheckStrategiesStep
  <2>6. CASE CheckPatterns(a)
    BY <2>6, CheckPatternsStep DEF Notable
  <2> QED
    BY <1>3, <2>1, <2>2, <2>3, <2>4, <2>5, <2>6 DEF Publication
<1>4. ASSUME NEW l \in Learners, Learn(l) \/ SavePattern(l) \/ Learnt(l)
      PROVE  IInv' /\ Quiet
  BY <1>4, LearnStep, SavePatternStep
<1>5. CASE Tick \/ Crash
  BY <1>5, TickStep, CrashStep
<1> QED
  BY <1>1, <1>2, <1>3, <1>4, <1>5 DEF Next

LEMMA Invariance == Spec => []IInv
<1>1. IInv /\ [Next]_vars => IInv'
  BY NextSteps
<1> QED
  BY <1>1, InitIInv, PTL DEF Spec

----------------------------------------------------------------------------
(* The theorems.                                                           *)

\* The state is always of its type.
THEOREM Typing == Spec => []TypeOK
<1>1. IInv => TypeOK
  BY DEF IInv
<1> QED
  BY <1>1, Invariance, PTL

\* Outside publications exactly one strategy is published, unless one was cut
\* short by a crash or could not be undone since the last that succeeded.
THEOREM ExactlyOne == Spec => []OnePublished
<1>1. IInv => OnePublished
  <2> SUFFICES ASSUME IInv, queue = <<>>, sound
               PROVE  Cardinality(Published) = 1
    BY DEF OnePublished
  <2>1. \A a \in Admins : ~Queued(a)
    BY EmptySeq DEF Queued
  <2>2. \A a \in Admins : job[a].pc \notin Later
    BY <2>1 DEF IInv, QueueInv, Later
  <2> QED
    BY <2>2 DEF IInv, One
<1> QED
  BY <1>1, Invariance, PTL

\* Only the last steps of a publication answer with "published" or "restored".
LEMMA Answering ==
  ASSUME IInv, [Next]_vars, NEW a \in Admins
  PROVE  /\ Answers(a, "published") => Succeeds(a)
         /\ Answers(a, "restored") => Restores(a)
<1>1. Quiet \/ Notable
  BY NextSteps
<1>2. CASE Quiet
  BY <1>2 DEF Quiet, Answers
<1>3. CASE Notable
  <2>1. PICK b \in Admins : Succeeds(b) \/ Restores(b)
    BY <1>3 DEF Notable
  <2> QED
    BY <2>1 DEF Succeeds, Restores, Answers
<1> QED
  BY <1>1, <1>2, <1>3

\* A publication that answers with success is whole: its strategy alone is
\* published, no pattern of another version is, and all of its own are, but for
\* those that a learner wrote meanwhile.
THEOREM Whole == Spec => PublishedIsWhole
<1> DEFINE Complete(a) ==
      LET v == job[a].version
      IN /\ Published' = {v}
         /\ \A p \in Patterns \ job[a].relearned :
              (pattern[p].status = "published") = (pattern[p].version = v)
<1>1. ASSUME IInv, [Next]_vars, NEW a \in Admins, Answers(a, "published")
      PROVE  Complete(a)
  <2>1. Succeeds(a)
    BY <1>1, Answering
  <2>2. job[a].pc = "verify" /\ Published = {job[a].version} /\ UNCHANGED strategy
    BY <2>1 DEF Succeeds
  <2>3. Under(job[a], strategy, pattern, sound)
    BY <1>1, <2>2, Publishing DEF Later, Steps
  <2>4. \A p \in Patterns \ job[a].relearned :
          (pattern[p].status = "published") = (pattern[p].version = job[a].version)
    BY <2>2, <2>3 DEF Under, PatternsFit
  <2>5. Published' = {job[a].version}
    BY <2>2 DEF Published
  <2> QED
    BY <2>4, <2>5
<1>2. IInv /\ [Next]_vars => \A a \in Admins : Answers(a, "published") => Complete(a)
  BY <1>1
<1> QED
  BY <1>2, Invariance, PTL DEF Spec, PublishedIsWhole

\* A publication that answers "restored" has left every strategy and every pattern
\* as it found them, the draft marked, but for patterns a learner wrote meanwhile.
THEOREM Restored == Spec => RestoredAsFound
<1> DEFINE AsBefore(a) ==
      LET found == job[a].priors
      IN /\ Published = DOMAIN found \ {job[a].version}
         /\ \A v \in DOMAIN found :
              strategy[v] = [found[v] EXCEPT !.failed = IF v = job[a].version THEN TRUE ELSE @]
         /\ \A p \in DOMAIN job[a].snapshot \ job[a].relearned :
              pattern[p] = job[a].snapshot[p]
<1>1. ASSUME IInv, [Next]_vars, NEW a \in Admins, Answers(a, "restored")
      PROVE  AsBefore(a)
  <2>1. job[a].pc = "checkPatterns" /\ ~job[a].errors
    BY <1>1, Answering DEF Restores
  <2>2. job[a] \in Request /\ Under(job[a], strategy, pattern, sound)
    BY <1>1, <2>1, Publishing DEF Later, Steps
  <2>3. PutBack(job[a], strategy) /\ AsFound(job[a], strategy)
    BY <2>1, <2>2, BackAsFound
  <2>4. PublishedOf(strategy) = Others(job[a])
    BY <2>2, <2>3, FoundPublished
  <2>5. \A p \in Snapped(job[a]) : pattern[p] = job[a].snapshot[p]
    BY <2>1, <2>2 DEF Under, PatternsFit
  <2>6. ASSUME NEW v \in DOMAIN job[a].priors
        PROVE  strategy[v] = [job[a].priors[v] EXCEPT !.failed = IF v = job[a].version THEN TRUE ELSE @]
    <3>1. job[a].priors[v] \in Strategy
      BY <2>2, RequestRows
    <3>2. CASE v = job[a].version
      BY <2>3, <3>2 DEF PutBack, Marked
    <3>3. CASE v # job[a].version
      <4>1. strategy[v] = job[a].priors[v]
        BY <2>3, <3>3 DEF PutBack, Others
      <4> QED
        BY <3>1, <3>3, <4>1 DEF Strategy
    <3> QED
      BY <3>2, <3>3
  <2>7. Published = DOMAIN job[a].priors \ {job[a].version}
    BY <2>4 DEF Published, PublishedOf, Others
  <2>8. \A p \in DOMAIN job[a].snapshot \ job[a].relearned : pattern[p] = job[a].snapshot[p]
    BY <2>5 DEF Snapped
  <2> QED
    BY <2>6, <2>7, <2>8
<1>2. IInv /\ [Next]_vars => \A a \in Admins : Answers(a, "restored") => AsBefore(a)
  BY <1>1
<1> QED
  BY <1>2, Invariance, PTL DEF Spec, RestoredAsFound

\* What a publication found can be told to be in effect as before when the rows
\* look as it found them.
SameLook(j, strategies, patterns, t) ==
  /\ \A w \in Versions :
       /\ Visible(Found(j, strategies)[w], t) <=> Visible(strategies[w], t)
       /\ Visible(strategies[w], t) => Found(j, strategies)[w].from = strategies[w].from
  /\ \A r \in Patterns \ j.relearned :
       Belongs(FoundPattern(j, patterns, r), j.effect[t].strategy, t)
         <=> Belongs(patterns[r], j.effect[t].strategy, t)

LEMMA LooksTheSame ==
  ASSUME NEW j, NEW whole, Under(j, strategy, pattern, whole), NEW t \in Times,
         SameLook(j, strategy, pattern, t)
  PROVE  /\ InEffect(t) = j.effect[t].strategy
         /\ Learned(t) \ j.relearned = (j.effect[t].patterns \cap Patterns) \ j.relearned
<1>1. /\ j.effect[t].strategy = Latest(Seen(Found(j, strategy), t))
      /\ \A r \in Patterns \ j.relearned :
           r \in j.effect[t].patterns
             <=> Belongs(FoundPattern(j, pattern, r), j.effect[t].strategy, t)
  BY DEF Under, EffectFits
<1>2. Seen(Found(j, strategy), t) = Seen(strategy, t)
  <2>1. /\ \A w \in Versions : Visible(Found(j, strategy)[w], t) <=> Visible(strategy[w], t)
        /\ \A w \in Versions : Visible(Found(j, strategy)[w], t)
             => Found(j, strategy)[w].from = strategy[w].from
    BY DEF SameLook
  <2> QED
    BY <2>1, SameSeen
<1>3. InEffect(t) = j.effect[t].strategy
  BY <1>1, <1>2, InEffectSeen
<1>4. \A r \in Patterns \ j.relearned : r \in Learned(t) <=> r \in j.effect[t].patterns
  BY <1>1, <1>3, LearnedBelongs DEF SameLook
<1>5. Learned(t) \subseteq Patterns
  BY DEF Learned
<1> QED
  BY <1>3, <1>4, <1>5

LEMMA PublishedLooks ==
  ASSUME NEW s, NEW p, NEW whole, NEW j \in Request, Under(j, s, p, whole), j.pc = "verify",
         NEW t \in Times, t < j.from
  PROVE  SameLook(j, s, p, t)
<1>1. /\ j.from \in Times /\ Read(j) /\ StrategiesFit(j, s) /\ PatternsFit(j, p)
      /\ j.from # None /\ j.from \in Int /\ t \in Int
  BY Kinds DEF Under
<1>2. DOMAIN j.priors \subseteq Versions /\ DOMAIN j.snapshot \subseteq Patterns
      /\ (\A w \in DOMAIN j.priors : j.priors[w] \in Strategy)
      /\ \A r \in DOMAIN j.snapshot : j.snapshot[r] \in Pattern
  BY RequestRows
<1>3. ASSUME NEW w \in Versions
      PROVE  /\ Visible(Found(j, s)[w], t) <=> Visible(s[w], t)
             /\ Visible(s[w], t) => Found(j, s)[w].from = s[w].from
  <2>1. CASE w \notin DOMAIN j.priors
    BY <2>1 DEF Found
  <2>2. CASE w \in Others(j)
    <3>1. /\ s[w] = Retired(j.priors[w], j.from) /\ Found(j, s)[w] = j.priors[w]
          /\ j.priors[w] \in Strategy
          /\ j.priors[w].status = "published" /\ j.priors[w].until = None
      BY <1>1, <1>2, <2>2 DEF StrategiesFit, Read, Others, Found
    <3> DEFINE row == Retired(j.priors[w], j.from)
    <3>2. /\ row.status = "retired" /\ row.from = j.priors[w].from /\ row.at = j.priors[w].at
          /\ row.until = j.from
      BY <1>1, <3>1, StrategyRows
    <3> HIDE DEF row
    <3>3. s[w] = row
      BY <3>1 DEF row
    <3> QED
      BY <1>1, <3>1, <3>2, <3>3 DEF Visible
  <2>3. CASE w = j.version
    <3>1. s[w] = Out(j) /\ Found(j, s)[w].status = "draft"
      BY <1>1, <2>3 DEF StrategiesFit, Read, Found
    <3>2. s[w].from = j.from
      BY <1>1, <3>1 DEF Out
    <3> QED
      BY <1>1, <3>1, <3>2 DEF Visible
  <2> QED
    BY <2>1, <2>2, <2>3 DEF Others
<1>4. ASSUME NEW r \in Patterns \ j.relearned
      PROVE  Belongs(FoundPattern(j, p, r), j.effect[t].strategy, t)
               <=> Belongs(p[r], j.effect[t].strategy, t)
  <2>1. CASE r \notin DOMAIN j.snapshot
    BY <2>1 DEF FoundPattern
  <2>2. CASE r \in DOMAIN j.snapshot /\ j.snapshot[r].version = j.version
    <3>1. FoundPattern(j, p, r).version = j.version /\ p[r].version = j.version
          /\ j.effect[t].strategy # j.version
      BY <1>1, <2>2 DEF FoundPattern, PatternsFit, Snapped, Read
    <3> QED
      BY <3>1 DEF Belongs
  <2>3. CASE r \in DOMAIN j.snapshot /\ j.snapshot[r].version # j.version
    <3>1. /\ p[r] = Retired(j.snapshot[r], j.from) /\ FoundPattern(j, p, r) = j.snapshot[r]
          /\ j.snapshot[r] \in Pattern
          /\ j.snapshot[r].status = "published" /\ j.snapshot[r].until = None
      BY <1>1, <1>2, <2>3 DEF PatternsFit, Snapped, Read, Kept, FoundPattern
    <3>2. /\ p[r].status = "retired" /\ p[r].version = j.snapshot[r].version
          /\ p[r].at = j.snapshot[r].at /\ p[r].until = j.from
      BY <1>1, <3>1, PatternRows
    <3> QED
      BY <1>1, <3>1, <3>2 DEF Belongs
  <2> QED
    BY <2>1, <2>2, <2>3
<1> QED
  BY <1>3, <1>4 DEF SameLook

LEMMA RestoredLooks ==
  ASSUME NEW s, NEW p, NEW whole, NEW j \in Request, Under(j, s, p, whole),
         j.pc = "checkPatterns", ~j.errors, NEW t \in Times
  PROVE  SameLook(j, s, p, t)
<1>1. PutBack(j, s) /\ AsFound(j, s) /\ Read(j) /\ PatternsFit(j, p)
  BY BackAsFound DEF Under
<1>2. ASSUME NEW w \in Versions
      PROVE  /\ Visible(Found(j, s)[w], t) <=> Visible(s[w], t)
             /\ Visible(s[w], t) => Found(j, s)[w].from = s[w].from
  <2>1. CASE w \notin DOMAIN j.priors
    BY <2>1 DEF Found
  <2>2. CASE w \in Others(j)
    BY <1>1, <2>2 DEF PutBack, Found, Others
  <2>3. CASE w = j.version
    <3>1. s[w].status = "draft" /\ Found(j, s)[w].status = "draft"
      BY <1>1, <2>3 DEF AsFound, Read, Found
    <3> QED
      BY <3>1 DEF Visible
  <2> QED
    BY <2>1, <2>2, <2>3 DEF Others
<1>3. \A r \in Patterns \ j.relearned : FoundPattern(j, p, r) = p[r]
  BY <1>1 DEF PatternsFit, Snapped, FoundPattern
<1> QED
  BY <1>2, <1>3 DEF SameLook

\* Publications do not rewrite history: what is read as of a time before the
\* publication's own is not changed by its success, and as of no time by one that
\* was restored, but for patterns that a learner wrote meanwhile.
THEOREM History == Spec => HistoryKept
<1> DEFINE Unchanged(a) ==
      LET kept == {t \in Times : Answers(a, "restored") \/ t < job[a].from}
      IN Answers(a, "published") \/ Answers(a, "restored") =>
           \A t \in kept :
             /\ InEffect(t) = job[a].effect[t].strategy
             /\ Learned(t) \ job[a].relearned = job[a].effect[t].patterns \ job[a].relearned
<1>1. ASSUME IInv, [Next]_vars, NEW a \in Admins, NEW t \in Times,
             \/ Answers(a, "restored")
             \/ Answers(a, "published") /\ t < job[a].from
      PROVE  /\ InEffect(t) = job[a].effect[t].strategy
             /\ Learned(t) \ job[a].relearned = job[a].effect[t].patterns \ job[a].relearned
  <2>1. \/ job[a].pc = "checkPatterns" /\ ~job[a].errors
        \/ job[a].pc = "verify" /\ t < job[a].from
    BY <1>1, Answering DEF Restores, Succeeds
  <2>2. job[a] \in Request /\ Under(job[a], strategy, pattern, sound)
    BY <1>1, <2>1, Publishing DEF Later, Steps
  <2>3. SameLook(job[a], strategy, pattern, t)
    BY <2>1, <2>2, PublishedLooks, RestoredLooks
  <2>4. /\ InEffect(t) = job[a].effect[t].strategy
        /\ Learned(t) \ job[a].relearned
             = (job[a].effect[t].patterns \cap Patterns) \ job[a].relearned
    BY <2>2, <2>3, LooksTheSame
  <2>5. job[a].effect[t].patterns \subseteq Patterns
    <3>1. DOMAIN job[a].effect = Times
      BY <2>2 DEF Under, Read
    <3>2. job[a].effect[t] \in [strategy : Versions \cup {None}, patterns : SUBSET Patterns]
      BY <2>2, <3>1, RequestState DEF JobState, Rows
    <3> QED
      BY <3>2
  <2> QED
    BY <2>4, <2>5
<1>2. IInv /\ [Next]_vars => \A a \in Admins : Unchanged(a)
  BY <1>1
<1> QED
  BY <1>2, Invariance, PTL DEF Spec, HistoryKept
=============================================================================
