---------------------------- MODULE Predictions ----------------------------
(***************************************************************************)
(* The prediction of one match and its verification: the row that analyses *)
(* save, that verifications settle against the result and that people      *)
(* correct by hand, and the settlement of a bet on an Asian line.          *)
(*                                                                         *)
(* None of the writers holds a lock or compares a version.  An analysis    *)
(* replaces the row and settles it at once, from its own copy, when the    *)
(* result is known; a verification settles rows that it read some time     *)
(* ago, and a correction is computed from a row read before.  Each writes  *)
(* a set of columns.  Lines are in quarters of a goal.  Of a stored verdict*)
(* the model keeps whether the prediction counts as correct, not the       *)
(* status and the times beside it.  The columns without a market in their  *)
(* name are left out: they are written together with those of the handicap *)
(* and repeat them, all but auto_is_correct, which a correction also sets, *)
(* to what it read, while handicap_auto_is_correct stays as it is.         *)
(***************************************************************************)
EXTENDS Integers

CONSTANTS
  Markets,       \* "handicap" and "total"
  Lines,         \* lines of the market, in quarters
  Scores,        \* final scores, <<home, away>>
  Predicted,     \* what analyses come to: a selection and a line in each market
  Analyses,      \* requests to analyse the match, one each
  Verifications, \* GET /api/analysis/verify, one each
  Corrections,   \* PATCH /api/analysis/verify, one each
  None,
  MaxResults     \* bound: writes of the result

\* "watch": 观望, 中立, 待定
Selections == {"first", "second", "watch"}

ASSUME PredictionConstants ==
  /\ Markets \subseteq {"handicap", "total"} /\ Markets # {}
  /\ Lines \subseteq -80..80 /\ Scores \subseteq (0..99) \X (0..99)  \* others are "invalid"
  /\ Predicted \subseteq [selection : [Markets -> Selections], line : [Markets -> Lines \cup {None}]]
  /\ None \notin Int \cup Scores \cup BOOLEAN
  /\ MaxResults \in Nat

VARIABLES
  row,           \* prediction_results
  result,        \* match_results
  analysis,
  verification,
  correction,
  results        \* how often the result was written

vars == <<row, result, analysis, verification, correction, results>>

----------------------------------------------------------------------------
(* Settling a bet.                                                         *)

Outcomes == {"win", "half_win", "push", "half_loss", "loss", "pending", "invalid",
             "legacy_unknown"}

\* Mutant: lines are rounded towards zero.
LegsTowardsZero(line) ==
  LET half == IF line < 0 THEN -((-line) \div 2) ELSE line \div 2
  IN IF line % 2 = 0 THEN {line} ELSE {2 * half, 2 * half + 2}

\* A quarter line is half a bet on each of the lines beside it.
Legs(line) == IF line % 2 = 0 THEN {line} ELSE {line - 1, line + 1}

Leg(distance) == IF distance > 0 THEN "win" ELSE IF distance < 0 THEN "loss" ELSE "push"

Combined(legs) ==
  CASE legs = {"win"} -> "win"
    [] legs = {"loss"} -> "loss"
    [] legs = {"win", "push"} -> "half_win"
    [] legs = {"push", "loss"} -> "half_loss"
    [] OTHER -> "push"

\* What a market is decided by: the margin of the home team, or all goals.
Goals(market, score) ==
  IF market = "handicap" THEN score[1] - score[2] ELSE score[1] + score[2]

\* The first side (home, over) gives the line, the second one takes it.
Decided(selection, line, goals) ==
  Combined({Leg(IF selection = "first" THEN 4 * goals - leg ELSE leg - 4 * goals) :
              leg \in Legs(line)})

\* Mutant: without a score it comes to a status, not to an outcome.
SettledUnverified(market, selection, line, evidence, score) ==
  IF score = None THEN "unverified"
  ELSE IF selection = "watch" \/ line = None THEN "pending"
  ELSE Decided(selection, line, Goals(market, score))

\* settlePrediction, as settleMarket calls it; evidence: whether odds of the
\* time were found.
Settled(market, selection, line, evidence, score) ==
  IF score = None THEN "pending"
  ELSE IF line = None /\ ~evidence THEN "legacy_unknown"
  ELSE IF selection = "watch" THEN "pending"
  ELSE IF line = None THEN "invalid"
  ELSE Decided(selection, line, Goals(market, score))

\* outcomeCorrectness
Correctness(outcome) ==
  CASE outcome \in {"win", "half_win"} -> TRUE
    [] outcome \in {"loss", "half_loss"} -> FALSE
    [] OTHER -> None

\* resolveEffectiveVerification
Effective(auto, manual) == IF manual # None THEN manual ELSE auto

----------------------------------------------------------------------------
(* The row.                                                                *)

Verdicts == BOOLEAN \cup {None}
Line == Lines \cup {None}

Row == [revision : Nat,                        \* 0: no row
        selection : [Markets -> Selections],
        line : [Markets -> Line],
        outcome : [Markets -> Outcomes],       \* auto_outcome, auto_is_correct
        manual : [Markets -> Verdicts],        \* manual_is_correct
        effective : [Markets -> Verdicts],     \* effective_is_correct
        score : Scores \cup {None}]            \* actual_score_margin, actual_total_goals

Always(value) == [k \in Markets |-> value]

NewRow(revision, predicted) ==
  [revision |-> revision, selection |-> predicted.selection, line |-> predicted.line,
   outcome |-> Always("pending"), manual |-> Always(None), effective |-> Always(None),
   score |-> None]

NoRow == NewRow(0, [selection |-> Always("watch"), line |-> Always(None)])

AnalysisState == [pc : {"idle", "save", "result", "settle", "over"}, copy : Row,
                  score : Scores \cup {None}]

\* What a settlement takes from the row that was read.
Copy(r) == [selection |-> r.selection, line |-> r.line, manual |-> r.manual]
Copies == [selection : [Markets -> Selections], line : [Markets -> Line],
           manual : [Markets -> Verdicts]]

VerificationState == [pc : {"idle", "result", "settle", "over"}, copy : Copies,
                      score : Scores \cup {None}, evidence : [Markets -> Line]]

\* outcome: the one in the row that was read.
CorrectionState == [pc : {"idle", "write", "over"}, market : Markets, verdict : Verdicts,
                    outcome : Outcomes]

IdleAnalysis == [pc |-> "idle", copy |-> NoRow, score |-> None]
IdleVerification == [pc |-> "idle", copy |-> Copy(NoRow), score |-> None,
                     evidence |-> Always(None)]
IdleCorrection == [pc |-> "idle", market |-> CHOOSE k \in Markets : TRUE, verdict |-> None,
                   outcome |-> "pending"]

Init ==
  /\ row = NoRow
  /\ result \in Scores \cup {None}
  /\ analysis = [a \in Analyses |-> IdleAnalysis]
  /\ verification = [v \in Verifications |-> IdleVerification]
  /\ correction = [c \in Corrections |-> IdleCorrection]
  /\ results = 0

\* Mutant: only the verdict is written, not what it was given on.
VerdictOnly(copy, score, evidence) ==
  [row EXCEPT
    !.outcome = [k \in Markets |->
       Settled(k, copy.selection[k], copy.line[k], FALSE, score)],
    !.score = score]

\* Mutant: the verdict by hand goes back with the settlement.
SettledWhole(copy, score, evidence) ==
  LET line == [k \in Markets |-> IF copy.line[k] # None THEN copy.line[k] ELSE evidence[k]]
      outcome == [k \in Markets |->
        Settled(k, copy.selection[k], line[k], evidence[k] # None, score)]
  IN [row EXCEPT
       !.selection = copy.selection,
       !.line = line,
       !.outcome = outcome,
       !.manual = copy.manual,
       !.effective = [k \in Markets |-> Effective(Correctness(outcome[k]), copy.manual[k])],
       !.score = score]

\* The columns that settleMarket computes from a copy of the row, for both
\* markets, put into the row as it is now.
SettledFrom(copy, score, evidence) ==
  LET line == [k \in Markets |-> IF copy.line[k] # None THEN copy.line[k] ELSE evidence[k]]
      outcome == [k \in Markets |->
        Settled(k, copy.selection[k], line[k], evidence[k] # None, score)]
  IN [row EXCEPT
       !.selection = copy.selection,
       !.line = line,
       !.outcome = outcome,
       !.effective = [k \in Markets |-> Effective(Correctness(outcome[k]), copy.manual[k])],
       !.score = score]

\* An update of the row: made, or failed, which is at most logged.
Update(new) == row' = new \/ UNCHANGED row

----------------------------------------------------------------------------
(* Analyses: savePrediction.                                               *)

Analyse(a, state) ==
  /\ analysis' = [analysis EXCEPT ![a] = state]
  /\ UNCHANGED <<result, verification, correction, results>>

\* The errors of the reads below are not looked at: nothing was found.
ReadRevision(a) ==
  /\ analysis[a].pc = "idle"
  /\ \E predicted \in Predicted, revision \in {row.revision, 0} :
       Analyse(a, [pc |-> "save", copy |-> NewRow(revision + 1, predicted), score |-> None])
  /\ UNCHANGED row

Save(a) ==
  /\ analysis[a].pc = "save"
  /\ \/ row' = analysis[a].copy /\ Analyse(a, [analysis[a] EXCEPT !.pc = "result"])
     \/ UNCHANGED row /\ Analyse(a, [IdleAnalysis EXCEPT !.pc = "over"])

\* The match may have a result already: the prediction is settled at once.
ReadResult(a) ==
  /\ analysis[a].pc = "result"
  /\ \/ Analyse(a, [IdleAnalysis EXCEPT !.pc = "over"])
     \/ result # None /\ Analyse(a, [analysis[a] EXCEPT !.pc = "settle", !.score = result])
  /\ UNCHANGED row

SettleAtOnce(a) ==
  /\ analysis[a].pc = "settle"
  /\ Update(SettledFrom(analysis[a].copy, analysis[a].score, Always(None)))
  /\ Analyse(a, [IdleAnalysis EXCEPT !.pc = "over"])

----------------------------------------------------------------------------
(* Verifications: GET.                                                     *)

Verify(v, state) ==
  /\ verification' = [verification EXCEPT ![v] = state]
  /\ UNCHANGED <<result, analysis, correction, results>>

ReadRows(v) ==
  /\ verification[v].pc = "idle"
  /\ row.revision > 0
  /\ Verify(v, [verification[v] EXCEPT !.pc = "result", !.copy = Copy(row)])
  /\ UNCHANGED row

\* Results, and the odds of the time for a line that is missing; an error of one
\* of these reads is taken for its having returned nothing.
ReadResults(v) ==
  /\ verification[v].pc = "result"
  /\ \E score \in {result, None}, evidence \in [Markets -> Line] :
       /\ \A k \in Markets : verification[v].copy.line[k] # None => evidence[k] = None
       /\ Verify(v, [verification[v] EXCEPT !.pc = "settle", !.score = score, !.evidence = evidence])
  /\ UNCHANGED row

\* Other rows are settled before, one by one.
SettleRow(v) ==
  /\ verification[v].pc = "settle"
  /\ Update(SettledFrom(verification[v].copy, verification[v].score, verification[v].evidence))
  /\ Verify(v, [IdleVerification EXCEPT !.pc = "over"])

----------------------------------------------------------------------------
(* Corrections: PATCH.                                                     *)

Correct(c, state) ==
  /\ correction' = [correction EXCEPT ![c] = state]
  /\ UNCHANGED <<result, analysis, verification, results>>

ReadPrediction(c) ==
  /\ correction[c].pc = "idle"
  /\ row.revision > 0
  /\ \E k \in Markets, verdict \in Verdicts :
       Correct(c, [pc |-> "write", market |-> k, verdict |-> verdict, outcome |-> row.outcome[k]])
  /\ UNCHANGED row

\* buildManualVerificationUpdate (and auto_is_correct, see above)
Corrected(c) ==
  LET k == correction[c].market
      verdict == correction[c].verdict
  IN [row EXCEPT !.manual[k] = verdict,
                 !.effective[k] = Effective(Correctness(correction[c].outcome), verdict)]

WriteCorrection(c) ==
  /\ correction[c].pc = "write"
  /\ Update(Corrected(c))
  /\ Correct(c, [IdleCorrection EXCEPT !.pc = "over"])

----------------------------------------------------------------------------
\* The schedule is fetched again: the match ends, its score is corrected, or
\* it counts as open again.
WriteResult ==
  /\ results < MaxResults
  /\ results' = results + 1
  /\ result' \in Scores \cup {None}
  /\ UNCHANGED <<row, analysis, verification, correction>>

Next ==
  \/ \E a \in Analyses : ReadRevision(a) \/ Save(a) \/ ReadResult(a) \/ SettleAtOnce(a)
  \/ \E v \in Verifications : ReadRows(v) \/ ReadResults(v) \/ SettleRow(v)
  \/ \E c \in Corrections : ReadPrediction(c) \/ WriteCorrection(c)
  \/ WriteResult

Spec == Init /\ [][Next]_vars

----------------------------------------------------------------------------
(* Properties.                                                             *)

TypeOK ==
  /\ row \in Row
  /\ result \in Scores \cup {None}
  /\ analysis \in [Analyses -> AnalysisState]
  /\ verification \in [Verifications -> VerificationState]
  /\ correction \in [Corrections -> CorrectionState]
  /\ results \in 0..MaxResults

\* Whoever wrote last, on whatever old copy: the outcome in the row is the
\* settlement of the selection, the line and the score that stand beside it.
RowExplainsItself ==
  \A k \in Markets : \E evidence \in BOOLEAN :
    row.outcome[k] = Settled(k, row.selection[k], row.line[k], evidence, row.score)

\* A verdict given by hand goes only by another one or with a new analysis: no
\* settlement on an old copy of the row, and no correction of the other market,
\* takes it away.
ManualKept ==
  [][\A k \in Markets :
       row'.manual[k] # row.manual[k] =>
         \/ \E c \in Corrections :
              correction[c].pc = "write" /\ correction[c].market = k /\ correction'[c].pc = "over"
         \/ \E a \in Analyses : analysis[a].pc = "save" /\ analysis'[a].pc = "result"]_vars

\* What a bet comes to at a distance, in quarters of a goal, on its side of the line.
Paid(distance) ==
  CASE distance >= 2 -> "win"
    [] distance = 1 -> "half_win"
    [] distance = 0 -> "push"
    [] distance = -1 -> "half_loss"
    [] OTHER -> "loss"

\* A row with a score, a line and a side shows what is paid for the distance of the
\* goals from the line: half a goal or more is a full win or loss, a quarter half
\* of one, and what one side wins the other loses.
SettlementByDistance ==
  \A k \in Markets :
    row.score # None /\ row.line[k] # None /\ row.selection[k] # "watch" =>
      LET distance == 4 * Goals(k, row.score) - row.line[k]
      IN row.outcome[k] = Paid(IF row.selection[k] = "first" THEN distance ELSE -distance)
=============================================================================
