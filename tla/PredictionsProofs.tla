------------------------- MODULE PredictionsProofs -------------------------
(***************************************************************************)
(* Proofs about Predictions, for any number of analyses, verifications and *)
(* corrections, any scores and lines and every bound.                      *)
(***************************************************************************)
EXTENDS Predictions, TLAPS

----------------------------------------------------------------------------
(* What a bet comes to.                                                    *)

\* A whole bet at an even distance, in quarters.
LEMMA WholeBet ==
  ASSUME NEW d \in Int, d % 2 = 0
  PROVE  Combined({Leg(d)}) = Paid(d)
<1>1. CASE d >= 2
  BY <1>1 DEF Leg, Combined, Paid
<1>2. CASE d = 0
  BY <1>2 DEF Leg, Combined, Paid
<1>3. CASE d <= -2
  BY <1>3 DEF Leg, Combined, Paid
<1> QED
  BY <1>1, <1>2, <1>3

\* Two half bets a quarter below and a quarter above an odd distance.
LEMMA HalfBets ==
  ASSUME NEW d \in Int, d % 2 # 0
  PROVE  Combined({Leg(d - 1), Leg(d + 1)}) = Paid(d)
<1>1. CASE d >= 3
  <2>1. Leg(d - 1) = "win" /\ Leg(d + 1) = "win"
    BY <1>1 DEF Leg
  <2>2. {Leg(d - 1), Leg(d + 1)} = {"win"}
    BY <2>1
  <2>3. Combined({"win"}) = "win"
    BY DEF Combined
  <2>4. Paid(d) = "win"
    BY <1>1 DEF Paid
  <2> QED
    BY <2>2, <2>3, <2>4
<1>2. CASE d = 1
  BY <1>2 DEF Leg, Combined, Paid
<1>3. CASE d = -1
  BY <1>3 DEF Leg, Combined, Paid
<1>4. CASE d <= -3
  BY <1>4 DEF Leg, Combined, Paid
<1> QED
  BY <1>1, <1>2, <1>3, <1>4

\* Both sides of a bet, quarter lines and negative lines included, come to what
\* is paid for the distance of the goals from the line.
THEOREM DecidedByDistance ==
  ASSUME NEW line \in Int, NEW goals \in Int
  PROVE  /\ Decided("first", line, goals) = Paid(4 * goals - line)
         /\ Decided("second", line, goals) = Paid(line - 4 * goals)
<1> DEFINE d == 4 * goals - line
           e == line - 4 * goals
<1>1. CASE line % 2 = 0
  <2>1. d \in Int /\ d % 2 = 0 /\ e \in Int /\ e % 2 = 0
    BY <1>1
  <2>2. Combined({Leg(d)}) = Paid(d) /\ Combined({Leg(e)}) = Paid(e)
    <3> HIDE DEF d, e
    <3> QED BY <2>1, WholeBet
  <2>3. Legs(line) = {line}
    BY <1>1 DEF Legs
  <2>4. Decided("first", line, goals) = Combined({Leg(d)})
    BY <2>3 DEF Decided
  <2>5. Decided("second", line, goals) = Combined({Leg(e)})
    BY <2>3 DEF Decided
  <2> QED
    BY <2>2, <2>4, <2>5
<1>2. CASE line % 2 # 0
  <2>1. d \in Int /\ d % 2 # 0 /\ e \in Int /\ e % 2 # 0
    BY <1>2
  <2>2. /\ Combined({Leg(d - 1), Leg(d + 1)}) = Paid(d)
        /\ Combined({Leg(e - 1), Leg(e + 1)}) = Paid(e)
    <3> HIDE DEF d, e
    <3> QED BY <2>1, HalfBets
  <2>3. Legs(line) = {line - 1, line + 1}
    BY <1>2 DEF Legs
  <2>4. Decided("first", line, goals) = Combined({Leg(d + 1), Leg(d - 1)})
    <3>1. 4 * goals - (line - 1) = d + 1 /\ 4 * goals - (line + 1) = d - 1
      OBVIOUS
    <3>2. {Leg(4 * goals - leg) : leg \in {line - 1, line + 1}} =
            {Leg(4 * goals - (line - 1)), Leg(4 * goals - (line + 1))}
      OBVIOUS
    <3> HIDE DEF d
    <3> QED
      BY <2>3, <3>1, <3>2 DEF Decided
  <2>5. Decided("second", line, goals) = Combined({Leg(e - 1), Leg(e + 1)})
    <3>1. (line - 1) - 4 * goals = e - 1 /\ (line + 1) - 4 * goals = e + 1
      OBVIOUS
    <3>2. {Leg(leg - 4 * goals) : leg \in {line - 1, line + 1}} =
            {Leg((line - 1) - 4 * goals), Leg((line + 1) - 4 * goals)}
      OBVIOUS
    <3> HIDE DEF e
    <3> QED
      BY <2>3, <3>1, <3>2 DEF Decided
  <2>6. {Leg(d + 1), Leg(d - 1)} = {Leg(d - 1), Leg(d + 1)}
    OBVIOUS
  <2> QED
    BY <2>2, <2>4, <2>5, <2>6
<1> QED
  BY <1>1, <1>2

----------------------------------------------------------------------------
(* Types.                                                                  *)

LEMMA OutcomeTypes ==
  ASSUME NEW market, NEW selection, NEW line, NEW evidence, NEW score
  PROVE  Settled(market, selection, line, evidence, score) \in Outcomes
BY DEF Settled, Decided, Combined, Outcomes

LEMMA VerdictTypes ==
  ASSUME NEW outcome, NEW manual \in Verdicts
  PROVE  Effective(Correctness(outcome), manual) \in Verdicts
BY DEF Effective, Correctness, Verdicts

LEMMA NewRowType ==
  ASSUME NEW revision \in Nat,
         NEW predicted \in [selection : [Markets -> Selections], line : [Markets -> Line]]
  PROVE  NewRow(revision, predicted) \in Row
BY DEF NewRow, Row, Always, Outcomes, Verdicts

LEMMA NoRowType == NoRow \in Row
<1>1. [selection |-> Always("watch"), line |-> Always(None)]
        \in [selection : [Markets -> Selections], line : [Markets -> Line]]
  BY DEF Always, Selections, Line
<1> QED
  BY <1>1, NewRowType DEF NoRow

\* The row explains itself if its outcomes are settlements of what stands beside.
Explained(r) ==
  \A k \in Markets : \E evidence \in BOOLEAN :
    r.outcome[k] = Settled(k, r.selection[k], r.line[k], evidence, r.score)

\* A settlement on any copy, score and evidence yields a row that explains itself.
LEMMA Settlement ==
  ASSUME row \in Row,
         NEW copy, copy.selection \in [Markets -> Selections], copy.line \in [Markets -> Line],
         copy.manual \in [Markets -> Verdicts],
         NEW score \in Scores \cup {None}, NEW evidence \in [Markets -> Line]
  PROVE  /\ SettledFrom(copy, score, evidence) \in Row
         /\ Explained(SettledFrom(copy, score, evidence))
         /\ SettledFrom(copy, score, evidence).manual = row.manual
<1> DEFINE line == [k \in Markets |-> IF copy.line[k] # None THEN copy.line[k] ELSE evidence[k]]
           outcome == [k \in Markets |->
             Settled(k, copy.selection[k], line[k], evidence[k] # None, score)]
           effective == [k \in Markets |-> Effective(Correctness(outcome[k]), copy.manual[k])]
           new == [row EXCEPT !.selection = copy.selection, !.line = line, !.outcome = outcome,
                              !.effective = effective, !.score = score]
<1>1. SettledFrom(copy, score, evidence) = new
  BY DEF SettledFrom
<1>2. line \in [Markets -> Line]
  OBVIOUS
<1>3. outcome \in [Markets -> Outcomes]
  BY OutcomeTypes
<1>4. effective \in [Markets -> Verdicts]
  BY VerdictTypes
<1>5. \A k \in Markets :
        outcome[k] = Settled(k, copy.selection[k], line[k], evidence[k] # None, score)
  OBVIOUS
<1> HIDE DEF line, outcome, effective
<1>6. new \in Row
  BY <1>2, <1>3, <1>4 DEF Row
<1>7. /\ new.selection = copy.selection /\ new.line = line /\ new.outcome = outcome
      /\ new.score = score /\ new.manual = row.manual
  BY DEF Row
<1>8. Explained(new)
  BY <1>5, <1>7 DEF Explained
<1> QED
  BY <1>1, <1>6, <1>7, <1>8

\* A correction changes the two verdicts of its market.
LEMMA Correction ==
  ASSUME TypeOK, NEW c \in Corrections
  PROVE  /\ Corrected(c) \in Row
         /\ Explained(row) => Explained(Corrected(c))
         /\ \A k \in Markets \ {correction[c].market} : Corrected(c).manual[k] = row.manual[k]
<1> DEFINE k == correction[c].market
           verdict == correction[c].verdict
           effective == Effective(Correctness(correction[c].outcome), verdict)
<1>1. k \in Markets /\ verdict \in Verdicts
  BY DEF TypeOK, CorrectionState
<1>2. effective \in Verdicts
  BY <1>1, VerdictTypes
<1>3. Corrected(c) = [row EXCEPT !.manual[k] = verdict, !.effective[k] = effective]
  BY DEF Corrected
<1> HIDE DEF k, verdict, effective
<1>4. Corrected(c) \in Row
  <2>1. row \in Row
    BY DEF TypeOK
  <2>2. [row.manual EXCEPT ![k] = verdict] \in [Markets -> Verdicts]
    BY <1>1, <2>1 DEF Row
  <2>3. [row.effective EXCEPT ![k] = effective] \in [Markets -> Verdicts]
    BY <1>2, <2>1 DEF Row
  <2>4. Corrected(c) = [row EXCEPT !.manual = [row.manual EXCEPT ![k] = verdict],
                                   !.effective = [row.effective EXCEPT ![k] = effective]]
    BY <1>3, <2>1 DEF Row
  <2> QED
    BY <2>1, <2>2, <2>3, <2>4 DEF Row
<1>5. /\ Corrected(c).outcome = row.outcome /\ Corrected(c).selection = row.selection
      /\ Corrected(c).line = row.line /\ Corrected(c).score = row.score
      /\ \A m \in Markets \ {k} : Corrected(c).manual[m] = row.manual[m]
  BY <1>1, <1>3 DEF Row, TypeOK
<1> QED
  BY <1>4, <1>5 DEF Explained, k

----------------------------------------------------------------------------
(* The inductive invariant: a row, and what an analysis is about to save,  *)
(* explain themselves.                                                     *)

IInv ==
  /\ TypeOK
  /\ Explained(row)
  /\ \A a \in Analyses : Explained(analysis[a].copy)

LEMMA NewRowExplained ==
  ASSUME NEW revision, NEW predicted
  PROVE  Explained(NewRow(revision, predicted))
BY DEF Explained, NewRow, Settled, Always

LEMMA NoRowExplained == Explained(NoRow)
BY NewRowExplained DEF NoRow

LEMMA IdleTypes ==
  /\ IdleAnalysis \in AnalysisState
  /\ IdleVerification \in VerificationState
  /\ IdleCorrection \in CorrectionState
<1>1. IdleAnalysis \in AnalysisState
  BY NoRowType DEF IdleAnalysis, AnalysisState
<1>2. Copy(NoRow) \in Copies
  BY NoRowType DEF Copy, Copies, Row
<1>3. IdleVerification \in VerificationState
  BY <1>2 DEF IdleVerification, VerificationState, Always, Line
<1>4. IdleCorrection \in CorrectionState
  BY PredictionConstants DEF IdleCorrection, CorrectionState, Verdicts, Outcomes
<1> QED
  BY <1>1, <1>3, <1>4

LEMMA InitIInv == Init => IInv
<1> SUFFICES ASSUME Init PROVE IInv
  OBVIOUS
<1>1. TypeOK
  BY IdleTypes, NoRowType, PredictionConstants DEF Init, TypeOK
<1>2. \A a \in Analyses : analysis[a].copy = NoRow
  BY DEF Init, IdleAnalysis
<1> QED
  BY <1>1, <1>2, NoRowExplained DEF Init, IInv

LEMMA AnalysisIInv ==
  ASSUME IInv, NEW a \in Analyses,
         ReadRevision(a) \/ Save(a) \/ ReadResult(a) \/ SettleAtOnce(a)
  PROVE  IInv'
<1> USE DEF IInv
<1>1. analysis[a] \in AnalysisState /\ row \in Row /\ result \in Scores \cup {None}
  BY DEF TypeOK
<1>2. ASSUME NEW state \in AnalysisState, Analyse(a, state), Explained(state.copy),
             row' \in Row, Explained(row')
      PROVE  IInv'
  <2>1. analysis' = [analysis EXCEPT ![a] = state]
    BY <1>2 DEF Analyse
  <2>2. TypeOK'
    BY <1>2, <2>1 DEF Analyse, TypeOK
  <2>3. \A b \in Analyses : Explained(analysis'[b].copy)
    BY <1>2, <2>1 DEF TypeOK
  <2> QED
    BY <1>2, <2>2, <2>3 DEF Explained
<1>3. DEFINE over == [IdleAnalysis EXCEPT !.pc = "over"]
<1>4. over \in AnalysisState /\ Explained(over.copy)
  BY NoRowType, NoRowExplained DEF IdleAnalysis, AnalysisState
<1>5. CASE ReadRevision(a)
  <2>1. PICK predicted \in Predicted, revision \in {row.revision, 0} :
          Analyse(a, [pc |-> "save", copy |-> NewRow(revision + 1, predicted), score |-> None])
    BY <1>5 DEF ReadRevision
  <2>2. revision + 1 \in Nat
    BY <1>1 DEF Row
  <2>3. NewRow(revision + 1, predicted) \in Row
    BY <2>2, NewRowType, PredictionConstants DEF Line
  <2>4. Explained(NewRow(revision + 1, predicted))
    BY NewRowExplained
  <2>5. [pc |-> "save", copy |-> NewRow(revision + 1, predicted), score |-> None] \in AnalysisState
    BY <2>3 DEF AnalysisState
  <2>6. row' = row
    BY <1>5 DEF ReadRevision
  <2> QED
    BY <1>1, <1>2, <2>1, <2>4, <2>5, <2>6
<1>6. CASE Save(a)
  <2>1. CASE row' = analysis[a].copy /\ Analyse(a, [analysis[a] EXCEPT !.pc = "result"])
    <3>1. [analysis[a] EXCEPT !.pc = "result"] \in AnalysisState
      BY <1>1 DEF AnalysisState
    <3>2. [analysis[a] EXCEPT !.pc = "result"].copy = analysis[a].copy
      BY <1>1 DEF AnalysisState
    <3>3. analysis[a].copy \in Row
      BY <1>1 DEF AnalysisState
    <3> QED
      BY <1>2, <2>1, <3>1, <3>2, <3>3
  <2>2. CASE UNCHANGED row /\ Analyse(a, over)
    BY <1>1, <1>2, <1>4, <2>2
  <2> QED
    BY <1>6, <2>1, <2>2 DEF Save
<1>7. CASE ReadResult(a)
  <2>1. row' = row
    BY <1>7 DEF ReadResult
  <2>2. CASE Analyse(a, over)
    BY <1>1, <1>2, <1>4, <2>1, <2>2
  <2>3. CASE Analyse(a, [analysis[a] EXCEPT !.pc = "settle", !.score = result])
    <3>1. [analysis[a] EXCEPT !.pc = "settle", !.score = result] \in AnalysisState
      BY <1>1 DEF AnalysisState
    <3>2. [analysis[a] EXCEPT !.pc = "settle", !.score = result].copy = analysis[a].copy
      BY <1>1 DEF AnalysisState
    <3> QED
      BY <1>1, <1>2, <2>1, <2>3, <3>1, <3>2
  <2> QED
    BY <1>7, <2>2, <2>3 DEF ReadResult
<1>8. CASE SettleAtOnce(a)
  <2> DEFINE new == SettledFrom(analysis[a].copy, analysis[a].score, Always(None))
  <2>1. /\ analysis[a].copy.selection \in [Markets -> Selections]
        /\ analysis[a].copy.line \in [Markets -> Line]
        /\ analysis[a].copy.manual \in [Markets -> Verdicts]
        /\ analysis[a].score \in Scores \cup {None}
        /\ Always(None) \in [Markets -> Line]
    BY <1>1 DEF AnalysisState, Row, Always, Line
  <2>2. new \in Row /\ Explained(new)
    BY <1>1, <2>1, Settlement
  <2>3. row' \in Row /\ Explained(row')
    BY <1>1, <1>8, <2>2 DEF SettleAtOnce, Update
  <2> QED
    BY <1>2, <1>4, <1>8, <2>3 DEF SettleAtOnce
<1> QED
  BY <1>5, <1>6, <1>7, <1>8

LEMMA VerificationIInv ==
  ASSUME IInv, NEW v \in Verifications, ReadRows(v) \/ ReadResults(v) \/ SettleRow(v)
  PROVE  IInv'
<1> USE DEF IInv
<1>1. verification[v] \in VerificationState /\ row \in Row /\ result \in Scores \cup {None}
  BY DEF TypeOK
<1>2. ASSUME NEW state \in VerificationState, Verify(v, state), row' \in Row, Explained(row')
      PROVE  IInv'
  <2>1. TypeOK'
    BY <1>2 DEF Verify, TypeOK
  <2>2. analysis' = analysis
    BY <1>2 DEF Verify
  <2> QED
    BY <1>2, <2>1, <2>2 DEF Explained
<1>3. CASE ReadRows(v)
  <2>1. [verification[v] EXCEPT !.pc = "result", !.copy = Copy(row)] \in VerificationState
    BY <1>1 DEF VerificationState, Copy, Copies, Row
  <2> QED
    BY <1>1, <1>2, <1>3, <2>1 DEF ReadRows
<1>4. CASE ReadResults(v)
  <2>1. PICK score \in {result, None}, evidence \in [Markets -> Line] :
          Verify(v, [verification[v] EXCEPT !.pc = "settle", !.score = score,
                                            !.evidence = evidence])
    BY <1>4 DEF ReadResults
  <2>2. [verification[v] EXCEPT !.pc = "settle", !.score = score, !.evidence = evidence]
          \in VerificationState
    BY <1>1 DEF VerificationState
  <2> QED
    BY <1>1, <1>2, <1>4, <2>1, <2>2 DEF ReadResults
<1>5. CASE SettleRow(v)
  <2> DEFINE copy == verification[v].copy
             new == SettledFrom(copy, verification[v].score, verification[v].evidence)
  <2>1. /\ copy.selection \in [Markets -> Selections] /\ copy.line \in [Markets -> Line]
        /\ copy.manual \in [Markets -> Verdicts]
        /\ verification[v].score \in Scores \cup {None}
        /\ verification[v].evidence \in [Markets -> Line]
    BY <1>1 DEF VerificationState, Copies
  <2>2. new \in Row /\ Explained(new)
    BY <1>1, <2>1, Settlement
  <2>3. row' \in Row /\ Explained(row')
    BY <1>1, <1>5, <2>2 DEF SettleRow, Update
  <2>4. [IdleVerification EXCEPT !.pc = "over"] \in VerificationState
    BY IdleTypes DEF VerificationState
  <2> QED
    BY <1>2, <1>5, <2>3, <2>4 DEF SettleRow
<1> QED
  BY <1>3, <1>4, <1>5

LEMMA CorrectionIInv ==
  ASSUME IInv, NEW c \in Corrections, ReadPrediction(c) \/ WriteCorrection(c)
  PROVE  IInv'
<1> USE DEF IInv
<1>1. correction[c] \in CorrectionState /\ row \in Row
  BY DEF TypeOK
<1>2. ASSUME NEW state \in CorrectionState, Correct(c, state), row' \in Row, Explained(row')
      PROVE  IInv'
  <2>1. TypeOK'
    BY <1>2 DEF Correct, TypeOK
  <2>2. analysis' = analysis
    BY <1>2 DEF Correct
  <2> QED
    BY <1>2, <2>1, <2>2 DEF Explained
<1>3. CASE ReadPrediction(c)
  <2>1. PICK k \in Markets, verdict \in Verdicts :
          Correct(c, [pc |-> "write", market |-> k, verdict |-> verdict,
                      outcome |-> row.outcome[k]])
    BY <1>3 DEF ReadPrediction
  <2>2. [pc |-> "write", market |-> k, verdict |-> verdict, outcome |-> row.outcome[k]]
          \in CorrectionState
    BY <1>1 DEF CorrectionState, Row
  <2> QED
    BY <1>1, <1>2, <1>3, <2>1, <2>2 DEF ReadPrediction
<1>4. CASE WriteCorrection(c)
  <2>1. row' \in Row /\ Explained(row')
    BY <1>1, <1>4, Correction DEF WriteCorrection, Update
  <2>2. [IdleCorrection EXCEPT !.pc = "over"] \in CorrectionState
    BY IdleTypes DEF CorrectionState
  <2> QED
    BY <1>2, <1>4, <2>1, <2>2 DEF WriteCorrection
<1> QED
  BY <1>3, <1>4

LEMMA NextIInv == IInv /\ [Next]_vars => IInv'
<1> SUFFICES ASSUME IInv, [Next]_vars PROVE IInv'
  OBVIOUS
<1>1. CASE \E a \in Analyses : ReadRevision(a) \/ Save(a) \/ ReadResult(a) \/ SettleAtOnce(a)
  BY <1>1, AnalysisIInv
<1>2. CASE \E v \in Verifications : ReadRows(v) \/ ReadResults(v) \/ SettleRow(v)
  BY <1>2, VerificationIInv
<1>3. CASE \E c \in Corrections : ReadPrediction(c) \/ WriteCorrection(c)
  BY <1>3, CorrectionIInv
<1>4. CASE WriteResult
  BY <1>4, PredictionConstants DEF WriteResult, IInv, TypeOK, Explained
<1>5. CASE UNCHANGED vars
  BY <1>5 DEF vars, IInv, TypeOK, Explained
<1> QED
  BY <1>1, <1>2, <1>3, <1>4, <1>5 DEF Next

THEOREM Invariance == Spec => []IInv
BY InitIInv, NextIInv, PTL DEF Spec

----------------------------------------------------------------------------
(* The theorems.                                                           *)

\* Every reachable state has its types, however many requests there are.
THEOREM Typing == Spec => []TypeOK
<1>1. IInv => TypeOK
  BY DEF IInv
<1> QED
  BY <1>1, Invariance, PTL

\* Whoever settles the row, and on whatever old copy, the outcome in it is the
\* settlement of the selection, the line and the score beside it.
THEOREM Explanation == Spec => []RowExplainsItself
<1>1. IInv => RowExplainsItself
  BY DEF IInv, Explained, RowExplainsItself
<1> QED
  BY <1>1, Invariance, PTL

\* A settled row shows what is paid for the distance of the goals from the line,
\* whatever the line, the score and the side.
THEOREM ByDistance == Spec => []SettlementByDistance
<1>1. ASSUME IInv PROVE SettlementByDistance
  <2> SUFFICES ASSUME NEW k \in Markets, row.score # None, row.line[k] # None,
                      row.selection[k] # "watch"
               PROVE  row.outcome[k] =
                        LET distance == 4 * Goals(k, row.score) - row.line[k]
                        IN Paid(IF row.selection[k] = "first" THEN distance ELSE -distance)
    BY DEF SettlementByDistance
  <2> DEFINE goals == Goals(k, row.score)
             line == row.line[k]
  <2>1. row.score \in (0..99) \X (0..99) /\ line \in Int /\ row.selection[k] \in {"first", "second"}
    <3>1. row \in Row
      BY <1>1 DEF IInv, TypeOK
    <3>2. row.score \in Scores
      BY <3>1 DEF Row
    <3>3. row.line[k] \in Lines
      BY <3>1 DEF Row, Line
    <3>4. row.selection[k] \in {"first", "second"}
      BY <3>1 DEF Row, Selections
    <3>5. row.score \in (0..99) \X (0..99)
      BY <3>2, PredictionConstants
    <3>6. line \in Int
      <4>1. Lines \subseteq -80..80
        BY PredictionConstants
      <4>2. line \in -80..80
        BY <3>3, <4>1
      <4> HIDE DEF line
      <4> QED
        BY <4>2
    <3> QED
      BY <3>4, <3>5, <3>6
  <2>2. goals \in Int
    <3>1. row.score[1] \in Int /\ row.score[2] \in Int
      BY <2>1
    <3> QED
      BY <3>1 DEF Goals
  <2>3. row.outcome[k] = Decided(row.selection[k], line, goals)
    BY <1>1 DEF IInv, Explained, Settled
  <2>4. -(4 * goals - line) = line - 4 * goals
    <3> HIDE DEF goals, line
    <3> QED BY <2>1, <2>2
  <2>5. /\ Decided("first", line, goals) = Paid(4 * goals - line)
        /\ Decided("second", line, goals) = Paid(line - 4 * goals)
    BY <2>1, <2>2, DecidedByDistance
  <2> QED
    BY <2>1, <2>3, <2>4, <2>5
<1> QED
  BY <1>1, Invariance, PTL

\* A verdict given by hand is taken away by another one and by a new analysis
\* only, in every behaviour.
THEOREM VerdictsStay == Spec => ManualKept
<1> DEFINE Given == \A k \in Markets :
      row'.manual[k] # row.manual[k] =>
        \/ \E c \in Corrections :
             correction[c].pc = "write" /\ correction[c].market = k /\ correction'[c].pc = "over"
        \/ \E a \in Analyses : analysis[a].pc = "save" /\ analysis'[a].pc = "result"
<1>1. ASSUME IInv, [Next]_vars PROVE [Given]_vars
  <2> USE <1>1 DEF IInv
  <2> SUFFICES ASSUME Next PROVE Given
    BY <1>1
  <2>1. ASSUME NEW a \in Analyses, ReadRevision(a) \/ Save(a) \/ ReadResult(a) \/ SettleAtOnce(a)
        PROVE  Given
    <3>1. analysis[a] \in AnalysisState /\ row \in Row
      BY DEF TypeOK
    <3>2. CASE Save(a) /\ row' # row
      <4>1. analysis[a].pc = "save" /\ analysis'[a].pc = "result"
        BY <3>1, <3>2 DEF Save, Analyse, TypeOK, AnalysisState
      <4> QED
        BY <4>1
    <3>3. CASE SettleAtOnce(a)
      <4>1. /\ analysis[a].copy.selection \in [Markets -> Selections]
            /\ analysis[a].copy.line \in [Markets -> Line]
            /\ analysis[a].copy.manual \in [Markets -> Verdicts]
            /\ analysis[a].score \in Scores \cup {None}
            /\ Always(None) \in [Markets -> Line]
        BY <3>1 DEF AnalysisState, Row, Always, Line
      <4>2. row'.manual = row.manual
        <5> DEFINE new == SettledFrom(analysis[a].copy, analysis[a].score, Always(None))
        <5>1. new.manual = row.manual
          BY <3>1, <4>1, Settlement
        <5>2. row' = new \/ row' = row
          BY <3>3 DEF SettleAtOnce, Update
        <5> HIDE DEF new
        <5> QED
          BY <5>1, <5>2
      <4> QED
        BY <4>2
    <3>4. CASE row' = row
      BY <3>4
    <3> QED
      BY <2>1, <3>2, <3>3, <3>4 DEF ReadRevision, ReadResult
  <2>2. ASSUME NEW v \in Verifications, ReadRows(v) \/ ReadResults(v) \/ SettleRow(v)
        PROVE  Given
    <3>1. verification[v] \in VerificationState /\ row \in Row
      BY DEF TypeOK
    <3>2. CASE SettleRow(v)
      <4>1. /\ verification[v].copy.selection \in [Markets -> Selections]
            /\ verification[v].copy.line \in [Markets -> Line]
            /\ verification[v].copy.manual \in [Markets -> Verdicts]
            /\ verification[v].score \in Scores \cup {None}
            /\ verification[v].evidence \in [Markets -> Line]
        BY <3>1 DEF VerificationState, Copies
      <4>2. row'.manual = row.manual
        <5> DEFINE new == SettledFrom(verification[v].copy, verification[v].score, verification[v].evidence)
        <5>1. new.manual = row.manual
          BY <3>1, <4>1, Settlement
        <5>2. row' = new \/ row' = row
          BY <3>2 DEF SettleRow, Update
        <5> HIDE DEF new
        <5> QED
          BY <5>1, <5>2
      <4> QED
        BY <4>2
    <3> QED
      BY <2>2, <3>2 DEF ReadRows, ReadResults
  <2>3. ASSUME NEW c \in Corrections, ReadPrediction(c) \/ WriteCorrection(c)
        PROVE  Given
    <3>1. CASE WriteCorrection(c)
      <4>1. correction[c].pc = "write" /\ correction'[c].pc = "over"
        BY <3>1, IdleTypes DEF WriteCorrection, Correct, TypeOK, CorrectionState
      <4>2. \A k \in Markets \ {correction[c].market} : row'.manual[k] = row.manual[k]
        BY <3>1, Correction DEF WriteCorrection, Update
      <4> QED
        BY <4>1, <4>2
    <3> QED
      BY <2>3, <3>1 DEF ReadPrediction
  <2>4. CASE WriteResult
    BY <2>4 DEF WriteResult
  <2> QED
    BY <2>1, <2>2, <2>3, <2>4 DEF Next
<1>2. [][Given]_vars => ManualKept
  BY DEF ManualKept
<1> QED
  BY <1>1, <1>2, Invariance, PTL DEF Spec
=============================================================================
