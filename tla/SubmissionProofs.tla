-------------------------- MODULE SubmissionProofs --------------------------
(***************************************************************************)
(* Theorems about Submission, for any number of submissions, pupils and    *)
(* exercises and any values of the rules' parameters.                      *)
(*                                                                         *)
(* In any number of processes: attempt numbers have no gap, and the lock   *)
(* on a user_points row keeps total_points equal to the sum of the ledger. *)
(* In a single API process: the submissions implement CorrectionPolicy,    *)
(* and an exercise closes only after its full correction.                  *)
(***************************************************************************)
EXTENDS SubmissionRefinement, FiniteSetTheorems, TLAPS

-----------------------------------------------------------------------------
(* What the operators return *)

LEMMA PupilOfRequest ==
    ASSUME TypeOK, NEW s \in Submissions
    PROVE  request[s].pupil \in Pupils
  BY SubmissionAssumption DEF TypeOK

LEMMA PointsType ==
    ASSUME NEW n \in Nat, NEW v \in BOOLEAN
    PROVE  PointsFor(n, v) \in Nat
  BY RulesAssumption DEF PointsFor, bonus_points

LEMMA LevelType ==
    ASSUME NEW n \in Nat
    PROVE  get_level(n) \in Levels
  BY RulesAssumption DEF get_level, Levels

LEMMA CorrectionLevelType ==
    ASSUME NEW n \in Nat, NEW v \in BOOLEAN
    PROVE  next_correction_level(n, v) \in CorrectionLevels
  BY DEF next_correction_level, CorrectionLevels

LEMMA AttemptNumbersType ==
    ASSUME TypeOK, NEW s \in Submissions
    PROVE  AttemptNumbers(s) \subseteq Nat
  BY DEF TypeOK, AttemptNumbers, Siblings, AttemptRow

\* The next number is one more than a number there is, and above all of them.
LEMMA NextNumber ==
    ASSUME TypeOK, NEW s \in Submissions, NEW n \in next_attempt_number(s)
    PROVE  /\ n \in Nat \ {0}
           /\ n - 1 \in AttemptNumbers(s)
           /\ \A k \in AttemptNumbers(s) : k < n
  BY AttemptNumbersType DEF next_attempt_number

-----------------------------------------------------------------------------
(* Type correctness *)

LEMMA TypeInit == Init => TypeOK
  BY SubmissionAssumption
     DEF Init, TypeOK, Places, NoRow, NoEntry, AttemptRow, LedgerRow

LEMMA TypeStep == TypeOK /\ [Next]_vars => TypeOK'
<1> SUFFICES ASSUME TypeOK, [Next]_vars PROVE TypeOK'
  OBVIOUS
<1> USE DEF Goto, Places, Final, InHandler, attemptVars, rewardVars
<1>1. ASSUME NEW s \in Submissions, Grading(s) PROVE TypeOK'
  <2>1. CASE GraderRefuses(s)
    BY <2>1 DEF GraderRefuses, TypeOK
  <2>2. CASE Grade(s)
    BY <2>2, NextNumber DEF Grade, TypeOK
  <2>3. CASE StoreGrade(s)
    BY <2>3 DEF StoreGrade, TypeOK, AttemptRow
  <2> QED BY <1>1, <2>1, <2>2, <2>3 DEF Grading
<1>2. ASSUME NEW s \in Submissions, Correcting(s) PROVE TypeOK'
  <2>1. CASE EvaluateRefuses(s)
    BY <2>1 DEF EvaluateRefuses, TypeOK
  <2>2. CASE EvaluateCloses(s)
    BY <2>2 DEF EvaluateCloses, TypeOK
  <2>3. CASE Evaluate(s)
    BY <2>3, NextNumber DEF Evaluate, TypeOK
  <2>4. CASE Correct(s)
    <3>1. next_correction_level(number[s], verdict[s]) \in CorrectionLevels
      BY CorrectionLevelType DEF TypeOK
    <3> QED BY <2>4, <3>1 DEF Correct, TypeOK, AttemptRow
  <2> QED BY <1>2, <2>1, <2>2, <2>3, <2>4 DEF Correcting
<1>3. ASSUME NEW s \in Submissions, Rewarding(s) PROVE TypeOK'
  <2>1. CASE FindPoints(s)
    BY <2>1, PupilOfRequest DEF FindPoints, TypeOK
  <2>2. CASE MissPoints(s)
    BY <2>2 DEF MissPoints, TypeOK
  <2>3. CASE OpenPoints(s)
    BY <2>3 DEF OpenPoints, TypeOK
  <2>4. CASE OpenPointsCollides(s)
    BY <2>4 DEF OpenPointsCollides, TypeOK
  <2>5. CASE Credit(s)
    <3>1. PointsFor(number[s], verdict[s]) \in Nat
      BY PointsType DEF TypeOK
    <3> QED BY <2>5, <3>1, PupilOfRequest DEF Credit, TypeOK, LedgerRow
  <2>6. CASE ShowLevel(s)
    BY <2>6, PupilOfRequest, LevelType DEF ShowLevel, TypeOK
  <2>7. CASE HandBack(s)
    BY <2>7 DEF HandBack, TypeOK
  <2>8. CASE Close(s)
    BY <2>8 DEF Close, TypeOK
  <2> QED BY <1>3, <2>1, <2>2, <2>3, <2>4, <2>5, <2>6, <2>7, <2>8 DEF Rewarding
<1>4. ASSUME NEW s \in Submissions, Fail(s) PROVE TypeOK'
  BY <1>4 DEF Fail, TypeOK
<1>5. CASE UNCHANGED vars
  BY <1>5 DEF vars, TypeOK
<1> QED BY <1>1, <1>2, <1>3, <1>4, <1>5 DEF Next, Step

\* Every variable keeps its type: attempt numbers and totals stay natural
\* numbers, levels stay among the labels of the code.
THEOREM TypeCorrect == Spec => []TypeOK
  BY TypeInit, TypeStep, PTL DEF Spec

-----------------------------------------------------------------------------
(* What a submission has written at each place *)

Unstored == {"grade", "store_grade"}
Uncorrected == Unstored \cup {"evaluate", "correct"}
Unrewarded == {"find_points", "open_points", "credit"}
Credited == {"show_level", "hand_back", "close"}

RowsFollowPlace ==
    \A s \in Submissions :
        /\ pc[s] \in Unstored => graded[s] = NoRow
        /\ pc[s] \in Uncorrected => corrected[s] = NoRow
        /\ pc[s] \in {"correct"} \cup Unrewarded => number[s] \in 1..MaxAttempts
        /\ pc[s] \in Unrewarded => /\ corrected[s].number = number[s]
                                   /\ corrected[s].success = verdict[s]
        /\ pc[s] \in Uncorrected \cup Unrewarded => ledger[s] = NoEntry
        /\ pc[s] \in Credited => ledger[s].number > 0
        /\ pc[s] \in Uncorrected \cup Unrewarded \cup {"show_level"} => reply[s] = "none"

LEMMA RowsInit == Init => RowsFollowPlace
  BY DEF Init, RowsFollowPlace, Unstored, Uncorrected, Unrewarded, Credited

LEMMA RowsStep == TypeOK /\ RowsFollowPlace /\ [Next]_vars => RowsFollowPlace'
<1> SUFFICES ASSUME TypeOK, RowsFollowPlace, [Next]_vars PROVE RowsFollowPlace'
  OBVIOUS
<1> USE DEF Goto, Final, attemptVars, rewardVars,
            Unstored, Uncorrected, Unrewarded, Credited
<1>1. ASSUME NEW s \in Submissions, Grading(s) PROVE RowsFollowPlace'
  <2>1. CASE GraderRefuses(s)
    BY <2>1 DEF GraderRefuses, TypeOK, RowsFollowPlace
  <2>2. CASE Grade(s)
    BY <2>2 DEF Grade, TypeOK, RowsFollowPlace
  <2>3. CASE StoreGrade(s)
    BY <2>3 DEF StoreGrade, TypeOK, RowsFollowPlace
  <2> QED BY <1>1, <2>1, <2>2, <2>3 DEF Grading
<1>2. ASSUME NEW s \in Submissions, Correcting(s) PROVE RowsFollowPlace'
  <2>1. CASE EvaluateRefuses(s)
    BY <2>1 DEF EvaluateRefuses, TypeOK, RowsFollowPlace
  <2>2. CASE EvaluateCloses(s)
    BY <2>2 DEF EvaluateCloses, TypeOK, RowsFollowPlace
  <2>3. CASE Evaluate(s)
    <3>1. /\ pc[s] = "evaluate"
          /\ pc' = [pc EXCEPT ![s] = "correct"]
          /\ UNCHANGED <<graded, corrected, ledger, reply>>
      BY <2>3 DEF Evaluate
    <3>2. PICK n \in next_attempt_number(s) :
             n <= MaxAttempts /\ number' = [number EXCEPT ![s] = n]
      BY <2>3 DEF Evaluate
    <3>3. n \in 1..MaxAttempts
      BY <3>2, NextNumber, RulesAssumption
    <3>4. PICK v \in BOOLEAN : verdict' = [verdict EXCEPT ![s] = v]
      BY <2>3 DEF Evaluate
    <3> QED BY <3>1, <3>2, <3>3, <3>4 DEF TypeOK, RowsFollowPlace
  <2>4. CASE Correct(s)
    BY <2>4 DEF Correct, TypeOK, RowsFollowPlace
  <2> QED BY <1>2, <2>1, <2>2, <2>3, <2>4 DEF Correcting
<1>3. ASSUME NEW s \in Submissions, Rewarding(s) PROVE RowsFollowPlace'
  <2>1. CASE FindPoints(s)
    BY <2>1 DEF FindPoints, TypeOK, RowsFollowPlace
  <2>2. CASE MissPoints(s)
    BY <2>2 DEF MissPoints, TypeOK, RowsFollowPlace
  <2>3. CASE OpenPoints(s)
    BY <2>3 DEF OpenPoints, TypeOK, RowsFollowPlace
  <2>4. CASE OpenPointsCollides(s)
    BY <2>4 DEF OpenPointsCollides, TypeOK, RowsFollowPlace
  <2>5. CASE Credit(s)
    BY <2>5 DEF Credit, TypeOK, RowsFollowPlace
  <2>6. CASE ShowLevel(s)
    BY <2>6 DEF ShowLevel, TypeOK, RowsFollowPlace
  <2>7. CASE HandBack(s)
    BY <2>7 DEF HandBack, TypeOK, RowsFollowPlace
  <2>8. CASE Close(s)
    BY <2>8 DEF Close, TypeOK, RowsFollowPlace
  <2> QED BY <1>3, <2>1, <2>2, <2>3, <2>4, <2>5, <2>6, <2>7, <2>8 DEF Rewarding
<1>4. ASSUME NEW s \in Submissions, Fail(s) PROVE RowsFollowPlace'
  BY <1>4 DEF Fail, TypeOK, RowsFollowPlace
<1>5. CASE UNCHANGED vars
  BY <1>5 DEF vars, RowsFollowPlace
<1> QED BY <1>1, <1>2, <1>3, <1>4, <1>5 DEF Next, Step

LEMMA RowsCorrect == Spec => [](TypeOK /\ RowsFollowPlace)
  BY TypeInit, TypeStep, RowsInit, RowsStep, PTL DEF Spec

-----------------------------------------------------------------------------
(* Attempt numbers have no gap *)

\* A number that was read and is not stored yet still follows a stored one.
PendingNumberFollows ==
    \A s \in Submissions :
        pc[s] \in {"store_grade", "correct"} =>
            /\ number[s] > 0
            /\ number[s] - 1 \in AttemptNumbers(s) \cup {0}

NumbersInv == NumbersWithoutGaps /\ PendingNumberFollows

LEMMA SiblingsShareNumbers ==
    ASSUME NEW s \in Submissions, NEW u \in Submissions, s \in Siblings(u)
    PROVE  AttemptNumbers(s) = AttemptNumbers(u)
  BY DEF Siblings, AttemptNumbers

\* A step that writes no attempt leaves the numbers as they are.
LEMMA NumbersKept ==
    ASSUME UNCHANGED <<request, graded, corrected>>, NEW u \in Submissions
    PROVE  AttemptNumbers(u)' = AttemptNumbers(u)
  BY DEF AttemptNumbers, Siblings

\* A step of s that stores number[s] in a row that did not exist.
LEMMA NumberStored ==
    ASSUME TypeOK, NEW s \in Submissions,
           UNCHANGED request,
           NEW row \in AttemptRow, row.number = number[s],
           \/ /\ graded[s] = NoRow
              /\ graded' = [graded EXCEPT ![s] = row]
              /\ UNCHANGED corrected
           \/ /\ corrected[s] = NoRow
              /\ corrected' = [corrected EXCEPT ![s] = row]
              /\ UNCHANGED graded,
           NEW u \in Submissions
    PROVE  /\ AttemptNumbers(u) \ {0} \subseteq AttemptNumbers(u)'
           /\ AttemptNumbers(u)' \subseteq
                AttemptNumbers(u) \cup (IF s \in Siblings(u) THEN {number[s]} ELSE {})
<1>1. Siblings(u)' = Siblings(u)
  BY DEF Siblings
<1>2. graded \in [Submissions -> AttemptRow] /\ corrected \in [Submissions -> AttemptRow]
  BY DEF TypeOK
<1>3. CASE graded[s] = NoRow /\ graded' = [graded EXCEPT ![s] = row] /\ corrected' = corrected
  BY <1>1, <1>2, <1>3 DEF AttemptNumbers, NoRow, Siblings
<1>4. CASE corrected[s] = NoRow /\ corrected' = [corrected EXCEPT ![s] = row] /\ graded' = graded
  BY <1>1, <1>2, <1>4 DEF AttemptNumbers, NoRow, Siblings
<1> QED BY <1>3, <1>4

LEMMA StoringKeepsNumbers ==
    ASSUME TypeOK, NumbersInv, NEW s \in Submissions,
           pc[s] \in {"store_grade", "correct"},
           UNCHANGED <<request, number>>,
           NEW place, place \notin {"store_grade", "correct"},
           pc' = [pc EXCEPT ![s] = place],
           NEW row \in AttemptRow, row.number = number[s],
           \/ /\ graded[s] = NoRow
              /\ graded' = [graded EXCEPT ![s] = row]
              /\ UNCHANGED corrected
           \/ /\ corrected[s] = NoRow
              /\ corrected' = [corrected EXCEPT ![s] = row]
              /\ UNCHANGED graded
    PROVE  NumbersInv'
<1>1. \A u \in Submissions :
         /\ AttemptNumbers(u) \ {0} \subseteq AttemptNumbers(u)'
         /\ AttemptNumbers(u)' \subseteq
              AttemptNumbers(u) \cup (IF s \in Siblings(u) THEN {number[s]} ELSE {})
  BY NumberStored
<1>2. number[s] > 0 /\ number[s] - 1 \in AttemptNumbers(s) \cup {0}
  BY DEF NumbersInv, PendingNumberFollows
<1>3. ASSUME NEW u \in Submissions, NEW n \in AttemptNumbers(u)', n > 1
      PROVE  n - 1 \in AttemptNumbers(u)'
  <2>1. CASE n \in AttemptNumbers(u)
    <3>1. n \in Nat
      BY <2>1, AttemptNumbersType
    <3>2. n - 1 \in AttemptNumbers(u)
      BY <2>1, <1>3 DEF NumbersInv, NumbersWithoutGaps
    <3> QED BY <1>1, <1>3, <3>1, <3>2
  <2>2. CASE n = number[s] /\ s \in Siblings(u)
    <3>1. n \in Nat
      BY <2>2 DEF TypeOK
    <3>2. n - 1 \in AttemptNumbers(u)
      BY <1>2, <1>3, <2>2, <3>1, SiblingsShareNumbers
    <3> QED BY <1>1, <1>3, <3>1, <3>2
  <2> QED BY <1>1, <2>1, <2>2
<1>4. NumbersWithoutGaps'
  BY <1>3 DEF NumbersWithoutGaps
<1>5. PendingNumberFollows'
  BY <1>1 DEF NumbersInv, PendingNumberFollows, TypeOK
<1> QED BY <1>4, <1>5 DEF NumbersInv

LEMMA NumbersInit == Init => NumbersInv
<1> SUFFICES ASSUME Init PROVE NumbersInv
  OBVIOUS
<1>1. \A s \in Submissions : AttemptNumbers(s) \subseteq {0}
  BY DEF Init, AttemptNumbers, Siblings, NoRow
<1>2. \A s \in Submissions : pc[s] \notin {"store_grade", "correct"}
  BY DEF Init
<1> QED BY <1>1, <1>2 DEF NumbersInv, NumbersWithoutGaps, PendingNumberFollows

LEMMA NumbersStep ==
    TypeOK /\ RowsFollowPlace /\ NumbersInv /\ [Next]_vars => NumbersInv'
<1> SUFFICES ASSUME TypeOK, RowsFollowPlace, NumbersInv, [Next]_vars PROVE NumbersInv'
  OBVIOUS
<1> USE DEF Goto, attemptVars, rewardVars
<1>1. ASSUME UNCHANGED <<request, graded, corrected, number>>,
             NEW s \in Submissions, NEW place,
             place \notin {"store_grade", "correct"},
             pc' = [pc EXCEPT ![s] = place]
      PROVE  NumbersInv'
  <2>1. \A u \in Submissions : AttemptNumbers(u)' = AttemptNumbers(u)
    BY <1>1, NumbersKept
  <2> QED BY <1>1, <2>1
          DEF NumbersInv, NumbersWithoutGaps, PendingNumberFollows, TypeOK
<1>2. ASSUME NEW s \in Submissions, Grading(s) PROVE NumbersInv'
  <2>1. CASE GraderRefuses(s)
    BY <2>1, <1>1 DEF GraderRefuses
  <2>2. CASE Grade(s)
    BY <2>2, NextNumber, NumbersKept
       DEF Grade, NumbersInv, NumbersWithoutGaps, PendingNumberFollows, TypeOK
  <2>3. CASE StoreGrade(s)
    <3> DEFINE row == [number |-> number[s], success |-> verdict[s], level |-> "none"]
    <3>1. row \in AttemptRow /\ row.number = number[s]
      BY DEF TypeOK, AttemptRow
    <3>2. graded[s] = NoRow
      BY <2>3 DEF StoreGrade, RowsFollowPlace, Unstored
    <3> QED BY <2>3, <3>1, <3>2, StoringKeepsNumbers DEF StoreGrade
  <2> QED BY <1>2, <2>1, <2>2, <2>3 DEF Grading
<1>3. ASSUME NEW s \in Submissions, Correcting(s) PROVE NumbersInv'
  <2>1. CASE EvaluateRefuses(s)
    BY <2>1, <1>1 DEF EvaluateRefuses
  <2>2. CASE EvaluateCloses(s)
    BY <2>2, <1>1 DEF EvaluateCloses
  <2>3. CASE Evaluate(s)
    BY <2>3, NextNumber, NumbersKept
       DEF Evaluate, NumbersInv, NumbersWithoutGaps, PendingNumberFollows, TypeOK
  <2>4. CASE Correct(s)
    <3> DEFINE row == [number |-> number[s], success |-> verdict[s],
                       level |-> next_correction_level(number[s], verdict[s])]
    <3>1. row \in AttemptRow /\ row.number = number[s]
      BY CorrectionLevelType DEF TypeOK, AttemptRow
    <3>2. corrected[s] = NoRow
      BY <2>4 DEF Correct, RowsFollowPlace, Uncorrected
    <3> HIDE DEF row
    <3>3. /\ pc[s] = "correct"
          /\ corrected' = [corrected EXCEPT ![s] = row]
          /\ UNCHANGED <<request, number, graded>>
      BY <2>4 DEF Correct, row
    <3>4. PICK place \in {"find_points", "answered"} : pc' = [pc EXCEPT ![s] = place]
      BY <2>4 DEF Correct
    <3> QED BY <3>1, <3>2, <3>3, <3>4, StoringKeepsNumbers
  <2> QED BY <1>3, <2>1, <2>2, <2>3, <2>4 DEF Correcting
<1>4. ASSUME NEW s \in Submissions, Rewarding(s) PROVE NumbersInv'
  BY <1>4, <1>1
     DEF Rewarding, FindPoints, MissPoints, OpenPoints, OpenPointsCollides, Credit,
         ShowLevel, HandBack, Close
<1>5. ASSUME NEW s \in Submissions, Fail(s) PROVE NumbersInv'
  BY <1>5, <1>1 DEF Fail
<1>6. CASE UNCHANGED vars
  BY <1>6, NumbersKept
     DEF vars, NumbersInv, NumbersWithoutGaps, PendingNumberFollows
<1> QED BY <1>2, <1>3, <1>4, <1>5, <1>6 DEF Next, Step

\* However graders, corrections and failures interleave, below a stored
\* attempt number n > 1 there is a stored n - 1 (_next_attempt_number).
THEOREM NumbersNeverGap == Spec => []NumbersWithoutGaps
<1>1. Init => TypeOK /\ RowsFollowPlace /\ NumbersInv
  BY TypeInit, RowsInit, NumbersInit
<1>2. TypeOK /\ RowsFollowPlace /\ NumbersInv /\ [Next]_vars
        => (TypeOK /\ RowsFollowPlace /\ NumbersInv)'
  BY TypeStep, RowsStep, NumbersStep
<1>3. NumbersInv => NumbersWithoutGaps
  BY DEF NumbersInv
<1> QED BY <1>1, <1>2, <1>3, PTL DEF Spec

-----------------------------------------------------------------------------
(* The lock *)

\* One submission at a time has the row of a pupil; the one about to commit
\* holds it, and the total it read is still the current one.
LockInv ==
    /\ \A s \in holders : pc[s] \in {"credit", "hand_back", "close"}
    /\ \A s, t \in holders : request[s].pupil = request[t].pupil => s = t
    /\ \A s \in Submissions :
          pc[s] = "credit" => s \in holders /\ seen[s] = total[request[s].pupil]
    /\ \A p \in Pupils : p \notin opened => total[p] = 0

LEMMA LockInit == Init => LockInv
  BY DEF Init, LockInv

LEMMA LockStep == TypeOK /\ LockInv /\ [Next]_vars => LockInv'
<1> SUFFICES ASSUME TypeOK, LockInv, [Next]_vars PROVE LockInv'
  OBVIOUS
<1> USE DEF Goto, attemptVars, rewardVars
<1>1. ASSUME UNCHANGED <<request, opened, total, holders, seen>>,
             NEW s \in Submissions \ holders, NEW place, place # "credit",
             pc' = [pc EXCEPT ![s] = place]
      PROVE  LockInv'
  BY <1>1 DEF LockInv, TypeOK
<1>2. ASSUME NEW s \in Submissions,
             pc[s] \notin {"credit", "hand_back", "close"}
      PROVE  s \notin holders
  BY <1>2 DEF LockInv
<1>3. ASSUME NEW s \in Submissions, Grading(s) PROVE LockInv'
  BY <1>1, <1>2, <1>3 DEF Grading, GraderRefuses, Grade, StoreGrade
<1>4. ASSUME NEW s \in Submissions, Correcting(s) PROVE LockInv'
  BY <1>1, <1>2, <1>4 DEF Correcting, EvaluateRefuses, EvaluateCloses, Evaluate, Correct
<1>5. ASSUME NEW s \in Submissions, Rewarding(s) PROVE LockInv'
  <2>1. CASE FindPoints(s)
    BY <2>1 DEF FindPoints, LockFree, LockInv, TypeOK
  <2>2. CASE MissPoints(s)
    BY <2>2, <1>1, <1>2 DEF MissPoints
  <2>3. CASE OpenPoints(s)
    BY <2>3, PupilOfRequest DEF OpenPoints, LockFree, LockInv, TypeOK
  <2>4. CASE OpenPointsCollides(s)
    BY <2>4, <1>1, <1>2 DEF OpenPointsCollides
  <2>5. CASE Credit(s)
    <3> DEFINE p == request[s].pupil
    <3>1. s \in holders
      BY <2>5 DEF Credit, LockInv
    <3>2. \A t \in Submissions \ {s} :
             pc[t] = "credit" => t \in holders /\ request[t].pupil # p
      BY <3>1 DEF LockInv
    <3>3. /\ pc' = [pc EXCEPT ![s] = "show_level"]
          /\ holders' = holders \ {s}
          /\ opened' = opened \cup {p}
          /\ UNCHANGED <<request, seen>>
      BY <2>5 DEF Credit
    <3>4. \A q \in Pupils \ {p} : total'[q] = total[q]
      BY <2>5 DEF Credit, TypeOK
    <3>5. \A t \in Submissions : request[t].pupil \in Pupils
      BY PupilOfRequest
    <3> QED BY <3>2, <3>3, <3>4, <3>5 DEF LockInv, TypeOK
  <2>6. CASE ShowLevel(s)
    BY <2>6 DEF ShowLevel, LockFree, LockInv, TypeOK
  <2>7. CASE HandBack(s)
    BY <2>7 DEF HandBack, LockInv, TypeOK
  <2>8. CASE Close(s)
    BY <2>8 DEF Close, LockInv, TypeOK
  <2> QED BY <1>5, <2>1, <2>2, <2>3, <2>4, <2>5, <2>6, <2>7, <2>8 DEF Rewarding
<1>6. ASSUME NEW s \in Submissions, Fail(s) PROVE LockInv'
  BY <1>6 DEF Fail, LockInv, TypeOK
<1>7. CASE UNCHANGED vars
  BY <1>7 DEF vars, LockInv
<1> QED BY <1>3, <1>4, <1>5, <1>6, <1>7 DEF Next, Step

-----------------------------------------------------------------------------
(* The total is the sum of the ledger *)

LEMMA EntriesFinite ==
    ASSUME NEW p
    PROVE  /\ IsFiniteSet(SuccessEntries(p)) /\ Cardinality(SuccessEntries(p)) \in Nat
           /\ IsFiniteSet(FirstTryEntries(p)) /\ Cardinality(FirstTryEntries(p)) \in Nat
  BY SubmissionAssumption, FS_Subset, FS_CardinalityType
     DEF SuccessEntries, FirstTryEntries

LEMMA OneMore ==
    ASSUME NEW b \in Nat, NEW c \in Nat
    PROVE  b * (c + 1) = b * c + b
  OBVIOUS

\* The commit of a reward adds one row to the ledger, and its points to the
\* total of one pupil.
LEMMA CreditKeepsTotal ==
    ASSUME TypeOK, RowsFollowPlace, LockInv, TotalMatchesLedger,
           NEW s \in Submissions, Credit(s)
    PROVE  TotalMatchesLedger'
<1>0. PICK p \in Pupils : p = request[s].pupil
  BY PupilOfRequest
<1> DEFINE awarded == PointsFor(number[s], verdict[s])
           row == [number |-> number[s], success |-> verdict[s], points |-> awarded]
<1>1. /\ ledger' = [ledger EXCEPT ![s] = row]
      /\ total' = [total EXCEPT ![p] = seen[s] + awarded]
      /\ UNCHANGED request
      /\ pc[s] = "credit"
  BY <1>0 DEF Credit
<1>2. /\ ledger[s] = NoEntry
      /\ number[s] \in 1..MaxAttempts
      /\ seen[s] = total[p]
  BY <1>0, <1>1 DEF RowsFollowPlace, LockInv, Unrewarded
<1>3. total[p] \in Nat /\ verdict[s] \in BOOLEAN
  BY DEF TypeOK
<1>4. awarded = (IF verdict[s] THEN BasePoints ELSE 0)
                  + (IF verdict[s] /\ number[s] = 1 THEN FirstTryBonus ELSE 0)
  BY <1>2, RulesAssumption DEF PointsFor, bonus_points
<1> HIDE DEF awarded
<1>6. ASSUME NEW q \in Pupils, q # p
      PROVE  total'[q] = BasePoints * Cardinality(SuccessEntries(q)')
                           + FirstTryBonus * Cardinality(FirstTryEntries(q)')
  <2>1. SuccessEntries(q)' = SuccessEntries(q)
    BY <1>0, <1>1, <1>6 DEF SuccessEntries, TypeOK
  <2>2. FirstTryEntries(q)' = FirstTryEntries(q)
    BY <1>0, <1>1, <1>6, <2>1 DEF FirstTryEntries, SuccessEntries, TypeOK
  <2>3. total'[q] = total[q]
    BY <1>1, <1>6 DEF TypeOK
  <2> QED BY <2>1, <2>2, <2>3 DEF TotalMatchesLedger
<1>7. total'[p] = BasePoints * Cardinality(SuccessEntries(p)')
                    + FirstTryBonus * Cardinality(FirstTryEntries(p)')
  <2>1. s \notin SuccessEntries(p) /\ s \notin FirstTryEntries(p)
    BY <1>2 DEF SuccessEntries, FirstTryEntries, NoEntry
  <2>2. SuccessEntries(p)' = IF verdict[s] THEN SuccessEntries(p) \cup {s}
                                           ELSE SuccessEntries(p)
    BY <1>0, <1>1, <1>3, <2>1 DEF SuccessEntries, TypeOK
  <2>3. FirstTryEntries(p)' = IF verdict[s] /\ number[s] = 1
                              THEN FirstTryEntries(p) \cup {s}
                              ELSE FirstTryEntries(p)
    BY <1>0, <1>1, <1>3, <2>1, <2>2 DEF FirstTryEntries, SuccessEntries, TypeOK
  <2>4. total'[p] = total[p] + awarded
    BY <1>1, <1>2, <1>3 DEF TypeOK
  <2>5. total[p] = BasePoints * Cardinality(SuccessEntries(p))
                     + FirstTryBonus * Cardinality(FirstTryEntries(p))
    BY <1>3 DEF TotalMatchesLedger
  <2>6. CASE ~verdict[s]
    BY <1>3, <1>4, <2>2, <2>3, <2>4, <2>5, <2>6
  <2>7. CASE verdict[s] /\ number[s] # 1
    <3>1. Cardinality(SuccessEntries(p)') = Cardinality(SuccessEntries(p)) + 1
      BY <2>1, <2>2, <2>7, EntriesFinite, FS_AddElement
    <3>2. BasePoints * (Cardinality(SuccessEntries(p)) + 1)
            = BasePoints * Cardinality(SuccessEntries(p)) + BasePoints
      BY OneMore, EntriesFinite, RulesAssumption
    <3>3. FirstTryEntries(p)' = FirstTryEntries(p)
      BY <2>3, <2>7
    <3> DEFINE a == BasePoints * Cardinality(SuccessEntries(p))
               b == FirstTryBonus * Cardinality(FirstTryEntries(p))
    <3>4. a \in Nat /\ b \in Nat
      BY EntriesFinite, RulesAssumption
    <3>5. total'[p] = (a + b) + BasePoints
      BY <1>4, <2>4, <2>5, <2>7, RulesAssumption
    <3>6. BasePoints * Cardinality(SuccessEntries(p)') = a + BasePoints
      BY <3>1, <3>2
    <3>7. FirstTryBonus * Cardinality(FirstTryEntries(p)') = b
      BY <3>3
    <3> HIDE DEF a, b
    <3> QED BY <3>4, <3>5, <3>6, <3>7, RulesAssumption
  <2>8. CASE verdict[s] /\ number[s] = 1
    <3>1. /\ Cardinality(SuccessEntries(p)') = Cardinality(SuccessEntries(p)) + 1
          /\ Cardinality(FirstTryEntries(p)') = Cardinality(FirstTryEntries(p)) + 1
      BY <2>1, <2>2, <2>3, <2>8, EntriesFinite, FS_AddElement
    <3>2. /\ BasePoints * (Cardinality(SuccessEntries(p)) + 1)
               = BasePoints * Cardinality(SuccessEntries(p)) + BasePoints
          /\ FirstTryBonus * (Cardinality(FirstTryEntries(p)) + 1)
               = FirstTryBonus * Cardinality(FirstTryEntries(p)) + FirstTryBonus
      BY OneMore, EntriesFinite, RulesAssumption
    <3> DEFINE a == BasePoints * Cardinality(SuccessEntries(p))
               b == FirstTryBonus * Cardinality(FirstTryEntries(p))
    <3>4. a \in Nat /\ b \in Nat
      BY EntriesFinite, RulesAssumption
    <3>5. total'[p] = (a + b) + (BasePoints + FirstTryBonus)
      BY <1>4, <2>4, <2>5, <2>8
    <3>6. BasePoints * Cardinality(SuccessEntries(p)') = a + BasePoints
      BY <3>1, <3>2
    <3>7. FirstTryBonus * Cardinality(FirstTryEntries(p)') = b + FirstTryBonus
      BY <3>1, <3>2
    <3> HIDE DEF a, b
    <3> QED BY <3>4, <3>5, <3>6, <3>7, RulesAssumption
  <2> QED BY <1>3, <2>6, <2>7, <2>8
<1>8. \A q \in Pupils :
         total'[q] = BasePoints * Cardinality(SuccessEntries(q)')
                       + FirstTryBonus * Cardinality(FirstTryEntries(q)')
  BY <1>6, <1>7
<1> QED BY <1>8 DEF TotalMatchesLedger

LEMMA TotalKept ==
    ASSUME TotalMatchesLedger, UNCHANGED <<request, total, ledger>>
    PROVE  TotalMatchesLedger'
<1>1. ASSUME NEW p \in Pupils
      PROVE  SuccessEntries(p)' = SuccessEntries(p) /\ FirstTryEntries(p)' = FirstTryEntries(p)
  BY DEF SuccessEntries, FirstTryEntries
<1> QED BY <1>1 DEF TotalMatchesLedger

LEMMA TotalInit == Init => TotalMatchesLedger
<1> SUFFICES ASSUME Init, NEW p \in Pupils
             PROVE  total[p] = BasePoints * Cardinality(SuccessEntries(p))
                                 + FirstTryBonus * Cardinality(FirstTryEntries(p))
  BY DEF TotalMatchesLedger
<1>1. SuccessEntries(p) = {} /\ FirstTryEntries(p) = {}
  BY DEF Init, SuccessEntries, FirstTryEntries, NoEntry
<1>2. total[p] = 0
  BY DEF Init
<1>3. BasePoints * 0 = 0 /\ FirstTryBonus * 0 = 0
  BY RulesAssumption
<1> QED BY <1>1, <1>2, <1>3, FS_EmptySet

\* The actions that touch neither a total nor the ledger.
LEMMA OnlyCreditPays ==
    ASSUME [Next]_vars
    PROVE  \/ \E s \in Submissions : Credit(s)
           \/ UNCHANGED <<request, total, ledger, notified>>
  BY DEF Next, Step, Grading, GraderRefuses, Grade, StoreGrade, Correcting,
         EvaluateRefuses, EvaluateCloses, Evaluate, Correct, Rewarding, FindPoints,
         MissPoints, OpenPoints, OpenPointsCollides, ShowLevel, HandBack, Close, Fail,
         vars, rewardVars, attemptVars

LEMMA TotalStep ==
    TypeOK /\ RowsFollowPlace /\ LockInv /\ TotalMatchesLedger /\ [Next]_vars
      => TotalMatchesLedger'
  BY OnlyCreditPays, CreditKeepsTotal, TotalKept

RewardInv == TypeOK /\ RowsFollowPlace /\ LockInv /\ TotalMatchesLedger

LEMMA RewardInvariant == Spec => []RewardInv
<1>1. Init => RewardInv
  BY TypeInit, RowsInit, LockInit, TotalInit DEF RewardInv
<1>2. RewardInv /\ [Next]_vars => RewardInv'
  BY TypeStep, RowsStep, LockStep, TotalStep DEF RewardInv
<1> QED BY <1>1, <1>2, PTL DEF Spec

\* The total of a pupil is what the rows of the ledger add up to, whatever
\* processes award points at the same time and whichever of them fail
\* (award_points, SELECT ... FOR UPDATE).
THEOREM TotalIsSumOfLedger == Spec => []TotalMatchesLedger
<1>1. RewardInv => TotalMatchesLedger
  BY DEF RewardInv
<1> QED BY <1>1, RewardInvariant, PTL

-----------------------------------------------------------------------------
(* Attempts, ledger and notifications agree *)

LEMMA LedgerStep ==
    RewardInv /\ LedgerMatchesAttempts /\ [Next]_vars => LedgerMatchesAttempts'
<1> SUFFICES ASSUME RewardInv, LedgerMatchesAttempts, [Next]_vars
             PROVE  LedgerMatchesAttempts'
  OBVIOUS
<1> USE DEF Goto, attemptVars, rewardVars
<1>1. TypeOK /\ RowsFollowPlace
  BY DEF RewardInv
<1>2. ASSUME UNCHANGED <<corrected, ledger, notified, reply>>
      PROVE  LedgerMatchesAttempts'
  BY <1>2 DEF LedgerMatchesAttempts
<1>3. ASSUME NEW s \in Submissions, Correct(s) PROVE LedgerMatchesAttempts'
  BY <1>1, <1>3
     DEF Correct, LedgerMatchesAttempts, RowsFollowPlace, Uncorrected, NoEntry, TypeOK
<1>4. ASSUME NEW s \in Submissions, Credit(s) PROVE LedgerMatchesAttempts'
  <2> DEFINE awarded == PointsFor(number[s], verdict[s])
  <2>1. awarded \in Nat
    BY <1>1, PointsType DEF TypeOK
  <2>2. /\ number[s] = corrected[s].number
        /\ verdict[s] = corrected[s].success
        /\ number[s] > 0
        /\ ledger[s] = NoEntry
    BY <1>1, <1>4 DEF Credit, RowsFollowPlace, Unrewarded
  <2>3. s \notin notified
    BY <2>2 DEF LedgerMatchesAttempts, NoEntry
  <2> HIDE DEF awarded
  <2>4. /\ ledger' = [ledger EXCEPT ![s] = [number |-> number[s], success |-> verdict[s],
                                            points |-> awarded]]
        /\ notified' = IF awarded > 0 THEN notified \cup {s} ELSE notified
        /\ UNCHANGED <<corrected, reply>>
    BY <1>4 DEF Credit, awarded
  <2> QED BY <1>1, <2>1, <2>2, <2>3, <2>4 DEF LedgerMatchesAttempts, TypeOK
<1>5. ASSUME NEW s \in Submissions, ShowLevel(s) PROVE LedgerMatchesAttempts'
  BY <1>1, <1>5
     DEF ShowLevel, LedgerMatchesAttempts, RowsFollowPlace, Credited, TypeOK
<1>6. \/ UNCHANGED <<corrected, ledger, notified, reply>>
      \/ \E s \in Submissions : Correct(s) \/ Credit(s) \/ ShowLevel(s)
  BY DEF Next, Step, Grading, GraderRefuses, Grade, StoreGrade, Correcting,
         EvaluateRefuses, EvaluateCloses, Evaluate, Rewarding, FindPoints,
         MissPoints, OpenPoints, OpenPointsCollides, HandBack, Close, Fail, vars
<1> QED BY <1>2, <1>3, <1>4, <1>5, <1>6

\* A ledger row repeats a committed attempt, a level is told only for a
\* rewarded one, and notifications are exactly the rows that bring points,
\* although two transactions and two reads apart write them.
THEOREM LedgerFollowsAttempts == Spec => []LedgerMatchesAttempts
<1>1. Init => LedgerMatchesAttempts
  BY DEF Init, LedgerMatchesAttempts, NoEntry
<1> QED BY <1>1, LedgerStep, RewardInvariant, PTL DEF Spec

-----------------------------------------------------------------------------
(* Nothing is taken back *)

LEMMA TotalGrows ==
    ASSUME RewardInv, [Next]_vars, NEW p \in Pupils
    PROVE  total'[p] >= total[p]
<1>1. TypeOK /\ LockInv
  BY DEF RewardInv
<1>2. CASE UNCHANGED total
  BY <1>1, <1>2 DEF TypeOK
<1>3. ASSUME NEW s \in Submissions, Credit(s) PROVE total'[p] >= total[p]
  <2> DEFINE awarded == PointsFor(number[s], verdict[s])
  <2>1. awarded \in Nat
    BY <1>1, PointsType DEF TypeOK
  <2> HIDE DEF awarded
  <2>2. total' = [total EXCEPT ![request[s].pupil] = total[request[s].pupil] + awarded]
    BY <1>1, <1>3 DEF Credit, LockInv, awarded
  <2> QED BY <1>1, <2>1, <2>2 DEF TypeOK
<1> QED BY <1>2, <1>3, OnlyCreditPays

\* Levels are ordered as totals are: get_level is monotonic, and its three
\* ranges leave no gap between them.
LEMMA LevelMonotonic ==
    ASSUME NEW m \in Nat, NEW n \in Nat, m <= n
    PROVE  LevelRank(get_level(m)) <= LevelRank(get_level(n))
  BY RulesAssumption DEF get_level, LevelRank

LEMMA LevelStep == RewardInv /\ LevelNeverLost /\ [Next]_vars => LevelNeverLost'
<1> SUFFICES ASSUME RewardInv, LevelNeverLost, [Next]_vars, NEW s \in Submissions
             PROVE  LevelRank(reply'[s]) <= LevelRank(get_level(total'[request'[s].pupil]))
  BY DEF LevelNeverLost
<1> DEFINE before == total[request[s].pupil]
           after == total'[request[s].pupil]
<1>1. TypeOK /\ TypeOK'
  BY TypeStep DEF RewardInv
<1>2. request' = request
  BY DEF Next, Step, Grading, GraderRefuses, Grade, StoreGrade, Correcting,
         EvaluateRefuses, EvaluateCloses, Evaluate, Correct, Rewarding, FindPoints,
         MissPoints, OpenPoints, OpenPointsCollides, Credit, ShowLevel, HandBack, Close,
         Fail, vars
<1>3. before \in Nat /\ after \in Nat /\ before <= after
  BY <1>1, <1>2, PupilOfRequest, TotalGrows DEF TypeOK
<1>4. LevelRank(get_level(before)) <= LevelRank(get_level(after))
  BY <1>3, LevelMonotonic
<1>5. CASE reply'[s] = reply[s]
  BY <1>2, <1>3, <1>4, <1>5, LevelType DEF LevelNeverLost, LevelRank, Levels
<1>6. CASE ShowLevel(s)
  <2>1. reply'[s] = get_level(before) /\ after = before
    BY <1>1, <1>6 DEF ShowLevel, TypeOK
  <2> QED BY <1>2, <1>3, <2>1, LevelType DEF LevelRank, Levels
<1>7. \/ reply'[s] = reply[s]
      \/ ShowLevel(s)
  <2>1. reply' = reply \/ \E t \in Submissions : ShowLevel(t)
    BY DEF Next, Step, Grading, GraderRefuses, Grade, StoreGrade, Correcting,
           EvaluateRefuses, EvaluateCloses, Evaluate, Correct, Rewarding, FindPoints,
           MissPoints, OpenPoints, OpenPointsCollides, Credit, HandBack, Close, Fail, vars
  <2>2. ASSUME NEW t \in Submissions \ {s}, ShowLevel(t) PROVE reply'[s] = reply[s]
    BY <1>1, <2>2 DEF ShowLevel, TypeOK
  <2> QED BY <2>1, <2>2
<1> QED BY <1>5, <1>6, <1>7

\* The level told in a reply still stands for no more than the current total,
\* although the reply reads a total that others may be adding to.
THEOREM LevelIsKept == Spec => []LevelNeverLost
<1>1. Init => LevelNeverLost
  <2> SUFFICES ASSUME Init, NEW s \in Submissions
               PROVE  LevelRank(reply[s]) <= LevelRank(get_level(total[request[s].pupil]))
    BY DEF LevelNeverLost
  <2>1. total[request[s].pupil] \in Nat
    BY TypeInit, PupilOfRequest DEF TypeOK
  <2> QED BY <2>1, LevelType DEF Init, LevelRank, Levels
<1> QED BY <1>1, LevelStep, RewardInvariant, PTL DEF Spec

LEMMA AppendStep ==
    ASSUME RewardInv, [Next]_vars, NEW s \in Submissions
    PROVE  /\ graded[s].number > 0 => graded'[s] = graded[s]
           /\ corrected[s].number > 0 => corrected'[s] = corrected[s]
           /\ ledger[s].number > 0 => ledger'[s] = ledger[s]
           /\ total'[request[s].pupil] >= total[request[s].pupil]
<1>1. TypeOK /\ RowsFollowPlace
  BY DEF RewardInv
<1>2. total'[request[s].pupil] >= total[request[s].pupil]
  BY <1>1, PupilOfRequest, TotalGrows
<1>3. ASSUME NEW t \in Submissions, StoreGrade(t)
      PROVE  /\ graded[s].number > 0 => graded'[s] = graded[s]
             /\ UNCHANGED <<corrected, ledger>>
  BY <1>1, <1>3
     DEF StoreGrade, RowsFollowPlace, Unstored, NoRow, TypeOK, rewardVars
<1>4. ASSUME NEW t \in Submissions, Correct(t)
      PROVE  /\ corrected[s].number > 0 => corrected'[s] = corrected[s]
             /\ UNCHANGED <<graded, ledger>>
  BY <1>1, <1>4
     DEF Correct, RowsFollowPlace, Uncorrected, NoRow, TypeOK, rewardVars
<1>5. ASSUME NEW t \in Submissions, Credit(t)
      PROVE  /\ ledger[s].number > 0 => ledger'[s] = ledger[s]
             /\ UNCHANGED <<graded, corrected>>
  BY <1>1, <1>5
     DEF Credit, RowsFollowPlace, Unrewarded, NoEntry, TypeOK, attemptVars
<1>6. \/ \E t \in Submissions : StoreGrade(t) \/ Correct(t) \/ Credit(t)
      \/ UNCHANGED <<graded, corrected, ledger>>
  BY DEF Next, Step, Grading, GraderRefuses, Grade, Correcting, EvaluateRefuses,
         EvaluateCloses, Evaluate, Rewarding, FindPoints, MissPoints, OpenPoints,
         OpenPointsCollides, ShowLevel, HandBack, Close, Fail, vars, attemptVars, rewardVars
<1> QED BY <1>2, <1>3, <1>4, <1>5, <1>6

\* Attempts and ledger rows are never rewritten and totals never decrease,
\* also when a stale number or a stale total is stored.
THEOREM NothingIsRewritten == Spec => AppendOnly
<1>1. RewardInv /\ [Next]_vars =>
        [\A s \in Submissions :
            /\ graded[s].number > 0 => graded'[s] = graded[s]
            /\ corrected[s].number > 0 => corrected'[s] = corrected[s]
            /\ ledger[s].number > 0 => ledger'[s] = ledger[s]
            /\ total'[request[s].pupil] >= total[request[s].pupil]]_vars
  BY AppendStep
<1> QED BY <1>1, RewardInvariant, PTL DEF Spec, AppendOnly

-----------------------------------------------------------------------------
(* One API process: what the submissions know of each other's corrections *)

Count(e) == Cardinality(CorrectedOn(e))

HandlersAlone ==
    \A s, t \in Submissions : pc[s] \in InHandler /\ pc[t] \in InHandler => s = t

Ungraded ==
    \A s \in Submissions : pc[s] \notin Unstored /\ graded[s] = NoRow

Accepted ==
    \A s \in Submissions :
        pc[s] \in InHandler \/ corrected[s].number > 0 => OwnsExercise(s)

\* The corrections of an exercise are numbered from 1 to their number.
NumberedOn(e) ==
    /\ Count(e) <= MaxAttempts
    /\ \A s \in CorrectedOn(e) : corrected[s].number <= Count(e)
    /\ Count(e) > 0 => \E s \in CorrectedOn(e) : corrected[s].number = Count(e)
    /\ \A s, t \in CorrectedOn(e) :
          corrected[s].number = corrected[t].number => s = t

Numbered == \A e \in Exercises : NumberedOn(e)

\* The submission in the handler has read the current number, and its row is
\* the latest when it is rewarded.
LatestInHandler ==
    \A s \in Submissions :
        /\ pc[s] = "correct" => number[s] = Count(request[s].exercise) + 1
        /\ pc[s] \in Unrewarded => number[s] = Count(request[s].exercise)

PolicyInv == HandlersAlone /\ Ungraded /\ Accepted /\ Numbered /\ LatestInHandler

LEMMA CountType ==
    ASSUME NEW e
    PROVE  IsFiniteSet(CorrectedOn(e)) /\ Count(e) \in Nat
  BY SubmissionAssumption, FS_Subset, FS_CardinalityType DEF CorrectedOn, Count

LEMMA CountZero ==
    ASSUME NEW e
    PROVE  Count(e) = 0 <=> CorrectedOn(e) = {}
  BY CountType, FS_EmptySet DEF Count

\* The numbers a submission to an exercise of its pupil sees are those of the
\* exercise's corrections.
LEMMA NumberRead ==
    ASSUME TypeOK, PolicyInv, NEW s \in Submissions, OwnsExercise(s),
           NEW n \in next_attempt_number(s)
    PROVE  n = Count(request[s].exercise) + 1
<1> DEFINE e == request[s].exercise
<1>1. e \in Exercises /\ NumberedOn(e) /\ Count(e) \in Nat
  BY CountType DEF OwnsExercise, PolicyInv, Numbered
<1>2. \A t \in Siblings(s) : graded[t].number = 0
  BY DEF PolicyInv, Ungraded, NoRow, Siblings
<1>3. CorrectedOn(e) \subseteq Siblings(s)
  BY DEF PolicyInv, Accepted, OwnsExercise, CorrectedOn, Siblings
<1>4. \A t \in Siblings(s) : corrected[t].number # 0 => t \in CorrectedOn(e)
  BY DEF TypeOK, AttemptRow, CorrectedOn, Siblings
<1>5. \A k \in AttemptNumbers(s) : k \in Nat /\ k <= Count(e)
  BY <1>1, <1>2, <1>4, AttemptNumbersType DEF AttemptNumbers, NumberedOn
<1>6. Count(e) \in AttemptNumbers(s)
  <2>1. CASE Count(e) = 0
    <3>1. s \in Siblings(s)
      BY DEF Siblings
    <3> QED BY <1>2, <2>1, <3>1 DEF AttemptNumbers
  <2>2. CASE Count(e) > 0
    BY <1>1, <1>3, <2>2 DEF NumberedOn, AttemptNumbers
  <2> QED BY <1>1, <2>1, <2>2
<1> HIDE DEF e
<1>7. n \in Nat \ {0} /\ n - 1 \in AttemptNumbers(s) /\ \A k \in AttemptNumbers(s) : k < n
  BY NextNumber
<1>8. n = Count(e) + 1
  BY <1>1, <1>5, <1>6, <1>7
<1> QED BY <1>8 DEF e

\* A step that stores no correction.
LEMMA CountKept ==
    ASSUME UNCHANGED <<request, corrected>>, NEW e
    PROVE  CorrectedOn(e)' = CorrectedOn(e) /\ Count(e)' = Count(e)
  BY DEF CorrectedOn, Count

\* The step that stores one.
LEMMA CountMore ==
    ASSUME TypeOK, RowsFollowPlace, NEW s \in Submissions, Correct(s), NEW e
    PROVE  /\ s \notin CorrectedOn(e)
           /\ e = request[s].exercise =>
                 CorrectedOn(e)' = CorrectedOn(e) \cup {s} /\ Count(e)' = Count(e) + 1
           /\ e # request[s].exercise =>
                 CorrectedOn(e)' = CorrectedOn(e) /\ Count(e)' = Count(e)
<1>1. pc[s] = "correct" /\ corrected[s].number = 0 /\ number[s] > 0
  BY DEF Correct, RowsFollowPlace, Uncorrected, NoRow
<1>2. /\ corrected'[s].number = number[s] /\ request' = request
      /\ \A t \in Submissions \ {s} : corrected'[t] = corrected[t]
  BY DEF Correct, TypeOK
<1>3. s \notin CorrectedOn(e)
  BY <1>1 DEF CorrectedOn
<1>4. CASE e = request[s].exercise
  <2>1. CorrectedOn(e)' = CorrectedOn(e) \cup {s}
    BY <1>1, <1>2, <1>4 DEF CorrectedOn
  <2> QED BY <1>3, <1>4, <2>1, CountType, FS_AddElement DEF Count
<1>5. CASE e # request[s].exercise
  <2>1. CorrectedOn(e)' = CorrectedOn(e)
    BY <1>1, <1>2, <1>5 DEF CorrectedOn
  <2> QED BY <1>3, <1>5, <2>1 DEF Count
<1> QED BY <1>3, <1>4, <1>5

LEMMA PolicyInit == OneProcess /\ Init => PolicyInv
<1> SUFFICES ASSUME OneProcess, Init PROVE PolicyInv
  OBVIOUS
<1>1. \A s \in Submissions : IsApi(s) /\ pc[s] = "evaluate" /\ corrected[s] = NoRow
  BY DEF Init, OneProcess
<1>2. \A e \in Exercises : CorrectedOn(e) = {} /\ Count(e) = 0
  BY <1>1, CountZero DEF CorrectedOn, NoRow
<1>3. Numbered
  BY <1>2, RulesAssumption DEF Numbered, NumberedOn
<1>4. Ungraded
  BY <1>1 DEF Init, Ungraded, Unstored
<1> QED BY <1>1, <1>3, <1>4
        DEF PolicyInv, HandlersAlone, Accepted, LatestInHandler, InHandler, Unrewarded, NoRow

\* A step that only moves a submission on, or out of the handler.
LEMMA PolicyQuiet ==
    ASSUME TypeOK, PolicyInv, UNCHANGED <<request, number, graded, corrected>>,
           NEW s \in Submissions, NEW place, pc' = [pc EXCEPT ![s] = place],
           place \notin Unstored \cup {"correct"},
           place \in InHandler => pc[s] \in InHandler,
           place \in Unrewarded => pc[s] \in Unrewarded
    PROVE  PolicyInv'
<1>1. /\ pc'[s] = place
      /\ \A t \in Submissions \ {s} : pc'[t] = pc[t]
  BY DEF TypeOK
<1>2. HandlersAlone'
  BY <1>1 DEF PolicyInv, HandlersAlone
<1>3. Ungraded'
  BY <1>1 DEF PolicyInv, Ungraded
<1>4. Accepted'
  BY <1>1 DEF PolicyInv, Accepted, OwnsExercise
<1>5. Numbered'
  BY CountKept DEF PolicyInv, Numbered, NumberedOn
<1>6. LatestInHandler'
  BY <1>1, CountKept DEF PolicyInv, LatestInHandler
<1> QED BY <1>2, <1>3, <1>4, <1>5, <1>6 DEF PolicyInv

LEMMA PolicyEvaluate ==
    ASSUME OneProcess, TypeOK, PolicyInv, NEW s \in Submissions, Evaluate(s)
    PROVE  PolicyInv'
<1>1. PICK n \in next_attempt_number(s) :
         n <= MaxAttempts /\ number' = [number EXCEPT ![s] = n]
  BY DEF Evaluate
<1>2. OwnsExercise(s)
  BY DEF Evaluate, ProgressiveAccepts
<1>3. n = Count(request[s].exercise) + 1
  BY <1>2, NumberRead
<1>4. \A t \in Submissions : IsApi(t) /\ request[t].process = request[s].process
  BY DEF OneProcess
<1>5. \A t \in Submissions : pc[t] \notin InHandler
  BY <1>4 DEF Evaluate, MayRun
<1>6. /\ pc' = [pc EXCEPT ![s] = "correct"] /\ UNCHANGED <<request, graded, corrected>>
  BY DEF Evaluate, Goto, attemptVars
<1>7. /\ pc'[s] = "correct" /\ number'[s] = n
      /\ \A t \in Submissions \ {s} : pc'[t] = pc[t] /\ number'[t] = number[t]
  BY <1>1, <1>6 DEF TypeOK
<1>8. HandlersAlone' /\ Ungraded'
  BY <1>5, <1>6, <1>7 DEF PolicyInv, HandlersAlone, Ungraded, Unstored
<1>9. Accepted'
  BY <1>2, <1>6, <1>7 DEF PolicyInv, Accepted, OwnsExercise
<1>10. Numbered'
  BY <1>6, CountKept DEF PolicyInv, Numbered, NumberedOn
<1>11. LatestInHandler'
  <2>1. Count(request[s].exercise)' = Count(request[s].exercise)
    BY <1>6, CountKept
  <2> QED BY <1>3, <1>5, <1>6, <1>7, <2>1
          DEF PolicyInv, LatestInHandler, InHandler, Unrewarded
<1> QED BY <1>8, <1>9, <1>10, <1>11 DEF PolicyInv

LEMMA PolicyCorrect ==
    ASSUME OneProcess, TypeOK, RowsFollowPlace, PolicyInv,
           NEW s \in Submissions, Correct(s)
    PROVE  PolicyInv'
<1>0. PICK e : e = request[s].exercise
  OBVIOUS
<1>1. IsApi(s) /\ pc[s] = "correct" /\ pc[s] \in InHandler
  BY DEF OneProcess, Correct, InHandler
<1>2. /\ pc' = [pc EXCEPT ![s] = "find_points"]
      /\ UNCHANGED <<request, number, graded>>
  BY <1>1 DEF Correct, Goto
<1>3. /\ pc'[s] = "find_points" /\ corrected'[s].number = number[s]
      /\ \A t \in Submissions \ {s} : pc'[t] = pc[t] /\ corrected'[t] = corrected[t]
  BY <1>2 DEF Correct, TypeOK
<1>4. /\ OwnsExercise(s) /\ e \in Exercises
      /\ number[s] = Count(e) + 1 /\ number[s] \in 1..MaxAttempts
  BY <1>0, <1>1 DEF PolicyInv, Accepted, LatestInHandler, OwnsExercise, RowsFollowPlace
<1>5. \A t \in Submissions \ {s} : pc[t] \notin InHandler
  BY <1>1 DEF PolicyInv, HandlersAlone
<1>6. HandlersAlone' /\ Ungraded'
  BY <1>2, <1>3, <1>5 DEF PolicyInv, HandlersAlone, Ungraded, Unstored
<1>7. Accepted'
  BY <1>2, <1>3, <1>4 DEF PolicyInv, Accepted, OwnsExercise
<1>8. ASSUME NEW x \in Exercises PROVE NumberedOn(x)'
  <2>1. NumberedOn(x) /\ Count(x) \in Nat
    BY CountType DEF PolicyInv, Numbered
  <2>2. CASE x = e
    <3>1. /\ s \notin CorrectedOn(x) /\ CorrectedOn(x)' = CorrectedOn(x) \cup {s}
          /\ Count(x)' = Count(x) + 1 /\ CorrectedOn(x) \subseteq Submissions
      BY <1>0, <2>2, CountMore DEF CorrectedOn
    <3>2. \A t \in CorrectedOn(x) :
             /\ corrected'[t].number = corrected[t].number
             /\ corrected[t].number \in Nat /\ corrected[t].number <= Count(x)
      BY <1>3, <2>1, <3>1 DEF NumberedOn, TypeOK, AttemptRow
    <3>3. corrected'[s].number = Count(x) + 1
      BY <1>3, <1>4, <2>2
    <3>4. Count(x)' <= MaxAttempts
      BY <1>4, <2>2, <3>1
    <3>5. \A t \in CorrectedOn(x)' : corrected'[t].number <= Count(x)'
      BY <2>1, <3>1, <3>2, <3>3
    <3>6. \A t, u \in CorrectedOn(x)' :
             corrected'[t].number = corrected'[u].number => t = u
      BY <2>1, <3>1, <3>2, <3>3 DEF NumberedOn
    <3> QED BY <3>1, <3>3, <3>4, <3>5, <3>6 DEF NumberedOn
  <2>3. CASE x # e
    <3>1. CorrectedOn(x)' = CorrectedOn(x) /\ Count(x)' = Count(x) /\ s \notin CorrectedOn(x)
      BY <1>0, <2>3, CountMore
    <3>2. \A t \in CorrectedOn(x) : corrected'[t].number = corrected[t].number
      BY <1>3, <3>1 DEF CorrectedOn
    <3> QED BY <2>1, <3>1, <3>2 DEF NumberedOn
  <2> QED BY <2>2, <2>3
<1>9. Numbered'
  BY <1>8 DEF Numbered
<1>10. LatestInHandler'
  <2>1. Count(e)' = Count(e) + 1
    BY <1>0, CountMore
  <2> QED BY <1>0, <1>2, <1>3, <1>4, <1>5, <2>1
          DEF PolicyInv, LatestInHandler, InHandler, Unrewarded
<1> QED BY <1>6, <1>7, <1>9, <1>10 DEF PolicyInv

LEMMA PolicyStep ==
    OneProcess /\ TypeOK /\ RowsFollowPlace /\ PolicyInv /\ [Next]_vars => PolicyInv'
<1> SUFFICES ASSUME OneProcess, TypeOK, RowsFollowPlace, PolicyInv, [Next]_vars
             PROVE  PolicyInv'
  OBVIOUS
<1> USE DEF Goto, attemptVars
<1>1. ASSUME NEW s \in Submissions, Grading(s) PROVE PolicyInv'
  <2>1. pc[s] \notin Unstored
    BY DEF PolicyInv, Ungraded
  <2> QED BY <1>1, <2>1 DEF Grading, GraderRefuses, Grade, StoreGrade, Unstored
<1>2. ASSUME NEW s \in Submissions, Correcting(s) PROVE PolicyInv'
  <2>1. CASE EvaluateRefuses(s)
    BY <2>1, PolicyQuiet DEF EvaluateRefuses, InHandler, Unstored, Unrewarded
  <2>2. CASE EvaluateCloses(s)
    BY <2>2, PolicyQuiet DEF EvaluateCloses, InHandler, Unstored, Unrewarded
  <2> QED BY <1>2, <2>1, <2>2, PolicyEvaluate, PolicyCorrect DEF Correcting
<1>3. ASSUME NEW s \in Submissions, Rewarding(s) PROVE PolicyInv'
  <2>1. /\ UNCHANGED <<request, number, graded, corrected>>
        /\ \/ pc' = [pc EXCEPT ![s] = "credit"] /\ pc[s] \in {"find_points", "open_points"}
           \/ pc' = [pc EXCEPT ![s] = "open_points"] /\ pc[s] = "find_points"
           \/ pc' = [pc EXCEPT ![s] = "show_level"] /\ pc[s] = "credit"
           \/ \E place \in {"failed", "hand_back", "close", "answered"} :
                 pc' = [pc EXCEPT ![s] = place]
    BY <1>3 DEF Rewarding, FindPoints, MissPoints, OpenPoints, OpenPointsCollides, Credit,
                ShowLevel, HandBack, Close
  <2> QED BY <2>1, PolicyQuiet DEF InHandler, Unstored, Unrewarded
<1>4. ASSUME NEW s \in Submissions, Fail(s) PROVE PolicyInv'
  BY <1>4, PolicyQuiet DEF Fail, InHandler, Unstored, Unrewarded
<1>5. CASE UNCHANGED vars
  BY <1>5, CountKept
     DEF vars, PolicyInv, HandlersAlone, Ungraded, Accepted, OwnsExercise, Numbered,
         NumberedOn, LatestInHandler
<1> QED BY <1>1, <1>2, <1>3, <1>4, <1>5 DEF Next, Step

-----------------------------------------------------------------------------
(* One API process: the submissions implement CorrectionPolicy *)

PolicyOutcomes == [e \in Exercises |-> OutcomesOf(e)]
PolicyCredited == [e \in Exercises |-> CreditedOf(e)]
PolicyShut == {request[s].exercise : s \in {t \in Submissions : pc[t] = "closed"}}

LEMMA SequenceOf ==
    ASSUME NEW S, NEW k \in Nat, NEW f, f = [n \in 1..k |-> f[n]],
           \A n \in 1..k : f[n] \in S
    PROVE  f \in Seq(S) /\ Len(f) = k
<1>1. f \in [1..k -> S]
  OBVIOUS
<1>2. f \in Seq(S)
  BY <1>1
<1>3. Len(f) \in Nat /\ 1..Len(f) = 1..k
  BY <1>1, <1>2
<1>4. (k \in 1..k <=> k > 0) /\ (Len(f) \in 1..Len(f) <=> Len(f) > 0)
  BY <1>3
<1>5. (k > 0 => k <= Len(f)) /\ (Len(f) > 0 => Len(f) <= k)
  BY <1>3, <1>4
<1> QED BY <1>2, <1>3, <1>5

LEMMA OneLonger ==
    ASSUME NEW S, NEW k \in Nat, NEW f \in Seq(S), Len(f) = k, NEW v \in S,
           NEW g \in [1..(k + 1) -> S],
           \A n \in 1..k : g[n] = f[n], g[k + 1] = v
    PROVE  g = Append(f, v)
<1> DEFINE h == Append(f, v)
<1>1. /\ h \in Seq(S) /\ Len(h) = k + 1 /\ h[k + 1] = v
      /\ \A n \in 1..k : h[n] = f[n]
  OBVIOUS
<1> HIDE DEF h
<1>2. h \in [1..(k + 1) -> S]
  <2>1. DOMAIN h = 1..Len(h)
    BY <1>1
  <2>2. h \in [1..Len(h) -> S]
    BY <1>1
  <2> QED BY <1>1, <2>2
<1>3. \A n \in 1..(k + 1) : g[n] = h[n]
  <2>1. \A n \in 1..(k + 1) : n \in 1..k \/ n = k + 1
    OBVIOUS
  <2> QED BY <1>1, <2>1
<1>4. g = h
  BY <1>2, <1>3
<1> QED BY <1>4 DEF h

LEMMA OutcomesAre ==
    ASSUME NEW e
    PROVE  /\ OutcomesOf(e) \in Seq(BOOLEAN) /\ Len(OutcomesOf(e)) = Count(e)
           /\ \A n \in 1..Count(e) :
                 OutcomesOf(e)[n] =
                   (\E s \in CorrectedOn(e) : corrected[s].number = n /\ corrected[s].success)
<1> DEFINE f == OutcomesOf(e)
<1>1. Count(e) \in Nat
  BY CountType
<1>2. \A n \in 1..Count(e) :
         f[n] = (\E s \in CorrectedOn(e) : corrected[s].number = n /\ corrected[s].success)
  BY DEF OutcomesOf, Count
<1>3. f = [n \in 1..Count(e) |-> f[n]] /\ \A n \in 1..Count(e) : f[n] \in BOOLEAN
  BY <1>2, Zenon DEF OutcomesOf, Count
<1> HIDE DEF f
<1>4. f \in Seq(BOOLEAN) /\ Len(f) = Count(e)
  BY <1>1, <1>3, SequenceOf
<1> QED BY <1>2, <1>4 DEF f

LEMMA OutcomesKept ==
    ASSUME UNCHANGED <<request, corrected>>, NEW e
    PROVE  OutcomesOf(e)' = OutcomesOf(e)
<1>1. CorrectedOn(e)' = CorrectedOn(e)
  BY CountKept
<1> QED BY <1>1 DEF OutcomesOf

\* A stored correction is the next outcome of its exercise.
LEMMA OutcomesGrow ==
    ASSUME OneProcess, TypeOK, RowsFollowPlace, PolicyInv,
           NEW s \in Submissions, Correct(s), NEW e, e = request[s].exercise
    PROVE  /\ e \in Exercises /\ Count(e) < MaxAttempts /\ verdict[s] \in BOOLEAN
           /\ OutcomesOf(e)' = Append(OutcomesOf(e), verdict[s])
           /\ \A x \in Exercises \ {e} : OutcomesOf(x)' = OutcomesOf(x)
<1>1. pc[s] = "correct" /\ pc[s] \in InHandler
  BY DEF Correct, InHandler
<1>2. /\ OwnsExercise(s) /\ number[s] = Count(e) + 1 /\ number[s] \in 1..MaxAttempts
  BY <1>1 DEF PolicyInv, Accepted, LatestInHandler, RowsFollowPlace
<1>3. e \in Exercises /\ Count(e) \in Nat /\ NumberedOn(e) /\ verdict[s] \in BOOLEAN
  BY <1>2, CountType DEF OwnsExercise, PolicyInv, Numbered, TypeOK
<1>4. Count(e) < MaxAttempts
  BY <1>2, <1>3, RulesAssumption
<1>5. /\ corrected'[s].number = number[s] /\ corrected'[s].success = verdict[s]
      /\ \A t \in Submissions \ {s} : corrected'[t] = corrected[t]
  BY DEF Correct, TypeOK
<1>6. /\ s \notin CorrectedOn(e) /\ CorrectedOn(e)' = CorrectedOn(e) \cup {s}
      /\ Count(e)' = Count(e) + 1
  BY CountMore
<1> DEFINE k == Count(e)
           f == OutcomesOf(e)
           g == OutcomesOf(e)'
<1>7. f \in Seq(BOOLEAN) /\ Len(f) = k
  BY OutcomesAre
<1>8. /\ g \in [1..(k + 1) -> BOOLEAN]
      /\ \A n \in 1..(k + 1) : g[n] =
            (\E t \in CorrectedOn(e)' : corrected'[t].number = n /\ corrected'[t].success)
  <2>1. g = [n \in 1..Count(e)' |->
               \E t \in CorrectedOn(e)' : corrected'[t].number = n /\ corrected'[t].success]
    BY Zenon DEF OutcomesOf, Count
  <2> QED BY <1>6, <2>1
<1>9. \A n \in 1..k : g[n] = f[n]
  <2> SUFFICES ASSUME NEW n \in 1..k PROVE g[n] = f[n]
    OBVIOUS
  <2>1. f[n] = (\E t \in CorrectedOn(e) : corrected[t].number = n /\ corrected[t].success)
    BY OutcomesAre
  <2>2. \A t \in CorrectedOn(e) : t \in Submissions /\ t # s
    BY <1>6 DEF CorrectedOn
  <2>3. corrected'[s].number # n /\ n \in 1..(k + 1)
    BY <1>2, <1>3, <1>5
  <2>4. (\E t \in CorrectedOn(e)' : corrected'[t].number = n /\ corrected'[t].success)
          <=> (\E t \in CorrectedOn(e) : corrected[t].number = n /\ corrected[t].success)
    BY <1>5, <1>6, <2>2, <2>3
  <2> QED BY <1>8, <2>1, <2>3, <2>4
<1>10. g[k + 1] = verdict[s]
  <2>1. \A t \in CorrectedOn(e) : t # s /\ corrected'[t].number # k + 1
    BY <1>2, <1>3, <1>5, <1>6 DEF CorrectedOn, NumberedOn, TypeOK, AttemptRow
  <2>2. (\E t \in CorrectedOn(e)' : corrected'[t].number = k + 1 /\ corrected'[t].success)
          <=> verdict[s]
    BY <1>2, <1>5, <1>6, <2>1
  <2>3. k + 1 \in 1..(k + 1)
    BY <1>3
  <2> QED BY <1>3, <1>8, <2>2, <2>3
<1> HIDE DEF k, f, g
<1>11. g = Append(f, verdict[s])
  BY <1>3, <1>7, <1>8, <1>9, <1>10, OneLonger DEF k
<1>12. \A x \in Exercises \ {e} : OutcomesOf(x)' = OutcomesOf(x)
  <2> SUFFICES ASSUME NEW x \in Exercises, x # e PROVE OutcomesOf(x)' = OutcomesOf(x)
    OBVIOUS
  <2>1. CorrectedOn(x)' = CorrectedOn(x) /\ s \notin CorrectedOn(x)
    BY CountMore
  <2>2. \A t \in CorrectedOn(x) : corrected'[t] = corrected[t]
    BY <1>5, <2>1 DEF CorrectedOn
  <2> QED BY <2>1, <2>2 DEF OutcomesOf
<1> QED BY <1>3, <1>4, <1>11, <1>12 DEF f, g

\* What the policy sees of a step that stores no correction and no reward.
LEMMA PolicyRowsKept ==
    UNCHANGED <<request, corrected, ledger, total>>
      => PolicyOutcomes' = PolicyOutcomes /\ PolicyCredited' = PolicyCredited /\ total' = total
<1> SUFFICES ASSUME UNCHANGED <<request, corrected, ledger, total>>
             PROVE  PolicyOutcomes' = PolicyOutcomes /\ PolicyCredited' = PolicyCredited
  OBVIOUS
<1>1. \A e \in Exercises : OutcomesOf(e)' = OutcomesOf(e)
  BY OutcomesKept
<1>2. \A e \in Exercises : CreditedOf(e)' = CreditedOf(e)
  <2> SUFFICES ASSUME NEW e \in Exercises PROVE CreditedOf(e)' = CreditedOf(e)
    OBVIOUS
  <2>1. CorrectedOn(e)' = CorrectedOn(e)
    BY CountKept
  <2> QED BY <2>1 DEF CreditedOf
<1> QED BY <1>1, <1>2 DEF PolicyOutcomes, PolicyCredited

\* A submission that is not turned away shuts nothing.
LEMMA ShutKept ==
    ASSUME TypeOK, UNCHANGED request, NEW s \in Submissions, pc[s] # "closed",
           NEW place, place # "closed", pc' = [pc EXCEPT ![s] = place]
    PROVE  PolicyShut' = PolicyShut
<1>1. {t \in Submissions : pc'[t] = "closed"} = {t \in Submissions : pc[t] = "closed"}
  BY DEF TypeOK
<1> QED BY <1>1 DEF PolicyShut

\* A stored correction is a submission of the policy.
LEMMA CorrectSubmits ==
    ASSUME OneProcess, TypeOK, RowsFollowPlace, PolicyInv,
           NEW s \in Submissions, Correct(s)
    PROVE  Policy!Next
<1>0. PICK e : e = request[s].exercise
  OBVIOUS
<1>1. /\ e \in Exercises /\ Count(e) < MaxAttempts /\ verdict[s] \in BOOLEAN
      /\ OutcomesOf(e)' = Append(OutcomesOf(e), verdict[s])
      /\ \A x \in Exercises \ {e} : OutcomesOf(x)' = OutcomesOf(x)
  BY <1>0, OutcomesGrow
<1>2. Len(OutcomesOf(e)) < MaxAttempts
  BY <1>1, OutcomesAre
<1>3. PolicyOutcomes' = [PolicyOutcomes EXCEPT ![e] = Append(@, verdict[s])]
  BY <1>1 DEF PolicyOutcomes
<1>4. PolicyCredited' = PolicyCredited
  <2> SUFFICES ASSUME NEW x \in Exercises PROVE CreditedOf(x)' = CreditedOf(x)
    BY DEF PolicyCredited
  <2>1. CorrectedOn(x)' \ {s} = CorrectedOn(x) /\ s \notin CorrectedOn(x)
    BY CountMore
  <2>2. ledger[s].number = 0 /\ ledger' = ledger
    BY DEF Correct, RowsFollowPlace, Uncorrected, NoEntry, rewardVars
  <2>3. {t \in CorrectedOn(x)' : ledger'[t].number > 0}
          = {t \in CorrectedOn(x) : ledger[t].number > 0}
    BY <2>1, <2>2
  <2> QED BY <2>2, <2>3 DEF CreditedOf
<1>5. PolicyShut' = PolicyShut /\ total' = total
  BY ShutKept DEF Correct, Goto, rewardVars
<1>6. Policy!Submit(e)
  BY <1>1, <1>2, <1>3, <1>4, <1>5
     DEF Policy!Submit, PolicyOutcomes, PolicyCredited, PolicyShut
<1> QED BY Zenon, <1>1, <1>6 DEF Policy!Next

\* A reward is a reward of the policy: of the latest correction, by its number
\* and outcome, and of one that had none.
LEMMA CreditRewards ==
    ASSUME TypeOK, RowsFollowPlace, LockInv, LedgerMatchesAttempts, PolicyInv,
           NEW s \in Submissions, Credit(s)
    PROVE  Policy!Next
<1>0. PICK e : e = request[s].exercise
  OBVIOUS
<1> DEFINE n == number[s]
           awarded == PointsFor(n, verdict[s])
<1>1. /\ pc[s] = "credit" /\ n = Count(e) /\ n \in 1..MaxAttempts
      /\ corrected[s].number = n /\ corrected[s].success = verdict[s]
      /\ ledger[s] = NoEntry /\ seen[s] = total[request[s].pupil]
  BY <1>0 DEF Credit, RowsFollowPlace, Unrewarded, LockInv, PolicyInv, LatestInHandler
<1>2. n \in Nat /\ n > 0 /\ verdict[s] \in BOOLEAN
  BY <1>1, RulesAssumption DEF TypeOK
<1>3. OwnsExercise(s) /\ s \in CorrectedOn(e)
  BY <1>0, <1>1, <1>2 DEF PolicyInv, Accepted, CorrectedOn
<1>4. e \in Exercises /\ Owner[e] = request[s].pupil /\ NumberedOn(e)
  BY <1>0, <1>3 DEF OwnsExercise, PolicyInv, Numbered
<1>5. \A t \in CorrectedOn(e) : corrected[t].number = n => t = s
  BY <1>1, <1>3, <1>4 DEF NumberedOn
<1>6. /\ ledger'[s].number = n /\ ledger[s].number = 0
      /\ \A t \in Submissions \ {s} : ledger'[t] = ledger[t]
      /\ total' = [total EXCEPT ![request[s].pupil] = seen[s] + awarded]
      /\ UNCHANGED <<request, corrected>>
      /\ pc' = [pc EXCEPT ![s] = "show_level"]
  BY <1>1 DEF Credit, Goto, NoEntry, TypeOK, attemptVars
<1>7. \A x \in Exercises : CorrectedOn(x)' = CorrectedOn(x)
  BY <1>6, CountKept
<1>8. n \notin CreditedOf(e)
  BY <1>5, <1>6 DEF CreditedOf, LedgerMatchesAttempts, CorrectedOn
<1>9. CreditedOf(e)' = CreditedOf(e) \cup {n}
  <2>1. {t \in CorrectedOn(e)' : ledger'[t].number > 0}
          = {t \in CorrectedOn(e) : ledger[t].number > 0} \cup {s}
    BY <1>2, <1>3, <1>4, <1>6, <1>7 DEF CorrectedOn
  <2>2. \A t \in CorrectedOn(e) : ledger[t].number > 0 => ledger'[t] = ledger[t]
    BY <1>6 DEF CorrectedOn
  <2> QED BY <1>6, <2>1, <2>2 DEF CreditedOf
<1>10. ASSUME NEW x \in Exercises \ {e} PROVE CreditedOf(x)' = CreditedOf(x)
  <2>1. \A t \in CorrectedOn(x) : ledger'[t] = ledger[t]
    BY <1>0, <1>6 DEF CorrectedOn
  <2> QED BY <1>7, <2>1 DEF CreditedOf
<1>11. PolicyCredited' = [PolicyCredited EXCEPT ![e] = @ \cup {n}]
  BY <1>9, <1>10 DEF PolicyCredited
<1>12. PolicyOutcomes' = PolicyOutcomes
  BY <1>6, OutcomesKept DEF PolicyOutcomes
<1>13. Len(OutcomesOf(e)) = n /\ OutcomesOf(e)[n] = verdict[s]
  <2>0. n \in 1..Count(e)
    BY <1>1, <1>2
  <2>1. n \in 1..Count(e) /\ OutcomesOf(e)[n] \in BOOLEAN /\ Len(OutcomesOf(e)) = Count(e)
    <3>1. \A k \in 1..Count(e) : OutcomesOf(e)[k] \in BOOLEAN
      BY Zenon, OutcomesAre
    <3> QED BY Zenon, <2>0, <3>1, OutcomesAre
  <2>2. OutcomesOf(e)[n] = (\E t \in CorrectedOn(e) : corrected[t].number = n
                                                     /\ corrected[t].success)
    BY <2>1, OutcomesAre
  <2>3. (\E t \in CorrectedOn(e) : corrected[t].number = n /\ corrected[t].success)
          <=> verdict[s]
    BY <1>1, <1>3, <1>5
  <2> QED BY <1>1, <1>2, <2>1, <2>2, <2>3, OutcomesAre
<1>14. total' = [total EXCEPT ![Owner[e]] = @ + awarded]
  BY <1>1, <1>4, <1>6
<1>15. PolicyShut' = PolicyShut
  BY <1>1, <1>6, ShutKept
<1>16. awarded = Policy!PointsFor(n, verdict[s])
  BY DEF PointsFor, bonus_points, Policy!PointsFor, Policy!bonus_points
<1> HIDE DEF n, awarded
<1>17. PolicyOutcomes[e] = OutcomesOf(e) /\ PolicyCredited[e] = CreditedOf(e)
  BY <1>4 DEF PolicyOutcomes, PolicyCredited
<1>18. /\ Len(PolicyOutcomes[e]) = n /\ n > 0 /\ n \notin PolicyCredited[e]
       /\ total' = [total EXCEPT ![Owner[e]] = @ + Policy!PointsFor(n, PolicyOutcomes[e][n])]
  BY <1>2, <1>8, <1>13, <1>14, <1>16, <1>17
<1>19. Policy!Reward(e)
  BY <1>4, <1>11, <1>12, <1>15, <1>18
     DEF Policy!Reward, PolicyOutcomes, PolicyCredited, PolicyShut
<1> QED BY Zenon, <1>4, <1>19 DEF Policy!Next

\* A submission is turned away from an exercise with all its corrections.
LEMMA FullWhenClosing ==
    ASSUME TypeOK, PolicyInv, NEW s \in Submissions, EvaluateCloses(s)
    PROVE  request[s].exercise \in Exercises /\ Count(request[s].exercise) = MaxAttempts
<1>0. PICK e : e = request[s].exercise
  OBVIOUS
<1>1. PICK n \in next_attempt_number(s) : n > MaxAttempts
  BY DEF EvaluateCloses
<1>2. OwnsExercise(s) /\ e \in Exercises
  BY <1>0 DEF EvaluateCloses, ProgressiveAccepts, OwnsExercise
<1>3. n = Count(e) + 1 /\ Count(e) <= MaxAttempts /\ Count(e) \in Nat
  BY <1>0, <1>2, NumberRead, CountType DEF PolicyInv, Numbered, NumberedOn
<1> QED BY <1>0, <1>1, <1>2, <1>3, RulesAssumption

LEMMA ClosesTurnAway ==
    ASSUME TypeOK, PolicyInv, NEW s \in Submissions, EvaluateCloses(s)
    PROVE  Policy!Next
<1>0. PICK e : e = request[s].exercise
  OBVIOUS
<1>1. e \in Exercises /\ Count(e) = MaxAttempts
  BY <1>0, FullWhenClosing
<1>2. Len(OutcomesOf(e)) = MaxAttempts
  <2>1. Len(OutcomesOf(e)) = Count(e)
    BY OutcomesAre
  <2> QED BY <1>1, <2>1
<1>3. PolicyShut' = PolicyShut \cup {e}
  <2>1. /\ UNCHANGED request
        /\ {t \in Submissions : pc'[t] = "closed"}
             = {t \in Submissions : pc[t] = "closed"} \cup {s}
    BY DEF EvaluateCloses, Goto, TypeOK
  <2> QED BY <1>0, <2>1 DEF PolicyShut
<1>4. PolicyOutcomes' = PolicyOutcomes /\ PolicyCredited' = PolicyCredited /\ total' = total
  BY PolicyRowsKept DEF EvaluateCloses, attemptVars, rewardVars
<1>5. Policy!TurnAway(e)
  BY <1>1, <1>2, <1>3, <1>4 DEF Policy!TurnAway, PolicyOutcomes, PolicyCredited, PolicyShut
<1> QED BY Zenon, <1>1, <1>5 DEF Policy!Next

\* Every other step is none of the policy's business.
LEMMA OtherStepsStutter ==
    ASSUME TypeOK, [Next]_vars,
           \A s \in Submissions : ~Correct(s) /\ ~Credit(s) /\ ~EvaluateCloses(s)
    PROVE  UNCHANGED Policy!vars
<1>1. UNCHANGED <<request, corrected, ledger, total>>
  BY DEF Next, Step, Grading, GraderRefuses, Grade, StoreGrade, Correcting,
         EvaluateRefuses, Evaluate, Rewarding, FindPoints, MissPoints, OpenPoints,
         OpenPointsCollides, ShowLevel, HandBack, Close, Fail, vars, rewardVars, attemptVars
<1>2. \/ UNCHANGED pc
      \/ \E s \in Submissions, place \in Places \ {"closed"} :
            pc[s] # "closed" /\ pc' = [pc EXCEPT ![s] = place]
  BY DEF Next, Step, Grading, GraderRefuses, Grade, StoreGrade, Correcting,
         EvaluateRefuses, Evaluate, Rewarding, FindPoints, MissPoints, OpenPoints,
         OpenPointsCollides, ShowLevel, HandBack, Close, Fail, vars,
         Goto, Places, Final, InHandler
<1>3. PolicyShut' = PolicyShut
  <2>1. CASE UNCHANGED pc
    BY <1>1, <2>1 DEF PolicyShut
  <2> QED BY <1>1, <1>2, <2>1, ShutKept
<1> QED BY <1>1, <1>3, PolicyRowsKept
        DEF Policy!vars, PolicyOutcomes, PolicyCredited, PolicyShut

LEMMA PolicyStarts == OneProcess /\ Init => Policy!Init
<1> SUFFICES ASSUME OneProcess, Init PROVE Policy!Init
  OBVIOUS
<1>1. \A s \in Submissions : corrected[s].number = 0 /\ pc[s] = "evaluate"
  BY DEF Init, OneProcess, NoRow
<1>2. ASSUME NEW e \in Exercises PROVE OutcomesOf(e) = <<>> /\ CreditedOf(e) = {}
  <2>1. CorrectedOn(e) = {} /\ Count(e) = 0
    BY <1>1, CountZero DEF CorrectedOn
  <2>2. CreditedOf(e) = {}
    BY <2>1 DEF CreditedOf
  <2>3. OutcomesOf(e) \in Seq(BOOLEAN) /\ Len(OutcomesOf(e)) = 0
    BY <2>1, OutcomesAre
  <2>4. OutcomesOf(e) = <<>>
    BY <2>3
  <2> QED BY <2>2, <2>4
<1>3. PolicyShut = {}
  BY <1>1 DEF PolicyShut
<1> QED BY <1>2, <1>3 DEF Policy!Init, Init, PolicyShut

\* The processes of the submissions are settled by the requests.
LEMMA OneProcessStays ==
    [Next]_vars => (OneProcess' <=> OneProcess)
<1> SUFFICES ASSUME [Next]_vars PROVE OneProcess' <=> OneProcess
  OBVIOUS
<1>1. UNCHANGED request
  BY DEF Next, Step, Grading, GraderRefuses, Grade, StoreGrade, Correcting,
         EvaluateRefuses, EvaluateCloses, Evaluate, Correct, Rewarding, FindPoints,
         MissPoints, OpenPoints, OpenPointsCollides, Credit, ShowLevel, HandBack, Close,
         Fail, vars
<1> QED BY <1>1 DEF OneProcess, IsApi

\* With only HTTP submissions to one API process the handler implements the
\* policy whatever the interleaving and the failures: corrections are numbered
\* one after the other up to MaxAttempts, no submission is turned away before,
\* and each correction is rewarded at most once, with the points of its own
\* number and outcome (submit_exercise, evaluate, award_points).
THEOREM SubmissionsImplementPolicy == Spec => ImplementsPolicy
<1> DEFINE IInv ==
              RewardInv /\ LedgerMatchesAttempts /\ (OneProcess => PolicyInv)
<1>1. Init => IInv /\ (OneProcess => Policy!Init)
  <2>1. Init => RewardInv
    BY TypeInit, RowsInit, LockInit, TotalInit DEF RewardInv
  <2>2. Init => LedgerMatchesAttempts
    BY DEF Init, LedgerMatchesAttempts, NoEntry
  <2> QED BY <2>1, <2>2, PolicyInit, PolicyStarts
<1>2. IInv /\ [Next]_vars => IInv'
  <2>1. RewardInv /\ [Next]_vars => RewardInv'
    BY TypeStep, RowsStep, LockStep, TotalStep DEF RewardInv
  <2>2. RewardInv => TypeOK /\ RowsFollowPlace
    BY DEF RewardInv
  <2> QED BY <2>1, <2>2, LedgerStep, PolicyStep, OneProcessStays
<1>3. IInv /\ [Next]_vars => [OneProcess => Policy!Next]_(Policy!vars)
  <2> SUFFICES ASSUME IInv, [Next]_vars, OneProcess PROVE [Policy!Next]_(Policy!vars)
    OBVIOUS
  <2>1. TypeOK /\ RowsFollowPlace /\ LockInv /\ PolicyInv
    BY DEF RewardInv
  <2>2. ASSUME NEW s \in Submissions, Correct(s) PROVE Policy!Next
    BY <2>1, <2>2, CorrectSubmits
  <2>3. ASSUME NEW s \in Submissions, Credit(s) PROVE Policy!Next
    BY <2>1, <2>3, CreditRewards
  <2>4. ASSUME NEW s \in Submissions, EvaluateCloses(s) PROVE Policy!Next
    BY <2>1, <2>4, ClosesTurnAway
  <2> QED BY <2>1, <2>2, <2>3, <2>4, OtherStepsStutter
<1> QED BY <1>1, <1>2, <1>3, PTL DEF Spec, ImplementsPolicy

\* With only HTTP submissions to one API process an exercise gets at most
\* MaxAttempts corrections, and no two of them have the same number, which READ
\* COMMITTED alone does not give.
THEOREM CorrectionsAreNumbered == Spec => [](OneProcess => Numbered)
<1>1. Init => (OneProcess => PolicyInv)
  BY PolicyInit
<1>2. TypeOK /\ RowsFollowPlace /\ (OneProcess => PolicyInv) /\ [Next]_vars
        => (OneProcess => PolicyInv)'
  BY PolicyStep, OneProcessStays
<1>3. (OneProcess => PolicyInv) => (OneProcess => Numbered)
  BY DEF PolicyInv
<1> QED BY <1>1, <1>2, <1>3, RowsCorrect, PTL DEF Spec

-----------------------------------------------------------------------------
(* One API process: an exercise closes after its full correction *)

ShutInv ==
    /\ \A s \in Submissions :
          corrected[s].number > 0 =>
             corrected[s].level = next_correction_level(corrected[s].number,
                                                        corrected[s].success)
    /\ \A s \in Submissions :
          pc[s] = "closed" => /\ request[s].exercise \in Exercises
                              /\ Count(request[s].exercise) = MaxAttempts

LEMMA ShutStep ==
    ASSUME OneProcess, TypeOK, RowsFollowPlace, PolicyInv, ShutInv, [Next]_vars
    PROVE  ShutInv'
<1>1. ASSUME NEW s \in Submissions, Correct(s) PROVE ShutInv'
  <2>1. /\ pc' = [pc EXCEPT ![s] = "find_points"] \/ pc' = [pc EXCEPT ![s] = "answered"]
        /\ corrected' = [corrected EXCEPT
               ![s] = [number |-> number[s], success |-> verdict[s],
                       level |-> next_correction_level(number[s], verdict[s])]]
        /\ UNCHANGED request
    BY <1>1 DEF Correct, Goto
  <2>2. ASSUME NEW t \in Submissions, corrected'[t].number > 0
        PROVE  corrected'[t].level = next_correction_level(corrected'[t].number,
                                                           corrected'[t].success)
    <3>1. CASE t = s
      BY <2>1, <3>1 DEF TypeOK
    <3>2. CASE t # s
      BY <2>1, <2>2, <3>2 DEF TypeOK, ShutInv
    <3> QED BY <3>1, <3>2
  <2>3. ASSUME NEW t \in Submissions, pc'[t] = "closed"
        PROVE  /\ request'[t].exercise \in Exercises
               /\ Count(request[t].exercise)' = MaxAttempts
    <3>0. PICK e : e = request[t].exercise
      OBVIOUS
    <3>1. pc[t] = "closed"
      BY <2>1, <2>3 DEF TypeOK
    <3>2. e \in Exercises /\ Count(e) = MaxAttempts
      BY <3>0, <3>1 DEF ShutInv
    <3>3. e # request[s].exercise
      BY <1>1, <3>2, OutcomesGrow, RulesAssumption
    <3>4. Count(e)' = Count(e)
      BY <1>1, <3>3, CountMore
    <3> QED BY <2>1, <3>0, <3>2, <3>4
  <2> QED BY <2>2, <2>3 DEF ShutInv
<1>2. ASSUME UNCHANGED <<request, corrected>>,
             \A t \in Submissions : pc'[t] = "closed" =>
                 \/ pc[t] = "closed"
                 \/ /\ request[t].exercise \in Exercises
                    /\ Count(request[t].exercise) = MaxAttempts
      PROVE  ShutInv'
  <2>1. ASSUME NEW t \in Submissions, pc'[t] = "closed"
        PROVE  /\ request'[t].exercise \in Exercises
               /\ Count(request[t].exercise)' = MaxAttempts
    <3>0. PICK e : e = request[t].exercise
      OBVIOUS
    <3>1. e \in Exercises /\ Count(e) = MaxAttempts
      BY <1>2, <2>1, <3>0 DEF ShutInv
    <3> QED BY <1>2, <3>0, <3>1, CountKept
  <2> QED BY <1>2, <2>1 DEF ShutInv
<1>3. ASSUME NEW s \in Submissions, EvaluateCloses(s) PROVE ShutInv'
  BY <1>2, <1>3, FullWhenClosing DEF EvaluateCloses, Goto, TypeOK, attemptVars
<1>4. ASSUME \A s \in Submissions : ~Correct(s) /\ ~EvaluateCloses(s) PROVE ShutInv'
  <2>1. UNCHANGED <<request, corrected>>
    BY <1>4 DEF Next, Step, Grading, GraderRefuses, Grade, StoreGrade, Correcting,
         EvaluateRefuses, Evaluate, Rewarding, FindPoints, MissPoints, OpenPoints,
         OpenPointsCollides, Credit, ShowLevel, HandBack, Close, Fail, vars, attemptVars
  <2>2. \/ UNCHANGED pc
        \/ \E s \in Submissions, place \in Places \ {"closed"} : pc' = [pc EXCEPT ![s] = place]
    BY <1>4 DEF Next, Step, Grading, GraderRefuses, Grade, StoreGrade, Correcting,
         EvaluateRefuses, Evaluate, Rewarding, FindPoints, MissPoints, OpenPoints,
         OpenPointsCollides, Credit, ShowLevel, HandBack, Close, Fail, vars,
         Goto, Places, Final, InHandler
  <2> QED BY <1>2, <2>1, <2>2 DEF TypeOK
<1> QED BY <1>1, <1>3, <1>4

\* With only HTTP submissions to one API process no exercise closes on a pupil
\* who was not shown its full correction: one of the corrections made before is
\* "full" or "full_after_attempts" ("Apres 3 tentatives -> correction
\* complete").  Three attempts are needed: next_correction_level gives hints to
\* the first two.
THEOREM ClosedAfterFullCorrection ==
    ASSUME MaxAttempts >= 3
    PROVE  Spec => [](OneProcess =>
                         \A s \in Submissions : pc[s] = "closed" =>
                            \E t \in CorrectedOn(request[s].exercise) :
                               corrected[t].level \in {"full", "full_after_attempts"})
<1> DEFINE Shown == \A s \in Submissions : pc[s] = "closed" =>
                       \E t \in CorrectedOn(request[s].exercise) :
                          corrected[t].level \in {"full", "full_after_attempts"}
<1>1. Init => (OneProcess => PolicyInv /\ ShutInv)
  BY PolicyInit DEF Init, ShutInv, NoRow
<1>2. TypeOK /\ RowsFollowPlace /\ (OneProcess => PolicyInv /\ ShutInv) /\ [Next]_vars
        => (OneProcess => PolicyInv /\ ShutInv)'
  BY PolicyStep, ShutStep, OneProcessStays
<1>3. PolicyInv /\ ShutInv => Shown
  <2> SUFFICES ASSUME PolicyInv, ShutInv, NEW s \in Submissions, pc[s] = "closed"
               PROVE  \E t \in CorrectedOn(request[s].exercise) :
                         corrected[t].level \in {"full", "full_after_attempts"}
    OBVIOUS
  <2>1. PICK e \in Exercises : e = request[s].exercise /\ Count(e) = MaxAttempts
    BY DEF ShutInv
  <2>2. PICK t \in CorrectedOn(e) : corrected[t].number = MaxAttempts
    BY <2>1, RulesAssumption DEF PolicyInv, Numbered, NumberedOn
  <2>3. corrected[t].level = next_correction_level(corrected[t].number, corrected[t].success)
    BY <2>2 DEF ShutInv, CorrectedOn
  <2>4. corrected[t].level \in {"full", "full_after_attempts"}
    BY <2>2, <2>3, RulesAssumption DEF next_correction_level
  <2> QED BY <2>1, <2>4
<1> QED BY <1>1, <1>2, <1>3, RowsCorrect, PTL DEF Spec

-----------------------------------------------------------------------------
(* What stands behind EverySubmissionEnds *)

\* How many more steps a submission may take, at most.
Distance(place) ==
    CASE place = "grade"       -> 11
      [] place = "store_grade" -> 10
      [] place = "evaluate"    -> 9
      [] place = "correct"     -> 8
      [] place = "find_points" -> 7
      [] place = "open_points" -> 6
      [] place = "credit"      -> 5
      [] place = "show_level"  -> 4
      [] place = "hand_back"   -> 3
      [] place = "close"       -> 2
      [] OTHER                 -> 0

\* Every step of the system, failures included, takes one submission nearer to
\* its end and leaves the others where they are: no retry, no loop, no way back
\* in submit_exercise, the commands and award_points.
THEOREM SubmissionsRunDown ==
    Spec => [][\E s \in Submissions :
                  /\ Distance(pc'[s]) < Distance(pc[s])
                  /\ \A t \in Submissions \ {s} : pc'[t] = pc[t]]_vars
<1> DEFINE Nearer == \E s \in Submissions :
                        /\ Distance(pc'[s]) < Distance(pc[s])
                        /\ \A t \in Submissions \ {s} : pc'[t] = pc[t]
<1>1. ASSUME TypeOK, Next PROVE Nearer
  <2>1. PICK s \in Submissions : Step(s) \/ Fail(s)
    BY <1>1 DEF Next
  <2>2. ASSUME NEW place, Goto(s, place), Distance(place) < Distance(pc[s]) PROVE Nearer
    BY <1>1, <2>2 DEF Goto, TypeOK
  <2>3. CASE Grading(s)
    BY <2>2, <2>3 DEF Grading, GraderRefuses, Grade, StoreGrade, Distance
  <2>4. CASE Correcting(s)
    BY <2>2, <2>4
       DEF Correcting, EvaluateRefuses, EvaluateCloses, Evaluate, Correct, Distance
  <2>5. CASE Rewarding(s)
    BY <2>2, <2>5 DEF Rewarding, FindPoints, MissPoints, OpenPoints, OpenPointsCollides,
                      Credit, ShowLevel, HandBack, Close, Distance
  <2>6. CASE Fail(s)
    <3>1. pc[s] \in Places \ Final /\ Goto(s, "failed")
      BY <1>1, <2>6 DEF Fail, TypeOK
    <3>2. Distance("failed") < Distance(pc[s])
      BY <3>1 DEF Places, Final, InHandler, Distance
    <3> QED BY <2>2, <3>1, <3>2
  <2> QED BY <2>1, <2>3, <2>4, <2>5, <2>6 DEF Step
<1> QED BY <1>1, TypeCorrect, PTL DEF Spec

\* A submission that the lock on its pupil's row keeps from going on.
Waits(s) ==
    /\ ~LockFree(request[s].pupil)
    /\ \/ pc[s] = "find_points" /\ request[s].pupil \in opened
       \/ pc[s] = "open_points" /\ request[s].pupil \notin opened
       \/ pc[s] = "show_level"

\* A wait on a user_points row is for one submission of the same pupil, which
\* itself waits for no lock: whatever the number of submissions and processes,
\* waits do not chain up and never form a circle.
THEOREM WaitsAreForOne ==
    Spec => [](\A s \in Submissions : Waits(s) =>
                  \E h \in holders :
                     /\ request[h].pupil = request[s].pupil
                     /\ pc[h] \in {"credit", "hand_back", "close"} /\ ~Waits(h)
                     /\ \A k \in holders : request[k].pupil = request[s].pupil => k = h)
<1> DEFINE OneHolder ==
              \A s \in Submissions : Waits(s) =>
                 \E h \in holders :
                    /\ request[h].pupil = request[s].pupil
                    /\ pc[h] \in {"credit", "hand_back", "close"} /\ ~Waits(h)
                    /\ \A k \in holders : request[k].pupil = request[s].pupil => k = h
<1>1. RewardInv => OneHolder
  BY DEF RewardInv, LockInv, Waits, LockFree
<1> QED BY <1>1, RewardInvariant, PTL
=============================================================================
