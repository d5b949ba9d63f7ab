----------------------------- MODULE Submission -----------------------------
(***************************************************************************)
(* One submission of an exercise, from the request to the reply, and the   *)
(* PostgreSQL rows it reads and writes, for any number of submissions      *)
(* running in different processes.                                         *)
(*                                                                         *)
(* A submission comes from the HTTP handler submit_exercise ("api") or     *)
(* from one of the commands submit-qcm ("qcm") and submit-text ("text").   *)
(*                                                                         *)
(*   qcm, text : grade -> store_grade -> evaluate -> correct -> answered   *)
(*   api       : evaluate -> correct -> find_points -> [open_points] ->    *)
(*               credit -> show_level -> hand_back -> close -> answered    *)
(*                                                                         *)
(* A step is what one process does between two points at which another     *)
(* can act: a statement that reads, or a commit.  The isolation level is   *)
(* READ COMMITTED, so what was read may be stale at the commit.            *)
(*                                                                         *)
(* Attempt rows are kept by the submission that wrote them: graded[s] is   *)
(* the row of the grader, corrected[s] the row of the progressive          *)
(* correction.  A row of number 0 is a row that does not exist, which is   *)
(* also what MAX(attempt_number) over no row counts for.                   *)
(***************************************************************************)
EXTENDS CorrectionRules, FiniteSets

CONSTANTS
    Submissions,    \* the submissions, each one run of a handler or command
    Pupils,         \* the pseudos
    Exercises,      \* the rows of the exercises table
    Owner,          \* Exercise.student_pseudo
    Kind,           \* Exercise.type: "qcm", "text" or "flashcards"
    Requests        \* the requests the clients may make, and the process of each

Clients == {"api", "qcm", "text"}
Kinds == {"qcm", "text", "flashcards"}

ASSUME SubmissionAssumption ==
    /\ IsFiniteSet(Submissions)
    /\ Owner \in [Exercises -> Pupils]
    /\ Kind \in [Exercises -> Kinds]
    /\ \A r \in Requests : r.pupil \in Pupils /\ r.client \in Clients

VARIABLES
    pc,         \* where each submission is
    request,    \* [pupil, exercise, client, process] of each submission
    number,     \* attempt_number computed by the submission
    verdict,    \* is_success of the submission
    graded,     \* attempts: the row QcmGrader / TextGrader persisted
    corrected,  \* attempts: the row ProgressiveCorrectionService persisted
    opened,     \* pupils with a user_points row
    total,      \* user_points.total_points, 0 while there is no row
    holders,    \* submissions holding the lock on their pupil's user_points row
    seen,       \* total_points as the submission read it
    ledger,     \* reward_ledger: the row of each submission
    notified,   \* submissions whose POINTS_AWARDED notification exists
    reply       \* level label in the reply of the handler

attemptVars == <<graded, corrected>>
rewardVars == <<opened, total, holders, seen, ledger, notified>>
vars == <<pc, request, number, verdict, attemptVars, rewardVars, reply>>

NoRow == [number |-> 0, success |-> FALSE, level |-> "none"]
AttemptRow == [number : Nat, success : BOOLEAN, level : CorrectionLevels \cup {"none"}]

NoEntry == [number |-> 0, success |-> FALSE, points |-> 0]
LedgerRow == [number : Nat, success : BOOLEAN, points : Nat]

Final == {"answered", "refused", "closed", "failed"}
InHandler == {"correct", "find_points", "open_points", "credit", "show_level"}
Places ==
    {"grade", "store_grade", "evaluate", "hand_back", "close"} \cup InHandler \cup Final

-----------------------------------------------------------------------------
(* What the queries return *)

IsApi(s) == request[s].client = "api"

\* The submissions whose attempts a query on (pseudo, exercise_id) of s sees.
Siblings(s) ==
    {t \in Submissions : /\ request[t].pupil = request[s].pupil
                         /\ request[t].exercise = request[s].exercise}

AttemptNumbers(s) ==
    {graded[t].number : t \in Siblings(s)} \cup {corrected[t].number : t \in Siblings(s)}

\* Mutated rule: COUNT(*) + 1 instead of MAX(attempt_number) + 1.
CountAttemptNumber(s) ==
    {Cardinality({t \in Siblings(s) : graded[t].number > 0})
       + Cardinality({t \in Siblings(s) : corrected[t].number > 0}) + 1}

\* The single value _next_attempt_number returns: MAX(attempt_number) + 1.
next_attempt_number(s) ==
    LET numbers == AttemptNumbers(s) IN
    {m + 1 : m \in {n \in numbers : \A k \in numbers : k <= n}}

OwnsExercise(s) ==
    /\ request[s].exercise \in Exercises
    /\ Owner[request[s].exercise] = request[s].pupil

\* The grader's guards on the exercise: QcmGrader wants questions, TextGrader
\* a free-form type.
GraderAccepts(s) == OwnsExercise(s) /\ Kind[request[s].exercise] = request[s].client

ProgressiveAccepts(s) == OwnsExercise(s) /\ Kind[request[s].exercise] # "flashcards"

LockFree(p) == \A h \in holders : request[h].pupil # p

-----------------------------------------------------------------------------
Init ==
    /\ request \in [Submissions -> Requests]
    /\ pc = [s \in Submissions |-> IF IsApi(s) THEN "evaluate" ELSE "grade"]
    /\ number = [s \in Submissions |-> 0]
    /\ verdict = [s \in Submissions |-> FALSE]
    /\ graded = [s \in Submissions |-> NoRow]
    /\ corrected = [s \in Submissions |-> NoRow]
    /\ opened = {}
    /\ total = [p \in Pupils |-> 0]
    /\ holders = {}
    /\ seen = [s \in Submissions |-> 0]
    /\ ledger = [s \in Submissions |-> NoEntry]
    /\ notified = {}
    /\ reply = [s \in Submissions |-> "none"]

Goto(s, place) == pc' = [pc EXCEPT ![s] = place]

-----------------------------------------------------------------------------
(* QcmGrader.grade, TextGrader.grade: called by the commands only *)

\* Unknown or foreign exercise, wrong type, malformed answers, LLM down or
\* without a verdict: nothing is written.
GraderRefuses(s) ==
    /\ pc[s] = "grade"
    /\ Goto(s, "refused")
    /\ UNCHANGED <<request, number, verdict, attemptVars, rewardVars, reply>>

\* The verdict, then the attempt number.
Grade(s) ==
    /\ pc[s] = "grade"
    /\ GraderAccepts(s)
    /\ \E n \in next_attempt_number(s) : number' = [number EXCEPT ![s] = n]
    /\ \E v \in BOOLEAN : verdict' = [verdict EXCEPT ![s] = v]
    /\ Goto(s, "store_grade")
    /\ UNCHANGED <<request, attemptVars, rewardVars, reply>>

\* The grader commits an attempt of its own, without a correction level.
StoreGrade(s) ==
    /\ pc[s] = "store_grade"
    /\ graded' = [graded EXCEPT
            ![s] = [number |-> number[s], success |-> verdict[s], level |-> "none"]]
    /\ Goto(s, "evaluate")
    /\ UNCHANGED <<request, number, verdict, corrected, rewardVars, reply>>

-----------------------------------------------------------------------------
(* ProgressiveCorrectionService.evaluate *)

EvaluateRefuses(s) ==
    /\ pc[s] = "evaluate"
    /\ ~ProgressiveAccepts(s)
    /\ Goto(s, "refused")
    /\ UNCHANGED <<request, number, verdict, attemptVars, rewardVars, reply>>

\* Mutated handler: an await in its body lets other coroutines run.
MayAlwaysRun(s) == s \in Submissions

\* submit_exercise has no await in its body: within one server process the
\* event loop runs it from the first query to the reply without switching,
\* also while it waits for a row lock.
MayRun(s) ==
    IsApi(s) =>
        \A t \in Submissions :
            IsApi(t) /\ request[t].process = request[s].process => pc[t] \notin InHandler

\* Mutated gate: closes at the last attempt that is still allowed.
EarlyClose(s) ==
    /\ pc[s] = "evaluate"
    /\ ProgressiveAccepts(s)
    /\ MayRun(s)
    /\ \E n \in next_attempt_number(s) : n >= MaxAttempts
    /\ Goto(s, "closed")
    /\ UNCHANGED <<request, number, verdict, attemptVars, rewardVars, reply>>

\* The attempt that would be one too many: the exercise is closed.
EvaluateCloses(s) ==
    /\ pc[s] = "evaluate"
    /\ ProgressiveAccepts(s)
    /\ MayRun(s)
    /\ \E n \in next_attempt_number(s) : n > MaxAttempts
    /\ Goto(s, "closed")
    /\ UNCHANGED <<request, number, verdict, attemptVars, rewardVars, reply>>

\* Mutated gate: refuses only past one attempt more.
LateGate(s) ==
    /\ pc[s] = "evaluate"
    /\ ProgressiveAccepts(s)
    /\ MayRun(s)
    /\ \E n \in next_attempt_number(s) :
          /\ n <= MaxAttempts + 1
          /\ number' = [number EXCEPT ![s] = n]
    /\ \E v \in BOOLEAN :
          /\ ~IsApi(s) => v = verdict[s]
          /\ verdict' = [verdict EXCEPT ![s] = v]
    /\ Goto(s, "correct")
    /\ UNCHANGED <<request, attemptVars, rewardVars, reply>>

\* Read MAX, pass the gate, then call the grade callback: the handler's stub
\* grades here, the commands' callback returns the grader's verdict.
Evaluate(s) ==
    /\ pc[s] = "evaluate"
    /\ ProgressiveAccepts(s)
    /\ MayRun(s)
    /\ \E n \in next_attempt_number(s) :
          /\ n <= MaxAttempts
          /\ number' = [number EXCEPT ![s] = n]
    /\ \E v \in BOOLEAN :
          /\ ~IsApi(s) => v = verdict[s]
          /\ verdict' = [verdict EXCEPT ![s] = v]
    /\ Goto(s, "correct")
    /\ UNCHANGED <<request, attemptVars, rewardVars, reply>>

\* Commit the attempt with its level.  The commands stop here: only the HTTP
\* handler awards points.
Correct(s) ==
    /\ pc[s] = "correct"
    /\ corrected' = [corrected EXCEPT
            ![s] = [number |-> number[s], success |-> verdict[s],
                    level |-> next_correction_level(number[s], verdict[s])]]
    /\ Goto(s, IF IsApi(s) THEN "find_points" ELSE "answered")
    /\ UNCHANGED <<request, number, verdict, graded, rewardVars, reply>>

-----------------------------------------------------------------------------
(* RewardLedgerService.award_points: one transaction *)

\* Mutated read: a plain SELECT, which neither waits for the row nor locks it.
FindPointsUnlocked(s) ==
    /\ pc[s] = "find_points"
    /\ request[s].pupil \in opened
    /\ seen' = [seen EXCEPT ![s] = total[request[s].pupil]]
    /\ Goto(s, "credit")
    /\ UNCHANGED <<request, number, verdict, attemptVars, opened, total, holders,
                   ledger, notified, reply>>

\* SELECT ... FOR UPDATE finds the row: wait for the lock, take it, read.
FindPoints(s) ==
    /\ pc[s] = "find_points"
    /\ request[s].pupil \in opened
    /\ LockFree(request[s].pupil)
    /\ holders' = holders \cup {s}
    /\ seen' = [seen EXCEPT ![s] = total[request[s].pupil]]
    /\ Goto(s, "credit")
    /\ UNCHANGED <<request, number, verdict, attemptVars, opened, total,
                   ledger, notified, reply>>

\* SELECT ... FOR UPDATE finds no committed row: nothing is locked.
MissPoints(s) ==
    /\ pc[s] = "find_points"
    /\ request[s].pupil \notin opened
    /\ Goto(s, "open_points")
    /\ UNCHANGED <<request, number, verdict, attemptVars, rewardVars, reply>>

\* Flush the INSERT of a row at 0.  The primary key makes it wait for another
\* insertion in progress; the new row is this transaction's until it ends.
OpenPoints(s) ==
    /\ pc[s] = "open_points"
    /\ request[s].pupil \notin opened
    /\ LockFree(request[s].pupil)
    /\ holders' = holders \cup {s}
    /\ seen' = [seen EXCEPT ![s] = 0]
    /\ Goto(s, "credit")
    /\ UNCHANGED <<request, number, verdict, attemptVars, opened, total,
                   ledger, notified, reply>>

\* Another transaction committed the row first: IntegrityError, which nobody
\* catches.  The attempt is committed, its reward is lost.
OpenPointsCollides(s) ==
    /\ pc[s] = "open_points"
    /\ request[s].pupil \in opened
    /\ Goto(s, "failed")
    /\ UNCHANGED <<request, number, verdict, attemptVars, rewardVars, reply>>

\* Mutated commit: the lock outlives the transaction.
CreditKeepsLock(s) ==
    LET awarded == PointsFor(number[s], verdict[s]) IN
    /\ pc[s] = "credit"
    /\ ledger' = [ledger EXCEPT
            ![s] = [number |-> number[s], success |-> verdict[s], points |-> awarded]]
    /\ opened' = opened \cup {request[s].pupil}
    /\ total' = [total EXCEPT ![request[s].pupil] = seen[s] + awarded]
    /\ notified' = IF awarded > 0 THEN notified \cup {s} ELSE notified
    /\ Goto(s, "show_level")
    /\ UNCHANGED <<request, number, verdict, attemptVars, holders, seen, reply>>

\* The commit: ledger row, total, notification, and the lock is released.
Credit(s) ==
    LET awarded == PointsFor(number[s], verdict[s]) IN
    /\ pc[s] = "credit"
    /\ ledger' = [ledger EXCEPT
            ![s] = [number |-> number[s], success |-> verdict[s], points |-> awarded]]
    /\ opened' = opened \cup {request[s].pupil}
    /\ total' = [total EXCEPT ![request[s].pupil] = seen[s] + awarded]
    /\ notified' = IF awarded > 0 THEN notified \cup {s} ELSE notified
    /\ holders' = holders \ {s}
    /\ Goto(s, "show_level")
    /\ UNCHANGED <<request, number, verdict, attemptVars, seen, reply>>

\* Back in submit_exercise: lock and read the total again for the level.  The
\* handler does not commit: the lock is kept until the session is closed.
ShowLevel(s) ==
    /\ pc[s] = "show_level"
    /\ LockFree(request[s].pupil)
    /\ holders' = holders \cup {s}
    /\ reply' = [reply EXCEPT ![s] = get_level(total[request[s].pupil])]
    /\ Goto(s, "hand_back")
    /\ UNCHANGED <<request, number, verdict, attemptVars, opened, total, seen,
                   ledger, notified>>

\* The coroutine yields to the event loop, which hands the exit of get_db to
\* a worker thread as soon as no other handler occupies it.
HandBack(s) ==
    /\ pc[s] = "hand_back"
    /\ MayRun(s)
    /\ Goto(s, "close")
    /\ UNCHANGED <<request, number, verdict, attemptVars, rewardVars, reply>>

\* get_db: session.close() rolls the open transaction back.
Close(s) ==
    /\ pc[s] = "close"
    /\ holders' = holders \ {s}
    /\ Goto(s, "answered")
    /\ UNCHANGED <<request, number, verdict, attemptVars, opened, total, seen,
                   ledger, notified, reply>>

-----------------------------------------------------------------------------
\* Mutated rollback: points are awarded although the attempt was not stored.
FailCarriesOn(s) ==
    /\ pc[s] \notin Final
    /\ holders' = holders \ {s}
    /\ Goto(s, IF pc[s] = "correct" /\ IsApi(s) THEN "find_points" ELSE "failed")
    /\ UNCHANGED <<request, number, verdict, attemptVars, opened, total, seen,
                   ledger, notified, reply>>

\* The database refuses the transaction in progress, or the process dies: the
\* transaction is rolled back, its lock released, what is committed stays.
Fail(s) ==
    /\ pc[s] \notin Final
    /\ holders' = holders \ {s}
    /\ Goto(s, "failed")
    /\ UNCHANGED <<request, number, verdict, attemptVars, opened, total, seen,
                   ledger, notified, reply>>

Grading(s) == GraderRefuses(s) \/ Grade(s) \/ StoreGrade(s)

Correcting(s) ==
    EvaluateRefuses(s) \/ EvaluateCloses(s) \/ Evaluate(s) \/ Correct(s)

Rewarding(s) ==
    \/ FindPoints(s) \/ MissPoints(s) \/ OpenPoints(s) \/ OpenPointsCollides(s)
    \/ Credit(s) \/ ShowLevel(s) \/ HandBack(s) \/ Close(s)

Step(s) == Grading(s) \/ Correcting(s) \/ Rewarding(s)

Next == \E s \in Submissions : Step(s) \/ Fail(s)

\* A process that can run does: the operating system schedules it, and
\* PostgreSQL wakes the waiters of a lock.  Nothing makes Fail happen.
Fairness == \A s \in Submissions : WF_vars(Step(s))

Spec == Init /\ [][Next]_vars /\ Fairness

-----------------------------------------------------------------------------
(* Properties *)

TypeOK ==
    /\ pc \in [Submissions -> Places]
    /\ request \in [Submissions -> Requests]
    /\ number \in [Submissions -> Nat]
    /\ verdict \in [Submissions -> BOOLEAN]
    /\ graded \in [Submissions -> AttemptRow]
    /\ corrected \in [Submissions -> AttemptRow]
    /\ opened \subseteq Pupils
    /\ total \in [Pupils -> Nat]
    /\ holders \subseteq Submissions
    /\ seen \in [Submissions -> Nat]
    /\ ledger \in [Submissions -> LedgerRow]
    /\ notified \subseteq Submissions
    /\ reply \in [Submissions -> Levels \cup {"none"}]

\* The attempt numbers of a pupil on an exercise have no hole, whatever the
\* interleaving of graders, corrections and failures: below a row numbered
\* n > 1 there is one numbered n - 1.  MAX + 1 gives it although two
\* concurrent submissions may share a number (_next_attempt_number).
NumbersWithoutGaps ==
    \A s \in Submissions :
        LET numbers == AttemptNumbers(s) IN
        \A n \in numbers : n > 1 => n - 1 \in numbers

SuccessEntries(p) ==
    {s \in Submissions : request[s].pupil = p /\ ledger[s].success}

FirstTryEntries(p) == {s \in SuccessEntries(p) : ledger[s].number = 1}

\* The denormalised total of a pupil is what the ledger rows add up to:
\* BasePoints per successful row, FirstTryBonus more per success at the first
\* attempt.  It is what SELECT ... FOR UPDATE is for (award_points, AC5).
TotalMatchesLedger ==
    \A p \in Pupils :
        total[p] = BasePoints * Cardinality(SuccessEntries(p))
                     + FirstTryBonus * Cardinality(FirstTryEntries(p))

\* Attempts, ledger and notifications tell one story although two
\* transactions write them: a ledger row repeats a committed attempt, an
\* submission told its level has both, and the pupil is notified exactly of
\* the rows that bring points.
LedgerMatchesAttempts ==
    \A s \in Submissions :
        /\ ledger[s].number > 0 =>
              /\ ledger[s].number = corrected[s].number
              /\ ledger[s].success = corrected[s].success
        /\ reply[s] # "none" => ledger[s].number > 0
        /\ s \in notified <=> ledger[s].points > 0

\* A level told to a pupil is never taken back: the current total still
\* stands for at least the level of every reply already sent.
LevelNeverLost ==
    \A s \in Submissions :
        LevelRank(reply[s]) <= LevelRank(get_level(total[request[s].pupil]))

\* Attempts and ledger are append-only, and a total never decreases (AC8).
AppendOnly ==
    [][\A s \in Submissions :
          /\ graded[s].number > 0 => graded'[s] = graded[s]
          /\ corrected[s].number > 0 => corrected'[s] = corrected[s]
          /\ ledger[s].number > 0 => ledger'[s] = ledger[s]
          /\ total'[request[s].pupil] >= total[request[s].pupil]]_vars

\* No two handlers run in one process.
OwnProcesses ==
    \A s, t \in Submissions :
        IsApi(s) /\ IsApi(t) /\ request[s].process = request[t].process => s = t

\* Every submission ends: no wait on a user_points row lasts for ever, even
\* when the holder of its lock fails.  Handlers of one process may also wait
\* for its event loop, see EverySessionCloses.
EverySubmissionEnds == OwnProcesses => <>(\A s \in Submissions : pc[s] \in Final)

-----------------------------------------------------------------------------
(* What the documentation says and the code does not do *)

\* The session of a request is closed ("yield a session, ensure close"), and
\* the lock it holds with it.
EverySessionCloses ==
    \A s \in Submissions : (s \in holders) ~> (s \notin holders)
=============================================================================
