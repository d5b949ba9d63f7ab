---------------------------- MODULE MCSubmission ----------------------------
(***************************************************************************)
(* Small instances of Submission: Ali owns one QCM, one free-form exercise *)
(* and one set of flashcards; Bea owns nothing and tries Ali's QCM.        *)
(***************************************************************************)
EXTENDS SubmissionRefinement, SequencesExt

MCOwner == [e \in Exercises |-> "ali"]

MCKind == [e \in Exercises |->
    CASE e = "quiz" -> "qcm" [] e = "essay" -> "text" [] OTHER -> "flashcards"]

Ask(pupil, exercise, client, process) ==
    [pupil |-> pupil, exercise |-> exercise, client |-> client, process |-> process]

\* The handler and the command on the same exercise, a request of a pupil who
\* does not own it, and one on an exercise that is not corrected; each in any
\* of as many processes as there are submissions.
MixedRequests ==
    UNION {{Ask("ali", "quiz", "api", n), Ask("ali", "quiz", "qcm", n),
            Ask("bea", "quiz", "api", n), Ask("ali", "cards", "api", n)} :
              n \in 1..Cardinality(Submissions)}

\* The handler of process 1 on two exercises.
HandlerRequests == {Ask("ali", "quiz", "api", 1), Ask("ali", "essay", "api", 1)}

MCRequests == MixedRequests \cup HandlerRequests

\* Every submission wants the same user_points row, in one process.
ApiRequests == {Ask("ali", "quiz", "api", 1)}

\* The submissions are interchangeable: one order of their requests is enough.
Rank(r) ==
    CASE r.client = "qcm" -> 1 [] r.exercise = "cards" -> 2
      [] r.pupil = "bea" -> 3 [] r.exercise = "essay" -> 4 [] OTHER -> 5

\* Either every submission has a process of its own, or one process serves all.
Deployed ==
    LET order == SetToSeq(Submissions)
        asked(i) == request[order[i]]
    IN  /\ \A i, j \in DOMAIN order : i < j => Rank(asked(i)) <= Rank(asked(j))
        /\ \/ \A i \in DOMAIN order : asked(i) \in MixedRequests /\ asked(i).process = i
           \/ \A i \in DOMAIN order : asked(i) \in HandlerRequests
=============================================================================
