------------------------ MODULE SubmissionRefinement ------------------------
(***************************************************************************)
(* The handlers of one API process implement CorrectionPolicy: the         *)
(* corrections of an exercise are its corrected rows by number, what is    *)
(* credited are its ledger rows, a balance is total_points, an exercise is *)
(* shut when a submission on it was closed.                                *)
(***************************************************************************)
EXTENDS Submission, Sequences

CorrectedOn(e) ==
    {s \in Submissions : request[s].exercise = e /\ corrected[s].number > 0}

OutcomesOf(e) ==
    [n \in 1..Cardinality(CorrectedOn(e)) |->
        \E s \in CorrectedOn(e) : corrected[s].number = n /\ corrected[s].success]

CreditedOf(e) ==
    {ledger[s].number : s \in {t \in CorrectedOn(e) : ledger[t].number > 0}}

Policy == INSTANCE CorrectionPolicy WITH
    outcomes <- [e \in Exercises |-> OutcomesOf(e)],
    credited <- [e \in Exercises |-> CreditedOf(e)],
    balance <- total,
    shut <- {request[s].exercise : s \in {t \in Submissions : pc[t] = "closed"}}

\* Every submission comes from the handler of one server process.
OneProcess ==
    /\ \A s \in Submissions : IsApi(s)
    /\ \A s, t \in Submissions : request[s].process = request[t].process

\* The handler run by one process implements the policy: at most MaxAttempts
\* corrections per exercise and no submission turned away before ("Apres 3
\* tentatives -> correction complete"), numbered in order, each rewarded at most
\* once and with the points of its number, a reward lost to a failure not
\* caught up.
ImplementsPolicy ==
    /\ OneProcess => Policy!Init
    /\ [][OneProcess => Policy!Next]_(Policy!vars)
=============================================================================
