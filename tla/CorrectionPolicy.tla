-------------------------- MODULE CorrectionPolicy --------------------------
(***************************************************************************)
(* What the progressive correction promises a pupil, without processes,    *)
(* rows or transactions: an exercise takes at most MaxAttempts corrected   *)
(* submissions, each is numbered by its place, and the latest one may be   *)
(* rewarded, once, by the points of its number and outcome.                *)
(***************************************************************************)
EXTENDS CorrectionRules, Sequences, FiniteSets

CONSTANTS Pupils, Exercises, Owner

VARIABLES
    outcomes,   \* outcomes[e]: is_success of the corrected submissions, in order
    credited,   \* credited[e]: numbers of the submissions rewarded
    balance,    \* balance[p]: points of a pupil
    shut        \* exercises that have turned a submission away

vars == <<outcomes, credited, balance, shut>>

Init ==
    /\ outcomes = [e \in Exercises |-> <<>>]
    /\ credited = [e \in Exercises |-> {}]
    /\ balance = [p \in Pupils |-> 0]
    /\ shut = {}

Submit(e) ==
    /\ Len(outcomes[e]) < MaxAttempts
    /\ \E v \in BOOLEAN : outcomes' = [outcomes EXCEPT ![e] = Append(@, v)]
    /\ UNCHANGED <<credited, balance, shut>>

\* A reward that was lost stays lost: only the latest submission gets one.
Reward(e) ==
    LET n == Len(outcomes[e]) IN
    /\ n > 0
    /\ n \notin credited[e]
    /\ credited' = [credited EXCEPT ![e] = @ \cup {n}]
    /\ balance' = [balance EXCEPT ![Owner[e]] = @ + PointsFor(n, outcomes[e][n])]
    /\ UNCHANGED <<outcomes, shut>>

\* Only an exercise with all its corrections is closed to a submission.
TurnAway(e) ==
    /\ Len(outcomes[e]) = MaxAttempts
    /\ shut' = shut \cup {e}
    /\ UNCHANGED <<outcomes, credited, balance>>

Next == \E e \in Exercises : Submit(e) \/ Reward(e) \/ TurnAway(e)

Spec == Init /\ [][Next]_vars
=============================================================================
