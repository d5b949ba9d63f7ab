-------------------------- MODULE CorrectionRules --------------------------
(***************************************************************************)
(* The pure rules of the progressive correction and of the rewards: which  *)
(* correction a submission gets, how many points it earns, which level a   *)
(* total stands for.  They are functions of their arguments in the code    *)
(* too; every module about submissions uses these definitions.             *)
(***************************************************************************)
EXTENDS Naturals

CONSTANTS
    MaxAttempts,    \* max_attempts: submissions corrected per exercise (3)
    BasePoints,     \* points of a successful submission (5)
    FirstTryBonus,  \* bonus of a success at the first attempt (2)
    ConfirmedFrom,  \* total from which the level is "Confirme" (100)
    ExpertFrom      \* total from which the level is "Expert" (500)

ASSUME RulesAssumption ==
    /\ MaxAttempts \in Nat \ {0}
    /\ BasePoints \in Nat
    /\ FirstTryBonus \in Nat
    /\ ConfirmedFrom \in Nat
    /\ ExpertFrom \in Nat
    /\ ConfirmedFrom <= ExpertFrom

CorrectionLevels == {"partial", "partial_attempt_2", "full", "full_after_attempts"}

\* Mutated rule: the gate of next_correction_level with >= for >.
ClosingLevel(number, success) ==
    CASE number >= MaxAttempts     -> "closed"
      [] number < MaxAttempts /\ success -> "full"
      [] number < MaxAttempts /\ ~success -> "partial"

\* The pure state machine; the caller has already refused number > MaxAttempts.
next_correction_level(number, success) ==
    CASE success                   -> "full"
      [] ~success /\ number = 1    -> "partial"
      [] ~success /\ number = 2    -> "partial_attempt_2"
      [] OTHER                     -> "full_after_attempts"

bonus_points(number, success) ==
    IF success /\ number = 1 THEN FirstTryBonus ELSE 0

\* What the submit handler awards: nothing past the last attempt.
PointsFor(number, success) ==
    IF number > MaxAttempts
    THEN 0
    ELSE (IF success THEN BasePoints ELSE 0) + bonus_points(number, success)

Levels == {"Apprenti", "Confirme", "Expert"}

get_level(total) ==
    CASE total < ConfirmedFrom                        -> "Apprenti"
      [] ConfirmedFrom <= total /\ total < ExpertFrom -> "Confirme"
      [] OTHER                                        -> "Expert"

\* The order of the levels, for the properties that compare two of them.
LevelRank(label) ==
    CASE label = "Apprenti" -> 1
      [] label = "Confirme" -> 2
      [] label = "Expert"   -> 3
      [] OTHER              -> 0
=============================================================================
