---------------------------- MODULE BanditLearning ----------------------------
(***************************************************************************)
(* Learning which candidate of one origin-destination pair to take from    *)
(* the outcomes of trips (learning/od_ucb.py, learning/experience.py).     *)
(* Choices are made when trips start; outcomes come back later, in any     *)
(* order, and several trips are under way at once.                         *)
(*                                                                         *)
(* Rewards are counted in parts of RewardUnit, estimates are fractions.    *)
(* The exploration bonus (a square root of a logarithm) is abstracted to   *)
(* what it is sure to decide: an untried arm beats any tried one, and an   *)
(* arm with a higher estimate and no more pulls beats the other.           *)
(***************************************************************************)
EXTENDS Integers, FiniteSets, FiniteSetsExt

CONSTANTS
    Ranks,        \* of the candidates: what the bandit chooses from
    Trips,
    Times,        \* observed travel times; Absent when not observed
    RewardUnit

Absent == -1
Outcomes == {"completed", "failed"}

ASSUME BanditAssumption ==
    /\ Ranks \subseteq Nat /\ Ranks # {} /\ IsFiniteSet(Ranks) /\ IsFiniteSet(Trips)
    /\ RewardUnit \in Nat \ {0}
    /\ \A t \in Times \ {Absent} : t \in Nat /\ RewardUnit % (t + 1) = 0

VARIABLES
    pulls, estimate,   \* pull_count, estimated_reward [num, den]
    chosen,            \* of each trip: its arm while under way, Absent before and after
    stage,             \* of each trip: "waiting", "under_way" or "learned"
    earned             \* total reward paid to each arm, not kept by the code

banditVars == <<pulls, estimate, chosen, stage, earned>>

BanditInit ==
    /\ pulls = [a \in Ranks |-> 0]
    /\ estimate = [a \in Ranks |-> [num |-> 0, den |-> 1]]
    /\ chosen = [t \in Trips |-> Absent]
    /\ stage = [t \in Trips |-> "waiting"]
    /\ earned = [a \in Ranks |-> 0]

\* compute_trip_outcome_reward without a baseline time: quick is better either way.
Reward(outcome, time) ==
    LET quickness == IF time = Absent THEN IF outcome = "completed" THEN RewardUnit ELSE 0
                     ELSE RewardUnit \div (time + 1)
    IN  IF outcome = "completed" THEN quickness ELSE quickness - RewardUnit

AtLeast(f, g) == f.num * g.den >= g.num * f.den

\* Where the order of two scores is certain; ties go to the lower index.
Beats(a, b) ==
    IF pulls[a] = 0 \/ pulls[b] = 0
    THEN pulls[a] = 0 /\ (pulls[b] = 0 => a < b)
    ELSE /\ AtLeast(estimate[a], estimate[b]) /\ pulls[a] <= pulls[b]
         /\ (AtLeast(estimate[b], estimate[a]) /\ pulls[a] = pulls[b]) => a < b

Selectable == {a \in Ranks : \A b \in Ranks \ {a} : ~Beats(b, a)}

Start(t) ==
    /\ stage[t] = "waiting"
    /\ \E a \in Selectable : chosen' = [chosen EXCEPT ![t] = a]
    /\ stage' = [stage EXCEPT ![t] = "under_way"]
    /\ UNCHANGED <<pulls, estimate, earned>>

StepByOldCount(mean, reward, n) ==
    LET m == IF n > 1 THEN n - 1 ELSE 1
    IN  [num |-> mean.num * m + (reward * mean.den - mean.num), den |-> mean.den * m]

\* prev_mean + (reward - prev_mean) / n, with n the count including this reward.
Stepped(mean, reward, n) ==
    [num |-> mean.num * n + (reward * mean.den - mean.num), den |-> mean.den * n]

Learn(t, outcome, time) ==
    LET a == chosen[t]
        reward == Reward(outcome, time)
    IN  /\ stage[t] = "under_way"
        /\ pulls' = [pulls EXCEPT ![a] = @ + 1]
        /\ estimate' = [estimate EXCEPT ![a] = Stepped(@, reward, pulls[a] + 1)]
        /\ earned' = [earned EXCEPT ![a] = @ + reward]
        /\ stage' = [stage EXCEPT ![t] = "learned"]
        /\ chosen' = [chosen EXCEPT ![t] = Absent]

StartAny == \E t \in Trips : Start(t)
LearnAny == \E t \in Trips, outcome \in Outcomes, time \in Times : Learn(t, outcome, time)

BanditNext == StartAny \/ LearnAny

BanditSpec == BanditInit /\ [][BanditNext]_banditVars

----------------------------------------------------------------------------
MeansExact == \A a \in Ranks : estimate[a].num * pulls[a] = earned[a] * estimate[a].den

\* An estimate is the mean of the rewards its arm has earned, in whatever order they
\* came: the incremental step loses nothing, and no outcome is counted twice.
EstimateIsMean ==
    /\ MeansExact
    /\ MapThenSumSet(LAMBDA a : pulls[a], Ranks)
         = Cardinality({t \in Trips : stage[t] = "learned"})
=============================================================================
