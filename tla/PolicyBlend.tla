----------------------------- MODULE PolicyBlend -----------------------------
(***************************************************************************)
(* Mixing the baseline's costs with learned preferences over one set of    *)
(* candidates, and falling back to the baseline (routing/policy_mixer.py,  *)
(* learning/policy_blend.py).  The caller keeps the blend state from one   *)
(* decision to the next.  Mix coefficients count in parts of Whole, and    *)
(* normalised scores are compared as fractions, without rounding.          *)
(***************************************************************************)
EXTENDS Integers, FiniteSets, FiniteSetsExt

CONSTANTS
    Arms,            \* indices of the candidates
    Whole,           \* the mix coefficient 1.0
    LambdaMin, LambdaMax,
    Targets,         \* coefficients asked for
    BaselineCosts,   \* functions of Arms: lower is better
    AdaptiveScores   \* functions of Arms: higher is better

None == -1

ASSUME BlendAssumption ==
    /\ Arms \subseteq Nat /\ Arms # {} /\ IsFiniteSet(Arms)
    /\ Whole \in Nat \ {0}
    /\ LambdaMin \in 0..Whole /\ LambdaMax \in LambdaMin..Whole
    /\ Targets \subseteq Int /\ None \notin Targets
    /\ BaselineCosts \subseteq [Arms -> Int] /\ AdaptiveScores \subseteq [Arms -> Int]

VARIABLES
    blend,   \* PolicyBlendState: lambda_mix, baseline_only_mode, fallback_reason
    last     \* the decision taken last: what it was given, and its arm

blendVars == <<blend, last>>

Situations ==
    [target : Targets \cup {None}, bounded : BOOLEAN, learning : BOOLEAN, incident : BOOLEAN,
     signal : BOOLEAN, valid : BOOLEAN, baseline : BaselineCosts, adaptive : AdaptiveScores]

NoDecision == [arm |-> None]

BlendInit ==
    /\ blend = [lambda |-> 0, baselineOnly |-> TRUE, reason |-> "none"]
    /\ last = NoDecision

Clip(x, low, high) == IF x < low THEN low ELSE IF x > high THEN high ELSE x

\* compute_policy_mix_lambda, or with_lambda when no bounds are given.
Mix(s) ==
    IF ~s.bounded THEN Clip(s.target, 0, Whole)
    ELSE IF s.learning THEN Clip(s.target, LambdaMin, LambdaMax) ELSE 0

\* A target sets the coefficient anew, and with it whether learning has a say.
Targeted(b, s) ==
    IF s.target = None THEN b
    ELSE [lambda |-> Mix(s), baselineOnly |-> Mix(s) <= 0, reason |-> "none"]

FallBack(b, reason) == [b EXCEPT !.baselineOnly = TRUE, !.reason = reason]

\* apply_policy_blend_control: the first condition that holds gives the reason.
Controlled(b, s) ==
    LET targeted == Targeted(b, s)
    IN  IF ~s.learning THEN FallBack([targeted EXCEPT !.lambda = 0], "no_signal")
        ELSE IF s.incident THEN FallBack(targeted, "incident_mode")
        ELSE IF ~s.signal THEN FallBack(targeted, "no_signal")
        ELSE IF ~s.valid THEN FallBack(targeted, "invalid_output")
        ELSE [targeted EXCEPT !.reason = "none"]

\* normalize_route_preference_scores_core: scores spread over 0..1, or all 1 when level.
\* A preference is the fraction Share / Spread.
Spread(score) ==
    LET values == {score[a] : a \in Arms} IN IF Cardinality(values) = 1 THEN 1 ELSE Max(values) - Min(values)
Share(score, a) ==
    LET values == {score[x] : x \in Arms}
    IN  IF Cardinality(values) = 1 THEN 1 ELSE score[a] - Min(values)

UtilityOfCost(cost) == cost

Utility(cost) == [a \in Arms |-> -cost[a]]

\* The mixed score of an arm, times Whole and both spreads.
Weight(b, s, a) ==
    LET base == Utility(s.baseline)
    IN  IF b.baselineOnly \/ b.lambda <= 0 THEN Share(base, a)
        ELSE (Whole - b.lambda) * Share(base, a) * Spread(s.adaptive)
               + b.lambda * Share(s.adaptive, a) * Spread(base)

\* argmax: the first of the best.
BestArm(b, s) ==
    Min({a \in Arms : \A x \in Arms : Weight(b, s, a) >= Weight(b, s, x)})

Decide(s) ==
    /\ blend' = Controlled(blend, s)
    /\ last' = [given |-> s, arm |-> BestArm(Controlled(blend, s), s)]

BlendNext == \E s \in Situations : Decide(s)

BlendSpec == BlendInit /\ [][BlendNext]_blendVars

----------------------------------------------------------------------------
Cheapest(s, a) == \A x \in Arms : s.baseline[a] <= s.baseline[x]
BetterBothWays(s, x, a) == s.baseline[x] < s.baseline[a] /\ s.adaptive[x] > s.adaptive[a]

\* Learning never makes a trip take an arm another one beats on cost and on preference:
\* what is taken is the cheapest, or not beaten on both.
NeverBeatenBothWays ==
    last # NoDecision =>
        \/ Cheapest(last.given, last.arm)
        \/ /\ ~blend.baselineOnly
           /\ \A x \in Arms : ~BetterBothWays(last.given, x, last.arm)

=============================================================================
