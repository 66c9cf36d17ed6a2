---------------------------- MODULE AirdropRules ----------------------------
(***************************************************************************)
(* airdrop/rules.py and check_eligibility of airdrop/engine.py: the rules  *)
(* of a campaign against the numbers a user has.                           *)
(***************************************************************************)
EXTENDS Integers, Sequences

CONSTANTS
    Rules,      \* the rules of each campaign: type, threshold, required or not
    MaxNumber   \* bound on a user's numbers, for TLC

KnownTypes == {"min_volume", "min_trades", "network_activity", "holding_duration"}

Rule == [type : KnownTypes \cup {"misspelled"}, least : Nat, required : BOOLEAN]

ASSUME RulesAssumption == \A k \in DOMAIN Rules : Rules[k] \in Seq(Rule)

VARIABLES
    number,     \* per type of rule the user's number, 0 when user_data has none
    eligible    \* history: campaigns the user was told to be eligible for

rulesVars == <<number, eligible>>

\* Types of the state.
RulesTypeOK ==
    /\ number \in [KnownTypes -> Nat]
    /\ eligible \in SUBSET DOMAIN Rules

RulesInit ==
    /\ number = [t \in KnownTypes |-> 0]
    /\ eligible = {}

\* Mutant of Check: a limit from above.
CheckAtMost(rule, numbers) == numbers[rule.type] <= rule.least

\* check of the four rules: at least the threshold.
Check(rule, numbers) == numbers[rule.type] >= rule.least

\* create_rule finds a builder for the type.
Created(rule) == rule.type \in KnownTypes

\* evaluate_rules: a rule of an unknown type is skipped, and one that is not
\* required never counts against the user.
EvaluateRules(rules, numbers) ==
    \A i \in 1 .. Len(rules) :
        Created(rules[i]) /\ rules[i].required => Check(rules[i], numbers)

\* check_eligibility answers ELIGIBLE.
CheckEligibility(k) ==
    /\ EvaluateRules(Rules[k], number)
    /\ eligible' = eligible \cup {k}
    /\ UNCHANGED number

\* The user trades or holds on: one of the numbers grows.
Grow(t) ==
    /\ number[t] < MaxNumber
    /\ number' = [number EXCEPT ![t] = @ + 1]
    /\ UNCHANGED eligible

RulesNext ==
    \/ \E k \in DOMAIN Rules : CheckEligibility(k)
    \/ \E t \in KnownTypes : Grow(t)

RulesSpec == RulesInit /\ [][RulesNext]_rulesVars

\* Who was told to be eligible is told so again as long as the numbers only grow:
\* no rule, of whatever type and however combined, counts more activity against a
\* user.
EligibleStays == \A k \in eligible : EvaluateRules(Rules[k], number)
=============================================================================
