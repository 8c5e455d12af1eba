--------------------------- MODULE ScenarioOptions ---------------------------
(***************************************************************************)
(* The option rows of an observation and the scenario rules of the ingest  *)
(* service. An option is identified within its observation by type, name   *)
(* and scenario key, as the table's unique constraint has it. Options here *)
(* are those of a record after _normalize_option and                       *)
(* _repair_candidate_matchup_scenarios, which rewrite the record alone.    *)
(***************************************************************************)

CONSTANT Name      \* option names

OptionType == {"candidate_matchup", "party_support"}
Scenario == {"default", "h2h", "multi"}

Option == [type : OptionType, name : Name, scenario : Scenario]

IsCandidate(o) == o.type = "candidate_matchup"
IsDefaultCandidate(o) == IsCandidate(o) /\ o.scenario = "default"

\* _has_explicit_candidate_scenarios
HasExplicitScenarios(options) ==
    \E o \in options : IsCandidate(o) /\ o.scenario # "default"

MultiCandidates(options) ==
    {o \in options : IsCandidate(o) /\ o.scenario = "multi"}

\* Mutated: the default rows are deleted without a backfill.
Backfilled_Never(options, names) == options

\* _backfill_multi_from_default_candidates: the names of the stored default
\* rows join the record's multi-candidate scenario, when it has one.
Backfilled(options, names) ==
    IF MultiCandidates(options) = {} THEN options
    ELSE options \cup {[type |-> "candidate_matchup", name |-> n, scenario |-> "multi"] :
                          n \in names}

=============================================================================
