----------------------------- MODULE MatchupView -----------------------------
(***************************************************************************)
(* GET /matchups/{matchup_id}: which of a matchup's polls the page shows   *)
(* and what it makes of their options (get_matchup and its helpers in      *)
(* app/services/repository.py, get_matchup in app/api/routes.py).          *)
(***************************************************************************)
EXTENDS ReadRows, Sequences, FiniteSetsExt

CONSTANTS RecentLimit,  \* how many observations are looked at: 5
          TitleOrder    \* the order of the titles that the scenario keys have

\* _fetch_recent_matchup_observations: verified or not.
RecentObservations(table, m) ==
  TopRows({o \in table : o.matchup = m}, RecentLimit, NewestFirst)

\* _normalize_options: options of every type, save unverified ones (dropped by the
\* query), noise, and candidates that only a manual entry vouches for.
ValidOptions(o) == {p \in o.options : p.ok /\ p.name \notin Noise /\ ~ p.weak}
NoiseBlocked(o) == Cardinality({p \in o.options : p.ok /\ p.name \in Noise})

ScenarioKeys(options) == {p.scenario : p \in options}

QualityScore(o) ==
  LET keys == ScenarioKeys(ValidOptions(o))
  IN  <<IF Cardinality(keys) >= 3 THEN 1 ELSE 0,
        IF keys \ {"default"} # {} THEN 1 ELSE 0,
        Cardinality(keys), Cardinality(ValidOptions(o))>>

\* SelectedObservation when the newest is taken.
SelectedObservation_Newest(recent) ==
  CHOOSE o \in Leading({q \in recent : ValidOptions(q) # {}} \cup
                       {q \in recent : \A r \in recent : ValidOptions(r) = {}}, NewestFirst) : TRUE

\* The observation whose poll is shown: the best score, the newest of equals; when
\* nothing can be shown, the one with the most noise, or just the newest.
SelectedObservation(recent) ==
  LET showable == {o \in recent : ValidOptions(o) # {}}
      noisy    == {o \in recent : NoiseBlocked(o) > 0}
      TheOne(S, Key(_)) == CHOOSE o \in Leading(S, Key) : TRUE
  IN  IF showable # {} THEN TheOne(showable, LAMBDA o : QualityScore(o) \o NewestFirst(o))
      ELSE IF noisy # {} THEN TheOne(noisy, LAMBDA o : <<NoiseBlocked(o)>> \o NewestFirst(o))
      ELSE TheOne(recent, NewestFirst)

\* BundleOf when it is forgotten that the recent polls are several.
BundleOf_All(recent, sel) == recent

\* The selected observation with the others of the same poll.
BundleOf(recent, sel) == {o \in recent : o.bundle = sel.bundle}

\* _matchup_option_identity: one option per identity, from the newest observation.
Identity(p) == <<p.scenario, p.name, p.value>>
MergedOptions(bundle) ==
  UNION {{[scenario |-> p.scenario, name |-> p.name, value |-> p.value, kind |-> p.kind] :
            p \in {q \in ValidOptions(o) :
                     \A n \in bundle : Beats(NewestFirst(n), NewestFirst(o)) =>
                       \A r \in ValidOptions(n) : Identity(r) # Identity(q)}} :
         o \in bundle}

\* The options of a scenario are sorted by value, then by name; the first that says
\* what kind of contest it is decides for all.
OptionOrder(p) == <<p.value, - NameOrder[p.name]>>
InferScenarioType(items) ==
  LET typed == {p \in items : p.kind # ""}
  IN  IF typed # {} THEN (CHOOSE p \in Leading(typed, OptionOrder) : TRUE).kind
      ELSE IF Cardinality(items) <= 2 THEN "head_to_head" ELSE "multi_candidate"

BuildMatchupScenarios(options) ==
  {[key |-> k, items |-> {p \in options : p.scenario = k},
    kind |-> InferScenarioType({p \in options : p.scenario = k})] : k \in ScenarioKeys(options)}

\* PrimaryOptions when only "default" will do.
PrimaryOptions_Default(scenarios) == UNION {s.items : s \in {r \in scenarios : r.key = "default"}}

\* The scenario that the page calls its options: "default", or the first in order.
PrimaryOptions(scenarios) ==
  LET default == {s \in scenarios : s.key = "default"}
      Order(s) == <<IF s.kind = "head_to_head" THEN 1 ELSE 0, - TitleOrder[s.key]>>
  IN  IF scenarios = {} THEN {}
      ELSE (CHOOSE s \in Leading(IF default # {} THEN default ELSE scenarios, Order) : TRUE).items

\* Repository.get_matchup; guard: the observation it puts on the review queue because
\* noise was all there was.
MatchupPage(table, m, open) ==
  LET recent    == RecentObservations(table, m)
      sel       == SelectedObservation(recent)
      bundle    == BundleOf(recent, sel)
      scenarios == BuildMatchupScenarios(MergedOptions(bundle))
      primary   == PrimaryOptions(scenarios)
      blocked   == IF \E o \in recent : ValidOptions(o) # {}
                   THEN MapThenSumSet(NoiseBlocked, bundle) ELSE NoiseBlocked(sel)
  IN  IF recent = {}
      THEN [shown |-> {}, scenarios |-> {}, options |-> {}, blocked |-> 0,
            guard |-> {}, review |-> FALSE]
      ELSE [shown |-> {sel}, scenarios |-> scenarios, options |-> primary,
            blocked |-> blocked,
            guard |-> IF blocked > 0 /\ primary = {} THEN {sel.key} ELSE {},
            review |-> sel.key \in open \/ (blocked > 0 /\ primary = {})]

\* The endpoint: a page whose observation the cutoff excludes is not found, and one
\* without a poll shows incumbents.
GetMatchup(table, m, open) ==
  LET page == MatchupPage(table, m, open)
  IN  [found    |-> \A o \in page.shown : CutoffEligible(o),
       page     |-> page,
       hasData  |-> page.options # {},
       fallback |-> IF page.options = {} /\ \A s \in page.scenarios : s.items = {}
                    THEN "incumbent" ELSE "none"]
=============================================================================
