----------------------------- MODULE Dashboards -----------------------------
(***************************************************************************)
(* The dashboard endpoints of the API as functions of the stored polls:    *)
(* the SQL of app/services/repository.py followed by the selection and the *)
(* filters of app/api/routes.py.                                           *)
(***************************************************************************)
EXTENDS ReadRows, Sequences, FiniteSetsExt

CONSTANTS MapNoise,      \* names that the filters of the map take for something else
          FrameNames,    \* names _classify_presidential_option takes for an election frame
          LocalOffices,  \* offices of a municipality
          MatchupOrder,  \* the collation of matchup ids
          Sido           \* the province a region code lies in

ScopeBreakdown(rows) ==
  [s \in {"national", "regional", "local", "none"} |-> Cardinality({r \in rows : r.obs.scope = s})]

-----------------------------------------------------------------------------
(* GET /dashboard/summary                                                  *)

\* SummaryRank when the grade comes before the source.
SummaryRank_GradeFirst(j) ==
  <<j.obs.grade, IF IsNesdc(j.obs) THEN 1 ELSE 0,
    FirstSet(<<j.obs.release, j.obs.published>>), j.obs.updated, j.obs.id>>

SummaryRank(j) ==
  <<IF IsNesdc(j.obs) THEN 1 ELSE 0, j.obs.grade,
    FirstSet(<<j.obs.release, j.obs.published>>), j.obs.updated, j.obs.id>>

\* One row per option type, name and scope: the best-ranked verified poll that has it.
FetchDashboardSummary(table, asOf) ==
  FirstOf({j \in Joined(table) : /\ j.opt.type \in SummaryTypes
                                 /\ j.obs.verified /\ Upto(j.obs, asOf)},
          LAMBDA j : <<j.opt.type, j.opt.name, j.obs.scope>>, SummaryRank)

\* The card an option belongs to; the old common type is told apart by the name.
Bucket(p) ==
  IF p.type # "presidential_approval" THEN p.type
  ELSE IF p.name \in FrameNames THEN "election_frame" ELSE "president_job_approval"

\* summary_single_set_v1, and first come first kept in the order of the rows.
SingleSetKey(j) ==
  <<IF IsNesdc(j.obs) THEN 1 ELSE 0, j.obs.grade,
    FirstSet(<<j.obs.release, j.obs.published>>), j.obs.updated,
    IF j.opt.type = "presidential_approval" THEN 0 ELSE 1>>

SummaryEligible(table, asOf) ==
  {j \in FetchDashboardSummary(table, asOf) : CutoffEligible(j.obs)}

GetDashboardSummary(table, asOf) ==
  FirstOf({j \in SummaryEligible(table, asOf) : j.obs.scope = "national"},
          LAMBDA j : <<Bucket(j.opt), j.opt.name>>, SingleSetKey)

\* Which sources the page says it is from: those of every national row that passed
\* the cutoff, shown or not.
DataSource(rows) ==
  LET channels == UNION {j.obs.channels : j \in {k \in rows : k.obs.scope = "national"}}
  IN  IF "nesdc" \notin channels THEN "article"
      ELSE IF "article" \in channels THEN "mixed" ELSE "official"

SelectedReason(o) == IF IsNesdc(o) THEN "official_preferred" ELSE "latest_fallback"

-----------------------------------------------------------------------------
(* GET /trends/{metric}                                                    *)

TierScore(o) == IF IsNesdc(o) THEN 3 ELSE IF o.aggregate THEN 2 ELSE 1

FetchTrends(table, metric, scope, region, since) ==
  {j \in Joined(table) :
     /\ j.opt.type = metric /\ j.obs.verified /\ j.obs.scope = scope
     /\ j.obs.survey # 0 /\ j.obs.survey >= since
     /\ scope \in {"regional", "local"} => j.obs.region = region}

\* One point per survey day and name: tier, then grade, then the newest row.
GetTrends(table, metric, scope, region, since) ==
  FirstOf({j \in FetchTrends(table, metric, scope, region, since) : CutoffEligible(j.obs)},
          LAMBDA j : <<j.obs.survey, j.opt.name>>,
          LAMBDA j : <<TierScore(j.obs), j.obs.grade, j.obs.id>>)

-----------------------------------------------------------------------------
(* GET /dashboard/map-latest                                               *)

Candidacy(j) == j.opt.type = "candidate_matchup" /\ j.opt.ok /\ j.opt.value # Null

ChannelClass(o) == (IF IsNesdc(o) THEN 2 ELSE 0) + (IF IsArticle(o) THEN 1 ELSE 0)
ScopeClass(o) ==
  CASE o.scope = "regional" -> 3 [] o.scope = "local" -> 2 [] o.scope = "national" -> 1
    [] OTHER -> 0

LastKnown(o) == FirstSet(<<o.release, o.published, o.updated>>)

MapRank(j) ==
  <<j.obs.survey, ChannelClass(j.obs), j.obs.legal, LastKnown(j.obs), j.obs.id,
    j.opt.value, - NameOrder[j.opt.name]>>

\* ScopeRank when the day comes before the scope.
ScopeRank_DayFirst(j) ==
  <<j.obs.survey, ScopeClass(j.obs), LastKnown(j.obs), j.opt.value, - NameOrder[j.opt.name]>>

ScopeRank(j) ==
  <<ScopeClass(j.obs), j.obs.survey, LastKnown(j.obs), j.opt.value, - NameOrder[j.opt.name]>>

\* The leader of the latest poll of each region, office and scope; then the scope
\* that says most of the region.
MapWinners(table, asOf) ==
  FirstOf(FirstOf({j \in Joined(table) : Candidacy(j) /\ j.obs.verified /\ Upto(j.obs, asOf)},
                  LAMBDA j : <<j.obs.region, j.obs.office, j.obs.scope>>, MapRank),
          LAMBDA j : <<j.obs.region, j.obs.office>>, ScopeRank)

\* _is_scope_title_intent_leak
IntentLeak(o) ==
  o.intent # "" /\ (o.office \in LocalOffices \/ o.intent # Sido[o.region])

\* Why a row is kept from the map: the key it is counted under, "" when it is shown.
ExclusionReason(j) ==
  CASE ~ CutoffEligible(j.obs) -> "stale_cycle"
    [] j.opt.name \in MapNoise -> "invalid_candidate_option_name"
    [] j.obs.legacy -> "legacy_title"
    [] IntentLeak(j.obs) -> "scope_title_intent_leak"
    [] OTHER -> ""

\* LIMIT counts the rows before the filters of the endpoint.  regionOrder is the
\* collation of the region codes.
FetchDashboardMapLatest(table, asOf, limit, regionOrder) ==
  TopRows(MapWinners(table, asOf), limit, LAMBDA j : <<- regionOrder[j.obs.region]>>)

GetDashboardMapLatest(table, asOf, limit, regionOrder) ==
  LET rows == FetchDashboardMapLatest(table, asOf, limit, regionOrder)
  IN  [items  |-> {j \in rows : ExclusionReason(j) = ""},
       total  |-> Cardinality(rows),
       counts |-> [r \in {ExclusionReason(j) : j \in rows} \ {""} |->
                     Cardinality({j \in rows : ExclusionReason(j) = r})]]

-----------------------------------------------------------------------------
(* GET /dashboard/big-matches                                              *)

LatestPolls(table, asOf) ==
  FirstOf({o \in table : o.verified /\ Upto(o, asOf)}, LAMBDA o : o.matchup, NewestFirst)

\* Two distinct values make a spread: DENSE_RANK gives equal values one rank, and the
\* options of every scenario of the poll are ranked together.
Values(o) == {p.value : p \in {q \in o.options : Candidacy([obs |-> o, opt |-> q])}}
\* Spread when the last takes the place of the second.
Spread_ToLast(o) == IF Values(o) = {} THEN Null ELSE Max(Values(o)) - Min(Values(o))

Spread(o) ==
  IF Cardinality(Values(o)) < 2 THEN Null
  ELSE Max(Values(o)) - Max(Values(o) \ {Max(Values(o))})

Closest(m) ==
  <<IF m.spread = Null THEN 0 ELSE 1, - m.spread, m.obs.survey, - MatchupOrder[m.obs.matchup]>>

FetchDashboardBigMatches(table, asOf, limit) ==
  TopRows({[obs |-> o, value |-> Max(Values(o)), spread |-> Spread(o)] :
             o \in {q \in LatestPolls(table, asOf) : Values(q) # {}}}, limit, Closest)

GetDashboardBigMatches(table, asOf, limit) ==
  {m \in FetchDashboardBigMatches(table, asOf, limit) : CutoffEligible(m.obs)}

-----------------------------------------------------------------------------
(* GET /dashboard/quality, GET /ops/coverage/summary.  Hours are counted in*)
(* days: 24 hours are Day units of the clock.                              *)

CONSTANT Day

\* Age when whole periods are dropped, as timedelta.seconds would.
Age_Remainder(o, now) == (now - LastKnown(o)) % (3 * Day)

Age(o, now) == now - LastKnown(o)

\* The n-th in the order of the ages.
NthAge(verified, now, n) ==
  CHOOSE a \in {Age(o, now) : o \in verified} :
    n \in Cardinality({o \in verified : Age(o, now) < a}) + 1
           .. Cardinality({o \in verified : Age(o, now) <= a})

\* percentile_cont(0.9) over n ages interpolates at position 9(n-1)/10: ten times it.
PercentileTen(ages, tenths) ==
  LET n    == Len(ages)
      low  == (tenths * (n - 1)) \div 10
      rest == (tenths * (n - 1)) % 10
      high == IF low + 2 > n THEN n ELSE low + 2
  IN  (10 - rest) * ages[low + 1] + rest * ages[high]

Worst(levels) ==
  IF "critical" \in levels THEN "critical" ELSE IF "warn" \in levels THEN "warn" ELSE "healthy"

Older(verified, now, days) == Cardinality({o \in verified : Age(o, now) > days * Day})

FreshnessStatus(verified, now) ==
  LET n    == Cardinality(verified)
      p90  == PercentileTen([i \in 1 .. n |-> NthAge(verified, now, i)], 9)
  IN  IF n = 0 THEN "warn"
      ELSE IF p90 > 30 * Day \/ 10 * Older(verified, now, 2) >= 3 * n THEN "critical"
      ELSE IF p90 > 20 * Day \/ 10 * Older(verified, now, 1) >= 3 * n THEN "warn"
      ELSE "healthy"

\* Without a poll the ratio is 0.
OfficialStatus(verified) ==
  LET n == Cardinality(verified)
      k == Cardinality({o \in verified : IsNesdc(o)})
  IN  IF n = 0 \/ 10 * k < 4 * n THEN "critical" ELSE IF 10 * k < 7 * n THEN "warn" ELSE "healthy"

ReviewStatus(open, pendingOverDay) ==
  IF pendingOverDay >= 20 \/ open >= 50 THEN "critical"
  ELSE IF pendingOverDay >= 5 \/ open >= 10 THEN "warn" ELSE "healthy"

QualityStatus(table, now, open, pendingOverDay) ==
  LET verified == {o \in table : o.verified}
  IN  Worst({FreshnessStatus(verified, now), OfficialStatus(verified),
             ReviewStatus(open, pendingOverDay)})

\* The baseline and the polls are counted by two statements.
CoverageState(regionsTotal, table) ==
  IF table = {} THEN "empty"
  ELSE IF regionsTotal = 0 \/ Cardinality({o.region : o \in table}) < regionsTotal
  THEN "partial" ELSE "ready"
=============================================================================
