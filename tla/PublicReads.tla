----------------------------- MODULE PublicReads -----------------------------
(***************************************************************************)
(* The read endpoints over a database that ingests keep changing.  A step  *)
(* of the model is a commit of one observation with its options, as        *)
(* upsert_poll_observation and upsert_poll_option leave it (how they get   *)
(* there is the matter of Ingest), or time passing; the endpoints are      *)
(* functions of the state.  Between two of its own commits an observation  *)
(* may lack options: an offered row without them is such a moment.         *)
(***************************************************************************)
EXTENDS Dashboards, MatchupView

CONSTANTS Polls,        \* observations that ingests may commit, under several families
          Families,     \* the families: a run of the model stays in one
          MaxRows,      \* bound on the rows of the table
          MaxNow,       \* bound on the clock
          Limit,        \* the limit parameter of the lists
          RegionOrder   \* the collation of region codes

ASSUME ReadsAssumption ==
  /\ MaxRows \in Nat /\ MaxNow \in Nat /\ Limit \in Nat /\ Day \in Nat \ {0}
  /\ \A f \in Families : Polls[f] \subseteq ObservationRow
  /\ \A f \in Families : \A o \in Polls[f] :
       /\ IsFiniteSet(o.options) /\ MatchupOrder[o.matchup] \in Int
       /\ \A p \in o.options : TitleOrder[p.scenario] \in Int /\ NameOrder[p.name] \in Int

VARIABLES table,    \* poll_observations with their poll_options and articles
          family,   \* which polls come
          now,      \* the clock, for the ages of the quality report
          open      \* observations with a pending or in_progress review row

vars == <<table, family, now, open>>

Init ==
  /\ table = {} /\ open = {}
  /\ family \in Families
  /\ now = 0

\* A first observation gets the next id.
StoreNew(o) ==
  /\ Cardinality(table) < MaxRows
  /\ \A q \in table : q.key # o.key
  /\ table' = table \cup {[o EXCEPT !.id = Cardinality(table) + 1]}
  /\ UNCHANGED <<family, now, open>>

\* A later one replaces it under its id; channels are united.
StoreAgain(o) ==
  /\ \E q \in table :
       /\ q.key = o.key
       /\ table' = (table \ {q}) \cup {[o EXCEPT !.id = q.id, !.channels = @ \cup q.channels]}
  /\ UNCHANGED <<family, now, open>>

\* A look at the page of a matchup queues the observation that was all noise.
ViewMatchup(m) ==
  /\ open' = open \cup MatchupPage(table, m, open).guard
  /\ UNCHANGED <<table, family, now>>

\* An operator decides the review rows of an observation.
Decide(k) ==
  /\ open' = open \ {k}
  /\ UNCHANGED <<table, family, now>>

Tick ==
  /\ now < MaxNow
  /\ now' = now + 1
  /\ UNCHANGED <<table, family, open>>

Matchups == {o.matchup : o \in Polls[family]}

Next ==
  \/ \E o \in Polls[family] : StoreNew(o) \/ StoreAgain(o)
  \/ \E m \in Matchups : ViewMatchup(m)
  \/ \E k \in open : Decide(k)
  \/ Tick

Spec == Init /\ [][Next]_vars

-----------------------------------------------------------------------------
(* Properties of the dashboards.                                           *)

Policy(o) == <<IF IsNesdc(o) THEN 1 ELSE 0, o.grade, FirstSet(<<o.release, o.published>>), o.updated>>

NationalRows ==
  {j \in Joined(table) : j.opt.type \in SummaryTypes /\ j.obs.verified /\ j.obs.scope = "national"}

SameCard(j, k) == Bucket(j.opt) = Bucket(k.opt) /\ j.opt.name = k.opt.name

\* The two stages of the summary, the window of the query and the choice of the
\* endpoint, follow one policy: a card is beaten by no eligible row of the table, and
\* an eligible row goes without a card only behind a row the cutoff took away after
\* the query had preferred it.
SummaryFollowsPolicy ==
  LET cards    == GetDashboardSummary(table, 0)
      eligible == {j \in NationalRows : CutoffEligible(j.obs)}
  IN  \A j \in eligible :
        \/ \E c \in cards : SameCard(c, j) /\ ~ Beats(Policy(j.obs), Policy(c.obs))
        \/ \E k \in NationalRows \ eligible :
             /\ k.opt.name = j.opt.name /\ k.opt.type = j.opt.type
             /\ ~ Beats(Policy(j.obs), Policy(k.obs))

\* The card and the trend of a name rest on the same polls: once a point of the trend
\* is official, the card of the name is official, or the cutoff has taken it away.
CardAsOfficialAsTrend ==
  \A p \in GetTrends(table, "party_support", "national", "", 1),
     c \in GetDashboardSummary(table, 0) :
    p.opt.name = c.opt.name /\ c.opt.type = "party_support" /\ IsNesdc(p.obs) => IsNesdc(c.obs)

\* A spread is the distance of the leader's value to the next lower one of the same
\* poll, so that a dead heat never has spread 0; and a race is missing from the list
\* only if its newest verified poll has no candidate to show, a later day notwith-
\* standing, or the list is full.
SpreadIsTheGap ==
  LET races == FetchDashboardBigMatches(table, 0, Limit)
  IN  /\ \A m \in races : m.spread # Null =>
           m.spread > 0 /\ ~ \E v \in Values(m.obs) : m.value - m.spread < v /\ v < m.value
      /\ \A o \in table :
           \/ \E m \in races : m.obs.matchup = o.matchup
           \/ Cardinality(races) >= Limit
           \/ ~ o.verified \/ Values(o) = {}
           \/ \E q \in table : q.matchup = o.matchup /\ q.verified /\ Values(q) = {}
                               /\ Beats(NewestFirst(q), NewestFirst(o))

\* An item of the map stands for the best scope that has a poll of its region and
\* office, the latest day of that scope, and its leader; the counts of the filter
\* account for every row it dropped.
MapStandsForTheRegion ==
  LET map == GetDashboardMapLatest(table, 0, Limit, RegionOrder)
  IN  /\ \A i \in map.items, o \in table :
           /\ o.verified /\ o.region = i.obs.region /\ o.office = i.obs.office /\ Values(o) # {}
           => \/ ScopeClass(o) < ScopeClass(i.obs)
              \/ o.scope = i.obs.scope /\ o.survey <= i.obs.survey
      /\ \A i \in map.items : i.opt.value = Max(Values(i.obs))
      /\ map.total = Cardinality(map.items) + MapThenSumSet(LAMBDA r : map.counts[r], DOMAIN map.counts)

\* Left alone, the quality report never gets better: ages only grow, and no share of
\* old polls, percentile or backlog counts the other way.
Severity == [healthy |-> 0, warn |-> 1, critical |-> 2]
QualityOnlyAges ==
  [][table' = table =>
       Severity[QualityStatus(table, now', Cardinality(open), 0)]
         >= Severity[QualityStatus(table, now, Cardinality(open), 0)]]_<<now, table>>

-----------------------------------------------------------------------------
(* Properties of the matchup page.                                         *)

\* A poll with fewer scenarios or options never displaces a richer one: the score of
\* what is shown only falls when the shown poll has left the recent ones or has been
\* changed itself.
RicherPollStays ==
  [][\A m \in Matchups :
       \A old \in {RecentObservations(table, m)}, new \in {RecentObservations(table', m)} :
         old # {} /\ SelectedObservation(old) \in new =>
           ~ Beats(QualityScore(SelectedObservation(old)), QualityScore(SelectedObservation(new)))]_vars

\* The page falls back to incumbents if and only if none of the recent polls has an
\* option that may be shown (docs/02_DATA_MODEL_AND_NORMALIZATION.md, 6.24 and 6.25),
\* and every option it does show stands in a recent poll of the shown bundle.
IncumbentsOnlyWithoutPoll ==
  \A m \in Matchups :
    LET out == GetMatchup(table, m, open)
    IN  /\ (out.fallback = "incumbent")
             <=> \A o \in RecentObservations(table, m) : ValidOptions(o) = {}
        /\ out.hasData <=> out.fallback = "none"
        /\ \A s \in out.page.scenarios : \A p \in s.items :
             \E o \in RecentObservations(table, m) : \E q \in ValidOptions(o) :
               /\ Identity(q) = Identity(p)
               /\ \A x \in out.page.shown : o.bundle = x.bundle

\* No candidate stands twice in a scenario, unless two rows of the same poll (which a
\* race of ingests leaves, see Ingest) give different values.
NoCandidateTwice ==
  \A m \in Matchups :
    \A s \in MatchupPage(table, m, open).scenarios : \A p, q \in s.items :
      p.name = q.name /\ p # q =>
        \E o, n \in RecentObservations(table, m) :
          /\ o.bundle = n.bundle /\ o # n
          /\ \E r \in ValidOptions(o) : Identity(r) = Identity(p)
          /\ \E r \in ValidOptions(n) : Identity(r) = Identity(q)

=============================================================================
