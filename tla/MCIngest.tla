------------------------------- MODULE MCIngest -------------------------------
(***************************************************************************)
(* Payloads for model-checking Ingest. A record is built from a plain one  *)
(* by naming what is special about it.                                     *)
(***************************************************************************)
EXTENDS Ingest, TLC

CONSTANTS k1, k2, k3, k4,    \* observation keys
          p1, p2,            \* polls
          m1, g1, u1, c1,    \* a matchup, a region, an article, a candidate
          s1, s2             \* processes

Default(n) == [type |-> "candidate_matchup", name |-> n, scenario |-> "default"]
H2h(n) == [type |-> "candidate_matchup", name |-> n, scenario |-> "h2h"]
Multi(n) == [type |-> "candidate_matchup", name |-> n, scenario |-> "multi"]
Party == [type |-> "party_support", name |-> "kim", scenario |-> "default"]

Plain(key, poll, source) ==
    [key |-> key, poll |-> poll, office |-> "metro", matchup |-> m1, region |-> g1,
     carriesRegion |-> TRUE, article |-> u1, source |-> source, verified |-> FALSE,
     grade |-> "C", staleSurvey |-> FALSE, staleArticle |-> FALSE, scope |-> "ok",
     date |-> "exact", candidates |-> <<>>, options |-> {Party}, incomplete |-> FALSE,
     notes |-> <<>>]

Nesdc(key, poll) == [Plain(key, poll, "nesdc") EXCEPT !.verified = TRUE, !.grade = "A"]

(***************************************************************************)
(* Every kind of record: two sources of one poll, a default record and an  *)
(* explicit one of the same poll, the rejections, a conflicting office, a  *)
(* record without its region row, the reviews.                             *)
(***************************************************************************)
ArticleDefault ==
    [Plain(k1, p1, "article") EXCEPT !.options = {Default("kim"), Party},
        !.candidates = <<[id |-> c1, gap |-> TRUE], [id |-> c1, gap |-> TRUE]>>,
        !.date = "estimated_timestamp", !.notes = <<"party_inference_low_confidence">>]

NesdcExplicit ==
    [Nesdc(k2, p1) EXCEPT !.options = {H2h("lee"), Multi("lee")}, !.incomplete = TRUE]

NoRegionRow ==
    [Plain(k3, p2, "article") EXCEPT !.carriesRegion = FALSE, !.grade = "B"]

StaleSurvey == [Plain(k3, p2, "article") EXCEPT !.staleSurvey = TRUE]
StaleArticle == [Plain(k3, p2, "article") EXCEPT !.staleArticle = TRUE]
HardFail == [Plain(k3, p2, "article") EXCEPT !.scope = "hard_fail", !.date = "strict_fail_blocked"]
OtherOffice ==
    [Plain(k4, p1, "article") EXCEPT !.office = "local", !.date = "strict_fail_blocked"]

SerialPayloads ==
    {<<ArticleDefault, NesdcExplicit>>, <<NesdcExplicit>>, <<ArticleDefault>>,
     <<StaleSurvey, NoRegionRow>>, <<StaleArticle, HardFail>>, <<OtherOffice>>}

(***************************************************************************)
(* Two processes: sources of one poll that race for its row, and a record  *)
(* with explicit scenarios racing one with defaults.                       *)
(***************************************************************************)
RaceArticle == [Plain(k1, p1, "article") EXCEPT !.options = {Default("kim")}]
RaceNesdc == [Nesdc(k2, p1) EXCEPT !.options = {Multi("lee")}, !.carriesRegion = FALSE]
Corrected == [Plain(k1, p2, "article") EXCEPT !.grade = "B", !.options = {}]

RacePayloads == {<<RaceArticle>>, <<RaceNesdc>>}
ConcurrentPayloads == RacePayloads \cup {<<Corrected>>}

Processes == Permutations(Proc)
===============================================================================
