------------------------------ MODULE ReadRows ------------------------------
(***************************************************************************)
(* The stored observations as the read endpoints see them                  *)
(* (app/services/repository.py, app/api/routes.py), and what the endpoints *)
(* share: the order of rows, the cutoff of the API, the meaning of a name. *)
(*                                                                         *)
(* Times and dates are naturals, 0 where the column is NULL. source_channel*)
(* and source_channels are only ever used together: channels is their      *)
(* union. A grade is its rank, a legal completeness score a small number;  *)
(* aggregate: the pollster's name has one of ARTICLE_AGGREGATE_HINTS;      *)
(* intent: the region whose governor the title of its article names;      *)
(* legacy: the title is one of an earlier election; bundle: what           *)
(* _observation_bundle_key makes of the fingerprint or the poll's data.    *)
(***************************************************************************)
EXTENDS Integers, FiniteSets

CONSTANTS Names,       \* option names
          Noise,       \* those that is_noise_candidate_token tells from a candidate's
          NameOrder,   \* the order of names in ORDER BY option_name
          Cutoff       \* ARTICLE_PUBLISHED_AT_CUTOFF_KST and SURVEY_END_DATE_CUTOFF

Null == -1             \* a NULL value_mid

SummaryTypes ==
  {"party_support", "president_job_approval", "election_frame", "presidential_approval"}

\* Option rows: ok is candidate_verified, value is value_mid, kind is scenario_type;
\* weak: _is_low_quality_manual_candidate_option finds the candidate unconfirmed.
OptionRow ==
  [type : SummaryTypes \cup {"candidate_matchup"}, name : Names, scenario : STRING,
   kind : {"head_to_head", "multi_candidate", ""}, value : Nat \cup {Null},
   ok : BOOLEAN, weak : BOOLEAN]

ObservationRow ==
  [id : Nat, key : STRING, matchup : STRING, region : STRING, office : STRING,
   scope : {"national", "regional", "local", "none"}, survey : Nat,
   channels : SUBSET {"article", "nesdc"}, aggregate : BOOLEAN, grade : 0 .. 5,
   legal : Nat, release : Nat, published : Nat, updated : Nat, verified : BOOLEAN,
   intent : STRING, legacy : BOOLEAN, bundle : STRING, options : SUBSET OptionRow]

-----------------------------------------------------------------------------
(* Orders: a sort key is a tuple, larger first.                            *)

Beats(k, l) == \E i \in DOMAIN k : k[i] > l[i] /\ \A j \in 1 .. i - 1 : k[j] = l[j]
Leading(S, Key(_)) == {x \in S : \A y \in S : ~ Beats(Key(y), Key(x))}

\* The rows j of a ROW_NUMBER() window that come first in their partition.
FirstOf(rows, Part(_), Key(_)) ==
  {j \in rows : \A k \in rows : Part(k) = Part(j) => ~ Beats(Key(k), Key(j))}

\* ORDER BY ... LIMIT: the rows that fewer than n others precede.
TopRows(rows, n, Key(_)) ==
  {r \in rows : Cardinality({q \in rows : Beats(Key(q), Key(r))}) < n}

\* ORDER BY survey_end_date DESC NULLS LAST, id DESC
NewestFirst(o) == <<o.survey, o.id>>

\* COALESCE over times.
FirstSet(s) ==
  IF \A i \in DOMAIN s : s[i] = 0 THEN 0
  ELSE s[CHOOSE i \in DOMAIN s : s[i] # 0 /\ \A j \in 1 .. i - 1 : s[j] = 0]

\* The as_of filter: a row without a survey date fails the comparison.
Upto(o, asOf) == asOf = 0 \/ (o.survey # 0 /\ o.survey <= asOf)

\* poll_options joined to their observations.
Joined(table) == UNION {{[obs |-> o, opt |-> p] : p \in o.options} : o \in table}

IsNesdc(o) == "nesdc" \in o.channels
IsArticle(o) == "article" \in o.channels

\* A survey before the cutoff, or an article from before it, is not shown; a row
\* without a channel counts as an article's.
CutoffEligible(o) ==
  /\ o.survey = 0 \/ o.survey >= Cutoff
  /\ IsArticle(o) \/ o.channels = {} => o.published = 0 \/ o.published >= Cutoff

\* The time a reader is told the data is from (_derive_source_meta): an official
\* row without a release date passes its last update off as one.
ReleaseShown(o) == IF o.release = 0 /\ IsNesdc(o) THEN o.updated ELSE o.release
FreshnessAnchor(o) == FirstSet(<<ReleaseShown(o), o.published, o.updated>>)
SourcePriority(o) ==
  IF IsNesdc(o) THEN IF IsArticle(o) THEN "mixed" ELSE "official" ELSE "article"
=============================================================================
