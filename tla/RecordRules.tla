----------------------------- MODULE RecordRules -----------------------------
(***************************************************************************)
(* The rules ingest applies to the parts of one record, and what they      *)
(* promise together.  A behaviour takes one part of a record (its          *)
(* candidate rows with the survey's text, its observation, one of its      *)
(* options) and applies its rules, or those the collector has applied to   *)
(* the candidate rows before.                                              *)
(***************************************************************************)
EXTENDS Extraction, ScopeRules, OptionRules

CONSTANTS ScenarioCases,   \* [rows, text]
          ScopeCases,      \* records
          OptionCases      \* [option, context]

ASSUME RecordAssumption ==
  /\ ScenarioCases \subseteq [rows : Seq(CandidateRow(STRING, Int)), text : ScenarioText(STRING, Int)]
  /\ ScopeCases \subseteq ScopeRecord
  /\ OptionCases \subseteq [option : PayloadOption(STRING), context : NameContext(STRING)]

VARIABLES part,     \* which rules, and what they are applied to
          outcome   \* what they made of it; <<>> before

recordVars == <<part, outcome>>

RulesOf(p) ==
  CASE p.rule = "scenario" -> Repaired(p.case.rows, p.case.text)
    [] p.rule = "collected" -> SplitCandidates(p.case.rows, p.case.text)
    [] p.rule = "scope" -> Scoped(p.case)
    [] p.rule = "option" -> StoredOption(p.case.option, p.case.context)

Parts ==
  [rule : {"scenario"}, case : ScenarioCases]
    \cup [rule : {"collected"}, case : {c \in ScenarioCases : Explicit(c.rows) = <<>>}]
    \cup [rule : {"scope"}, case : ScopeCases]
    \cup [rule : {"option"}, case : OptionCases]

RecordInit == part \in Parts /\ outcome = <<>>

ApplyRules ==
  /\ outcome = <<>>
  /\ outcome' = <<RulesOf(part)>>
  /\ UNCHANGED part

RecordSpec == RecordInit /\ [][ApplyRules]_recordVars

Ruled(rule) == part.rule = rule /\ outcome # <<>>

-----------------------------------------------------------------------------
(* Scenarios.                                                              *)

Pairs(text) == {text.pairs[i] : i \in DOMAIN text.pairs}
PairRows(p) == {<<p.left, p.leftValue>>, <<p.right, p.rightValue>>}
ValuesOf(rows, key) == {<<r.name, r.value>> : r \in RowsOf(rows, key)}

\* The text names two head-to-heads or more, all of different pairs, and the rows are all
\* default ones.
Materialises(case) ==
  LET pairs == case.text.pairs
  IN /\ case.text.multi /\ Len(pairs) >= 2 /\ Len(case.rows) >= 3
     /\ \A i, j \in DOMAIN pairs :
          i # j => {pairs[i].left, pairs[i].right} # {pairs[j].left, pairs[j].right}
     /\ Explicit(case.rows) = <<>>

\* Every head-to-head of the text is stored with its own two values.  The comment above
\* the code says "materialize separate scenario groups (h2h/h2h/multi)".
PairsMaterialised ==
  Ruled("scenario") /\ Materialises(part.case) =>
    \A p \in Pairs(part.case.text) :
      ValuesOf(outcome[1], HeadToHead(p.left, p.right)) = PairRows(p)

\* When the text lists the multi-candidate race as well, each scenario is stored with
\* exactly the names and values the text gives it, and nothing else is, whichever rows
\* were extracted; when explicit rows are mixed with default ones, no default row is
\* left, and the listed names, or else every name of a default row, are in one
\* multi-candidate scenario; and no row carries the party of another name's candidate.
\* Where the collector has split the rows itself, each pair whose names it knows has its
\* two values, no default row is left, and ingest changes nothing any more.
ScenariosSplit ==
  LET case == part.case
      rows == outcome[1]
      items == {<<case.text.items[i].name, case.text.items[i].value>> :
                  i \in DOMAIN case.text.items}
      speaks == case.text.multi \/ case.text.twoway
      multiKeys == {rows[i].key : i \in {j \in DOMAIN rows : IsMulti(rows[j])}}
      inMulti == UNION {{r.name : r \in RowsOf(rows, key)} : key \in multiKeys}
      named == {Defaults(case.rows)[i].name : i \in DOMAIN Defaults(case.rows)}
      different == \A i, j \in DOMAIN case.text.pairs : i # j =>
        {case.text.pairs[i].left, case.text.pairs[i].right}
          # {case.text.pairs[j].left, case.text.pairs[j].right}
      known == {case.rows[i].name : i \in DOMAIN case.rows}
  IN
  /\ Ruled("collected") /\ Explicit(rows) # <<>> =>
     /\ Defaults(rows) = <<>> /\ Repaired(rows, case.text) = rows
     /\ different => \A p \in Pairs(case.text) : {p.left, p.right} \subseteq known =>
          ValuesOf(rows, HeadToHead(p.left, p.right)) = PairRows(p)
  /\ Ruled("scenario") =>
     /\ Materialises(case) /\ items # {} =>
          /\ \A p \in Pairs(case.text) :
               ValuesOf(rows, HeadToHead(p.left, p.right)) = PairRows(p)
          /\ ValuesOf(rows, Multi(case.text.pairs[1].left)) = items
          /\ \A i \in DOMAIN rows :
               rows[i].key \in {HeadToHead(p.left, p.right) : p \in Pairs(case.text)}
                                 \cup {Multi(case.text.pairs[1].left)}
     /\ \A i \in DOMAIN rows : rows[i].whose \in {rows[i].name, "nobody"}
     /\ speaks /\ Len(case.rows) >= 3 /\ Explicit(case.rows) # <<>> =>
          /\ Defaults(rows) = <<>>
          /\ IF items = {} THEN named \subseteq inMulti
             ELSE named # {} =>
                    items = ValuesOf(rows, MultiKey(Explicit(case.rows)))

-----------------------------------------------------------------------------
(* Scope.                                                                  *)

\* A record that is not turned away has the scope its sampling population clearly says,
\* and an audience region that fits the scope: none for a national poll, a province for
\* a regional one, for a local one of a district no province (docs/02, 9.5 and 9.6).
\* Where a text names the head of a province and neither the survey's name nor the title
\* names another office, the record is about such a head (issue 465), and the region row
\* it brings, the matchup and the observation agree on the province.
ScopeSettled ==
  LET case == part.case
      rec == outcome[1].rec
      clear == Inferred(case.population)
      others == case.survey \o case.title
  IN Ruled("scope") =>
     /\ outcome[1].conflict = "none" =>
          /\ clear.scope # "none" => rec.scope = clear.scope
          /\ rec.scope = "national" => rec.audience = NoRegion
          /\ rec.scope = "regional" => IsProvince(rec.audience)
          /\ rec.scope = "local" /\ ~ IsProvince(rec.region) => ~ IsProvince(rec.audience)
          /\ rec.scope # "national" /\ clear.confidence >= ConflictThreshold
               /\ case.population.region # NoRegion =>
             ProvinceOf(rec.audience) = ProvinceOf(case.population.region)
     /\ GuardedPlaces(case) # {} /\ (\A i \in DOMAIN others : others[i].place \in GuardedPlaces(case)
                                        /\ others[i].office # "superintendent") =>
          /\ rec.office = "metropolitan" /\ IsProvince(rec.region)
          /\ rec.matchup = <<rec.office, rec.region>>
     /\ GuardedPlaces(case) # {} /\ others = <<>> /\ rec.regionRow # NoRegion =>
          rec.regionRow = rec.region

-----------------------------------------------------------------------------
(* Options.                                                                *)

\* Every option that the record's review rows speak of, and every candidate that could
\* not be verified, is stored marked for review; so is an approval option that the route
\* could not classify, unless an inferred party made up its mind otherwise; a noise token is
\* never a verified candidate, and no party is inferred for it.
OptionsMarked ==
  LET case == part.case
      stored == outcome[1]
  IN Ruled("option") =>
     /\ stored.notes # {} => stored.option.review
     /\ ~ stored.verified => stored.option.review
     /\ case.option.type \in CandidateTypes /\ case.option.noise =>
          ~ stored.verified /\ stored.option.party = case.option.party
     /\ RouteOption(case.option).review /\ ~ case.option.inferred => stored.option.review
=============================================================================
