----------------------------- MODULE ScopeRules -----------------------------
(***************************************************************************)
(* Whom a poll asked and for which office (app/services/ingest_service.py, *)
(* ingest_input_normalization.py), as operators on one record: the hard    *)
(* guard on the office, the correction by the survey's name, the scope     *)
(* inferred from the sampling population, and their resolution.            *)
(*                                                                         *)
(* A region is <<province, district>>, district 0 the whole of it; None    *)
(* stands for a missing region, office or scope.  A text is the sequence   *)
(* of the offices it names ("mayor of ..."), those whose place the alias   *)
(* table knows.  Confidences are in percent.                               *)
(***************************************************************************)
EXTENDS Integers, Sequences

CONSTANT Provinces   \* their numbers, in the order of SCOPE_HARDGUARD_NEEDLES

ASSUME ProvincesAssumption == Provinces \subseteq Nat \ {0}

Region == Provinces \X {0, 1}
NoRegion == <<0, 0>>
IsProvince(r) == r # NoRegion /\ r[2] = 0
ProvinceOf(r) == <<r[1], 0>>

Scopes == {"national", "regional", "local"}

\* The heads of a metropolis and of a province are called mayor and governor and have one
\* office type, that of a district is a mayor of the other type.
Phrase ==
  {p \in [place : Region, office : {"mayor", "governor", "superintendent"}] :
     p.office = "mayor" \/ IsProvince(p.place)}

Population ==
  [national : BOOLEAN, regional : BOOLEAN, local : BOOLEAN, region : Region \cup {NoRegion}]

ScopeRecord ==
  [title : Seq(Phrase), body : Seq(Phrase), survey : Seq(Phrase),
   office : STRING, region : Region, matchup : STRING \X Region,
   regionRow : Region \cup {NoRegion}, scope : Scopes \cup {"none"},
   audience : Region \cup {NoRegion}, population : Population]

-----------------------------------------------------------------------------
\* normalize_observation_fields, before the record reaches ingest_payload.
AudienceNormalised(rec) ==
  [rec EXCEPT !.audience = IF rec.scope = "national" THEN NoRegion
                           ELSE IF rec.scope # "none" /\ @ = NoRegion THEN rec.region
                           ELSE @]

For(rec, office, region) ==
  [rec EXCEPT !.office = office, !.region = region, !.matchup = <<office, region>>]

\* The provinces whose head some text of the record names.
GuardedPlaces(rec) ==
  LET phrases == rec.title \o rec.body \o rec.survey
  IN {phrases[i].place : i \in {j \in DOMAIN phrases : /\ IsProvince(phrases[j].place)
                                                       /\ phrases[j].office # "superintendent"}}

\* The first of the table forces the office on the observation and its region row.
ScopeHardguard(rec) ==
  LET places == GuardedPlaces(rec)
      first == CHOOSE r \in places : \A q \in places : r[1] <= q[1]
  IN IF places = {} THEN rec
     ELSE [For(rec, "metropolitan", first)
             EXCEPT !.regionRow = IF @ = NoRegion THEN NoRegion ELSE first]

PhraseOffice(phrase) ==
  CASE phrase.office = "superintendent" -> "superintendent"
    [] phrase.office = "mayor" /\ ~ IsProvince(phrase.place) -> "district"
    [] OTHER -> "metropolitan"

\* The first office the survey's name or else the title names; it also stands for a scope
\* the record does not declare.  The region row is not touched.
SurveyNameCorrection(rec) ==
  LET named == rec.survey \o rec.title
      place == named[1].place
      known == rec.scope # "none"
  IN IF named = <<>> THEN rec
     ELSE [For(rec, PhraseOffice(named[1]), place)
             EXCEPT !.scope = IF known THEN @
                              ELSE IF IsProvince(place) THEN "regional" ELSE "local"]

-----------------------------------------------------------------------------
\* _infer_scope_from_sampling_population
Scores(p) ==
  LET hint(b) == IF b THEN 1 ELSE 0
      code(b) == IF b THEN 2 ELSE 0
  IN [national |-> IF p.national THEN 3 ELSE 0,
      regional |-> hint(p.regional) + code(IsProvince(p.region)),
      local |-> hint(p.local) + code(p.region # NoRegion /\ ~ IsProvince(p.region))]

Inferred(p) ==
  LET score == Scores(p)
      best == {s \in Scopes : \A t \in Scopes : score[s] >= score[t]}
      top == CHOOSE s \in best : TRUE
      clear == \A t \in Scopes \ {top} : score[top] - score[t] >= 2
  IN IF best = Scopes /\ score[top] = 0 THEN [scope |-> "none", confidence |-> 0]
     ELSE IF best # {top} THEN [scope |-> "none", confidence |-> 60]
     ELSE [scope |-> top, confidence |-> IF clear THEN 92 ELSE 80]

ConflictThreshold == 80

\* The region that goes with the scope: the declared one, the population's, the
\* observation's; a whole province for a regional scope, the observation's district
\* rather than a province for a local one.
AudienceRegion_Declared(rec, scope) == rec.audience   \* mutant: nothing is brought in line

AudienceRegion(rec, scope) ==
  LET inferred == rec.population.region
      region == IF rec.audience # NoRegion THEN rec.audience
                ELSE IF inferred # NoRegion THEN inferred ELSE rec.region
  IN CASE scope = "national" -> NoRegion
       [] scope = "regional" -> ProvinceOf(region)
       [] scope = "local" /\ IsProvince(region) /\ ~ IsProvince(rec.region) -> rec.region
       [] OTHER -> region

\* _resolve_observation_scope: [conflict, scope, audience]
Resolved(rec) ==
  LET inferred == Inferred(rec.population)
      sure == inferred.confidence >= ConflictThreshold
      scope == IF rec.scope # "none" THEN rec.scope
               ELSE IF inferred.scope # "none" THEN inferred.scope
               ELSE IF IsProvince(rec.region) THEN "regional" ELSE "local"
      \* neither region is missing where this is asked
      differ == IF scope = "regional"
                THEN ProvinceOf(rec.audience) # ProvinceOf(rec.population.region)
                ELSE rec.audience # rec.population.region
      conflict ==
        CASE /\ rec.scope # "none" /\ inferred.scope # "none"
             /\ rec.scope # inferred.scope /\ sure -> "population"
          [] /\ scope # "national"
             /\ rec.audience # NoRegion /\ rec.population.region # NoRegion
             /\ differ /\ sure -> "region"
          [] OTHER -> "none"
  IN [conflict |-> conflict, scope |-> scope, audience |-> AudienceRegion(rec, scope)]

\* What ingest_payload makes of a record of the route, and of one that comes normalised.
Placed(rec) == SurveyNameCorrection(ScopeHardguard(AudienceNormalised(rec)))

\* The observation as it is stored, and whether it is turned away instead.
Scoped(rec) ==
  LET placed == Placed(rec) res == Resolved(placed)
  IN [rec |-> [placed EXCEPT !.scope = res.scope, !.audience = res.audience],
      conflict |-> res.conflict]
=============================================================================
