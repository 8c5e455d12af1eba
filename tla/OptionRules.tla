----------------------------- MODULE OptionRules -----------------------------
(***************************************************************************)
(* What ingest makes of one option of a record (_normalize_option,         *)
(* _apply_party_inference_v3, _apply_candidate_verification in             *)
(* app/services/ingest_service.py; app/services/ingest_input_normalization *)
(* .py): its type, its party, whether its candidate is verified, and       *)
(* whether somebody has to look at it.                                     *)
(*                                                                         *)
(* Confidences are in percent, NoConfidence where the column is NULL.  A   *)
(* name is noise when is_noise_candidate_token says so.  Parties of        *)
(* candidates are those of the record's candidate rows, a sequence a name. *)
(***************************************************************************)
EXTENDS Integers, Sequences, FiniteSets

NoConfidence == -1
ReviewThreshold == 80

CandidateTypes == {"candidate", "candidate_matchup"}

\* signals: which key words the name of an approval option has; question: those of the
\* text of its question, which only the route looks at.
PayloadOption(parties) ==
  [type : CandidateTypes \cup {"presidential_approval", "party_support"},
   signals : SUBSET {"job", "frame"}, question : SUBSET {"job", "frame"},
   noise : BOOLEAN, party : parties \cup {"none"}, inferred : BOOLEAN,
   confidence : {NoConfidence} \cup 0 .. 100, review : BOOLEAN]

\* What is known of the option's name: the parties of the record's candidates of that
\* name (none: ""), and the first entry the registry has for it.
NameContext(parties) ==
  [listed : BOOLEAN, parties : Seq(parties), registry : {"absent", "nameless"} \cup parties]

-----------------------------------------------------------------------------
\* normalize_option_type: [type, reason]
OptionType(type, signals) ==
  IF type # "presidential_approval" THEN [type |-> type, reason |-> "none"]
  ELSE CASE signals = {"job"} -> [type |-> "president_job_approval", reason |-> "none"]
         [] signals = {"frame"} -> [type |-> "election_frame", reason |-> "none"]
         [] signals = {} -> [type |-> type, reason |-> "unclassified"]
         [] OTHER -> [type |-> type, reason |-> "ambiguous"]

\* normalize_option_fields, of the route.
RouteOption(o) ==
  LET class == OptionType(o.type, o.signals \cup o.question)
  IN [o EXCEPT !.type = class.type, !.review = @ \/ class.reason # "none"]

\* _normalize_option: an inferred party's confidence replaces the payload's own mark.
NormalizedOption_Flag(o) ==   \* mutant: the confidence is not looked at
  LET class == OptionType(o.type, o.signals)
  IN [option |-> [o EXCEPT !.type = class.type, !.review = o.review \/ class.reason # "none"],
      reason |-> class.reason]

NormalizedOption(o) ==
  LET class == OptionType(o.type, o.signals)
      marked == IF o.inferred /\ o.confidence # NoConfidence
                THEN o.confidence < ReviewThreshold ELSE o.review
  IN [option |-> [o EXCEPT !.type = class.type, !.review = marked \/ class.reason # "none"],
      reason |-> class.reason]

-----------------------------------------------------------------------------
Times(parties, p) == Cardinality({i \in DOMAIN parties : parties[i] = p})

\* Counter.most_common(1): the most frequent party, the first of several.
MostCommon(parties) ==
  LET best == {i \in DOMAIN parties :
                 \A j \in DOMAIN parties : Times(parties, parties[i]) >= Times(parties, parties[j])}
  IN parties[CHOOSE i \in best : \A j \in best : i <= j]

\* One candidate row settles it; of several the share of the most frequent party counts,
\* kept between 55 and 95.
ContextConfidence(parties) ==
  LET share == (100 * Times(parties, MostCommon(parties))) \div Len(parties)
  IN IF Len(parties) = 1 THEN 93
     ELSE IF share < 55 THEN 55 ELSE IF share > 95 THEN 95 ELSE share

WithParty(o, party, confidence) ==
  [o EXCEPT !.party = party, !.inferred = TRUE, !.confidence = confidence,
            !.review = @ \/ confidence < ReviewThreshold]

\* _apply_party_inference_v3
PartyInferred(o, context) ==
  IF o.type \notin CandidateTypes \/ o.noise \/ o.party # "none" THEN o
  ELSE IF context.parties # <<>>
  THEN WithParty(o, MostCommon(context.parties), ContextConfidence(context.parties))
  ELSE IF context.registry \in {"absent", "nameless"} THEN o
  ELSE WithParty(o, context.registry, 88)

\* _apply_candidate_verification: [option, verified, source, confidence, reason]
CandidateVerified(o, context) ==
  LET party == IF context.parties # <<>> THEN MostCommon(context.parties) ELSE o.party
      Result(verified, source, confidence, reason) ==
        [option |-> [o EXCEPT !.review = @ \/ reason # "none"],
         verified |-> verified, source |-> source, confidence |-> confidence, reason |-> reason]
  IN CASE o.type \notin CandidateTypes -> Result(TRUE, "manual", 100, "none")
       [] o.type \in CandidateTypes /\ o.noise -> Result(FALSE, "manual", 0, "noise")
       [] o.type \in CandidateTypes /\ ~ o.noise /\ context.registry # "absent" ->
            Result(TRUE, "data_go",
                   IF party = "none" \/ context.registry = "nameless" THEN 90
                   ELSE IF party = context.registry THEN 98 ELSE 82, "none")
       [] o.type \in CandidateTypes /\ ~ o.noise /\ context.registry = "absent" ->
            IF context.listed THEN Result(TRUE, "article_context", 68, "none")
            ELSE Result(FALSE, "manual", 20, "unverified")

\* The option that is stored, and the notes the record's review rows hold of it.
StoredOption(o, context) ==
  LET normal == NormalizedOption(RouteOption(o))
      result == CandidateVerified(PartyInferred(normal.option, context), context)
      final == result.option
  IN [option |-> final, verified |-> result.verified,
      notes |-> {n \in {"option_type", "candidate", "party"} :
                   CASE n = "option_type" -> normal.reason # "none"
                     [] n = "candidate" -> result.reason # "none"
                     [] n = "party" -> /\ final.inferred /\ final.confidence # NoConfidence
                                       /\ final.confidence < ReviewThreshold}]
=============================================================================
