----------------------------- MODULE Extraction -----------------------------
(***************************************************************************)
(* What the collector reads out of one article (PollCollector.extract,     *)
(* src/pipeline/collector.py), what the live-news pack adds to it from the *)
(* whole article and from the NESDC register, and the ingest records made  *)
(* of it (src/pipeline/ingest_adapter.py).                                 *)
(*                                                                         *)
(* A page is what the regular expressions find: its segments begin at the  *)
(* names of pollsters, in the order of the text, the first one possibly    *)
(* without a name.  sample stands for sample size, response rate and       *)
(* margin of error, 0 for a missing number or date, "none" for a missing   *)
(* pollster.  focus: the segment has a sentence with a percentage that     *)
(* speaks of a poll or an office; its values are those of such sentences,  *)
(* loose those of all.  multi, races and anchor, the words a survey splits *)
(* its candidates into scenarios with, may stand in the title, too.  Dates *)
(* count the units of a calendar of YearLength units a year, the first of  *)
(* year y being y * YearLength + 1.  Numbers beside words that are no      *)
(* candidate's name are left out.                                          *)
(***************************************************************************)
EXTENDS ScenarioRepair

CONSTANTS YearLength,
          ThisYear,     \* stands in for the year of an article without any day
          Signals,      \* the relative dates in the order the code looks for them
          CertainFrom,  \* confidence from which an inferred date needs no review (0.8)
          Penalty,      \* what an estimated one loses (0.25)
          LeastSure,    \* and keeps (0.35)
          Register      \* the NESDC entries of each pollster, in order

\* What the expressions find: names with values, head-to-heads, periods.  A period without
\* a year counts within the year.
NamedValue == [name : STRING, value : Int]
Race ==
  {r \in [left : STRING, leftValue : Int, right : STRING, rightValue : Int] : r.left # r.right}
SaidPeriod ==
  {p \in [year : BOOLEAN, start : Nat \ {0}, end : Nat \ {0}, turns : BOOLEAN, exists : BOOLEAN] :
     p.year \/ (p.start <= YearLength /\ p.end <= YearLength)}
SurveySegment ==
  {s \in [pollster : DOMAIN Register, sample : Nat, duels : Seq(NamedValue), focus : BOOLEAN,
          values : Seq(NamedValue), loose : Seq(NamedValue), period : Seq(SaidPeriod),
          multi : BOOLEAN, races : Seq(Race), anchor : Seq(NamedValue)] :
     s.values # <<>> => s.focus}
Headline ==
  [duels : Seq(NamedValue), values : Seq(NamedValue), multi : BOOLEAN, races : Seq(Race),
   anchor : Seq(NamedValue)]
ArticlePage ==
  [signature : STRING, published : Nat, collected : Nat, words : SUBSET STRING, keywords : Nat,
   opinion : BOOLEAN, percent : BOOLEAN, survey : BOOLEAN, policyOnly : BOOLEAN, mapped : BOOLEAN,
   quality : BOOLEAN, sponsor : BOOLEAN, title : Headline,
   segs : Seq(SurveySegment)]

ASSUME ExtractionAssumption ==
  /\ YearLength \in Nat \ {0} /\ ThisYear \in Nat /\ Tolerance \in Nat
  /\ Signals \in Seq([word : STRING, offset : Int, confidence : 0 .. 100])
  /\ \A i \in DOMAIN Signals : Signals[i].offset <= 0
  /\ CertainFrom \in 0 .. 100 /\ Penalty \in Nat /\ LeastSure \in 0 .. 100
  /\ Register \in [DOMAIN Register -> Seq([sample : Nat, start : Nat, day : Nat])]
  /\ "none" \in DOMAIN Register

Said(segs, field) == FlattenSeq([i \in DOMAIN segs |-> segs[i][field]])

First(s, none) == IF s = <<>> THEN none ELSE s[1]

Once(s) == Kept(s, {i \in DOMAIN s : \A j \in 1 .. i - 1 : s[j] # s[i]})

Samples(segs) ==
  Kept([i \in DOMAIN segs |-> segs[i].sample], {i \in DOMAIN segs : segs[i].sample # 0})

\* _extract_pollster_tokens
PollsterTokens(segs) ==
  Once(Kept([i \in DOMAIN segs |-> segs[i].pollster],
            {i \in DOMAIN segs : segs[i].pollster # "none"}))

\* extract_candidate_pairs_v2 of a text, with the title or without: the head-to-heads, or
\* else the names with a value; when there is a title or a sentence of focus, those of the
\* title and of such sentences only, even if they are none.
CandidatePairs(segs, title) ==
  LET duels == Said(segs, "duels") \o Said(title, "duels")
      values == Said(segs, "values") \o Said(title, "values")
  IN Once(IF duels # <<>> THEN duels
          ELSE IF title # <<>> \/ (\E i \in DOMAIN segs : segs[i].focus) THEN values
          ELSE Said(segs, "loose"))

-----------------------------------------------------------------------------
(* The surveys of an article.                                              *)

At(page, block) == [k \in DOMAIN block |-> page.segs[block[k]]]

AddTo(blocks, more) == [blocks EXCEPT ![Len(blocks)] = @ \o more]

\* _split_survey_blocks: neighbours of one pollster are one block, a block without numbers
\* goes to the one before, or, at the beginning, to the one after; fewer than two are one.
SplitSurveyBlocks(page) ==
  LET whole == [i \in DOMAIN page.segs |-> i]
      Several(blocks) == IF Len(blocks) >= 2 THEN blocks ELSE <<whole>>
      PollsterOf(block) == First(PollsterTokens(At(page, block)), "none")
      Group(blocks, i) ==
        IF blocks # <<>> /\ PollsterOf(Last(blocks)) \in {"none", page.segs[i].pollster}
        THEN AddTo(blocks, <<i>>) ELSE Append(blocks, <<i>>)
      Merge(st, b) ==
        LET block == st.pending \o b
        IN IF CandidatePairs(At(page, block), <<>>) # <<>>
           THEN [merged |-> Append(st.merged, block), pending |-> <<>>]
           ELSE IF st.merged # <<>> THEN [st EXCEPT !.merged = AddTo(@, block)]
           ELSE [st EXCEPT !.pending = block]
  IN Several(FoldLeft(Merge, [merged |-> <<>>, pending |-> <<>>],
                      FoldLeft(Group, <<>>, whole)).merged)

-----------------------------------------------------------------------------
(* When a survey took place.                                               *)

YearOf(date) == (date - 1) \div YearLength

FirstDate(page) == IF page.published # 0 THEN page.published ELSE page.collected

\* _extract_survey_period: the first period with a year, else the first without; the year
\* of the article stands in, and the next one for an end whose month is before that of the
\* start (turns).  A period with a day that does not exist is none, whatever follows.
SurveyPeriod(page, segs) ==
  LET periods == Said(segs, "period")
      dated == Kept(periods, {i \in DOMAIN periods : periods[i].year})
      p == IF dated # <<>> THEN dated[1] ELSE periods[1]
      base == YearLength * (IF FirstDate(page) = 0 THEN ThisYear ELSE YearOf(FirstDate(page)))
      wrap == IF p.turns THEN YearLength ELSE 0
  IN IF periods = <<>> THEN <<0, 0>>
     ELSE IF ~ p.exists THEN <<0, 0>>
     ELSE IF p.year THEN <<p.start, p.end>>
     ELSE <<base + p.start, base + wrap + p.end>>

\* A mutant: the day of collection is the anchor although there is a day of publication.
InferSurveyDate_Collected(page, policy) ==
  LET found == Kept(Signals, {i \in DOMAIN Signals : Signals[i].word \in page.words})
      s == found[1]
  IN IF found # <<>> /\ page.collected # 0
     THEN [end |-> page.collected + s.offset, mode |-> "relative_published_at",
           confidence |-> s.confidence,
           review |-> IF s.confidence < CertainFrom THEN {"RELATIVE_DATE_UNCERTAIN"} ELSE {}]
     ELSE [end |-> page.published, mode |-> "published_at_exact", confidence |-> 100,
           review |-> {}]

\* _find_relative_date_signal and _resolve_survey_date_inference: a relative date counts
\* from the day of publication; from that of collection only where the policy allows it.
\* Without either day no relative date is looked for.
InferSurveyDate(page, policy) ==
  LET found == IF FirstDate(page) = 0 THEN <<>>
               ELSE Kept(Signals, {i \in DOMAIN Signals : Signals[i].word \in page.words})
      s == found[1]
      Inference(end, mode, confidence, review) ==
        [end |-> end, mode |-> mode, confidence |-> confidence, review |-> review]
      less == s.confidence - Penalty
  IN IF found = <<>>
     THEN IF page.published = 0 THEN Inference(0, "published_at_missing", 0, {})
          ELSE Inference(page.published, "published_at_exact", 100, {})
     ELSE IF page.published # 0
     THEN Inference(page.published + s.offset, "relative_published_at", s.confidence,
            IF s.confidence < CertainFrom THEN {"RELATIVE_DATE_UNCERTAIN"} ELSE {})
     ELSE IF policy = "allow_estimated_timestamp"
     THEN Inference(page.collected + s.offset, "estimated_timestamp",
            IF less < LeastSure THEN LeastSure ELSE less, {"RELATIVE_DATE_ESTIMATED"})
     ELSE Inference(0, "strict_fail_blocked", 0, {"RELATIVE_DATE_STRICT_FAIL"})

-----------------------------------------------------------------------------
(* Scenarios of the candidates of one block.                               *)

\* A name and value of the text: the row for it among those not taken, or a copy of a row
\* of the same name; without any such row there is none (at is 0).
Found(rows, taken, name, value) ==
  LET Among(fit) ==
        IF fit # {} THEN [rows |-> rows, at |-> Nearest(rows, fit, value)]
        ELSE IF Named(rows, name) = {} THEN [rows |-> rows, at |-> 0]
        ELSE [rows |-> Cloned(rows, name, value), at |-> Len(rows) + 1]
  IN Among(Matching(rows, name, value, taken))

\* One pair of the text: both rows go to its head-to-head, or neither, a copy made staying.
Paired(st, p) ==
  LET key == HeadToHead(p.left, p.right)
      Both(l, r) ==
        IF 0 \in {l.at, r.at} THEN [st EXCEPT !.rows = r.rows]
        ELSE [rows |-> [r.rows EXCEPT ![l.at].value = p.leftValue, ![l.at].key = key,
                                      ![r.at].value = p.rightValue, ![r.at].key = key],
              taken |-> st.taken \cup {l.at, r.at},
              anchor |-> IF st.anchor = <<>> THEN <<p.left>> ELSE st.anchor]
      Left(l) == Both(l, Found(l.rows, st.taken, p.right, p.rightValue))
  IN Left(Found(st.rows, st.taken, p.left, p.leftValue))

\* _split_candidate_matchup_scenarios: two pairs or more, and what they leave over is the
\* multi-candidate scenario.  The name after its word gets the value of the text.
SplitCandidates(rows, text) ==
  LET a == text.anchor[1]
      Valued(last) ==
        IF last.at = 0 THEN last.rows ELSE [last.rows EXCEPT ![last.at].value = a.value]
      Anchored(st) ==
        IF text.anchor = <<>> THEN st.rows
        ELSE Valued(Found(st.rows, st.taken, a.name, a.value))
      Rest(st, valued) ==
        IF st.anchor = <<>> THEN valued
        ELSE [i \in DOMAIN valued |-> IF i \in st.taken THEN valued[i]
                                      ELSE [valued[i] EXCEPT !.key = Multi(st.anchor[1])]]
      Split(st) == Rest(st, Anchored(st))
  IN IF ~ text.multi \/ Len(rows) < 3 \/ Len(text.pairs) < 2 THEN rows
     ELSE Split(FoldLeft(Paired, [rows |-> rows, taken |-> {}, anchor |-> <<>>], text.pairs))

-----------------------------------------------------------------------------
\* pre_extract_gate: "PASS", or why nothing is read out of an article.
PreExtractGate(page) ==
  CASE page.policyOnly -> "GATE_POLICY_QUALITATIVE_ONLY"
    [] ~ page.policyOnly /\ CandidatePairs(page.segs, <<page.title>>) = <<>> ->
         "GATE_NO_CANDIDATE_NUMERIC_SIGNAL"
    [] ~ page.policyOnly /\ CandidatePairs(page.segs, <<page.title>>) # <<>> /\ ~ page.mapped ->
         "GATE_REGION_OFFICE_UNMAPPED"
    [] OTHER -> "PASS"

\* _diagnose_extract_failure
DiagnoseExtractFailure(page) ==
  CASE page.policyOnly -> "POLICY_ONLY_SIGNAL"
    [] ~ page.policyOnly /\ ~ page.percent -> "NO_NUMERIC_SIGNAL"
    [] ~ page.policyOnly /\ page.percent /\ page.title.duels \o page.title.values = <<>> ->
         "NO_TITLE_CANDIDATE_SIGNAL"
    [] OTHER -> "NO_BODY_CANDIDATE_SIGNAL"

\* Candidate rows of the pairs found, all of the default scenario.
BuildOptions(pairs) ==
  [i \in DOMAIN pairs |-> [name |-> pairs[i].name, value |-> pairs[i].value,
                           key |-> Default, whose |-> pairs[i].name]]

\* What the split of a block's candidates looks at: the title of the article, which every
\* observation has for its survey_name, and then the text of the block (_extract_h2h_pairs,
\* _extract_multi_anchor).
ScenarioWords(page, segs) ==
  LET spoken == <<page.title>> \o segs
  IN [multi |-> \E i \in DOMAIN spoken : spoken[i].multi,
      pairs |-> Once(Said(spoken, "races")), anchor |-> Said(spoken, "anchor")]

\* A mutant: the candidates are looked for in the whole article.
OptionsOf_WholeArticle(page, segs, alone) ==
  SplitCandidates(BuildOptions(CandidatePairs(page.segs, IF alone THEN <<page.title>> ELSE <<>>)),
                  ScenarioWords(page, segs))

\* The options of a block: its candidate pairs, with those of the title if it is the whole
\* article, split into scenarios.
OptionsOf(page, segs, alone) ==
  SplitCandidates(BuildOptions(CandidatePairs(segs, IF alone THEN <<page.title>> ELSE <<>>)),
                  ScenarioWords(page, segs))

\* A block's observation, with what was inferred of the article's day.
Observation(page, inferred, block, alone) ==
  LET From(segs, own) ==
        [block |-> block,
         pollster |-> First(PollsterTokens(segs), First(PollsterTokens(page.segs), "none")),
         sample |-> First(Samples(segs), 0),
         start |-> own[1], end |-> IF own[2] # 0 THEN own[2] ELSE inferred.end,
         mode |-> inferred.mode, confidence |-> inferred.confidence,
         options |-> OptionsOf(page, segs, alone)]
  IN From(At(page, block), SurveyPeriod(page, At(page, block)))

\* The review rows about one observation.
ObservationReviews(page, o) ==
  {x \in {"MULTIPLE_POLLSTER_TOKENS_IN_OBSERVATION"} : Len(PollsterTokens(At(page, o.block))) >= 2}
    \cup {x \in {DiagnoseExtractFailure(page)} : o.options = <<>>}

\* extract: observations, and the codes of the review rows about the article itself.
Extract(page, policy) ==
  LET Read(blocks, inferred) ==
        [observations |-> [k \in DOMAIN blocks |->
                             Observation(page, inferred, blocks[k], Len(blocks) = 1)],
         review |-> inferred.review]
  IN IF page.mapped THEN Read(SplitSurveyBlocks(page), InferSurveyDate(page, policy))
     ELSE [observations |-> <<>>, review |-> {"REGION_OFFICE_NOT_MAPPED"}]

-----------------------------------------------------------------------------
(* The live-news pack.                                                     *)

\* _pick_nesdc_enrichment: the entry of the same day if there is one, then the more
\* complete; the first one for an observation without a day.
PickEntry(entries, day) ==
  LET Rank(e) == (IF e.day = day THEN 0 ELSE 2) + (IF e.sample = 0 THEN 1 ELSE 0)
  IN entries[CHOOSE i \in DOMAIN entries : \A j \in DOMAIN entries \ {i} :
       IF day = 0 THEN i < j
       ELSE Rank(entries[i]) < Rank(entries[j]) \/ (Rank(entries[i]) = Rank(entries[j]) /\ i < j)]

\* _apply_observation_enrichment: missing numbers from the whole article, then numbers and
\* days from the register's entry of the pollster.
Enriched(o, page) ==
  LET entries == Register[o.pollster]
      sample == IF o.sample # 0 THEN o.sample ELSE First(Samples(page.segs), 0)
      From(best) == [o EXCEPT !.sample = IF sample # 0 THEN sample ELSE best.sample,
                              !.start = IF @ = 0 THEN best.start ELSE @,
                              !.end = IF @ = 0 THEN best.day ELSE @]
  IN IF entries = <<>> THEN [o EXCEPT !.sample = sample]
     ELSE From(PickEntry(entries, IF o.end # 0 THEN o.end ELSE o.start))

\* _compute_completeness below the threshold: five of six fields, of which three are the
\* numbers, one the sponsor, one the period, and one, the pollster, is never empty.
Incomplete(o, page) ==
  o.sample = 0 \/ (o.start = 0 /\ o.end = 0 /\ ~ page.sponsor)
=============================================================================
